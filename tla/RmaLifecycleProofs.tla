-------------------------- MODULE RmaLifecycleProofs --------------------------
(***************************************************************************)
(* What RmaLifecycle keeps true for any number of RMAs, items, accounts    *)
(* and configurations.  The inductive invariant is a condition on each     *)
(* item by itself (ItemOK), one on each RMA by itself (RmaOK) and five     *)
(* that relate the two.  The second part carries it over to concurrent     *)
(* requests, which look like operations made one at a time; the third      *)
(* draws from it what the queue, the pages and the answers show.           *)
(***************************************************************************)
EXTENDS RmaRequests, RmaPanel, WellFoundedInduction, TLAPS

\* What holds of an item whatever its RMA.  Beyond ItemChecks: arrival is
\* recorded only by the stages past the receipt, the deadline started only by
\* those past the diagnosis, and an item still to be shipped has no shipment.
ItemOK(row) ==
  /\ row \in ItemRow
  /\ ItemChecks(row)
  /\ row.stage \in BEFORE_RECEIPT_STAGES => ~row.receivedAt
  /\ row.stage \in {"aguardando_envio", "enviado", "recebido"} => ~row.slaStartedAt
  /\ row.stage = "aguardando_envio" => row.shipments = 0
  /\ row.shipments \in {0, 1}
  /\ row.receipts = IF row.receivedAt THEN 1 ELSE 0

\* What holds of an RMA whatever its items.
RmaOK(row) ==
  /\ row \in RmaRow
  /\ row.origin = "nenhuma" => row = NoRma
  /\ row.cancelledAt => row.closedAt

BlankUntilOpened ==
  \A i \in Items : ~Exists(RmaOf[i]) => items[i] = NewItem

ShipmentOfCustomer ==
  \A i \in Items : rmas[RmaOf[i]].origin = "cliente" =>
    items[i].shipments = IF items[i].stage = "aguardando_envio" THEN 0 ELSE 1

IInv ==
  /\ rmas \in [Rmas -> RmaRow]
  /\ items \in [Items -> ItemRow]
  /\ envSlaHours \in SlaHours
  /\ \A i \in Items : ItemOK(items[i])
  /\ \A r \in Rmas : RmaOK(rmas[r])
  /\ BlankUntilOpened
  /\ ShipmentOfCustomer
  /\ VideoBeforeReturn
  /\ ClosesByItself
  /\ ReturnListIsWhatArrived

-----------------------------------------------------------------------------
(* The stages.                                                             *)

LEMMA StageSets ==
  /\ SHIPPABLE_STAGES = {"aguardando_envio"}
  /\ RECEIVABLE_STAGES = {"enviado"}
  /\ BEFORE_RECEIPT_STAGES = {"aguardando_envio", "enviado"}
  /\ SLA_FINISHED_STAGES = {"devolucao", "finalizado"}
  BY DEF SHIPPABLE_STAGES, RECEIVABLE_STAGES, BEFORE_RECEIPT_STAGES, previousStages,
         NEXT_STAGES, RMA_ITEM_STAGES, SLA_FINISHED_STAGES, SLA_END_STAGE

\* A stage change by the team starts from the receipt on and never leads back
\* before it; the deadline starts with it from the receipt only, ends with it
\* from the proof only, and the delivery comes from the return only.
LEMMA StageChange ==
  ASSUME NEW to \in RMA_ITEM_STAGES, NEW from \in stagesChangeableTo(to)
  PROVE  /\ from \in RMA_ITEM_STAGES
         /\ from \notin {"aguardando_envio", "enviado", "finalizado"}
         /\ to \notin {"aguardando_envio", "enviado", "recebido"}
         /\ to = "em_diagnostico" <=> from = "recebido"
         /\ to = "devolucao" <=> from = "comprovacao"
         /\ to = "finalizado" <=> from = "devolucao"
  BY DEF stagesChangeableTo, canChangeStage, OWN_OPERATION_STAGES, NEXT_STAGES,
         RMA_ITEM_STAGES

-----------------------------------------------------------------------------
(* One item through one operation.                                         *)

LEMMA NewItemOK ==
  ItemOK(NewItem)
  BY StageSets, NoneAssumption DEF ItemOK, NewItem, ItemRow, ItemChecks, RMA_ITEM_STAGES

LEMMA FactoryEntryOK ==
  ASSUME envSlaHours \in SlaHours
  PROVE  ItemOK(factoryEntry)
  BY StageSets, NoneAssumption
     DEF ItemOK, factoryEntry, NewItem, ItemRow, ItemChecks, RMA_ITEM_STAGES,
         STAFF_OPENING_STAGE

LEMMA ImportedItemOK ==
  ASSUME envSlaHours \in SlaHours, NEW stage \in LegacyStages, NEW shipped \in BOOLEAN
  PROVE  /\ ItemOK(importedItem(stage, shipped))
         /\ importedItem(stage, shipped).stage = stage
<1> DEFINE row == importedItem(stage, shipped)
<1>1. stage \in {"aguardando_envio", "recebido", "aguardando_aprovacao", "testes",
                 "finalizado"}
  BY DEF LegacyStages
<1>2. /\ row.stage = stage
      /\ row.receivedAt <=> stage # "aguardando_envio"
      /\ row.slaStartedAt <=> stage \notin {"aguardando_envio", "recebido"}
      /\ row.slaFinishedAt <=> stage = "finalizado"
      /\ row.slaHours = IF stage \notin {"aguardando_envio", "recebido"}
                          THEN envSlaHours ELSE None
      /\ row.shipments \in {0, 1}
      /\ stage = "aguardando_envio" => row.shipments = 0
      /\ row.receipts = IF stage # "aguardando_envio" THEN 1 ELSE 0
  BY <1>1, StageSets DEF importedItem
<1>3. row \in ItemRow
  BY <1>1, StageSets DEF importedItem, ItemRow, RMA_ITEM_STAGES
<1>4. ItemChecks(row)
  BY <1>1, <1>2, NoneAssumption DEF ItemChecks
<1> QED
  BY <1>1, <1>2, <1>3, <1>4, StageSets DEF ItemOK

LEMMA ShippedOK ==
  ASSUME NEW row, ItemOK(row), row.stage \in SHIPPABLE_STAGES
  PROVE  /\ ItemOK(Shipped(row))
         /\ Shipped(row).stage = "enviado"
         /\ Shipped(row).shipments = 1
         /\ Shipped(row).video = row.video
<1>1. /\ row \in ItemRow
      /\ row.stage = "aguardando_envio"
      /\ row.shipments = 0
  BY StageSets DEF ItemOK
<1>2. Shipped(row) \in ItemRow
  <2>1. row.shipments + 1 = 1
    BY <1>1
  <2>2. "enviado" \in RMA_ITEM_STAGES
    BY DEF RMA_ITEM_STAGES
  <2>3. 1 \in Nat
    OBVIOUS
  <2> QED
    BY <1>1, <2>1, <2>2, <2>3 DEF Shipped, ItemRow
<1>3. /\ Shipped(row).stage = "enviado"
      /\ Shipped(row).shipments = 1
      /\ Shipped(row).receipts = row.receipts
      /\ Shipped(row).video = row.video
      /\ Shipped(row).receivedAt = row.receivedAt
      /\ Shipped(row).slaStartedAt = row.slaStartedAt
      /\ Shipped(row).slaHours = row.slaHours
      /\ Shipped(row).slaFinishedAt = row.slaFinishedAt
  BY <1>1 DEF Shipped, ItemRow
<1> QED
  BY <1>1, <1>2, <1>3, StageSets DEF ItemOK, ItemChecks

LEMMA ReceivedOK ==
  ASSUME NEW row, ItemOK(row), row.stage \in RECEIVABLE_STAGES
  PROVE  /\ ItemOK(Received(row))
         /\ Received(row).stage = "recebido"
         /\ Received(row).shipments = row.shipments
         /\ Received(row).video = row.video
<1>1. /\ row \in ItemRow
      /\ row.stage = "enviado"
      /\ ~row.receivedAt
      /\ row.receipts = 0
  BY StageSets DEF ItemOK
<1>2. Received(row) \in ItemRow
  <2>1. row.receipts + 1 = 1
    BY <1>1
  <2>2. "recebido" \in RMA_ITEM_STAGES
    BY DEF RMA_ITEM_STAGES
  <2>3. 1 \in Nat
    OBVIOUS
  <2> QED
    BY <1>1, <2>1, <2>2, <2>3 DEF Received, ItemRow
<1>3. /\ Received(row).stage = "recebido"
      /\ Received(row).shipments = row.shipments
      /\ Received(row).receipts = 1
      /\ Received(row).video = row.video
      /\ Received(row).receivedAt
      /\ Received(row).slaStartedAt = row.slaStartedAt
      /\ Received(row).slaHours = row.slaHours
      /\ Received(row).slaFinishedAt = row.slaFinishedAt
  BY <1>1 DEF Received, ItemRow
<1> QED
  BY <1>1, <1>2, <1>3, StageSets DEF ItemOK, ItemChecks

LEMMA ChangedOK ==
  ASSUME envSlaHours \in SlaHours, NEW row, ItemOK(row), NEW to \in RMA_ITEM_STAGES,
         row.stage \in stagesChangeableTo(to)
  PROVE  /\ ItemOK(Changed(row, to))
         /\ Changed(row, to).stage = to
         /\ Changed(row, to).shipments = row.shipments
         /\ Changed(row, to).video = row.video
         /\ Changed(row, to).receivedAt = row.receivedAt
<1>1. /\ row.stage \notin {"aguardando_envio", "enviado", "finalizado"}
      /\ to \notin {"aguardando_envio", "enviado", "recebido"}
      /\ to = "em_diagnostico" <=> row.stage = "recebido"
      /\ to = "devolucao" <=> row.stage = "comprovacao"
      /\ to = "finalizado" <=> row.stage = "devolucao"
  BY StageChange
<1>2. Changed(row, to) \in ItemRow
  BY DEF ItemOK, Changed, slaChange, ItemRow
<1>3. QED
  BY <1>1, <1>2, StageSets, NoneAssumption
     DEF ItemOK, Changed, slaChange, ItemRow, ItemChecks, RMA_ITEM_STAGES,
         SLA_START_STAGE, SLA_END_STAGE

-----------------------------------------------------------------------------
(* The inductive invariant.                                                *)

LEMMA InitInv ==
  ASSUME Init
  PROVE  IInv
<1>1. /\ NoRma \in RmaRow
      /\ NoRma.origin = "nenhuma"
      /\ ~NoRma.cancelledAt
  BY PriorityAssumption DEF NoRma, RmaRow, Origins
<1>2. \A r \in Rmas : rmas[r] = NoRma
  BY DEF Init
<1>3. \A i \in Items : items[i] = NewItem /\ items[i].stage = "aguardando_envio"
  BY DEF Init, NewItem
<1>4. rmas \in [Rmas -> RmaRow] /\ items \in [Items -> ItemRow] /\ envSlaHours \in SlaHours
  BY <1>1, NewItemOK DEF Init, ItemOK
<1>5. \A i \in Items : ItemOK(items[i])
  BY <1>3, NewItemOK
<1>6. \A r \in Rmas : RmaOK(rmas[r])
  BY <1>1, <1>2 DEF RmaOK
<1>7. ShipmentOfCustomer /\ BlankUntilOpened
  BY <1>1, <1>2, <1>3, RmaOfAssumption DEF ShipmentOfCustomer, BlankUntilOpened
<1>8. VideoBeforeReturn
  BY <1>3, StageSets DEF VideoBeforeReturn
<1>9. ClosesByItself /\ ReturnListIsWhatArrived
  BY <1>1, <1>2 DEF ClosesByItself, ReturnListIsWhatArrived
<1> QED
  BY <1>4, <1>5, <1>6, <1>7, <1>8, <1>9 DEF IInv

\* An RMA that did not exist gets its rows: by an opening, or by the import.
LEMMA BeginInv ==
  ASSUME IInv, NEW r \in Rmas, ~Exists(r),
         NEW row \in RmaRow, NEW new \in [Items -> ItemRow],
         row.origin # "nenhuma", ~row.cancelledAt,
         rmas' = [rmas EXCEPT ![r] = row],
         items' = [i \in Items |-> IF RmaOf[i] = r THEN new[i] ELSE items[i]],
         envSlaHours' = envSlaHours,
         \A i \in OfRma(r) :
           /\ ItemOK(new[i])
           /\ row.origin = "cliente" => new[i].stage = "aguardando_envio"
           /\ new[i].stage \in SLA_FINISHED_STAGES =>
                row.origin = "legado" /\ new[i].stage = "finalizado",
         row.origin \in {"cliente", "equipe"} => ~row.closedAt /\ OfRma(r) # {}
  PROVE  IInv'
<1> USE DEF IInv
<1>1. /\ rmas' \in [Rmas -> RmaRow]
      /\ rmas'[r] = row
      /\ \A q \in Rmas \ {r} : rmas'[q] = rmas[q]
  OBVIOUS
<1>2. /\ items' \in [Items -> ItemRow]
      /\ \A i \in OfRma(r) : items'[i] = new[i]
      /\ \A i \in Items \ OfRma(r) : items'[i] = items[i]
  BY DEF OfRma
<1>3. \A i \in Items : ItemOK(items'[i])
  BY <1>2
<1>4. \A q \in Rmas : RmaOK(rmas'[q])
  BY <1>1 DEF RmaOK
<1>5. \A i \in Items : RmaOf[i] \in Rmas /\ (i \in OfRma(r) <=> RmaOf[i] = r)
  BY RmaOfAssumption DEF OfRma
<1>6. ShipmentOfCustomer' /\ BlankUntilOpened'
  BY <1>1, <1>2, <1>5 DEF ShipmentOfCustomer, BlankUntilOpened, Exists, ItemOK
<1>7. VideoBeforeReturn'
  BY <1>1, <1>2, <1>5 DEF VideoBeforeReturn
<1>8. \A q \in Rmas \ {r} : \A i \in OfRma(q) : i \in Items \ OfRma(r)
  BY DEF OfRma
<1>9. ClosesByItself'
  <2> SUFFICES ASSUME NEW q \in Rmas, rmas'[q].origin \in {"cliente", "equipe"}
               PROVE  /\ rmas'[q].closedAt <=> rmas'[q].cancelledAt \/ AllDelivered(q)'
                      /\ rmas'[q].cancelledAt =>
                           \A i \in OfRma(q) : items'[i].stage \notin SLA_FINISHED_STAGES
    BY DEF ClosesByItself, OfRma
  <2>1. CASE q = r
    BY <2>1, <1>1, <1>2, StageSets DEF AllDelivered, OfRma
  <2>2. CASE q # r
    BY <2>2, <1>1, <1>2, <1>8 DEF ClosesByItself, AllDelivered, OfRma
  <2> QED
    BY <2>1, <2>2
<1>10. ReturnListIsWhatArrived'
  BY <1>1, <1>2, <1>8 DEF ReturnListIsWhatArrived, OfRma
<1> QED
  BY <1>1, <1>2, <1>3, <1>4, <1>6, <1>7, <1>9, <1>10

\* Items of an open RMA move on, and the RMA closes if they were the last.
LEMMA MoveInv ==
  ASSUME IInv, NEW r \in Rmas, lockOpenRma(r), NEW sel \in SUBSET OfRma(r),
         NEW row \in RmaRow,
         row.origin = rmas[r].origin, ~row.cancelledAt,
         rmas' = [rmas EXCEPT ![r] = row],
         items' \in [Items -> ItemRow],
         envSlaHours' = envSlaHours,
         \A i \in Items \ sel : items'[i] = items[i],
         \A i \in sel :
           /\ ItemOK(items'[i])
           /\ items'[i].stage # "aguardando_envio"
           /\ \/ items'[i].shipments = 1
              \/ /\ items'[i].shipments = items[i].shipments
                 /\ items[i].stage # "aguardando_envio"
           /\ items'[i].stage \in SLA_FINISHED_STAGES => items'[i].video,
         rmas[r].origin \in {"cliente", "equipe"} =>
           (row.closedAt <=> AllDelivered(r)')
  PROVE  IInv'
<1> USE DEF IInv
<1>1. /\ rmas' \in [Rmas -> RmaRow]
      /\ rmas'[r] = row
      /\ \A q \in Rmas \ {r} : rmas'[q] = rmas[q]
  OBVIOUS
<1>2. \A i \in Items : ItemOK(items'[i])
  OBVIOUS
<1>3. \A q \in Rmas : RmaOK(rmas'[q])
  BY <1>1 DEF RmaOK, lockOpenRma, Exists
<1>4. \A i \in Items : /\ RmaOf[i] \in Rmas
                       /\ rmas'[RmaOf[i]].origin = rmas[RmaOf[i]].origin
                       /\ i \in sel => RmaOf[i] = r
  BY <1>1, RmaOfAssumption DEF OfRma
<1>5. ShipmentOfCustomer' /\ BlankUntilOpened'
  BY <1>4 DEF ShipmentOfCustomer, BlankUntilOpened, Exists, lockOpenRma
<1>6. VideoBeforeReturn'
  BY <1>4 DEF VideoBeforeReturn
<1>7. \A q \in Rmas \ {r} : \A i \in OfRma(q) : i \in Items \ sel
  BY <1>4 DEF OfRma
<1>8. ClosesByItself'
  <2> SUFFICES ASSUME NEW q \in Rmas, rmas'[q].origin \in {"cliente", "equipe"}
               PROVE  /\ rmas'[q].closedAt <=> rmas'[q].cancelledAt \/ AllDelivered(q)'
                      /\ rmas'[q].cancelledAt =>
                           \A i \in OfRma(q) : items'[i].stage \notin SLA_FINISHED_STAGES
    BY DEF ClosesByItself, OfRma
  <2>1. CASE q = r
    BY <2>1, <1>1
  <2>2. CASE q # r
    BY <2>2, <1>1, <1>7 DEF ClosesByItself, AllDelivered, OfRma
  <2> QED
    BY <2>1, <2>2
<1>9. ReturnListIsWhatArrived'
  BY <1>1, <1>7 DEF ReturnListIsWhatArrived, OfRma
<1> QED
  BY <1>1, <1>2, <1>3, <1>5, <1>6, <1>8, <1>9

\* A movement that delivers nothing leaves the row of the RMA as it is.
LEMMA StillOpen ==
  ASSUME IInv, NEW r \in Rmas, lockOpenRma(r), NEW sel \in SUBSET OfRma(r),
         \A i \in Items \ sel : items'[i] = items[i],
         \A i \in sel : items'[i].stage # "finalizado"
  PROVE  /\ rmas[r] \in RmaRow
         /\ ~rmas[r].cancelledAt
         /\ ~rmas[r].closedAt
         /\ rmas = [rmas EXCEPT ![r] = rmas[r]]
         /\ rmas[r].origin \in {"cliente", "equipe"} => ~AllDelivered(r)'
<1>1. /\ rmas \in [Rmas -> RmaRow]
      /\ ~rmas[r].cancelledAt
      /\ ~rmas[r].closedAt
  BY DEF IInv, lockOpenRma
<1>2. ASSUME rmas[r].origin \in {"cliente", "equipe"}
      PROVE  ~AllDelivered(r)'
  <2>1. PICK i \in OfRma(r) : items[i].stage # "finalizado"
    BY <1>1, <1>2 DEF IInv, ClosesByItself, AllDelivered
  <2>2. items'[i].stage # "finalizado"
    BY <2>1 DEF OfRma
  <2> QED
    BY <2>2 DEF AllDelivered, OfRma
<1> QED
  BY <1>1, <1>2

\* The management of an RMA touches its row only.
LEMMA ManageInv ==
  ASSUME IInv, NEW r \in Rmas, lockOpenRma(r),
         NEW row \in RmaRow,
         row.origin = rmas[r].origin,
         rmas' = [rmas EXCEPT ![r] = row],
         UNCHANGED << items, envSlaHours >>,
         row.closedAt = row.cancelledAt,
         row.cancelledAt => /\ row.returning = itemsToReturn(r)
                            /\ \A i \in OfRma(r) : items[i].stage \notin SLA_FINISHED_STAGES
  PROVE  IInv'
<1> USE DEF IInv
<1>1. /\ rmas' \in [Rmas -> RmaRow]
      /\ rmas'[r] = row
      /\ \A q \in Rmas \ {r} : rmas'[q] = rmas[q]
  OBVIOUS
<1>2. \A q \in Rmas : RmaOK(rmas'[q])
  BY <1>1 DEF RmaOK, lockOpenRma, Exists
<1>3. \A i \in Items : /\ RmaOf[i] \in Rmas
                       /\ rmas'[RmaOf[i]].origin = rmas[RmaOf[i]].origin
  BY <1>1, RmaOfAssumption
<1>4. ShipmentOfCustomer' /\ VideoBeforeReturn' /\ BlankUntilOpened'
  BY <1>3 DEF ShipmentOfCustomer, VideoBeforeReturn, BlankUntilOpened, Exists
<1>5. ClosesByItself'
  <2> SUFFICES ASSUME NEW q \in Rmas, rmas'[q].origin \in {"cliente", "equipe"}
               PROVE  /\ rmas'[q].closedAt <=> rmas'[q].cancelledAt \/ AllDelivered(q)
                      /\ rmas'[q].cancelledAt =>
                           \A i \in OfRma(q) : items[i].stage \notin SLA_FINISHED_STAGES
    BY DEF ClosesByItself, OfRma, AllDelivered
  <2>1. CASE q = r
    BY <2>1, <1>1 DEF ClosesByItself, lockOpenRma
  <2>2. CASE q # r
    BY <2>2, <1>1 DEF ClosesByItself
  <2> QED
    BY <2>1, <2>2
<1>6. itemsToReturn(r) = { i \in OfRma(r) : items[i].receivedAt }
  BY StageSets DEF itemsToReturn, OfRma, ItemOK, ItemChecks
<1>7. ReturnListIsWhatArrived'
  BY <1>1, <1>6 DEF ReturnListIsWhatArrived, OfRma
<1> QED
  BY <1>1, <1>2, <1>4, <1>5, <1>7

LEMMA OpenInv ==
  ASSUME IInv, NEW r \in Rmas, OpenByCustomer(r) \/ OpenByStaff(r)
  PROVE  IInv'
<1>1. /\ rmas[r] \in RmaRow
      /\ ~rmas[r].cancelledAt
      /\ ~rmas[r].closedAt
      /\ envSlaHours \in SlaHours
      /\ ~Exists(r)
      /\ OfRma(r) # {}
  BY DEF IInv, RmaOK, NoRma, Exists, OpenByCustomer, OpenByStaff, Open
<1>2. ASSUME NEW origin \in {"cliente", "equipe"}, NEW entry, ItemOK(entry),
             entry.stage \notin SLA_FINISHED_STAGES,
             origin = "cliente" => entry.stage = "aguardando_envio",
             Open(r, origin, entry)
      PROVE  IInv'
  <2> DEFINE row == [rmas[r] EXCEPT !.origin = origin]
  <2> DEFINE new == [i \in Items |-> entry]
  <2>1. /\ row \in RmaRow
        /\ row.origin = origin
        /\ ~row.cancelledAt
        /\ ~row.closedAt
    BY <1>1 DEF RmaRow, Origins
  <2>2. rmas' = [rmas EXCEPT ![r] = row] /\ envSlaHours' = envSlaHours
    BY <1>2 DEF Open
  <2>3. items' = [i \in Items |-> IF RmaOf[i] = r THEN new[i] ELSE items[i]]
    BY <1>2 DEF Open
  <2>4. new \in [Items -> ItemRow] /\ \A i \in OfRma(r) : new[i] = entry
    BY <1>2 DEF ItemOK, OfRma
  <2> HIDE DEF row, new
  <2> QED
    BY <1>1, <1>2, <2>1, <2>2, <2>3, <2>4, BeginInv
<1>3. NewItem.stage = "aguardando_envio" /\ factoryEntry.stage = "em_diagnostico"
  BY DEF NewItem, factoryEntry, STAFF_OPENING_STAGE
<1>4. CASE OpenByCustomer(r)
  BY <1>2, <1>3, <1>4, NewItemOK, StageSets DEF OpenByCustomer
<1>5. CASE OpenByStaff(r)
  BY <1>1, <1>2, <1>3, <1>5, FactoryEntryOK, StageSets DEF OpenByStaff
<1> QED
  BY <1>4, <1>5

LEMMA ImportInv ==
  ASSUME IInv, NEW r \in Rmas, NEW shipped \in BOOLEAN, NEW closed \in BOOLEAN,
         NEW assignee \in Staff \union {None}, NEW stageOf \in [OfRma(r) -> LegacyStages],
         Import(r, stageOf, shipped, closed, assignee)
  PROVE  IInv'
<1> DEFINE row == [rmas[r] EXCEPT !.origin = "legado", !.closedAt = closed,
                                  !.assignee = assignee]
<1> DEFINE new == [i \in Items |-> IF i \in OfRma(r) THEN importedItem(stageOf[i], shipped)
                                                   ELSE items[i]]
<1>1. /\ rmas[r] \in RmaRow
      /\ ~rmas[r].cancelledAt
      /\ ~rmas[r].closedAt
      /\ envSlaHours \in SlaHours
      /\ ~Exists(r)
      /\ items \in [Items -> ItemRow]
  BY DEF IInv, RmaOK, NoRma, Exists, Import
<1>2. /\ row \in RmaRow
      /\ row.origin = "legado"
      /\ ~row.cancelledAt
  BY <1>1 DEF RmaRow, Origins
<1>3. rmas' = [rmas EXCEPT ![r] = row] /\ envSlaHours' = envSlaHours
  BY DEF Import, IInv
<1>4. \A i \in OfRma(r) : /\ new[i] = importedItem(stageOf[i], shipped)
                          /\ stageOf[i] \in LegacyStages
  BY DEF OfRma
<1>5. \A i \in OfRma(r) : /\ ItemOK(new[i])
                          /\ new[i].stage \in LegacyStages
  BY <1>1, <1>4, ImportedItemOK
<1>6. new \in [Items -> ItemRow]
  <2>1. ASSUME NEW i \in Items PROVE new[i] \in ItemRow
    BY <1>1, <1>5 DEF ItemOK
  <2> QED
    BY <2>1
<1>7. items' = [i \in Items |-> IF RmaOf[i] = r THEN new[i] ELSE items[i]]
  BY DEF Import, OfRma
<1>8. \A i \in OfRma(r) : new[i].stage \in SLA_FINISHED_STAGES => new[i].stage = "finalizado"
  BY <1>5, StageSets DEF LegacyStages
<1> HIDE DEF row, new
<1> QED
  BY <1>1, <1>2, <1>3, <1>5, <1>6, <1>7, <1>8, BeginInv

LEMMA ConfirmShipmentInv ==
  ASSUME IInv, NEW r \in Rmas, NEW sel \in Selections, ConfirmShipment(r, sel)
  PROVE  IInv'
<1>1. /\ lockOpenRma(r)
      /\ sel \in SUBSET OfRma(r)
      /\ \A i \in sel : items[i].stage \in SHIPPABLE_STAGES
      /\ sel \subseteq Items
      /\ rmas' = rmas /\ envSlaHours' = envSlaHours
  BY DEF ConfirmShipment, ShippableItems, OfRma
<1>2. \A i \in Items \ sel : items'[i] = items[i]
  BY DEF ConfirmShipment
<1>3. \A i \in sel : /\ items'[i] = Shipped(items[i])
                     /\ ItemOK(items[i])
  BY <1>1 DEF ConfirmShipment, IInv
<1>4. \A i \in sel : /\ ItemOK(items'[i])
                     /\ items'[i].stage = "enviado"
                     /\ items'[i].shipments = 1
  BY <1>1, <1>3, ShippedOK
<1>5. items' \in [Items -> ItemRow]
  <2>1. \A i \in Items : items'[i] \in ItemRow
    BY <1>2, <1>4 DEF IInv, ItemOK
  <2> QED
    BY <2>1 DEF ConfirmShipment
<1>6. /\ rmas[r] \in RmaRow
      /\ ~rmas[r].cancelledAt
      /\ ~rmas[r].closedAt
      /\ rmas' = [rmas EXCEPT ![r] = rmas[r]]
      /\ rmas[r].origin \in {"cliente", "equipe"} => ~AllDelivered(r)'
  BY <1>1, <1>2, <1>4, StillOpen
<1> QED
  BY <1>1, <1>2, <1>4, <1>5, <1>6, MoveInv, StageSets

LEMMA RegisterReceiptInv ==
  ASSUME IInv, NEW r \in Rmas, NEW sel \in Selections, RegisterReceipt(r, sel)
  PROVE  IInv'
<1>1. /\ lockOpenRma(r)
      /\ sel \in SUBSET OfRma(r)
      /\ \A i \in sel : items[i].stage \in RECEIVABLE_STAGES
      /\ sel \subseteq Items
      /\ rmas' = rmas /\ envSlaHours' = envSlaHours
  BY DEF RegisterReceipt, ReceivableItems, OfRma
<1>2. \A i \in Items \ sel : items'[i] = items[i]
  BY DEF RegisterReceipt
<1>3. \A i \in sel : /\ items'[i] = Received(items[i])
                     /\ ItemOK(items[i])
                     /\ items[i].stage # "aguardando_envio"
  BY <1>1, StageSets DEF RegisterReceipt, IInv
<1>4. \A i \in sel : /\ ItemOK(items'[i])
                     /\ items'[i].stage = "recebido"
                     /\ items'[i].shipments = items[i].shipments
  BY <1>1, <1>3, ReceivedOK
<1>5. items' \in [Items -> ItemRow]
  <2>1. \A i \in Items : items'[i] \in ItemRow
    BY <1>2, <1>4 DEF IInv, ItemOK
  <2> QED
    BY <2>1 DEF RegisterReceipt
<1>6. /\ rmas[r] \in RmaRow
      /\ ~rmas[r].cancelledAt
      /\ ~rmas[r].closedAt
      /\ rmas' = [rmas EXCEPT ![r] = rmas[r]]
      /\ rmas[r].origin \in {"cliente", "equipe"} => ~AllDelivered(r)'
  BY <1>1, <1>2, <1>4, StillOpen
<1> QED
  BY <1>1, <1>2, <1>3, <1>4, <1>5, <1>6, MoveInv, StageSets

LEMMA ChangeStageInv ==
  ASSUME IInv, NEW r \in Rmas, NEW sel \in Selections, NEW to \in RMA_ITEM_STAGES,
         ChangeStage(r, sel, to)
  PROVE  IInv'
<1>1. /\ lockOpenRma(r)
      /\ sel \in SUBSET OfRma(r)
      /\ \A i \in sel : items[i].stage \in stagesChangeableTo(to)
      /\ sel \subseteq Items
      /\ envSlaHours' = envSlaHours
      /\ envSlaHours \in SlaHours
  BY DEF ChangeStage, ChangeableItems, OfRma, IInv
<1>2. \A i \in Items \ sel : items'[i] = items[i]
  BY DEF ChangeStage
<1>3. \A i \in sel : /\ items'[i] = Changed(items[i], to)
                     /\ ItemOK(items[i])
                     /\ items[i].stage \in RMA_ITEM_STAGES
                     /\ items[i].stage # "aguardando_envio"
                     /\ to \notin {"aguardando_envio", "enviado", "recebido"}
                     /\ to = "devolucao" <=> items[i].stage = "comprovacao"
                     /\ to = "finalizado" <=> items[i].stage = "devolucao"
  BY <1>1, StageChange DEF ChangeStage, IInv
<1>4. \A i \in sel : /\ ItemOK(items'[i])
                     /\ items'[i].stage = to
                     /\ items'[i].shipments = items[i].shipments
                     /\ items'[i].video = items[i].video
  BY <1>1, <1>3, ChangedOK
<1>5. items' \in [Items -> ItemRow]
  <2>1. \A i \in Items : items'[i] \in ItemRow
    BY <1>2, <1>4 DEF IInv, ItemOK
  <2> QED
    BY <2>1 DEF ChangeStage
\* The video was there for the despatch, and still is for the delivery.
<1>6. \A i \in sel : items'[i].stage \in SLA_FINISHED_STAGES => items'[i].video
  <2>1. CASE to = "devolucao"
    BY <2>1, <1>4 DEF ChangeStage, ensureValidationVideos, requiresValidationVideo,
                      SLA_END_STAGE
  <2>2. CASE to = "finalizado"
    BY <2>2, <1>1, <1>3, <1>4, StageSets DEF IInv, VideoBeforeReturn
  <2> QED
    BY <2>1, <2>2, <1>4, StageSets
<1>7. CASE to = "finalizado"
  <2> DEFINE row == closeIfAllDelivered(r, items')
  <2>1. /\ rmas[r] \in RmaRow
        /\ ~rmas[r].cancelledAt
        /\ ~rmas[r].closedAt
    BY <1>1 DEF IInv, lockOpenRma
  <2>2. /\ row \in RmaRow
        /\ row.origin = rmas[r].origin
        /\ ~row.cancelledAt
        /\ row.closedAt <=> \A i \in OfRma(r) : items'[i].stage = "finalizado"
    BY <2>1 DEF closeIfAllDelivered, RmaRow
  <2>3. rmas' = [rmas EXCEPT ![r] = row]
    BY <1>7 DEF ChangeStage
  <2>4. row.closedAt <=> AllDelivered(r)'
    BY <2>2 DEF AllDelivered, OfRma
  <2> HIDE DEF row
  <2> QED
    BY <1>1, <1>2, <1>3, <1>4, <1>5, <1>6, <2>2, <2>3, <2>4, MoveInv
<1>8. CASE to # "finalizado"
  <2>1. rmas' = rmas /\ \A i \in sel : items'[i].stage # "finalizado"
    BY <1>8, <1>4 DEF ChangeStage
  <2>2. /\ rmas[r] \in RmaRow
        /\ ~rmas[r].cancelledAt
        /\ ~rmas[r].closedAt
        /\ rmas' = [rmas EXCEPT ![r] = rmas[r]]
        /\ rmas[r].origin \in {"cliente", "equipe"} => ~AllDelivered(r)'
    BY <1>1, <1>2, <2>1, StillOpen
  <2> QED
    BY <1>1, <1>2, <1>3, <1>4, <1>5, <1>6, <2>2, MoveInv
<1> QED
  BY <1>7, <1>8

LEMMA AttachVideoInv ==
  ASSUME IInv, NEW r \in Rmas, NEW i \in Items, AttachVideo(r, i)
  PROVE  IInv'
<1> DEFINE row == [items[i] EXCEPT !.video = TRUE]
<1> DEFINE sel == {i}
<1>1. /\ lockOpenRma(r)
      /\ sel \in SUBSET OfRma(r)
      /\ items[i].stage = "comprovacao"
      /\ items' = [items EXCEPT ![i] = row]
      /\ items[i] \in ItemRow
      /\ ItemOK(items[i])
      /\ rmas' = rmas /\ envSlaHours' = envSlaHours
  BY DEF AttachVideo, VALIDATION_VIDEO_STAGES, IInv
<1>2. /\ row \in ItemRow
      /\ row.stage = items[i].stage
      /\ row.receivedAt = items[i].receivedAt
      /\ row.slaStartedAt = items[i].slaStartedAt
      /\ row.slaHours = items[i].slaHours
      /\ row.slaFinishedAt = items[i].slaFinishedAt
      /\ row.shipments = items[i].shipments
      /\ row.receipts = items[i].receipts
      /\ row.video
  BY <1>1 DEF ItemRow
<1>3. ItemOK(row)
  BY <1>1, <1>2 DEF ItemOK, ItemChecks
<1> HIDE DEF row
<1>4. /\ items' \in [Items -> ItemRow]
      /\ \A j \in Items \ sel : items'[j] = items[j]
      /\ \A j \in sel : /\ ItemOK(items'[j])
                        /\ items'[j].stage = "comprovacao"
                        /\ items[j].stage = "comprovacao"
                        /\ items'[j].shipments = items[j].shipments
  BY <1>1, <1>2, <1>3 DEF IInv
<1>5. /\ rmas[r] \in RmaRow
      /\ ~rmas[r].cancelledAt
      /\ ~rmas[r].closedAt
      /\ rmas' = [rmas EXCEPT ![r] = rmas[r]]
      /\ rmas[r].origin \in {"cliente", "equipe"} => ~AllDelivered(r)'
  BY <1>1, <1>4, StillOpen
<1>6. lockOpenRma(r) /\ sel \in SUBSET OfRma(r) /\ envSlaHours' = envSlaHours
  BY <1>1
<1>7. \A j \in sel : /\ items'[j].stage # "aguardando_envio"
                     /\ items'[j].stage \notin SLA_FINISHED_STAGES
  BY <1>4, StageSets
<1> HIDE DEF sel, row
<1> QED
  BY <1>4, <1>5, <1>6, <1>7, MoveInv

LEMMA AssignInv ==
  ASSUME IInv, NEW r \in Rmas, NEW assignee \in Staff \union {None},
         NEW expected, Assign(r, expected, assignee)
  PROVE  IInv'
<1> DEFINE row == [rmas[r] EXCEPT !.assignee = assignee]
<1>1. rmas[r] \in RmaRow /\ lockOpenRma(r)
  BY DEF IInv, Assign
<1>2. /\ row \in RmaRow
      /\ row.origin = rmas[r].origin
      /\ ~row.cancelledAt
      /\ ~row.closedAt
  BY <1>1 DEF RmaRow, lockOpenRma
<1>3. rmas' = [rmas EXCEPT ![r] = row] /\ UNCHANGED << items, envSlaHours >>
  BY DEF Assign
<1> HIDE DEF row
<1> QED
  BY <1>1, <1>2, <1>3, ManageInv DEF RmaRow

LEMMA ChangePriorityInv ==
  ASSUME IInv, NEW r \in Rmas, NEW priority \in Priorities, ChangePriority(r, priority)
  PROVE  IInv'
<1> DEFINE row == [rmas[r] EXCEPT !.priority = priority]
<1>1. rmas[r] \in RmaRow /\ lockOpenRma(r)
  BY DEF IInv, ChangePriority
<1>2. /\ row \in RmaRow
      /\ row.origin = rmas[r].origin
      /\ ~row.cancelledAt
      /\ ~row.closedAt
  BY <1>1 DEF RmaRow, lockOpenRma
<1>3. rmas' = [rmas EXCEPT ![r] = row] /\ UNCHANGED << items, envSlaHours >>
  BY DEF ChangePriority
<1> HIDE DEF row
<1> QED
  BY <1>1, <1>2, <1>3, ManageInv DEF RmaRow

LEMMA CancelInv ==
  ASSUME IInv, NEW r \in Rmas, Cancel(r)
  PROVE  IInv'
<1> DEFINE row == Cancelled(r)
<1>1. /\ rmas[r] \in RmaRow
      /\ lockOpenRma(r)
      /\ itemsToReturn(r) \in SUBSET Items
  BY DEF IInv, Cancel, itemsToReturn, OfRma
<1>2. /\ row \in RmaRow
      /\ row.origin = rmas[r].origin
      /\ row.cancelledAt
      /\ row.closedAt
      /\ row.returning = itemsToReturn(r)
  BY <1>1 DEF RmaRow, Cancelled
<1>3. rmas' = [rmas EXCEPT ![r] = row] /\ UNCHANGED << items, envSlaHours >>
  BY DEF Cancel
<1>4. \A i \in OfRma(r) : items[i].stage \notin SLA_FINISHED_STAGES
  BY DEF Cancel, isCancellable
<1> HIDE DEF row
<1>5. row.closedAt = row.cancelledAt
  BY <1>2 DEF RmaRow
<1> QED
  BY <1>1, <1>2, <1>3, <1>4, <1>5, ManageInv

LEMMA StepInv ==
  ASSUME IInv, [Next]_vars
  PROVE  IInv'
<1>1. ASSUME NEW r \in Rmas, Operate(r)
      PROVE  IInv'
  BY <1>1, OpenInv, ConfirmShipmentInv, RegisterReceiptInv, ChangeStageInv,
     AttachVideoInv, AssignInv, ChangePriorityInv, CancelInv DEF Operate
<1>2. CASE ImportStep
  BY <1>2, ImportInv DEF ImportStep
<1>3. ASSUME NEW hours \in SlaHours, Configure(hours)
      PROVE  IInv'
  BY <1>3 DEF Configure, IInv, BlankUntilOpened, Exists, ShipmentOfCustomer, VideoBeforeReturn,
              ClosesByItself, AllDelivered, ReturnListIsWhatArrived, OfRma
<1>4. CASE UNCHANGED vars
  BY <1>4 DEF vars, IInv, BlankUntilOpened, Exists, ShipmentOfCustomer, VideoBeforeReturn,
              ClosesByItself, AllDelivered, ReturnListIsWhatArrived, OfRma
<1> QED
  BY <1>1, <1>2, <1>3, <1>4 DEF Next

-----------------------------------------------------------------------------
(* Theorems.                                                               *)

\* The inductive invariant holds of every RMA and item, for any number of
\* them and whatever the values of RMA_SLA_HOURS.
THEOREM Invariant == Spec => []IInv
<1>1. Init => IInv
  BY InitInv
<1>2. IInv /\ [Next]_vars => IInv'
  BY StepInv
<1> QED
  BY <1>1, <1>2, PTL DEF Spec

\* The rows keep the shape of their tables.
THEOREM TypeCorrect == Spec => []TypeOK
<1>1. IInv => TypeOK
  BY DEF IInv, TypeOK
<1> QED
  BY <1>1, Invariant, PTL

\* No operation is ever stopped by a CHECK constraint of rmas or rma_items.
THEOREM ConstraintsNeverFire == Spec => []ChecksHold
<1>1. IInv => ChecksHold
  BY DEF IInv, ItemOK, RmaOK, ChecksHold
<1> QED
  BY <1>1, Invariant, PTL

\* Shipments and receipts agree with the stages, one of each per item at most.
THEOREM LogisticsAgree == Spec => []LogisticsAddUp
<1>1. IInv => LogisticsAddUp
  BY DEF IInv, ItemOK, ShipmentOfCustomer, LogisticsAddUp
<1> QED
  BY <1>1, Invariant, PTL

\* No equipment returns without the video of it working.
THEOREM ReturnIsProved == Spec => []VideoBeforeReturn
<1>1. IInv => VideoBeforeReturn
  BY DEF IInv
<1> QED
  BY <1>1, Invariant, PTL

\* An RMA opened here is closed exactly when cancelled or fully delivered.
THEOREM ClosingIsExact == Spec => []ClosesByItself
<1>1. IInv => ClosesByItself
  BY DEF IInv
<1> QED
  BY <1>1, Invariant, PTL

\* A cancellation lists exactly the equipment that arrived.
THEOREM ReturnListIsExact == Spec => []ReturnListIsWhatArrived
<1>1. IInv => ReturnListIsWhatArrived
  BY DEF IInv
<1> QED
  BY <1>1, Invariant, PTL

-----------------------------------------------------------------------------
(* What a step may never do.                                               *)

LEMMA FrozenStep ==
  ASSUME IInv, Next, NEW q \in Rmas, rmas[q].closedAt
  PROVE  rmas'[q] = rmas[q] /\ \A i \in OfRma(q) : items'[i] = items[i]
<1>1. /\ rmas \in [Rmas -> RmaRow]
      /\ items \in [Items -> ItemRow]
      /\ OfRma(q) \subseteq Items
      /\ \A i \in OfRma(q) : RmaOf[i] = q
  BY DEF IInv, OfRma
<1>2. \A r \in Rmas : ~Exists(r) => r # q
  BY DEF IInv, RmaOK, Exists, NoRma
<1>3. \A r \in Rmas : lockOpenRma(r) => r # q
  BY DEF lockOpenRma
<1>4. ASSUME NEW r \in Rmas, Operate(r)
      PROVE  rmas'[q] = rmas[q] /\ \A i \in OfRma(q) : items'[i] = items[i]
  <2>1. CASE OpenByCustomer(r) \/ OpenByStaff(r)
    BY <2>1, <1>1, <1>2 DEF OpenByCustomer, OpenByStaff, Open
  <2>2. CASE \E sel \in Selections : ConfirmShipment(r, sel)
    BY <2>2, <1>1, <1>3 DEF ConfirmShipment, ShippableItems, OfRma
  <2>3. CASE \E sel \in Selections : RegisterReceipt(r, sel)
    BY <2>3, <1>1, <1>3 DEF RegisterReceipt, ReceivableItems, OfRma
  <2>4. CASE \E sel \in Selections, to \in RMA_ITEM_STAGES : ChangeStage(r, sel, to)
    BY <2>4, <1>1, <1>3 DEF ChangeStage, ChangeableItems, OfRma
  <2>5. CASE \E i \in Items : AttachVideo(r, i)
    BY <2>5, <1>1, <1>3 DEF AttachVideo, OfRma
  <2>6. CASE \E expected, assignee \in Staff \union {None} : Assign(r, expected, assignee)
    BY <2>6, <1>1, <1>3 DEF Assign
  <2>7. CASE \E priority \in Priorities : ChangePriority(r, priority)
    BY <2>7, <1>1, <1>3 DEF ChangePriority
  <2>8. CASE Cancel(r)
    BY <2>8, <1>1, <1>3 DEF Cancel
  <2> QED
    BY <1>4, <2>1, <2>2, <2>3, <2>4, <2>5, <2>6, <2>7, <2>8 DEF Operate
<1>5. CASE ImportStep
  BY <1>5, <1>1, <1>2 DEF ImportStep, Import
<1>6. ASSUME NEW hours \in SlaHours, Configure(hours)
      PROVE  rmas'[q] = rmas[q] /\ \A i \in OfRma(q) : items'[i] = items[i]
  BY <1>6 DEF Configure
<1> QED
  BY <1>4, <1>5, <1>6 DEF Next

\* A closed RMA and its items do not change any more.
THEOREM ClosedStaysFrozen == Spec => ClosedIsFrozen
<1>1. ASSUME IInv, [Next]_vars
      PROVE  [ \A r \in Rmas : rmas[r].closedAt =>
                 /\ rmas'[r] = rmas[r]
                 /\ \A i \in OfRma(r) : items'[i] = items[i] ]_vars
  BY <1>1, FrozenStep
<1> QED
  BY <1>1, Invariant, PTL DEF Spec, ClosedIsFrozen

\* An item whose deadline started, through any operation.
LEMMA DeadlineStep ==
  ASSUME IInv, Next, NEW i \in Items, items[i].slaStartedAt
  PROVE  /\ items'[i].slaStartedAt
         /\ items'[i].slaHours = items[i].slaHours
         /\ items[i].slaFinishedAt => items'[i].slaFinishedAt
<1>1. /\ items \in [Items -> ItemRow]
      /\ items[i] \in ItemRow
      /\ items[i].stage \notin {"aguardando_envio", "enviado", "recebido"}
  BY DEF IInv, ItemOK
<1>2. Exists(RmaOf[i])
  BY DEF IInv, BlankUntilOpened, NewItem
<1>3. SUFFICES ASSUME items'[i] # items[i]
               PROVE  /\ items'[i].slaStartedAt
                      /\ items'[i].slaHours = items[i].slaHours
                      /\ items[i].slaFinishedAt => items'[i].slaFinishedAt
  OBVIOUS
<1>4. ASSUME NEW r \in Rmas, NEW sel \in Selections, NEW to \in RMA_ITEM_STAGES,
             ChangeStage(r, sel, to)
      PROVE  /\ items'[i].slaStartedAt
             /\ items'[i].slaHours = items[i].slaHours
             /\ items[i].slaFinishedAt => items'[i].slaFinishedAt
  <2>1. /\ items'[i] = Changed(items[i], to)
        /\ items[i].stage \in stagesChangeableTo(to)
    BY <1>3, <1>4 DEF ChangeStage, ChangeableItems, OfRma
  <2>2. to # SLA_START_STAGE
    BY <2>1, <1>1, StageChange DEF SLA_START_STAGE
  <2> QED
    BY <2>1, <2>2, <1>1 DEF Changed, slaChange, ItemRow
<1>5. ASSUME NEW r \in Rmas, AttachVideo(r, i)
      PROVE  /\ items'[i].slaStartedAt
             /\ items'[i].slaHours = items[i].slaHours
             /\ items[i].slaFinishedAt => items'[i].slaFinishedAt
  BY <1>5, <1>1 DEF AttachVideo, ItemRow
<1>6. ASSUME NEW r \in Rmas, NEW sel \in Selections,
             ConfirmShipment(r, sel) \/ RegisterReceipt(r, sel)
      PROVE  FALSE
  BY <1>6, <1>1, <1>3, StageSets
     DEF ConfirmShipment, ShippableItems, RegisterReceipt, ReceivableItems
<1>7. ASSUME NEW r \in Rmas, NEW j \in Items, AttachVideo(r, j)
      PROVE  j = i
  BY <1>7, <1>1, <1>3 DEF AttachVideo
<1>8. ASSUME NEW r \in Rmas, OpenByCustomer(r) \/ OpenByStaff(r)
      PROVE  FALSE
  BY <1>8, <1>2, <1>3 DEF OpenByCustomer, OpenByStaff, Open
<1>9. CASE ImportStep
  BY <1>9, <1>2, <1>3 DEF ImportStep, Import
<1>10. ASSUME NEW r \in Rmas, Operate(r)
       PROVE  /\ items'[i].slaStartedAt
              /\ items'[i].slaHours = items[i].slaHours
              /\ items[i].slaFinishedAt => items'[i].slaFinishedAt
  BY <1>10, <1>3, <1>4, <1>5, <1>6, <1>7, <1>8
     DEF Operate, Assign, ChangePriority, Cancel
<1> QED
  BY <1>3, <1>9, <1>10 DEF Next, Configure

\* The deadline of an item is given once and for all.
THEOREM DeadlineIsGivenOnce == Spec => DeadlineIsFixed
<1>1. ASSUME IInv, [Next]_vars
      PROVE  [ \A i \in Items : items[i].slaStartedAt =>
                 /\ items'[i].slaStartedAt
                 /\ items'[i].slaHours = items[i].slaHours
                 /\ items[i].slaFinishedAt => items'[i].slaFinishedAt ]_vars
  BY <1>1, DeadlineStep
<1> QED
  BY <1>1, Invariant, PTL DEF Spec, DeadlineIsFixed

-----------------------------------------------------------------------------
(* RmaLifecycle implements RmaPromise.                                     *)

LEMMA PlaceAndClock ==
  ASSUME NEW row, ItemOK(row)
  PROVE  /\ placeOf(row) \in Promise!Places
         /\ clockOf(row) \in Promise!ClocksAt(placeOf(row))
         /\ clockOf(row) \in Promise!Clocks
         /\ placeOf(row) \in Promise!Returned <=> row.stage \in SLA_FINISHED_STAGES
         /\ placeOf(row) = "entregue" <=> row.stage = "finalizado"
<1>1. /\ row.stage \in {"aguardando_envio", "enviado", "recebido"} => ~row.slaStartedAt
      /\ row.stage \in {"aguardando_envio", "enviado", "recebido"} \/ row.slaStartedAt
      /\ row.slaFinishedAt <=> row.stage \in {"devolucao", "finalizado"}
  BY DEF ItemOK, ItemChecks
<1>2. placeOf(row) \in Promise!Places
  BY DEF placeOf, Promise!Places
<1>3. clockOf(row) \in Promise!Clocks
  BY DEF clockOf, Promise!Clocks
<1>4. placeOf(row) \in Promise!Returned <=> row.stage \in {"devolucao", "finalizado"}
  BY DEF placeOf, Promise!Returned
<1>5. clockOf(row) \in Promise!ClocksAt(placeOf(row))
  <2>1. CASE row.stage \in {"aguardando_envio", "enviado"}
    BY <2>1, <1>1 DEF placeOf, clockOf, Promise!ClocksAt, Promise!Returned
  <2>2. CASE row.stage \in {"devolucao", "finalizado"}
    BY <2>2, <1>1 DEF placeOf, clockOf, Promise!ClocksAt, Promise!Returned
  <2>3. CASE row.stage \notin {"aguardando_envio", "enviado", "devolucao", "finalizado"}
    <3>1. placeOf(row) = "fabrica"
      BY <2>3 DEF placeOf
    <3>2. clockOf(row) \in {"parado", "correndo"}
      BY <2>3, <1>1 DEF clockOf
    <3> QED
      BY <3>1, <3>2 DEF Promise!ClocksAt, Promise!Returned
  <2> QED
    BY <2>1, <2>2, <2>3
<1>6. placeOf(row) = "entregue" <=> row.stage = "finalizado"
  BY DEF placeOf
<1> QED
  BY <1>2, <1>3, <1>4, <1>5, <1>6, StageSets

LEMMA PromiseInit ==
  ASSUME Init
  PROVE  Promise!Init
<1>1. /\ outcomeOf(NoRma) = "inexistente"
      /\ placeOf(NewItem) = "cliente"
      /\ clockOf(NewItem) = "parado"
  BY DEF outcomeOf, NoRma, placeOf, clockOf, NewItem
<1> QED
  BY <1>1 DEF Init, Promise!Init, outcome, place, clock

\* An RMA begins with whatever rows of its own.
LEMMA PromiseBegin ==
  ASSUME IInv, IInv', NEW r \in Rmas, ~Exists(r), Exists(r)',
         ~rmas'[r].cancelledAt,
         \A q \in Rmas \ {r} : rmas'[q] = rmas[q],
         \A i \in Items \ OfRma(r) : items'[i] = items[i]
  PROVE  Promise!Begin(r)
<1> DEFINE at == [i \in OfRma(r) |-> placeOf(items'[i])]
<1> DEFINE c == [i \in OfRma(r) |-> clockOf(items'[i])]
<1>1. outcome[r] = "inexistente" /\ outcomeOf(rmas'[r]) \in {"aberto", "encerrado"}
  BY DEF outcome, outcomeOf, Exists
<1>2. \A i \in OfRma(r) : i \in Items /\ ItemOK(items'[i])
  BY DEF IInv, OfRma
<1>3. /\ at \in [OfRma(r) -> Promise!Places]
      /\ c \in [OfRma(r) -> Promise!Clocks]
      /\ \A i \in OfRma(r) : c[i] \in Promise!ClocksAt(at[i])
  BY <1>2, PlaceAndClock
<1>4. outcome' = [outcome EXCEPT ![r] = outcomeOf(rmas'[r])]
  BY DEF outcome
<1>5. place' = [i \in Items |-> IF i \in OfRma(r) THEN at[i] ELSE place[i]]
  BY DEF place
<1>6. clock' = [i \in Items |-> IF i \in OfRma(r) THEN c[i] ELSE clock[i]]
  BY DEF clock
<1>7. Promise!OfRma(r) = OfRma(r)
  BY DEF OfRma, Promise!OfRma
<1> HIDE DEF at, c
<1> QED
  BY <1>1, <1>3, <1>4, <1>5, <1>6, <1>7 DEF Promise!Begin

\* Items of an open RMA go together from one place to the next.
LEMMA PromiseMove ==
  ASSUME IInv, IInv', NEW r \in Rmas, lockOpenRma(r), NEW sel \in SUBSET OfRma(r),
         NEW from, NEW to, << from, to >> \in Promise!Route,
         Exists(r)', ~rmas'[r].cancelledAt,
         \A q \in Rmas \ {r} : rmas'[q] = rmas[q],
         \A i \in Items \ sel : items'[i] = items[i],
         \A i \in sel : /\ placeOf(items[i]) = from
                        /\ placeOf(items'[i]) = to
                        /\ to = "despachado" => items[i].slaStartedAt
                        /\ to \notin Promise!Returned => clockOf(items'[i]) = clockOf(items[i]),
         rmas'[r].closedAt <=> to = "entregue" /\ AllDelivered(r)'
  PROVE  Promise!Move(r, sel, from, to)
<1>1. outcome[r] = "aberto"
  BY DEF outcome, outcomeOf, lockOpenRma, Exists
<1>2. /\ Promise!OfRma(r) = OfRma(r)
      /\ OfRma(r) \subseteq Items
      /\ sel \subseteq Items
  BY DEF OfRma, Promise!OfRma
<1>3. \A i \in sel : place[i] = from
  BY <1>2 DEF place
<1>4. to = "despachado" => \A i \in sel : clock[i] = "correndo"
  <2>1. << from, to >> \in Promise!Route /\ to = "despachado" => from = "fabrica"
    BY DEF Promise!Route
  <2>2. ASSUME NEW i \in sel, to = "despachado"
        PROVE  clockOf(items[i]) = "correndo"
    <3>1. items[i].slaStartedAt /\ placeOf(items[i]) = "fabrica"
      BY <2>1, <2>2
    <3>2. ItemOK(items[i])
      BY <1>2 DEF IInv
    <3>3. ~items[i].slaFinishedAt
      BY <3>1, <3>2 DEF ItemOK, ItemChecks, placeOf
    <3> QED
      BY <3>1, <3>3 DEF clockOf
  <2> QED
    BY <1>2, <2>2 DEF clock
<1>5. place' = [i \in Items |-> IF i \in sel THEN to ELSE place[i]]
  BY <1>2 DEF place
<1>6. \A i \in Items :
        clockOf(items'[i]) = IF i \in sel /\ to \in Promise!Returned THEN "terminado"
                                                                    ELSE clockOf(items[i])
  <2> SUFFICES ASSUME NEW i \in sel, to \in Promise!Returned
               PROVE  clockOf(items'[i]) = "terminado"
    BY <1>2
  <2>1. clockOf(items'[i]) \in Promise!ClocksAt(to)
    BY <1>2, PlaceAndClock DEF IInv
  <2> QED
    BY <2>1 DEF Promise!ClocksAt, Promise!Returned
<1>7. clock' = [i \in Items |-> IF i \in sel /\ to \in Promise!Returned THEN "terminado"
                                                                      ELSE clock[i]]
  BY <1>6 DEF clock
<1>8. \A i \in OfRma(r) : place'[i] = "entregue" <=> items'[i].stage = "finalizado"
  BY <1>2 DEF place, placeOf
<1>9. outcomeOf(rmas'[r]) = IF to = "entregue" /\ \A i \in OfRma(r) : place'[i] = "entregue"
                              THEN "encerrado" ELSE "aberto"
  BY <1>8 DEF outcomeOf, Exists, AllDelivered, OfRma
<1>10. outcome' = [outcome EXCEPT ![r] = outcomeOf(rmas'[r])]
  BY DEF outcome
<1> QED
  BY <1>1, <1>2, <1>3, <1>4, <1>5, <1>7, <1>9, <1>10 DEF Promise!Move

\* A stage change moves the items, starts their deadline, or changes nothing
\* the promise speaks of.
LEMMA PromiseChangeStage ==
  ASSUME IInv, IInv', NEW r \in Rmas, NEW sel \in Selections, NEW to \in RMA_ITEM_STAGES,
         ChangeStage(r, sel, to)
  PROVE  [Promise!Next]_(Promise!vars)
<1>1. /\ lockOpenRma(r)
      /\ sel \in SUBSET OfRma(r)
      /\ OfRma(r) \subseteq Items
      /\ \A i \in Items \ sel : items'[i] = items[i]
      /\ \A i \in sel : items'[i] = Changed(items[i], to)
      /\ \A i \in sel : items[i].stage \in stagesChangeableTo(to)
      /\ \A i \in Items : ItemOK(items[i]) /\ ItemOK(items'[i])
      /\ envSlaHours \in SlaHours
      /\ rmas \in [Rmas -> RmaRow]
      /\ rmas[r] \in RmaRow
  BY DEF ChangeStage, ChangeableItems, OfRma, IInv
<1>2. \A i \in sel : /\ items'[i].stage = to
                     /\ items[i].stage \notin {"aguardando_envio", "enviado", "finalizado"}
                     /\ to \notin {"aguardando_envio", "enviado", "recebido"}
                     /\ to = "em_diagnostico" <=> items[i].stage = "recebido"
                     /\ to = "devolucao" <=> items[i].stage = "comprovacao"
                     /\ to = "finalizado" <=> items[i].stage = "devolucao"
  BY <1>1, ChangedOK, StageChange
<1>3. \A q \in Rmas \ {r} : rmas'[q] = rmas[q]
  BY <1>1 DEF ChangeStage
<1>4. sel # {} /\ sel \in SUBSET Items
  BY DEF Selections
<1>5. CASE to = "finalizado"
  <2>1. rmas'[r] = closeIfAllDelivered(r, items')
    BY <1>1, <1>5 DEF ChangeStage
  <2>2. /\ Exists(r)'
        /\ ~rmas'[r].cancelledAt
        /\ rmas'[r].closedAt <=> AllDelivered(r)'
    BY <2>1, <1>1 DEF closeIfAllDelivered, lockOpenRma, Exists, AllDelivered, OfRma, RmaRow
  <2>3. \A i \in sel : placeOf(items[i]) = "despachado" /\ placeOf(items'[i]) = "entregue"
    BY <1>2, <1>5 DEF placeOf
  <2>4. << "despachado", "entregue" >> \in Promise!Route /\ "entregue" \in Promise!Returned
    BY DEF Promise!Route, Promise!Returned
  <2>5. Promise!Move(r, sel, "despachado", "entregue")
    BY <1>1, <1>3, <2>2, <2>3, <2>4, PromiseMove
  <2> QED
    BY <2>4, <2>5, <1>4 DEF Promise!Next
<1>6. CASE to # "finalizado"
  <2>1. rmas' = rmas
    BY <1>6 DEF ChangeStage
  <2>2. outcome' = outcome
    BY <2>1 DEF outcome
  <2>3. CASE to = "devolucao"
    <3>1. \A i \in sel : /\ placeOf(items[i]) = "fabrica"
                         /\ placeOf(items'[i]) = "despachado"
                         /\ items[i].slaStartedAt
      BY <1>1, <1>2, <2>3 DEF placeOf, ItemOK, ItemChecks
    <3>2. << "fabrica", "despachado" >> \in Promise!Route /\ "despachado" \in Promise!Returned
      BY DEF Promise!Route, Promise!Returned
    <3>3. Exists(r)' /\ ~rmas'[r].cancelledAt /\ ~rmas'[r].closedAt
      BY <1>1, <2>1 DEF lockOpenRma, Exists
    <3>4. Promise!Move(r, sel, "fabrica", "despachado")
      BY <1>1, <1>3, <3>1, <3>2, <3>3, PromiseMove
    <3> QED
      BY <3>2, <3>4, <1>4 DEF Promise!Next
  <2>4. CASE to # "devolucao"
    <3>1. \A i \in sel : placeOf(items[i]) = "fabrica" /\ placeOf(items'[i]) = "fabrica"
      BY <1>2, <1>6, <2>4 DEF placeOf
    <3>2. \A i \in Items : placeOf(items'[i]) = placeOf(items[i])
      BY <1>1, <3>1
    <3>3. place' = place
      BY <3>2 DEF place
    <3>4. CASE to = "em_diagnostico"
      <4>1. \A i \in sel : clockOf(items[i]) = "parado"
        BY <1>1, <1>2, <3>4 DEF clockOf, ItemOK, ItemChecks
      <4>2. \A i \in sel : clockOf(items'[i]) = "correndo"
        BY <1>1, <1>2, <3>4 DEF clockOf, ItemOK, ItemChecks
      <4>3. clock' = [i \in Items |-> IF i \in sel THEN "correndo" ELSE clock[i]]
        BY <1>1, <4>2 DEF clock
      <4>4. Promise!OfRma(r) = OfRma(r)
        BY DEF OfRma, Promise!OfRma
      <4>5. outcome[r] = "aberto"
        BY <1>1 DEF outcome, outcomeOf, lockOpenRma, Exists
      <4>6. \A i \in sel : place[i] = "fabrica" /\ clock[i] = "parado"
        BY <1>4, <3>1, <4>1 DEF place, clock
      <4>7. Promise!StartClock(r, sel)
        BY <1>1, <2>2, <3>3, <4>3, <4>4, <4>5, <4>6 DEF Promise!StartClock
      <4> QED
        BY <4>7, <1>4 DEF Promise!Next
    <3>5. CASE to # "em_diagnostico"
      <4>1. \A i \in sel : clockOf(items[i]) = "correndo" /\ clockOf(items'[i]) = "correndo"
        BY <1>1, <1>2, <1>6, <2>4, <3>5 DEF clockOf, ItemOK, ItemChecks
      <4>2. \A i \in Items : clockOf(items'[i]) = clockOf(items[i])
        BY <1>1, <4>1
      <4>3. clock' = clock
        BY <4>2 DEF clock
      <4> QED
        BY <2>2, <3>3, <4>3 DEF Promise!vars
    <3> QED
      BY <3>4, <3>5
  <2> QED
    BY <2>3, <2>4
<1> QED
  BY <1>5, <1>6

LEMMA PromiseConfirmShipment ==
  ASSUME IInv, IInv', NEW r \in Rmas, NEW sel \in Selections, ConfirmShipment(r, sel)
  PROVE  Promise!Next
<1>1. /\ lockOpenRma(r)
      /\ sel \in SUBSET OfRma(r)
      /\ sel \in SUBSET Items
      /\ \A i \in Items \ sel : items'[i] = items[i]
      /\ rmas' = rmas
  BY DEF ConfirmShipment, ShippableItems, OfRma
<1>2. \A i \in sel : /\ items'[i] = Shipped(items[i])
                     /\ items[i].stage \in SHIPPABLE_STAGES
                     /\ ItemOK(items[i])
                     /\ ItemOK(items'[i])
  BY <1>1 DEF ConfirmShipment, ShippableItems, IInv
<1>3. \A i \in sel : /\ items[i].stage = "aguardando_envio"
                     /\ items'[i].stage = "enviado"
  BY <1>2, ShippedOK, StageSets
<1>4. \A i \in sel : /\ placeOf(items[i]) = "cliente"
                     /\ placeOf(items'[i]) = "a_caminho"
                     /\ clockOf(items'[i]) = clockOf(items[i])
  BY <1>2, <1>3 DEF placeOf, clockOf, ItemOK, ItemChecks
<1>5. << "cliente", "a_caminho" >> \in Promise!Route /\ "a_caminho" \notin Promise!Returned
  BY DEF Promise!Route, Promise!Returned
<1>6. Exists(r)' /\ ~rmas'[r].cancelledAt /\ ~rmas'[r].closedAt
  BY <1>1 DEF lockOpenRma, Exists
<1>7. Promise!Move(r, sel, "cliente", "a_caminho")
  BY <1>1, <1>4, <1>5, <1>6, PromiseMove
<1> QED
  BY <1>1, <1>5, <1>7 DEF Promise!Next

LEMMA PromiseRegisterReceipt ==
  ASSUME IInv, IInv', NEW r \in Rmas, NEW sel \in Selections, RegisterReceipt(r, sel)
  PROVE  Promise!Next
<1>1. /\ lockOpenRma(r)
      /\ sel \in SUBSET OfRma(r)
      /\ sel \in SUBSET Items
      /\ \A i \in Items \ sel : items'[i] = items[i]
      /\ rmas' = rmas
  BY DEF RegisterReceipt, ReceivableItems, OfRma
<1>2. \A i \in sel : /\ items'[i] = Received(items[i])
                     /\ items[i].stage \in RECEIVABLE_STAGES
                     /\ ItemOK(items[i])
                     /\ ItemOK(items'[i])
  BY <1>1 DEF RegisterReceipt, ReceivableItems, IInv
<1>3. \A i \in sel : /\ items[i].stage = "enviado"
                     /\ items'[i].stage = "recebido"
  BY <1>2, ReceivedOK, StageSets
<1>4. \A i \in sel : /\ placeOf(items[i]) = "a_caminho"
                     /\ placeOf(items'[i]) = "fabrica"
                     /\ clockOf(items'[i]) = clockOf(items[i])
  BY <1>2, <1>3 DEF placeOf, clockOf, ItemOK, ItemChecks
<1>5. << "a_caminho", "fabrica" >> \in Promise!Route /\ "fabrica" \notin Promise!Returned
  BY DEF Promise!Route, Promise!Returned
<1>6. Exists(r)' /\ ~rmas'[r].cancelledAt /\ ~rmas'[r].closedAt
  BY <1>1 DEF lockOpenRma, Exists
<1>7. Promise!Move(r, sel, "a_caminho", "fabrica")
  BY <1>1, <1>4, <1>5, <1>6, PromiseMove
<1> QED
  BY <1>1, <1>5, <1>7 DEF Promise!Next

\* The operations that leave places and clocks alone: a cancellation is one of
\* the promise, the others change nothing it speaks of.
LEMMA PromiseManage ==
  ASSUME IInv, IInv', NEW r \in Rmas,
         \/ \E i \in Items : AttachVideo(r, i)
         \/ \E expected, assignee \in Staff \union {None} : Assign(r, expected, assignee)
         \/ \E priority \in Priorities : ChangePriority(r, priority)
         \/ Cancel(r)
  PROVE  [Promise!Next]_(Promise!vars)
<1>1. rmas \in [Rmas -> RmaRow] /\ items \in [Items -> ItemRow]
  BY DEF IInv
<1>2. \A i \in Items : /\ placeOf(items'[i]) = placeOf(items[i])
                       /\ clockOf(items'[i]) = clockOf(items[i])
  BY <1>1 DEF AttachVideo, Assign, ChangePriority, Cancel, placeOf, clockOf, ItemRow
<1>3. place' = place /\ clock' = clock
  BY <1>2 DEF place, clock
<1>4. CASE Cancel(r)
  <2>1. outcome[r] = "aberto"
    BY <1>4 DEF outcome, outcomeOf, Cancel, lockOpenRma, Exists
  <2>2. \A i \in Promise!OfRma(r) : place[i] \notin Promise!Returned
    BY <1>4, PlaceAndClock, StageSets
       DEF Cancel, isCancellable, place, Promise!OfRma, OfRma, IInv
  <2>3. rmas' = [rmas EXCEPT ![r] = Cancelled(r)]
    BY <1>4 DEF Cancel
  <2>4. rmas[r] \in RmaRow /\ rmas[r].origin # "nenhuma"
    BY <1>1, <1>4 DEF Cancel, lockOpenRma, Exists
  <2>5. outcomeOf(Cancelled(r)) = "cancelado"
    BY <2>4 DEF outcomeOf, Cancelled, RmaRow
  <2>6. outcome' = [outcome EXCEPT ![r] = "cancelado"]
    BY <1>1, <2>3, <2>5 DEF outcome
  <2>7. Promise!Cancel(r)
    BY <1>3, <2>1, <2>2, <2>6 DEF Promise!Cancel
  <2> QED
    BY <2>7 DEF Promise!Next
<1>5. CASE ~Cancel(r)
  <2>1. \A q \in Rmas : outcomeOf(rmas'[q]) = outcomeOf(rmas[q])
    BY <1>1, <1>5 DEF AttachVideo, Assign, ChangePriority, outcomeOf, RmaRow
  <2>2. outcome' = outcome
    BY <2>1 DEF outcome
  <2> QED
    BY <1>3, <2>2 DEF Promise!vars
<1> QED
  BY <1>4, <1>5

LEMMA PromiseStep ==
  ASSUME IInv, IInv', [Next]_vars
  PROVE  [Promise!Next]_(Promise!vars)
<1>1. ASSUME NEW r \in Rmas, OpenByCustomer(r) \/ OpenByStaff(r)
      PROVE  Promise!Next
  <2>1. /\ ~Exists(r)
        /\ Exists(r)'
        /\ ~rmas'[r].cancelledAt
        /\ \A q \in Rmas \ {r} : rmas'[q] = rmas[q]
        /\ \A i \in Items \ OfRma(r) : items'[i] = items[i]
    BY <1>1 DEF OpenByCustomer, OpenByStaff, Open, Exists, IInv, RmaOK, NoRma, RmaRow, OfRma
  <2> QED
    BY <2>1, PromiseBegin DEF Promise!Next
<1>2. CASE ImportStep
  <2>1. PICK r \in Rmas :
             /\ ~Exists(r)
             /\ Exists(r)'
             /\ ~rmas'[r].cancelledAt
             /\ \A q \in Rmas \ {r} : rmas'[q] = rmas[q]
             /\ \A i \in Items \ OfRma(r) : items'[i] = items[i]
    BY <1>2 DEF ImportStep, Import, Exists, IInv, RmaOK, NoRma, RmaRow, OfRma
  <2> QED
    BY <2>1, PromiseBegin DEF Promise!Next
<1>3. ASSUME NEW r \in Rmas, Operate(r)
      PROVE  [Promise!Next]_(Promise!vars)
  BY <1>1, <1>3, PromiseConfirmShipment, PromiseRegisterReceipt, PromiseChangeStage,
     PromiseManage DEF Operate
<1>4. ASSUME UNCHANGED << rmas, items >>
      PROVE  UNCHANGED Promise!vars
  BY <1>4 DEF Promise!vars, outcome, place, clock
<1> QED
  BY <1>2, <1>3, <1>4 DEF Next, Configure, vars

\* Every behaviour of the API's operations is one of the promise.
THEOREM ImplementsPromise == Spec => KeepsPromise
<1>1. Init => Promise!Init
  BY PromiseInit
<1>2. IInv /\ IInv' /\ [Next]_vars => [Promise!Next]_(Promise!vars)
  BY PromiseStep
<1> QED
  BY <1>1, <1>2, Invariant, PTL DEF Spec, KeepsPromise, Promise!Spec

-----------------------------------------------------------------------------
(* Concurrent requests look like operations made one at a time: every step *)
(* of RmaRequests is a step of RmaLifecycle or leaves its variables alone, *)
(* for any number of requests, RMAs and items.  The argument is the row    *)
(* lock: whoever holds it is the only one to change the RMA and its items, *)
(* so what a request checked still holds when it writes, and what it wrote *)
(* is still what the operation does when it commits.                       *)

States == { "parado", "buscou", "bloqueou", "conferiu", "gravou", "preso" }

\* mayProceed, of the selected items that are the RMA's own: of those of other
\* RMAs the lock says nothing, and the update finds them out.
stillAllowed(o) ==
  /\ o.kind = "etapa" => ensureValidationVideos(o.sel \intersect OfRma(o.r), o.to)
  /\ o.kind # "etapa" => mayProceed(o)

arrivedFor(o) == IF o.kind = "cancelamento" THEN itemsToReturn(o.r) ELSE {}

\* What the transaction of the operation has written, as of the committed rows.
writeOf(o) ==
  [ row   |-> writtenRow(o, writtenItems(o), arrivedFor(o)),
    items |-> writtenItems(o) ]

LockOK(p) ==
  InTransaction(p) => held[op[p].r] = p /\ lockOpenRma(op[p].r)

CheckOK(p) ==
  pc[p] \in {"conferiu", "gravou"} =>
    stillAllowed(op[p]) /\ seen[p] = arrivedFor(op[p])

WriteOK(p) ==
  pc[p] = "gravou" => allMoved(op[p]) /\ after[p] = writeOf(op[p])

RequestsTypeOK ==
  /\ pc \in [Requests -> States]
  /\ op \in [Requests -> Ops \union {None}]
  /\ held \in [Rmas -> Requests \union {None}]
  /\ seen = [p \in Requests |-> seen[p]]
  /\ after = [p \in Requests |-> after[p]]

RequestOK(p) ==
  /\ pc[p] \notin {"parado", "preso"} => op[p] \in Ops
  /\ LockOK(p)
  /\ CheckOK(p)
  /\ WriteOK(p)

RInv ==
  /\ RequestsTypeOK
  /\ \A p \in Requests : RequestOK(p)

-----------------------------------------------------------------------------
(* Operations and what they read.                                          *)

LEMMA OpFields ==
  ASSUME NEW o \in Ops
  PROVE  /\ o.kind \in {"envio", "recebimento", "etapa", "video", "responsavel",
                        "prioridade", "cancelamento"}
         /\ o.r \in Rmas
         /\ o.kind \in {"envio", "recebimento", "etapa"} => o.sel \in Selections
         /\ o.kind = "etapa" => o.to \in RMA_ITEM_STAGES
         /\ o.kind = "video" => o.item \in Items
         /\ o.kind = "responsavel" => /\ o.expected \in Staff \union {None}
                                      /\ o.assignee \in Staff \union {None}
         /\ o.kind = "prioridade" => o.priority \in Priorities
  BY DEF Ops

\* Everything an operation checks and writes is about its RMA, the items of it
\* and the configuration.
LEMMA Stays ==
  ASSUME NEW o \in Ops,
         rmas'[o.r] = rmas[o.r],
         \A i \in OfRma(o.r) : items'[i] = items[i],
         envSlaHours' = envSlaHours
  PROVE  /\ lockOpenRma(o.r)' <=> lockOpenRma(o.r)
         /\ stillAllowed(o)' <=> stillAllowed(o)
         /\ arrivedFor(o)' = arrivedFor(o)
         /\ allMoved(o)' <=> allMoved(o)
         /\ allMoved(o) /\ stillAllowed(o) => writeOf(o)' = writeOf(o)
<1>1. lockOpenRma(o.r)' <=> lockOpenRma(o.r)
  BY DEF lockOpenRma, Exists
<1>2. OfRma(o.r)' = OfRma(o.r) /\ OfRma(o.r) \subseteq Items
  BY DEF OfRma
<1>3. stillAllowed(o)' <=> stillAllowed(o)
  <2>1. ensureValidationVideos(o.sel \intersect OfRma(o.r), o.to)'
          <=> ensureValidationVideos(o.sel \intersect OfRma(o.r), o.to)
    BY <1>2 DEF ensureValidationVideos
  <2>2. { items[i].stage : i \in OfRma(o.r) }' = { items[i].stage : i \in OfRma(o.r) }
    BY <1>2
  <2> QED
    BY <1>2, <2>1, <2>2 DEF stillAllowed, mayProceed
<1>4. arrivedFor(o)' = arrivedFor(o)
  BY <1>2 DEF arrivedFor, itemsToReturn
<1>5. allMoved(o)' <=> allMoved(o)
  BY <1>2 DEF allMoved, ShippableItems, ReceivableItems, ChangeableItems
<1>6. ASSUME allMoved(o), stillAllowed(o)
      PROVE  writeOf(o)' = writeOf(o)
  <2>1. /\ o.kind \in {"envio", "recebimento", "etapa"} => o.sel \subseteq OfRma(o.r)
        /\ o.kind = "video" => o.item \in OfRma(o.r)
    BY <1>6 DEF allMoved, stillAllowed, mayProceed, ShippableItems, ReceivableItems,
                ChangeableItems
  <2>2. writtenItems(o)' = writtenItems(o)
    <3>1. CASE o.kind = "envio"
      BY <2>1, <3>1 DEF writtenItems, Shipped
    <3>2. CASE o.kind = "recebimento"
      BY <2>1, <3>2 DEF writtenItems, Received
    <3>3. CASE o.kind = "etapa"
      BY <2>1, <3>3 DEF writtenItems, Changed, slaChange
    <3>4. CASE o.kind = "video"
      BY <2>1, <3>4 DEF writtenItems
    <3>5. CASE o.kind \in {"responsavel", "prioridade", "cancelamento"}
      BY <3>5 DEF writtenItems
    <3> QED
      BY <3>1, <3>2, <3>3, <3>4, <3>5, OpFields
  <2>3. \A i \in OfRma(o.r) : over(writtenItems(o))'[i] = over(writtenItems(o))[i]
    BY <1>2, <2>2 DEF over
  <2>4. closeIfAllDelivered(o.r, over(writtenItems(o)))'
          = closeIfAllDelivered(o.r, over(writtenItems(o)))
    BY <1>2, <2>3 DEF closeIfAllDelivered
  <2>5. writtenRow(o, writtenItems(o), arrivedFor(o))'
          = writtenRow(o, writtenItems(o), arrivedFor(o))
    BY <1>4, <2>2, <2>4, OpFields DEF writtenRow
  <2> QED
    BY <2>2, <2>5 DEF writeOf
<1> QED
  BY <1>1, <1>3, <1>4, <1>5, <1>6

\* The write of an operation touches its RMA and the items of it, nothing else.
LEMMA WritesItsOwn ==
  ASSUME NEW o \in Ops, allMoved(o), stillAllowed(o)
  PROVE  DOMAIN writtenItems(o) \subseteq OfRma(o.r)
<1>1. /\ o.kind \in {"envio", "recebimento", "etapa"} => o.sel \subseteq OfRma(o.r)
      /\ o.kind = "video" => o.item \in OfRma(o.r)
  BY DEF allMoved, stillAllowed, mayProceed, ShippableItems, ReceivableItems,
         ChangeableItems
<1> QED
  BY <1>1, OpFields DEF writtenItems

-----------------------------------------------------------------------------
(* One request while another one takes a step.                             *)

\* Nothing of the request changes, nor anything its lock protects.
Untouched(p) ==
  /\ pc'[p] = pc[p] /\ op'[p] = op[p] /\ seen'[p] = seen[p] /\ after'[p] = after[p]
  /\ InTransaction(p) =>
       /\ held'[op[p].r] = held[op[p].r]
       /\ rmas'[op[p].r] = rmas[op[p].r]
       /\ \A i \in OfRma(op[p].r) : items'[i] = items[i]
       /\ envSlaHours' = envSlaHours

LEMMA UntouchedOK ==
  ASSUME RInv, NEW p \in Requests, Untouched(p)
  PROVE  RequestOK(p)'
<1>1. RequestOK(p)
  BY DEF RInv
<1>2. PICK o : o = op[p]
  OBVIOUS
<1>3. CASE ~InTransaction(p)
  BY <1>1, <1>3 DEF RequestOK, LockOK, CheckOK, WriteOK, InTransaction, Untouched
<1>4. CASE InTransaction(p)
  <2>1. o \in Ops /\ op'[p] = o
    BY <1>1, <1>2, <1>4 DEF RequestOK, InTransaction, Untouched
  <2>2. /\ rmas'[o.r] = rmas[o.r]
        /\ \A i \in OfRma(o.r) : items'[i] = items[i]
        /\ envSlaHours' = envSlaHours
        /\ held'[o.r] = held[o.r]
    BY <1>2, <1>4 DEF Untouched
  <2>3. /\ lockOpenRma(o.r)' <=> lockOpenRma(o.r)
        /\ stillAllowed(o)' <=> stillAllowed(o)
        /\ arrivedFor(o)' = arrivedFor(o)
        /\ allMoved(o)' <=> allMoved(o)
        /\ allMoved(o) /\ stillAllowed(o) => writeOf(o)' = writeOf(o)
    BY <2>1, <2>2, Stays
  <2>4. LockOK(p)'
    BY <1>1, <1>2, <1>4, <2>1, <2>2, <2>3 DEF RequestOK, LockOK, InTransaction, Untouched
  <2>5. CheckOK(p)'
    BY <1>1, <1>2, <2>1, <2>3 DEF RequestOK, CheckOK, Untouched
  <2>6. WriteOK(p)'
    BY <1>1, <1>2, <2>1, <2>3 DEF RequestOK, CheckOK, WriteOK, Untouched
  <2> QED
    BY <2>1, <2>4, <2>5, <2>6 DEF RequestOK
<1> QED
  BY <1>3, <1>4

\* A request that ended, or is stuck, has nothing to keep.
LEMMA EndedOK ==
  ASSUME NEW p \in Requests, pc'[p] \in {"parado", "preso"}
  PROVE  RequestOK(p)'
  BY DEF RequestOK, LockOK, CheckOK, WriteOK, InTransaction

\* Giving up its locks, a request takes none from another.
LEMMA OtherLocksStay ==
  ASSUME RInv, NEW q \in Requests, NEW p \in Requests \ {q}, InTransaction(p)
  PROVE  /\ op[p].r \in Rmas
         /\ held[op[p].r] = p
         /\ withoutLocksOf(q)[op[p].r] = held[op[p].r]
<1>1. RequestOK(p)
  BY DEF RInv
<1>2. op[p] \in Ops /\ held[op[p].r] = p
  BY <1>1 DEF RequestOK, LockOK, InTransaction
<1>3. op[p].r \in Rmas
  BY <1>2, OpFields
<1> QED
  BY <1>2, <1>3 DEF withoutLocksOf

-----------------------------------------------------------------------------
(* Every step keeps RInv.                                                  *)

LEMMA EndTypeOK ==
  ASSUME RequestsTypeOK, NEW p \in Requests, End(p)
  PROVE  RequestsTypeOK' /\ pc'[p] = "parado"
<1>1. held' \in [Rmas -> Requests \union {None}]
  BY DEF RequestsTypeOK, End, withoutLocksOf
<1>2. /\ pc' \in [Requests -> States]
      /\ op' \in [Requests -> Ops \union {None}]
      /\ pc'[p] = "parado"
  BY DEF RequestsTypeOK, End, States
<1>3. /\ seen' = [q \in Requests |-> seen'[q]]
      /\ after' = [q \in Requests |-> after'[q]]
  BY DEF RequestsTypeOK, End
<1> QED
  BY <1>1, <1>2, <1>3 DEF RequestsTypeOK

LEMMA RefuseInv ==
  ASSUME RInv, NEW q \in Requests, Refuse(q)
  PROVE  RInv'
<1>1. RequestsTypeOK' /\ pc'[q] = "parado"
  BY EndTypeOK DEF RInv, Refuse
<1>2. RequestOK(q)'
  BY <1>1, EndedOK
<1>3. ASSUME NEW p \in Requests \ {q}
      PROVE  RequestOK(p)'
  <2>1. /\ pc'[p] = pc[p] /\ op'[p] = op[p] /\ seen'[p] = seen[p] /\ after'[p] = after[p]
    BY DEF Refuse, End, RInv, RequestsTypeOK
  <2>2. InTransaction(p) => held'[op[p].r] = held[op[p].r]
    BY OtherLocksStay DEF Refuse, End
  <2>3. Untouched(p)
    BY <2>1, <2>2 DEF Untouched, Refuse
  <2> QED
    BY <2>3, UntouchedOK
<1> QED
  BY <1>1, <1>2, <1>3 DEF RInv

LEMMA FindInv ==
  ASSUME RInv, NEW q \in Requests, NEW o \in Asked, FindRma(q, o)
  PROVE  RInv'
<1>1. RequestsTypeOK'
  BY AskedAssumption DEF FindRma, RInv, RequestsTypeOK, States
<1>2. RequestOK(q)'
  <2>1. pc'[q] = "buscou" /\ op'[q] = o /\ o \in Ops
    BY AskedAssumption DEF FindRma, RInv, RequestsTypeOK
  <2> QED
    BY <2>1 DEF RequestOK, LockOK, CheckOK, WriteOK, InTransaction
<1>3. ASSUME NEW p \in Requests \ {q}
      PROVE  RequestOK(p)'
  <2>1. Untouched(p)
    BY DEF Untouched, FindRma, RInv, RequestsTypeOK
  <2> QED
    BY <2>1, UntouchedOK
<1> QED
  BY <1>1, <1>2, <1>3 DEF RInv

LEMMA LockInv ==
  ASSUME RInv, NEW q \in Requests, LockOpenRma(q)
  PROVE  RInv'
<1>1. CASE Refuse(q)
  BY <1>1, RefuseInv
<1>2. CASE ~Refuse(q)
  <2>1. /\ pc[q] = "buscou"
        /\ held[op[q].r] = None
        /\ lockOpenRma(op[q].r)
        /\ pc' = [pc EXCEPT ![q] = "bloqueou"]
        /\ held' = [held EXCEPT ![op[q].r] = q]
        /\ UNCHANGED << rmas, items, envSlaHours, op, seen, after >>
    BY <1>2 DEF LockOpenRma
  <2>2. op[q] \in Ops /\ op[q].r \in Rmas
    BY <2>1, OpFields DEF RInv, RequestOK
  <2>3. RequestsTypeOK'
    BY <2>1, <2>2 DEF RInv, RequestsTypeOK, States
  <2>4. RequestOK(q)'
    <3>1. pc'[q] = "bloqueou" /\ held'[op[q].r] = q /\ op'[q] = op[q]
      BY <2>1, <2>2 DEF RInv, RequestsTypeOK
    <3>2. lockOpenRma(op[q].r)'
      BY <2>1 DEF lockOpenRma, Exists
    <3> QED
      BY <2>2, <3>1, <3>2 DEF RequestOK, LockOK, CheckOK, WriteOK
  <2>5. ASSUME NEW p \in Requests \ {q}
        PROVE  RequestOK(p)'
    <3>1. InTransaction(p) => op[p].r # op[q].r
      BY <2>1, OtherLocksStay, RequestsAssumption
    <3>2. Untouched(p)
      BY <2>1, <3>1, OtherLocksStay DEF Untouched, RInv, RequestsTypeOK
    <3> QED
      BY <3>2, UntouchedOK
  <2> QED
    BY <2>3, <2>4, <2>5 DEF RInv
<1> QED
  BY <1>1, <1>2

LEMMA CheckInv ==
  ASSUME RInv, NEW q \in Requests, Check(q)
  PROVE  RInv'
<1>1. CASE Refuse(q)
  BY <1>1, RefuseInv
<1>2. CASE ~Refuse(q)
  <2>1. /\ pc[q] = "bloqueou"
        /\ mayProceed(op[q])
        /\ pc' = [pc EXCEPT ![q] = "conferiu"]
        /\ seen' = [seen EXCEPT ![q] = arrivedFor(op[q])]
        /\ UNCHANGED << rmas, items, envSlaHours, op, held, after >>
    BY <1>2 DEF Check, arrivedFor
  <2>2. PICK o : o = op[q]
    OBVIOUS
  <2>3. o \in Ops /\ LockOK(q)
    BY <2>1, <2>2 DEF RInv, RequestOK
  <2>4. RequestsTypeOK'
    BY <2>1 DEF RInv, RequestsTypeOK, States
  <2>5. RequestOK(q)'
    <3>1. pc'[q] = "conferiu" /\ op'[q] = o /\ seen'[q] = arrivedFor(o)
      BY <2>1, <2>2 DEF RInv, RequestsTypeOK
    <3>2. stillAllowed(o)
      BY <2>1, <2>2 DEF stillAllowed, mayProceed, ensureValidationVideos
    <3>3. /\ lockOpenRma(o.r)' <=> lockOpenRma(o.r)
          /\ stillAllowed(o)' <=> stillAllowed(o)
          /\ arrivedFor(o)' = arrivedFor(o)
      BY <2>1, <2>3, Stays
    <3>4. LockOK(q)'
      BY <2>1, <2>2, <2>3, <3>1, <3>3 DEF LockOK, InTransaction
    <3>5. CheckOK(q)'
      BY <3>1, <3>2, <3>3 DEF CheckOK
    <3>6. WriteOK(q)'
      BY <3>1 DEF WriteOK
    <3> QED
      BY <2>3, <3>1, <3>4, <3>5, <3>6 DEF RequestOK
  <2>6. ASSUME NEW p \in Requests \ {q}
        PROVE  RequestOK(p)'
    <3>1. Untouched(p)
      BY <2>1 DEF Untouched, RInv, RequestsTypeOK
    <3> QED
      BY <3>1, UntouchedOK
  <2> QED
    BY <2>4, <2>5, <2>6 DEF RInv
<1> QED
  BY <1>1, <1>2

LEMMA WriteInv ==
  ASSUME RInv, NEW q \in Requests, Write(q)
  PROVE  RInv'
<1>1. CASE Refuse(q)
  BY <1>1, RefuseInv
<1>2. CASE ~Refuse(q)
  <2>1. /\ pc[q] = "conferiu"
        /\ allMoved(op[q])
        /\ pc' = [pc EXCEPT ![q] = "gravou"]
        /\ after' = [after EXCEPT ![q] =
             [ row   |-> writtenRow(op[q], writtenItems(op[q]), seen[q]),
               items |-> writtenItems(op[q]) ]]
        /\ UNCHANGED << rmas, items, envSlaHours, op, held, seen >>
    BY <1>2 DEF Write
  <2>2. PICK o : o = op[q]
    OBVIOUS
  <2>3. o \in Ops /\ LockOK(q) /\ CheckOK(q)
    BY <2>1, <2>2 DEF RInv, RequestOK
  <2>4. RequestsTypeOK'
    BY <2>1 DEF RInv, RequestsTypeOK, States
  <2>5. RequestOK(q)'
    <3>1. stillAllowed(o) /\ seen[q] = arrivedFor(o) /\ allMoved(o)
      BY <2>1, <2>2, <2>3 DEF CheckOK
    <3>2. pc'[q] = "gravou" /\ op'[q] = o /\ seen'[q] = arrivedFor(o)
      BY <2>1, <2>2, <3>1 DEF RInv, RequestsTypeOK
    <3>3. after'[q] = writeOf(o)
      BY <2>1, <2>2, <3>1 DEF RInv, RequestsTypeOK, writeOf
    <3>4. /\ lockOpenRma(o.r)' <=> lockOpenRma(o.r)
          /\ stillAllowed(o)' <=> stillAllowed(o)
          /\ arrivedFor(o)' = arrivedFor(o)
          /\ allMoved(o)' <=> allMoved(o)
          /\ writeOf(o)' = writeOf(o)
      BY <2>1, <2>3, <3>1, Stays
    <3>5. LockOK(q)'
      BY <2>1, <2>2, <2>3, <3>2, <3>4 DEF LockOK, InTransaction
    <3>6. CheckOK(q)'
      BY <3>1, <3>2, <3>4 DEF CheckOK
    <3>7. WriteOK(q)'
      BY <3>1, <3>2, <3>3, <3>4 DEF WriteOK
    <3> QED
      BY <2>3, <3>2, <3>5, <3>6, <3>7 DEF RequestOK
  <2>6. ASSUME NEW p \in Requests \ {q}
        PROVE  RequestOK(p)'
    <3>1. Untouched(p)
      BY <2>1 DEF Untouched, RInv, RequestsTypeOK
    <3> QED
      BY <3>1, UntouchedOK
  <2> QED
    BY <2>4, <2>5, <2>6 DEF RInv
<1> QED
  BY <1>1, <1>2

LEMMA HangInv ==
  ASSUME RInv, NEW q \in Requests, Hang(q)
  PROVE  RInv'
<1>1. RequestsTypeOK' /\ pc'[q] = "preso"
  BY DEF Hang, RInv, RequestsTypeOK, States
<1>2. ASSUME NEW p \in Requests \ {q}
      PROVE  RequestOK(p)'
  <2>1. Untouched(p)
    BY DEF Untouched, Hang, RInv, RequestsTypeOK
  <2> QED
    BY <2>1, UntouchedOK
<1> QED
  BY <1>1, <1>2, EndedOK DEF RInv

\* What a commit does, in terms of the committed rows alone.
Committed(o) ==
  /\ lockOpenRma(o.r)
  /\ mayProceed(o)
  /\ allMoved(o)
  /\ rmas' = [rmas EXCEPT ![o.r] = writtenRow(o, writtenItems(o), arrivedFor(o))]
  /\ items' = over(writtenItems(o))
  /\ UNCHANGED envSlaHours

LEMMA CommitFacts ==
  ASSUME RInv, NEW q \in Requests, Commit(q), NEW o, o = op[q]
  PROVE  o \in Ops /\ stillAllowed(o) /\ held[o.r] = q /\ Committed(o)
<1>1. pc[q] = "gravou"
  BY DEF Commit
<1>2. o \in Ops /\ LockOK(q) /\ CheckOK(q) /\ WriteOK(q)
  BY <1>1 DEF RInv, RequestOK
<1>3. /\ held[o.r] = q
      /\ lockOpenRma(o.r)
      /\ stillAllowed(o)
      /\ allMoved(o)
      /\ after[q] = writeOf(o)
  BY <1>1, <1>2 DEF LockOK, CheckOK, WriteOK, InTransaction
<1>4. mayProceed(o)
  <2>1. CASE o.kind = "etapa"
    <3>1. o.sel \intersect OfRma(o.r) = o.sel
      BY <1>3, <2>1 DEF allMoved, ChangeableItems
    <3> QED
      BY <1>3, <2>1, <3>1 DEF stillAllowed, mayProceed
  <2> QED
    BY <1>3, <2>1 DEF stillAllowed
<1>5. /\ rmas' = [rmas EXCEPT ![o.r] = writtenRow(o, writtenItems(o), arrivedFor(o))]
      /\ items' = over(writtenItems(o))
      /\ UNCHANGED envSlaHours
  BY <1>3 DEF Commit, writeOf
<1> QED
  BY <1>2, <1>3, <1>4, <1>5 DEF Committed

LEMMA CommitInv ==
  ASSUME IInv, RInv, NEW q \in Requests, Commit(q)
  PROVE  RInv'
<1>1. PICK o : o = op[q]
  OBVIOUS
<1>2. o \in Ops /\ stillAllowed(o) /\ held[o.r] = q /\ Committed(o)
  BY <1>1, CommitFacts
<1>3. RequestsTypeOK' /\ pc'[q] = "parado"
  BY EndTypeOK DEF RInv, Commit
<1>4. ASSUME NEW p \in Requests \ {q}
      PROVE  RequestOK(p)'
  <2>1. /\ pc'[p] = pc[p] /\ op'[p] = op[p] /\ seen'[p] = seen[p] /\ after'[p] = after[p]
    BY DEF Commit, End, RInv, RequestsTypeOK
  <2>2. ASSUME InTransaction(p)
        PROVE  /\ held'[op[p].r] = held[op[p].r]
               /\ rmas'[op[p].r] = rmas[op[p].r]
               /\ \A i \in OfRma(op[p].r) : items'[i] = items[i]
    <3>1. op[p].r \in Rmas /\ op[p].r # o.r /\ held'[op[p].r] = held[op[p].r]
      BY <1>2, <2>2, OtherLocksStay DEF Commit, End
    <3>2. rmas'[op[p].r] = rmas[op[p].r]
      BY <1>2, <3>1 DEF IInv, Committed
    <3>3. \A i \in OfRma(op[p].r) : i \in Items /\ i \notin DOMAIN writtenItems(o)
      BY <1>2, <3>1, WritesItsOwn DEF OfRma, Committed
    <3>4. \A i \in OfRma(op[p].r) : items'[i] = items[i]
      BY <1>2, <3>3 DEF Committed, over
    <3> QED
      BY <3>1, <3>2, <3>4
  <2>3. Untouched(p)
    BY <1>2, <2>1, <2>2 DEF Untouched, Committed
  <2> QED
    BY <2>3, UntouchedOK
<1> QED
  BY <1>3, <1>4, EndedOK DEF RInv

\* An opening and an import change the RMA that did not exist, which nobody
\* holds, and its items.
LEMMA InsertFacts ==
  ASSUME IInv, Insert
  PROVE  \E r \in Rmas :
           /\ ~Exists(r)
           /\ \A other \in Rmas \ {r} :
                /\ rmas'[other] = rmas[other]
                /\ \A i \in OfRma(other) : items'[i] = items[i]
           /\ UNCHANGED << envSlaHours, requestVars >>
<1>1. ASSUME NEW r \in Rmas, OpenByCustomer(r) \/ OpenByStaff(r)
      PROVE  /\ ~Exists(r)
             /\ \A other \in Rmas \ {r} :
                  /\ rmas'[other] = rmas[other]
                  /\ \A i \in OfRma(other) : items'[i] = items[i]
             /\ UNCHANGED envSlaHours
  BY <1>1 DEF OpenByCustomer, OpenByStaff, Open, OfRma, IInv
<1>2. ASSUME NEW r \in Rmas, NEW stageOf, NEW shipped, NEW closed, NEW assignee,
             Import(r, stageOf, shipped, closed, assignee)
      PROVE  /\ ~Exists(r)
             /\ \A other \in Rmas \ {r} :
                  /\ rmas'[other] = rmas[other]
                  /\ \A i \in OfRma(other) : items'[i] = items[i]
             /\ UNCHANGED envSlaHours
  BY <1>2 DEF Import, OfRma, IInv
<1>3. CASE \E r \in Rmas : OpenByCustomer(r) \/ OpenByStaff(r)
  BY <1>1, <1>3 DEF Insert
<1>4. CASE ImportStep
  BY <1>2, <1>4 DEF Insert, ImportStep
<1> QED
  BY <1>3, <1>4 DEF Insert

LEMMA InsertInv ==
  ASSUME IInv, RInv, Insert
  PROVE  RInv'
<1>1. PICK r \in Rmas :
        /\ ~Exists(r)
        /\ \A other \in Rmas \ {r} :
             /\ rmas'[other] = rmas[other]
             /\ \A i \in OfRma(other) : items'[i] = items[i]
        /\ UNCHANGED << envSlaHours, requestVars >>
  BY InsertFacts
<1>2. RequestsTypeOK'
  BY <1>1 DEF RInv, RequestsTypeOK, requestVars
<1>3. ASSUME NEW p \in Requests
      PROVE  RequestOK(p)'
  <2>1. ASSUME InTransaction(p)
        PROVE  op[p].r \in Rmas \ {r}
    <3>1. op[p] \in Ops /\ LockOK(p)
      BY <2>1 DEF RInv, RequestOK, InTransaction
    <3> QED
      BY <1>1, <2>1, <3>1, OpFields DEF LockOK, lockOpenRma
  <2>2. Untouched(p)
    BY <1>1, <2>1 DEF Untouched, requestVars
  <2> QED
    BY <2>2, UntouchedOK
<1> QED
  BY <1>2, <1>3 DEF RInv

LEMMA RestartInv ==
  ASSUME RInv, NEW hours, Restart(hours)
  PROVE  RInv'
<1>1. RequestsTypeOK'
  BY DEF Restart, RequestsTypeOK, States
<1>2. ASSUME NEW p \in Requests
      PROVE  RequestOK(p)'
  BY EndedOK DEF Restart
<1> QED
  BY <1>1, <1>2 DEF RInv

LEMMA RequestsInv ==
  ASSUME IInv, RInv, [RequestsNext]_allVars
  PROVE  RInv'
<1>1. CASE \E p \in Requests : \E o \in Asked : FindRma(p, o)
  BY <1>1, FindInv
<1>2. ASSUME NEW p \in Requests, Step(p) \/ Hang(p) \/ Fail(p)
      PROVE  RInv'
  BY <1>2, LockInv, CheckInv, WriteInv, CommitInv, HangInv, RefuseInv DEF Step, Fail
<1>3. CASE Insert
  BY <1>3, InsertInv
<1>4. CASE \E hours \in SlaHours : Restart(hours)
  BY <1>4, RestartInv
<1>5. CASE UNCHANGED allVars
  <2>1. RequestsTypeOK'
    BY <1>5 DEF RInv, RequestsTypeOK, allVars, requestVars
  <2>2. ASSUME NEW p \in Requests
        PROVE  RequestOK(p)'
    <3>1. Untouched(p)
      BY <1>5 DEF Untouched, allVars, requestVars
    <3> QED
      BY <3>1, UntouchedOK
  <2> QED
    BY <2>1, <2>2 DEF RInv
<1> QED
  BY <1>1, <1>2, <1>3, <1>4, <1>5 DEF RequestsNext

-----------------------------------------------------------------------------
(* Every step is an operation of RmaLifecycle, or none.                    *)

\* Writing back the row of an RMA changes nothing.
LEMMA SameRow ==
  ASSUME IInv, NEW r \in Rmas, rmas' = [rmas EXCEPT ![r] = rmas[r]]
  PROVE  rmas' = rmas
  BY DEF IInv

LEMMA CommitOperates ==
  ASSUME IInv, NEW o \in Ops, Committed(o)
  PROVE  Operate(o.r)
<1> DEFINE written == writtenItems(o)
<1>1. o.r \in Rmas
  BY OpFields
<1>2. /\ lockOpenRma(o.r)
      /\ mayProceed(o)
      /\ allMoved(o)
      /\ rmas' = [rmas EXCEPT ![o.r] = writtenRow(o, written, arrivedFor(o))]
      /\ items' = [i \in Items |-> IF i \in DOMAIN written THEN written[i] ELSE items[i]]
      /\ UNCHANGED envSlaHours
  BY DEF Committed, over
<1>3. CASE o.kind = "envio"
  <2>1. o.sel \in Selections /\ o.sel \subseteq ShippableItems(o.r)
    BY <1>2, <1>3, OpFields DEF allMoved
  <2>2. written = [i \in o.sel |-> Shipped(items[i])]
    BY <1>3 DEF writtenItems
  <2>3. rmas' = rmas
    BY <1>1, <1>2, <1>3, SameRow DEF writtenRow
  <2>4. items' = [i \in Items |-> IF i \in o.sel THEN Shipped(items[i]) ELSE items[i]]
    BY <1>2, <2>2
  <2>5. ConfirmShipment(o.r, o.sel)
    BY <1>2, <2>1, <2>3, <2>4 DEF ConfirmShipment
  <2> QED
    BY <2>1, <2>5 DEF Operate
<1>4. CASE o.kind = "recebimento"
  <2>1. o.sel \in Selections /\ o.sel \subseteq ReceivableItems(o.r)
    BY <1>2, <1>4, OpFields DEF allMoved
  <2>2. written = [i \in o.sel |-> Received(items[i])]
    BY <1>4 DEF writtenItems
  <2>3. rmas' = rmas
    BY <1>1, <1>2, <1>4, SameRow DEF writtenRow
  <2>4. items' = [i \in Items |-> IF i \in o.sel THEN Received(items[i]) ELSE items[i]]
    BY <1>2, <2>2
  <2>5. RegisterReceipt(o.r, o.sel)
    BY <1>2, <2>1, <2>3, <2>4 DEF RegisterReceipt
  <2> QED
    BY <2>1, <2>5 DEF Operate
<1>5. CASE o.kind = "etapa"
  <2>1. /\ o.sel \in Selections /\ o.to \in RMA_ITEM_STAGES
        /\ o.sel \subseteq ChangeableItems(o.r, o.to)
        /\ ensureValidationVideos(o.sel, o.to)
    BY <1>2, <1>5, OpFields DEF allMoved, mayProceed
  <2>2. written = [i \in o.sel |-> Changed(items[i], o.to)]
    BY <1>5 DEF writtenItems
  <2>3. items' = [i \in Items |-> IF i \in o.sel THEN Changed(items[i], o.to) ELSE items[i]]
    BY <1>2, <2>2
  <2>4. rmas' = IF o.to = "finalizado"
                  THEN [rmas EXCEPT ![o.r] = closeIfAllDelivered(o.r, items')]
                  ELSE rmas
    <3>1. CASE o.to = "finalizado"
      <4>1. writtenRow(o, written, arrivedFor(o)) = closeIfAllDelivered(o.r, over(written))
        BY <1>5, <3>1 DEF writtenRow
      <4>2. over(written) = items'
        BY DEF Committed
      <4> QED
        BY <1>2, <3>1, <4>1, <4>2
    <3>2. CASE o.to # "finalizado"
      BY <1>1, <1>2, <1>5, <3>2, SameRow DEF writtenRow
    <3> QED
      BY <3>1, <3>2
  <2>5. ChangeStage(o.r, o.sel, o.to)
    BY <1>2, <2>1, <2>3, <2>4 DEF ChangeStage
  <2> QED
    BY <2>1, <2>5 DEF Operate
<1>6. CASE o.kind = "video"
  <2>1. o.item \in Items /\ o.item \in OfRma(o.r)
        /\ items[o.item].stage \in VALIDATION_VIDEO_STAGES
    BY <1>2, <1>6, OpFields DEF mayProceed
  <2>2. written = [i \in {o.item} |-> [items[i] EXCEPT !.video = TRUE]]
    BY <1>6 DEF writtenItems
  <2>3. rmas' = rmas
    BY <1>1, <1>2, <1>6, SameRow DEF writtenRow
  <2>4. items' = [items EXCEPT ![o.item].video = TRUE]
    BY <1>2, <2>1, <2>2 DEF IInv
  <2>5. AttachVideo(o.r, o.item)
    BY <1>2, <2>1, <2>3, <2>4 DEF AttachVideo
  <2> QED
    BY <2>1, <2>5 DEF Operate
<1>7. ASSUME o.kind \in {"responsavel", "prioridade", "cancelamento"}
      PROVE  items' = items
  <2>1. DOMAIN written = {}
    BY <1>7 DEF writtenItems
  <2> QED
    BY <1>2, <2>1 DEF IInv
<1>8. CASE o.kind = "responsavel"
  <2>1. /\ o.expected \in Staff \union {None} /\ o.assignee \in Staff \union {None}
        /\ rmas[o.r].assignee = o.expected /\ rmas[o.r].assignee # o.assignee
    BY <1>2, <1>8, OpFields DEF mayProceed
  <2>2. rmas' = [rmas EXCEPT ![o.r].assignee = o.assignee]
    BY <1>2, <1>8 DEF writtenRow
  <2>3. Assign(o.r, o.expected, o.assignee)
    BY <1>2, <1>7, <1>8, <2>1, <2>2 DEF Assign
  <2> QED
    BY <2>1, <2>3 DEF Operate
<1>9. CASE o.kind = "prioridade"
  <2>1. o.priority \in Priorities /\ rmas[o.r].priority # o.priority
    BY <1>2, <1>9, OpFields DEF mayProceed
  <2>2. rmas' = [rmas EXCEPT ![o.r].priority = o.priority]
    BY <1>2, <1>9 DEF writtenRow
  <2>3. ChangePriority(o.r, o.priority)
    BY <1>2, <1>7, <1>9, <2>1, <2>2 DEF ChangePriority
  <2> QED
    BY <2>1, <2>3 DEF Operate
<1>10. CASE o.kind = "cancelamento"
  <2>1. isCancellable({ items[i].stage : i \in OfRma(o.r) })
    BY <1>2, <1>10 DEF mayProceed
  <2>2. rmas' = [rmas EXCEPT ![o.r] = Cancelled(o.r)]
    BY <1>2, <1>10 DEF writtenRow, arrivedFor, Cancelled
  <2>3. Cancel(o.r)
    BY <1>2, <1>7, <1>10, <2>1, <2>2 DEF Cancel
  <2> QED
    BY <2>3 DEF Operate
<1> QED
  BY <1>3, <1>4, <1>5, <1>6, <1>8, <1>9, <1>10, OpFields

LEMMA RequestsStep ==
  ASSUME IInv, RInv, [RequestsNext]_allVars
  PROVE  [Next]_vars
<1>1. CASE \E p \in Requests : \E o \in Asked : FindRma(p, o)
  BY <1>1 DEF FindRma, vars
<1>2. ASSUME NEW p \in Requests, Step(p) \/ Hang(p) \/ Fail(p)
      PROVE  [Next]_vars
  <2>1. CASE Commit(p)
    <3>1. PICK o : o = op[p]
      OBVIOUS
    <3>2. o \in Ops /\ Committed(o)
      BY <2>1, <3>1, CommitFacts
    <3>3. Operate(o.r) /\ o.r \in Rmas
      BY <3>2, CommitOperates, OpFields
    <3> QED
      BY <3>3 DEF Next
  <2>2. CASE ~Commit(p)
    BY <1>2, <2>2 DEF Step, LockOpenRma, Check, Write, Hang, Fail, Refuse, vars
  <2> QED
    BY <2>1, <2>2
<1>3. CASE Insert
  BY <1>3 DEF Insert, Next, Operate
<1>4. CASE \E hours \in SlaHours : Restart(hours)
  BY <1>4 DEF Restart, Next
<1>5. CASE UNCHANGED allVars
  BY <1>5 DEF allVars, vars
<1> QED
  BY <1>1, <1>2, <1>3, <1>4, <1>5 DEF RequestsNext

LEMMA RequestsInitInv ==
  ASSUME RequestsInit
  PROVE  Init /\ IInv /\ RInv
<1>1. Init /\ IInv
  BY InitInv DEF RequestsInit
<1>2. RequestsTypeOK
  BY DEF RequestsInit, RequestsTypeOK, States
<1>3. \A p \in Requests : RequestOK(p)
  BY DEF RequestsInit, RequestOK, LockOK, CheckOK, WriteOK, InTransaction
<1> QED
  BY <1>1, <1>2, <1>3 DEF RInv

\* The lock holder's exclusive view and the invariant of the committed rows
\* hold together: each needs the other.
THEOREM LocksProtect == RequestsSpec => [](IInv /\ RInv)
<1>1. RequestsInit => IInv /\ RInv
  BY RequestsInitInv
<1>2. (IInv /\ RInv) /\ [RequestsNext]_allVars => (IInv /\ RInv)'
  BY RequestsStep, RequestsInv, StepInv
<1> QED
  BY <1>1, <1>2, PTL DEF RequestsSpec

\* Whatever requests, openings, imports, failures and restarts interleave, the
\* committed rows go through a behaviour of RmaLifecycle: checks read before a
\* write never go stale, because the row lock of the RMA is taken first.
THEOREM RequestsAreOperations == RequestsSpec => OneAtATime
<1>1. RequestsInit => Init
  BY RequestsInitInv
<1>2. (IInv /\ RInv) /\ [RequestsNext]_allVars => [Next]_vars
  BY RequestsStep
<1> QED
  BY <1>1, <1>2, LocksProtect, PTL DEF RequestsSpec, OneAtATime, Spec

\* So everything proved of the operations one at a time holds of concurrent
\* requests: no CHECK or unique index fires, what is closed stays frozen, no
\* deadline is given twice, and the promise of the process is kept.
THEOREM HoldsUnderConcurrency ==
  RequestsSpec =>
    /\ [](ChecksHold /\ LogisticsAddUp /\ VideoBeforeReturn)
    /\ [](ClosesByItself /\ ReturnListIsWhatArrived)
    /\ ClosedIsFrozen /\ DeadlineIsFixed /\ KeepsPromise
  BY RequestsAreOperations, ConstraintsNeverFire, LogisticsAgree, ReturnIsProved,
     ClosingIsExact, ReturnListIsExact, ClosedStaysFrozen, DeadlineIsGivenOnce,
     ImplementsPromise, PTL DEF OneAtATime

-----------------------------------------------------------------------------
(* What the API answers and the pages show, as RmaPanel has it: it adds    *)
(* instants to the rows and implements RmaLifecycle, so the invariant of   *)
(* the lifecycle holds of what it reads.                                   *)

Instants ==
  /\ now \in Nat
  /\ startedAt \in [Items -> Nat]
  /\ finishedAt \in [Items -> Nat]
  /\ updatedAt \in [Rmas -> Nat]
  /\ notes \in [Rmas -> Nat]

LEMMA OperationsOnly == PanelNext => [Next]_vars
<1> SUFFICES ASSUME PanelNext PROVE [Next]_vars OBVIOUS
<1>1. ASSUME NEW r \in Rmas, Move(r) \/ Manage(r) \/ CancelWithNote(r) PROVE Operate(r)
  BY <1>1 DEF Move, Manage, CancelWithNote, Operate
<1>2. ASSUME NEW r \in Rmas, ImportTicket(r) PROVE ImportStep
  BY <1>2 DEF ImportTicket, ImportStep
<1>3. ASSUME NEW r \in Rmas, AddNote(r) PROVE UNCHANGED vars BY <1>3 DEF AddNote
<1>4. ASSUME NEW hours \in SlaHours, Deploy(hours) PROVE Configure(hours) BY <1>4 DEF Deploy
<1>5. Tick => UNCHANGED vars BY DEF Tick
<1> QED BY <1>1, <1>2, <1>3, <1>4, <1>5 DEF PanelNext, Next

\* RmaPanel implements RmaLifecycle: every operation with its instants is one of
\* the lifecycle, and notes and time leave its rows alone.
THEOREM PanelIsLifecycle == PanelSpec => Spec
<1>1. PanelInit => Init BY DEF PanelInit
<1>2. [PanelNext]_panelAll => [Next]_vars BY OperationsOnly DEF panelAll
<1> QED BY <1>1, <1>2, PTL DEF PanelSpec, Spec

LEMMA InstantsStep == Instants /\ [PanelNext]_panelAll => Instants'
<1> SUFFICES ASSUME Instants, [PanelNext]_panelAll PROVE Instants' OBVIOUS
<1>1. ASSUME NEW r \in Rmas, Move(r) PROVE Instants'
  BY <1>1 DEF Move, Stamp, touchRma, Instants
<1>2. ASSUME NEW r \in Rmas, Manage(r) PROVE Instants' BY <1>2 DEF Manage, onUpdate, Instants
<1>3. ASSUME NEW r \in Rmas, CancelWithNote(r) PROVE Instants'
  BY <1>3 DEF CancelWithNote, onUpdate, Instants
<1>4. ASSUME NEW r \in Rmas, ImportTicket(r) PROVE Instants'
  <2>1. PICK started, finished \in 0 .. now :
          /\ startedAt' = [i \in Items |->
               IF RmaOf[i] = r /\ items'[i].slaStartedAt THEN started ELSE startedAt[i]]
          /\ finishedAt' = [i \in Items |->
               IF RmaOf[i] = r /\ items'[i].slaFinishedAt THEN finished ELSE finishedAt[i]]
          /\ updatedAt' = [updatedAt EXCEPT ![r] = finished]
    BY <1>4 DEF ImportTicket
  <2>2. now' = now /\ notes' = notes BY <1>4 DEF ImportTicket
  <2>3. started \in Nat /\ finished \in Nat BY DEF Instants
  <2> QED BY <2>1, <2>2, <2>3 DEF Instants
<1>5. ASSUME NEW r \in Rmas, AddNote(r) PROVE Instants' BY <1>5 DEF AddNote, Instants
<1>6. ASSUME NEW hours \in SlaHours, Deploy(hours) PROVE Instants'
  BY <1>6 DEF Deploy, panelVars, Instants
<1>7. CASE Tick BY <1>7 DEF Tick, panelVars, Instants
<1>8. CASE UNCHANGED panelAll BY <1>8 DEF panelAll, panelVars, Instants
<1> QED BY <1>1, <1>2, <1>3, <1>4, <1>5, <1>6, <1>7, <1>8 DEF PanelNext

\* What the queries read is a state of the lifecycle, with instants for its dates.
THEOREM PanelReadsLifecycle == PanelSpec => [](IInv /\ Instants)
<1>1. PanelInit => Instants BY DEF PanelInit, Instants
<1> QED BY <1>1, InstantsStep, PanelIsLifecycle, Invariant, PTL DEF PanelSpec

-----------------------------------------------------------------------------
(* The deadlines.                                                          *)

LEMMA MinIsLeast ==
  ASSUME NEW S \in SUBSET Nat, S # {}
  PROVE  Min(S) \in S /\ \A y \in S : Min(S) <= y
<1>1. PICK R : R = OpToRel(<, Nat) OBVIOUS
<1>2. PICK x \in S : \A y \in S : <<y, x>> \notin R BY <1>1, NatLessThanWellFounded, WFMin
<1>3. \A y \in S : x <= y
  <2> TAKE y \in S
  <2>1. <<y, x>> \in Nat \X Nat OBVIOUS
  <2>2. <<y, x>>[1] < <<y, x>>[2] => <<y, x>> \in R BY <1>1, <2>1 DEF OpToRel
  <2> QED BY <1>2, <2>2
<1> QED BY <1>3 DEF Min

\* When the deadline of an item that is running ends.
dueTime(i) == startedAt[i] + items[i].slaHours

Running(r) == { i \in OfRma(r) : items[i].slaStartedAt /\ items[i].stage \notin SLA_FINISHED_STAGES }

dueTimes(r) == { dueTime(i) : i \in Running(r) }

LEMMA DueTimeIsHour ==
  ASSUME IInv, Instants, NEW i \in Items, items[i].slaStartedAt
  PROVE  items[i].slaHours # None /\ dueTime(i) \in Nat
<1>1. items[i] \in ItemRow /\ items[i].slaHours # None BY DEF IInv, ItemOK, ItemChecks
<1>2. items[i].slaHours \in Nat BY <1>1, PanelAssumption DEF ItemRow
<1> QED BY <1>1, <1>2 DEF dueTime, Instants

LEMMA ItemDeadline ==
  ASSUME IInv, Instants, NEW i \in Items
  PROVE  /\ itemSla(i).dueAt = IF items[i].slaStartedAt THEN dueTime(i) ELSE None
         /\ itemSla(i).status = "atrasado" <=>
              /\ items[i].slaStartedAt
              /\ (IF items[i].slaFinishedAt THEN finishedAt[i] ELSE now) > dueTime(i)
<1>1. items[i].slaStartedAt <=> items[i].slaHours # None BY DEF IInv, ItemOK, ItemChecks
<1> QED BY <1>1 DEF itemSla, dueTime

\* The pages and the database look at the same times.
LEMMA SameDueTimes ==
  ASSUME IInv, Instants, NEW r \in Rmas
  PROVE  /\ dueTimes(r) \in SUBSET Nat
         /\ { itemSla(i).dueAt : i \in
                { j \in OfRma(r) : items[j].stage \notin SLA_FINISHED_STAGES } } \ {None} = dueTimes(r)
<1>1. dueTimes(r) \in SUBSET Nat
  BY DueTimeIsHour DEF dueTimes, Running, OfRma
<1>2. \A i \in OfRma(r) :
        itemSla(i).dueAt = IF items[i].slaStartedAt THEN dueTime(i) ELSE None
  BY ItemDeadline DEF OfRma
<1>3. None \notin dueTimes(r) BY <1>1, PanelAssumption
<1> QED BY <1>1, <1>2, <1>3 DEF dueTimes, Running

LEMMA SameDeadline ==
  ASSUME IInv, Instants, NEW r \in Rmas
  PROVE  /\ dueTimes(r) = {} => nextDueAt(r) = None /\ rmaSla(r) = None
         /\ dueTimes(r) # {} =>
              /\ nextDueAt(r) = Min(dueTimes(r)) /\ nextDueAt(r) \in Nat
              /\ rmaSla(r) = [status |-> rmaSlaStatus(nextDueAt(r)), dueAt |-> nextDueAt(r)]
              /\ rmaSla(r) # None
              /\ \A i \in Running(r) : nextDueAt(r) <= dueTime(i)
<1>1. nextDueAt(r) = IF dueTimes(r) = {} THEN None ELSE Min(dueTimes(r))
  BY DEF nextDueAt, dueTimes, Running, dueTime
<1>2. rmaSla(r) = IF dueTimes(r) = {} THEN None
                  ELSE [status |-> rmaSlaStatus(Min(dueTimes(r))), dueAt |-> Min(dueTimes(r))]
  BY SameDueTimes DEF rmaSla
<1>3. dueTimes(r) # {} => /\ Min(dueTimes(r)) \in Nat
                          /\ \A t \in dueTimes(r) : Min(dueTimes(r)) <= t
  BY MinIsLeast, SameDueTimes
<1>4. \A i \in Running(r) : dueTime(i) \in dueTimes(r) BY DEF dueTimes
<1>5. dueTimes(r) # {} =>
        [status |-> rmaSlaStatus(nextDueAt(r)), dueAt |-> nextDueAt(r)] # None
  BY <1>1, <1>3, PanelAssumption DEF rmaSlaStatus
<1> QED BY <1>1, <1>2, <1>3, <1>4, <1>5

-----------------------------------------------------------------------------
(* What the pages read.                                                    *)

LEMMA DetailFields ==
  ASSUME NEW r \in Rmas
  PROVE  /\ detail(r).closedAt = rmas[r].closedAt
         /\ detail(r).cancellation = rmas[r].cancelledAt
         /\ detail(r).assignee = rmas[r].assignee
         /\ detail(r).sla = rmaSla(r)
         /\ DOMAIN detail(r).items = OfRma(r)
         /\ \A i \in OfRma(r) :
              /\ detail(r).items[i].stage = items[i].stage
              /\ detail(r).items[i].receivedAt = items[i].receivedAt
              /\ detail(r).items[i].sla = itemSla(i)
              /\ detail(r).items[i].validationVideo = items[i].video
BY DEF detail, loadDetailParts, toItemView

\* The queue of the database and the pages tell the same of every RMA.
LEMMA QueueOfOne ==
  ASSUME IInv, Instants, NEW r \in Rmas, Exists(r)
  PROVE  LET rma == detail(r)
         IN  /\ attentionFilter(r) /\ attentionReason(rma) = "sem_responsavel" => rma.assignee = None
             /\ nextDueAt(r) = IF rma.sla = None THEN None ELSE rma.sla.dueAt
             /\ ~rma.closedAt =>
                  /\ attentionFilter(r) \/ rma.assignee # None
                  /\ \A i \in OfRma(r) :
                       rma.items[i].sla.status = "atrasado" /\ ~items[i].slaFinishedAt =>
                         attentionFilter(r) /\ attentionReason(rma) = "atrasado"
                  /\ ~attentionFilter(r) /\ rma.sla # None => rma.sla.status = "no_prazo"
<1> DEFINE rma == detail(r)
           due == nextDueAt(r)
<1>1. /\ rma.closedAt = rmas[r].closedAt /\ rma.assignee = rmas[r].assignee
      /\ rma.sla = rmaSla(r) /\ \A i \in OfRma(r) : rma.items[i].sla = itemSla(i)
  BY DetailFields
<1>2. now \in Nat /\ SLA_DUE_SOON_HOURS \in Nat /\ None \notin Nat
  BY PanelAssumption DEF Instants
<1>3. \/ due = None /\ rma.sla = None
      \/ due # None /\ due \in Nat /\ rma.sla # None
         /\ rma.sla = [status |-> rmaSlaStatus(due), dueAt |-> due]
  BY <1>1, <1>2, SameDeadline
<1>4. due # None => due \in Nat /\ rma.sla.dueAt = due /\ rma.sla.status = rmaSlaStatus(due)
  BY <1>3
<1>5. due # None =>
        /\ rmaSlaStatus(due) \in {"atrasado", "vence_em_breve", "no_prazo"}
        /\ rmaSlaStatus(due) = "no_prazo" <=> due > now + SLA_DUE_SOON_HOURS
        /\ rmaSlaStatus(due) = "atrasado" <=> due < now
  BY <1>2, <1>4 DEF rmaSlaStatus
<1>6. /\ rmas[r].closedAt \in BOOLEAN
      /\ attentionFilter(r) = (/\ ~rmas[r].closedAt
                               /\ \/ rmas[r].assignee = None
                                  \/ due # None /\ due <= now + SLA_DUE_SOON_HOURS)
  BY DEF attentionFilter, IInv, RmaRow
<1>7. ASSUME NEW i \in OfRma(r), itemSla(i).status = "atrasado", ~items[i].slaFinishedAt
      PROVE  due # None /\ due < now
  <2>1. i \in Items BY DEF OfRma
  <2>2. items[i].slaStartedAt /\ now > dueTime(i) BY <1>7, <2>1, ItemDeadline
  <2>3. items[i].stage \notin SLA_FINISHED_STAGES
    BY <1>7, <2>1, StageSets DEF IInv, ItemOK, ItemChecks
  <2>4. i \in Running(r) BY <2>2, <2>3 DEF Running
  <2>5. dueTimes(r) # {} BY <2>4 DEF dueTimes
  <2>6. due \in Nat /\ due <= dueTime(i) BY <2>4, <2>5, SameDeadline
  <2>7. dueTime(i) \in Nat BY <2>1, <2>2, DueTimeIsHour
  <2> QED BY <1>2, <2>2, <2>6, <2>7
<1> HIDE DEF due, rma
<1>8. attentionReason(rma) =
        IF rma.sla # None /\ rma.sla.status \in {"atrasado", "vence_em_breve"}
          THEN rma.sla.status ELSE "sem_responsavel"
  BY DEF attentionReason
<1>9. ASSUME attentionFilter(r), attentionReason(rma) = "sem_responsavel"
      PROVE  rma.assignee = None
  <2> SUFFICES ASSUME due # None, due <= now + SLA_DUE_SOON_HOURS PROVE FALSE
    BY <1>1, <1>6, <1>9
  <2>1. due \in Nat /\ rma.sla.status = rmaSlaStatus(due) /\ rma.sla # None BY <1>3, <1>4
  <2>2. rmaSlaStatus(due) \in {"atrasado", "vence_em_breve"} BY <1>2, <1>5, <2>1
  <2>3. attentionReason(rma) = rmaSlaStatus(due) BY <1>8, <2>1, <2>2
  <2> QED BY <1>9, <2>2, <2>3
<1>10. due = IF rma.sla = None THEN None ELSE rma.sla.dueAt BY <1>3, <1>4
<1>11. ~rma.closedAt => attentionFilter(r) \/ rma.assignee # None BY <1>1, <1>6
<1>12. ASSUME ~rma.closedAt, NEW i \in OfRma(r), rma.items[i].sla.status = "atrasado",
              ~items[i].slaFinishedAt
       PROVE  attentionFilter(r) /\ attentionReason(rma) = "atrasado"
  <2>1. due # None /\ due < now BY <1>1, <1>7, <1>12
  <2>2. due <= now + SLA_DUE_SOON_HOURS BY <1>2, <1>4, <2>1
  <2> QED BY <1>1, <1>3, <1>4, <1>5, <1>6, <1>8, <1>12, <2>1, <2>2
<1>13. ~rma.closedAt /\ ~attentionFilter(r) /\ rma.sla # None => rma.sla.status = "no_prazo"
  BY <1>1, <1>2, <1>3, <1>4, <1>5, <1>6
<1> QED BY <1>9, <1>10, <1>11, <1>12, <1>13 DEF due, rma

\* "Requer atenção" never hides what the pages show, nor shows what they do not.
THEOREM QueueTellsTheTruth == PanelSpec => []QueueAgrees
<1>1. IInv /\ Instants => QueueAgrees BY QueueOfOne DEF QueueAgrees
<1> QED BY <1>1, PanelReadsLifecycle, PTL
-----------------------------------------------------------------------------
(* What the pages offer and the API accepts.                               *)

\* Of the items of a selection: the stage the panel offers is the one the API
\* takes the item to.
LEMMA NextOfOne ==
  ASSUME IInv, NEW r \in Rmas, NEW i \in OfRma(r), NEW role, NEW to \in RMA_ITEM_STAGES
  PROVE  to \in nextStagesOf(detail(r).items[i], role) <=>
           /\ hasPermission(role, stageChangePermission(to))
           /\ requiresValidationVideo(to) => items[i].video
           /\ \/ items[i].stage \in stagesChangeableTo(to)
              \/ to = "recebido" /\ items[i].stage \in RECEIVABLE_STAGES
<1>1. items[i].stage \in RMA_ITEM_STAGES BY DEF IInv, ItemRow, OfRma
<1>2. /\ detail(r).items[i].stage = items[i].stage
      /\ detail(r).items[i].validationVideo = items[i].video
  BY DetailFields
<1>3. to \in teamNextStages[items[i].stage] <=>
        \/ canChangeStage(items[i].stage, to)
        \/ to = "recebido" /\ <<items[i].stage, to>> \in NEXT_STAGES
  BY <1>1 DEF teamNextStages, canChangeStage
<1>4. canChangeStage(items[i].stage, to) <=> items[i].stage \in stagesChangeableTo(to)
  BY <1>1 DEF stagesChangeableTo
<1>5. to = "recebido" =>
        (<<items[i].stage, to>> \in NEXT_STAGES <=> items[i].stage \in RECEIVABLE_STAGES)
  BY <1>1 DEF RECEIVABLE_STAGES, previousStages
<1> QED BY <1>2, <1>3, <1>4, <1>5 DEF nextStagesOf

\* Equipment that is receivable was not received.
LEMMA ReceivableIsNotReceived ==
  ASSUME IInv, NEW i \in Items, items[i].stage \in RECEIVABLE_STAGES
  PROVE  ~items[i].receivedAt
BY StageSets DEF IInv, ItemOK

LEMMA OffersOfSelection ==
  ASSUME IInv, NEW r \in Rmas, Exists(r), NEW role, NEW sel \in SelectionsOf(OfRma(r)),
         NEW to \in RMA_ITEM_STAGES
  PROVE  to \in ChangeStageAction(detail(r), role, sel) <=>
           \/ acceptsChange(r, role, sel, to)
           \/ to = "recebido" /\ hasPermission(role, "rma.write") /\ acceptsReceipt(r, role, sel)
<1> DEFINE rma == detail(r)
<1>1. sel \subseteq OfRma(r) /\ sel # {} /\ OfRma(r) \subseteq Items BY DEF SelectionsOf, OfRma
<1>2. (CHOOSE i \in sel : TRUE) \in sel BY <1>1
<1>3. to \in commonStages(rma, sel, role) <=>
        \A i \in sel : to \in nextStagesOf(rma.items[i], role)
  BY <1>2 DEF commonStages
<1>4. lockOpenRma(r) <=> ~rmas[r].closedAt BY DEF lockOpenRma, IInv, RmaOK
<1>5. canOperate(rma, role) <=> lockOpenRma(r) /\ hasPermission(role, "rma.write")
  BY <1>4, DetailFields DEF canOperate
<1>6. to \in ChangeStageAction(rma, role, sel) <=>
        /\ lockOpenRma(r) /\ hasPermission(role, "rma.write")
        /\ \A i \in sel : to \in nextStagesOf(rma.items[i], role)
  BY <1>3, <1>5 DEF ChangeStageAction
<1>7. \A i \in sel : to \in nextStagesOf(rma.items[i], role) <=>
        /\ hasPermission(role, stageChangePermission(to))
        /\ requiresValidationVideo(to) => items[i].video
        /\ \/ items[i].stage \in stagesChangeableTo(to)
           \/ to = "recebido" /\ items[i].stage \in RECEIVABLE_STAGES
  BY <1>1, NextOfOne
<1>8. sel \subseteq ChangeableItems(r, to) <=> \A i \in sel : items[i].stage \in stagesChangeableTo(to)
  BY <1>1 DEF ChangeableItems
<1>9. sel \subseteq ReceivableItems(r) <=> \A i \in sel : items[i].stage \in RECEIVABLE_STAGES
  BY <1>1, ReceivableIsNotReceived DEF ReceivableItems
<1>10. CASE to = "recebido"
  <2>1. stagesChangeableTo(to) = {} /\ ~requiresValidationVideo(to)
        /\ stageChangePermission(to) = "rma.receive"
    BY <1>10, StageSets
       DEF stagesChangeableTo, canChangeStage, OWN_OPERATION_STAGES, requiresValidationVideo,
           SLA_END_STAGE, stageChangePermission
  <2>2. ~acceptsChange(r, role, sel, to) BY <1>1, <1>8, <2>1 DEF acceptsChange
  <2> QED BY <1>1, <1>6, <1>7, <1>9, <1>10, <2>1, <2>2 DEF acceptsReceipt
<1>11. CASE to # "recebido"
  <2>1. ensureValidationVideos(sel, to) <=>
          \A i \in sel : requiresValidationVideo(to) => items[i].video
    BY DEF ensureValidationVideos
  <2> QED BY <1>1, <1>6, <1>7, <1>8, <1>11, <2>1 DEF acceptsChange
<1> QED BY <1>10, <1>11

LEMMA PortalFields ==
  ASSUME NEW r \in Rmas
  PROVE  /\ portalDetail(r).cancellation = rmas[r].cancelledAt
         /\ \A i \in OfRma(r) : portalDetail(r).items[i].stage = items[i].stage
BY DEF portalDetail, loadDetailParts, toPortalItem, toItemView

\* A ticket closed here without being cancelled has everything delivered: nothing
\* of it is left to ship.
LEMMA ShipmentOffered ==
  ASSUME IInv, NEW r \in Rmas, Exists(r), NEW role, NEW sel \in SelectionsOf(OfRma(r))
  PROVE  /\ acceptsShipment(r, role, sel) => ConfirmShipmentAction(portalDetail(r), role, sel)
         /\ ~closedByImport(r) =>
              (ConfirmShipmentAction(portalDetail(r), role, sel) => acceptsShipment(r, role, sel))
<1>1. sel \subseteq OfRma(r) /\ sel # {} /\ OfRma(r) \subseteq Items BY DEF SelectionsOf, OfRma
<1>2. ConfirmShipmentAction(portalDetail(r), role, sel) <=>
        /\ ~rmas[r].cancelledAt /\ hasPermission(role, "rma.own.ship")
        /\ \A i \in sel : items[i].stage \in SHIPPABLE_STAGES
  BY <1>1, PortalFields DEF ConfirmShipmentAction
<1>3. acceptsShipment(r, role, sel) <=>
        /\ lockOpenRma(r) /\ hasPermission(role, "rma.own.ship")
        /\ \A i \in sel : items[i].stage \in SHIPPABLE_STAGES
  BY <1>1 DEF acceptsShipment, ShippableItems
<1>4. ASSUME ~closedByImport(r), ~rmas[r].cancelledAt, NEW i \in sel,
             items[i].stage \in SHIPPABLE_STAGES
      PROVE  lockOpenRma(r)
  <2>1. ~AllDelivered(r) BY <1>1, <1>4, StageSets DEF AllDelivered
  <2>2. CASE rmas[r].origin = "legado"
    BY <1>4, <2>2 DEF closedByImport, lockOpenRma
  <2>3. CASE rmas[r].origin # "legado"
    <3>1. rmas[r].origin \in {"cliente", "equipe"}
      BY <2>3 DEF Exists, IInv, RmaRow, Origins
    <3> QED BY <1>4, <2>1, <3>1 DEF IInv, ClosesByItself, lockOpenRma
  <2> QED BY <2>2, <2>3
<1> QED BY <1>1, <1>2, <1>3, <1>4 DEF lockOpenRma

LEMMA OffersOfOne ==
  ASSUME IInv, NEW r \in Rmas, Exists(r), NEW role
  PROVE  LET rma == detail(r)
             own == portalDetail(r)
         IN  /\ \A sel \in SelectionsOf(OfRma(r)) :
                  /\ ChangeStageAction(rma, role, sel) =
                       { to \in RMA_ITEM_STAGES :
                           \/ acceptsChange(r, role, sel, to)
                           \/ to = "recebido" /\ hasPermission(role, "rma.write")
                                              /\ acceptsReceipt(r, role, sel) }
                  /\ ReceiveItemsAction(rma, role, sel) <=> acceptsReceipt(r, role, sel)
                  /\ acceptsShipment(r, role, sel) => ConfirmShipmentAction(own, role, sel)
                  /\ ~closedByImport(r) =>
                       (ConfirmShipmentAction(own, role, sel) => acceptsShipment(r, role, sel))
             /\ \A i \in OfRma(r) : recordable(rma, role, i) <=> acceptsVideo(r, role, i)
             /\ CancelRmaAction(rma, role) <=> acceptsCancellation(r, role)
             /\ \A a \in Staff \union {None} :
                  /\ a \in AssigneeSelect(rma, role) <=> acceptsAssignee(r, role, a)
                  /\ \A me \in Staff :
                       a \in AssignmentNotice(rma, role, me) => acceptsAssignee(r, role, a)
<1> DEFINE rma == detail(r)
<1>1. lockOpenRma(r) <=> ~rmas[r].closedAt BY DEF lockOpenRma, IInv, RmaOK
<1>2. canOperate(rma, role) <=> lockOpenRma(r) /\ hasPermission(role, "rma.write")
  BY <1>1, DetailFields DEF canOperate
<1>3. ASSUME NEW sel \in SelectionsOf(OfRma(r))
      PROVE  ChangeStageAction(rma, role, sel) =
               { to \in RMA_ITEM_STAGES :
                   \/ acceptsChange(r, role, sel, to)
                   \/ to = "recebido" /\ hasPermission(role, "rma.write")
                                      /\ acceptsReceipt(r, role, sel) }
  <2>1. ChangeStageAction(rma, role, sel) \subseteq RMA_ITEM_STAGES
    <3>1. (CHOOSE i \in sel : TRUE) \in OfRma(r) BY DEF SelectionsOf
    <3>2. \A i \in OfRma(r) : items[i].stage \in RMA_ITEM_STAGES /\ rma.items[i].stage = items[i].stage
      BY DetailFields DEF IInv, ItemRow, OfRma
    <3>3. \A i \in OfRma(r) : nextStagesOf(rma.items[i], role) \subseteq RMA_ITEM_STAGES
      BY <3>2 DEF nextStagesOf, teamNextStages
    <3> QED BY <3>1, <3>3 DEF ChangeStageAction, commonStages
  <2> QED BY <2>1, OffersOfSelection
<1>4. ASSUME NEW sel \in SelectionsOf(OfRma(r))
      PROVE  ReceiveItemsAction(rma, role, sel) <=> acceptsReceipt(r, role, sel)
  <2>1. sel \subseteq OfRma(r) BY DEF SelectionsOf
  <2>2. rma.closedAt = rmas[r].closedAt
        /\ \A i \in sel : rma.items[i].receivedAt = items[i].receivedAt
                          /\ rma.items[i].stage = items[i].stage
    BY <2>1, DetailFields
  <2> QED BY <1>1, <2>1, <2>2 DEF ReceiveItemsAction, acceptsReceipt, ReceivableItems
<1>5. \A i \in OfRma(r) : recordable(rma, role, i) <=> acceptsVideo(r, role, i)
  BY <1>2, DetailFields DEF recordable, acceptsVideo
<1>6. CancelRmaAction(rma, role) <=> acceptsCancellation(r, role)
  <2>1. { rma.items[i].stage : i \in DOMAIN rma.items } = { items[i].stage : i \in OfRma(r) }
    BY DetailFields
  <2> QED BY <1>2, <2>1 DEF CancelRmaAction, acceptsCancellation
<1>7. ASSUME NEW a \in Staff \union {None}
      PROVE  a \in AssigneeSelect(rma, role) <=> acceptsAssignee(r, role, a)
  BY <1>2 DEF AssigneeSelect, acceptsAssignee
<1>8. ASSUME NEW a \in Staff \union {None}, NEW me \in Staff, a \in AssignmentNotice(rma, role, me)
      PROVE  acceptsAssignee(r, role, a)
  <2>1. ~rma.closedAt BY <1>8 DEF AssignmentNotice
  <2>2. lockOpenRma(r) BY <1>1, <2>1, DetailFields
  <2>3. hasPermission(role, "rma.write") BY <1>8 DEF AssignmentNotice, AssumeRmaButton
  <2> QED BY <2>2, <2>3 DEF acceptsAssignee
<1> HIDE DEF rma
<1> QED BY <1>3, <1>4, <1>5, <1>6, <1>7, <1>8, ShipmentOffered DEF rma

\* No page showing the present state offers what the API refuses, nor hides what
\* it would accept, apart from the shipment of a ticket imported closed.
THEOREM NothingOfferedFails == PanelSpec => []OfferedIsAccepted
<1>1. IInv => OfferedIsAccepted BY OffersOfOne DEF OfferedIsAccepted
<1> QED BY <1>1, PanelReadsLifecycle, PTL

-----------------------------------------------------------------------------
(* Verdicts and dates.                                                     *)

\* An import touches nothing that exists.
LEMMA ImportIsElsewhere ==
  ASSUME IInv, NEW r \in Rmas, ImportTicket(r)
  PROVE  /\ ~Exists(r)
         /\ \A q \in Rmas \ {r} : rmas'[q] = rmas[q] /\ updatedAt'[q] = updatedAt[q]
         /\ \A i \in Items : RmaOf[i] # r =>
              items'[i] = items[i] /\ startedAt'[i] = startedAt[i] /\ finishedAt'[i] = finishedAt[i]
<1>1. PICK closed \in BOOLEAN, assignee \in Staff \union {None},
           stageOf \in [OfRma(r) -> LegacyStages] : Import(r, stageOf, TRUE, closed, assignee)
  BY DEF ImportTicket
<1>2. /\ ~Exists(r) /\ \A q \in Rmas \ {r} : rmas'[q] = rmas[q]
      /\ \A i \in Items : RmaOf[i] # r => items'[i] = items[i]
  BY <1>1 DEF Import, IInv
<1> QED BY <1>2 DEF ImportTicket

LEMMA VerdictStep ==
  ASSUME IInv, Instants, PanelNext, NEW i \in Items, items[i].slaFinishedAt
  PROVE  items'[i].slaFinishedAt /\ itemSla(i)' = itemSla(i)
<1>1. items[i].slaStartedAt /\ items[i].slaHours # None /\ items[i] # NewItem
  BY StageSets DEF IInv, ItemOK, ItemChecks, NewItem
<1>2. Exists(RmaOf[i]) BY <1>1 DEF IInv, BlankUntilOpened
<1>3. /\ items'[i].slaStartedAt /\ items'[i].slaHours = items[i].slaHours
      /\ items'[i].slaFinishedAt
  <2>1. CASE Next BY <1>1, <2>1, DeadlineStep
  <2>2. CASE UNCHANGED vars BY <1>1, <2>2 DEF vars
  <2> QED BY <2>1, <2>2, OperationsOnly
<1>4. startedAt'[i] = startedAt[i] /\ finishedAt'[i] = finishedAt[i]
  <2>1. ASSUME NEW r \in Rmas, Move(r) PROVE startedAt'[i] = startedAt[i] /\ finishedAt'[i] = finishedAt[i]
    BY <1>1, <2>1 DEF Move, Stamp
  <2>2. ASSUME NEW r \in Rmas, ImportTicket(r)
        PROVE  startedAt'[i] = startedAt[i] /\ finishedAt'[i] = finishedAt[i]
    BY <1>2, <2>2, ImportIsElsewhere
  <2> QED
    BY <2>1, <2>2 DEF PanelNext, Manage, CancelWithNote, AddNote, Deploy, Tick, panelVars
<1> QED BY <1>1, <1>3, <1>4 DEF itemSla

\* The verdict of a deadline that ended is never another.
THEOREM VerdictStays == PanelSpec => VerdictIsFinal
<1>1. ASSUME IInv, Instants, [PanelNext]_panelAll
      PROVE  [ \A i \in Items : items[i].slaFinishedAt =>
                 items'[i].slaFinishedAt /\ itemSla(i)' = itemSla(i) ]_panelAll
  BY <1>1, VerdictStep
<1> QED BY <1>1, PanelReadsLifecycle, PTL DEF PanelSpec, VerdictIsFinal

\* What the customer sees depends on the RMA, its items and when their deadlines
\* began, not on the time that passes.
LEMMA PortalStays ==
  ASSUME NEW r \in Rmas, rmas'[r].cancelledAt = rmas[r].cancelledAt,
         rmas'[r].assignee = rmas[r].assignee,
         \A i \in OfRma(r) : items'[i] = items[i] /\ startedAt'[i] = startedAt[i]
  PROVE  portalDetail(r)' = portalDetail(r)
<1>1. \A i \in OfRma(r) : itemSla(i).dueAt' = itemSla(i).dueAt BY DEF itemSla
<1>2. OfRma(r)' = OfRma(r) BY DEF OfRma
<1>3. [i \in OfRma(r) |-> toPortalItem(loadDetailParts(r).items[i])]'
        = [i \in OfRma(r) |-> toPortalItem(loadDetailParts(r).items[i])]
  <2>1. \A i \in OfRma(r) :
          toPortalItem(loadDetailParts(r).items[i])' = toPortalItem(loadDetailParts(r).items[i])
    BY <1>1, <1>2 DEF toPortalItem, loadDetailParts, toItemView
  <2> QED BY <1>2, <2>1
<1>4. shipmentsOf(r)' = shipmentsOf(r) /\ receiptsOf(r)' = receiptsOf(r)
  BY <1>2 DEF shipmentsOf, receiptsOf
<1>5. /\ loadDetailParts(r).shipments' = loadDetailParts(r).shipments
      /\ loadDetailParts(r).receipts' = loadDetailParts(r).receipts
  BY <1>4 DEF loadDetailParts
<1> QED BY <1>3, <1>5 DEF portalDetail

LEMMA DateStep ==
  ASSUME IInv, Instants, PanelNext, NEW r \in Rmas, Exists(r)
  PROVE  /\ updatedAt'[r] = now \/ portalDetail(r)' = portalDetail(r)
         /\ notes'[r] # notes[r] /\ portalDetail(r)' = portalDetail(r) =>
              updatedAt'[r] = updatedAt[r]
<1>1. \A i \in OfRma(r) : i \in Items /\ RmaOf[i] = r BY DEF OfRma
<1>2. ASSUME NEW q \in Rmas, Move(q)
      PROVE  notes'[r] = notes[r] /\ (updatedAt'[r] = now \/ portalDetail(r)' = portalDetail(r))
  <2>1. notes' = notes /\ updatedAt' = [updatedAt EXCEPT ![q] = now] BY <1>2 DEF Move, touchRma
  <2>2. CASE q = r BY <2>1, <2>2 DEF Instants
  <2>3. CASE q # r
    <3>1. rmas'[r] = rmas[r] /\ \A i \in OfRma(r) : items'[i] = items[i]
      BY <1>1, <1>2, <2>3
         DEF Move, OpenByCustomer, OpenByStaff, Open, ConfirmShipment, ShippableItems,
             RegisterReceipt, ReceivableItems, ChangeStage, ChangeableItems, AttachVideo, OfRma, IInv
    <3>2. \A i \in OfRma(r) : startedAt'[i] = startedAt[i] BY <1>1, <1>2, <3>1 DEF Move, Stamp
    <3> QED BY <2>1, <3>1, <3>2, PortalStays
  <2> QED BY <2>2, <2>3
<1>3. ASSUME NEW q \in Rmas, Manage(q)
      PROVE  notes'[r] = notes[r] /\ (updatedAt'[r] = now \/ portalDetail(r)' = portalDetail(r))
  <2>1. /\ UNCHANGED << items, startedAt, notes >> /\ updatedAt' = [updatedAt EXCEPT ![q] = now]
    BY <1>3 DEF Manage, onUpdate, Assign, ChangePriority
  <2>2. CASE q = r BY <2>1, <2>2 DEF Instants
  <2>3. CASE q # r
    <3>1. rmas'[r] = rmas[r] BY <1>3, <2>3 DEF Manage, Assign, ChangePriority, IInv
    <3> QED BY <2>1, <3>1, PortalStays
  <2> QED BY <2>1, <2>2, <2>3
<1>4. ASSUME NEW q \in Rmas, CancelWithNote(q)
      PROVE  \/ updatedAt'[r] = now /\ portalDetail(r)' # portalDetail(r)
             \/ notes'[r] = notes[r] /\ portalDetail(r)' = portalDetail(r)
  <2>1. /\ UNCHANGED << items, startedAt >> /\ updatedAt' = [updatedAt EXCEPT ![q] = now]
        /\ rmas' = [rmas EXCEPT ![q] = Cancelled(q)] /\ ~rmas[q].cancelledAt
        /\ notes' = [notes EXCEPT ![q] = @ + 1]
    BY <1>4 DEF CancelWithNote, onUpdate, Cancel, lockOpenRma
  <2>2. CASE q = r
    <3>1. rmas'[r].cancelledAt BY <2>1, <2>2 DEF Cancelled, IInv, RmaRow
    <3>2. portalDetail(r)'.cancellation # portalDetail(r).cancellation
      BY <2>1, <2>2, <3>1 DEF portalDetail
    <3> QED BY <2>1, <2>2, <3>2 DEF Instants
  <2>3. CASE q # r
    <3>1. rmas'[r] = rmas[r] /\ notes'[r] = notes[r] BY <2>1, <2>3 DEF IInv, Instants
    <3> QED BY <2>1, <3>1, PortalStays
  <2> QED BY <2>2, <2>3
<1>5. ASSUME NEW q \in Rmas, ImportTicket(q)
      PROVE  notes'[r] = notes[r] /\ portalDetail(r)' = portalDetail(r)
  <2>1. q # r BY <1>5, ImportIsElsewhere
  <2>2. rmas'[r] = rmas[r] /\ \A i \in OfRma(r) : items'[i] = items[i] /\ startedAt'[i] = startedAt[i]
    BY <1>1, <1>5, <2>1, ImportIsElsewhere
  <2>3. notes' = notes BY <1>5 DEF ImportTicket
  <2> QED BY <2>2, <2>3, PortalStays
<1>6. ASSUME NEW q \in Rmas, AddNote(q)
      PROVE  updatedAt' = updatedAt /\ portalDetail(r)' = portalDetail(r)
  BY <1>6, PortalStays DEF AddNote, vars
<1>7. ASSUME NEW hours \in SlaHours, Deploy(hours)
      PROVE  updatedAt' = updatedAt /\ portalDetail(r)' = portalDetail(r)
  BY <1>7, PortalStays DEF Deploy, Configure, panelVars
<1>8. CASE Tick BY <1>8, PortalStays DEF Tick, panelVars, vars
<1> QED BY <1>2, <1>3, <1>4, <1>5, <1>6, <1>7, <1>8 DEF PanelNext

\* The date of the last update is of what the customer sees.
THEOREM DateIsOfTheCustomer == PanelSpec => DateTellsTheCustomer
<1>1. ASSUME IInv, Instants, [PanelNext]_panelAll
      PROVE  [ \A r \in Rmas : Exists(r) =>
                 /\ updatedAt'[r] = now \/ portalDetail(r)' = portalDetail(r)
                 /\ notes'[r] # notes[r] /\ portalDetail(r)' = portalDetail(r) =>
                      updatedAt'[r] = updatedAt[r] ]_panelAll
  BY <1>1, DateStep
<1> QED BY <1>1, PanelReadsLifecycle, PTL DEF PanelSpec, DateTellsTheCustomer

=============================================================================
