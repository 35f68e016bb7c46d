----------------------------- MODULE RmaRequests -----------------------------
(***************************************************************************)
(* The operations on RMAs as the API runs them: concurrent requests, each  *)
(* a transaction that finds the RMA, locks its row, checks what the        *)
(* operation requires, writes and commits, at READ COMMITTED.  A statement *)
(* sees the committed rows and what its own transaction wrote.  Seen from  *)
(* the committed rows this implements RmaLifecycle.                        *)
(***************************************************************************)
EXTENDS RmaLifecycle

CONSTANTS
  Requests,  \* slots for requests in progress; the pool bounds them
  Asked      \* what requests ask for, among Ops

VARIABLES
  pc,     \* progress of each request
  op,     \* what each request asks for
  held,   \* the request holding the row lock of each RMA
  seen,   \* items a cancellation read as having arrived
  after   \* what the transaction wrote and did not commit yet

requestVars == << pc, op, held, seen, after >>
allVars     == << rmas, items, envSlaHours, requestVars >>

Ops ==
  [kind : {"envio", "recebimento"}, r : Rmas, sel : Selections]
    \union [kind : {"etapa"}, r : Rmas, sel : Selections, to : RMA_ITEM_STAGES]
    \union [kind : {"video"}, r : Rmas, item : Items]
    \union [kind : {"responsavel"}, r : Rmas, expected : Staff \union {None},
            assignee : Staff \union {None}]
    \union [kind : {"prioridade"}, r : Rmas, priority : Priorities]
    \union [kind : {"cancelamento"}, r : Rmas]

ASSUME RequestsAssumption == None \notin Requests
ASSUME AskedAssumption == Asked \subseteq Ops

NoWrite == [row |-> NoRma, items |-> << >>]

RequestsInit ==
  /\ Init
  /\ pc = [p \in Requests |-> "parado"]
  /\ op = [p \in Requests |-> None]
  /\ held = [r \in Rmas |-> None]
  /\ seen = [p \in Requests |-> {}]
  /\ after = [p \in Requests |-> NoWrite]

-----------------------------------------------------------------------------
(* What each operation checks and writes, as of the committed rows.        *)

\* Checks made by a read of their own, before the update.
mayProceed(o) ==
  /\ o.kind = "etapa" => ensureValidationVideos(o.sel, o.to)
  /\ o.kind = "video" => /\ o.item \in OfRma(o.r)
                         /\ items[o.item].stage \in VALIDATION_VIDEO_STAGES
  /\ o.kind = "responsavel" => /\ rmas[o.r].assignee = o.expected
                               /\ rmas[o.r].assignee # o.assignee
  /\ o.kind = "prioridade" => rmas[o.r].priority # o.priority
  /\ o.kind = "cancelamento" => isCancellable({ items[i].stage : i \in OfRma(o.r) })

\* The WHERE of the update followed by ensureAllMoved.
allMoved(o) ==
  /\ o.kind = "envio"       => o.sel \subseteq ShippableItems(o.r)
  /\ o.kind = "recebimento" => o.sel \subseteq ReceivableItems(o.r)
  /\ o.kind = "etapa"       => o.sel \subseteq ChangeableItems(o.r, o.to)

writtenItems(o) ==
  CASE o.kind = "envio"       -> [i \in o.sel |-> Shipped(items[i])]
    [] o.kind = "recebimento" -> [i \in o.sel |-> Received(items[i])]
    [] o.kind = "etapa"       -> [i \in o.sel |-> Changed(items[i], o.to)]
    [] o.kind = "video"       -> [i \in {o.item} |-> [items[i] EXCEPT !.video = TRUE]]
    [] OTHER                  -> [i \in {} |-> NewItem]

\* The rows of the items with what was written over them.
over(written) ==
  [i \in Items |-> IF i \in DOMAIN written THEN written[i] ELSE items[i]]

writtenRow(o, written, arrived) ==
  CASE o.kind = "etapa" /\ o.to = "finalizado" -> closeIfAllDelivered(o.r, over(written))
    [] o.kind = "responsavel"  -> [rmas[o.r] EXCEPT !.assignee = o.assignee]
    [] o.kind = "prioridade"   -> [rmas[o.r] EXCEPT !.priority = o.priority]
    [] o.kind = "cancelamento" -> [rmas[o.r] EXCEPT !.cancelledAt = TRUE, !.closedAt = TRUE,
                                                    !.returning = arrived]
    [] OTHER                   -> rmas[o.r]

-----------------------------------------------------------------------------
(* The steps of a request.                                                 *)

withoutLocksOf(p) == [r \in Rmas |-> IF held[r] = p THEN None ELSE held[r]]

\* The transaction ends, committed or not, and the request is answered.
End(p) ==
  /\ pc' = [pc EXCEPT ![p] = "parado"]
  /\ op' = [op EXCEPT ![p] = None]
  /\ held' = withoutLocksOf(p)
  /\ seen' = [seen EXCEPT ![p] = {}]
  /\ after' = [after EXCEPT ![p] = NoWrite]

Refuse(p) == End(p) /\ UNCHANGED << rmas, items, envSlaHours >>

\* findRma, outside the transaction.
FindRma(p, o) ==
  /\ pc[p] = "parado"
  /\ Exists(o.r)
  /\ pc' = [pc EXCEPT ![p] = "buscou"]
  /\ op' = [op EXCEPT ![p] = o]
  /\ UNCHANGED << rmas, items, envSlaHours, held, seen, after >>

\* Mutant: the row the lock returns is not looked at again.
LockOpenRma_Unlooked(p) ==
  /\ pc[p] = "buscou"
  /\ held[op[p].r] = None
  /\ pc' = [pc EXCEPT ![p] = "bloqueou"]
  /\ held' = [held EXCEPT ![op[p].r] = p]
  /\ UNCHANGED << rmas, items, envSlaHours, op, seen, after >>

\* lockOpenRma waits for the row lock and looks at the row it returns.
LockOpenRma(p) ==
  /\ pc[p] = "buscou"
  /\ held[op[p].r] = None
  /\ IF lockOpenRma(op[p].r)
       THEN /\ pc' = [pc EXCEPT ![p] = "bloqueou"]
            /\ held' = [held EXCEPT ![op[p].r] = p]
            /\ UNCHANGED << rmas, items, envSlaHours, op, seen, after >>
       ELSE Refuse(p)

Check(p) ==
  /\ pc[p] = "bloqueou"
  /\ IF mayProceed(op[p])
       THEN /\ pc' = [pc EXCEPT ![p] = "conferiu"]
            /\ seen' = [seen EXCEPT ![p] = IF op[p].kind = "cancelamento"
                                             THEN itemsToReturn(op[p].r) ELSE {}]
            /\ UNCHANGED << rmas, items, envSlaHours, op, held, after >>
       ELSE Refuse(p)

Write(p) ==
  /\ pc[p] = "conferiu"
  /\ IF allMoved(op[p])
       THEN /\ pc' = [pc EXCEPT ![p] = "gravou"]
            /\ after' = [after EXCEPT ![p] =
                 [ row   |-> writtenRow(op[p], writtenItems(op[p]), seen[p]),
                   items |-> writtenItems(op[p]) ]]
            /\ UNCHANGED << rmas, items, envSlaHours, op, held, seen >>
       ELSE Refuse(p)

Commit(p) ==
  /\ pc[p] = "gravou"
  /\ rmas' = [rmas EXCEPT ![op[p].r] = after[p].row]
  /\ items' = over(after[p].items)
  /\ UNCHANGED envSlaHours
  /\ End(p)

InTransaction(p) == pc[p] \in { "bloqueou", "conferiu", "gravou" }

\* A slow statement or a forgotten transaction: it goes no further by itself,
\* and keeps its lock.
Hang(p) ==
  /\ InTransaction(p)
  /\ pc' = [pc EXCEPT ![p] = "preso"]
  /\ op' = [op EXCEPT ![p] = None]
  /\ seen' = [seen EXCEPT ![p] = {}]
  /\ after' = [after EXCEPT ![p] = NoWrite]
  /\ UNCHANGED << rmas, items, envSlaHours, held >>

\* Mutant: a pool without time-outs.
timesOut_Never(p) == FALSE

\* statement_timeout and idle_in_transaction_session_timeout.
timesOut(p) == pc[p] = "preso"

\* A transaction that fails, or that the time-outs of the pool end.
Fail(p) == (pc[p] = "buscou" \/ InTransaction(p) \/ timesOut(p)) /\ Refuse(p)

-----------------------------------------------------------------------------

\* Openings and imports insert an RMA nobody can be asking about yet.
Insert ==
  /\ \/ \E r \in Rmas : OpenByCustomer(r) \/ OpenByStaff(r)
     \/ ImportStep
  /\ UNCHANGED requestVars

\* A deployment stops the API: every transaction in progress is undone.
Restart(hours) ==
  /\ Configure(hours)
  /\ pc' = [p \in Requests |-> "parado"]
  /\ op' = [p \in Requests |-> None]
  /\ held' = [r \in Rmas |-> None]
  /\ seen' = [p \in Requests |-> {}]
  /\ after' = [p \in Requests |-> NoWrite]

Step(p) == LockOpenRma(p) \/ Check(p) \/ Write(p) \/ Commit(p)

RequestsNext ==
  \/ \E p \in Requests : \E o \in Asked : FindRma(p, o)
  \/ \E p \in Requests : Step(p) \/ Hang(p) \/ Fail(p)
  \/ Insert
  \/ \E hours \in SlaHours : Restart(hours)

\* A request in progress goes on unless it hangs, the time-outs of the pool end
\* one that does, and PostgreSQL queues those that wait for the lock of a row,
\* so none waits while others pass for ever.
Fairness ==
  \A p \in Requests :
    /\ SF_allVars(LockOpenRma(p))
    /\ WF_allVars(Check(p) \/ Write(p) \/ Commit(p))
    /\ WF_allVars(timesOut(p) /\ Fail(p))

RequestsSpec == RequestsInit /\ [][RequestsNext]_allVars /\ Fairness

-----------------------------------------------------------------------------
(* Properties.                                                             *)

\* Concurrent requests look like operations made one at a time: cancellation,
\* receipt and stage changes do not cross, and nothing is lost between the
\* read of a check and the write it allows.
OneAtATime == Spec

\* Every request is answered, whatever the others do.
Answered == \A p \in Requests : pc[p] # "parado" ~> pc[p] = "parado"

=============================================================================
