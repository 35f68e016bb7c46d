------------------------------ MODULE RmaStages ------------------------------
(***************************************************************************)
(* The stages of an RMA item and the rules both the API and the web panel  *)
(* take from the shared contracts: which stage follows which, who moves an *)
(* item to a stage, when the deadline runs and until when an RMA can be    *)
(* cancelled.  Constant-level definitions only.                            *)
(***************************************************************************)

RMA_ITEM_STAGES ==
  { "aguardando_envio", "enviado", "recebido", "em_diagnostico",
    "aguardando_aprovacao", "em_manutencao", "aguardando_peca", "testes",
    "comprovacao", "devolucao", "finalizado" }

\* NEXT_STAGES as a relation: the pairs <<from, to>> of one step of the process.
NEXT_STAGES ==
  { <<"aguardando_envio",     "enviado">>,
    <<"enviado",              "recebido">>,
    <<"recebido",             "em_diagnostico">>,
    <<"em_diagnostico",       "aguardando_aprovacao">>,
    <<"aguardando_aprovacao", "em_manutencao">>,
    <<"em_manutencao",        "aguardando_peca">>,
    <<"em_manutencao",        "testes">>,
    <<"aguardando_peca",      "em_manutencao">>,
    <<"testes",               "comprovacao">>,
    <<"comprovacao",          "devolucao">>,
    <<"devolucao",            "finalizado">> }

previousStages(to) == { from \in RMA_ITEM_STAGES : <<from, to>> \in NEXT_STAGES }

SHIPPABLE_STAGES  == previousStages("enviado")
RECEIVABLE_STAGES == previousStages("recebido")

STAFF_OPENING_STAGE == "em_diagnostico"
SLA_START_STAGE     == "em_diagnostico"
SLA_END_STAGE       == "devolucao"
SLA_FINISHED_STAGES == { SLA_END_STAGE, "finalizado" }

-----------------------------------------------------------------------------
(* Stage changes by the team.                                              *)

\* Declared by the customer and registered by the team, each by its own operation.
OWN_OPERATION_STAGES == { "enviado", "recebido" }

canChangeStage(from, to) ==
  <<from, to>> \in NEXT_STAGES /\ to \notin OWN_OPERATION_STAGES

stagesChangeableTo(to) == { from \in RMA_ITEM_STAGES : canChangeStage(from, to) }

VALIDATION_VIDEO_STAGES == { "comprovacao" }

requiresValidationVideo(to) == to = SLA_END_STAGE

-----------------------------------------------------------------------------
(* Cancellation.                                                           *)

BEFORE_RECEIPT_STAGES == SHIPPABLE_STAGES \union RECEIVABLE_STAGES

\* Mutant: possible until the first delivery, not until the first despatch.
isCancellable_UntilDelivery(stages) == "finalizado" \notin stages

\* `stages` is the set of stages the items of the RMA are in.
isCancellable(stages) == stages \intersect SLA_FINISHED_STAGES = {}

=============================================================================
