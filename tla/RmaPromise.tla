----------------------------- MODULE RmaPromise -----------------------------
(***************************************************************************)
(* What an RMA promises the customer and the team, without the stages, the *)
(* dates and the tables the code keeps it with: where each piece of        *)
(* equipment is, whether its deadline runs, and how the RMA ends.          *)
(* RmaLifecycle implements this module.                                    *)
(***************************************************************************)
CONSTANTS Rmas, Items, RmaOf

VARIABLES
  outcome,  \* of each RMA
  place,    \* of each item
  clock     \* the deadline of each item

vars == << outcome, place, clock >>

Outcomes == { "inexistente", "aberto", "encerrado", "cancelado" }
Places   == { "cliente", "a_caminho", "fabrica", "despachado", "entregue" }
Clocks   == { "parado", "correndo", "terminado" }

OfRma(r) == { i \in Items : RmaOf[i] = r }

\* The way of an item, one place at a time and never back.
Route ==
  { << "cliente", "a_caminho" >>, << "a_caminho", "fabrica" >>,
    << "fabrica", "despachado" >>, << "despachado", "entregue" >> }

Returned == { "despachado", "entregue" }

\* The deadline runs only in the factory and is over once the item left it.
ClocksAt(p) ==
  CASE p = "fabrica"    -> { "parado", "correndo" }
    [] p \in Returned   -> { "terminado" }
    [] OTHER            -> { "parado" }

Init ==
  /\ outcome = [r \in Rmas |-> "inexistente"]
  /\ place = [i \in Items |-> "cliente"]
  /\ clock = [i \in Items |-> "parado"]

\* An RMA begins with its items anywhere; only one that was closed in the
\* legacy system begins closed.
Begin(r) ==
  /\ outcome[r] = "inexistente"
  /\ \E o \in { "aberto", "encerrado" } : outcome' = [outcome EXCEPT ![r] = o]
  /\ \E at \in [OfRma(r) -> Places] :
       /\ place' = [i \in Items |-> IF i \in OfRma(r) THEN at[i] ELSE place[i]]
       /\ \E c \in [OfRma(r) -> Clocks] :
            /\ \A i \in OfRma(r) : c[i] \in ClocksAt(at[i])
            /\ clock' = [i \in Items |-> IF i \in OfRma(r) THEN c[i] ELSE clock[i]]

\* Some items of an open RMA go together to the next place.  The despatch ends
\* a deadline that was running; the delivery of the last item ends the RMA.
Move(r, sel, from, to) ==
  /\ outcome[r] = "aberto"
  /\ sel \subseteq OfRma(r)
  /\ << from, to >> \in Route
  /\ \A i \in sel : place[i] = from
  /\ to = "despachado" => \A i \in sel : clock[i] = "correndo"
  /\ place' = [i \in Items |-> IF i \in sel THEN to ELSE place[i]]
  /\ clock' = [i \in Items |-> IF i \in sel /\ to \in Returned THEN "terminado"
                                                               ELSE clock[i]]
  /\ outcome' = [outcome EXCEPT ![r] =
       IF to = "entregue" /\ \A i \in OfRma(r) : place'[i] = "entregue"
         THEN "encerrado" ELSE "aberto"]

\* The diagnosis starts the deadline, once: as toStageChange does, not at the
\* receipt as the page that registers it says (Divergences in the README).
StartClock(r, sel) ==
  /\ outcome[r] = "aberto"
  /\ sel \subseteq OfRma(r)
  /\ \A i \in sel : place[i] = "fabrica" /\ clock[i] = "parado"
  /\ clock' = [i \in Items |-> IF i \in sel THEN "correndo" ELSE clock[i]]
  /\ UNCHANGED << outcome, place >>

\* Until the first item is despatched.
Cancel(r) ==
  /\ outcome[r] = "aberto"
  /\ \A i \in OfRma(r) : place[i] \notin Returned
  /\ outcome' = [outcome EXCEPT ![r] = "cancelado"]
  /\ UNCHANGED << place, clock >>

Next ==
  \E r \in Rmas :
    \/ Begin(r)
    \/ \E sel \in SUBSET Items : \E way \in Route : Move(r, sel, way[1], way[2])
    \/ \E sel \in SUBSET Items : StartClock(r, sel)
    \/ Cancel(r)

Spec == Init /\ [][Next]_vars

=============================================================================
