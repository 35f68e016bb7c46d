--------------------------- MODULE CustomersProofs ---------------------------
(***************************************************************************)
(* Proofs about registrations, customers, contacts and their access, for   *)
(* any number of concurrent requests: customer, contact and account are    *)
(* born together, and a customer there already is only reached by the      *)
(* access the team gives.  Every request looks before it inserts, and what *)
(* it saw may change before it does; the argument is about what it holds:  *)
(* an inserted key is in no committed row until its holder ends.           *)
(***************************************************************************)
EXTENDS Customers, FiniteSetTheorems, TLAPS

Kinds == {"cadastro", "criacao", "contato", "acesso"}

\* A request took this step of its plan.
Took(p, step) == Busy(p) /\ \E i \in 1 .. pc[p] : plan(op[p].kind)[i] = step

TypeOK ==
  /\ customers \subseteq Customer
  /\ contacts \subseteq Contact
  /\ accounts \subseteq Emails
  /\ access \subseteq Contact
  /\ op \in [Requests -> Ops \union {None}]
  /\ pc \in [Requests -> Nat]
  /\ held \in [Keys -> Requests \union {None}]

\* A request is at a step of its plan, or done with it; a free slot is at none.
InPlan ==
  \A p \in Requests :
    /\ Busy(p) => pc[p] \in 0 .. Len(plan(op[p].kind))
    /\ ~Busy(p) => pc[p] = 0

\* What a request was about when it started is still there.
StillThere ==
  \A p \in Requests : Busy(p) =>
    /\ op[p].kind \in {"contato", "acesso"} => op[p].customer \in customers
    /\ op[p].kind = "acesso" => contactOf(op[p]) \in contacts

\* What a request inserted, or locked, it holds, and no committed row has it.
HeldIsFree ==
  \A p \in Requests, step \in Inserting : Took(p, step) =>
    held[keyAt(p, step)] = p /\ ~taken(step, keyAt(p, step))

\* Every account of the portal has its contact, and only that one.
OneContact ==
  \A e \in accounts \ Team :
    \E k \in access : k.email = e /\ \A l \in access : l.email = e => l = k

Together ==
  /\ \A c, d \in customers : c.document = d.document => c = d
  /\ \A c \in customers : \E k \in contacts : k.customer = c
  /\ \A k \in contacts : k.customer \in customers
  /\ access \subseteq contacts /\ \A k \in access : k.email \in accounts
  /\ OneContact

IInv ==
  /\ TypeOK
  /\ InPlan
  /\ StillThere
  /\ HeldIsFree
  /\ Together

-----------------------------------------------------------------------------
(* Plans, and the keys of their steps.                                     *)

LEMMA OpFields ==
  ASSUME NEW o \in Ops
  PROVE  /\ o.kind \in Kinds
         /\ o.email \in Emails
         /\ o.kind \in {"cadastro", "criacao"} => o.document \in Documents
         /\ o.kind \in {"contato", "acesso"} => o.customer \in Customer
         /\ customerOf(o) \in Customer
         /\ contactOf(o) \in Contact
<1>1. /\ o.kind \in Kinds
      /\ o.email \in Emails
      /\ o.kind \in {"cadastro", "criacao"} => o.document \in Documents
      /\ o.kind \in {"contato", "acesso"} => o.customer \in Customer
  BY DEF Ops, Kinds
<1>2. customerOf(o) \in Customer BY <1>1 DEF customerOf, Customer, Kinds
<1>3. contactOf(o) \in Contact BY <1>1, <1>2 DEF contactOf, Contact
<1> QED BY <1>1, <1>2, <1>3

LEMMA BusyAsks == ASSUME TypeOK, NEW p \in Requests, Busy(p) PROVE op[p] \in Ops
BY DEF TypeOK, Busy

\* The plans, step by step.
LEMMA Plans ==
  /\ Len(plan("cadastro")) = 4 /\ Len(plan("criacao")) = 4
  /\ Len(plan("contato")) = 2 /\ Len(plan("acesso")) = 3
  /\ plan("cadastro")[1] = "olha documento" /\ plan("cadastro")[2] = "olha email"
  /\ plan("cadastro")[3] = "conta" /\ plan("cadastro")[4] = "cliente"
  /\ plan("criacao")[1] = "olha documento" /\ plan("criacao")[2] = "cliente"
  /\ plan("criacao")[3] = "olha email" /\ plan("criacao")[4] = "conta"
  /\ plan("contato")[1] = "olha contato" /\ plan("contato")[2] = "contato"
  /\ plan("acesso")[1] = "bloqueia contato" /\ plan("acesso")[2] = "olha email"
  /\ plan("acesso")[3] = "conta"
BY DEF plan

LEMMA PlansEnd == ASSUME NEW kind \in Kinds PROVE \E n \in Nat : n = Len(plan(kind))
<1>1. CASE kind = "cadastro" BY <1>1, Plans
<1>2. CASE kind = "criacao" BY <1>2, Plans
<1>3. CASE kind = "contato" BY <1>3, Plans
<1>4. CASE kind = "acesso" BY <1>4, Plans
<1> QED BY <1>1, <1>2, <1>3, <1>4 DEF Kinds

\* Which requests insert what.
LEMMA WhoInserts ==
  ASSUME NEW kind \in Kinds, NEW i \in 1 .. Len(plan(kind))
  PROVE  /\ plan(kind)[i] = "cliente" => kind \in {"cadastro", "criacao"}
         /\ plan(kind)[i] = "conta" => kind # "contato"
         /\ plan(kind)[i] = "contato" => kind = "contato"
         /\ plan(kind)[i] = "bloqueia contato" => kind = "acesso"
<1>1. CASE kind = "cadastro"
  <2>1. i \in 1 .. 4 BY <1>1, Plans
  <2>2. i = 1 \/ i = 2 \/ i = 3 \/ i = 4 BY <2>1
  <2> QED BY <1>1, <2>2, Plans
<1>2. CASE kind = "criacao"
  <2>1. i \in 1 .. 4 BY <1>2, Plans
  <2>2. i = 1 \/ i = 2 \/ i = 3 \/ i = 4 BY <2>1
  <2> QED BY <1>2, <2>2, Plans
<1>3. CASE kind = "contato"
  <2>1. i \in 1 .. 2 BY <1>3, Plans
  <2>2. i = 1 \/ i = 2 BY <2>1
  <2> QED BY <1>3, <2>2, Plans
<1>4. CASE kind = "acesso"
  <2>1. i \in 1 .. 3 BY <1>4, Plans
  <2>2. i = 1 \/ i = 2 \/ i = 3 BY <2>1
  <2> QED BY <1>4, <2>2, Plans
<1> QED BY <1>1, <1>2, <1>3, <1>4 DEF Kinds

\* A request that is done inserted, or locked, all that its plan says.
LEMMA DoneTook ==
  ASSUME NEW p \in Requests, Done(p)
  PROVE  /\ op[p].kind \in {"cadastro", "criacao"} => Took(p, "cliente") /\ Took(p, "conta")
         /\ op[p].kind = "contato" => Took(p, "contato")
         /\ op[p].kind = "acesso" => Took(p, "bloqueia contato") /\ Took(p, "conta")
<1>1. CASE op[p].kind = "cadastro"
  <2>1. pc[p] = 4 BY <1>1, Plans DEF Done
  <2>2. 3 \in 1 .. pc[p] /\ 4 \in 1 .. pc[p] BY <2>1
  <2> QED BY <1>1, <2>2, Plans DEF Took, Done
<1>2. CASE op[p].kind = "criacao"
  <2>1. pc[p] = 4 BY <1>2, Plans DEF Done
  <2>2. 2 \in 1 .. pc[p] /\ 4 \in 1 .. pc[p] BY <2>1
  <2> QED BY <1>2, <2>2, Plans DEF Took, Done
<1>3. CASE op[p].kind = "contato"
  <2>1. pc[p] = 2 BY <1>3, Plans DEF Done
  <2>2. 2 \in 1 .. pc[p] BY <2>1
  <2> QED BY <1>3, <2>2, Plans DEF Took, Done
<1>4. CASE op[p].kind = "acesso"
  <2>1. pc[p] = 3 BY <1>4, Plans DEF Done
  <2>2. 1 \in 1 .. pc[p] /\ 3 \in 1 .. pc[p] BY <2>1
  <2> QED BY <1>4, <2>2, Plans DEF Took, Done
<1> QED BY <1>1, <1>2, <1>3, <1>4

\* The step a request is at is one of its plan.
LEMMA AtInPlan ==
  ASSUME TypeOK, InPlan, NEW p \in Requests, NEW step, At(p, {step})
  PROVE  /\ op[p] \in Ops /\ op[p].kind \in Kinds
         /\ pc[p] + 1 \in 1 .. Len(plan(op[p].kind)) /\ plan(op[p].kind)[pc[p] + 1] = step
<1>1. Busy(p) /\ ~Done(p) /\ plan(op[p].kind)[pc[p] + 1] = step BY DEF At
<1>2. op[p] \in Ops BY <1>1, BusyAsks
<1>3. op[p].kind \in Kinds BY <1>2, OpFields
<1>4. PICK n : n = Len(plan(op[p].kind)) OBVIOUS
<1>5. n \in Nat BY <1>3, <1>4, PlansEnd
<1>6. pc[p] \in 0 .. n /\ pc[p] # n BY <1>1, <1>4 DEF InPlan, Done
<1>7. pc[p] + 1 \in 1 .. n BY <1>5, <1>6
<1> QED BY <1>1, <1>2, <1>3, <1>4, <1>7

\* What each step that inserts is about.
LEMMA KeyOfStep ==
  ASSUME NEW p \in Requests, op[p] \in Ops, NEW i \in 1 .. Len(plan(op[p].kind)),
         NEW step \in Inserting, plan(op[p].kind)[i] = step
  PROVE  /\ keyAt(p, step) \in Keys
         /\ step = "cliente" => op[p].kind \in {"cadastro", "criacao"} /\ keyAt(p, step) = op[p].document
         /\ step = "conta" => op[p].kind # "contato" /\ keyAt(p, step) = op[p].email
         /\ step = "contato" => op[p].kind = "contato" /\ keyAt(p, step) = contactOf(op[p])
         /\ step = "bloqueia contato" => op[p].kind = "acesso" /\ keyAt(p, step) = contactOf(op[p])
<1>1. op[p].kind \in Kinds BY OpFields
<1>2. /\ step = "cliente" => op[p].kind \in {"cadastro", "criacao"}
      /\ step = "conta" => op[p].kind # "contato"
      /\ step = "contato" => op[p].kind = "contato"
      /\ step = "bloqueia contato" => op[p].kind = "acesso"
  BY <1>1, WhoInserts
<1>3. /\ step = "cliente" => keyAt(p, step) = op[p].document
      /\ step = "conta" => keyAt(p, step) = op[p].email
      /\ step \in {"contato", "bloqueia contato"} => keyAt(p, step) = contactOf(op[p])
  BY DEF keyAt
<1>4. keyAt(p, step) \in Keys BY <1>2, <1>3, OpFields DEF Keys, Inserting
<1> QED BY <1>2, <1>3, <1>4

\* The same of a step that was taken.
LEMMA KeyOfTaken ==
  ASSUME TypeOK, InPlan, NEW p \in Requests, NEW step \in Inserting, Took(p, step)
  PROVE  /\ op[p] \in Ops /\ keyAt(p, step) \in Keys
         /\ step = "cliente" => op[p].kind \in {"cadastro", "criacao"} /\ keyAt(p, step) = op[p].document
         /\ step = "conta" => op[p].kind # "contato" /\ keyAt(p, step) = op[p].email
         /\ step = "contato" => op[p].kind = "contato" /\ keyAt(p, step) = contactOf(op[p])
         /\ step = "bloqueia contato" => op[p].kind = "acesso" /\ keyAt(p, step) = contactOf(op[p])
<1>1. Busy(p) /\ op[p] \in Ops BY BusyAsks DEF Took
<1>2. PICK i \in 1 .. pc[p] : plan(op[p].kind)[i] = step BY DEF Took
<1>3. PICK n : n = Len(plan(op[p].kind)) OBVIOUS
<1>4. n \in Nat
  <2>1. op[p].kind \in Kinds BY <1>1, OpFields
  <2> QED BY <1>3, <2>1, PlansEnd
<1>5. pc[p] \in 0 .. n BY <1>1, <1>3 DEF InPlan
<1>6. i \in 1 .. n BY <1>4, <1>5
<1> QED BY <1>1, <1>2, <1>3, <1>6, KeyOfStep

-----------------------------------------------------------------------------
(* Frames.                                                                 *)

LEMMA SameTaken ==
  ASSUME NEW step, NEW key, UNCHANGED records
  PROVE  taken(step, key)' <=> taken(step, key)
BY DEF records, taken, documentTaken

LEMMA SameKey ==
  ASSUME NEW q \in Requests, NEW step, op'[q] = op[q]
  PROVE  keyAt(q, step)' = keyAt(q, step)
BY DEF keyAt, contactOf, customerOf

\* The rows are the same: what is together stays together.
LEMMA SameRecords ==
  ASSUME Together, UNCHANGED records
  PROVE  Together'
BY DEF Together, OneContact, records

\* What a request took, and holds, is left to it.
LEMMA KeepsHolding ==
  ASSUME IInv, NEW q \in Requests, NEW step \in Inserting, Took(q, step),
         UNCHANGED records, op'[q] = op[q],
         \A k \in Keys : held[k] = q => held'[k] = q
  PROVE  held'[keyAt(q, step)'] = q /\ ~taken(step, keyAt(q, step))'
<1>1. PICK key : key = keyAt(q, step) OBVIOUS
<1>2. key \in Keys BY <1>1, KeyOfTaken DEF IInv
<1>3. held[key] = q /\ ~taken(step, key) BY <1>1 DEF IInv, HeldIsFree
<1>4. keyAt(q, step)' = key BY <1>1, SameKey
<1>5. ~taken(step, key)' BY <1>3, SameTaken
<1> QED BY <1>2, <1>3, <1>4, <1>5

-----------------------------------------------------------------------------
(* The steps of a request, but for the last.                               *)

\* What a transaction that ends leaves to the others.
LEMMA Ends ==
  ASSUME TypeOK, NEW p \in Requests, End(p)
  PROVE  /\ op' \in [Requests -> Ops \union {None}]
         /\ pc' \in [Requests -> Nat]
         /\ held' \in [Keys -> Requests \union {None}]
         /\ ~Busy(p)' /\ pc'[p] = 0
         /\ \A q \in Requests \ {p} : op'[q] = op[q] /\ pc'[q] = pc[q]
         /\ \A q \in Requests \ {p}, k \in Keys : held[k] = q => held'[k] = q
BY DEF TypeOK, End, released, Busy

LEMMA RefuseKeeps == ASSUME IInv, NEW p \in Requests, Refuse(p) PROVE IInv'
<1>0. UNCHANGED records /\ End(p) BY DEF Refuse
<1>1. /\ op' \in [Requests -> Ops \union {None}]
      /\ pc' \in [Requests -> Nat]
      /\ held' \in [Keys -> Requests \union {None}]
      /\ ~Busy(p)' /\ pc'[p] = 0
      /\ \A q \in Requests \ {p} : op'[q] = op[q] /\ pc'[q] = pc[q]
      /\ \A q \in Requests \ {p}, k \in Keys : held[k] = q => held'[k] = q
  BY <1>0, Ends DEF IInv
<1>2. TypeOK' BY <1>0, <1>1 DEF IInv, TypeOK, records
<1>3. InPlan' BY <1>1 DEF IInv, InPlan, Busy
<1>4. StillThere' BY <1>0, <1>1 DEF IInv, StillThere, Busy, records, contactOf, customerOf
<1>5. HeldIsFree'
  <2> SUFFICES ASSUME NEW q \in Requests, NEW step \in Inserting, Took(q, step)'
               PROVE  held'[keyAt(q, step)'] = q /\ ~taken(step, keyAt(q, step))'
    BY DEF HeldIsFree
  <2>1. q # p BY <1>1 DEF Took
  <2>2. Took(q, step) BY <1>1, <2>1 DEF Took, Busy
  <2> QED BY <1>0, <1>1, <2>1, <2>2, KeepsHolding
<1>6. Together' BY <1>0, SameRecords DEF IInv
<1> QED BY <1>2, <1>3, <1>4, <1>5, <1>6 DEF IInv

\* A request takes the step it is at; one that inserts takes its key too.
LEMMA AdvanceKeeps ==
  ASSUME IInv, NEW p \in Requests, NEW step, At(p, {step}), Advance(p),
         \/ step \notin Inserting /\ held' = held
         \/ /\ step \in Inserting /\ held[keyAt(p, step)] = None
            /\ ~taken(step, keyAt(p, step))
            /\ held' = [held EXCEPT ![keyAt(p, step)] = p]
  PROVE  IInv'
<1>0. UNCHANGED records /\ op' = op /\ pc' = [pc EXCEPT ![p] = pc[p] + 1] BY DEF Advance
<1>1. /\ op[p] \in Ops /\ pc[p] + 1 \in 1 .. Len(plan(op[p].kind))
      /\ plan(op[p].kind)[pc[p] + 1] = step
  BY AtInPlan DEF IInv
<1>2. pc \in [Requests -> Nat] BY DEF IInv, TypeOK
<1>3. pc'[p] = pc[p] + 1 /\ \A q \in Requests \ {p} : pc'[q] = pc[q] BY <1>0, <1>2
<1>4. held' \in [Keys -> Requests \union {None}] BY DEF IInv, TypeOK
<1>5. TypeOK'
  <2>1. pc[p] + 1 \in Nat BY <1>2
  <2>2. pc' \in [Requests -> Nat] BY <1>0, <1>2, <2>1
  <2> QED BY <1>0, <1>4, <2>2 DEF IInv, TypeOK, records
<1>6. InPlan'
  <2> SUFFICES ASSUME NEW q \in Requests
               PROVE  /\ Busy(q) => pc'[q] \in 0 .. Len(plan(op[q].kind))
                      /\ ~Busy(q) => pc'[q] = 0
    BY <1>0 DEF InPlan, Busy
  <2>1. CASE q # p BY <1>3, <2>1 DEF IInv, InPlan
  <2>2. CASE q = p
    <3>1. Busy(p) BY DEF At
    <3>2. pc[p] + 1 \in 0 .. Len(plan(op[p].kind)) BY <1>1
    <3> QED BY <1>3, <2>2, <3>1, <3>2
  <2> QED BY <2>1, <2>2
<1>7. StillThere' BY <1>0 DEF IInv, StillThere, Busy, records, contactOf, customerOf
<1>8. \A q \in Requests, k \in Keys : held[k] = q => held'[k] = q
  BY CustomersAssumption DEF IInv, TypeOK
<1>9. HeldIsFree'
  <2> SUFFICES ASSUME NEW q \in Requests, NEW s \in Inserting, Took(q, s)'
               PROVE  held'[keyAt(q, s)'] = q /\ ~taken(s, keyAt(q, s))'
    BY DEF HeldIsFree
  <2>1. CASE Took(q, s) BY <1>0, <1>8, <2>1, KeepsHolding
  <2>2. CASE ~Took(q, s)
    <3>1. PICK i \in 1 .. pc'[q] : plan(op[q].kind)[i] = s BY <1>0 DEF Took
    <3>2. ~(i \in 1 .. pc[q]) BY <1>0, <2>2, <3>1 DEF Took, Busy
    <3>3. q = p BY <1>3, <3>1, <3>2
    <3>4. i = pc[p] + 1 BY <1>2, <1>3, <3>1, <3>2, <3>3
    <3>5. s = step BY <1>1, <3>1, <3>3, <3>4
    <3>6. keyAt(p, step) \in Keys BY <1>1, <3>5, KeyOfStep
    <3>7. /\ ~taken(step, keyAt(p, step))
          /\ held' = [held EXCEPT ![keyAt(p, step)] = p]
      BY <3>5
    <3>8. PICK key : key = keyAt(p, step) OBVIOUS
    <3>9. held'[key] = p BY <3>6, <3>7, <3>8 DEF IInv, TypeOK
    <3>10. keyAt(p, step)' = key BY <1>0, <3>8, SameKey
    <3>11. ~taken(step, key)' BY <1>0, <3>7, <3>8, SameTaken
    <3> QED BY <3>3, <3>5, <3>9, <3>10, <3>11
  <2> QED BY <2>1, <2>2
<1>10. Together' BY <1>0, SameRecords DEF IInv
<1> QED BY <1>5, <1>6, <1>7, <1>9, <1>10 DEF IInv

LEMMA StartKeeps == ASSUME IInv, NEW p \in Requests, NEW o \in Asked, Start(p, o) PROVE IInv'
<1>0. /\ UNCHANGED records /\ pc' = pc /\ held' = held /\ op' = [op EXCEPT ![p] = o]
      /\ o \in Ops /\ ~Busy(p)
      /\ o.kind \in { "contato", "acesso" } => o.customer \in customers
      /\ o.kind = "acesso" => contactOf(o) \in contacts
  BY CustomersAssumption DEF Start
<1>1. op'[p] = o /\ \A q \in Requests \ {p} : op'[q] = op[q] BY <1>0 DEF IInv, TypeOK
<1>2. TypeOK' BY <1>0 DEF IInv, TypeOK, records
<1>3. InPlan'
  <2> SUFFICES ASSUME NEW q \in Requests
               PROVE  /\ Busy(q)' => pc[q] \in 0 .. Len(plan(op'[q].kind))
                      /\ ~Busy(q)' => pc[q] = 0
    BY <1>0 DEF InPlan
  <2>1. CASE q # p BY <1>1, <2>1 DEF IInv, InPlan, Busy
  <2>2. CASE q = p
    <3>1. pc[p] = 0 BY <1>0 DEF IInv, InPlan
    <3>2. o.kind \in Kinds BY <1>0, OpFields
    <3>3. PICK n \in Nat : n = Len(plan(o.kind)) BY <3>2, PlansEnd
    <3>4. 0 \in 0 .. n BY <3>3
    <3> QED BY <1>1, <2>2, <3>1, <3>3, <3>4
  <2> QED BY <2>1, <2>2
<1>4. StillThere'
  <2> SUFFICES ASSUME NEW q \in Requests, Busy(q)'
               PROVE  /\ op'[q].kind \in {"contato", "acesso"} => op'[q].customer \in customers
                      /\ op'[q].kind = "acesso" => contactOf(op'[q]) \in contacts
    BY <1>0 DEF StillThere, records, contactOf, customerOf
  <2>1. CASE q # p BY <1>1, <2>1 DEF IInv, StillThere, Busy
  <2>2. CASE q = p BY <1>0, <1>1, <2>2
  <2> QED BY <2>1, <2>2
<1>5. HeldIsFree'
  <2> SUFFICES ASSUME NEW q \in Requests, NEW step \in Inserting, Took(q, step)'
               PROVE  held'[keyAt(q, step)'] = q /\ ~taken(step, keyAt(q, step))'
    BY DEF HeldIsFree
  <2>1. q # p
    <3>1. pc[p] = 0 BY <1>0 DEF IInv, InPlan
    <3>2. 1 .. 0 = {} OBVIOUS
    <3> QED BY <1>0, <3>1, <3>2 DEF Took
  <2>2. Took(q, step) BY <1>0, <1>1, <2>1 DEF Took, Busy
  <2> QED BY <1>0, <1>1, <2>1, <2>2, KeepsHolding
<1>6. Together' BY <1>0, SameRecords DEF IInv
<1> QED BY <1>2, <1>3, <1>4, <1>5, <1>6 DEF IInv

LEMMA LookKeeps == ASSUME IInv, NEW p \in Requests, Look(p) PROVE IInv'
<1>1. PICK step \in { "olha documento", "olha email", "olha contato" } :
        /\ At(p, {step})
        /\ IF taken(step, keyAt(p, step)) THEN Refuse(p) ELSE Advance(p) /\ UNCHANGED held
  BY DEF Look
<1>2. step \notin Inserting BY DEF Inserting
<1>3. CASE taken(step, keyAt(p, step)) BY <1>1, <1>3, RefuseKeeps
<1>4. CASE ~taken(step, keyAt(p, step)) BY <1>1, <1>2, <1>4, AdvanceKeeps
<1> QED BY <1>3, <1>4

LEMMA InsertKeeps == ASSUME IInv, NEW p \in Requests, Insert(p) PROVE IInv'
<1>1. PICK step \in Inserting :
        /\ At(p, {step})
        /\ held[keyAt(p, step)] = None
        /\ IF taken(step, keyAt(p, step))
             THEN Refuse(p)
             ELSE held' = [held EXCEPT ![keyAt(p, step)] = p] /\ Advance(p)
  BY DEF Insert
<1>2. CASE taken(step, keyAt(p, step)) BY <1>1, <1>2, RefuseKeeps
<1>3. CASE ~taken(step, keyAt(p, step)) BY <1>1, <1>3, AdvanceKeeps
<1> QED BY <1>2, <1>3

-----------------------------------------------------------------------------
(* The commit.                                                             *)

\* What a request that is done knows: what it inserts is in no committed row, the
\* rest is there, and nobody else holds what it holds.
LEMMA WhatIsKnown ==
  ASSUME IInv, NEW p \in Requests, Done(p)
  PROVE  /\ op[p].kind \in {"cadastro", "criacao"} =>
              /\ held[op[p].document] = p /\ ~documentTaken(op[p].document)
              /\ customerOf(op[p]).document = op[p].document
         /\ op[p].kind # "contato" => held[op[p].email] = p /\ op[p].email \notin accounts
         /\ op[p].kind = "contato" =>
              held[contactOf(op[p])] = p /\ customerOf(op[p]) \in customers
         /\ op[p].kind = "acesso" =>
              /\ held[contactOf(op[p])] = p
              /\ customerOf(op[p]) \in customers /\ contactOf(op[p]) \in contacts
<1>1. Busy(p) /\ op[p] \in Ops /\ op[p].kind \in Kinds
  BY BusyAsks, OpFields DEF Done, IInv
<1>2. \A step \in Inserting : Took(p, step) =>
        held[keyAt(p, step)] = p /\ ~taken(step, keyAt(p, step))
  BY DEF IInv, HeldIsFree
<1>3. Took(p, "cliente") => held[op[p].document] = p /\ ~documentTaken(op[p].document)
  <2>1. keyAt(p, "cliente") = op[p].document BY DEF keyAt
  <2>2. taken("cliente", op[p].document) <=> documentTaken(op[p].document) BY DEF taken
  <2> QED BY <1>2, <2>1, <2>2 DEF Inserting
<1>4. Took(p, "conta") => held[op[p].email] = p /\ op[p].email \notin accounts
  <2>1. keyAt(p, "conta") = op[p].email BY DEF keyAt
  <2>2. taken("conta", op[p].email) <=> op[p].email \in accounts BY DEF taken
  <2> QED BY <1>2, <2>1, <2>2 DEF Inserting
<1>5. /\ Took(p, "contato") => held[contactOf(op[p])] = p
      /\ Took(p, "bloqueia contato") => held[contactOf(op[p])] = p
  <2>1. keyAt(p, "contato") = contactOf(op[p]) BY DEF keyAt
  <2>2. keyAt(p, "bloqueia contato") = contactOf(op[p]) BY DEF keyAt
  <2> QED BY <1>2, <2>1, <2>2 DEF Inserting
<1>6. op[p].kind \in {"cadastro", "criacao"} => customerOf(op[p]).document = op[p].document
  BY DEF customerOf
<1>7. op[p].kind \in {"contato", "acesso"} => customerOf(op[p]) \in customers
  BY <1>1 DEF customerOf, IInv, StillThere
<1>8. op[p].kind = "acesso" => contactOf(op[p]) \in contacts BY <1>1 DEF IInv, StillThere
<1> QED BY <1>1, <1>3, <1>4, <1>5, <1>6, <1>7, <1>8, DoneTook DEF Kinds

\* What the rows are after the commit.
LEMMA Rows ==
  ASSUME IInv, NEW p \in Requests, Commit(p)
  PROVE  /\ Done(p) /\ op[p] \in Ops /\ op[p].kind \in Kinds
         /\ customers' = customers \union {customerOf(op[p])}
         /\ contacts' = contacts \union {contactOf(op[p])}
         /\ op[p].kind = "contato" => accounts' = accounts /\ access' = access
         /\ op[p].kind # "contato" =>
              /\ accounts' = accounts \union {op[p].email}
              /\ access' = access \union {contactOf(op[p])}
         /\ End(p)
         /\ contactOf(op[p]).customer = customerOf(op[p]) /\ contactOf(op[p]).email = op[p].email
<1>1. op[p] \in Ops /\ op[p].kind \in Kinds BY BusyAsks, OpFields DEF Done, IInv, Commit
<1>2. contactOf(op[p]).customer = customerOf(op[p]) /\ contactOf(op[p]).email = op[p].email
  BY DEF contactOf
<1> QED BY <1>1, <1>2 DEF Commit

LEMMA CommitTogether == ASSUME IInv, NEW p \in Requests, Commit(p) PROVE Together'
<1> DEFINE o == op[p]
           c == customerOf(o)
           k == contactOf(o)
<1>1. /\ o.kind \in Kinds
      /\ customers' = customers \union {c} /\ contacts' = contacts \union {k}
      /\ o.kind = "contato" => accounts' = accounts /\ access' = access
      /\ o.kind # "contato" =>
           accounts' = accounts \union {o.email} /\ access' = access \union {k}
      /\ k.customer = c /\ k.email = o.email
  BY Rows
<1>2. /\ o.kind \in {"cadastro", "criacao"} => c.document = o.document /\ ~documentTaken(o.document)
      /\ o.kind \in {"contato", "acesso"} => c \in customers
      /\ o.kind # "contato" => o.email \notin accounts
  BY WhatIsKnown, Rows
<1> HIDE DEF o, c, k
<1>3. \A d, e \in customers' : d.document = e.document => d = e
  <2>1. CASE c \in customers BY <1>1, <2>1 DEF IInv, Together
  <2>2. CASE c \notin customers
    <3>1. \A d \in customers : d.document # c.document
      BY <1>1, <1>2, <2>2 DEF documentTaken, Kinds
    <3> QED BY <1>1, <3>1 DEF IInv, Together
  <2> QED BY <2>1, <2>2
<1>4. \A d \in customers' : \E l \in contacts' : l.customer = d BY <1>1 DEF IInv, Together
<1>5. \A l \in contacts' : l.customer \in customers' BY <1>1 DEF IInv, Together
<1>6. access' \subseteq contacts' /\ \A l \in access' : l.email \in accounts'
  BY <1>1 DEF IInv, Together
<1>7. \A e \in accounts' \ Team :
        \E l \in access' : l.email = e /\ \A m \in access' : m.email = e => m = l
  <2>1. CASE o.kind = "contato" BY <1>1, <2>1 DEF IInv, Together, OneContact
  <2>2. CASE o.kind # "contato"
    <3> SUFFICES ASSUME NEW e \in accounts' \ Team
                 PROVE  \E l \in access' : l.email = e /\ \A m \in access' : m.email = e => m = l
      OBVIOUS
    <3>1. \A m \in access : m.email # o.email BY <1>2, <2>2 DEF IInv, Together
    <3>2. CASE e = o.email BY <1>1, <2>2, <3>1, <3>2
    <3>3. CASE e # o.email
      <4>1. e \in accounts \ Team BY <1>1, <2>2, <3>3
      <4>2. PICK l \in access : l.email = e /\ \A m \in access : m.email = e => m = l
        BY <4>1 DEF IInv, Together, OneContact
      <4> QED BY <1>1, <2>2, <3>3, <4>2
    <3> QED BY <3>2, <3>3
  <2> QED BY <2>1, <2>2
<1> QED BY <1>3, <1>4, <1>5, <1>6, <1>7 DEF Together, OneContact

\* What another request inserted and did not commit is still in no committed row.
LEMMA CommitLeavesFree ==
  ASSUME IInv, NEW p \in Requests, Commit(p), NEW q \in Requests \ {p},
         NEW step \in Inserting, Took(q, step)
  PROVE  ~taken(step, keyAt(q, step))'
<1> DEFINE o == op[p]
           c == customerOf(o)
           k == contactOf(o)
<1>1. /\ o.kind \in Kinds
      /\ customers' = customers \union {c} /\ contacts' = contacts \union {k}
      /\ o.kind = "contato" => accounts' = accounts /\ access' = access
      /\ o.kind # "contato" =>
           accounts' = accounts \union {o.email} /\ access' = access \union {k}
      /\ k.customer = c /\ End(p)
  BY Rows
<1>2. /\ o.kind \in {"cadastro", "criacao"} =>
           held[o.document] = p /\ c.document = o.document /\ ~documentTaken(o.document)
      /\ o.kind \in {"contato", "acesso"} => c \in customers
      /\ o.kind # "contato" => held[o.email] = p
      /\ o.kind \in {"contato", "acesso"} => held[k] = p
      /\ o.kind = "acesso" => k \in contacts
  BY WhatIsKnown, Rows
<1> HIDE DEF o, c, k
<1>3. PICK key : key = keyAt(q, step) OBVIOUS
<1>4. held[key] = q /\ ~taken(step, key) BY <1>3 DEF IInv, HeldIsFree
<1>5. keyAt(q, step)' = key
  <2>1. op'[q] = op[q] BY <1>1, Ends DEF IInv
  <2> QED BY <1>3, <2>1, SameKey
<1>6. Busy(q) BY DEF Took
<1>7. c \notin customers => o.kind \in {"cadastro", "criacao"} /\ k \notin contacts
  BY <1>1, <1>2 DEF IInv, Together, Kinds
<1>8. CASE step = "cliente"
  <2>1. \A d \in customers : d.document # key BY <1>4, <1>8 DEF taken, documentTaken
  <2>2. c \notin customers => c.document # key BY <1>2, <1>4, <1>7
  <2>3. ~documentTaken(key)' BY <1>1, <2>1, <2>2 DEF documentTaken
  <2>4. taken("cliente", key)' <=> documentTaken(key)' BY DEF taken
  <2> QED BY <1>5, <1>8, <2>3, <2>4
<1>9. CASE step = "conta"
  <2>1. key \notin accounts BY <1>4, <1>9 DEF taken
  <2>2. key \notin accounts' BY <1>1, <1>2, <1>4, <2>1
  <2>3. taken("conta", key)' <=> key \in accounts' BY DEF taken
  <2> QED BY <1>5, <1>9, <2>2, <2>3
<1>10. CASE step = "contato"
  <2>1. key \notin contacts BY <1>4, <1>10 DEF taken
  <2>2. key = contactOf(op[q]) /\ op[q].kind = "contato" BY <1>3, <1>10, KeyOfTaken DEF IInv
  <2>3. key.customer \in customers
    BY <1>6, <2>2 DEF IInv, StillThere, contactOf, customerOf
  <2>4. key # k
    <3>1. CASE o.kind = "contato" BY <1>2, <1>4, <3>1
    <3>2. CASE o.kind = "acesso" BY <1>2, <2>1, <3>2
    <3>3. CASE o.kind \in {"cadastro", "criacao"}
      <4>1. c \notin customers BY <1>2, <3>3 DEF documentTaken
      <4> QED BY <1>1, <2>3, <4>1
    <3> QED BY <1>1, <3>1, <3>2, <3>3 DEF Kinds
  <2>5. key \notin contacts' BY <1>1, <2>1, <2>4
  <2>6. taken("contato", key)' <=> key \in contacts' BY DEF taken
  <2> QED BY <1>5, <1>10, <2>5, <2>6
<1>11. CASE step = "bloqueia contato"
  <2>1. key \notin access BY <1>4, <1>11 DEF taken
  <2>2. key = contactOf(op[q]) /\ op[q].kind = "acesso" BY <1>3, <1>11, KeyOfTaken DEF IInv
  <2>3. key.customer \in customers
    BY <1>6, <2>2 DEF IInv, StillThere, contactOf, customerOf
  <2>4. key \notin access'
    <3>1. CASE o.kind = "contato" BY <1>1, <2>1, <3>1
    <3>2. CASE o.kind = "acesso" BY <1>1, <1>2, <1>4, <2>1, <3>2
    <3>3. CASE o.kind \in {"cadastro", "criacao"}
      <4>1. c \notin customers BY <1>2, <3>3 DEF documentTaken
      <4>2. key # k BY <1>1, <2>3, <4>1
      <4> QED BY <1>1, <2>1, <3>3, <4>2
    <3> QED BY <1>1, <3>1, <3>2, <3>3 DEF Kinds
  <2>5. taken("bloqueia contato", key)' <=> key \in access' BY DEF taken
  <2> QED BY <1>5, <1>11, <2>4, <2>5
<1> QED BY <1>8, <1>9, <1>10, <1>11 DEF Inserting

LEMMA CommitKeeps == ASSUME IInv, NEW p \in Requests, Commit(p) PROVE IInv'
<1>1. /\ op[p] \in Ops /\ End(p)
      /\ customers' = customers \union {customerOf(op[p])}
      /\ contacts' = contacts \union {contactOf(op[p])}
      /\ op[p].kind = "contato" => accounts' = accounts /\ access' = access
      /\ op[p].kind # "contato" =>
           accounts' = accounts \union {op[p].email} /\ access' = access \union {contactOf(op[p])}
  BY Rows
<1>2. /\ op' \in [Requests -> Ops \union {None}]
      /\ pc' \in [Requests -> Nat]
      /\ held' \in [Keys -> Requests \union {None}]
      /\ ~Busy(p)' /\ pc'[p] = 0
      /\ \A q \in Requests \ {p} : op'[q] = op[q] /\ pc'[q] = pc[q]
      /\ \A q \in Requests \ {p}, k \in Keys : held[k] = q => held'[k] = q
  BY <1>1, Ends DEF IInv
<1>3. TypeOK'
  <2>1. customerOf(op[p]) \in Customer /\ contactOf(op[p]) \in Contact /\ op[p].email \in Emails
    BY <1>1, OpFields
  <2>2. customers' \subseteq Customer /\ contacts' \subseteq Contact BY <1>1, <2>1 DEF IInv, TypeOK
  <2>3. accounts' \subseteq Emails /\ access' \subseteq Contact BY <1>1, <2>1 DEF IInv, TypeOK
  <2> QED BY <1>2, <2>2, <2>3 DEF TypeOK
<1>4. InPlan' BY <1>2 DEF IInv, InPlan, Busy
<1>5. StillThere' BY <1>1, <1>2 DEF IInv, StillThere, Busy, contactOf, customerOf
<1>6. HeldIsFree'
  <2> SUFFICES ASSUME NEW q \in Requests, NEW step \in Inserting, Took(q, step)'
               PROVE  held'[keyAt(q, step)'] = q /\ ~taken(step, keyAt(q, step))'
    BY DEF HeldIsFree
  <2>1. q # p BY <1>2 DEF Took
  <2>2. Took(q, step) BY <1>2, <2>1 DEF Took, Busy
  <2>3. ~taken(step, keyAt(q, step))' BY <2>1, <2>2, CommitLeavesFree
  <2>4. PICK key : key = keyAt(q, step) OBVIOUS
  <2>5. key \in Keys /\ held[key] = q BY <2>2, <2>4, KeyOfTaken DEF IInv, HeldIsFree
  <2>6. keyAt(q, step)' = key BY <1>2, <2>1, <2>4, SameKey
  <2> QED BY <1>2, <2>1, <2>3, <2>5, <2>6
<1>7. Together' BY CommitTogether
<1> QED BY <1>3, <1>4, <1>5, <1>6, <1>7 DEF IInv

-----------------------------------------------------------------------------
(* The theorems.                                                           *)

LEMMA InitHolds == Init => IInv
<1> SUFFICES ASSUME Init PROVE IInv OBVIOUS
<1>1. TypeOK BY CustomersAssumption DEF Init, TypeOK, Customer, Contact
<1>2. \A p \in Requests : ~Busy(p) /\ pc[p] = 0 BY DEF Init, Busy
<1>3. InPlan /\ StillThere /\ HeldIsFree BY <1>2 DEF InPlan, StillThere, HeldIsFree, Took
<1>4. Together
  <2>1. \A c, d \in customers : c.document = d.document => c = d
    BY CustomersAssumption DEF Init
  <2>2. \A c \in customers : \E k \in contacts : k.customer = c
    <3> SUFFICES ASSUME NEW c \in Imported PROVE \E k \in contacts : k.customer = c BY DEF Init
    <3>1. [customer |-> c, email |-> c.by] \in contacts BY DEF Init
    <3> QED BY <3>1
  <2>3. \A k \in contacts : k.customer \in customers BY DEF Init
  <2>4. access = {} /\ accounts \ Team = {} BY DEF Init
  <2> QED BY <2>1, <2>2, <2>3, <2>4 DEF Together, OneContact
<1> QED BY <1>1, <1>3, <1>4 DEF IInv

LEMMA NextKeeps == IInv /\ [Next]_vars => IInv'
<1> SUFFICES ASSUME IInv, [Next]_vars PROVE IInv' OBVIOUS
<1>1. ASSUME NEW p \in Requests, NEW o \in Asked, Start(p, o) PROVE IInv' BY <1>1, StartKeeps
<1>2. ASSUME NEW p \in Requests, Look(p) PROVE IInv' BY <1>2, LookKeeps
<1>3. ASSUME NEW p \in Requests, Insert(p) PROVE IInv' BY <1>3, InsertKeeps
<1>4. ASSUME NEW p \in Requests, Commit(p) PROVE IInv' BY <1>4, CommitKeeps
<1>5. ASSUME NEW p \in Requests, Deadlock(p) \/ Fail(p) PROVE IInv'
  BY <1>5, RefuseKeeps DEF Deadlock, Fail
<1>6. CASE UNCHANGED vars
  <2>1. TypeOK' BY <1>6 DEF IInv, TypeOK, vars
  <2>2. InPlan' BY <1>6 DEF IInv, InPlan, Busy, vars
  <2>3. StillThere' BY <1>6 DEF IInv, StillThere, Busy, contactOf, customerOf, vars
  <2>4. HeldIsFree'
    <3> SUFFICES ASSUME NEW q \in Requests, NEW step \in Inserting, Took(q, step)'
                 PROVE  held'[keyAt(q, step)'] = q /\ ~taken(step, keyAt(q, step))'
      BY DEF HeldIsFree
    <3>1. Took(q, step) BY <1>6 DEF Took, Busy, vars
    <3> QED BY <1>6, <3>1, KeepsHolding DEF vars, records
  <2>5. Together' BY <1>6, SameRecords DEF IInv, records, vars
  <2> QED BY <2>1, <2>2, <2>3, <2>4, <2>5 DEF IInv
<1> QED BY <1>1, <1>2, <1>3, <1>4, <1>5, <1>6 DEF Next, Step

\* Whatever requests cross, fail or deadlock, the key a request inserted is in no
\* committed row until its transaction ends, and the tables agree with each other.
THEOREM HoldingIsSafe == Spec => []IInv
BY InitHolds, NextKeeps, PTL DEF Spec

\* Customer, contact and account are born together or not at all, and an account
\* of the portal has one contact (customers.service.ts create, auth.service.ts
\* register).
THEOREM TablesAgree == Spec => []BornTogether
<1>1. IInv => BornTogether
  <2> SUFFICES ASSUME IInv PROVE BornTogether OBVIOUS
  <2>1. ASSUME NEW e \in accounts \ Team PROVE Cardinality({ k \in access : k.email = e }) = 1
    <3>1. PICK k \in access : k.email = e /\ \A l \in access : l.email = e => l = k
      BY DEF IInv, Together, OneContact
    <3>2. { l \in access : l.email = e } = {k} BY <3>1
    <3> QED BY <3>2, FS_Singleton
  <2>2. /\ \A c, d \in customers : c.document = d.document => c = d
        /\ \A c \in customers : \E k \in contacts : k.customer = c
        /\ \A k \in contacts : k.customer \in customers
        /\ access \subseteq contacts /\ \A k \in access : k.email \in accounts
    BY DEF IInv, Together
  <2> QED BY <2>1, <2>2 DEF BornTogether
<1> QED BY <1>1, HoldingIsSafe, PTL

\* Who registers never gets the tickets of another: access to a document that has
\* a customer is only what the team gives to a contact (auth.service.ts:107).
THEOREM AccessComesFromTheTeam == Spec => AccessIsGiven
<1> DEFINE Given ==
      \A k \in access' \ access :
        (\E c \in customers : c.document = k.customer.document) =>
          /\ k \in contacts
          /\ \E p \in Requests : Busy(p) /\ op[p].kind = "acesso" /\ contactOf(op[p]) = k
<1>1. IInv /\ [Next]_vars => Given
  <2> SUFFICES ASSUME IInv, [Next]_vars PROVE Given OBVIOUS
  <2>1. CASE access' = access BY <2>1
  <2>2. ASSUME NEW p \in Requests, Commit(p) PROVE Given
    <3> SUFFICES ASSUME NEW k \in access' \ access,
                        NEW c \in customers, c.document = k.customer.document
                 PROVE  /\ k \in contacts
                        /\ \E q \in Requests : Busy(q) /\ op[q].kind = "acesso" /\ contactOf(op[q]) = k
      OBVIOUS
    <3>1. /\ op[p].kind # "contato" /\ op[p].kind \in Kinds /\ Done(p)
          /\ k = contactOf(op[p]) /\ k.customer = customerOf(op[p])
      BY <2>2, Rows
    <3>2. op[p].kind \notin {"cadastro", "criacao"} BY <3>1, WhatIsKnown DEF documentTaken
    <3>3. op[p].kind = "acesso" BY <3>1, <3>2 DEF Kinds
    <3>4. k \in contacts BY <3>1, <3>3, WhatIsKnown
    <3>5. Busy(p) BY <3>1 DEF Done
    <3> QED BY <3>1, <3>3, <3>4, <3>5
  <2>3. ASSUME NEW p \in Requests, Refuse(p) \/ Advance(p) \/ (\E o \in Asked : Start(p, o))
        PROVE  access' = access
    BY <2>3 DEF Refuse, Advance, Start, records
  <2>4. CASE UNCHANGED vars BY <2>1, <2>4 DEF vars
  <2>5. CASE Next
    <3>1. PICK p \in Requests : (\E o \in Asked : Start(p, o)) \/ Step(p) \/ Fail(p)
      BY <2>5 DEF Next
    <3>2. Commit(p) \/ Refuse(p) \/ Advance(p) \/ (\E o \in Asked : Start(p, o))
      BY <3>1 DEF Step, Look, Insert, Deadlock, Fail
    <3> QED BY <2>1, <2>2, <2>3, <3>2
  <2> QED BY <2>4, <2>5
<1> QED BY <1>1, HoldingIsSafe, PTL DEF Spec, AccessIsGiven

=============================================================================
