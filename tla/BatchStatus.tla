---------------------------- MODULE BatchStatus ----------------------------
(***************************************************************************)
(* One group batch (envios_grupo_lotes): its status is derived from its    *)
(* rows by recalc_lote_counts, which whoever changes a row calls           *)
(* afterwards, in a transaction of its own; the function first counts and  *)
(* then writes.  People pause, resume and cancel by that status.           *)
(* A transition locks the batch, counts and writes in one transaction, and *)
(* is one step.  Rows follow SendQueue, of which only the status counts.   *)
(***************************************************************************)
EXTENDS Naturals

CONSTANTS
  Row,
  Teller,   \* workers' items and requests, each of which changes the batch
  MaxMishaps \* bound on database errors and deaths

\* A batch is created with at least one row (createLoteSchema).
BatchAssumption == Row # {} /\ MaxMishaps \in Nat

VARIABLES
  batch,  \* envios_grupo_lotes.status, "none" before its row and "deleted" after
  items,   \* items[j]: envios_grupo.status, "none" if not inserted
  teller, \* teller[t]: what t has still to do, and the status it computed
  raced,  \* observer: two writers of the status overlapped
  unpaid, \* observer: a row was changed and the status not recomputed
  mishaps

vars == <<batch, items, teller, raced, unpaid, mishaps>>

Waiting == {"pendente", "enfileirado", "pausado"}
Active == Waiting \cup {"processando", "incerto"}
Final == {"sucesso", "erro", "cancelado"}

TypeOK ==
  /\ batch \in Active \cup Final \cup {"none", "deleted"}
  /\ items \in [Row -> Active \cup Final \cup {"none"}]
  /\ teller \in [Teller -> [at : {"idle", "insert", "owed", "read", "rows", "batch", "batches"},
                            sum : Active \cup Final \cup {"keep"}]]
  /\ raced \in BOOLEAN /\ unpaid \in BOOLEAN /\ mishaps \in 0..MaxMishaps

Idle == [at |-> "idle", sum |-> "keep"]
Init ==
  /\ batch = "none" /\ items = [j \in Row |-> "none"]
  /\ teller = [t \in Teller |-> Idle]
  /\ raced = FALSE /\ unpaid = FALSE /\ mishaps = 0

At(t, s) == teller[t].at = s
Goto(t, s) == teller' = [teller EXCEPT ![t] = [Idle EXCEPT !.at = s]]
Others(t, S) == \E u \in Teller \ {t} : teller[u].at \in S
Exists == batch \in Active \cup Final
Mishap == mishaps < MaxMishaps /\ mishaps' = mishaps + 1
\* A row changes while someone is about to write a status that does not count it.
Touch(t) == raced' = (raced \/ Others(t, {"batch", "batches"}))

-----------------------------------------------------------------------------
\* The status recalc_lote_counts derives from the rows r.
Has(r, s) == \E j \in Row : r[j] = s
AllIn(r, S) == \A j \in Row : r[j] \in S

\* Mutant of Sum: cancelled and paused rows are not known.
SumWithoutCancelled(r) ==
  CASE Has(r, "incerto") -> "incerto"
    [] ~Has(r, "incerto") /\ (Has(r, "processando") \/ Has(r, "enfileirado")) -> "processando"
    [] AllIn(r, {"pendente", "pausado"} \cup Final) /\ Has(r, "pendente") -> "pendente"
    [] AllIn(r, {"erro"}) -> "erro"
    [] AllIn(r, {"sucesso", "erro"}) /\ Has(r, "sucesso") -> "sucesso"
    [] OTHER -> "keep"

Sum(r) ==
  CASE Has(r, "incerto") -> "incerto"
    [] ~Has(r, "incerto") /\ (Has(r, "processando") \/ Has(r, "enfileirado")) -> "processando"
    [] AllIn(r, {"pendente", "pausado"} \cup Final) /\ Has(r, "pendente") -> "pendente"
    [] AllIn(r, {"pausado"} \cup Final) /\ Has(r, "pausado") -> "pausado"
    [] AllIn(r, {"cancelado"}) -> "cancelado"
    [] AllIn(r, {"erro", "cancelado"}) /\ Has(r, "erro") -> "erro"
    [] AllIn(r, Final) /\ Has(r, "sucesso") -> "sucesso"
    [] OTHER -> "keep"

Now(r) == IF Sum(r) = "keep" THEN batch ELSE Sum(r)

\* Its first statement.
Count(t) ==
  /\ At(t, "owed")
  /\ teller' = [teller EXCEPT ![t] = [at |-> "read", sum |-> Sum(items)]]
  /\ raced' = (raced \/ Others(t, {"read", "batch", "batches"}))
  /\ UNCHANGED <<batch, items, unpaid, mishaps>>

\* Its second.
Write(t) ==
  /\ At(t, "read")
  /\ batch' = IF teller[t].sum = "keep" \/ ~Exists THEN batch ELSE teller[t].sum
  /\ Goto(t, "idle")
  /\ UNCHANGED <<items, raced, unpaid, mishaps>>

\* The call fails, or its caller dies first.
Unpaid(t) ==
  /\ teller[t].at \in {"owed", "rows", "batch", "batches"} /\ Mishap
  /\ unpaid' = TRUE /\ Goto(t, "idle")
  /\ UNCHANGED <<batch, items, raced>>

-----------------------------------------------------------------------------
\* The requests that create a batch: first the batch, then all its rows.
Create(t) ==
  /\ batch = "none" /\ At(t, "idle")
  /\ batch' = "pendente" /\ Goto(t, "insert")
  /\ UNCHANGED <<items, raced, unpaid, mishaps>>

Insert(t) ==
  /\ At(t, "insert")
  /\ \/ items' = [j \in Row |-> "pendente"] /\ Touch(t) /\ UNCHANGED <<batch, mishaps>>
     \/ batch' = "deleted" /\ Mishap /\ UNCHANGED <<items, raced>>
  /\ Goto(t, "idle") /\ UNCHANGED unpaid

\* claim_whatsapp_jobs, which tells the batch itself.
Claim(j) ==
  /\ items[j] = "pendente"
  /\ items' = [items EXCEPT ![j] = "enfileirado"]
  /\ batch' = IF batch = "pendente" THEN "processando" ELSE batch
  /\ UNCHANGED <<teller, raced, unpaid, mishaps>>

\* mark_whatsapp_job_sending; resetStaleItems.  Neither tells the batch.
Move(j) ==
  /\ items[j] = "enfileirado"
  /\ \E s \in {"processando", "pendente"} : items' = [items EXCEPT ![j] = s]
  /\ UNCHANGED <<batch, teller, raced, unpaid, mishaps>>

\* Who changes row j to s: the worker, recovery, which writes by identifier
\* whatever the row has become since it looked, and a person who settles a doubt.
Ends == {<<"processando", s>> : s \in Final \cup {"pendente", "incerto"}}
Recovers == (Active \cup Final) \X {"pendente", "incerto"}
Settles == {<<"incerto", s>> : s \in {"sucesso", "erro", "pendente"}}

Settle(t, j, s) ==
  /\ At(t, "idle") /\ <<items[j], s>> \in Ends \cup Recovers \cup Settles
  /\ items' = [items EXCEPT ![j] = s] /\ Goto(t, "owed")
  /\ Touch(t) /\ UNCHANGED <<batch, unpaid, mishaps>>

-----------------------------------------------------------------------------
\* transition_lote_atomic, in which the rows become r.
Becomes(Of, s) == [j \in Row |-> IF items[j] \in Of THEN s ELSE items[j]]
Transition(t, r) ==
  /\ At(t, "idle") /\ items' = r /\ batch' = Now(r)
  /\ raced' = (raced \/ Others(t, {"read", "batch", "batches"}))
  /\ UNCHANGED <<teller, unpaid, mishaps>>

Pause(t) ==
  /\ batch \in {"pendente", "processando"}
  /\ Transition(t, Becomes({"pendente", "enfileirado"}, "pausado"))

Resume(t) ==
  /\ batch = "pausado" /\ Has(items, "pausado")
  /\ Transition(t, Becomes({"pausado"}, "pendente"))

NothingWaits == AllIn(items, (Active \cup Final \cup {"none"}) \ Waiting)
Cancel(t) ==
  /\ batch \in Active
  /\ NothingWaits => batch = "processando"
  /\ Transition(t, Becomes(Waiting, "cancelado"))

\* cancel-many, where transition_lote_atomic finds nothing to cancel: it cancels
\* the rows and then the batch, whose rows may be about to be inserted.
CancelMany(t) ==
  /\ At(t, "idle") /\ batch \in Active \ {"processando"} /\ NothingWaits
  /\ Goto(t, "rows") /\ UNCHANGED <<batch, items, raced, unpaid, mishaps>>

Sweep(t, next) ==
  /\ Goto(t, next)
  /\ raced' = (raced \/ Others(t, {"insert", "batch", "batches"}))
  /\ UNCHANGED <<batch, unpaid, mishaps>>

CancelRows(t) ==
  At(t, "rows") /\ items' = Becomes(Waiting \cup {"incerto"}, "cancelado") /\ Sweep(t, "batch")

\* cancel_whatsapp_sender_pending_work: the number of the batch is deleted.
DeleteNumber(t) ==
  At(t, "idle") /\ Exists /\ items' = Becomes(Active, "erro") /\ Sweep(t, "batches")

\* The update of the batch that follows; cancel_whatsapp_sender_pending_batches.
CancelBatch(t) ==
  /\ \/ At(t, "batch") /\ batch' = IF Exists THEN "cancelado" ELSE batch
     \/ At(t, "batches") /\ batch' = IF batch \in Active THEN "cancelado" ELSE batch
  /\ Goto(t, "idle")
  /\ raced' = (raced \/ Others(t, {"read"}))
  /\ UNCHANGED <<items, unpaid, mishaps>>

\* reset_pilot_on_toggle; discard_pilot_source_backlog, which leaves rows in
\* progress alone.  Nobody recomputes the batch of a pilot's offer.
SwitchPilot ==
  /\ Exists /\ unpaid' = TRUE
  /\ \E r \in {"incerto", "processando"} :
       items' = [j \in Row |-> IF items[j] = "processando" THEN r
                               ELSE Becomes(Waiting, "cancelado")[j]]
  /\ UNCHANGED <<batch, teller, raced, mishaps>>

Next ==
  \/ SwitchPilot
  \/ \E j \in Row : Claim(j) \/ Move(j)
  \/ \E t \in Teller :
       \/ Create(t) \/ Insert(t) \/ Count(t) \/ Write(t) \/ Unpaid(t)
       \/ \E j \in Row, s \in Active \cup Final : Settle(t, j, s)
       \/ Pause(t) \/ Resume(t) \/ Cancel(t) \/ CancelMany(t) \/ CancelRows(t)
       \/ DeleteNumber(t) \/ CancelBatch(t)

Spec == Init /\ [][Next]_vars

-----------------------------------------------------------------------------
Told == ~raced /\ ~unpaid /\ \A t \in Teller : At(t, "idle")

\* The batch agrees with its rows (recalc_lote_counts and its callers): one whose
\* rows are over is over, and does not stay in the list of active batches and keep
\* its media for ever; one that is over, which transition_lote_atomic refuses to
\* pause or cancel, has nothing left to send.
AgreesWithItsRows ==
  Told => /\ AllIn(items, Final) => batch \in Final
          /\ batch \in Final => NothingWaits
=============================================================================
