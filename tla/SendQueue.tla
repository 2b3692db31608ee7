----------------------------- MODULE SendQueue -----------------------------
(***************************************************************************)
(* The dispatch queue: rows of envios (welcome messages) and envios_grupo  *)
(* (group messages) shared by service processes (queue/queue.ts) through   *)
(* the claim functions of the database.                                    *)
(*                                                                         *)
(* A row is claimed under a claim_token, marked as being sent, handed to   *)
(* WhatsApp, and confirmed, failed or left uncertain.  The claims of one   *)
(* row are numbered, so a token is a number and the row is fenced by the   *)
(* newest one.  A claim lives on in its process: `main` is process() with  *)
(* its catch block, `exec` is execute(), which goes on running after the   *)
(* time limit of the item has fired, and `wire` is the message itself.     *)
(* Around them run the recovery of expired claims, the people who settle   *)
(* uncertain rows and pause or cancel batches, lost database answers,      *)
(* crashes, and the leases of the sessions, of which this module knows     *)
(* only LeaseContract.                                                     *)
(*                                                                         *)
(* Absorbed by nondeterminism (a claim may fail to happen): the account's  *)
(* and the number's status, queue_control and the polling interval.        *)
(***************************************************************************)
EXTENDS LeaseContract, FiniteSets

CONSTANTS
  Job,           \* rows of envios and envios_grupo
  Lote,          \* batches (envios_grupo_lotes)
  Account,
  SessionOf,     \* [Job -> Session]: the number that sends the row
  LoteOf,        \* [Job -> Lote \cup {Welcome}]: Welcome marks a row of envios
  Welcome,
  High,          \* group rows with priority 'high' (started by a user)
  Turn,          \* [Job -> Nat]: rank by scheduled_at, created_at
  AccountOf,     \* [Session -> Account]
  GroupCap,      \* rows of a batch a session works on at once (5)
  AccountLimit,  \* env.ACCOUNT_MAX_CONCURRENT_SENDS
  SystemMax,     \* env.SYSTEM_MAX_CONCURRENT_SENDS
  MaxAttempts,   \* env.MAX_SEND_ATTEMPTS
  Threshold,     \* env.CIRCUIT_BREAKER_FAILURE_THRESHOLD
  MaxClaims,     \* bound on the claims of one row
  Recovering,    \* workers whose periodic recovery is modelled; that of others idles
  Faults         \* the disturbances that may occur

Fault == {"database", "timeout", "crash", "lease", "person", "overdue"}

ASSUME QueueAssumption ==
  /\ SessionOf \in [Job -> Session]
  /\ Welcome \notin Lote
  /\ LoteOf \in [Job -> Lote \cup {Welcome}]
  /\ AccountOf \in [Session -> Account]
  /\ High \subseteq {j \in Job : LoteOf[j] # Welcome}
  /\ Turn \in [Job -> Nat]
  /\ \A c \in {GroupCap, AccountLimit, SystemMax, MaxAttempts, Threshold} : c \in Nat \ {0}
  /\ MaxClaims \in Nat
  /\ IsFiniteSet(Job)
  /\ Recovering \subseteq Worker
  /\ Faults \subseteq Fault

VARIABLES
  row,      \* row[j]: the row, see Row
  issued,   \* issued[j]: claims of j so far; the last one is token issued[j]
  att,      \* att[j][t]: what became of claim t of j, see Attempt
  reclaim,  \* reclaim[w]: the periodic recovery of w and its snapshot
  failures, \* failures[s]: consecutive_failures, counted up to Threshold
  blocked,  \* sessions whose circuit is open and not yet cooled down
  base,     \* observer: base[j] = issued[j] at the last manual resend of j
  settled,  \* observer: rows whose outcome a person has decided
  slips     \* observer: slips[j] = writes to j known to break its history

vars == <<lease, row, issued, att, reclaim, failures, blocked, base, settled, slips>>
breaker == <<failures, blocked>>
observers == <<base, settled, slips>>

Status == {"pendente", "enfileirado", "processando", "sucesso", "erro",
           "pausado", "cancelado", "incerto"}
Token == 1..MaxClaims
Group == {j \in Job : LoteOf[j] # Welcome}

\* token: claim_token, 0 for null (processing_worker_id and
\* processing_lease_version are those of the claim); due: scheduled_at and
\* next_attempt_at have passed; overdue: processing_deadline_at has passed, kept for rows
\* in flight; wa: the claim whose wa_message_id the row holds, 0 for null.
Row == [status : Status, token : 0..MaxClaims, due : BOOLEAN, overdue : BOOLEAN,
        attempts : 0..MaxAttempts, wa : 0..MaxClaims]

Main == {"none", "buffered", "running", "uncertain", "failed", "failing", "done"}
Exec == {"idle", "prepare", "sending", "accepted", "readback", "noid",
         "reconcile", "deferred", "over"}
Wire == {"none", "open", "delivered", "dropped"}
Attempt == [worker : Worker \cup {NoWorker}, version : Nat,
            main : Main, exec : Exec, wire : Wire]
Slip == {"reclaim", "noid", "write"}

NoAttempt == [worker |-> NoWorker, version |-> 0, main |-> "none",
              exec |-> "idle", wire |-> "none"]
Resting == [step |-> "idle", queued |-> {}, processing |-> {}]

TypeOK ==
  /\ LeaseTypeOK
  /\ row \in [Job -> Row]
  /\ issued \in [Job -> 0..MaxClaims]
  /\ att \in [Job -> [Token -> Attempt]]
  /\ reclaim \in [Recovering -> [step : {"idle", "queued", "processing"},
                             queued : SUBSET Job, processing : SUBSET Job]]
  /\ failures \in [Session -> 0..Threshold]
  /\ blocked \subseteq Session
  /\ base \in [Job -> 0..MaxClaims]
  /\ settled \subseteq Job
  /\ slips \in [Job -> SUBSET Slip]

Init ==
  /\ LeaseInit
  /\ \E D \in SUBSET Job :
       row = [j \in Job |-> [status |-> "pendente", token |-> 0, due |-> j \in D,
                             overdue |-> FALSE, attempts |-> 0, wa |-> 0]]
  /\ issued = [j \in Job |-> 0]
  /\ att = [j \in Job |-> [t \in Token |-> NoAttempt]]
  /\ reclaim = [w \in Recovering |-> Resting]
  /\ failures = [s \in Session |-> 0]
  /\ blocked = {}
  /\ base = [j \in Job |-> 0]
  /\ settled = {}
  /\ slips = [j \in Job |-> {}]

-----------------------------------------------------------------------------
(* Claiming (claim_whatsapp_jobs).                                         *)

InFlight(j) == row[j].status \in {"enfileirado", "processando"}
Due(s) == {j \in Job : SessionOf[j] = s /\ row[j].status = "pendente" /\ row[j].due}
Flying(s) == {j \in Job : SessionOf[j] = s /\ InFlight(j)}
AccountFlying(s) == {j \in Job : AccountOf[SessionOf[j]] = AccountOf[s] /\ InFlight(j)}

\* Attempts of w that fill its buffer or its activeSessions.
Busy(w) == {p \in Job \X Token : LET a == att[p[1]][p[2]]
                                 IN  a.worker = w /\ a.main \notin {"none", "done"}}
Active(w) == {p \in Busy(w) : att[p[1]][p[2]].main # "buffered"}

\* Mutant of Lane: a welcome in flight does not close the lane.
LaneIgnoresWelcome(w, s) ==
  /\ lease[s].owner = w /\ lease[s].live
  /\ s \notin blocked
  /\ Cardinality(Flying(s)) < GroupCap

\* The lane query: sessions w may take a row for.
Lane(w, s) ==
  /\ lease[s].owner = w /\ lease[s].live
  /\ s \notin blocked
  /\ Flying(s) \subseteq Group
  /\ Cardinality(Flying(s)) < GroupCap
  /\ Cardinality(AccountFlying(s)) < AccountLimit

\* A batch the session is in the middle of.
ActiveLotes(s) == {LoteOf[j] : j \in Flying(s) \cap Group}

\* Mutant of YieldsToManual: an active batch is always refilled.
NeverYields(s) == FALSE

\* An automatic batch is not refilled while a manual row is due.
YieldsToManual(s) ==
  /\ \E j \in Job \ High : LoteOf[j] \in ActiveLotes(s)
  /\ Due(s) \cap High # {}

Urgent == High \cup (Job \ Group)
\* First in the ORDER BY priority, scheduled_at, created_at, where the rows of
\* Top have priority.
First(S, Top) ==
  LET P == IF S \cap Top # {} THEN S \cap Top ELSE S
  IN  {j \in P : \A i \in P : Turn[j] <= Turn[i]}

\* Rows the session may send next: its active batch only or, without one, a
\* welcome or the batch of the first group row.
Eligible(s) ==
  IF ActiveLotes(s) # {}
  THEN {j \in Due(s) : LoteOf[j] \in ActiveLotes(s)}
  ELSE {j \in Due(s) : j \notin Group \/ \E i \in First(Due(s) \cap Group, High) :
                                            LoteOf[j] = LoteOf[i]}

Claimable(w) ==
  UNION {First(Eligible(s), Urgent) : s \in {s \in Session : Lane(w, s) /\ ~YieldsToManual(s)}}

\* One call claims at most one row for each lane, all lanes judged before the
\* first claim.  The rows land in the buffer of w, unless the answer is lost.
Claim(w) == \E J \in SUBSET Claimable(w), lost \in BOOLEAN :
  /\ J # {}
  /\ Cardinality(J) <= SystemMax - Cardinality(Busy(w))
  /\ \A i, j \in J : SessionOf[i] = SessionOf[j] => i = j
  /\ \A j \in J : issued[j] < MaxClaims
  /\ lost => "database" \in Faults
  /\ issued' = [j \in Job |-> IF j \in J THEN issued[j] + 1 ELSE issued[j]]
  /\ row' = [j \in Job |-> IF j \in J
               THEN [row[j] EXCEPT !.status = "enfileirado", !.overdue = FALSE,
                                   !.token = issued[j] + 1]
               ELSE row[j]]
  /\ att' = [j \in Job |-> IF j \in J
               THEN [att[j] EXCEPT ![issued[j] + 1] =
                       [NoAttempt EXCEPT !.worker = w,
                          !.version = lease[SessionOf[j]].version,
                          !.main = IF lost THEN "done" ELSE "buffered"]]
               ELSE att[j]]
  /\ UNCHANGED <<lease, reclaim, breaker, observers>>

-----------------------------------------------------------------------------
(* One attempt: process() and execute() of queue.ts.                       *)

\* Mutant of Fenced: the comparison of claim_token is gone.
FencedAlways(j, t) == TRUE

\* The row still carries the token of claim t.
Fenced(j, t) == row[j].token = t
Holds(j, t) == HoldsLease(att[j][t].worker, SessionOf[j], att[j][t].version)
Leaves(j, r) == row' = [row EXCEPT ![j] = r]
Becomes(j, st) == [row[j] EXCEPT !.status = st, !.token = 0, !.overdue = FALSE]

\* execute() is over: its outcome m reaches process() unless the time limit
\* of the item came first.
Ends(j, t, m) ==
  att' = [att EXCEPT ![j][t].exec = "over",
                     ![j][t].main = IF @ = "running" THEN m ELSE @]
Quit(j, t) == att' = [att EXCEPT ![j][t].main = "done"]
Goes(j, t, e) == att' = [att EXCEPT ![j][t].exec = e]
Runs(j, t, e) == att[j][t].exec = e

\* The database call may fail without effect.
MayFail == "database" \in Faults

\* dispatchBuffered: a session sends one welcome, or up to GroupCap rows of groups.
LocalLane(j, t) ==
  LET w == att[j][t].worker
      same == {p \in Active(w) : SessionOf[p[1]] = SessionOf[j]}
  IN  /\ Cardinality(Active(w)) < SystemMax
      /\ \A p \in same : p[1] \in Group <=> j \in Group
      /\ Cardinality(same) < (IF j \in Group THEN GroupCap ELSE 1)

\* Taken from the buffer and marked (mark_whatsapp_job_sending); a row that is
\* no longer ours, or an answer that does not come, ends the attempt.
MarkSending(j, t) ==
  /\ att[j][t].main = "buffered"
  /\ LocalLane(j, t)
  /\ LET mine == Fenced(j, t) /\ row[j].status = "enfileirado" /\ Holds(j, t)
     IN \/ /\ mine
           /\ Leaves(j, [row[j] EXCEPT !.status = "processando", !.overdue = FALSE])
           /\ \/ att' = [att EXCEPT ![j][t].main = "running", ![j][t].exec = "prepare"]
              \/ MayFail /\ Quit(j, t)
        \/ (~mine \/ MayFail) /\ Quit(j, t) /\ UNCHANGED row
  /\ UNCHANGED <<lease, issued, reclaim, breaker, observers>>

\* A write that names the row by id only: what it does to a row of another
\* claim is recorded as a slip.
WriteById(j, t, r) ==
  /\ Leaves(j, r)
  /\ slips' = [slips EXCEPT ![j] = IF Fenced(j, t) THEN @ ELSE @ \cup {"write"}]

\* The automation of a group row is off, or its Amazon link cannot be used.
CancelBeforeSend(j, t) ==
  /\ j \in Group
  /\ Runs(j, t, "prepare") /\ att[j][t].main = "running"
  /\ WriteById(j, t, Becomes(j, "cancelado"))
  /\ Ends(j, t, "done")
  /\ UNCHANGED <<lease, issued, reclaim, breaker, base, settled>>

\* resolveRecipientJid found no such phone; the row counts one more attempt.
PhoneNotFound(j, t) ==
  /\ j \notin Group
  /\ Runs(j, t, "prepare")
  /\ WriteById(j, t, [Becomes(j, "erro") EXCEPT !.attempts = IF @ < MaxAttempts THEN @ + 1 ELSE @])
  /\ Ends(j, t, "done")
  /\ UNCHANGED <<lease, issued, reclaim, breaker, base, settled>>

\* Inactive account, opt-out, no socket, media or preview failure; or one of
\* the checks before the try block threw and nothing catches it.
PrepareFails(j, t) ==
  /\ Runs(j, t, "prepare")
  /\ \/ Ends(j, t, "failed")
     \/ MayFail /\ Ends(j, t, "done")
  /\ UNCHANGED <<lease, row, issued, reclaim, breaker, observers>>

CallSendMessage(j, t) ==
  /\ Runs(j, t, "prepare")
  /\ att' = [att EXCEPT ![j][t].exec = "sending", ![j][t].wire = "open"]
  /\ UNCHANGED <<lease, row, issued, reclaim, breaker, observers>>

\* WhatsApp: a message handed over is delivered or lost, whatever became of
\* the process that sent it.
MessageTravels(j, t) ==
  /\ att[j][t].wire = "open"
  /\ \E x \in {"delivered", "dropped"} : att' = [att EXCEPT ![j][t].wire = x]
  /\ UNCHANGED <<lease, row, issued, reclaim, breaker, observers>>

\* sendMessage resolves, with or without the identifier of the message ...
SendAccepted(j, t) ==
  /\ Runs(j, t, "sending") /\ att[j][t].wire = "delivered"
  /\ Goes(j, t, "accepted") \/ Goes(j, t, "noid")
  /\ UNCHANGED <<lease, row, issued, reclaim, breaker, observers>>

\* ... or rejects: then the message was not delivered ...
SendRejected(j, t) ==
  /\ Runs(j, t, "sending") /\ att[j][t].wire = "dropped"
  /\ Ends(j, t, "failed")
  /\ UNCHANGED <<lease, row, issued, reclaim, breaker, observers>>

\* Mutant of SendTimesOut: a time limit is taken for a failure.
SendTimesOutFails(j, t) ==
  /\ "timeout" \in Faults
  /\ Runs(j, t, "sending")
  /\ Ends(j, t, "failed")
  /\ UNCHANGED <<lease, row, issued, reclaim, breaker, observers>>

\* ... or exceeds its own time limit, which tells nothing.
SendTimesOut(j, t) ==
  /\ "timeout" \in Faults
  /\ Runs(j, t, "sending")
  /\ Ends(j, t, "uncertain")
  /\ UNCHANGED <<lease, row, issued, reclaim, breaker, observers>>

\* The time limit of the item: process() gives up, execute() runs on.
ItemTimesOut(j, t) ==
  /\ "timeout" \in Faults
  /\ att[j][t].main = "running"
  /\ att' = [att EXCEPT ![j][t].main = "uncertain"]
  /\ UNCHANGED <<lease, row, issued, reclaim, breaker, observers>>

-----------------------------------------------------------------------------
(* After the message was accepted (persistSuccess, confirmSent).           *)

\* complete_whatsapp_job_sent: the token and the lease fence it, the status
\* does not.  A success closes the circuit.
Complete(j, t) ==
  LET s == SessionOf[j] IN
  /\ Runs(j, t, "accepted")
  /\ \/ /\ Fenced(j, t) /\ Holds(j, t)
        /\ Leaves(j, [Becomes(j, "sucesso") EXCEPT !.wa = t])
        /\ failures' = [failures EXCEPT ![s] = 0]
        /\ blocked' = blocked \ {s}
        /\ Ends(j, t, "done") \/ (MayFail /\ Goes(j, t, "readback"))
     \/ /\ ~(Fenced(j, t) /\ Holds(j, t)) \/ MayFail
        /\ Goes(j, t, "readback")
        /\ UNCHANGED <<row, breaker>>
  /\ UNCHANGED <<lease, issued, reclaim, observers>>

\* Was the confirmation saved after all?  If not, or if this read fails too,
\* the write is repeated or given up; the message is never sent again.
ReadBack(j, t) ==
  /\ Runs(j, t, "readback")
  /\ LET saved == row[j].status = "sucesso" /\ row[j].wa = t
     IN \/ saved /\ Ends(j, t, "done")
        \/ (~saved \/ MayFail) /\ Goes(j, t, "reconcile")
  /\ UNCHANGED <<lease, row, issued, reclaim, breaker, observers>>

RetryConfirmation(j, t) ==
  /\ MayFail
  /\ Runs(j, t, "readback")
  /\ Goes(j, t, "accepted")
  /\ UNCHANGED <<lease, row, issued, reclaim, breaker, observers>>

\* Mutant of Doubt: an unconfirmed message is filed as an error.
DoubtAsError(j, t) ==
  IF Fenced(j, t) THEN Leaves(j, Becomes(j, "erro")) ELSE UNCHANGED row

\* The update of markForReconciliation and flushReconciliation.
Doubt(j, t) ==
  IF Fenced(j, t) /\ row[j].status # "sucesso"
  THEN Leaves(j, [Becomes(j, "incerto") EXCEPT !.wa = t]) ELSE UNCHANGED row

\* A failed update goes to the map `reconciliation` of the process.
MarkForReconciliation(j, t) ==
  /\ Runs(j, t, "reconcile")
  /\ \/ Doubt(j, t) /\ Ends(j, t, "done")
     \/ /\ MayFail
        /\ Doubt(j, t) \/ UNCHANGED row
        /\ att' = [att EXCEPT ![j][t].exec = "deferred",
                              ![j][t].main = IF @ = "running" THEN "done" ELSE @]
  /\ UNCHANGED <<lease, issued, reclaim, breaker, observers>>

FlushReconciliation(j, t) ==
  /\ Runs(j, t, "deferred")
  /\ Doubt(j, t)
  /\ Goes(j, t, "over")
  /\ UNCHANGED <<lease, issued, reclaim, breaker, observers>>

\* Mutant of Uncertain: what may have been sent is filed as sent.
UncertainAsSent(j, t) ==
  IF Fenced(j, t) THEN Leaves(j, [Becomes(j, "sucesso") EXCEPT !.wa = t]) ELSE UNCHANGED row

\* The update of markUncertain.
Uncertain(j, t) ==
  IF Fenced(j, t) THEN Leaves(j, Becomes(j, "incerto")) ELSE UNCHANGED row

\* No identifier came back.  When this update fails the error reaches the
\* catch block of process() as if the message had not been sent.
MarkNoIdentifier(j, t) ==
  /\ Runs(j, t, "noid")
  /\ \/ Uncertain(j, t) /\ Ends(j, t, "done") /\ UNCHANGED slips
     \/ /\ MayFail
        /\ Uncertain(j, t) \/ UNCHANGED row
        /\ Ends(j, t, "failed")
        /\ slips' = [slips EXCEPT ![j] = @ \cup {"noid"}]
  /\ UNCHANGED <<lease, issued, reclaim, breaker, base, settled>>

-----------------------------------------------------------------------------
(* The catch block of process().                                           *)

MarkUncertain(j, t) ==
  /\ att[j][t].main = "uncertain"
  /\ Uncertain(j, t) \/ (MayFail /\ UNCHANGED row)
  /\ Quit(j, t)
  /\ UNCHANGED <<lease, issued, reclaim, breaker, observers>>

ValidateLease(j, t) ==
  /\ att[j][t].main = "failed"
  /\ \/ att' = [att EXCEPT ![j][t].main = IF Holds(j, t) THEN "failing" ELSE "uncertain"]
     \/ MayFail /\ Quit(j, t)
  /\ UNCHANGED <<lease, row, issued, reclaim, breaker, observers>>

\* record_whatsapp_session_failure, fenced by the lease.
RecordFailure(j, t) ==
  LET s == SessionOf[j] IN
  IF ~Holds(j, t) THEN UNCHANGED breaker
  ELSE IF failures[s] + 1 >= Threshold
  THEN failures' = [failures EXCEPT ![s] = Threshold] /\ blocked' = blocked \cup {s}
  ELSE failures' = [failures EXCEPT ![s] = @ + 1] /\ UNCHANGED blocked

\* Mutant of Failed: no last attempt.
FailedForever(j, disconnected) ==
  [Becomes(j, "pendente") EXCEPT !.attempts = @ + 1, !.due = FALSE]

\* The row as the failure leaves it: a disconnected number costs no attempt,
\* the last attempt ends in erro, others wait for their backoff.
Failed(j, disconnected) ==
  LET n == IF disconnected THEN row[j].attempts ELSE row[j].attempts + 1
  IN  IF n < MaxAttempts \/ disconnected
      THEN [Becomes(j, "pendente") EXCEPT !.attempts = n, !.due = FALSE]
      ELSE [Becomes(j, "erro") EXCEPT !.attempts = MaxAttempts]

MarkFailure(j, t) ==
  /\ att[j][t].main = "failing"
  /\ \/ /\ IF Fenced(j, t)
           THEN \E disconnected \in BOOLEAN : Leaves(j, Failed(j, disconnected))
           ELSE UNCHANGED row
        /\ RecordFailure(j, t) \/ (MayFail /\ UNCHANGED breaker)
     \/ MayFail /\ UNCHANGED <<row, breaker>>
  /\ Quit(j, t)
  /\ UNCHANGED <<lease, issued, reclaim, observers>>

-----------------------------------------------------------------------------
(* Recovery of expired claims.                                             *)

\* now() reaches processing_deadline_at.
DeadlinePasses(j) ==
  /\ "overdue" \in Faults
  /\ InFlight(j) /\ ~row[j].overdue
  /\ Leaves(j, [row[j] EXCEPT !.overdue = TRUE])
  /\ UNCHANGED <<lease, issued, att, reclaim, breaker, observers>>

\* now() reaches scheduled_at or next_attempt_at.
BecomesDue(j) ==
  /\ row[j].status = "pendente" /\ ~row[j].due
  /\ Leaves(j, [row[j] EXCEPT !.due = TRUE])
  /\ UNCHANGED <<lease, issued, att, reclaim, breaker, observers>>

CircuitCoolsDown(s) ==
  /\ s \in blocked
  /\ blocked' = blocked \ {s}
  /\ UNCHANGED <<lease, row, issued, att, reclaim, failures, observers>>

Expired(st) == {j \in Job : row[j].status = st /\ row[j].overdue}
Rows(J, st) == row' = [j \in Job |-> IF j \in J THEN Becomes(j, st) ELSE row[j]]
Table(k) == IF k = "envios" THEN Job \ Group ELSE Group

\* resetStaleItems of the polling loop: one statement for each table.
ResetStaleItems(k) ==
  /\ Expired("enfileirado") \cap Table(k) # {}
  /\ Rows(Expired("enfileirado") \cap Table(k), "pendente")
  /\ UNCHANGED <<lease, issued, att, reclaim, breaker, observers>>

\* Mutant of ReclaimSelect: only rows that wait in a buffer are recovered.
ReclaimSelectQueued(w, k) ==
  LET queued == Expired("enfileirado") \cap Table(k)
  IN /\ reclaim[w].step = "idle"
     /\ queued # {}
     /\ reclaim' = [reclaim EXCEPT ![w].step = "queued", ![w].queued = queued]
     /\ UNCHANGED <<lease, row, issued, att, breaker, observers>>

\* recoverTable reads the rows in flight first ...
ReclaimSelect(w, k) ==
  LET queued == Expired("enfileirado") \cap Table(k)
      processing == Expired("processando") \cap Table(k)
  IN /\ reclaim[w].step = "idle"
     /\ queued \cup processing # {}
     /\ reclaim' = [reclaim EXCEPT ![w] =
          [step |-> "queued", queued |-> queued, processing |-> processing]]
     /\ UNCHANGED <<lease, row, issued, att, breaker, observers>>

\* ... and updates them by id, in whatever state they are by then.
Overwritten(J, st) ==
  slips' = [j \in Job |-> IF j \in J /\ row[j].status # st
                          THEN slips[j] \cup {"reclaim"} ELSE slips[j]]

ReclaimQueued(w) ==
  /\ reclaim[w].step = "queued"
  /\ Rows(reclaim[w].queued, "pendente")
  /\ Overwritten(reclaim[w].queued, "enfileirado")
  /\ reclaim' = [reclaim EXCEPT ![w].step = "processing", ![w].queued = {}]
  /\ UNCHANGED <<lease, issued, att, breaker, base, settled>>

\* Mutant of ReclaimProcessing: an interrupted send is started over.
ReclaimProcessingResends(w) ==
  /\ reclaim[w].step = "processing"
  /\ Rows(reclaim[w].processing, "pendente")
  /\ Overwritten(reclaim[w].processing, "processando")
  /\ reclaim' = [reclaim EXCEPT ![w] = Resting]
  /\ UNCHANGED <<lease, issued, att, breaker, base, settled>>

ReclaimProcessing(w) ==
  /\ reclaim[w].step = "processing"
  /\ Rows(reclaim[w].processing, "incerto")
  /\ Overwritten(reclaim[w].processing, "processando")
  /\ reclaim' = [reclaim EXCEPT ![w] = Resting]
  /\ UNCHANGED <<lease, issued, att, breaker, base, settled>>

ReclaimFails(w) ==
  /\ MayFail
  /\ reclaim[w].step # "idle"
  /\ reclaim' = [reclaim EXCEPT ![w] = Resting]
  /\ UNCHANGED <<lease, row, issued, att, breaker, observers>>

-----------------------------------------------------------------------------
(* People, crashes and leases.                                             *)

\* /incertos: an uncertain row is sent again, ...
RetryUncertain(j) ==
  /\ row[j].status = "incerto"
  /\ Leaves(j, Becomes(j, "pendente"))
  /\ base' = [base EXCEPT ![j] = issued[j]]
  /\ UNCHANGED <<lease, issued, att, reclaim, breaker, settled, slips>>

\* ... or declared sent or failed.
SettleUncertain(j) ==
  /\ row[j].status = "incerto"
  /\ \E st \in {"sucesso", "erro"} : Leaves(j, [row[j] EXCEPT !.status = st])
  /\ settled' = settled \cup {j}
  /\ UNCHANGED <<lease, issued, att, reclaim, breaker, base, slips>>

\* transition_lote_atomic; which batch states allow it is left open.  A resumed
\* row has lost its backoff, not its schedule: it may or may not be due now.
Transition(l, from, to) ==
  LET J == {j \in Job : LoteOf[j] = l /\ row[j].status \in from}
  IN  /\ J # {}
      /\ \E now \in BOOLEAN :
           row' = [j \in Job |-> IF j \in J
                     THEN [Becomes(j, to) EXCEPT !.due = @ \/ (now /\ to = "pendente")]
                     ELSE row[j]]
      /\ UNCHANGED <<lease, issued, att, reclaim, breaker, observers>>

PauseLote(l) == Transition(l, {"pendente", "enfileirado"}, "pausado")
ResumeLote(l) == Transition(l, {"pausado"}, "pendente")
CancelLote(l) == Transition(l, {"pendente", "enfileirado", "pausado"}, "cancelado")

\* cancel_whatsapp_sender_pending_work: the number is being deleted.
CancelSenderWork(s) ==
  LET J == {j \in Job : SessionOf[j] = s /\
              row[j].status \in {"pendente", "enfileirado", "processando", "pausado", "incerto"}}
  IN  /\ J # {}
      /\ Rows(J, "erro")
      /\ settled' = settled \cup J
      /\ UNCHANGED <<lease, issued, att, reclaim, breaker, base, slips>>

\* The process of w dies and starts again with an empty memory.
Crash(w) ==
  /\ "crash" \in Faults
  /\ att' = [j \in Job |-> [t \in Token |->
               IF att[j][t].worker = w
               THEN [att[j][t] EXCEPT !.main = "done", !.exec = "over"] ELSE att[j][t]]]
  /\ reclaim' = [v \in Recovering |-> IF v = w THEN Resting ELSE reclaim[v]]
  /\ UNCHANGED <<lease, row, issued, breaker, observers>>

\* Workers take, renew and lose leases as LeaseContract allows.
LeaseMoves(s) ==
  /\ \/ \E w \in Worker : ~HoldsLease(w, s, lease[s].version) /\ CanTake(w, s)
                          /\ lease' = [lease EXCEPT ![s] = Taken(w, s)]
     \/ /\ "lease" \in Faults
        /\ lease[s].live /\ lease[s].version < MaxVersion
        /\ lease' = [lease EXCEPT ![s].live = FALSE]
     \/ /\ lease[s].owner # NoWorker /\ ~lease[s].live
        /\ lease' = [lease EXCEPT ![s].live = TRUE]
  /\ UNCHANGED <<row, issued, att, reclaim, breaker, observers>>

AttemptStep(j, t) ==
  \/ MarkSending(j, t) \/ CancelBeforeSend(j, t) \/ PhoneNotFound(j, t)
  \/ PrepareFails(j, t) \/ CallSendMessage(j, t) \/ MessageTravels(j, t)
  \/ SendAccepted(j, t) \/ SendRejected(j, t) \/ SendTimesOut(j, t)
  \/ ItemTimesOut(j, t) \/ Complete(j, t) \/ ReadBack(j, t)
  \/ RetryConfirmation(j, t) \/ MarkForReconciliation(j, t)
  \/ FlushReconciliation(j, t) \/ MarkNoIdentifier(j, t) \/ MarkUncertain(j, t)
  \/ ValidateLease(j, t) \/ MarkFailure(j, t)

WorkerStep(w) ==
  \/ Claim(w) \/ Crash(w)

RecoveryStep(w) ==
  \/ \E k \in {"envios", "envios_grupo"} : ReclaimSelect(w, k)
  \/ ReclaimQueued(w) \/ ReclaimProcessing(w) \/ ReclaimFails(w)

PersonStep ==
  /\ "person" \in Faults
  /\ \/ \E j \in Job : RetryUncertain(j) \/ SettleUncertain(j)
     \/ \E l \in Lote : PauseLote(l) \/ ResumeLote(l) \/ CancelLote(l)
     \/ \E s \in Session : CancelSenderWork(s)

Next ==
  \/ \E j \in Job, t \in Token : AttemptStep(j, t)
  \/ \E w \in Worker : WorkerStep(w)
  \/ \E w \in Recovering : RecoveryStep(w)
  \/ \E k \in {"envios", "envios_grupo"} : ResetStaleItems(k)
  \/ \E j \in Job : DeadlinePasses(j) \/ BecomesDue(j)
  \/ \E s \in Session : CircuitCoolsDown(s) \/ LeaseMoves(s)
  \/ PersonStep

Spec == Init /\ [][Next]_vars

-----------------------------------------------------------------------------
(* Properties.                                                             *)

\* Claims of j after the last manual resend whose message reached WhatsApp.
DeliveredSince(j) == {t \in Token : t > base[j] /\ att[j][t].wire = "delivered"}

\* At most once.  Between two decisions of a person to send a row again, at
\* most one of its claims puts a message on the wire, whatever leases,
\* deadlines, crashes and lost answers did, unless one of the recorded slips
\* happened to the row.
AtMostOnce ==
  \A j \in Job : slips[j] = {} =>
    Cardinality({t \in Token : t > base[j] /\ att[j][t].wire \in {"open", "delivered"}}) <= 1

\* A delivered message is not forgotten: its row says it is being sent, was
\* sent or is in doubt, never that it is still to be sent or failed.
NotForgotten ==
  \A j \in Job :
    DeliveredSince(j) # {} /\ slips[j] = {} /\ j \notin settled
      => row[j].status \in {"processando", "sucesso", "incerto"}

\* A success is true: a row that says sucesso was delivered by the very claim
\* whose identifier it holds, or a person vouched for it.
TruthfulSuccess ==
  \A j \in Job : row[j].status = "sucesso" /\ j \notin settled =>
    row[j].wa # 0 /\ att[j][row[j].wa].wire = "delivered"

\* One lane for each number, over all workers: a number has at most one
\* welcome in flight, or rows of one batch, GroupCap at most.
LaneExclusive ==
  \A s \in Session :
    \/ Cardinality(Flying(s)) <= 1
    \/ /\ Flying(s) \subseteq Group
       /\ Cardinality(Flying(s)) <= GroupCap
       /\ Cardinality(ActiveLotes(s)) = 1

\* A user does not wait for the automation: while a manual row of a number is
\* due, no claim takes an automatic row of that number.
ManualFirst ==
  [][\A j \in Group \ High :
       issued'[j] # issued[j] => Due(SessionOf[j]) \cap High = {}]_vars

\* What the README promises of priorities: a welcome that is due goes before
\* the group rows of its number.
WelcomeFirst ==
  [][\A j \in Group : issued'[j] # issued[j] => Due(SessionOf[j]) \subseteq Group]_vars

\* What the README promises of a row in doubt: it is never sent again by the
\* system alone.
NeverResentAlone ==
  [][\A j \in Job : row[j].status = "incerto" =>
       row'[j].status \notin {"pendente", "enfileirado", "processando"} \/ base'[j] = issued[j]]_vars

\* env.ACCOUNT_MAX_CONCURRENT_SENDS bounds what an account has in flight.
AccountBackpressure ==
  \A a \in Account :
    Cardinality({j \in Job : AccountOf[SessionOf[j]] = a /\ InFlight(j)}) <= AccountLimit

\* The queue implements DeliveryPromise: rows not yet claimed for good wait,
\* and a message may be out from the call of sendMessage on.
FateOf(st) ==
  CASE st \in {"pendente", "enfileirado", "pausado"} -> "waiting"
    [] st = "processando" -> "sending"
    [] st = "sucesso" -> "sent"
    [] st = "incerto" -> "doubtful"
    [] st \in {"erro", "cancelado"} -> "closed"

DP == INSTANCE DeliveryPromise WITH
  fate   <- [j \in Job |-> FateOf(row[j].status)],
  wired  <- [j \in Job |-> \E t \in Token : t > base[j] /\ att[j][t].wire \in {"open", "delivered"}],
  asks   <- base,
  broken <- [j \in Job |-> slips[j] # {}]

KeepsPromise == DP!Promise

\* The recovery of one process that keeps running: its timers fire, deadlines
\* pass, and not every one of its updates fails.
Fairness ==
  /\ \A j \in Job : WF_vars(DeadlinePasses(j))
  /\ \A w \in Recovering : /\ WF_vars(\E k \in {"envios", "envios_grupo"} : ReclaimSelect(w, k))
                           /\ SF_vars(ReclaimQueued(w))
                           /\ SF_vars(ReclaimProcessing(w))

FairSpec == Spec /\ Fairness

\* No row stays in flight: whatever became of the process that claimed it, a
\* claimed row is eventually given back, confirmed, failed or put in doubt.
NothingStuckInFlight == \A j \in Job : InFlight(j) ~> ~InFlight(j)

=============================================================================
