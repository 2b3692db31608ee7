------------------------- MODULE OfficialBroadcast -------------------------
(***************************************************************************)
(* One broadcast of the official WhatsApp API                              *)
(* (web/modules/official-whatsapp/server): its recipients are claimed in   *)
(* batches by serverless functions that start one another over HTTP, each  *)
(* recipient is handed to Meta and logged, and Meta reports what became of *)
(* the message by webhooks that come in any order and more than once.      *)
(* People pause, resume, cancel and edit; a cron wakes what stalled.       *)
(*                                                                         *)
(* A worker token is the name of the function that drew it: a function     *)
(* that ended is named again only when no row in progress carries it.      *)
(* maxDuration (300 s) ends a function before its lease (600 s) does.      *)
(***************************************************************************)
EXTENDS Naturals, FiniteSets

CONSTANTS
  Recipient,
  Worker,    \* functions that run process-batch
  NoToken,
  Hook,      \* functions that apply a status webhook
  Limit,     \* dispatch_concurrency
  MaxRev,    \* bound on the revisions of the flow
  Reported,  \* recipients whose webhooks are modelled
  Reports,   \* the statuses Meta reports
  MaxFaults, \* bound on the disturbances
  Faults     \* the disturbances that may occur

Fault == {"crash", "database", "lost", "call", "person"}

ASSUME BroadcastAssumption ==
  /\ IsFiniteSet(Recipient)
  /\ NoToken \notin Worker
  /\ Limit \in Nat \ {0} /\ MaxRev \in Nat \ {0} /\ MaxFaults \in Nat
  /\ Reported \subseteq Recipient
  /\ Reports \subseteq {"sent", "delivered", "read", "failed"}
  /\ Faults \subseteq Fault

VARIABLES
  bc,     \* the row of official_broadcasts
  rcp,    \* rcp[r]: its row of official_broadcast_recipients
  msg,    \* msg[r]: status of the row of official_messages, "none" if missing
  flow,   \* revision and active flag of the flow
  conn,   \* the connection may send (resolveOfficialConnection forSending)
  call,   \* a request to process-batch is on its way
  work,   \* work[w]: processBroadcastBatch in w
  job,    \* job[w][r]: the recipient in w's Promise.all
  hook,   \* hook[h]: the status being applied
  meta,   \* meta[r]: what Meta accepted for r
  spent,  \* disturbances so far
  lag     \* observer: recipients whose own status write was lost

vars == <<bc, rcp, msg, flow, conn, call, work, job, hook, meta, spent, lag>>

Message == {"queued", "accepted", "sent", "delivered", "read"}
Rank == [s \in Message |-> CASE s = "queued" -> 0 [] s = "accepted" -> 1
           [] s = "sent" -> 2 [] s = "delivered" -> 3 [] s = "read" -> 4]
RowStatus == Message \cup {"processing", "failed"}
Pending == {"scheduled", "processing", "paused"}

NoJob == [at |-> "none", rev |-> 0, seen |-> "accepted"]
Idle == [at |-> "idle", limited |-> FALSE, thrown |-> FALSE]
Listening == [at |-> "idle", to |-> CHOOSE r \in Reported : TRUE, says |-> "read",
              tries |-> 0]

BroadcastRow == [status : {"none", "creating", "completed", "cancelled"} \cup Pending,
                 lease : Worker \cup {NoToken}, live : BOOLEAN, stale : BOOLEAN]
RecipientRow == [status : RowStatus, token : Worker \cup {NoToken}, live : BOOLEAN,
                 wamid : BOOLEAN, why : {"", "uncertain", "refused", "meta"}]
BatchState == [at : {"idle", "checked", "working", "finishing"},
               limited : BOOLEAN, thrown : BOOLEAN]
JobState ==
  [at : {"none", "start", "armed", "taken", "ran", "marked", "copy", "over"},
   rev : 0..MaxRev, seen : Message \cup {"failed"}]
HookState == [at : {"idle", "find", "write", "recipient"},
              to : Reported \cup {Listening.to},
              says : Reports \cup {"read"}, tries : 0..2]

TypeOK ==
  /\ bc \in BroadcastRow
  /\ rcp \in [Recipient -> RecipientRow]
  /\ msg \in [Recipient -> {"none", "failed"} \cup Message]
  /\ flow \in [rev : 1..MaxRev, active : BOOLEAN]
  /\ conn \in BOOLEAN /\ call \in BOOLEAN
  /\ work \in [Worker -> BatchState]
  /\ job \in [Worker -> [Recipient -> JobState]]
  /\ hook \in [Hook -> HookState]
  /\ meta \in [Recipient -> [n : Nat, revs : SUBSET (1..MaxRev)]]
  /\ spent \in 0..MaxFaults /\ lag \subseteq Recipient

Init ==
  /\ bc = [status |-> "none", lease |-> NoToken, live |-> FALSE, stale |-> FALSE]
  /\ rcp = [r \in Recipient |-> [status |-> "queued", token |-> NoToken, live |-> FALSE,
                                 wamid |-> FALSE, why |-> ""]]
  /\ msg = [r \in Recipient |-> "none"]
  /\ flow = [rev |-> 1, active |-> TRUE]
  /\ conn = TRUE /\ call = FALSE
  /\ work = [w \in Worker |-> Idle]
  /\ job = [w \in Worker |-> [r \in Recipient |-> NoJob]]
  /\ hook = [h \in Hook |-> Listening]
  /\ meta = [r \in Recipient |-> [n |-> 0, revs |-> {}]]
  /\ spent = 0 /\ lag = {}

Disturb(f) == f \in Faults /\ spent < MaxFaults /\ spent' = spent + 1

-----------------------------------------------------------------------------
(* People and the cron.                                                    *)

\* createBroadcastAndStart checks connection and flow before it inserts.
CreateBegin ==
  /\ bc.status = "none" /\ conn /\ flow.active
  /\ bc' = [bc EXCEPT !.status = "creating"]
  /\ UNCHANGED <<rcp, msg, flow, conn, call, work, job, hook, meta, spent, lag>>

CreateEnd ==
  /\ bc.status = "creating"
  /\ \E s \in {"scheduled", "processing"} :
       bc' = [bc EXCEPT !.status = s] /\ call' = (s = "processing")
  /\ UNCHANGED <<rcp, msg, flow, conn, work, job, hook, meta, spent, lag>>

\* Mutant of FlowFree: a paused broadcast does not protect its flow.
FlowFreeWhenPaused == bc.status \notin {"scheduled", "processing"}
\* protect_pending_official_broadcast_flow
FlowFree == bc.status \notin Pending

EditFlow ==
  /\ FlowFree
  /\ \/ flow.rev < MaxRev /\ flow' = [flow EXCEPT !.rev = @ + 1] /\ UNCHANGED spent
     \/ ~flow.active /\ flow' = [flow EXCEPT !.active = TRUE] /\ UNCHANGED spent
     \/ flow.active /\ flow' = [flow EXCEPT !.active = FALSE] /\ Disturb("person")
  /\ UNCHANGED <<bc, rcp, msg, conn, call, work, job, hook, meta, lag>>

\* A failed test, a new webhook token or a disabled account stops the sending;
\* a test or a verified webhook allows it again.
ChangeConnection ==
  /\ conn' = ~conn
  /\ IF conn THEN Disturb("person") ELSE UNCHANGED spent
  /\ UNCHANGED <<bc, rcp, msg, flow, call, work, job, hook, meta, lag>>

Pause ==
  /\ bc.status = "processing" /\ bc' = [bc EXCEPT !.status = "paused"]
  /\ Disturb("person")
  /\ UNCHANGED <<rcp, msg, flow, conn, call, work, job, hook, meta, lag>>

Resume ==
  /\ bc.status = "paused" /\ conn
  /\ bc' = [bc EXCEPT !.status = "processing", !.stale = FALSE] /\ call' = TRUE
  /\ UNCHANGED <<rcp, msg, flow, conn, work, job, hook, meta, spent, lag>>

Cancel ==
  /\ bc.status = "scheduled" /\ bc' = [bc EXCEPT !.status = "cancelled"]
  /\ UNCHANGED <<rcp, msg, flow, conn, call, work, job, hook, meta, spent, lag>>

\* The poll of the progress page (nudgeBroadcastIfStalled).
Nudge ==
  /\ bc.status = "processing" /\ bc.stale
  /\ bc' = [bc EXCEPT !.stale = FALSE] /\ call' = TRUE
  /\ UNCHANGED <<rcp, msg, flow, conn, work, job, hook, meta, spent, lag>>

LeaseOpen == bc.lease = NoToken \/ ~bc.live
\* Mutant of Stalled: only a broadcast whose lease was given back is woken.
StalledReleased == bc.status = "processing" /\ bc.lease = NoToken /\ bc.stale
Stalled == bc.status = "processing" /\ LeaseOpen /\ bc.stale

\* claim_due_official_broadcasts; scheduled_at passes at any moment.
RunScheduled ==
  /\ bc.status = "scheduled" \/ Stalled
  /\ bc' = [bc EXCEPT !.status = "processing", !.stale = FALSE] /\ call' = TRUE
  /\ UNCHANGED <<rcp, msg, flow, conn, work, job, hook, meta, spent, lag>>

CallLost ==
  /\ call /\ call' = FALSE /\ Disturb("call")
  /\ UNCHANGED <<bc, rcp, msg, flow, conn, work, job, hook, meta, lag>>

-----------------------------------------------------------------------------
(* Time: 45 s without a batch, and the leases of batch and recipients.     *)

Age ==
  /\ bc.status = "processing" /\ ~bc.stale /\ bc' = [bc EXCEPT !.stale = TRUE]
  /\ UNCHANGED <<rcp, msg, flow, conn, call, work, job, hook, meta, spent, lag>>

Expire ==
  /\ bc.lease # NoToken /\ bc.live /\ work[bc.lease].at = "idle"
  /\ bc' = [bc EXCEPT !.live = FALSE]
  /\ UNCHANGED <<rcp, msg, flow, conn, call, work, job, hook, meta, spent, lag>>

ExpireRecipient(r) ==
  /\ rcp[r].status = "processing" /\ rcp[r].live
  /\ work[rcp[r].token].at = "idle" /\ ~(bc.lease = rcp[r].token /\ bc.live)
  /\ rcp' = [rcp EXCEPT ![r].live = FALSE]
  /\ UNCHANGED <<bc, msg, flow, conn, call, work, job, hook, meta, spent, lag>>

-----------------------------------------------------------------------------
(* A batch (processBroadcastBatch).                                        *)

Unused(w) ==
  /\ work[w].at = "idle" /\ bc.lease # w
  /\ \A r \in Recipient : rcp[r].token = w => rcp[r].status # "processing"

StartBatch(w) ==
  /\ call /\ Unused(w) /\ call' = FALSE
  /\ \/ /\ bc.status # "processing" /\ UNCHANGED <<bc, work>>
     \/ /\ bc.status = "processing" /\ ~conn
        /\ bc' = [bc EXCEPT !.status = "paused"] /\ UNCHANGED work
     \/ /\ bc.status = "processing" /\ conn
        /\ work' = [work EXCEPT ![w].at = "checked"] /\ UNCHANGED bc
  /\ UNCHANGED <<rcp, msg, flow, conn, job, hook, meta, spent, lag>>

\* Mutant of Swept: an interrupted attempt goes back to the queue.
SweptToQueue == [r \in Recipient |->
  IF rcp[r].status = "processing" /\ ~rcp[r].live
  THEN [rcp[r] EXCEPT !.status = "queued", !.token = NoToken] ELSE rcp[r]]
\* Interrupted attempts are ambiguous and never repeated.
Swept == [r \in Recipient |->
  IF rcp[r].status = "processing" /\ ~rcp[r].live
  THEN [rcp[r] EXCEPT !.status = "failed", !.token = NoToken, !.why = "uncertain"]
  ELSE rcp[r]]

Batches ==
  LET Q == {r \in Recipient : Swept[r].status = "queued"}
  IN {B \in SUBSET Q : Cardinality(B) = Limit \/ (B = Q /\ Cardinality(Q) < Limit)}

\* An empty batch is finished under the token it did or did not store.
Claim(w) ==
  /\ work[w].at = "checked"
  /\ \/ /\ ~(bc.status = "processing" /\ LeaseOpen)
        /\ work' = [work EXCEPT ![w] = Idle] /\ UNCHANGED <<bc, rcp, job>>
     \/ /\ bc.status = "processing" /\ LeaseOpen
        /\ \E B \in Batches :
             /\ rcp' = [r \in Recipient |->
                  IF r \in B THEN [Swept[r] EXCEPT !.status = "processing", !.token = w,
                                                   !.live = TRUE]
                             ELSE Swept[r]]
             /\ job' = [job EXCEPT ![w] = [r \in Recipient |->
                  IF r \in B THEN [NoJob EXCEPT !.at = "start"] ELSE NoJob]]
             /\ work' = [work EXCEPT ![w].at = IF B = {} THEN "finishing" ELSE "working"]
        /\ bc' = [bc EXCEPT !.lease = w, !.live = TRUE, !.stale = FALSE]
  /\ UNCHANGED <<msg, flow, conn, call, hook, meta, spent, lag>>

Mine(w, r) == rcp[r].status = "processing" /\ rcp[r].token = w
Step(w, r, a) == job' = [job EXCEPT ![w][r].at = a]
Over(w, r) == job' = [job EXCEPT ![w][r] = [NoJob EXCEPT !.at = "over"]]

\* The catch block before acceptedByMeta: a failure known to be one, it says.
Refuse(w, r) ==
  /\ Over(w, r)
  /\ rcp' = IF Mine(w, r) THEN [rcp EXCEPT ![r].status = "failed", ![r].why = "refused"]
                          ELSE rcp
  /\ UNCHANGED <<bc, flow, conn, call, hook>>

\* startFlow reads the flow.
ReadFlow(w, r) ==
  /\ job[w][r].at = "start" /\ flow.active
  /\ job' = [job EXCEPT ![w][r].at = "armed", ![w][r].rev = flow.rev]
  /\ UNCHANGED <<bc, rcp, msg, flow, conn, call, work, hook, meta, spent, lag>>

\* An inactive flow, a bad phone or template, or Meta's refusal (429 pauses).
Refused(w, r) ==
  /\ job[w][r].at \in {"start", "armed"}
  /\ \E limited \in BOOLEAN :
       /\ limited => job[w][r].at = "armed"
       /\ work' = [work EXCEPT ![w].limited = @ \/ limited]
  /\ Refuse(w, r)
  /\ UNCHANGED <<msg, meta, spent, lag>>

Taken(w, r) == meta' = [meta EXCEPT ![r].n = @ + 1, ![r].revs = @ \cup {job[w][r].rev}]

Accepted(w, r) ==
  /\ job[w][r].at = "armed" /\ conn
  /\ Taken(w, r) /\ Step(w, r, "taken")
  /\ UNCHANGED <<bc, rcp, msg, flow, conn, call, work, hook, spent, lag>>

\* Meta accepted, but its answer timed out (graphRequest aborts after 15 s).
AnswerLost(w, r) ==
  /\ job[w][r].at = "armed" /\ conn /\ Disturb("lost")
  /\ Taken(w, r) /\ Refuse(w, r)
  /\ UNCHANGED <<msg, work, lag>>

\* logMessageAttempt and createFlowRun: the end of startFlow.
Logged(w, r) ==
  /\ job[w][r].at = "taken" /\ Step(w, r, "ran")
  /\ msg' = [msg EXCEPT ![r] = "accepted"]
  /\ UNCHANGED <<bc, rcp, flow, conn, call, work, hook, meta, spent, lag>>

\* One of the two inserts fails: acceptedByMeta is still false.
LogFails(w, r) ==
  /\ job[w][r].at = "taken" /\ Disturb("database") /\ Refuse(w, r)
  /\ \E s \in {msg[r], "accepted"} : msg' = [msg EXCEPT ![r] = s]
  /\ UNCHANGED <<work, meta, lag>>

MarkAccepted(w, r) ==
  /\ job[w][r].at = "ran" /\ Step(w, r, "marked")
  /\ rcp' = IF Mine(w, r) THEN [rcp EXCEPT ![r].status = "accepted", ![r].wamid = TRUE]
                          ELSE rcp
  /\ UNCHANGED <<bc, msg, flow, conn, call, work, hook, meta, spent, lag>>

\* The error is thrown on: the batch is not finished, the others run to their end.
MarkFails(w, r) ==
  /\ job[w][r].at = "ran" /\ Disturb("database") /\ Over(w, r)
  /\ work' = [work EXCEPT ![w].thrown = TRUE]
  /\ UNCHANGED <<bc, rcp, msg, flow, conn, call, hook, meta, lag>>

\* Mutant of ReadStatus: the status is not read again after the wamid is stored.
SkipReadStatus(w, r) ==
  /\ job[w][r].at = "marked" /\ Over(w, r)
  /\ UNCHANGED <<bc, rcp, msg, flow, conn, call, work, hook, meta, spent, lag>>
\* "Fecha a corrida": the status that came before the recipient had its wamid.
ReadStatus(w, r) ==
  /\ job[w][r].at = "marked"
  /\ IF msg[r] = "accepted" THEN Over(w, r)
     ELSE job' = [job EXCEPT ![w][r].at = "copy", ![w][r].seen = msg[r]]
  /\ UNCHANGED <<bc, rcp, msg, flow, conn, call, work, hook, meta, spent, lag>>

CopyStatus(w, r) ==
  /\ job[w][r].at = "copy" /\ Over(w, r)
  /\ rcp' = IF rcp[r].token = w THEN [rcp EXCEPT ![r].status = job[w][r].seen] ELSE rcp
  /\ UNCHANGED <<bc, msg, flow, conn, call, work, hook, meta, spent, lag>>

\* Neither the read nor the write of the copy looks at its error.
CopyLost(w, r) ==
  /\ job[w][r].at \in {"marked", "copy"} /\ Disturb("database") /\ Over(w, r)
  /\ lag' = lag \cup {r}
  /\ UNCHANGED <<bc, rcp, msg, flow, conn, call, work, hook, meta>>

Settled(w) ==
  /\ work[w].at = "working" /\ \A r \in Recipient : job[w][r].at \in {"none", "over"}
  /\ work' = [work EXCEPT ![w] = IF @.thrown THEN Idle ELSE [@ EXCEPT !.at = "finishing"]]
  /\ job' = [job EXCEPT ![w] = [r \in Recipient |-> NoJob]]
  /\ UNCHANGED <<bc, rcp, msg, flow, conn, call, hook, meta, spent, lag>>

Has(s) == \E r \in Recipient : rcp[r].status = s
\* Mutant of Exhausted: recipients still being processed are not counted.
NothingQueued == ~Has("queued")
Exhausted == ~Has("queued") /\ ~Has("processing")

\* finish_official_broadcast_batch and the next link of the chain.
Finish(w) ==
  /\ work[w].at = "finishing" /\ work' = [work EXCEPT ![w] = Idle]
  /\ IF bc.lease # w THEN UNCHANGED <<bc, call>>
     ELSE /\ bc' = [bc EXCEPT !.lease = NoToken, !.live = FALSE, !.stale = FALSE,
               !.status = IF work[w].limited THEN "paused"
                          ELSE IF Exhausted THEN "completed" ELSE @]
          /\ call' = (call \/ (Has("queued") /\ ~work[w].limited))
  /\ UNCHANGED <<rcp, msg, flow, conn, job, hook, meta, spent, lag>>

\* The function is killed; a request that left it may still be accepted.
Crash(w) ==
  /\ work[w].at # "idle" /\ Disturb("crash")
  /\ work' = [work EXCEPT ![w] = Idle]
  /\ job' = [job EXCEPT ![w] = [r \in Recipient |-> NoJob]]
  /\ \E S \in SUBSET {r \in Recipient : job[w][r].at = "armed"} :
       meta' = [r \in Recipient |-> IF r \in S
                  THEN [n |-> meta[r].n + 1, revs |-> meta[r].revs \cup {job[w][r].rev}]
                  ELSE meta[r]]
  /\ lag' = lag \cup {r \in Recipient : job[w][r].at \in {"marked", "copy"}}
  /\ UNCHANGED <<bc, rcp, msg, flow, conn, call, hook>>

-----------------------------------------------------------------------------
(* Status webhooks (persistMetaStatus, applyMetaMessageStatus).            *)

Receive(h, r, s) ==
  /\ hook[h].at = "idle" /\ meta[r].n > 0
  /\ hook' = [hook EXCEPT ![h] = [at |-> "find", to |-> r, says |-> s, tries |-> 0]]
  /\ UNCHANGED <<bc, rcp, msg, flow, conn, call, work, job, meta, spent, lag>>

Ignored(s, current) ==
  \/ current = "failed"
  \/ s = "failed" /\ current \in {"delivered", "read"}
  \/ s # "failed" /\ current # "failed" /\ Rank[s] < Rank[current]

Rest(h) == hook' = [hook EXCEPT ![h] = Listening]

TriesLeft(h) == hook[h].tries < 2

\* The message may not be logged yet: three tries, then the status is lost.
Find(h) ==
  LET r == hook[h].to
  IN /\ hook[h].at = "find"
     /\ \/ /\ msg[r] = "none" /\ TriesLeft(h)
           /\ hook' = [hook EXCEPT ![h].tries = @ + 1]
        \/ msg[r] = "none" /\ ~TriesLeft(h) /\ Rest(h)
        \/ msg[r] # "none" /\ Ignored(hook[h].says, msg[r]) /\ Rest(h)
        \/ /\ msg[r] # "none" /\ ~Ignored(hook[h].says, msg[r])
           /\ hook' = [hook EXCEPT ![h].at = "write"]
     /\ UNCHANGED <<bc, rcp, msg, flow, conn, call, work, job, meta, spent, lag>>

WriteMessage(h) ==
  /\ hook[h].at = "write"
  /\ msg' = [msg EXCEPT ![hook[h].to] = hook[h].says]
  /\ hook' = [hook EXCEPT ![h].at = "recipient"]
  /\ UNCHANGED <<bc, rcp, flow, conn, call, work, job, meta, spent, lag>>

WriteRecipient(h) ==
  LET r == hook[h].to
      s == hook[h].says
  IN /\ hook[h].at = "recipient" /\ Rest(h)
     /\ rcp' = IF rcp[r].wamid
               THEN [rcp EXCEPT ![r].status = s, ![r].why = IF s = "failed" THEN "meta" ELSE @]
               ELSE rcp
     /\ UNCHANGED <<bc, msg, flow, conn, call, work, job, meta, spent, lag>>

\* Meta was answered before after() ran: a write that fails is not repeated.
HookFails(h) ==
  /\ hook[h].at \in {"find", "write", "recipient"} /\ Disturb("database") /\ Rest(h)
  /\ lag' = IF hook[h].at = "recipient" THEN lag \cup {hook[h].to} ELSE lag
  /\ UNCHANGED <<bc, rcp, msg, flow, conn, call, work, job, meta>>

-----------------------------------------------------------------------------
Recipients(w) == \E r \in Recipient :
  \/ ReadFlow(w, r) \/ Refused(w, r) \/ Accepted(w, r) \/ Logged(w, r)
  \/ MarkAccepted(w, r) \/ ReadStatus(w, r) \/ CopyStatus(w, r)
Batch(w) == StartBatch(w) \/ Claim(w) \/ Recipients(w) \/ Settled(w) \/ Finish(w)
People == \/ CreateBegin \/ CreateEnd \/ EditFlow \/ ChangeConnection
          \/ Pause \/ Resume \/ Cancel \/ Nudge
Time == Age \/ Expire \/ \E r \in Recipient : ExpireRecipient(r)
Disturbed(w) == \/ Crash(w)
                \/ \E r \in Recipient : \/ AnswerLost(w, r) \/ LogFails(w, r)
                                        \/ MarkFails(w, r) \/ CopyLost(w, r)
Hooks(h) == \/ \E r \in Reported, s \in Reports : Receive(h, r, s)
            \/ Find(h) \/ WriteMessage(h) \/ WriteRecipient(h) \/ HookFails(h)

Next == \/ People \/ RunScheduled \/ CallLost \/ Time
        \/ \E w \in Worker : Batch(w) \/ Disturbed(w)
        \/ \E h \in Hook : Hooks(h)

\* The functions run, time passes, and the cron calls run-scheduled.
Fairness ==
  /\ WF_vars(RunScheduled) /\ WF_vars(Age) /\ WF_vars(Expire)
  /\ \A r \in Recipient : WF_vars(ExpireRecipient(r))
  /\ \A w \in Worker : WF_vars(Batch(w))

Spec == Init /\ [][Next]_vars /\ Fairness

-----------------------------------------------------------------------------
(* Properties.                                                             *)

\* Meta accepts at most one initial message for a recipient, whatever
\* functions die, batches overlap or leases end: the promise of
\* 20260904001000_harden_official_broadcast_scheduling.sql.
AtMostOnce == \A r \in Recipient : meta[r].n <= 1

\* Every recipient of a broadcast gets the same revision of the flow, although
\* people edit flows while broadcasts are paused, resumed and recovered.
SameRevision == \A r, q \in Recipient : meta[r].revs \cup meta[q].revs \in
                  {{}} \cup {{v} : v \in 1..MaxRev}

\* A completed broadcast leaves no recipient queued or half sent, whatever
\* batch completed it.
CompletedIsWhole ==
  bc.status = "completed" => \A r \in Recipient : rcp[r].status \notin {"queued", "processing"}

Quiet(r) == /\ \A w \in Worker : job[w][r].at \in {"none", "over"}
            /\ \A h \in Hook : hook[h].to = r => hook[h].at \in {"idle", "find"}
\* The batch stores the wamid, the webhook writes by wamid: in no order of the
\* two does a recipient stay "accepted" when its message went further (unless
\* a function died or lost a write between them).
RaceClosed == \A r \in Recipient :
  Quiet(r) /\ r \notin lag /\ rcp[r].wamid /\ msg[r] # "accepted"
    => rcp[r].status # "accepted"

\* A broadcast in progress is completed or paused in the end, although links of
\* the chain of functions are lost and functions die.
Drains == bc.status = "processing" ~> bc.status # "processing"

\* Violated: what Meta accepted is never listed as a failure that may be sent
\* again (broadcasts.ts:149-150).
NeverResendable == \A r \in Recipient :
  meta[r].n > 0 /\ rcp[r].status = "failed" => rcp[r].why # "refused"
=============================================================================
