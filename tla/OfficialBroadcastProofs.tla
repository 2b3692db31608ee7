---------------------- MODULE OfficialBroadcastProofs ----------------------
(***************************************************************************)
(* Proofs about OfficialBroadcast, for any recipients, functions, webhooks *)
(* and bounds.                                                             *)
(*                                                                         *)
(* Four facts carry the argument.  One batch runs at a time: the function  *)
(* in it holds the lease, alive, of a broadcast in progress or paused      *)
(* (Alone).  No statement puts a recipient back in the queue: who waits    *)
(* there was never handed to Meta, and nobody is about to do it (Fresh).   *)
(* While the broadcast is pending its flow is frozen (Frozen).  A status   *)
(* that the message has and the recipient lacks is being written by a      *)
(* batch or by a webhook (Race).                                           *)
(*                                                                         *)
(* The first part says what the writes of each action do to the records    *)
(* they name, so that the second need not look into nested EXCEPTs.        *)
(***************************************************************************)
EXTENDS OfficialBroadcast, TLAPS

-----------------------------------------------------------------------------
(* What the writes of a step do to the records they name.                  *)

JobType == job \in [Worker -> [Recipient -> JobState]]
RowType == rcp \in [Recipient -> RecipientRow]
BatchType == work \in [Worker -> BatchState]

\* Only the recipient r in w's batch changes, and has then step a, revision v
\* and status s.
JobMoves(w, r, a, v, s) ==
  /\ JobType'
  /\ job'[w][r].at = a /\ job'[w][r].rev = v /\ job'[w][r].seen = s
  /\ \A q \in Recipient \ {r} : job'[w][q] = job[w][q]
  /\ \A u \in Worker \ {w} : job'[u] = job[u]

\* Only the row of r changes, and has then status st, token k and wamid m.
RowMoves(r, st, k, m) ==
  /\ RowType'
  /\ rcp'[r].status = st /\ rcp'[r].token = k /\ rcp'[r].wamid = m
  /\ \A q \in Recipient \ {r} : rcp'[q] = rcp[q]
RowKept(r) == RowMoves(r, rcp[r].status, rcp[r].token, rcp[r].wamid)

\* Only w changes, and is then at a.
BatchMoves(w, a) ==
  /\ BatchType'
  /\ work'[w].at = a
  /\ \A u \in Worker \ {w} : work'[u] = work[u]

LEMMA JobSet ==
  ASSUME JobType, NEW w \in Worker, NEW r \in Recipient, NEW j \in JobState,
         job' = [job EXCEPT ![w] = [job[w] EXCEPT ![r] = j]]
  PROVE  JobMoves(w, r, j.at, j.rev, j.seen)
  BY DEF JobType, JobMoves

LEMMA RowSet ==
  ASSUME RowType, NEW r \in Recipient, NEW x \in RecipientRow,
         rcp' = [rcp EXCEPT ![r] = x]
  PROVE  RowMoves(r, x.status, x.token, x.wamid)
  BY DEF RowType, RowMoves

LEMMA RowStays ==
  ASSUME RowType, NEW r \in Recipient, UNCHANGED rcp
  PROVE  RowKept(r)
  BY DEF RowType, RowMoves, RowKept

LEMMA BatchSet ==
  ASSUME BatchType, NEW w \in Worker, NEW x \in BatchState,
         work' = [work EXCEPT ![w] = x]
  PROVE  BatchMoves(w, x.at)
  BY DEF BatchType, BatchMoves

LEMMA StepMoves ==
  ASSUME JobType, NEW w \in Worker, NEW r \in Recipient,
         NEW a \in {"taken", "ran", "marked"}, Step(w, r, a)
  PROVE  JobMoves(w, r, a, job[w][r].rev, job[w][r].seen)
<1> DEFINE j == [job[w][r] EXCEPT !.at = a]
<1>1. job[w][r] \in JobState
  BY DEF JobType
<1>2. j \in JobState /\ j.at = a /\ j.rev = job[w][r].rev /\ j.seen = job[w][r].seen
  BY <1>1 DEF JobState
<1>3. job' = [job EXCEPT ![w] = [job[w] EXCEPT ![r] = j]]
  BY DEF Step
<1> HIDE DEF j
<1> QED
  BY <1>2, <1>3, JobSet

LEMMA NoJobType ==
  /\ NoJob \in JobState /\ NoJob.at = "none" /\ NoJob.seen = "accepted"
  /\ [NoJob EXCEPT !.at = "over"] \in JobState
  /\ [NoJob EXCEPT !.at = "over"].at = "over"
  /\ [NoJob EXCEPT !.at = "over"].seen = "accepted"
  /\ [NoJob EXCEPT !.at = "start"] \in JobState
  /\ [NoJob EXCEPT !.at = "start"].at = "start"
  /\ [NoJob EXCEPT !.at = "start"].seen = "accepted"
  BY BroadcastAssumption DEF NoJob, JobState, Message

LEMMA OverMoves ==
  ASSUME JobType, NEW w \in Worker, NEW r \in Recipient, Over(w, r)
  PROVE  \E v : JobMoves(w, r, "over", v, "accepted")
<1> DEFINE j == [NoJob EXCEPT !.at = "over"]
<1>1. j \in JobState /\ j.at = "over" /\ j.seen = "accepted"
  BY NoJobType
<1>2. job' = [job EXCEPT ![w] = [job[w] EXCEPT ![r] = j]]
  BY DEF Over
<1> HIDE DEF j
<1> QED
  BY <1>1, <1>2, JobSet

LEMMA ReadFlowMoves ==
  ASSUME TypeOK, NEW w \in Worker, NEW r \in Recipient, ReadFlow(w, r)
  PROVE  JobMoves(w, r, "armed", flow.rev, job[w][r].seen)
<1> DEFINE j == [job[w][r] EXCEPT !.at = "armed", !.rev = flow.rev]
<1>1. job[w][r] \in JobState /\ flow.rev \in 0..MaxRev
  BY BroadcastAssumption DEF TypeOK
<1>2. j \in JobState /\ j.at = "armed" /\ j.rev = flow.rev /\ j.seen = job[w][r].seen
  BY <1>1 DEF JobState
<1>3. job' = [job EXCEPT ![w] = [job[w] EXCEPT ![r] = j]]
  BY DEF ReadFlow, TypeOK
<1> HIDE DEF j
<1>4. JobType
  BY DEF TypeOK, JobType
<1> QED
  BY <1>2, <1>3, <1>4, JobSet

LEMMA RefuseMoves ==
  ASSUME JobType, RowType, NEW w \in Worker, NEW r \in Recipient, Refuse(w, r)
  PROVE  /\ \E v : JobMoves(w, r, "over", v, "accepted")
         /\ \/ RowKept(r)
            \/ RowMoves(r, "failed", rcp[r].token, rcp[r].wamid)
<1> DEFINE x == [rcp[r] EXCEPT !.status = "failed", !.why = "refused"]
<1>1. rcp[r] \in RecipientRow
  BY DEF RowType
<1>2. x \in RecipientRow /\ x.status = "failed" /\ x.token = rcp[r].token
      /\ x.wamid = rcp[r].wamid
  BY <1>1 DEF RecipientRow, RowStatus
<1>3. Mine(w, r) => rcp' = [rcp EXCEPT ![r] = x]
  BY DEF Refuse, RowType
<1>4. ~Mine(w, r) => UNCHANGED rcp
  BY DEF Refuse
<1> HIDE DEF x
<1>5. RowKept(r) \/ RowMoves(r, "failed", rcp[r].token, rcp[r].wamid)
  BY <1>2, <1>3, <1>4, RowSet, RowStays
<1> QED
  BY <1>5, OverMoves DEF Refuse

LEMMA MarkAcceptedMoves ==
  ASSUME RowType, NEW w \in Worker, NEW r \in Recipient, MarkAccepted(w, r)
  PROVE  \/ RowKept(r)
         \/ RowMoves(r, "accepted", rcp[r].token, TRUE) /\ rcp[r].token = w
<1> DEFINE x == [rcp[r] EXCEPT !.status = "accepted", !.wamid = TRUE]
<1>1. rcp[r] \in RecipientRow
  BY DEF RowType
<1>2. x \in RecipientRow /\ x.status = "accepted" /\ x.token = rcp[r].token
      /\ x.wamid = TRUE
  BY <1>1 DEF RecipientRow, RowStatus, Message
<1>3. Mine(w, r) => rcp' = [rcp EXCEPT ![r] = x]
  BY DEF MarkAccepted, RowType
<1>4. ~Mine(w, r) => UNCHANGED rcp
  BY DEF MarkAccepted
<1> HIDE DEF x
<1> QED
  BY <1>2, <1>3, <1>4, RowSet, RowStays DEF Mine

LEMMA ReadStatusMoves ==
  ASSUME TypeOK, NEW w \in Worker, NEW r \in Recipient, ReadStatus(w, r),
         msg[r] # "none"
  PROVE  \/ msg[r] = "accepted" /\ \E v : JobMoves(w, r, "over", v, "accepted")
         \/ msg[r] # "accepted" /\ JobMoves(w, r, "copy", job[w][r].rev, msg[r])
<1> DEFINE j == [job[w][r] EXCEPT !.at = "copy", !.seen = msg[r]]
<1>1. job[w][r] \in JobState /\ msg[r] \in Message \cup {"failed"}
  BY DEF TypeOK
<1>2. j \in JobState /\ j.at = "copy" /\ j.rev = job[w][r].rev /\ j.seen = msg[r]
  BY <1>1 DEF JobState
<1>3. msg[r] # "accepted" => job' = [job EXCEPT ![w] = [job[w] EXCEPT ![r] = j]]
  BY DEF ReadStatus, TypeOK
<1> HIDE DEF j
<1>4. JobType
  BY DEF TypeOK, JobType
<1> QED
  BY <1>2, <1>3, <1>4, JobSet, OverMoves DEF ReadStatus

LEMMA CopyStatusMoves ==
  ASSUME JobType, RowType, NEW w \in Worker, NEW r \in Recipient, CopyStatus(w, r)
  PROVE  \/ RowKept(r) /\ rcp[r].token # w
         \/ RowMoves(r, job[w][r].seen, rcp[r].token, rcp[r].wamid)
<1> DEFINE x == [rcp[r] EXCEPT !.status = job[w][r].seen]
<1>1. rcp[r] \in RecipientRow /\ job[w][r] \in JobState
  BY DEF RowType, JobType
<1>2. x \in RecipientRow /\ x.status = job[w][r].seen /\ x.token = rcp[r].token
      /\ x.wamid = rcp[r].wamid
  BY <1>1 DEF RecipientRow, JobState, RowStatus
<1>3. rcp[r].token = w => rcp' = [rcp EXCEPT ![r] = x]
  BY DEF CopyStatus, RowType
<1>4. rcp[r].token # w => UNCHANGED rcp
  BY DEF CopyStatus
<1> HIDE DEF x
<1> QED
  BY <1>2, <1>3, <1>4, RowSet, RowStays

LEMMA ExpireRecipientMoves ==
  ASSUME RowType, NEW r \in Recipient, ExpireRecipient(r)
  PROVE  RowKept(r)
<1> DEFINE x == [rcp[r] EXCEPT !.live = FALSE]
<1>1. rcp[r] \in RecipientRow
  BY DEF RowType
<1>2. x \in RecipientRow /\ x.status = rcp[r].status /\ x.token = rcp[r].token
      /\ x.wamid = rcp[r].wamid
  BY <1>1 DEF RecipientRow
<1>3. rcp' = [rcp EXCEPT ![r] = x]
  BY DEF ExpireRecipient, RowType
<1> HIDE DEF x
<1> QED
  BY <1>2, <1>3, RowSet DEF RowKept

\* The flags of a batch change, and what it is doing does not.
LEMMA RefusedBatch ==
  ASSUME BatchType, NEW w \in Worker, NEW r \in Recipient, Refused(w, r)
  PROVE  BatchMoves(w, work[w].at)
<1>1. PICK l \in BOOLEAN : work' = [work EXCEPT ![w].limited = @ \/ l]
  BY DEF Refused
<1> DEFINE x == [work[w] EXCEPT !.limited = @ \/ l]
<1>2. work[w] \in BatchState
  BY DEF BatchType
<1>3. x \in BatchState /\ x.at = work[w].at
  BY <1>2 DEF BatchState
<1>4. work' = [work EXCEPT ![w] = x]
  BY <1>1 DEF BatchType
<1> HIDE DEF x
<1> QED
  BY <1>3, <1>4, BatchSet

LEMMA MarkFailsBatch ==
  ASSUME BatchType, NEW w \in Worker, NEW r \in Recipient, MarkFails(w, r)
  PROVE  BatchMoves(w, work[w].at)
<1> DEFINE x == [work[w] EXCEPT !.thrown = TRUE]
<1>2. work[w] \in BatchState
  BY DEF BatchType
<1>3. x \in BatchState /\ x.at = work[w].at
  BY <1>2 DEF BatchState
<1>4. work' = [work EXCEPT ![w] = x]
  BY DEF BatchType, MarkFails
<1> HIDE DEF x
<1> QED
  BY <1>3, <1>4, BatchSet

\* Only h changes, and is then at a with the status of recipient r.
HookType == hook \in [Hook -> HookState]
HookMoves(h, a, r) ==
  /\ HookType'
  /\ hook'[h].at = a /\ hook'[h].to = r
  /\ \A g \in Hook \ {h} : hook'[g] = hook[g]

LEMMA HookSet ==
  ASSUME HookType, NEW h \in Hook, NEW x \in HookState,
         hook' = [hook EXCEPT ![h] = x]
  PROVE  HookMoves(h, x.at, x.to)
  BY DEF HookType, HookMoves

LEMMA ListeningType == Listening \in HookState /\ Listening.at = "idle"
<1> DEFINE r == CHOOSE r \in Reported : TRUE
<1>1. Listening = [at |-> "idle", to |-> r, says |-> "read", tries |-> 0]
  BY DEF Listening
<1> HIDE DEF r
<1>2. Listening.to = r /\ Listening.at = "idle"
  BY <1>1
<1> QED
  BY <1>1, <1>2 DEF HookState

LEMMA RestMoves ==
  ASSUME HookType, NEW h \in Hook, Rest(h)
  PROVE  HookMoves(h, "idle", Listening.to)
  BY ListeningType, HookSet DEF Rest

LEMMA ReceiveMoves ==
  ASSUME HookType, NEW h \in Hook, NEW r \in Reported, NEW s \in Reports, Receive(h, r, s)
  PROVE  HookMoves(h, "find", r)
<1> DEFINE x == [at |-> "find", to |-> r, says |-> s, tries |-> 0]
<1>1. x \in HookState /\ x.at = "find" /\ x.to = r
  BY DEF HookState
<1>2. hook' = [hook EXCEPT ![h] = x]
  BY DEF Receive
<1> HIDE DEF x
<1> QED
  BY <1>1, <1>2, HookSet

LEMMA FindMoves ==
  ASSUME HookType, NEW h \in Hook, Find(h)
  PROVE  \/ HookMoves(h, "find", hook[h].to)
         \/ HookMoves(h, "idle", Listening.to)
         \/ HookMoves(h, "write", hook[h].to)
<1> DEFINE x == [hook[h] EXCEPT !.tries = @ + 1]
           y == [hook[h] EXCEPT !.at = "write"]
<1>1. hook[h] \in HookState
  BY DEF HookType
<1>2. hook[h].at = "find" /\ TriesLeft(h)
        => x \in HookState /\ x.at = "find" /\ x.to = hook[h].to
  BY <1>1 DEF HookState, TriesLeft
<1>3. y \in HookState /\ y.at = "write" /\ y.to = hook[h].to
  BY <1>1 DEF HookState
<1>4. (hook' = [hook EXCEPT ![h].tries = @ + 1]) => hook' = [hook EXCEPT ![h] = x]
  BY DEF HookType
<1>5. (hook' = [hook EXCEPT ![h].at = "write"]) => hook' = [hook EXCEPT ![h] = y]
  BY DEF HookType
<1>6. hook[h].at = "find" /\ \/ TriesLeft(h) /\ hook' = [hook EXCEPT ![h].tries = @ + 1]
                             \/ Rest(h)
                             \/ hook' = [hook EXCEPT ![h].at = "write"]
  BY DEF Find
<1> HIDE DEF x, y
<1> QED
  BY <1>2, <1>3, <1>4, <1>5, <1>6, HookSet, RestMoves

LEMMA WriteMessageMoves ==
  ASSUME HookType, NEW h \in Hook, WriteMessage(h)
  PROVE  HookMoves(h, "recipient", hook[h].to)
<1> DEFINE x == [hook[h] EXCEPT !.at = "recipient"]
<1>1. hook[h] \in HookState
  BY DEF HookType
<1>2. x \in HookState /\ x.at = "recipient" /\ x.to = hook[h].to
  BY <1>1 DEF HookState
<1>3. hook' = [hook EXCEPT ![h] = x]
  BY DEF HookType, WriteMessage
<1> HIDE DEF x
<1> QED
  BY <1>2, <1>3, HookSet

LEMMA ReportsTypes ==
  ASSUME NEW x \in HookState
  PROVE  x.says \in {"sent", "delivered", "read", "failed"}
  BY BroadcastAssumption DEF HookState

LEMMA WriteRecipientMoves ==
  ASSUME RowType, HookType, NEW h \in Hook, hook[h].to \in Recipient, WriteRecipient(h)
  PROVE  \/ RowKept(hook[h].to) /\ ~rcp[hook[h].to].wamid
         \/ RowMoves(hook[h].to, hook[h].says, rcp[hook[h].to].token, TRUE)
<1> DEFINE r == hook[h].to
           s == hook[h].says
           x == [rcp[r] EXCEPT !.status = s, !.why = IF s = "failed" THEN "meta" ELSE @]
<1>1. rcp[r] \in RecipientRow /\ s \in {"sent", "delivered", "read", "failed"}
  BY ReportsTypes DEF RowType, HookType
<1>2. x \in RecipientRow /\ x.status = s /\ x.token = rcp[r].token
      /\ x.wamid = rcp[r].wamid
  BY <1>1 DEF RecipientRow, RowStatus, Message
<1>3. rcp[r].wamid => rcp' = [rcp EXCEPT ![r] = x]
  BY DEF WriteRecipient, RowType
<1>4. ~rcp[r].wamid => UNCHANGED rcp
  BY DEF WriteRecipient
<1>5. rcp[r].wamid \in BOOLEAN
  BY <1>1 DEF RecipientRow
<1> HIDE DEF x
<1>6. CASE rcp[r].wamid
  <2>1. rcp[r].wamid = TRUE
    BY <1>5, <1>6
  <2> QED
  BY <1>2, <1>3, <1>6, <2>1, RowSet
<1>7. CASE ~rcp[r].wamid
  BY <1>4, <1>7, RowStays
<1> QED
  BY <1>6, <1>7

-----------------------------------------------------------------------------
(* A claim: who was in the queue starts, who was interrupted has failed.   *)

\* The recipients B of a claim by w, and what becomes of the others.
Claims(w, B) ==
  /\ RowType' /\ JobType' /\ BatchType'
  /\ B \subseteq {r \in Recipient : rcp[r].status = "queued"}
  /\ \A r \in B : /\ rcp'[r].status = "processing"
                  /\ job'[w][r].at = "start" /\ job'[w][r].seen = "accepted"
  /\ \A r \in Recipient \ B :
       /\ \/ rcp'[r] = rcp[r]
          \/ rcp[r].status = "processing" /\ rcp'[r].status = "failed"
       /\ job'[w][r].at = "none" /\ job'[w][r].seen = "accepted"
  /\ \A u \in Worker \ {w} : job'[u] = job[u] /\ work'[u] = work[u]
  /\ work'[w].at = IF B = {} THEN "finishing" ELSE "working"

LEMMA SweptRow ==
  ASSUME RowType, NEW r \in Recipient
  PROVE  /\ Swept[r] \in RecipientRow
         /\ \/ Swept[r] = rcp[r]
            \/ rcp[r].status = "processing" /\ Swept[r].status = "failed"
<1> DEFINE x == [rcp[r] EXCEPT !.status = "failed", !.token = NoToken, !.why = "uncertain"]
<1>1. rcp[r] \in RecipientRow
  BY DEF RowType
<1>2. x \in RecipientRow /\ x.status = "failed"
  BY <1>1 DEF RecipientRow, RowStatus
<1>3. Swept[r] = IF rcp[r].status = "processing" /\ ~rcp[r].live THEN x ELSE rcp[r]
  BY DEF Swept
<1> HIDE DEF x
<1> QED
  BY <1>1, <1>2, <1>3

ClaimedRow(w, r) == [Swept[r] EXCEPT !.status = "processing", !.token = w, !.live = TRUE]

LEMMA ClaimedRowType ==
  ASSUME RowType, NEW w \in Worker, NEW r \in Recipient
  PROVE  ClaimedRow(w, r) \in RecipientRow /\ ClaimedRow(w, r).status = "processing"
<1>1. Swept[r] \in RecipientRow
  BY SweptRow
<1> QED
  BY <1>1 DEF ClaimedRow, RecipientRow, RowStatus

\* A claim that finds the broadcast free takes the lease.
LEMMA ClaimEffect ==
  ASSUME TypeOK, NEW w \in Worker, Claim(w)
  PROVE  /\ work[w].at = "checked"
         /\ \/ UNCHANGED <<bc, rcp, job>> /\ BatchMoves(w, "idle")
            \/ /\ bc.status = "processing" /\ LeaseOpen
               /\ bc' \in BroadcastRow /\ bc'.status = "processing"
               /\ bc'.lease = w /\ bc'.live
               /\ \E B \in SUBSET Recipient : Claims(w, B)
<1> DEFINE b == [bc EXCEPT !.lease = w, !.live = TRUE, !.stale = FALSE]
<1>1. JobType /\ RowType /\ BatchType
  BY DEF TypeOK, JobType, RowType, BatchType
<1>2. bc \in BroadcastRow /\ work[w] \in BatchState
  BY DEF TypeOK
<1>3. CASE ~(bc.status = "processing" /\ LeaseOpen)
  <2>1. Idle \in BatchState /\ Idle.at = "idle"
    BY DEF Idle, BatchState
  <2>2. BatchMoves(w, "idle")
    BY <1>1, <1>3, <2>1, BatchSet DEF Claim
  <2> QED
    BY <1>3, <2>2 DEF Claim
<1>4. CASE bc.status = "processing" /\ LeaseOpen
  <2>1. b \in BroadcastRow /\ b.status = bc.status /\ b.lease = w /\ b.live
    BY <1>2 DEF BroadcastRow
  <2>2. bc' = b
    BY <1>4 DEF Claim
  <2>3. PICK B \in Batches :
         /\ rcp' = [r \in Recipient |-> IF r \in B THEN ClaimedRow(w, r) ELSE Swept[r]]
         /\ job' = [job EXCEPT ![w] = [r \in Recipient |->
              IF r \in B THEN [NoJob EXCEPT !.at = "start"] ELSE NoJob]]
         /\ work' = [work EXCEPT ![w].at = IF B = {} THEN "finishing" ELSE "working"]
    BY <1>4 DEF Claim, ClaimedRow
  <2> DEFINE x == [work[w] EXCEPT !.at = IF B = {} THEN "finishing" ELSE "working"]
             j == [NoJob EXCEPT !.at = "start"]
             J == [r \in Recipient |-> IF r \in B THEN j ELSE NoJob]
  <2>4. x \in BatchState /\ x.at = IF B = {} THEN "finishing" ELSE "working"
    BY <1>2 DEF BatchState
  <2>5. work' = [work EXCEPT ![w] = x]
    BY <1>1, <2>3 DEF BatchType
  <2>6. J \in [Recipient -> JobState]
    BY NoJobType
  <2> HIDE DEF x
  <2>7. BatchType' /\ work'[w].at = (IF B = {} THEN "finishing" ELSE "working")
        /\ \A u \in Worker \ {w} : work'[u] = work[u]
    BY <1>1, <2>4, <2>5, BatchSet DEF BatchMoves
  <2>8. JobType' /\ job'[w] = J /\ \A u \in Worker \ {w} : job'[u] = job[u]
    <3> HIDE DEF J
    <3> QED
      BY <1>1, <2>3, <2>6 DEF JobType, J
  <2>9. B \subseteq {r \in Recipient : Swept[r].status = "queued"}
    BY <2>3 DEF Batches
  <2>10. \A r \in B : r \in Recipient /\ rcp[r].status = "queued"
    BY <1>1, <2>9, SweptRow
  <2>11. RowType'
    BY <1>1, <2>3, SweptRow, ClaimedRowType DEF RowType
  <2>12. \A r \in B : rcp'[r].status = "processing"
    BY <1>1, <2>3, <2>10, ClaimedRowType
  <2>13. \A r \in Recipient \ B : rcp'[r] = Swept[r]
    BY <2>3
  <2>14. \A r \in Recipient : job'[w][r] = IF r \in B THEN j ELSE NoJob
    BY <2>8
  <2>15. j.at = "start" /\ j.seen = "accepted" /\ NoJob.at = "none" /\ NoJob.seen = "accepted"
    BY NoJobType
  <2> HIDE DEF j, J
  <2>16. Claims(w, B)
    <3>1. \A r \in Recipient \ B :
            \/ rcp'[r] = rcp[r]
            \/ rcp[r].status = "processing" /\ rcp'[r].status = "failed"
      BY <1>1, <2>13, SweptRow
    <3>2. \A r \in B : job'[w][r].at = "start" /\ job'[w][r].seen = "accepted"
      BY <2>10, <2>14, <2>15
    <3>3. \A r \in Recipient \ B : job'[w][r].at = "none" /\ job'[w][r].seen = "accepted"
      BY <2>14, <2>15
    <3> QED
      BY <2>7, <2>8, <2>10, <2>11, <2>12, <3>1, <3>2, <3>3 DEF Claims
  <2>17. B \in SUBSET Recipient
    BY <2>10
  <2> QED
    BY <1>4, <2>1, <2>2, <2>16, <2>17 DEF Claim
<1> QED
  BY <1>3, <1>4 DEF Claim

-----------------------------------------------------------------------------
(* Meta accepts a message; a function ends, or ends its batch.             *)

MetaType == meta \in [Recipient -> [n : Nat, revs : SUBSET (1..MaxRev)]]
Sends(r, v) ==
  /\ MetaType'
  /\ meta'[r].n = meta[r].n + 1 /\ meta'[r].revs = meta[r].revs \cup {v}
  /\ \A q \in Recipient \ {r} : meta'[q] = meta[q]

LEMMA OneMore ==
  ASSUME NEW m \in [n : Nat, revs : SUBSET (1..MaxRev)], NEW v \in 1..MaxRev
  PROVE  [m EXCEPT !.n = @ + 1, !.revs = @ \cup {v}]
           = [n |-> m.n + 1, revs |-> m.revs \cup {v}]
<1> DEFINE k == m.n + 1
           R == m.revs \cup {v}
           y == [m EXCEPT !.n = k]
<1>1. k \in Nat /\ R \in SUBSET (1..MaxRev) /\ m.revs \in SUBSET (1..MaxRev)
  OBVIOUS
<1> HIDE DEF k, R
<1>2. y = [n |-> k, revs |-> m.revs]
  BY <1>1
<1> HIDE DEF y
<1>3. y \in [n : Nat, revs : SUBSET (1..MaxRev)]
  BY <1>1, <1>2
<1>4. [y EXCEPT !.revs = R] = [n |-> k, revs |-> R]
  BY <1>1, <1>2, <1>3
<1> QED
  BY <1>4 DEF y, k, R

LEMMA TakenMoves ==
  ASSUME MetaType, NEW w \in Worker, NEW r \in Recipient,
         job[w][r].rev \in 1..MaxRev, Taken(w, r)
  PROVE  Sends(r, job[w][r].rev)
<1> DEFINE v == job[w][r].rev
           x == [meta[r] EXCEPT !.n = @ + 1, !.revs = @ \cup {v}]
<1>1. meta[r] \in [n : Nat, revs : SUBSET (1..MaxRev)]
  BY DEF MetaType
<1>2. meta' = [meta EXCEPT ![r] = x]
  BY DEF Taken, MetaType
<1> HIDE DEF v
<1>3. v \in 1..MaxRev
  BY DEF v
<1>4. x \in [n : Nat, revs : SUBSET (1..MaxRev)] /\ x.n = meta[r].n + 1
      /\ x.revs = meta[r].revs \cup {v}
  <2>1. x = [n |-> meta[r].n + 1, revs |-> meta[r].revs \cup {v}]
    BY <1>1, <1>3, OneMore
  <2>2. meta[r].n + 1 \in Nat /\ meta[r].revs \cup {v} \in SUBSET (1..MaxRev)
    BY <1>1, <1>3
  <2> HIDE DEF x
  <2> QED
    BY <2>1, <2>2
<1> HIDE DEF x
<1>5. Sends(r, v)
  BY <1>2, <1>4 DEF MetaType, Sends
<1> QED
  BY <1>5 DEF v

\* w has no recipients any more and is at a.
Clears(w, a) ==
  /\ JobType' /\ BatchMoves(w, a)
  /\ \A r \in Recipient : job'[w][r].at = "none" /\ job'[w][r].seen = "accepted"
  /\ \A u \in Worker \ {w} : job'[u] = job[u]

LEMMA ClearsJob ==
  ASSUME JobType, NEW w \in Worker,
         job' = [job EXCEPT ![w] = [r \in Recipient |-> NoJob]]
  PROVE  /\ JobType'
         /\ \A r \in Recipient : job'[w][r].at = "none" /\ job'[w][r].seen = "accepted"
         /\ \A u \in Worker \ {w} : job'[u] = job[u]
  BY NoJobType DEF JobType

LEMMA IdleMoves ==
  ASSUME BatchType, NEW w \in Worker, work' = [work EXCEPT ![w] = Idle]
  PROVE  BatchMoves(w, "idle")
<1>1. Idle \in BatchState /\ Idle.at = "idle"
  BY DEF Idle, BatchState
<1> QED
  BY <1>1, BatchSet

LEMMA SettledMoves ==
  ASSUME JobType, BatchType, NEW w \in Worker, Settled(w)
  PROVE  \E a \in {"idle", "finishing"} : Clears(w, a)
<1> DEFINE x == [work[w] EXCEPT !.at = "finishing"]
<1>1. work[w] \in BatchState
  BY DEF BatchType
<1>2. x \in BatchState /\ x.at = "finishing"
  BY <1>1 DEF BatchState
<1>3. work' = [work EXCEPT ![w] = x] \/ work' = [work EXCEPT ![w] = Idle]
  BY DEF Settled, BatchType
<1> HIDE DEF x
<1>4. BatchMoves(w, "idle") \/ BatchMoves(w, "finishing")
  BY <1>2, <1>3, BatchSet, IdleMoves
<1> QED
  BY <1>4, ClearsJob DEF Settled, Clears

LEMMA StartBatchMoves ==
  ASSUME BatchType, bc \in BroadcastRow, NEW w \in Worker, StartBatch(w)
  PROVE  /\ work[w].at = "idle"
         /\ \/ UNCHANGED <<bc, work>>
            \/ UNCHANGED bc /\ BatchMoves(w, "checked")
            \/ /\ bc.status = "processing" /\ UNCHANGED work
               /\ bc' \in BroadcastRow /\ bc'.status = "paused"
               /\ bc'.lease = bc.lease /\ bc'.live = bc.live
<1> DEFINE x == [work[w] EXCEPT !.at = "checked"]
           b == [bc EXCEPT !.status = "paused"]
<1>1. work[w] \in BatchState
  BY DEF BatchType
<1>2. x \in BatchState /\ x.at = "checked"
  BY <1>1 DEF BatchState
<1>3. b \in BroadcastRow /\ b.status = "paused" /\ b.lease = bc.lease /\ b.live = bc.live
  BY DEF BroadcastRow, Pending
<1>4. (work' = [work EXCEPT ![w].at = "checked"]) => work' = [work EXCEPT ![w] = x]
  BY DEF BatchType
<1> HIDE DEF x
<1>5. (work' = [work EXCEPT ![w].at = "checked"]) => BatchMoves(w, "checked")
  BY <1>2, <1>4, BatchSet
<1>6. /\ work[w].at = "idle"
      /\ \/ UNCHANGED <<bc, work>>
         \/ UNCHANGED bc /\ work' = [work EXCEPT ![w].at = "checked"]
         \/ bc.status = "processing" /\ bc' = b /\ UNCHANGED work
  BY DEF StartBatch, Unused
<1> HIDE DEF b
<1> QED
  BY <1>3, <1>5, <1>6

LEMMA FinishMoves ==
  ASSUME BatchType, bc \in BroadcastRow, NEW w \in Worker, Finish(w)
  PROVE  /\ work[w].at = "finishing" /\ BatchMoves(w, "idle")
         /\ \/ UNCHANGED bc
            \/ /\ bc' \in BroadcastRow /\ bc'.lease = NoToken
               /\ \/ bc'.status \in {bc.status, "paused"}
                  \/ bc'.status = "completed" /\ Exhausted
<1> DEFINE s == IF work[w].limited THEN "paused" ELSE IF Exhausted THEN "completed" ELSE bc.status
           b == [bc EXCEPT !.lease = NoToken, !.live = FALSE, !.stale = FALSE, !.status = s]
<1>1. s \in {"none", "creating", "completed", "cancelled"} \cup Pending
      /\ (s \in {bc.status, "paused"} \/ (s = "completed" /\ Exhausted))
  BY DEF BroadcastRow, Pending
<1>2. bc.lease = w => bc' = b
  BY DEF Finish
<1> HIDE DEF s
<1>3. b \in BroadcastRow /\ b.lease = NoToken /\ b.status = s
  BY <1>1 DEF BroadcastRow
<1> HIDE DEF b
<1>4. bc.lease # w => UNCHANGED bc
  BY DEF Finish
<1>5. work[w].at = "finishing" /\ BatchMoves(w, "idle")
  BY IdleMoves DEF Finish
<1> QED
  BY <1>1, <1>2, <1>3, <1>4, <1>5

\* A killed function may leave requests behind that Meta accepts.
LEMMA CrashMoves ==
  ASSUME JobType, BatchType, MetaType, NEW w \in Worker, Crash(w),
         \A r \in Recipient : job[w][r].at = "armed" => job[w][r].rev \in 1..MaxRev
  PROVE  /\ Clears(w, "idle") /\ MetaType'
         /\ \A r \in Recipient :
              \/ meta'[r] = meta[r]
              \/ /\ job[w][r].at = "armed" /\ meta'[r].n = meta[r].n + 1
                 /\ meta'[r].revs = meta[r].revs \cup {job[w][r].rev}
<1>1. Clears(w, "idle")
  BY ClearsJob, IdleMoves DEF Crash, Clears
<1>2. PICK S \in SUBSET {r \in Recipient : job[w][r].at = "armed"} :
       meta' = [r \in Recipient |-> IF r \in S
                  THEN [n |-> meta[r].n + 1, revs |-> meta[r].revs \cup {job[w][r].rev}]
                  ELSE meta[r]]
  BY DEF Crash
<1>3. ASSUME NEW r \in Recipient
      PROVE  /\ meta'[r] \in [n : Nat, revs : SUBSET (1..MaxRev)]
             /\ \/ meta'[r] = meta[r]
                \/ /\ job[w][r].at = "armed" /\ meta'[r].n = meta[r].n + 1
                   /\ meta'[r].revs = meta[r].revs \cup {job[w][r].rev}
  <2>1. meta[r] \in [n : Nat, revs : SUBSET (1..MaxRev)]
    BY DEF MetaType
  <2>2. CASE r \in S
    BY <1>2, <2>1, <2>2
  <2>3. CASE r \notin S
    BY <1>2, <2>1, <2>3
  <2> QED
    BY <2>2, <2>3
<1>4. MetaType'
  <2>1. DOMAIN meta' = Recipient /\ meta' = [r \in Recipient |-> meta'[r]]
    BY <1>2
  <2> QED
    BY <1>3, <2>1 DEF MetaType
<1> QED
  BY <1>1, <1>3, <1>4

-----------------------------------------------------------------------------
(* The inductive invariant.                                                *)

\* The recipient may still be handed to Meta by w.
Active(w, r) == job[w][r].at \in {"start", "armed"}

\* The function in a batch holds the lease; one that is not has no recipients.
Alone(w) ==
  /\ work[w].at \in {"working", "finishing"}
       => bc.lease = w /\ bc.live /\ bc.status \in {"processing", "paused"}
  /\ work[w].at # "working" => \A r \in Recipient : job[w][r].at = "none"

\* A recipient in the queue, or about to be sent, was not sent yet.
Fresh(r) ==
  /\ meta[r].n <= 1
  /\ rcp[r].status = "queued"
       => meta[r].n = 0 /\ \A w \in Worker : ~Active(w, r)
  /\ \A w \in Worker : Active(w, r) => meta[r].n = 0

\* What Meta has accepted, and what is about to be sent, is the flow's revision
\* as long as the broadcast is pending; before it starts there is nothing.
Frozen(r) ==
  /\ bc.status \in {"none", "creating"} => meta[r].revs = {}
  /\ bc.status \in Pending => meta[r].revs \subseteq {flow.rev}
  /\ \A w \in Worker : job[w][r].at = "armed" => job[w][r].rev = flow.rev

\* A message is logged before its recipient is marked, and the status copied
\* to the recipient is a later one.
Logging(r) ==
  /\ msg[r] # "queued"
  /\ \A w \in Worker :
       /\ job[w][r].seen # "queued"
       /\ job[w][r].at \in {"ran", "marked"} => msg[r] # "none"
       /\ job[w][r].at = "copy" => job[w][r].seen # "accepted"

\* A status that waits to be written to the recipient.
Late(r) ==
  \/ \E w \in Worker : rcp[r].token = w /\ job[w][r].at \in {"marked", "copy"}
  \/ \E h \in Hook : hook[h].to = r /\ hook[h].at = "recipient"
Race(r) ==
  rcp[r].status = "accepted" /\ rcp[r].wamid /\ msg[r] # "accepted" /\ r \notin lag
    => Late(r)

Named(h) == hook[h].at # "idle" => hook[h].to \in Reported

BroadcastInv ==
  /\ TypeOK
  /\ \A w \in Worker : Alone(w)
  /\ \A h \in Hook : Named(h)
  /\ \A r \in Recipient : Fresh(r) /\ Frozen(r) /\ Logging(r) /\ Race(r)
  /\ SameRevision /\ CompletedIsWhole

-----------------------------------------------------------------------------
(* Consequences of the invariant that its proof uses again and again.      *)

LEMMA Types ==
  ASSUME TypeOK
  PROVE  /\ JobType /\ RowType /\ BatchType /\ MetaType /\ HookType
         /\ bc \in BroadcastRow
         /\ \A w \in Worker, r \in Recipient : job[w][r] \in JobState
         /\ \A r \in Recipient : /\ rcp[r] \in RecipientRow
                                 /\ meta[r].n \in Nat /\ meta[r].revs \subseteq 1..MaxRev
                                 /\ msg[r] \in {"none", "failed"} \cup Message
  BY DEF TypeOK, JobType, RowType, BatchType, MetaType, HookType

\* A recipient in hand is in the batch of the function that holds the lease.
LEMMA InHand ==
  ASSUME BroadcastInv, NEW w \in Worker, NEW r \in Recipient, job[w][r].at # "none"
  PROVE  /\ work[w].at = "working" /\ bc.lease = w /\ bc.live
         /\ bc.status \in {"processing", "paused"}
         /\ \A u \in Worker \ {w}, q \in Recipient : job[u][q].at = "none"
  BY DEF BroadcastInv, Alone

LEMMA ArmedRev ==
  ASSUME BroadcastInv, NEW w \in Worker, NEW r \in Recipient, job[w][r].at = "armed"
  PROVE  job[w][r].rev = flow.rev /\ job[w][r].rev \in 1..MaxRev
  BY DEF BroadcastInv, TypeOK, Frozen

-----------------------------------------------------------------------------
(* Steps of people and of the cron.                                        *)

\* Only the broadcast, its flow and the connection change: the lease stays,
\* the flow changes only while nothing is pending.
Managed ==
  /\ UNCHANGED <<rcp, msg, work, job, hook, meta, lag>>
  /\ bc'.lease = bc.lease
  /\ bc'.live = bc.live \/ \A w \in Worker : w = bc.lease => work[w].at = "idle"
  /\ \/ bc'.status = bc.status
     \/ bc.status = "none" /\ bc'.status = "creating"
     \/ bc.status \in {"creating", "scheduled"} /\ bc'.status \in {"scheduled", "processing"}
     \/ bc.status = "scheduled" /\ bc'.status = "cancelled"
     \/ bc.status \in {"processing", "paused"} /\ bc'.status \in {"processing", "paused"}
  /\ flow' = flow \/ (FlowFree /\ bc'.status = bc.status)

LEMMA ManagedKeeps ==
  ASSUME BroadcastInv, TypeOK', Managed
  PROVE  BroadcastInv'
<1>1. \A w \in Worker : Alone(w)'
  BY DEF BroadcastInv, Managed, Alone
<1>2. \A h \in Hook : Named(h)'
  BY DEF BroadcastInv, Managed, Named
<1>3. ASSUME NEW r \in Recipient PROVE Fresh(r)' /\ Logging(r)' /\ Race(r)'
  BY Zenon DEF BroadcastInv, Managed, Fresh, Active, Logging, Race, Late
<1>4. ASSUME NEW r \in Recipient PROVE Frozen(r)'
  <2>1. CASE flow' = flow
    BY <2>1 DEF BroadcastInv, Managed, Frozen, Pending
  <2>2. CASE FlowFree /\ bc'.status = bc.status
    <3>1. \A w \in Worker : job[w][r].at = "none"
      BY <2>2, InHand DEF FlowFree, Pending
    <3> QED
      BY <2>2, <3>1 DEF BroadcastInv, Managed, Frozen, FlowFree
  <2> QED
    BY <2>1, <2>2 DEF Managed
<1>5. SameRevision' /\ CompletedIsWhole'
  BY DEF BroadcastInv, Managed, SameRevision, CompletedIsWhole
<1> QED
  BY <1>1, <1>2, <1>3, <1>4, <1>5 DEF BroadcastInv

\* The status of the broadcast changes to s, and its lease does not.
BroadcastMoves(s) ==
  /\ bc' \in BroadcastRow
  /\ bc'.status = s /\ bc'.lease = bc.lease /\ bc'.live = bc.live

LEMMA BroadcastStays ==
  ASSUME bc \in BroadcastRow, UNCHANGED bc
  PROVE  BroadcastMoves(bc.status)
  BY DEF BroadcastMoves

LEMMA BroadcastSet ==
  ASSUME bc \in BroadcastRow,
         NEW s \in {"none", "creating", "completed", "cancelled"} \cup Pending
  PROVE  /\ bc' = [bc EXCEPT !.status = s] => BroadcastMoves(s)
         /\ bc' = [bc EXCEPT !.status = s, !.stale = FALSE] => BroadcastMoves(s)
<1> DEFINE b == [bc EXCEPT !.status = s]
           c == [bc EXCEPT !.status = s, !.stale = FALSE]
<1>1. b \in BroadcastRow /\ b.status = s /\ b.lease = bc.lease /\ b.live = bc.live
  BY DEF BroadcastRow
<1>2. c \in BroadcastRow /\ c.status = s /\ c.lease = bc.lease /\ c.live = bc.live
  BY DEF BroadcastRow
<1> HIDE DEF b, c
<1>3. (bc' = b \/ bc' = c) => BroadcastMoves(s)
  BY <1>1, <1>2 DEF BroadcastMoves
<1> QED
  BY <1>3 DEF b, c

LEMMA StaleMoves ==
  ASSUME bc \in BroadcastRow, NEW x \in BOOLEAN, bc' = [bc EXCEPT !.stale = x]
  PROVE  BroadcastMoves(bc.status)
<1> DEFINE b == [bc EXCEPT !.stale = x]
<1>1. b \in BroadcastRow /\ b.status = bc.status /\ b.lease = bc.lease /\ b.live = bc.live
  BY DEF BroadcastRow
<1> HIDE DEF b
<1>2. bc' = b
  BY DEF b
<1> QED
  BY <1>1, <1>2 DEF BroadcastMoves

LEMMA DisturbType ==
  ASSUME TypeOK, NEW f, Disturb(f)
  PROVE  spent' \in 0..MaxFaults
  BY BroadcastAssumption DEF TypeOK, Disturb

\* How the flow may be edited.
LEMMA FlowType ==
  ASSUME TypeOK, EditFlow
  PROVE  flow' \in [rev : 1..MaxRev, active : BOOLEAN] /\ spent' \in 0..MaxFaults
<1> DEFINE F == [rev : 1..MaxRev, active : BOOLEAN]
<1>1. flow \in F /\ MaxRev \in Nat /\ spent \in 0..MaxFaults
  BY BroadcastAssumption DEF TypeOK
<1>2. ASSUME flow.rev < MaxRev, flow' = [flow EXCEPT !.rev = @ + 1]
      PROVE  flow' \in F
  <2> DEFINE k == flow.rev + 1
  <2>1. k \in 1..MaxRev
    BY <1>1, <1>2
  <2>2. flow' = [flow EXCEPT !.rev = k]
    BY <1>2
  <2> HIDE DEF k
  <2> QED
    BY <1>1, <2>1, <2>2
<1>3. (flow' = [flow EXCEPT !.active = TRUE] \/ flow' = [flow EXCEPT !.active = FALSE])
        => flow' \in F
  BY <1>1
<1>4. flow' \in F
  BY <1>2, <1>3 DEF EditFlow
<1>5. spent' \in 0..MaxFaults
  BY <1>1, DisturbType DEF EditFlow
<1> QED
  BY <1>4, <1>5

LEMMA PeopleKeep ==
  ASSUME BroadcastInv, People \/ RunScheduled \/ CallLost \/ Age \/ Expire
  PROVE  BroadcastInv'
<1>1. TypeOK /\ bc \in BroadcastRow
  BY DEF BroadcastInv, TypeOK
<1>2. \A s \in {"none", "creating", "completed", "cancelled"} \cup Pending :
        /\ bc' = [bc EXCEPT !.status = s] => BroadcastMoves(s)
        /\ bc' = [bc EXCEPT !.status = s, !.stale = FALSE] => BroadcastMoves(s)
  BY <1>1, BroadcastSet
<1>3. ASSUME bc' \in BroadcastRow, flow' \in [rev : 1..MaxRev, active : BOOLEAN],
             conn' \in BOOLEAN, call' \in BOOLEAN, spent' \in 0..MaxFaults,
             Managed
      PROVE  BroadcastInv'
  BY <1>1, <1>3, ManagedKeeps, Zenon DEF TypeOK, Managed
<1>4. /\ flow \in [rev : 1..MaxRev, active : BOOLEAN] /\ conn \in BOOLEAN /\ call \in BOOLEAN
      /\ spent \in 0..MaxFaults
  BY <1>1 DEF TypeOK
<1>5. CASE CreateBegin
  <2>1. BroadcastMoves("creating")
    BY <1>2, <1>5 DEF CreateBegin
  <2> QED
    BY <1>3, <1>4, <1>5, <2>1 DEF CreateBegin, Managed, BroadcastMoves
<1>6. CASE CreateEnd
  <2>1. \E s \in {"scheduled", "processing"} : BroadcastMoves(s) /\ call' = (s = "processing")
    BY <1>2, <1>6 DEF CreateEnd, Pending
  <2> QED
    BY <1>3, <1>4, <1>6, <2>1 DEF CreateEnd, Managed, BroadcastMoves
<1>7. CASE EditFlow
  <2>1. BroadcastMoves(bc.status)
    BY <1>1, <1>7, BroadcastStays DEF EditFlow
  <2> QED
    BY <1>1, <1>3, <1>4, <1>7, <2>1, FlowType DEF EditFlow, Managed, BroadcastMoves
<1>8. CASE ChangeConnection
  <2>1. BroadcastMoves(bc.status)
    BY <1>1, <1>8, BroadcastStays DEF ChangeConnection
  <2>2. spent' \in 0..MaxFaults
    BY <1>1, <1>4, <1>8, DisturbType DEF ChangeConnection
  <2> QED
    BY <1>3, <1>4, <1>8, <2>1, <2>2 DEF ChangeConnection, Managed, BroadcastMoves
<1>9. CASE Pause
  <2>1. BroadcastMoves("paused") /\ spent' \in 0..MaxFaults
    BY <1>1, <1>2, <1>9, DisturbType DEF Pause, Pending
  <2> QED
    BY <1>3, <1>4, <1>9, <2>1 DEF Pause, Managed, BroadcastMoves
<1>10. CASE Resume
  <2>1. BroadcastMoves("processing")
    BY <1>2, <1>10 DEF Resume, Pending
  <2> QED
    BY <1>3, <1>4, <1>10, <2>1 DEF Resume, Managed, BroadcastMoves
<1>11. CASE Cancel
  <2>1. BroadcastMoves("cancelled")
    BY <1>2, <1>11 DEF Cancel
  <2> QED
    BY <1>3, <1>4, <1>11, <2>1 DEF Cancel, Managed, BroadcastMoves
<1>12. CASE Nudge
  <2>1. BroadcastMoves(bc.status)
    BY <1>1, <1>12, StaleMoves DEF Nudge
  <2> QED
    BY <1>3, <1>4, <1>12, <2>1 DEF Nudge, Managed, BroadcastMoves
<1>13. CASE RunScheduled
  <2>1. BroadcastMoves("processing")
    BY <1>2, <1>13 DEF RunScheduled, Pending
  <2> QED
    BY <1>3, <1>4, <1>13, <2>1 DEF RunScheduled, Stalled, Managed, BroadcastMoves
<1>14. CASE CallLost
  <2>1. BroadcastMoves(bc.status) /\ spent' \in 0..MaxFaults
    BY <1>1, <1>14, BroadcastStays, DisturbType DEF CallLost
  <2> QED
    BY <1>3, <1>4, <1>14, <2>1 DEF CallLost, Managed, BroadcastMoves
<1>15. CASE Age
  <2>1. BroadcastMoves(bc.status)
    BY <1>1, <1>15, StaleMoves DEF Age
  <2> QED
    BY <1>3, <1>4, <1>15, <2>1 DEF Age, Managed, BroadcastMoves
<1>16. CASE Expire
  <2> DEFINE b == [bc EXCEPT !.live = FALSE]
  <2>1. b \in BroadcastRow /\ b.status = bc.status /\ b.lease = bc.lease
    BY <1>1 DEF BroadcastRow
  <2>2. bc' = b
    BY <1>16 DEF Expire
  <2> HIDE DEF b
  <2> QED
    BY <1>3, <1>4, <1>16, <2>1, <2>2 DEF Expire, Managed
<1> QED
  BY <1>5, <1>6, <1>7, <1>8, <1>9, <1>10, <1>11, <1>12, <1>13, <1>14, <1>15, <1>16
  DEF People

-----------------------------------------------------------------------------
(* Steps of a batch in a recipient.                                        *)

\* w handles r: nothing else changes, the row never goes back to the queue nor
\* is taken up again, and only a request that was armed reaches Meta.
Handles(w, r) ==
  /\ UNCHANGED <<bc, flow, hook>>
  /\ JobType' /\ RowType' /\ BatchType' /\ MetaType'
  /\ job[w][r].at \notin {"none", "over"}
  /\ \A u \in Worker : work'[u].at = work[u].at
  /\ \A u \in Worker \ {w} : job'[u] = job[u]
  /\ \A q \in Recipient \ {r} :
       /\ job'[w][q] = job[w][q] /\ rcp'[q] = rcp[q] /\ msg'[q] = msg[q]
       /\ meta'[q] = meta[q] /\ (q \in lag' <=> q \in lag)
  /\ rcp'[r].status \in {"queued", "processing"} => rcp'[r].status = rcp[r].status
  /\ job'[w][r].at \in {"start", "armed"} => job[w][r].at \in {"start", "armed"}
  /\ job'[w][r].at = "armed" => job'[w][r].rev = flow.rev
  /\ \/ meta'[r] = meta[r]
     \/ Sends(r, job[w][r].rev) /\ job[w][r].at = "armed" /\ job'[w][r].at \notin {"start", "armed"}

LEMMA HandlesKeeps ==
  ASSUME BroadcastInv, NEW w \in Worker, NEW r \in Recipient, Handles(w, r)
  PROVE  /\ \A u \in Worker : Alone(u)'
         /\ \A h \in Hook : Named(h)'
         /\ \A q \in Recipient : Fresh(q)' /\ Frozen(q)'
         /\ \A q \in Recipient \ {r} : Logging(q)' /\ Race(q)'
         /\ SameRevision' /\ CompletedIsWhole'
<1>1. /\ work[w].at = "working" /\ bc.lease = w /\ bc.live
      /\ bc.status \in {"processing", "paused"}
      /\ \A u \in Worker \ {w}, q \in Recipient : job[u][q].at = "none"
  BY InHand DEF Handles
<1>2. \A u \in Worker \ {w}, q \in Recipient : job'[u][q].at = "none"
  BY <1>1 DEF Handles
<1>3. ASSUME NEW u \in Worker PROVE Alone(u)'
  <2>1. CASE u = w
    BY <1>1, <2>1 DEF Alone, Handles
  <2>2. CASE u # w
    BY <1>1, <2>2 DEF BroadcastInv, Alone, Handles
  <2> QED
    BY <2>1, <2>2
<1>4. \A h \in Hook : Named(h)'
  BY DEF BroadcastInv, Named, Handles
<1>5. ASSUME NEW q \in Recipient PROVE Fresh(q)'
  <2>1. Fresh(q) /\ meta[q].n \in Nat
    BY Types DEF BroadcastInv
  <2>2. CASE q # r
    <3>1. /\ meta'[q] = meta[q] /\ rcp'[q] = rcp[q]
          /\ \A u \in Worker : job'[u][q] = job[u][q]
      BY <2>2 DEF Handles
    <3> QED
      BY <2>1, <3>1 DEF Fresh, Active
  <2>3. CASE q = r
    <3>1. \A u \in Worker : Active(u, r)' => u = w /\ Active(w, r)
      BY <1>2 DEF Handles, Active
    <3>2. CASE meta'[r] = meta[r]
      BY <2>1, <2>3, <3>1, <3>2 DEF Fresh, Handles
    <3>3. CASE Sends(r, job[w][r].rev) /\ job[w][r].at = "armed"
               /\ job'[w][r].at \notin {"start", "armed"}
      <4>1. Active(w, r) /\ \A u \in Worker : ~Active(u, r)'
        BY <3>1, <3>3 DEF Active
      <4>2. meta[r].n = 0 /\ rcp[r].status # "queued"
        BY <2>1, <2>3, <4>1 DEF Fresh
      <4>3. meta'[r].n = 1
        BY <3>3, <4>2 DEF Sends
      <4>4. rcp'[r].status # "queued"
        BY <4>2 DEF Handles
      <4> QED
        BY <2>3, <4>1, <4>3, <4>4 DEF Fresh
    <3> QED
      BY <3>2, <3>3 DEF Handles
  <2> QED
    BY <2>2, <2>3
<1>6. ASSUME NEW q \in Recipient PROVE meta'[q].revs \subseteq {flow.rev}
  <2>1. meta[q].revs \subseteq {flow.rev}
    BY <1>1 DEF BroadcastInv, Frozen, Pending
  <2>2. CASE q = r /\ Sends(r, job[w][r].rev) /\ job[w][r].at = "armed"
    <3>1. job[w][r].rev = flow.rev
      BY <2>2, ArmedRev
    <3> QED
      BY <2>1, <2>2, <3>1 DEF Sends
  <2> QED
    BY <2>1, <2>2 DEF Handles
<1>7. ASSUME NEW q \in Recipient PROVE Frozen(q)'
  <2>1. \A u \in Worker : job'[u][q].at = "armed" => job'[u][q].rev = flow.rev
    <3>1. CASE q = r
      BY <1>2, <3>1 DEF Handles
    <3>2. CASE q # r
      BY <1>2, <3>2, ArmedRev DEF Handles
    <3> QED
      BY <3>1, <3>2
  <2> QED
    BY <1>1, <1>6, <2>1 DEF Frozen, Handles
<1>8. ASSUME NEW q \in Recipient \ {r} PROVE Logging(q)' /\ Race(q)'
  <2>1. /\ msg'[q] = msg[q] /\ rcp'[q] = rcp[q] /\ (q \in lag' <=> q \in lag)
        /\ \A u \in Worker : job'[u][q] = job[u][q]
        /\ hook' = hook
    BY DEF Handles
  <2>2. Logging(q) /\ Race(q)
    BY DEF BroadcastInv
  <2>3. Logging(q)'
    BY <2>1, <2>2 DEF Logging
  <2>4. Late(q) => Late(q)'
    BY <2>1 DEF Late
  <2>5. Race(q)'
    BY <2>1, <2>2, <2>4 DEF Race
  <2> QED
    BY <2>3, <2>5
<1>9. SameRevision'
  <2>1. flow.rev \in 1..MaxRev
    BY DEF BroadcastInv, TypeOK
  <2>2. \A q, p \in Recipient : meta'[q].revs \cup meta'[p].revs \in {{}, {flow.rev}}
    BY <1>6
  <2> QED
    BY <2>1, <2>2 DEF SameRevision
<1>10. CompletedIsWhole'
  BY <1>1 DEF CompletedIsWhole, Handles
<1> QED
  BY <1>3, <1>4, <1>5, <1>7, <1>8, <1>9, <1>10

\* What is left to show of a recipient that w handles.
LEMMA HandlesDone ==
  ASSUME BroadcastInv, NEW w \in Worker, NEW r \in Recipient, Handles(w, r),
         TypeOK', Logging(r)', Race(r)'
  PROVE  BroadcastInv'
<1>1. /\ \A u \in Worker : Alone(u)'
      /\ \A h \in Hook : Named(h)'
      /\ \A q \in Recipient : Fresh(q)' /\ Frozen(q)'
      /\ \A q \in Recipient \ {r} : Logging(q)' /\ Race(q)'
      /\ SameRevision' /\ CompletedIsWhole'
  BY HandlesKeeps
<1>2. \A q \in Recipient : Logging(q)' /\ Race(q)'
  BY <1>1
<1> QED
  BY <1>1, <1>2 DEF BroadcastInv

\* A write to the job and one to the row of r make up a step that handles r.
LEMMA HandlesIf ==
  ASSUME NEW w \in Worker, NEW r \in Recipient,
         NEW a, NEW v, NEW s, JobMoves(w, r, a, v, s),
         NEW st, NEW k, NEW m, RowMoves(r, st, k, m),
         UNCHANGED <<bc, flow, hook>>,
         BatchType', \A u \in Worker : work'[u].at = work[u].at,
         MetaType', \A q \in Recipient \ {r} : meta'[q] = meta[q] /\ msg'[q] = msg[q],
         \A q \in Recipient \ {r} : q \in lag' <=> q \in lag,
         job[w][r].at \notin {"none", "over"},
         st \in {"queued", "processing"} => st = rcp[r].status,
         a \in {"start", "armed"} => job[w][r].at \in {"start", "armed"},
         a = "armed" => v = flow.rev,
         \/ meta'[r] = meta[r]
         \/ Sends(r, job[w][r].rev) /\ job[w][r].at = "armed" /\ a \notin {"start", "armed"}
  PROVE  /\ Handles(w, r)
         /\ job'[w][r].at = a /\ job'[w][r].seen = s
         /\ rcp'[r].status = st /\ rcp'[r].token = k /\ rcp'[r].wamid = m
         /\ \A u \in Worker : u # w => job'[u][r] = job[u][r]
  BY Zenon DEF Handles, JobMoves, RowMoves

\* What is left to show of a recipient r that w takes from a step that is neither
\* "marked" nor "copy" to one that is not "copy".
LEMMA EarlyDone ==
  ASSUME BroadcastInv, NEW w \in Worker, NEW r \in Recipient, UNCHANGED hook,
         \A u \in Worker : u # w => job'[u][r] = job[u][r],
         job[w][r].at \notin {"marked", "copy"}, job'[w][r].at # "copy",
         job'[w][r].seen \in {job[w][r].seen, "accepted"},
         job'[w][r].at \in {"ran", "marked"} => msg'[r] # "none",
         msg'[r] = msg[r] \/ msg'[r] = "accepted",
         \/ rcp'[r].status = rcp[r].status /\ rcp'[r].token = rcp[r].token
            /\ rcp'[r].wamid = rcp[r].wamid
         \/ rcp'[r].status # "accepted"
         \/ rcp'[r].token = w /\ job'[w][r].at = "marked",
         r \notin lag' => r \notin lag
  PROVE  Logging(r)' /\ Race(r)'
<1>1. Logging(r) /\ Race(r)
  BY DEF BroadcastInv
<1>2. Logging(r)'
  <2>1. msg'[r] # "queued" /\ (msg[r] # "none" => msg'[r] # "none")
    BY <1>1 DEF Logging
  <2>2. ASSUME NEW u \in Worker
        PROVE  /\ job'[u][r].seen # "queued"
               /\ job'[u][r].at \in {"ran", "marked"} => msg'[r] # "none"
               /\ job'[u][r].at = "copy" => job'[u][r].seen # "accepted"
    <3>1. CASE u = w
      BY <1>1, <3>1 DEF Logging
    <3>2. CASE u # w
      BY <1>1, <2>1, <3>2 DEF Logging
    <3> QED
      BY <3>1, <3>2
  <2> QED
    BY <2>1, <2>2 DEF Logging
<1>3. Race(r)'
  <2>1. CASE rcp'[r].status = rcp[r].status /\ rcp'[r].token = rcp[r].token
             /\ rcp'[r].wamid = rcp[r].wamid
    <3>1. Late(r) => Late(r)'
      BY <2>1 DEF Late
    <3> QED
      BY <1>1, <2>1, <3>1 DEF Race
  <2>2. CASE rcp'[r].token = w /\ job'[w][r].at = "marked"
    BY <2>2 DEF Race, Late
  <2> QED
    BY <2>1, <2>2 DEF Race
<1> QED
  BY <1>2, <1>3

\* The types after a step that w takes in r.
LEMMA HandlesTypes ==
  ASSUME TypeOK, JobType', RowType', BatchType', MetaType',
         UNCHANGED <<bc, flow, conn, call, hook>>,
         msg' \in [Recipient -> {"none", "failed"} \cup Message],
         spent' \in 0..MaxFaults, lag' \subseteq Recipient
  PROVE  TypeOK'
  BY Zenon DEF TypeOK, JobType, RowType, BatchType, MetaType

LEMMA ReadFlowKeeps ==
  ASSUME BroadcastInv, NEW w \in Worker, NEW r \in Recipient, ReadFlow(w, r)
  PROVE  BroadcastInv'
<1>1. TypeOK /\ JobType /\ RowType /\ BatchType /\ MetaType
  BY Types DEF BroadcastInv
<1>2. /\ UNCHANGED <<bc, rcp, msg, flow, conn, call, work, hook, meta, spent, lag>>
      /\ job[w][r].at = "start"
  BY DEF ReadFlow
<1>3. JobMoves(w, r, "armed", flow.rev, job[w][r].seen)
  BY <1>1, ReadFlowMoves
<1>4. RowMoves(r, rcp[r].status, rcp[r].token, rcp[r].wamid)
  BY <1>1, <1>2, RowStays DEF RowKept
<1>5. BatchType' /\ MetaType'
  BY <1>1, <1>2 DEF BatchType, MetaType
<1>6. /\ Handles(w, r)
      /\ job'[w][r].at = "armed" /\ job'[w][r].seen = job[w][r].seen
      /\ rcp'[r].status = rcp[r].status /\ rcp'[r].token = rcp[r].token
      /\ rcp'[r].wamid = rcp[r].wamid
      /\ \A u \in Worker : u # w => job'[u][r] = job[u][r]
  BY <1>2, <1>3, <1>4, <1>5, HandlesIf
<1>7. TypeOK'
  BY <1>1, <1>2, <1>6, HandlesTypes DEF Handles, TypeOK
<1>8. Logging(r)' /\ Race(r)'
  BY <1>2, <1>6, EarlyDone
<1> QED
  BY <1>6, <1>7, <1>8, HandlesDone

LEMMA RefusedKeeps ==
  ASSUME BroadcastInv, NEW w \in Worker, NEW r \in Recipient, Refused(w, r)
  PROVE  BroadcastInv'
<1>1. TypeOK /\ JobType /\ RowType /\ BatchType /\ MetaType
  BY Types DEF BroadcastInv
<1>2. /\ UNCHANGED <<bc, flow, conn, call, hook, msg, meta, spent, lag>> /\ Refuse(w, r)
      /\ job[w][r].at \in {"start", "armed"}
  BY DEF Refused, Refuse
<1>3. PICK v : JobMoves(w, r, "over", v, "accepted")
  BY <1>1, <1>2, RefuseMoves
<1>4. PICK st \in {rcp[r].status, "failed"} : RowMoves(r, st, rcp[r].token, rcp[r].wamid)
  BY <1>1, <1>2, RefuseMoves DEF RowKept
<1>5. BatchType' /\ MetaType' /\ \A u \in Worker : work'[u].at = work[u].at
  BY <1>1, <1>2, RefusedBatch DEF BatchMoves, MetaType
<1>6. /\ Handles(w, r)
      /\ job'[w][r].at = "over" /\ job'[w][r].seen = "accepted"
      /\ rcp'[r].status = st /\ rcp'[r].token = rcp[r].token
      /\ rcp'[r].wamid = rcp[r].wamid
      /\ \A u \in Worker : u # w => job'[u][r] = job[u][r]
  BY <1>2, <1>3, <1>4, <1>5, HandlesIf
<1>7. TypeOK'
  BY <1>1, <1>2, <1>6, HandlesTypes DEF Handles, TypeOK
<1>8. Logging(r)' /\ Race(r)'
  BY <1>2, <1>6, EarlyDone
<1> QED
  BY <1>6, <1>7, <1>8, HandlesDone

LEMMA AcceptedKeeps ==
  ASSUME BroadcastInv, NEW w \in Worker, NEW r \in Recipient, Accepted(w, r)
  PROVE  BroadcastInv'
<1>1. TypeOK /\ JobType /\ RowType /\ BatchType /\ MetaType
  BY Types DEF BroadcastInv
<1>2. /\ UNCHANGED <<bc, rcp, msg, flow, conn, call, work, hook, spent, lag>>
      /\ job[w][r].at = "armed" /\ Taken(w, r) /\ Step(w, r, "taken")
  BY DEF Accepted
<1>3. JobMoves(w, r, "taken", job[w][r].rev, job[w][r].seen)
  BY <1>1, <1>2, StepMoves
<1>4. RowMoves(r, rcp[r].status, rcp[r].token, rcp[r].wamid)
  BY <1>1, <1>2, RowStays DEF RowKept
<1>5. Sends(r, job[w][r].rev)
  BY <1>1, <1>2, ArmedRev, TakenMoves
<1>6. BatchType' /\ MetaType' /\ \A q \in Recipient \ {r} : meta'[q] = meta[q]
  BY <1>1, <1>2, <1>5 DEF BatchType, Sends
<1>7. /\ Handles(w, r)
      /\ job'[w][r].at = "taken" /\ job'[w][r].seen = job[w][r].seen
      /\ rcp'[r].status = rcp[r].status /\ rcp'[r].token = rcp[r].token
      /\ rcp'[r].wamid = rcp[r].wamid
      /\ \A u \in Worker : u # w => job'[u][r] = job[u][r]
  BY <1>2, <1>3, <1>4, <1>5, <1>6, HandlesIf
<1>8. TypeOK'
  BY <1>1, <1>2, <1>7, HandlesTypes DEF Handles, TypeOK
<1>9. Logging(r)' /\ Race(r)'
  BY <1>2, <1>7, EarlyDone
<1> QED
  BY <1>7, <1>8, <1>9, HandlesDone

LEMMA AnswerLostKeeps ==
  ASSUME BroadcastInv, NEW w \in Worker, NEW r \in Recipient, AnswerLost(w, r)
  PROVE  BroadcastInv'
<1>1. TypeOK /\ JobType /\ RowType /\ BatchType /\ MetaType
  BY Types DEF BroadcastInv
<1>2. /\ UNCHANGED <<bc, msg, flow, conn, call, work, hook, lag>>
      /\ job[w][r].at = "armed" /\ Taken(w, r) /\ Refuse(w, r) /\ spent' \in 0..MaxFaults
  BY <1>1, DisturbType DEF AnswerLost, Refuse
<1>3. PICK v : JobMoves(w, r, "over", v, "accepted")
  BY <1>1, <1>2, RefuseMoves
<1>4. PICK st \in {rcp[r].status, "failed"} : RowMoves(r, st, rcp[r].token, rcp[r].wamid)
  BY <1>1, <1>2, RefuseMoves DEF RowKept
<1>5. Sends(r, job[w][r].rev)
  BY <1>1, <1>2, ArmedRev, TakenMoves
<1>6. BatchType' /\ MetaType' /\ \A q \in Recipient \ {r} : meta'[q] = meta[q]
  BY <1>1, <1>2, <1>5 DEF BatchType, Sends
<1>7. /\ Handles(w, r)
      /\ job'[w][r].at = "over" /\ job'[w][r].seen = "accepted"
      /\ rcp'[r].status = st /\ rcp'[r].token = rcp[r].token
      /\ rcp'[r].wamid = rcp[r].wamid
      /\ \A u \in Worker : u # w => job'[u][r] = job[u][r]
  BY <1>2, <1>3, <1>4, <1>5, <1>6, HandlesIf
<1>8. TypeOK'
  BY <1>1, <1>2, <1>7, HandlesTypes DEF Handles, TypeOK
<1>9. Logging(r)' /\ Race(r)'
  BY <1>2, <1>7, EarlyDone
<1> QED
  BY <1>7, <1>8, <1>9, HandlesDone

LEMMA LoggedKeeps ==
  ASSUME BroadcastInv, NEW w \in Worker, NEW r \in Recipient, Logged(w, r)
  PROVE  BroadcastInv'
<1>1. TypeOK /\ JobType /\ RowType /\ BatchType /\ MetaType
  BY Types DEF BroadcastInv
<1>2. /\ UNCHANGED <<bc, rcp, flow, conn, call, work, hook, meta, spent, lag>>
      /\ job[w][r].at = "taken" /\ Step(w, r, "ran") /\ msg' = [msg EXCEPT ![r] = "accepted"]
  BY DEF Logged
<1>3. /\ msg' \in [Recipient -> {"none", "failed"} \cup Message]
      /\ msg'[r] = "accepted" /\ \A q \in Recipient \ {r} : msg'[q] = msg[q]
  BY <1>1, <1>2 DEF TypeOK, Message
<1>4. JobMoves(w, r, "ran", job[w][r].rev, job[w][r].seen)
  BY <1>1, <1>2, StepMoves
<1>5. RowMoves(r, rcp[r].status, rcp[r].token, rcp[r].wamid)
  BY <1>1, <1>2, RowStays DEF RowKept
<1>6. BatchType' /\ MetaType'
  BY <1>1, <1>2 DEF BatchType, MetaType
<1>7. /\ Handles(w, r)
      /\ job'[w][r].at = "ran" /\ job'[w][r].seen = job[w][r].seen
      /\ rcp'[r].status = rcp[r].status /\ rcp'[r].token = rcp[r].token
      /\ rcp'[r].wamid = rcp[r].wamid
      /\ \A u \in Worker : u # w => job'[u][r] = job[u][r]
  BY <1>2, <1>3, <1>4, <1>5, <1>6, HandlesIf
<1>8. TypeOK'
  BY <1>1, <1>2, <1>3, <1>7, HandlesTypes DEF Handles, TypeOK
<1>9. Logging(r)' /\ Race(r)'
  BY <1>2, <1>3, <1>7, EarlyDone
<1> QED
  BY <1>7, <1>8, <1>9, HandlesDone

LEMMA LogFailsKeeps ==
  ASSUME BroadcastInv, NEW w \in Worker, NEW r \in Recipient, LogFails(w, r)
  PROVE  BroadcastInv'
<1>1. TypeOK /\ JobType /\ RowType /\ BatchType /\ MetaType
  BY Types DEF BroadcastInv
<1>2. /\ UNCHANGED <<bc, flow, conn, call, work, hook, meta, lag>>
      /\ job[w][r].at = "taken" /\ Refuse(w, r) /\ spent' \in 0..MaxFaults
      /\ \E s \in {msg[r], "accepted"} : msg' = [msg EXCEPT ![r] = s]
  BY <1>1, DisturbType DEF LogFails, Refuse
<1>3. /\ msg' \in [Recipient -> {"none", "failed"} \cup Message]
      /\ msg'[r] = msg[r] \/ msg'[r] = "accepted"
      /\ \A q \in Recipient \ {r} : msg'[q] = msg[q]
  BY <1>1, <1>2 DEF TypeOK, Message
<1>4. PICK v : JobMoves(w, r, "over", v, "accepted")
  BY <1>1, <1>2, RefuseMoves
<1>5. PICK st \in {rcp[r].status, "failed"} : RowMoves(r, st, rcp[r].token, rcp[r].wamid)
  BY <1>1, <1>2, RefuseMoves DEF RowKept
<1>6. BatchType' /\ MetaType'
  BY <1>1, <1>2 DEF BatchType, MetaType
<1>7. /\ Handles(w, r)
      /\ job'[w][r].at = "over" /\ job'[w][r].seen = "accepted"
      /\ rcp'[r].status = st /\ rcp'[r].token = rcp[r].token
      /\ rcp'[r].wamid = rcp[r].wamid
      /\ \A u \in Worker : u # w => job'[u][r] = job[u][r]
  BY <1>2, <1>3, <1>4, <1>5, <1>6, HandlesIf
<1>8. TypeOK'
  BY <1>1, <1>2, <1>3, <1>7, HandlesTypes DEF Handles, TypeOK
<1>9. Logging(r)' /\ Race(r)'
  BY <1>2, <1>3, <1>7, EarlyDone
<1> QED
  BY <1>7, <1>8, <1>9, HandlesDone

LEMMA MarkAcceptedKeeps ==
  ASSUME BroadcastInv, NEW w \in Worker, NEW r \in Recipient, MarkAccepted(w, r)
  PROVE  BroadcastInv'
<1>1. TypeOK /\ JobType /\ RowType /\ BatchType /\ MetaType
  BY Types DEF BroadcastInv
<1>2. /\ UNCHANGED <<bc, msg, flow, conn, call, work, hook, meta, spent, lag>>
      /\ job[w][r].at = "ran" /\ Step(w, r, "marked")
  BY DEF MarkAccepted
<1>3. JobMoves(w, r, "marked", job[w][r].rev, job[w][r].seen)
  BY <1>1, <1>2, StepMoves
<1>4. PICK st \in {rcp[r].status, "accepted"}, m \in BOOLEAN :
        /\ RowMoves(r, st, rcp[r].token, m)
        /\ (st = rcp[r].status /\ m = rcp[r].wamid) \/ (st = "accepted" /\ rcp[r].token = w)
  <2>1. rcp[r].wamid \in BOOLEAN
    BY <1>1 DEF RowType, RecipientRow
  <2> QED
    BY <1>1, <2>1, MarkAcceptedMoves DEF RowKept
<1>5. BatchType' /\ MetaType'
  BY <1>1, <1>2 DEF BatchType, MetaType
<1>6. /\ Handles(w, r)
      /\ job'[w][r].at = "marked" /\ job'[w][r].seen = job[w][r].seen
      /\ rcp'[r].status = st /\ rcp'[r].token = rcp[r].token /\ rcp'[r].wamid = m
      /\ \A u \in Worker : u # w => job'[u][r] = job[u][r]
  BY <1>2, <1>3, <1>4, <1>5, HandlesIf
<1>7. TypeOK'
  BY <1>1, <1>2, <1>6, HandlesTypes DEF Handles, TypeOK
<1>8. msg[r] # "none"
  BY <1>2 DEF BroadcastInv, Logging
<1>9. Logging(r)' /\ Race(r)'
  BY <1>2, <1>4, <1>6, <1>8, EarlyDone
<1> QED
  BY <1>6, <1>7, <1>9, HandlesDone

LEMMA MarkFailsKeeps ==
  ASSUME BroadcastInv, NEW w \in Worker, NEW r \in Recipient, MarkFails(w, r)
  PROVE  BroadcastInv'
<1>1. TypeOK /\ JobType /\ RowType /\ BatchType /\ MetaType
  BY Types DEF BroadcastInv
<1>2. /\ UNCHANGED <<bc, rcp, msg, flow, conn, call, hook, meta, lag>>
      /\ job[w][r].at = "ran" /\ Over(w, r) /\ spent' \in 0..MaxFaults
  BY <1>1, DisturbType DEF MarkFails
<1>3. PICK v : JobMoves(w, r, "over", v, "accepted")
  BY <1>1, <1>2, OverMoves
<1>4. RowMoves(r, rcp[r].status, rcp[r].token, rcp[r].wamid)
  BY <1>1, <1>2, RowStays DEF RowKept
<1>5. BatchType' /\ MetaType' /\ \A u \in Worker : work'[u].at = work[u].at
  BY <1>1, <1>2, MarkFailsBatch DEF BatchMoves, MetaType
<1>6. /\ Handles(w, r)
      /\ job'[w][r].at = "over" /\ job'[w][r].seen = "accepted"
      /\ rcp'[r].status = rcp[r].status /\ rcp'[r].token = rcp[r].token
      /\ rcp'[r].wamid = rcp[r].wamid
      /\ \A u \in Worker : u # w => job'[u][r] = job[u][r]
  BY <1>2, <1>3, <1>4, <1>5, HandlesIf
<1>7. TypeOK'
  BY <1>1, <1>2, <1>6, HandlesTypes DEF Handles, TypeOK
<1>8. Logging(r)' /\ Race(r)'
  BY <1>2, <1>6, EarlyDone
<1> QED
  BY <1>6, <1>7, <1>8, HandlesDone

\* The same for the steps of the copy, without the race.
LEMMA LateLogging ==
  ASSUME BroadcastInv, NEW w \in Worker, NEW r \in Recipient, UNCHANGED msg,
         \A u \in Worker : u # w => job'[u][r] = job[u][r],
         job'[w][r].at \notin {"ran", "marked"}, job'[w][r].seen # "queued",
         job'[w][r].at = "copy" => job'[w][r].seen # "accepted"
  PROVE  Logging(r)'
<1>1. Logging(r)
  BY DEF BroadcastInv
<1>2. ASSUME NEW u \in Worker
      PROVE  /\ job'[u][r].seen # "queued"
             /\ job'[u][r].at \in {"ran", "marked"} => msg'[r] # "none"
             /\ job'[u][r].at = "copy" => job'[u][r].seen # "accepted"
  <2>1. CASE u = w
    BY <2>1
  <2>2. CASE u # w
    BY <1>1, <2>2 DEF Logging
  <2> QED
    BY <2>1, <2>2
<1> QED
  BY <1>1, <1>2 DEF Logging

LEMMA ReadStatusKeeps ==
  ASSUME BroadcastInv, NEW w \in Worker, NEW r \in Recipient, ReadStatus(w, r)
  PROVE  BroadcastInv'
<1>1. TypeOK /\ JobType /\ RowType /\ BatchType /\ MetaType
  BY Types DEF BroadcastInv
<1>2. /\ UNCHANGED <<bc, rcp, msg, flow, conn, call, work, hook, meta, spent, lag>>
      /\ job[w][r].at = "marked"
  BY DEF ReadStatus
<1>3. msg[r] # "none" /\ msg[r] # "queued"
  BY <1>2 DEF BroadcastInv, Logging
<1>4. PICK a, v, s :
        /\ JobMoves(w, r, a, v, s)
        /\ \/ msg[r] = "accepted" /\ a = "over" /\ s = "accepted"
           \/ msg[r] # "accepted" /\ a = "copy" /\ s = msg[r]
  BY <1>1, <1>3, ReadStatusMoves
<1>5. RowMoves(r, rcp[r].status, rcp[r].token, rcp[r].wamid)
  BY <1>1, <1>2, RowStays DEF RowKept
<1>6. BatchType' /\ MetaType'
  BY <1>1, <1>2 DEF BatchType, MetaType
<1>7. /\ Handles(w, r)
      /\ job'[w][r].at = a /\ job'[w][r].seen = s
      /\ rcp'[r].status = rcp[r].status /\ rcp'[r].token = rcp[r].token
      /\ rcp'[r].wamid = rcp[r].wamid
      /\ \A u \in Worker : u # w => job'[u][r] = job[u][r]
  BY <1>2, <1>4, <1>5, <1>6, HandlesIf
<1>8. TypeOK'
  BY <1>1, <1>2, <1>7, HandlesTypes DEF Handles, TypeOK
<1>9. Logging(r)'
  BY <1>2, <1>3, <1>4, <1>7, LateLogging
<1>10. Race(r)'
  <2>1. Race(r)
    BY DEF BroadcastInv
  <2>2. CASE msg[r] = "accepted"
    BY <1>2, <2>2 DEF Race
  <2>3. CASE msg[r] # "accepted"
    <3>1. Late(r) => Late(r)'
      BY <1>2, <1>4, <1>7, <2>3 DEF Late
    <3> QED
      BY <1>2, <2>1, <3>1 DEF Race
  <2> QED
    BY <2>2, <2>3
<1> QED
  BY <1>7, <1>8, <1>9, <1>10, HandlesDone

LEMMA CopyStatusKeeps ==
  ASSUME BroadcastInv, NEW w \in Worker, NEW r \in Recipient, CopyStatus(w, r)
  PROVE  BroadcastInv'
<1>1. TypeOK /\ JobType /\ RowType /\ BatchType /\ MetaType
  BY Types DEF BroadcastInv
<1>2. /\ UNCHANGED <<bc, msg, flow, conn, call, work, hook, meta, spent, lag>>
      /\ job[w][r].at = "copy" /\ Over(w, r)
  BY DEF CopyStatus
<1>3. PICK v : JobMoves(w, r, "over", v, "accepted")
  BY <1>1, <1>2, OverMoves
<1>4. job[w][r].seen \notin {"queued", "processing", "accepted"}
  <2>1. job[w][r] \in JobState
    BY <1>1 DEF JobType
  <2> QED
    BY <1>2, <2>1 DEF BroadcastInv, Logging, JobState, Message
<1>5. PICK st : /\ RowMoves(r, st, rcp[r].token, rcp[r].wamid)
                /\ (st = rcp[r].status /\ rcp[r].token # w) \/ st = job[w][r].seen
  BY <1>1, CopyStatusMoves DEF RowKept
<1>6. BatchType' /\ MetaType'
  BY <1>1, <1>2 DEF BatchType, MetaType
<1>7. /\ Handles(w, r)
      /\ job'[w][r].at = "over" /\ job'[w][r].seen = "accepted"
      /\ rcp'[r].status = st /\ rcp'[r].token = rcp[r].token
      /\ rcp'[r].wamid = rcp[r].wamid
      /\ \A u \in Worker : u # w => job'[u][r] = job[u][r]
  BY <1>2, <1>3, <1>4, <1>5, <1>6, HandlesIf
<1>8. TypeOK'
  BY <1>1, <1>2, <1>7, HandlesTypes DEF Handles, TypeOK
<1>9. Logging(r)'
  BY <1>2, <1>7, LateLogging
<1>10. Race(r)'
  <2>1. Race(r)
    BY DEF BroadcastInv
  <2>2. CASE st = job[w][r].seen
    BY <1>4, <1>7, <2>2 DEF Race
  <2>3. CASE st = rcp[r].status /\ rcp[r].token # w
    <3>1. Late(r) => Late(r)'
      BY <1>2, <1>7, <2>3 DEF Late
    <3> QED
      BY <1>2, <1>7, <2>1, <2>3, <3>1 DEF Race
  <2> QED
    BY <1>5, <2>2, <2>3
<1> QED
  BY <1>7, <1>8, <1>9, <1>10, HandlesDone

LEMMA CopyLostKeeps ==
  ASSUME BroadcastInv, NEW w \in Worker, NEW r \in Recipient, CopyLost(w, r)
  PROVE  BroadcastInv'
<1>1. TypeOK /\ JobType /\ RowType /\ BatchType /\ MetaType
  BY Types DEF BroadcastInv
<1>2. /\ UNCHANGED <<bc, rcp, msg, flow, conn, call, work, hook, meta>>
      /\ job[w][r].at \in {"marked", "copy"} /\ Over(w, r) /\ spent' \in 0..MaxFaults
      /\ lag' = lag \cup {r}
  BY <1>1, DisturbType DEF CopyLost
<1>3. PICK v : JobMoves(w, r, "over", v, "accepted")
  BY <1>1, <1>2, OverMoves
<1>4. RowMoves(r, rcp[r].status, rcp[r].token, rcp[r].wamid)
  BY <1>1, <1>2, RowStays DEF RowKept
<1>5. BatchType' /\ MetaType'
  BY <1>1, <1>2 DEF BatchType, MetaType
<1>6. lag' \subseteq Recipient /\ r \in lag'
      /\ \A q \in Recipient \ {r} : q \in lag' <=> q \in lag
  BY <1>1, <1>2 DEF TypeOK
<1>7. /\ Handles(w, r)
      /\ job'[w][r].at = "over" /\ job'[w][r].seen = "accepted"
      /\ \A u \in Worker : u # w => job'[u][r] = job[u][r]
  BY <1>2, <1>3, <1>4, <1>5, <1>6, HandlesIf
<1>8. TypeOK'
  BY <1>1, <1>2, <1>6, <1>7, HandlesTypes DEF Handles, TypeOK
<1>9. Logging(r)' /\ Race(r)'
  BY <1>2, <1>6, <1>7, LateLogging DEF Race
<1> QED
  BY <1>7, <1>8, <1>9, HandlesDone

-----------------------------------------------------------------------------
(* A batch begins and ends.                                                *)

LEMMA ExpireRecipientKeeps ==
  ASSUME BroadcastInv, NEW r \in Recipient, ExpireRecipient(r)
  PROVE  BroadcastInv'
<1>1. TypeOK /\ RowType
  BY Types DEF BroadcastInv
<1>2. RowType' /\ \A q \in Recipient :
        /\ rcp'[q].status = rcp[q].status /\ rcp'[q].token = rcp[q].token
        /\ rcp'[q].wamid = rcp[q].wamid
  BY <1>1, ExpireRecipientMoves DEF RowKept, RowMoves
<1>3. UNCHANGED <<bc, msg, flow, conn, call, work, job, hook, meta, spent, lag>>
  BY DEF ExpireRecipient
<1>4. TypeOK'
  BY <1>1, <1>2, <1>3 DEF TypeOK, RowType
<1>5. /\ \A w \in Worker : Alone(w)'
      /\ \A h \in Hook : Named(h)'
      /\ SameRevision'
  BY <1>3 DEF BroadcastInv, Alone, Named, SameRevision
<1>6. CompletedIsWhole'
  BY <1>2, <1>3 DEF BroadcastInv, CompletedIsWhole
<1>7. ASSUME NEW q \in Recipient PROVE Fresh(q)' /\ Frozen(q)' /\ Logging(q)' /\ Race(q)'
  <2>1. Fresh(q) /\ Frozen(q) /\ Logging(q) /\ Race(q)
    BY DEF BroadcastInv
  <2>2. Fresh(q)'
    BY <1>2, <1>3, <2>1 DEF Fresh, Active
  <2>3. Frozen(q)' /\ Logging(q)'
    BY <1>3, <2>1 DEF Frozen, Logging
  <2>4. Late(q) => Late(q)'
    BY <1>2, <1>3 DEF Late
  <2>5. Race(q)'
    BY <1>2, <1>3, <2>1, <2>4 DEF Race
  <2> QED
    BY <2>2, <2>3, <2>5
<1> QED
  BY <1>4, <1>5, <1>6, <1>7 DEF BroadcastInv

\* What is left to show when neither rows nor messages change and w loses its
\* recipients, none of which waits for a status to be copied.
LEMMA ClearedRows ==
  ASSUME BroadcastInv, NEW w \in Worker, JobType',
         \A r \in Recipient : job'[w][r].at = "none" /\ job'[w][r].seen = "accepted",
         \A u \in Worker \ {w} : job'[u] = job[u],
         UNCHANGED <<rcp, msg, hook>>, lag \subseteq lag',
         \A r \in Recipient : job[w][r].at \in {"marked", "copy"} => r \in lag'
  PROVE  \A r \in Recipient : Logging(r)' /\ Race(r)'
<1> TAKE r \in Recipient
<1>1. Logging(r) /\ Race(r)
  BY DEF BroadcastInv
<1>2. Logging(r)'
  BY <1>1 DEF Logging
<1>3. r \notin lag' => (Late(r) => Late(r)')
  BY DEF Late
<1>4. Race(r)'
  BY <1>1, <1>3 DEF Race
<1> QED
  BY <1>2, <1>4

LEMMA SettledKeeps ==
  ASSUME BroadcastInv, NEW w \in Worker, Settled(w)
  PROVE  BroadcastInv'
<1>1. TypeOK /\ JobType /\ BatchType
  BY Types DEF BroadcastInv
<1>2. PICK a \in {"idle", "finishing"} : Clears(w, a)
  BY <1>1, SettledMoves
<1>3. /\ UNCHANGED <<bc, rcp, msg, flow, conn, call, hook, meta, spent, lag>>
      /\ work[w].at = "working"
      /\ \A r \in Recipient : job[w][r].at \in {"none", "over"}
  BY DEF Settled
<1>4. /\ JobType' /\ BatchType' /\ work'[w].at = a
      /\ \A u \in Worker \ {w} : work'[u] = work[u]
      /\ \A r \in Recipient : job'[w][r].at = "none" /\ job'[w][r].seen = "accepted"
      /\ \A u \in Worker \ {w} : job'[u] = job[u]
  BY <1>2 DEF Clears, BatchMoves
<1>5. TypeOK'
  BY <1>1, <1>3, <1>4 DEF TypeOK, JobType, BatchType
<1>6. ASSUME NEW u \in Worker PROVE Alone(u)'
  <2>1. Alone(u)
    BY DEF BroadcastInv
  <2>2. CASE u = w
    BY <1>3, <1>4, <2>1, <2>2 DEF Alone
  <2>3. CASE u # w
    BY <1>3, <1>4, <2>1, <2>3 DEF Alone
  <2> QED
    BY <2>2, <2>3
<1>7. (\A h \in Hook : Named(h)') /\ SameRevision' /\ CompletedIsWhole'
  BY <1>3 DEF BroadcastInv, Named, SameRevision, CompletedIsWhole
<1>8. ASSUME NEW r \in Recipient PROVE Fresh(r)' /\ Frozen(r)'
  <2>1. Fresh(r) /\ Frozen(r)
    BY DEF BroadcastInv
  <2>2. \A u \in Worker : job'[u][r].at = "none" \/ job'[u][r] = job[u][r]
    BY <1>4
  <2> QED
    BY <1>3, <2>1, <2>2 DEF Fresh, Frozen, Active
<1>9. \A r \in Recipient : Logging(r)' /\ Race(r)'
  <2>1. \A r \in Recipient : job[w][r].at \in {"marked", "copy"} => r \in lag'
    BY <1>3
  <2> QED
    BY <1>3, <1>4, <2>1, ClearedRows
<1> QED
  BY <1>5, <1>6, <1>7, <1>8, <1>9 DEF BroadcastInv

LEMMA CrashKeeps ==
  ASSUME BroadcastInv, NEW w \in Worker, Crash(w)
  PROVE  BroadcastInv'
<1>1. TypeOK /\ JobType /\ BatchType /\ MetaType
  BY Types DEF BroadcastInv
<1>2. /\ Clears(w, "idle") /\ MetaType'
      /\ \A r \in Recipient :
           \/ meta'[r] = meta[r]
           \/ /\ job[w][r].at = "armed" /\ meta'[r].n = meta[r].n + 1
              /\ meta'[r].revs = meta[r].revs \cup {job[w][r].rev}
  BY <1>1, ArmedRev, CrashMoves
<1>3. /\ UNCHANGED <<bc, rcp, msg, flow, conn, call, hook>> /\ spent' \in 0..MaxFaults
      /\ lag' = lag \cup {r \in Recipient : job[w][r].at \in {"marked", "copy"}}
  BY <1>1, DisturbType DEF Crash
<1>4. /\ JobType' /\ BatchType' /\ work'[w].at = "idle"
      /\ \A u \in Worker \ {w} : work'[u] = work[u]
      /\ \A r \in Recipient : job'[w][r].at = "none" /\ job'[w][r].seen = "accepted"
      /\ \A u \in Worker \ {w} : job'[u] = job[u]
  BY <1>2 DEF Clears, BatchMoves
<1>5. TypeOK'
  <2>1. lag' \subseteq Recipient
    BY <1>1, <1>3 DEF TypeOK
  <2> QED
    BY <1>1, <1>2, <1>3, <1>4, <2>1 DEF TypeOK, JobType, BatchType, MetaType
<1>6. ASSUME NEW u \in Worker PROVE Alone(u)'
  <2>1. Alone(u)
    BY DEF BroadcastInv
  <2>2. CASE u = w
    BY <1>4, <2>2 DEF Alone
  <2>3. CASE u # w
    BY <1>3, <1>4, <2>1, <2>3 DEF Alone
  <2> QED
    BY <2>2, <2>3
<1>7. (\A h \in Hook : Named(h)') /\ CompletedIsWhole'
  BY <1>3 DEF BroadcastInv, Named, CompletedIsWhole
<1>8. ASSUME NEW r \in Recipient
      PROVE  /\ Fresh(r)'
             /\ bc.status \in Pending => meta'[r].revs \subseteq {flow.rev}
             /\ bc.status \notin Pending => meta'[r] = meta[r]
             /\ \A u \in Worker : job'[u][r].at = "armed" => job'[u][r].rev = flow.rev
  <2>1. Fresh(r) /\ Frozen(r) /\ meta[r].n \in Nat
    BY <1>1, Types DEF BroadcastInv
  <2>2. \A u \in Worker : job'[u][r].at = "none" \/ (u # w /\ job'[u][r] = job[u][r])
    BY <1>4
  <2>3. CASE meta'[r] = meta[r]
    BY <1>3, <2>1, <2>2, <2>3 DEF Fresh, Frozen, Active
  <2>4. CASE /\ job[w][r].at = "armed" /\ meta'[r].n = meta[r].n + 1
             /\ meta'[r].revs = meta[r].revs \cup {job[w][r].rev}
    <3>1. /\ bc.status \in {"processing", "paused"} /\ job[w][r].rev = flow.rev
          /\ \A u \in Worker \ {w} : job[u][r].at = "none"
      BY <2>4, InHand, ArmedRev
    <3>2. meta[r].n = 0 /\ rcp[r].status # "queued"
      BY <2>1, <2>4 DEF Fresh, Active
    <3>3. \A u \in Worker : job'[u][r].at = "none"
      BY <2>2, <3>1
    <3>4. meta'[r].n = 1
      BY <2>4, <3>2
    <3> QED
      BY <1>3, <2>1, <2>4, <3>1, <3>2, <3>3, <3>4 DEF Fresh, Frozen, Active, Pending
  <2> QED
    BY <1>2, <2>3, <2>4
<1>9. \A r \in Recipient : Frozen(r)'
  BY <1>3, <1>8 DEF BroadcastInv, Frozen, Pending
<1>10. SameRevision'
  <2>1. CASE bc.status \in Pending
    <3>1. flow.rev \in 1..MaxRev
      BY <1>1 DEF TypeOK
    <3>2. \A q, p \in Recipient : meta'[q].revs \cup meta'[p].revs \in {{}, {flow.rev}}
      BY <1>8, <2>1
    <3> QED
      BY <3>1, <3>2 DEF SameRevision
  <2>2. CASE bc.status \notin Pending
    BY <1>8, <2>2 DEF BroadcastInv, SameRevision
  <2> QED
    BY <2>1, <2>2
<1>11. \A r \in Recipient : Logging(r)' /\ Race(r)'
  <2>1. lag \subseteq lag'
        /\ \A r \in Recipient : job[w][r].at \in {"marked", "copy"} => r \in lag'
    BY <1>3
  <2> QED
    BY <1>3, <1>4, <2>1, ClearedRows
<1> QED
  BY <1>5, <1>6, <1>7, <1>8, <1>9, <1>10, <1>11 DEF BroadcastInv

LEMMA StartBatchKeeps ==
  ASSUME BroadcastInv, NEW w \in Worker, StartBatch(w)
  PROVE  BroadcastInv'
<1>1. TypeOK /\ BatchType /\ bc \in BroadcastRow
  BY Types DEF BroadcastInv
<1>2. /\ UNCHANGED <<rcp, msg, flow, conn, job, hook, meta, spent, lag>>
      /\ call' = FALSE /\ work[w].at = "idle"
  BY DEF StartBatch, Unused
<1>3. /\ BatchType' /\ work'[w].at \in {"idle", "checked"}
      /\ \A u \in Worker \ {w} : work'[u] = work[u]
      /\ bc' \in BroadcastRow /\ bc'.lease = bc.lease /\ bc'.live = bc.live
      /\ bc'.status = bc.status \/ (bc.status = "processing" /\ bc'.status = "paused")
  <2>1. CASE UNCHANGED <<bc, work>>
    BY <1>1, <1>2, <2>1 DEF BatchType
  <2>2. CASE UNCHANGED bc /\ BatchMoves(w, "checked")
    BY <1>1, <1>2, <2>2 DEF BatchMoves
  <2>3. CASE /\ bc.status = "processing" /\ UNCHANGED work
             /\ bc' \in BroadcastRow /\ bc'.status = "paused"
             /\ bc'.lease = bc.lease /\ bc'.live = bc.live
    BY <1>1, <1>2, <2>3 DEF BatchType
  <2> QED
    BY <1>1, <2>1, <2>2, <2>3, StartBatchMoves
<1>4. TypeOK'
  BY <1>1, <1>2, <1>3, Zenon DEF TypeOK, BatchType
<1>5. ASSUME NEW u \in Worker PROVE Alone(u)'
  <2>1. Alone(u)
    BY DEF BroadcastInv
  <2>2. CASE u = w
    BY <1>2, <1>3, <2>1, <2>2 DEF Alone
  <2>3. CASE u # w
    BY <1>2, <1>3, <2>1, <2>3 DEF Alone
  <2> QED
    BY <2>2, <2>3
<1>6. (\A h \in Hook : Named(h)') /\ SameRevision' /\ CompletedIsWhole'
  BY <1>2, <1>3 DEF BroadcastInv, Named, SameRevision, CompletedIsWhole
<1>7. ASSUME NEW r \in Recipient PROVE Fresh(r)' /\ Frozen(r)' /\ Logging(r)' /\ Race(r)'
  <2>1. Fresh(r) /\ Frozen(r) /\ Logging(r) /\ Race(r)
    BY DEF BroadcastInv
  <2>2. Fresh(r)' /\ Logging(r)'
    BY <1>2, <2>1, Zenon DEF Fresh, Active, Logging
  <2>3. Race(r)'
    BY <1>2, <2>1, Zenon DEF Race, Late
  <2>4. Frozen(r)'
    BY <1>2, <1>3, <2>1 DEF Frozen, Pending
  <2> QED
    BY <2>2, <2>3, <2>4
<1> QED
  BY <1>4, <1>5, <1>6, <1>7 DEF BroadcastInv

LEMMA FinishKeeps ==
  ASSUME BroadcastInv, NEW w \in Worker, Finish(w)
  PROVE  BroadcastInv'
<1>1. TypeOK /\ BatchType /\ bc \in BroadcastRow
  BY Types DEF BroadcastInv
<1>2. /\ UNCHANGED <<rcp, msg, flow, conn, job, hook, meta, spent, lag>>
      /\ call' \in BOOLEAN
  BY <1>1 DEF Finish, TypeOK
<1>3. /\ work[w].at = "finishing"
      /\ BatchType' /\ work'[w].at = "idle"
      /\ \A u \in Worker \ {w} : work'[u] = work[u]
  BY <1>1, FinishMoves DEF BatchMoves
<1>4. /\ bc.lease = w /\ bc.live /\ bc.status \in {"processing", "paused"}
      /\ \A r \in Recipient, u \in Worker : job[u][r].at = "none"
  BY <1>3, InHand DEF BroadcastInv, Alone
<1>5. /\ bc' \in BroadcastRow
      /\ \/ bc'.status \in {"processing", "paused"}
         \/ bc'.status = "completed" /\ Exhausted
  BY <1>1, <1>4, FinishMoves
<1>6. TypeOK'
  BY <1>1, <1>2, <1>3, <1>5, Zenon DEF TypeOK, BatchType
<1>7. ASSUME NEW u \in Worker PROVE Alone(u)'
  <2>1. work'[u].at \notin {"working", "finishing"}
    BY <1>3, <1>4 DEF BroadcastInv, Alone
  <2> QED
    BY <1>2, <1>4, <2>1 DEF Alone
<1>8. (\A h \in Hook : Named(h)') /\ SameRevision'
  BY <1>2 DEF BroadcastInv, Named, SameRevision
<1>9. CompletedIsWhole'
  BY <1>2, <1>5 DEF CompletedIsWhole, Exhausted, Has
<1>10. ASSUME NEW r \in Recipient PROVE Fresh(r)' /\ Frozen(r)' /\ Logging(r)' /\ Race(r)'
  <2>1. Fresh(r) /\ Frozen(r) /\ Logging(r) /\ Race(r)
    BY DEF BroadcastInv
  <2>2. Fresh(r)' /\ Logging(r)'
    BY <1>2, <2>1, Zenon DEF Fresh, Active, Logging
  <2>3. Race(r)'
    BY <1>2, <2>1, Zenon DEF Race, Late
  <2>4. Frozen(r)'
    BY <1>2, <1>4, <1>5, <2>1 DEF Frozen, Pending
  <2> QED
    BY <2>2, <2>3, <2>4
<1> QED
  BY <1>6, <1>7, <1>8, <1>9, <1>10 DEF BroadcastInv

LEMMA ClaimKeeps ==
  ASSUME BroadcastInv, NEW w \in Worker, Claim(w)
  PROVE  BroadcastInv'
<1>1. TypeOK /\ BatchType /\ bc \in BroadcastRow
  BY Types DEF BroadcastInv
<1>2. UNCHANGED <<msg, flow, conn, call, hook, meta, spent, lag>>
  BY DEF Claim
<1>3. work[w].at = "checked" /\ \A r \in Recipient : job[w][r].at = "none"
  BY <1>1, ClaimEffect DEF BroadcastInv, Alone
<1>4. CASE UNCHANGED <<bc, rcp, job>> /\ BatchMoves(w, "idle")
  <2>1. BatchType' /\ work'[w].at = "idle" /\ \A u \in Worker \ {w} : work'[u] = work[u]
    BY <1>4 DEF BatchMoves
  <2>2. TypeOK'
    BY <1>1, <1>2, <1>4, <2>1, Zenon DEF TypeOK, BatchType
  <2>3. ASSUME NEW u \in Worker PROVE Alone(u)'
    <3>1. Alone(u)
      BY DEF BroadcastInv
    <3>2. CASE u = w
      BY <1>3, <1>4, <2>1, <3>2 DEF Alone
    <3>3. CASE u # w
      BY <1>4, <2>1, <3>1, <3>3 DEF Alone
    <3> QED
      BY <3>2, <3>3
  <2>4. (\A h \in Hook : Named(h)') /\ SameRevision' /\ CompletedIsWhole'
    BY <1>2, <1>4 DEF BroadcastInv, Named, SameRevision, CompletedIsWhole
  <2>5. \A r \in Recipient : Fresh(r)' /\ Frozen(r)' /\ Logging(r)' /\ Race(r)'
    <3> TAKE r \in Recipient
    <3>1. Fresh(r) /\ Frozen(r) /\ Logging(r) /\ Race(r)
      BY DEF BroadcastInv
    <3>2. Fresh(r)' /\ Frozen(r)' /\ Logging(r)'
      BY <1>2, <1>4, <3>1 DEF Fresh, Active, Frozen, Logging
    <3>3. Race(r)'
      BY <1>2, <1>4, <3>1, Zenon DEF Race, Late
    <3> QED
      BY <3>2, <3>3
  <2> QED
    BY <2>2, <2>3, <2>4, <2>5 DEF BroadcastInv
<1>5. ASSUME bc.status = "processing", LeaseOpen,
             bc' \in BroadcastRow, bc'.status = "processing", bc'.lease = w, bc'.live,
             NEW B \in SUBSET Recipient, Claims(w, B)
      PROVE  BroadcastInv'
  <2>1. /\ RowType' /\ JobType' /\ BatchType'
        /\ \A r \in B : /\ rcp[r].status = "queued" /\ rcp'[r].status = "processing"
                        /\ job'[w][r].at = "start" /\ job'[w][r].seen = "accepted"
        /\ \A r \in Recipient \ B :
             /\ \/ rcp'[r] = rcp[r]
                \/ rcp[r].status = "processing" /\ rcp'[r].status = "failed"
             /\ job'[w][r].at = "none" /\ job'[w][r].seen = "accepted"
        /\ \A u \in Worker \ {w} : job'[u] = job[u] /\ work'[u] = work[u]
        /\ work'[w].at = IF B = {} THEN "finishing" ELSE "working"
    BY <1>5 DEF Claims
  <2>2. TypeOK'
    BY <1>1, <1>2, <1>5, <2>1, Zenon DEF TypeOK, JobType, RowType, BatchType
  <2>3. \A u \in Worker : work[u].at \notin {"working", "finishing"}
    BY <1>1, <1>5, BroadcastAssumption DEF LeaseOpen, BroadcastInv, Alone
  <2>4. \A u \in Worker, r \in Recipient : job[u][r].at = "none"
    BY <2>3, InHand
  <2>5. ASSUME NEW u \in Worker PROVE Alone(u)'
    <3>1. CASE u = w
      BY <1>5, <2>1, <3>1 DEF Alone
    <3>2. CASE u # w
      BY <2>1, <2>3, <2>4, <3>2 DEF Alone
    <3> QED
      BY <3>1, <3>2
  <2>6. (\A h \in Hook : Named(h)') /\ SameRevision' /\ CompletedIsWhole'
    BY <1>2, <1>5 DEF BroadcastInv, Named, SameRevision, CompletedIsWhole
  <2>7. ASSUME NEW r \in Recipient PROVE Fresh(r)' /\ Frozen(r)' /\ Logging(r)' /\ Race(r)'
    <3>1. Fresh(r) /\ Frozen(r) /\ Logging(r) /\ Race(r)
      BY DEF BroadcastInv
    <3>2. \A u \in Worker : /\ job'[u][r].at \in {"none", "start"}
                            /\ Active(u, r)' => r \in B
      BY <2>1, <2>4 DEF Active
    <3>3. Fresh(r)'
      <4>1. CASE r \in B
        BY <1>2, <2>1, <3>1, <4>1 DEF Fresh
      <4>2. CASE r \notin B
        BY <1>2, <2>1, <3>1, <3>2, <4>2 DEF Fresh
      <4> QED
        BY <4>1, <4>2
    <3>4. Frozen(r)'
      BY <1>2, <1>5, <3>1, <3>2 DEF Frozen, Pending
    <3>5. Logging(r)'
      <4>1. \A u \in Worker : job'[u][r].seen # "queued"
        <5> TAKE u \in Worker
        <5>1. CASE u = w
          BY <2>1, <5>1
        <5>2. CASE u # w
          BY <2>1, <3>1, <5>2 DEF Logging
        <5> QED
          BY <5>1, <5>2
      <4> QED
        BY <1>2, <3>1, <3>2, <4>1 DEF Logging
    <3>6. Race(r)'
      <4>1. CASE r \in B
        BY <2>1, <4>1 DEF Race
      <4>2. CASE r \notin B /\ rcp'[r].status = "failed"
        BY <4>2 DEF Race
      <4>3. CASE rcp'[r] = rcp[r]
        <5>1. Late(r) => Late(r)'
          BY <1>2, <2>4, <4>3 DEF Late
        <5> QED
          BY <1>2, <3>1, <4>3, <5>1 DEF Race
      <4> QED
        BY <2>1, <4>1, <4>2, <4>3
    <3> QED
      BY <3>3, <3>4, <3>5, <3>6
  <2> QED
    BY <2>2, <2>5, <2>6, <2>7 DEF BroadcastInv
<1> QED
  BY <1>1, <1>4, <1>5, ClaimEffect

-----------------------------------------------------------------------------
(* Webhooks.                                                               *)

\* Of the batches and the other hooks a step of hook h changes nothing.
HookKeeps(h) ==
  /\ UNCHANGED <<bc, flow, conn, call, work, job, meta>>
  /\ \A g \in Hook \ {h} : hook'[g] = hook[g]

LEMMA HookFrame ==
  ASSUME BroadcastInv, NEW h \in Hook, HookKeeps(h), Named(h)', CompletedIsWhole',
         TypeOK',
         \A r \in Recipient : rcp'[r].status = "queued" => rcp[r].status = "queued",
         \A r \in Recipient : Logging(r)' /\ Race(r)'
  PROVE  BroadcastInv'
<1>1. (\A u \in Worker : Alone(u)') /\ SameRevision'
  BY DEF BroadcastInv, HookKeeps, Alone, SameRevision
<1>2. \A g \in Hook : Named(g)'
  BY DEF BroadcastInv, HookKeeps, Named
<1>3. ASSUME NEW r \in Recipient PROVE Fresh(r)' /\ Frozen(r)'
  BY DEF BroadcastInv, HookKeeps, Fresh, Active, Frozen
<1> QED
  BY <1>1, <1>2, <1>3 DEF BroadcastInv

\* The hooks that wait to write to r are the same, but for h.
LEMMA LateOthers ==
  ASSUME NEW h \in Hook, NEW r \in Recipient, HookKeeps(h), Late(r),
         rcp'[r].token = rcp[r].token,
         hook[h].at = "recipient" /\ hook[h].to = r
           => hook'[h].at = "recipient" /\ hook'[h].to = r
  PROVE  Late(r)'
  BY DEF HookKeeps, Late

LEMMA ReceiveFindKeeps ==
  ASSUME BroadcastInv, NEW h \in Hook,
         Find(h) \/ \E r \in Reported, s \in Reports : Receive(h, r, s)
  PROVE  BroadcastInv'
<1>1. TypeOK /\ HookType
  BY Types DEF BroadcastInv
<1>2. UNCHANGED <<bc, rcp, msg, flow, conn, call, work, job, meta, spent, lag>>
      /\ hook[h].at \in {"idle", "find"}
  BY DEF Find, Receive
<1>3. PICK a, r : /\ HookMoves(h, a, r) /\ a \in {"idle", "find", "write"}
                  /\ a # "idle" => r \in Reported
  <2>1. CASE Find(h)
    <3>1. hook[h].to \in Reported
      BY <2>1 DEF BroadcastInv, Named, Find
    <3> QED
      BY <1>1, <2>1, <3>1, FindMoves
  <2>2. CASE \E r \in Reported, s \in Reports : Receive(h, r, s)
    BY <1>1, <2>2, ReceiveMoves
  <2> QED
    BY <2>1, <2>2
<1>4. HookType' /\ HookKeeps(h) /\ Named(h)' /\ hook'[h].at = a
  BY <1>2, <1>3 DEF HookMoves, HookKeeps, Named
<1>5. TypeOK' /\ CompletedIsWhole'
  BY <1>1, <1>2, <1>4, Zenon DEF TypeOK, HookType, BroadcastInv, CompletedIsWhole
<1>6. ASSUME NEW q \in Recipient PROVE Logging(q)' /\ Race(q)'
  <2>1. Logging(q) /\ Race(q)
    BY DEF BroadcastInv
  <2>2. Late(q) => Late(q)'
    BY <1>2, <1>4, LateOthers
  <2>3. Logging(q)'
    BY <1>2, <2>1 DEF Logging
  <2>4. Race(q)'
    BY <1>2, <2>1, <2>2 DEF Race
  <2> QED
    BY <2>3, <2>4
<1> QED
  BY <1>2, <1>4, <1>5, <1>6, HookFrame

LEMMA WriteMessageKeeps ==
  ASSUME BroadcastInv, NEW h \in Hook, WriteMessage(h)
  PROVE  BroadcastInv'
<1>1. TypeOK /\ HookType /\ hook[h] \in HookState
  BY Types DEF BroadcastInv, HookType
<1>2. UNCHANGED <<bc, rcp, flow, conn, call, work, job, meta, spent, lag>>
      /\ hook[h].at = "write" /\ msg' = [msg EXCEPT ![hook[h].to] = hook[h].says]
  BY DEF WriteMessage
<1>3. hook[h].to \in Reported /\ Reported \subseteq Recipient
      /\ hook[h].says \in {"sent", "delivered", "read", "failed"}
  BY <1>1, <1>2, BroadcastAssumption, ReportsTypes DEF BroadcastInv, Named
<1>4. HookMoves(h, "recipient", hook[h].to)
  BY <1>1, WriteMessageMoves
<1>5. PICK r \in Recipient, s \in {"sent", "delivered", "read", "failed"} :
        r = hook[h].to /\ s = hook[h].says
  BY <1>3
<1>6. HookType' /\ HookKeeps(h) /\ Named(h)' /\ hook'[h].at = "recipient" /\ hook'[h].to = r
  BY <1>2, <1>3, <1>4, <1>5 DEF HookMoves, HookKeeps, Named
<1>7. /\ msg' \in [Recipient -> {"none", "failed"} \cup Message]
      /\ msg'[r] = s /\ \A q \in Recipient \ {r} : msg'[q] = msg[q]
  BY <1>1, <1>2, <1>5 DEF TypeOK, Message
<1>8. TypeOK' /\ CompletedIsWhole'
  BY <1>1, <1>2, <1>6, <1>7, Zenon DEF TypeOK, HookType, BroadcastInv, CompletedIsWhole
<1>9. ASSUME NEW q \in Recipient PROVE Logging(q)' /\ Race(q)'
  <2>1. Logging(q) /\ Race(q)
    BY DEF BroadcastInv
  <2>2. CASE q = r
    <3>1. Late(r)'
      BY <1>6 DEF Late
    <3>2. Logging(r)'
      BY <1>2, <1>7, <2>1, <2>2 DEF Logging
    <3> QED
      BY <2>2, <3>1, <3>2 DEF Race
  <2>3. CASE q # r
    <3>1. Late(q) => Late(q)'
      BY <1>2, <1>6, LateOthers
    <3>2. Logging(q)'
      BY <1>2, <1>7, <2>1, <2>3 DEF Logging
    <3>3. Race(q)'
      BY <1>2, <1>7, <2>1, <2>3, <3>1 DEF Race
    <3> QED
      BY <3>2, <3>3
  <2> QED
    BY <2>2, <2>3
<1> QED
  BY <1>2, <1>6, <1>8, <1>9, HookFrame

LEMMA WriteRecipientKeeps ==
  ASSUME BroadcastInv, NEW h \in Hook, WriteRecipient(h)
  PROVE  BroadcastInv'
<1>1. TypeOK /\ HookType /\ RowType /\ hook[h] \in HookState
  BY Types DEF BroadcastInv, HookType
<1>2. UNCHANGED <<bc, msg, flow, conn, call, work, job, meta, spent, lag>>
      /\ hook[h].at = "recipient" /\ Rest(h)
  BY DEF WriteRecipient
<1>3. hook[h].to \in Recipient /\ hook[h].says \in {"sent", "delivered", "read", "failed"}
  BY <1>1, <1>2, BroadcastAssumption, ReportsTypes DEF BroadcastInv, Named
<1>4. HookMoves(h, "idle", Listening.to)
  BY <1>1, <1>2, RestMoves
<1>5. HookType' /\ HookKeeps(h) /\ Named(h)'
  BY <1>2, <1>4 DEF HookMoves, HookKeeps, Named
<1>6. PICK r \in Recipient, s \in {"sent", "delivered", "read", "failed"} :
        /\ r = hook[h].to
        /\ (RowKept(r) /\ ~rcp[r].wamid) \/ RowMoves(r, s, rcp[r].token, TRUE)
  BY <1>1, <1>3, WriteRecipientMoves
<1>7. /\ RowType' /\ \A q \in Recipient \ {r} : rcp'[q] = rcp[q]
      /\ rcp'[r].token = rcp[r].token
      /\ \/ rcp'[r].status = rcp[r].status /\ ~rcp'[r].wamid
         \/ rcp'[r].status = s
  BY <1>6 DEF RowKept, RowMoves
<1>8. TypeOK' /\ CompletedIsWhole'
  <2>1. TypeOK'
    BY <1>1, <1>2, <1>5, <1>7, Zenon DEF TypeOK, HookType, RowType
  <2>2. \A q \in Recipient : rcp'[q].status \in {"queued", "processing"}
                               => rcp'[q].status = rcp[q].status
    BY <1>7
  <2>3. CompletedIsWhole'
    BY <1>2, <2>2 DEF BroadcastInv, CompletedIsWhole
  <2> QED
    BY <2>1, <2>3
<1>9. ASSUME NEW q \in Recipient PROVE Logging(q)' /\ Race(q)'
  <2>1. Logging(q) /\ Race(q)
    BY DEF BroadcastInv
  <2>2. Logging(q)'
    BY <1>2, <2>1 DEF Logging
  <2>3. CASE q = r
    <3>1. ~rcp'[r].wamid \/ rcp'[r].status # "accepted"
      BY <1>7
    <3> QED
      BY <2>2, <2>3, <3>1, Zenon DEF Race
  <2>4. CASE q # r
    <3>1. rcp'[q] = rcp[q]
      BY <1>7, <2>4
    <3>2. Late(q) => Late(q)'
      BY <1>5, <1>6, <2>4, <3>1, LateOthers
    <3> QED
      BY <1>2, <2>1, <2>2, <3>1, <3>2 DEF Race
  <2> QED
    BY <2>3, <2>4
<1>10. \A q \in Recipient : rcp'[q].status = "queued" => rcp[q].status = "queued"
  BY <1>7
<1> QED
  BY <1>5, <1>8, <1>9, <1>10, HookFrame

LEMMA HookFailsKeeps ==
  ASSUME BroadcastInv, NEW h \in Hook, HookFails(h)
  PROVE  BroadcastInv'
<1>1. TypeOK /\ HookType
  BY Types DEF BroadcastInv
<1>2. /\ UNCHANGED <<bc, rcp, msg, flow, conn, call, work, job, meta>> /\ Rest(h)
      /\ spent' \in 0..MaxFaults
      /\ lag' = IF hook[h].at = "recipient" THEN lag \cup {hook[h].to} ELSE lag
  BY <1>1, DisturbType DEF HookFails
<1>3. HookMoves(h, "idle", Listening.to)
  BY <1>1, <1>2, RestMoves
<1>4. HookType' /\ HookKeeps(h) /\ Named(h)'
  BY <1>2, <1>3 DEF HookMoves, HookKeeps, Named
<1>5. lag' \subseteq Recipient
  BY <1>1, <1>2, BroadcastAssumption DEF BroadcastInv, Named, TypeOK
<1>6. TypeOK' /\ CompletedIsWhole'
  BY <1>1, <1>2, <1>4, <1>5, Zenon DEF TypeOK, HookType, BroadcastInv, CompletedIsWhole
<1>7. ASSUME NEW q \in Recipient PROVE Logging(q)' /\ Race(q)'
  <2>1. Logging(q) /\ Race(q)
    BY DEF BroadcastInv
  <2>2. Logging(q)'
    BY <1>2, <2>1 DEF Logging
  <2>3. q \notin lag' => q \notin lag /\ (Late(q) => Late(q)')
    <3> SUFFICES ASSUME q \notin lag'
                 PROVE  q \notin lag /\ (Late(q) => Late(q)')
      OBVIOUS
    <3>1. q \notin lag /\ ~(hook[h].at = "recipient" /\ hook[h].to = q)
      BY <1>2
    <3> QED
      BY <1>2, <1>4, <3>1, LateOthers
  <2>4. Race(q)'
    BY <1>2, <2>1, <2>3 DEF Race
  <2> QED
    BY <2>2, <2>4
<1> QED
  BY <1>2, <1>4, <1>6, <1>7, HookFrame

-----------------------------------------------------------------------------
(* The theorems.                                                           *)

LEMMA Initially == ASSUME Init PROVE BroadcastInv
<1>1. TypeOK
  <2>1. Idle \in BatchState
    BY DEF Idle, BatchState
  <2>2. bc \in BroadcastRow
    BY DEF Init, BroadcastRow
  <2>3. rcp \in [Recipient -> RecipientRow]
    BY DEF Init, RecipientRow, RowStatus, Message
  <2>4. flow \in [rev : 1..MaxRev, active : BOOLEAN] /\ spent \in 0..MaxFaults
    <3>1. 1 \in 1..MaxRev /\ 0 \in 0..MaxFaults
      BY BroadcastAssumption
    <3> QED
      BY <3>1, Zenon DEF Init
  <2>5. meta \in [Recipient -> [n : Nat, revs : SUBSET (1..MaxRev)]]
    BY DEF Init
  <2> QED
    BY <2>1, <2>2, <2>3, <2>4, <2>5, NoJobType, ListeningType, Zenon DEF Init, TypeOK
<1>2. \A w \in Worker : Alone(w)
  BY NoJobType DEF Init, Alone, Idle
<1>3. \A h \in Hook : Named(h)
  BY ListeningType DEF Init, Named
<1>4. ASSUME NEW r \in Recipient PROVE Fresh(r) /\ Frozen(r) /\ Logging(r) /\ Race(r)
  <2>1. /\ bc.status = "none" /\ msg[r] = "none" /\ meta[r].n = 0 /\ meta[r].revs = {}
        /\ rcp[r].status = "queued"
    BY DEF Init
  <2>2. \A w \in Worker : job[w][r] = NoJob
    BY DEF Init
  <2> QED
    BY <2>1, <2>2, NoJobType DEF Fresh, Active, Frozen, Logging, Race, Pending
<1>5. SameRevision /\ CompletedIsWhole
  BY DEF Init, SameRevision, CompletedIsWhole
<1> QED
  BY <1>1, <1>2, <1>3, <1>4, <1>5 DEF BroadcastInv

LEMMA EveryStep == ASSUME BroadcastInv, [Next]_vars PROVE BroadcastInv'
<1>1. CASE People \/ RunScheduled \/ CallLost \/ Age \/ Expire
  BY <1>1, PeopleKeep
<1>2. ASSUME NEW r \in Recipient, ExpireRecipient(r) PROVE BroadcastInv'
  BY <1>2, ExpireRecipientKeeps
<1>3. ASSUME NEW w \in Worker, Batch(w) PROVE BroadcastInv'
  <2>1. ASSUME NEW r \in Recipient,
               \/ ReadFlow(w, r) \/ Refused(w, r) \/ Accepted(w, r) \/ Logged(w, r)
               \/ MarkAccepted(w, r) \/ ReadStatus(w, r) \/ CopyStatus(w, r)
        PROVE  BroadcastInv'
    BY <2>1, ReadFlowKeeps, RefusedKeeps, AcceptedKeeps, LoggedKeeps, MarkAcceptedKeeps,
       ReadStatusKeeps, CopyStatusKeeps
  <2>2. CASE StartBatch(w) \/ Claim(w) \/ Settled(w) \/ Finish(w)
    BY <2>2, StartBatchKeeps, ClaimKeeps, SettledKeeps, FinishKeeps
  <2> QED
    BY <1>3, <2>1, <2>2 DEF Batch, Recipients
<1>4. ASSUME NEW w \in Worker, Disturbed(w) PROVE BroadcastInv'
  BY <1>4, CrashKeeps, AnswerLostKeeps, LogFailsKeeps, MarkFailsKeeps, CopyLostKeeps
  DEF Disturbed
<1>5. ASSUME NEW h \in Hook, Hooks(h) PROVE BroadcastInv'
  BY <1>5, ReceiveFindKeeps, WriteMessageKeeps, WriteRecipientKeeps, HookFailsKeeps
  DEF Hooks
<1>6. CASE UNCHANGED vars
  <2>1. TypeOK' /\ SameRevision' /\ CompletedIsWhole'
    BY <1>6 DEF BroadcastInv, vars, TypeOK, SameRevision, CompletedIsWhole
  <2>2. (\A w \in Worker : Alone(w)') /\ \A h \in Hook : Named(h)'
    BY <1>6 DEF BroadcastInv, vars, Alone, Named
  <2>3. ASSUME NEW r \in Recipient PROVE Fresh(r)' /\ Frozen(r)' /\ Logging(r)' /\ Race(r)'
    <3>1. Fresh(r) /\ Frozen(r) /\ Logging(r) /\ Race(r)
      BY DEF BroadcastInv
    <3> QED
      BY <1>6, <3>1 DEF vars, Fresh, Active, Frozen, Logging, Race, Late
  <2> QED
    BY <2>1, <2>2, <2>3 DEF BroadcastInv
<1> QED
  BY <1>1, <1>2, <1>3, <1>4, <1>5, <1>6 DEF Next, Time

\* The invariant the properties below follow from, for any number of recipients,
\* functions, webhooks, revisions and disturbances.
THEOREM BroadcastInvariance == Spec => []BroadcastInv
<1>1. Init => BroadcastInv
  BY Initially
<1>2. BroadcastInv /\ [Next]_vars => BroadcastInv'
  BY EveryStep
<1> QED
  BY <1>1, <1>2, PTL DEF Spec

\* Meta accepts at most one initial message for a recipient
\* (claim_official_broadcast_batch never repeats an interrupted attempt).
THEOREM AtMostOnceHolds == Spec => []AtMostOnce
<1>1. BroadcastInv => AtMostOnce
  BY DEF BroadcastInv, Fresh, AtMostOnce
<1> QED
  BY <1>1, BroadcastInvariance, PTL

\* All recipients of a broadcast get one revision of the flow
\* (protect_pending_official_broadcast_flow).
THEOREM SameRevisionHolds == Spec => []SameRevision
<1>1. BroadcastInv => SameRevision
  BY DEF BroadcastInv
<1> QED
  BY <1>1, BroadcastInvariance, PTL

\* A completed broadcast leaves nobody queued or half sent
\* (finish_official_broadcast_batch).
THEOREM CompletedIsWholeHolds == Spec => []CompletedIsWhole
<1>1. BroadcastInv => CompletedIsWhole
  BY DEF BroadcastInv
<1> QED
  BY <1>1, BroadcastInvariance, PTL

\* A recipient does not stay 'accepted' when its message went further, whether the
\* copy of the status after the wamid was stored or the webhook came first
\* (processBroadcastBatch, applyMetaMessageStatus).  Which of the later statuses it
\* has is not said: the copy may overwrite a newer one.
THEOREM RaceClosedHolds == Spec => []RaceClosed
<1>1. BroadcastInv => RaceClosed
  <2> SUFFICES ASSUME BroadcastInv, NEW r \in Recipient,
                      Quiet(r), r \notin lag, rcp[r].wamid, msg[r] # "accepted"
               PROVE  rcp[r].status # "accepted"
    BY DEF RaceClosed
  <2>1. ~Late(r)
    BY DEF Quiet, Late
  <2> QED
    BY <2>1 DEF BroadcastInv, Race
<1> QED
  BY <1>1, BroadcastInvariance, PTL
=============================================================================
