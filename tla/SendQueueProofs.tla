-------------------------- MODULE SendQueueProofs ---------------------------
(***************************************************************************)
(* Proofs about SendQueue, for any workers, numbers, rows, batches, bounds *)
(* and faults.                                                             *)
(*                                                                         *)
(* The argument for at-most-once: a claim is spent when execute() is not   *)
(* under way and its message is not, and will not be, at WhatsApp (Spent). *)
(* While a row may still be claimed, all its claims since the last decision*)
(* of a person are spent, and of a row in flight all but the newest are    *)
(* (OnceInv).  That is not inductive alone: a claim may only give a row back*)
(* while the row carries its token and the token is the newest (FenceInv), a*)
(* failure is only ever reported for a spent claim (the last conjunct of   *)
(* OnceInv), and a message is only accepted, confirmed or doubted when it was*)
(* delivered (Sane, in ClaimInv).  BufferInv says that a row still waiting in*)
(* a buffer has not been handed to execute().                              *)
(***************************************************************************)
EXTENDS SendQueueSteps, FiniteSetTheorems

-----------------------------------------------------------------------------
(* Types.                                                                  *)

RecoveryType == reclaim \in [Recovering -> [step : {"idle", "queued", "processing"},
                             queued : SUBSET Job, processing : SUBSET Job]]
BreakerType == failures \in [Session -> 0..Threshold] /\ blocked \subseteq Session

LEMMA AttemptTypes ==
  ASSUME TypeOK, NEW j \in Job, NEW t \in Token, AttemptStep(j, t)
  PROVE  TypeOK'
<1>1. RowType /\ AttType /\ SlipType
  BY DEF TypeOK, RowType, AttType, SlipType
<1>2. RowType' /\ AttType'
  BY <1>1, AttemptOthers
<1>3. UNCHANGED <<issued, base, settled>> /\ SlipType'
  BY <1>1, AttemptFrames DEF AttemptFrame
<1>4. BreakerType'
  <2>1. BreakerType
    BY DEF TypeOK, BreakerType
  <2>2. CASE Complete(j, t)
    BY <2>1, <2>2, Bounds DEF Complete, BreakerType, breaker
  <2>3. CASE MarkFailure(j, t)
    <3>1. SessionOf[j] \in Session
      BY QueueAssumption
    <3> QED
      BY <2>1, <2>3, <3>1, Bounds DEF MarkFailure, RecordFailure, BreakerType,
         breaker
  <2>4. CASE ~Complete(j, t) /\ ~MarkFailure(j, t)
    <3>1. UNCHANGED breaker
      BY <2>4, Zenon DEF AttemptStep, MarkSending, CancelBeforeSend, PhoneNotFound,
         PrepareFails, CallSendMessage,
       MessageTravels, SendAccepted, SendRejected, SendTimesOut, ItemTimesOut,
       Complete, ReadBack, RetryConfirmation, MarkForReconciliation, MarkNoIdentifier,
       FlushReconciliation, MarkUncertain, ValidateLease, MarkFailure
    <3> QED
      BY <2>1, <3>1 DEF breaker, BreakerType
  <2> QED
    BY <2>2, <2>3, <2>4
<1>5. UNCHANGED <<lease, reclaim>>
  BY Zenon DEF AttemptStep, MarkSending, CancelBeforeSend, PhoneNotFound,
     PrepareFails, CallSendMessage,
       MessageTravels, SendAccepted, SendRejected, SendTimesOut, ItemTimesOut,
       Complete, ReadBack, RetryConfirmation, MarkForReconciliation, MarkNoIdentifier,
       FlushReconciliation, MarkUncertain, ValidateLease, MarkFailure
<1> QED
  BY <1>2, <1>3, <1>4, <1>5 DEF TypeOK, RowType, AttType, SlipType, BreakerType,
     LeaseTypeOK

LEMMA ClaimTypes ==
  ASSUME TypeOK, NEW w \in Worker, Claim(w)
  PROVE  TypeOK'
<1>1. UNCHANGED <<lease, reclaim, failures, blocked, base, settled, slips>>
  BY Zenon DEF Claim, breaker, observers
<1> QED
  BY <1>1, ClaimEffect DEF TypeOK, RowType, AttType, LeaseTypeOK

LEMMA CrashTypes ==
  ASSUME TypeOK, NEW w \in Worker, Crash(w)
  PROVE  TypeOK'
<1>1. AttType'
  <2>1. ASSUME NEW j \in Job, NEW t \in Token
        PROVE  [att[j][t] EXCEPT !.main = "done", !.exec = "over"] \in Attempt
    <3>1. att[j][t] \in Attempt
      BY DEF TypeOK
    <3> QED
      BY <3>1 DEF Attempt, Main, Exec
  <2> QED
    BY <2>1 DEF Crash, AttType, TypeOK
<1>2. RecoveryType'
  BY DEF TypeOK, RecoveryType, Crash, Resting
<1> QED
  BY <1>1, <1>2 DEF TypeOK, AttType, RecoveryType, LeaseTypeOK, Crash, breaker,
     observers

LEMMA RecoveryTypes ==
  ASSUME TypeOK, NEW w \in Recovering, RecoveryStep(w)
  PROVE  TypeOK'
<1>1. RowType /\ reclaim[w] \in [step : {"idle", "queued", "processing"},
                             queued : SUBSET Job, processing : SUBSET Job]
  BY DEF TypeOK, RowType
<1>2. RowType'
  <2>1. CASE ReclaimQueued(w)
    BY <1>1, <2>1, RowsEffect DEF ReclaimQueued, Status, RowsMove
  <2>2. CASE ReclaimProcessing(w)
    BY <1>1, <2>2, RowsEffect DEF ReclaimProcessing, Status, RowsMove
  <2> QED
    BY <1>1, <2>1, <2>2 DEF RecoveryStep, ReclaimSelect, ReclaimFails, RowType
<1>3. RecoveryType'
  <2>1. Resting \in [step : {"idle", "queued", "processing"},
                             queued : SUBSET Job, processing : SUBSET Job]
    BY DEF Resting
  <2>2. ASSUME NEW k, ReclaimSelect(w, k)
        PROVE  RecoveryType'
    BY <2>2 DEF RecoveryType, TypeOK, ReclaimSelect, Expired
  <2>3. ASSUME ReclaimQueued(w)
        PROVE  RecoveryType'
    BY <1>1, <2>3 DEF RecoveryType, TypeOK, ReclaimQueued
  <2> QED
    BY <2>1, <2>2, <2>3 DEF RecoveryType, TypeOK, RecoveryStep, ReclaimProcessing,
       ReclaimFails
<1>4. SlipType'
  <2>1. SlipType
    BY DEF TypeOK, SlipType
  <2>2. ASSUME NEW J, NEW st, Overwritten(J, st) PROVE SlipType'
    BY <2>1, <2>2 DEF Overwritten, SlipType, Slip
  <2> QED
    BY <2>1, <2>2 DEF RecoveryStep, ReclaimSelect, ReclaimQueued, ReclaimProcessing,
       ReclaimFails, SlipType, observers
<1>5. UNCHANGED <<lease, issued, att, breaker, base, settled>>
  BY Zenon DEF RecoveryStep, ReclaimSelect, ReclaimQueued, ReclaimProcessing,
     ReclaimFails, observers
<1> QED
  BY <1>2, <1>3, <1>4, <1>5 DEF TypeOK, RowType, SlipType, RecoveryType,
     LeaseTypeOK, breaker

LEMMA PersonTypes ==
  ASSUME TypeOK, PersonStep
  PROVE  TypeOK'
<1>1. RowType
  BY DEF TypeOK, RowType
<1>2. RowType' /\ base' \in [Job -> 0..MaxClaims] /\ settled' \subseteq Job /\ UNCHANGED <<issued, att, slips>>
  BY <1>1, PersonEffect DEF RowMoves, RowsMove, TypeOK
<1>3. UNCHANGED <<lease, reclaim, failures, blocked>>
  BY Zenon DEF PersonStep, RetryUncertain, SettleUncertain, PauseLote, ResumeLote,
     CancelLote, Transition, CancelSenderWork, breaker
<1> QED
  BY <1>2, <1>3 DEF TypeOK, RowType, LeaseTypeOK

LEMMA LeaseMovesTypes ==
  ASSUME TypeOK, NEW s \in Session, LeaseMoves(s)
  PROVE  LeaseTypeOK'
<1>1. LeaseTypeOK /\ lease[s] \in Lease
  BY DEF TypeOK, LeaseTypeOK
<1>2. ASSUME NEW w \in Worker PROVE Taken(w, s) \in Lease
  BY <1>1 DEF Taken, Lease
<1>3. [lease[s] EXCEPT !.live = FALSE] \in Lease /\ [lease[s] EXCEPT !.live = TRUE] \in Lease
  BY <1>1 DEF Lease
<1>4. ASSUME NEW l \in Lease, lease' = [lease EXCEPT ![s] = l] PROVE LeaseTypeOK'
  BY <1>1, <1>4 DEF LeaseTypeOK
<1>5. \/ \E w \in Worker : lease' = [lease EXCEPT ![s] = Taken(w, s)]
      \/ lease' = [lease EXCEPT ![s] = [lease[s] EXCEPT !.live = FALSE]]
      \/ lease' = [lease EXCEPT ![s] = [lease[s] EXCEPT !.live = TRUE]]
  BY DEF LeaseMoves
<1> QED
  BY <1>2, <1>3, <1>4, <1>5, Zenon

LEMMA InitTypes == ASSUME Init PROVE TypeOK
<1>1. LeaseTypeOK
  BY DEF Init, LeaseInit, LeaseTypeOK, Lease
<1>2. NoAttempt \in Attempt /\ Resting \in [step : {"idle", "queued", "processing"},
                             queued : SUBSET Job, processing : SUBSET Job]
  BY DEF NoAttempt, Attempt, Main, Exec, Wire, Resting
<1>3. RowType
  <2>1. PICK D \in SUBSET Job : row = [j \in Job |-> [status |-> "pendente", token |-> 0, due |-> j \in D,
                             overdue |-> FALSE, attempts |-> 0, wa |-> 0]]
    BY DEF Init
  <2>2. \A b \in BOOLEAN : [status |-> "pendente", token |-> 0, due |-> b,
                             overdue |-> FALSE, attempts |-> 0, wa |-> 0] \in Row
    BY Bounds DEF Row, Status
  <2>3. \A j \in Job : (j \in D) \in BOOLEAN
    OBVIOUS
  <2> DEFINE r(b) == [status |-> "pendente", token |-> 0, due |-> b,
                      overdue |-> FALSE, attempts |-> 0, wa |-> 0]
  <2>4. row = [j \in Job |-> r(j \in D)] /\ \A b \in BOOLEAN : r(b) \in Row
    BY <2>1, <2>2
  <2> HIDE DEF r
  <2> QED
    BY <2>3, <2>4 DEF RowType
<1> QED
  BY <1>1, <1>2, <1>3, Bounds DEF Init, TypeOK, RowType

LEMMA NextTypes == ASSUME TypeOK, [Next]_vars PROVE TypeOK'
<1>1. ASSUME NEW j \in Job, NEW t \in Token, AttemptStep(j, t) PROVE TypeOK'
  BY <1>1, AttemptTypes
<1>2. ASSUME NEW w \in Worker, WorkerStep(w) PROVE TypeOK'
  BY <1>2, ClaimTypes, CrashTypes DEF WorkerStep
<1>3. ASSUME NEW w \in Recovering, RecoveryStep(w) PROVE TypeOK'
  BY <1>3, RecoveryTypes
<1>4. ASSUME NEW k, ResetStaleItems(k) PROVE TypeOK'
  <2>1. RowType'
    BY <1>4, RowsEffect DEF RowsMove, ResetStaleItems, TypeOK, RowType, Expired,
       Status
  <2> QED
    BY <1>4, <2>1 DEF TypeOK, RowType, LeaseTypeOK, ResetStaleItems, breaker,
       observers
<1>5. ASSUME NEW j \in Job, DeadlinePasses(j) \/ BecomesDue(j) PROVE TypeOK'
  BY <1>5, TimeEffect DEF TypeOK, RowType, RowKept, RowMoves, LeaseTypeOK
<1>6. ASSUME NEW s \in Session, CircuitCoolsDown(s) PROVE TypeOK'
  BY <1>6 DEF TypeOK, LeaseTypeOK, CircuitCoolsDown, observers
<1>7. ASSUME NEW s \in Session, LeaseMoves(s) PROVE TypeOK'
  BY <1>7, LeaseMovesTypes DEF TypeOK, LeaseMoves, breaker, observers
<1>8. CASE PersonStep
  BY <1>8, PersonTypes
<1>9. CASE UNCHANGED vars
  BY <1>9 DEF TypeOK, LeaseTypeOK, vars
<1> QED
  BY <1>1, <1>2, <1>3, <1>4, <1>5, <1>6, <1>7, <1>8, <1>9 DEF Next

\* Every state the claim functions, the workers and the people reach is of the
\* declared type.
THEOREM TypeCorrect == Spec => []TypeOK
  BY InitTypes, NextTypes, PTL DEF Spec

-----------------------------------------------------------------------------
(* The history of one row.                                                 *)

\* exec and wire of one claim fit each other.
Sane(a) ==
  /\ a.exec \in {"idle", "prepare"} => a.wire = "none"
  /\ a.exec = "sending" => a.wire # "none"
  /\ a.exec \in {"accepted", "readback", "noid", "reconcile", "deferred"} => a.wire = "delivered"
  /\ a.main = "buffered" => a.exec = "idle"
  /\ a.main \in {"failed", "failing"} => a.exec = "over"

\* The claim has put nothing on the wire that could arrive, and will not.
Spent(a) == a.exec \in {"idle", "over"} /\ a.wire \in {"none", "dropped"}

FenceInv(j) ==
  /\ row[j].token \in {0, issued[j]}
  /\ row[j].status \in {"enfileirado", "processando"} <=> row[j].token # 0
  /\ row[j].token # 0 => base[j] < row[j].token
  /\ base[j] <= issued[j]

ClaimInv(j) ==
  \A t \in Token : Sane(att[j][t]) /\ (t > issued[j] => att[j][t] = NoAttempt)

BufferInv(j) ==
  row[j].status = "enfileirado" =>
    /\ att[j][row[j].token].main \in {"buffered", "done"}
    /\ att[j][row[j].token].exec \in {"idle", "over"}

\* The claims that must be spent for the row to be sent again by the system.
OnceInv(j) ==
  slips[j] = {} =>
    /\ \A t \in Token : base[j] < t /\ t < issued[j] => Spent(att[j][t])
    /\ \/ row[j].status \in {"pendente", "enfileirado", "pausado"}
       \/ row[j].status \in {"erro", "cancelado"} /\ j \notin settled
       => \A t \in Token : base[j] < t => Spent(att[j][t])
    /\ row[j].status = "incerto" => base[j] < issued[j]
    /\ \A t \in Token : att[j][t].main \in {"failed", "failing"} => Spent(att[j][t])

TruthInv(j) ==
  row[j].status = "sucesso" /\ j \notin settled =>
    row[j].wa \in Token /\ att[j][row[j].wa].wire = "delivered"

JobInv(j) == FenceInv(j) /\ ClaimInv(j) /\ BufferInv(j) /\ OnceInv(j) /\ TruthInv(j)

JobTypes ==
  /\ RowType /\ AttType /\ SlipType
  /\ issued \in [Job -> 0..MaxClaims] /\ base \in [Job -> 0..MaxClaims]

LEMMA JobStays ==
  ASSUME NEW i \in Job, JobInv(i), row'[i] = row[i], att'[i] = att[i],
         issued'[i] = issued[i], base'[i] = base[i], slips'[i] = slips[i],
         i \in settled' <=> i \in settled
  PROVE  JobInv(i)'
  BY DEF JobInv, FenceInv, ClaimInv, BufferInv, OnceInv, TruthInv

\* A claim with main m, exec e and wire x fits; it may follow claim a.
Follows(a, m, e, x) ==
  LET b == [main |-> m, exec |-> e, wire |-> x]
  IN  /\ Sane(b)
      /\ a.wire = "delivered" => x = "delivered"
      /\ a.main \in {"buffered", "done"} => m \in {"buffered", "done"}
      /\ a.exec \in {"idle", "over"} => e \in {"idle", "over"}

ClaimFollows(j, t, m, e, x) ==
  LET b == [main |-> m, exec |-> e, wire |-> x]
  IN  /\ Follows(att[j][t], m, e, x)
      /\ slips'[j] = {} => /\ Spent(att[j][t]) => Spent(b)
                           /\ m \in {"failed", "failing"} => Spent(b)

LEMMA Claimed ==
  ASSUME JobTypes, NEW j \in Job, NEW t \in Token, JobInv(j),
         \/ att[j][t].main # "none"
         \/ att[j][t].exec # "idle"
         \/ att[j][t].wire # "none"
  PROVE  t <= issued[j]
  BY DEF JobInv, ClaimInv, NoAttempt, JobTypes, Token

\* A step of claim t that leaves the row alone.
LEMMA ClaimMoves ==
  ASSUME JobTypes, NEW j \in Job, NEW t \in Token, JobInv(j), AttemptFrame(j),
         t <= issued[j],
         NEW m, NEW e, NEW x,
         RowKept(j), AttMoves(j, t, m, e, x), ClaimFollows(j, t, m, e, x)
  PROVE  JobInv(j)'
<1>1. FenceInv(j)'
  BY DEF JobInv, FenceInv, RowKept, RowMoves, AttemptFrame
<1>2. ClaimInv(j)'
  BY DEF JobInv, ClaimInv, AttMoves, AttemptFrame, Sane, ClaimFollows, Follows,
     Token, JobTypes
<1>3. BufferInv(j)'
  BY DEF JobInv, BufferInv, FenceInv, RowKept, RowMoves, AttMoves, JobTypes, Token,
     ClaimFollows, Follows
<1>4. OnceInv(j)'
  BY Bounds DEF JobInv, OnceInv, RowKept, RowMoves, AttMoves, AttemptFrame,
     JobTypes, Spent, ClaimFollows, Token
<1>5. TruthInv(j)'
  BY DEF JobInv, TruthInv, RowKept, RowMoves, AttMoves, AttemptFrame, ClaimFollows,
     Follows
<1> QED
  BY <1>1, <1>2, <1>3, <1>4, <1>5 DEF JobInv

\* A step of claim t that gives the row up, with status st and message v.
LEMMA ClaimReleases ==
  ASSUME JobTypes, NEW j \in Job, NEW t \in Token, JobInv(j), AttemptFrame(j),
         t <= issued[j],
         NEW m, NEW e, NEW x, NEW v,
         NEW st \in {"pendente", "erro", "cancelado", "incerto", "sucesso"},
         RowMoves(j, st, 0, v), AttMoves(j, t, m, e, x), ClaimFollows(j, t, m, e, x),
         slips'[j] = {} => Fenced(j, t),
         st \in {"pendente", "erro", "cancelado"} /\ slips'[j] = {}
           => Spent([main |-> m, exec |-> e, wire |-> x]),
         st = "sucesso" => v = t /\ x = "delivered"
  PROVE  JobInv(j)'
<1>0. slips'[j] = {} => row[j].token = t /\ t = issued[j] /\ base[j] < t
  BY DEF JobInv, FenceInv, Fenced, Token
<1>1. FenceInv(j)'
  BY DEF JobInv, FenceInv, RowMoves, AttemptFrame
<1>2. ClaimInv(j)'
  BY DEF JobInv, ClaimInv, AttMoves, AttemptFrame, Sane, ClaimFollows, Follows,
     Token, JobTypes
<1>3. BufferInv(j)'
  BY DEF BufferInv, RowMoves
<1>4. OnceInv(j)'
  <2>1. /\ \A u \in Token : base[j] < u /\ u < issued[j] /\ slips'[j] = {} => Spent(att'[j][u])
        /\ \A u \in Token : att'[j][u].main \in {"failed", "failing"} /\ slips'[j] = {} => Spent(att'[j][u])
    BY Bounds DEF JobInv, OnceInv, AttMoves, AttemptFrame, JobTypes, Spent,
       ClaimFollows, Token
  <2>2. ASSUME st \in {"pendente", "erro", "cancelado"}, slips'[j] = {},
               NEW u \in Token, base[j] < u
        PROVE  Spent(att'[j][u])
    <3>1. CASE u < issued[j]
      BY <2>1, <2>2, <3>1
    <3>2. CASE u = t
      BY <2>2, <3>2 DEF AttMoves, Spent
    <3>3. CASE u > issued[j]
      BY <2>2, <3>3, <1>2 DEF ClaimInv, AttemptFrame, NoAttempt, Spent
    <3> QED
      BY <1>0, <2>2, <3>1, <3>2, <3>3, Bounds DEF Token, JobTypes
  <2> QED
    BY <1>0, <2>1, <2>2 DEF OnceInv, RowMoves, AttemptFrame
<1>5. TruthInv(j)'
  BY DEF TruthInv, RowMoves, AttMoves, AttemptFrame
<1> QED
  BY <1>1, <1>2, <1>3, <1>4, <1>5 DEF JobInv

\* A step of claim t after which the row is as it was, or in doubt.
LEMMA ClaimDoubts ==
  ASSUME JobTypes, NEW j \in Job, NEW t \in Token, JobInv(j), AttemptFrame(j),
         t <= issued[j],
         NEW m, NEW e, NEW x,
         RowDoubted(j, t), AttMoves(j, t, m, e, x), ClaimFollows(j, t, m, e, x)
  PROVE  JobInv(j)'
<1>1. CASE RowKept(j)
  BY <1>1, ClaimMoves
<1>2. CASE ~RowKept(j)
  <2>1. PICK v \in {row[j].wa, t} : Fenced(j, t) /\ RowMoves(j, "incerto", 0, v)
    BY <1>2 DEF RowDoubted
  <2> QED
    BY <2>1, ClaimReleases
<1> QED
  BY <1>1, <1>2

LEMMA MarkSendingKeeps ==
  ASSUME JobTypes, NEW j \in Job, NEW t \in Token, JobInv(j), AttemptFrame(j),
         MarkSending(j, t)
  PROVE  JobInv(j)'
<1>1. att[j][t].main = "buffered" /\ att[j][t].exec = "idle" /\ att[j][t].wire = "none" /\ t <= issued[j]
  BY MarkSendingMoves, Claimed DEF JobInv, ClaimInv, Sane, JobTypes
<1>2. CASE RowKept(j) /\ AttMoves(j, t, "done", att[j][t].exec, att[j][t].wire)
  BY <1>1, <1>2, ClaimMoves DEF ClaimFollows, Follows, Sane, Spent
<1>3. ASSUME NEW m, NEW e,
             <<m, e>> \in {<<"running", "prepare">>, <<"done", "idle">>},
             row[j].token = t, row[j].status = "enfileirado",
             RowMoves(j, "processando", row[j].token, row[j].wa), AttMoves(j, t, m, e, "none")
      PROVE  JobInv(j)'
  <2>1. FenceInv(j)'
    BY <1>3 DEF JobInv, FenceInv, RowMoves, AttemptFrame
  <2>2. ClaimInv(j)'
    BY <1>1, <1>3 DEF JobInv, ClaimInv, AttMoves, AttemptFrame, Sane, Token,
       JobTypes
  <2>3. BufferInv(j)'
    BY <1>3 DEF BufferInv, RowMoves
  <2>4. OnceInv(j)'
    <3>1. t = issued[j]
      BY <1>3 DEF JobInv, FenceInv, Token
    <3> QED
      BY <1>1, <1>3, <3>1, Bounds DEF JobInv, OnceInv, RowMoves, AttMoves,
         AttemptFrame, JobTypes, Spent, Token
  <2>5. TruthInv(j)'
    BY <1>3 DEF TruthInv, RowMoves
  <2> QED
    BY <2>1, <2>2, <2>3, <2>4, <2>5 DEF JobInv
<1> QED
  BY <1>1, <1>2, <1>3, MarkSendingMoves DEF JobTypes, Fenced

LEMMA AttemptKeeps ==
  ASSUME JobTypes, NEW j \in Job, NEW t \in Token, AttemptStep(j, t), JobInv(j)
  PROVE  JobInv(j)'
<1> DEFINE a == att[j][t]
<1>1. AttemptFrame(j)
  BY AttemptFrames DEF JobTypes
<1>2. Sane(a) /\ (slips[j] = {} /\ a.main \in {"failed", "failing"} => Spent(a))
      /\ (slips'[j] = {} => slips[j] = {})
  BY <1>1 DEF JobInv, ClaimInv, OnceInv, AttemptFrame
<1>3. a.main # "none" \/ a.exec # "idle" \/ a.wire # "none" => t <= issued[j]
  BY Claimed
<1> USE DEF ClaimFollows, Follows, Sane, Spent
<1>4. CASE MarkSending(j, t)
  BY <1>1, <1>4, MarkSendingKeeps
<1>5. CASE PrepareFails(j, t)
  BY <1>1, <1>2, <1>3, <1>5, PrepareFailsMoves, ClaimMoves DEF JobTypes, AttEnds
<1>6. CASE CallSendMessage(j, t)
  BY <1>1, <1>2, <1>3, <1>6, CallSendMessageMoves, ClaimMoves DEF JobTypes, AttEnds
<1>7. CASE MessageTravels(j, t)
  BY <1>1, <1>2, <1>3, <1>7, MessageTravelsMoves, ClaimMoves DEF JobTypes, AttEnds
<1>8. CASE SendAccepted(j, t)
  BY <1>1, <1>2, <1>3, <1>8, SendAcceptedMoves, ClaimMoves DEF JobTypes, AttEnds
<1>9. CASE SendRejected(j, t)
  BY <1>1, <1>2, <1>3, <1>9, SendRejectedMoves, ClaimMoves DEF JobTypes, AttEnds
<1>10. CASE SendTimesOut(j, t)
  BY <1>1, <1>2, <1>3, <1>10, SendTimesOutMoves, ClaimMoves DEF JobTypes, AttEnds
<1>11. CASE ItemTimesOut(j, t)
  BY <1>1, <1>2, <1>3, <1>11, ItemTimesOutMoves, ClaimMoves DEF JobTypes, AttEnds
<1>12. CASE ReadBack(j, t)
  BY <1>1, <1>2, <1>3, <1>12, ReadBackMoves, ClaimMoves DEF JobTypes, AttEnds
<1>13. CASE RetryConfirmation(j, t)
  BY <1>1, <1>2, <1>3, <1>13, RetryConfirmationMoves, ClaimMoves DEF JobTypes,
     AttEnds
<1>14. CASE ValidateLease(j, t)
  BY <1>1, <1>2, <1>3, <1>14, ValidateLeaseMoves, ClaimMoves DEF JobTypes, AttEnds
<1>15. CASE CancelBeforeSend(j, t)
  BY <1>1, <1>2, <1>3, <1>15, CancelBeforeSendMoves, ClaimReleases DEF JobTypes,
     AttEnds, WritesFenced
<1>16. CASE PhoneNotFound(j, t)
  BY <1>1, <1>2, <1>3, <1>16, PhoneNotFoundMoves, ClaimReleases DEF JobTypes,
     AttEnds, WritesFenced
<1>17. CASE Complete(j, t)
  BY <1>1, <1>2, <1>3, <1>17, CompleteMoves, ClaimMoves, ClaimReleases DEF JobTypes,
     AttEnds
<1>18. CASE MarkForReconciliation(j, t)
  BY <1>1, <1>2, <1>3, <1>18, MarkForReconciliationMoves, ClaimDoubts DEF JobTypes,
     AttEnds
<1>19. CASE FlushReconciliation(j, t)
  BY <1>1, <1>2, <1>3, <1>19, FlushReconciliationMoves, ClaimDoubts DEF JobTypes,
     AttEnds
<1>20. CASE MarkNoIdentifier(j, t)
  BY <1>1, <1>2, <1>3, <1>20, MarkNoIdentifierMoves, ClaimDoubts DEF JobTypes,
     AttEnds
<1>21. CASE MarkUncertain(j, t)
  BY <1>1, <1>2, <1>3, <1>21, MarkUncertainMoves, ClaimDoubts DEF JobTypes, AttEnds
<1>22. CASE MarkFailure(j, t)
  <2>1. /\ a.main = "failing"
        /\ AttMoves(j, t, "done", a.exec, a.wire) /\ ClaimFollows(j, t, "done", a.exec, a.wire)
    BY <1>2, <1>22, MarkFailureMoves DEF JobTypes
  <2>2. CASE RowKept(j)
    BY <1>1, <1>3, <2>1, <2>2, ClaimMoves
  <2>3. ASSUME Fenced(j, t), NEW st \in {"pendente", "erro"},
               RowMoves(j, st, 0, row[j].wa)
        PROVE  JobInv(j)'
    BY <1>1, <1>2, <1>3, <2>1, <2>3, ClaimReleases
  <2> QED
    BY <1>22, <2>2, <2>3, MarkFailureMoves DEF JobTypes
<1> QED
  BY <1>4, <1>5, <1>6, <1>7, <1>8, <1>9, <1>10, <1>11, <1>12, <1>13, <1>14, <1>15,
     <1>16, <1>17, <1>18, <1>19, <1>20, <1>21, <1>22 DEF AttemptStep

-----------------------------------------------------------------------------
(* The other steps.                                                        *)

\* The invariant: types, and the history of every row.
QueueInv == TypeOK /\ \A j \in Job : JobInv(j)

LEMMA TypesOfJobs == ASSUME TypeOK PROVE JobTypes
  BY DEF TypeOK, JobTypes, RowType, AttType, SlipType

\* A row changes its status, and nothing happens to its claims.
LEMMA StatusChanges ==
  ASSUME JobTypes, NEW j \in Job, JobInv(j), NEW st,
         row'[j].status = st, row'[j].token = 0, row'[j].wa = row[j].wa,
         att'[j] = att[j], issued'[j] = issued[j], base'[j] = base[j],
         slips[j] \subseteq slips'[j], j \in settled => j \in settled',
         st \in {"pendente", "pausado", "cancelado", "incerto", "erro", "sucesso"},
         st \in {"pendente", "pausado", "cancelado"} /\ slips'[j] = {}
           => row[j].status \in {"pendente", "enfileirado", "pausado"},
         st = "incerto" /\ slips'[j] = {} => row[j].status = "processando",
         st \in {"erro", "sucesso"} => j \in settled'
  PROVE  JobInv(j)'
<1>1. FenceInv(j)' /\ BufferInv(j)' /\ TruthInv(j)'
  BY DEF JobInv, FenceInv, BufferInv, TruthInv
<1>2. ClaimInv(j)'
  BY DEF JobInv, ClaimInv
<1>3. OnceInv(j)'
  <2>1. row[j].status = "processando" => base[j] < issued[j]
    BY DEF JobInv, FenceInv
  <2> QED
    BY <2>1 DEF JobInv, OnceInv
<1> QED
  BY <1>1, <1>2, <1>3 DEF JobInv

LEMMA InitJobs == ASSUME Init, NEW j \in Job PROVE JobInv(j)
  BY DEF Init, JobInv, FenceInv, ClaimInv, BufferInv, OnceInv, TruthInv, Sane,
     Spent, NoAttempt

LEMMA TakingKeeps ==
  ASSUME JobTypes, NEW j \in Job, JobInv(j), Taking(j), base'[j] = base[j],
         slips'[j] = slips[j],
         j \in settled' <=> j \in settled
  PROVE  JobInv(j)'
<1>1. FenceInv(j)'
  BY DEF JobInv, FenceInv, Taking, JobTypes
<1>2. ClaimInv(j)'
  BY DEF JobInv, ClaimInv, Taking, Sane, JobTypes, Token
<1>3. BufferInv(j)' /\ TruthInv(j)'
  BY DEF BufferInv, TruthInv, Taking
<1>4. OnceInv(j)'
  BY DEF JobInv, OnceInv, Taking, Spent, JobTypes, Token
<1> QED
  BY <1>1, <1>2, <1>3, <1>4 DEF JobInv

LEMMA ClaimKeeps ==
  ASSUME TypeOK, NEW w \in Worker, Claim(w), NEW j \in Job, JobInv(j)
  PROVE  JobInv(j)'
<1>1. UNCHANGED <<base, settled, slips>>
  BY Zenon DEF Claim, observers
<1> QED
  BY <1>1, ClaimEffect, TakingKeeps, JobStays, TypesOfJobs

LEMMA CrashKeeps ==
  ASSUME TypeOK, NEW w \in Worker, Crash(w), NEW j \in Job, JobInv(j)
  PROVE  JobInv(j)'
<1>1. UNCHANGED <<row, issued, base, settled, slips>>
  BY Zenon DEF Crash, observers
<1>2. ASSUME NEW t \in Token
      PROVE  \/ att'[j][t] = att[j][t]
             \/ /\ att[j][t] # NoAttempt /\ att'[j][t].main = "done" /\ att'[j][t].exec = "over"
                /\ att'[j][t].wire = att[j][t].wire
  <2>1. att[j][t] \in Attempt
    BY DEF TypeOK
  <2>2. att'[j][t] = IF att[j][t].worker = w
               THEN [att[j][t] EXCEPT !.main = "done", !.exec = "over"] ELSE att[j][t]
    BY DEF Crash
  <2>3. NoAttempt.worker # w
    BY LeaseAssumption DEF NoAttempt
  <2> QED
    BY <2>1, <2>2, <2>3 DEF Attempt
<1>3. FenceInv(j)'
  BY <1>1 DEF JobInv, FenceInv
<1>4. ClaimInv(j)'
  BY <1>1, <1>2 DEF JobInv, ClaimInv, Sane
<1>5. BufferInv(j)'
  <2>1. row[j].status = "enfileirado" => row[j].token \in Token
    BY Bounds DEF JobInv, FenceInv, TypeOK, Token
  <2> QED
    BY <1>1, <1>2, <2>1 DEF JobInv, BufferInv
<1>6. OnceInv(j)'
  BY <1>1, <1>2 DEF JobInv, OnceInv, Spent
<1>7. TruthInv(j)'
  BY <1>1, <1>2 DEF JobInv, TruthInv
<1> QED
  BY <1>3, <1>4, <1>5, <1>6, <1>7 DEF JobInv

LEMMA ReclaimKeeps ==
  ASSUME TypeOK, NEW w \in Recovering, RecoveryStep(w), NEW j \in Job, JobInv(j)
  PROVE  JobInv(j)'
<1> DEFINE R == reclaim[w]
<1>1. R.queued \subseteq Job /\ R.processing \subseteq Job /\ RowType /\ JobTypes
  BY TypesOfJobs DEF TypeOK, RowType
<1>2. UNCHANGED <<issued, att, base, settled>>
  BY Zenon DEF RecoveryStep, ReclaimSelect, ReclaimQueued, ReclaimProcessing,
     ReclaimFails, observers
<1>3. ASSUME NEW J \in SUBSET Job, NEW st \in {"pendente", "incerto"}, NEW was,
             Rows(J, st), Overwritten(J, was),
             was = IF st = "pendente" THEN "enfileirado" ELSE "processando"
      PROVE  JobInv(j)'
  <2>1. RowsMove(J, st)
    BY <1>1, <1>3, RowsEffect DEF Status
  <2>2. slips'[j] = IF j \in J /\ row[j].status # was THEN slips[j] \cup {"reclaim"} ELSE slips[j]
    BY <1>3 DEF Overwritten
  <2>3. CASE j \in J
    BY <1>1, <1>2, <1>3, <2>1, <2>2, <2>3, StatusChanges DEF RowsMove
  <2>4. CASE j \notin J
    BY <1>2, <2>1, <2>2, <2>4, JobStays DEF RowsMove
  <2> QED
    BY <2>3, <2>4
<1>4. CASE ReclaimQueued(w)
  BY <1>1, <1>3, <1>4 DEF ReclaimQueued
<1>5. CASE ReclaimProcessing(w)
  BY <1>1, <1>3, <1>5 DEF ReclaimProcessing
<1>6. CASE UNCHANGED <<row, slips>>
  BY <1>2, <1>6, JobStays
<1> QED
  BY <1>4, <1>5, <1>6 DEF RecoveryStep, ReclaimSelect, ReclaimFails, observers

LEMMA ResetKeeps ==
  ASSUME TypeOK, NEW k, ResetStaleItems(k), NEW j \in Job, JobInv(j)
  PROVE  JobInv(j)'
<1> DEFINE J == Expired("enfileirado") \cap Table(k)
<1>1. UNCHANGED <<issued, att, base, settled, slips>>
  BY Zenon DEF ResetStaleItems, observers
<1>2. RowsMove(J, "pendente")
  BY RowsEffect DEF ResetStaleItems, TypeOK, RowType, Expired, Status
<1>3. j \in J => row[j].status = "enfileirado"
  BY DEF Expired
<1> HIDE DEF J
<1>4. CASE j \in J
  BY <1>1, <1>2, <1>3, <1>4, StatusChanges, TypesOfJobs DEF RowsMove
<1>5. CASE j \notin J
  BY <1>1, <1>2, <1>5, JobStays DEF RowsMove
<1> QED
  BY <1>4, <1>5

LEMMA PersonKeeps ==
  ASSUME TypeOK, PersonStep, NEW j \in Job, JobInv(j)
  PROVE  JobInv(j)'
<1>1. RowType /\ JobTypes
  BY TypesOfJobs DEF TypeOK, RowType
<1>2. UNCHANGED <<issued, att, slips>>
  BY <1>1, PersonEffect
<1>3. ASSUME NEW i \in Job, row[i].status = "incerto",
             RowMoves(i, "pendente", 0, row[i].wa),
             base' = [base EXCEPT ![i] = issued[i]], UNCHANGED settled
      PROVE  JobInv(j)'
  <2>1. CASE i # j
    BY <1>1, <1>2, <1>3, <2>1, JobStays DEF RowMoves, JobTypes
  <2>2. CASE i = j
    <3>1. base'[j] = issued[j] /\ issued[j] \in 0..MaxClaims /\ base[j] \in 0..MaxClaims
      BY <1>1, <1>3, <2>2 DEF JobTypes
    <3>2. FenceInv(j)' /\ BufferInv(j)' /\ TruthInv(j)'
      BY <1>2, <1>3, <2>2, <3>1, Bounds DEF FenceInv, BufferInv, TruthInv, RowMoves
    <3>3. ClaimInv(j)'
      BY <1>2 DEF JobInv, ClaimInv
    <3>4. OnceInv(j)'
      <4>1. \A t \in Token : t > issued[j] => Spent(att[j][t])
        BY DEF JobInv, ClaimInv, NoAttempt, Spent
      <4>2. \A t \in Token : ~(base'[j] < t /\ t < issued[j])
        BY <3>1, Bounds DEF Token
      <4> QED
        BY <1>2, <1>3, <2>2, <3>1, <4>1, <4>2 DEF JobInv, OnceInv, RowMoves
    <3> QED
      BY <3>2, <3>3, <3>4 DEF JobInv
  <2> QED
    BY <2>1, <2>2
<1>4. ASSUME NEW i \in Job, row[i].status = "incerto",
             NEW st \in {"sucesso", "erro"},
             RowMoves(i, st, row[i].token, row[i].wa), UNCHANGED base, settled' = settled \cup {i}
      PROVE  JobInv(j)'
  <2>1. row[i].status = "incerto" /\ i = j => row[j].token = 0
    BY DEF JobInv, FenceInv
  <2>2. CASE i # j
    BY <1>2, <1>4, <2>2, JobStays DEF RowMoves
  <2>3. CASE i = j
    BY <1>1, <1>2, <1>4, <2>1, <2>3, StatusChanges DEF RowMoves
  <2> QED
    BY <2>2, <2>3
<1>5. ASSUME NEW J \in SUBSET {i \in Job : row[i].status \in {"pendente", "enfileirado", "pausado"}},
             
             NEW st \in {"pausado", "pendente", "cancelado"}, RowsMove(J, st), UNCHANGED <<base, settled>>
      PROVE  JobInv(j)'
  <2>1. CASE j \in J
    BY <1>1, <1>2, <1>5, <2>1, StatusChanges DEF RowsMove
  <2>2. CASE j \notin J
    BY <1>2, <1>5, <2>2, JobStays DEF RowsMove
  <2> QED
    BY <2>1, <2>2
<1>6. ASSUME NEW J \in SUBSET Job, RowsMove(J, "erro"), UNCHANGED base,
             settled' = settled \cup J
      PROVE  JobInv(j)'
  <2>1. CASE j \in J
    BY <1>1, <1>2, <1>6, <2>1, StatusChanges DEF RowsMove
  <2>2. CASE j \notin J
    BY <1>2, <1>6, <2>2, JobStays DEF RowsMove
  <2> QED
    BY <2>1, <2>2
<1> QED
  BY <1>1, <1>3, <1>4, <1>5, <1>6, PersonEffect

LEMMA NextKeeps ==
  ASSUME TypeOK, [Next]_vars, \A i \in Job : JobInv(i), NEW j \in Job
  PROVE  JobInv(j)'
<1>1. ASSUME NEW i \in Job, NEW t \in Token, AttemptStep(i, t) PROVE JobInv(j)'
  <2>1. CASE i = j
    BY <1>1, <2>1, AttemptKeeps, TypesOfJobs
  <2>2. CASE i # j
    <3>1. JobTypes /\ AttemptFrame(i)
      BY <1>1, AttemptFrames, TypesOfJobs DEF JobTypes
    <3>2. row'[j] = row[j] /\ att'[j] = att[j]
      BY <1>1, <2>2, <3>1, AttemptOthers DEF JobTypes
    <3> QED
      BY <2>2, <3>1, <3>2, JobStays DEF AttemptFrame
  <2> QED
    BY <2>1, <2>2
<1>2. ASSUME NEW w \in Worker, WorkerStep(w) PROVE JobInv(j)'
  BY <1>2, ClaimKeeps, CrashKeeps DEF WorkerStep
<1>3. ASSUME NEW w \in Recovering, RecoveryStep(w) PROVE JobInv(j)'
  BY <1>3, ReclaimKeeps
<1>4. ASSUME NEW k, ResetStaleItems(k) PROVE JobInv(j)'
  BY <1>4, ResetKeeps
<1>5. ASSUME NEW i \in Job, DeadlinePasses(i) \/ BecomesDue(i) PROVE JobInv(j)'
  <2>1. /\ RowKept(i) /\ UNCHANGED <<issued, att, base, settled, slips>>
    BY <1>5, TimeEffect DEF TypeOK, RowType
  <2>2. CASE i = j
    BY <2>1, <2>2 DEF RowKept, RowMoves, JobInv, FenceInv, ClaimInv, BufferInv,
       OnceInv, TruthInv
  <2>3. CASE i # j
    BY <2>1, <2>3, JobStays DEF RowKept, RowMoves
  <2> QED
    BY <2>2, <2>3
<1>6. CASE UNCHANGED <<row, att, issued, base, settled, slips>>
  BY <1>6, JobStays
<1>7. ASSUME NEW s \in Session,
             CircuitCoolsDown(s) \/ LeaseMoves(s) PROVE JobInv(j)'
  BY <1>6, <1>7 DEF CircuitCoolsDown, LeaseMoves, observers
<1>8. CASE PersonStep
  BY <1>8, PersonKeeps
<1> QED
  BY <1>1, <1>2, <1>3, <1>4, <1>5, <1>6, <1>7, <1>8 DEF Next, vars, observers

\* The history of every row stays in order, whatever crashes, time limits, lost
\* answers, lost leases and recoveries happen between any two steps.
THEOREM Invariance == Spec => []QueueInv
<1>1. Init => QueueInv
  BY InitTypes, InitJobs DEF QueueInv
<1>2. QueueInv /\ [Next]_vars => QueueInv'
  BY NextTypes, NextKeeps DEF QueueInv
<1> QED
  BY <1>1, <1>2, PTL DEF Spec

-----------------------------------------------------------------------------
(* What follows from the invariant.                                        *)

LEMMA AtMostOneElement ==
  ASSUME NEW S, NEW x, S \subseteq {x}
  PROVE  Cardinality(S) <= 1
<1>1. S = {} \/ S = {x}
  OBVIOUS
<1>2. Cardinality({}) = 0 /\ Cardinality({x}) = 1
  BY FS_EmptySet, FS_Singleton, Zenon
<1> QED
  BY <1>1, <1>2

LEMMA InvOnce == ASSUME QueueInv PROVE AtMostOnce
<1> SUFFICES ASSUME NEW j \in Job, slips[j] = {}
             PROVE  Cardinality({t \in Token : t > base[j] /\ att[j][t].wire \in {"open", "delivered"}}) <= 1
  BY DEF AtMostOnce
<1>1. JobInv(j) /\ issued[j] \in Nat /\ base[j] \in Nat
  BY Bounds DEF QueueInv, TypeOK
<1>2. {t \in Token : t > base[j] /\ att[j][t].wire \in {"open", "delivered"}} \subseteq {issued[j]}
  <2>1. ASSUME NEW t \in Token, t > base[j],
               att[j][t].wire \in {"open", "delivered"}
        PROVE  t = issued[j]
    BY <1>1, <2>1 DEF JobInv, OnceInv, ClaimInv, Spent, NoAttempt, Token
  <2> QED
    BY <2>1
<1> QED
  BY <1>2, AtMostOneElement

LEMMA InvForgotten == ASSUME QueueInv PROVE NotForgotten
<1> SUFFICES ASSUME NEW j \in Job, DeliveredSince(j) # {}, slips[j] = {}, j \notin settled
             PROVE  row[j].status \in {"processando", "sucesso", "incerto"}
  BY DEF NotForgotten
<1>1. JobInv(j) /\ row[j].status \in Status
  BY DEF QueueInv, TypeOK, Row
<1>2. PICK t \in Token : t > base[j] /\ att[j][t].wire = "delivered"
  BY DEF DeliveredSince
<1>3. base[j] < t
  BY <1>1, <1>2, Bounds DEF QueueInv, TypeOK, Token
<1> QED
  BY <1>1, <1>2, <1>3 DEF JobInv, OnceInv, Spent, Status

LEMMA InvTruthful == ASSUME QueueInv PROVE TruthfulSuccess
  BY DEF QueueInv, JobInv, TruthInv, TruthfulSuccess, Token

\* At most one claim since the last decision of a person puts a message on the
\* wire: the claim token, the time limits and the recovery together keep a row
\* that may have been sent from being sent again.
THEOREM AtMostOnceHolds == Spec => []AtMostOnce
  BY Invariance, InvOnce, PTL

\* The row of a delivered message never goes back to waiting and is never filed
\* as failed or cancelled by the system.
THEOREM NotForgottenHolds == Spec => []NotForgotten
  BY Invariance, InvForgotten, PTL

\* A row that says sucesso was delivered by the claim whose identifier it holds,
\* or a person vouched for it.
THEOREM TruthfulSuccessHolds == Spec => []TruthfulSuccess
  BY Invariance, InvTruthful, PTL

-----------------------------------------------------------------------------
\* No step but a claim puts a row in flight.
NoNewToken == \A j \in Job : row'[j].token \in {0, row[j].token}

LEMMA OnlyClaims ==
  ASSUME TypeOK, [Next]_vars, \A w \in Worker : ~Claim(w)
  PROVE  NoNewToken /\ issued' = issued
<1>1. RowType /\ AttType /\ SlipType
  BY DEF TypeOK, RowType, AttType, SlipType
<1>2. ASSUME NEW j \in Job, NEW t \in Token,
             AttemptStep(j, t) PROVE NoNewToken /\ issued' = issued
  <2>1. \A i \in Job \ {j} : row'[i] = row[i]
    BY <1>1, <1>2, AttemptOthers
  <2>2. row'[j].token \in {0, row[j].token}
    <3> USE <1>1 DEF RowKept, RowMoves, RowDoubted
    <3>1. CASE \/ MarkSending(j, t) \/ CancelBeforeSend(j, t) \/ PhoneNotFound(j, t)
               \/ PrepareFails(j, t) \/ CallSendMessage(j, t) \/ MessageTravels(j, t)
      BY <3>1, MarkSendingMoves, CancelBeforeSendMoves, PhoneNotFoundMoves,
         PrepareFailsMoves, CallSendMessageMoves, MessageTravelsMoves
    <3>2. CASE \/ SendAccepted(j, t) \/ SendRejected(j, t) \/ SendTimesOut(j, t)
               \/ ItemTimesOut(j, t) \/ Complete(j, t) \/ ReadBack(j, t)
      BY <3>2, SendAcceptedMoves, SendRejectedMoves, SendTimesOutMoves,
         ItemTimesOutMoves, CompleteMoves, ReadBackMoves
    <3>3. CASE \/ RetryConfirmation(j, t) \/ MarkForReconciliation(j, t)
               \/ FlushReconciliation(j, t) \/ MarkNoIdentifier(j, t)
               \/ MarkUncertain(j, t) \/ ValidateLease(j, t) \/ MarkFailure(j, t)
      BY <3>3, RetryConfirmationMoves, MarkForReconciliationMoves,
         FlushReconciliationMoves, MarkNoIdentifierMoves, MarkUncertainMoves,
         ValidateLeaseMoves, MarkFailureMoves
    <3> QED
      BY <1>2, <3>1, <3>2, <3>3, Zenon DEF AttemptStep
  <2> QED
    BY <1>1, <1>2, <2>1, <2>2, AttemptFrames DEF NoNewToken, AttemptFrame
<1>3. ASSUME NEW J \in SUBSET Job, NEW st, RowsMove(J, st) PROVE NoNewToken
  BY <1>3 DEF RowsMove, NoNewToken
<1>4. ASSUME NEW j \in Job, NEW st, NEW k \in {0, row[j].token}, NEW v,
             RowMoves(j, st, k, v) PROVE NoNewToken
  BY <1>4 DEF RowMoves, NoNewToken
<1>5. ASSUME NEW w \in Recovering,
             RecoveryStep(w) PROVE NoNewToken /\ issued' = issued
  <2>1. reclaim[w].queued \subseteq Job /\ reclaim[w].processing \subseteq Job
    BY DEF TypeOK
  <2>2. CASE UNCHANGED row
    BY <2>2, <1>5 DEF NoNewToken, RecoveryStep, ReclaimSelect, ReclaimQueued,
       ReclaimProcessing, ReclaimFails
  <2>3. CASE ReclaimQueued(w)
    BY <1>1, <1>3, <2>1, <2>3, RowsEffect DEF ReclaimQueued, Status
  <2>4. CASE ReclaimProcessing(w)
    BY <1>1, <1>3, <2>1, <2>4, RowsEffect DEF ReclaimProcessing, Status
  <2> QED
    BY <1>5, <2>2, <2>3, <2>4 DEF RecoveryStep, ReclaimSelect, ReclaimFails
<1>6. ASSUME NEW k, ResetStaleItems(k) PROVE NoNewToken /\ issued' = issued
  BY <1>1, <1>3, <1>6, RowsEffect DEF ResetStaleItems, Expired, Status
<1>7. ASSUME NEW j \in Job,
             DeadlinePasses(j) \/ BecomesDue(j) PROVE NoNewToken /\ issued' = issued
  BY <1>1, <1>4, <1>7, TimeEffect DEF RowKept
<1>8. CASE PersonStep
  BY <1>1, <1>3, <1>4, <1>8, PersonEffect
<1>9. CASE UNCHANGED <<row, issued>>
  BY <1>9 DEF NoNewToken
<1>10. ASSUME NEW w \in Worker, WorkerStep(w) PROVE NoNewToken /\ issued' = issued
  BY <1>9, <1>10 DEF WorkerStep, Crash
<1>11. ASSUME NEW s \in Session,
              CircuitCoolsDown(s) \/ LeaseMoves(s) PROVE NoNewToken /\ issued' = issued
  BY <1>9, <1>11 DEF CircuitCoolsDown, LeaseMoves
<1> QED
  BY <1>2, <1>5, <1>6, <1>7, <1>8, <1>9, <1>10, <1>11 DEF Next, vars

LEMMA FlyingIsClaimed ==
  ASSUME QueueInv, NEW s, NEW j \in Job
  PROVE  j \in Flying(s) <=> SessionOf[j] = s /\ row[j].token # 0
  BY DEF QueueInv, JobInv, FenceInv, Flying, InFlight

\* Two rows of a number in flight are group rows of one batch, and they are
\* at most GroupCap.
LaneInv(s) ==
  /\ \A i, j \in Flying(s) : i = j \/ (i \in Group /\ j \in Group /\ LoteOf[i] = LoteOf[j])
  /\ Cardinality(Flying(s)) <= GroupCap

LEMMA FlyingFinite == ASSUME NEW s PROVE IsFiniteSet(Flying(s)) /\ Cardinality(Flying(s)) \in Nat
<1>1. IsFiniteSet(Job) /\ Flying(s) \subseteq Job
  BY QueueAssumption DEF Flying
<1> QED
  BY <1>1, FS_Subset, FS_CardinalityType

LEMMA LaneShrinks ==
  ASSUME NEW s, LaneInv(s), Flying(s)' \subseteq Flying(s)
  PROVE  LaneInv(s)'
<1>1. Cardinality(Flying(s)') <= Cardinality(Flying(s)) /\ Cardinality(Flying(s)') \in Nat
  BY FlyingFinite, FS_Subset, FS_CardinalityType
<1>2. GroupCap \in Nat
  BY QueueAssumption
<1> QED
  BY <1>1, <1>2, FlyingFinite DEF LaneInv, Group

LEMMA LaneGrows ==
  ASSUME NEW w, NEW s, LaneInv(s), Lane(w, s), NEW j \in Eligible(s),
         Flying(s)' \subseteq Flying(s) \cup {j}
  PROVE  LaneInv(s)'
<1> DEFINE F == Flying(s) \cup {j}
<1>1. GroupCap \in Nat \ {0}
  BY QueueAssumption
<1>2. Cardinality(F) <= Cardinality(Flying(s)) + 1 /\ IsFiniteSet(F)
  <2>1. IsFiniteSet(Flying(s)) /\ Cardinality(Flying(s)) \in Nat
    BY FlyingFinite
  <2>2. /\ IsFiniteSet(F)
        /\ Cardinality(F) = IF j \in Flying(s) THEN Cardinality(Flying(s)) ELSE Cardinality(Flying(s)) + 1
    BY <2>1, FS_AddElement, Zenon
  <2> QED
    BY <2>1, <2>2
<1>3. Cardinality(Flying(s)') <= Cardinality(F) /\ Cardinality(Flying(s)') \in Nat /\ Cardinality(F) \in Nat
  BY <1>2, FS_Subset, FS_CardinalityType
<1>4. Cardinality(Flying(s)') <= GroupCap
  BY <1>1, <1>2, <1>3, FlyingFinite DEF Lane
<1>5. j \in Job /\ Flying(s) \subseteq Group
  BY DEF Eligible, Due, Lane
<1>6. CASE ActiveLotes(s) = {}
  <2>1. Flying(s) = {}
    BY <1>5, <1>6 DEF ActiveLotes
  <2> QED
    BY <1>4, <2>1 DEF LaneInv
<1>7. CASE ActiveLotes(s) # {}
  <2>1. PICK i \in Flying(s) \cap Group : LoteOf[i] = LoteOf[j]
    BY <1>7 DEF Eligible, ActiveLotes
  <2>2. j \in Group
    BY <1>5, <2>1 DEF Group
  <2>3. \A k \in Flying(s) : LoteOf[k] = LoteOf[j] /\ k \in Group
    BY <1>5, <2>1 DEF LaneInv
  <2> QED
    BY <1>4, <2>2, <2>3 DEF LaneInv, Group
<1> QED
  BY <1>6, <1>7

LEMMA NextLanes ==
  ASSUME QueueInv, QueueInv', [Next]_vars, NEW s \in Session, LaneInv(s)
  PROVE  LaneInv(s)'
<1>1. ASSUME NEW j \in Job PROVE j \in Flying(s)' <=> SessionOf[j] = s /\ row'[j].token # 0
  BY DEF QueueInv, JobInv, FenceInv, Flying, InFlight
<1>2. Flying(s)' \subseteq Job
  BY DEF Flying
<1>3. CASE \A w \in Worker : ~Claim(w)
  BY <1>1, <1>2, <1>3, OnlyClaims, FlyingIsClaimed, LaneShrinks DEF NoNewToken,
     QueueInv
<1>4. ASSUME NEW w \in Worker, Claim(w) PROVE LaneInv(s)'
  <2>1. PICK J \in SUBSET Claimable(w) :
          /\ \A i, j \in J : SessionOf[i] = SessionOf[j] => i = j
          /\ \A j \in Job \ J : row'[j] = row[j]
    BY <1>4, ClaimEffect DEF QueueInv
  <2>2. CASE \E j \in J : SessionOf[j] = s
    <3>1. PICK j \in J : SessionOf[j] = s
      BY <2>2
    <3>2. Flying(s)' \subseteq Flying(s) \cup {j}
      BY <1>1, <1>2, <2>1, <3>1, FlyingIsClaimed
    <3> QED
      BY <3>1, <3>2, ClaimableDue, LaneGrows
  <2>3. CASE \A j \in J : SessionOf[j] # s
    <3>1. Flying(s)' \subseteq Flying(s)
      BY <1>1, <1>2, <2>1, <2>3, FlyingIsClaimed
    <3> QED
      BY <3>1, LaneShrinks
  <2> QED
    BY <2>2, <2>3
<1> QED
  BY <1>3, <1>4

LEMMA InitLanes == ASSUME Init, NEW s PROVE LaneInv(s)
<1>1. Flying(s) = {}
  BY DEF Init, Flying, InFlight
<1>2. GroupCap \in Nat
  BY QueueAssumption
<1> QED
  BY <1>1, <1>2, FS_EmptySet DEF LaneInv

LEMMA InvLanes == ASSUME \A s \in Session : LaneInv(s) PROVE LaneExclusive
<1> SUFFICES ASSUME NEW s \in Session, ~(Cardinality(Flying(s)) <= 1)
             PROVE  Flying(s) \subseteq Group /\ Cardinality(Flying(s)) <= GroupCap
                    /\ Cardinality(ActiveLotes(s)) = 1
  BY DEF LaneExclusive
<1>1. ASSUME NEW i \in Flying(s) PROVE \E j \in Flying(s) : j # i
  BY AtMostOneElement
<1>2. Flying(s) \subseteq Group
  BY <1>1 DEF LaneInv
<1>3. PICK i \in Flying(s) : TRUE
  BY FS_EmptySet
<1>4. ActiveLotes(s) = {LoteOf[i]}
  BY <1>2, <1>3 DEF LaneInv, ActiveLotes
<1> QED
  BY <1>2, <1>4, FS_Singleton DEF LaneInv

\* The lane query of claim_whatsapp_jobs, together with the choice of the rows of
\* one batch, keeps every number to one welcome or to GroupCap rows of one batch,
\* over all workers.
THEOREM LaneExclusiveHolds == Spec => []LaneExclusive
<1>1. Init => \A s \in Session : LaneInv(s)
  BY InitLanes
<1>2. QueueInv /\ QueueInv' /\ (\A s \in Session : LaneInv(s)) /\ [Next]_vars
      => (\A s \in Session : LaneInv(s))'
  BY NextLanes
<1> QED
  BY <1>1, <1>2, Invariance, InvLanes, PTL DEF Spec

-----------------------------------------------------------------------------
LEMMA ClaimYields ==
  ASSUME NEW w, NEW j \in Claimable(w), j \in Group \ High
  PROVE  Due(SessionOf[j]) \cap High = {}
<1> DEFINE s == SessionOf[j]
           D == Due(s) \cap Group
<1>1. j \in Due(s) /\ j \in Eligible(s) /\ ~YieldsToManual(s) /\ j \in First(Eligible(s), Urgent)
  BY ClaimableDue
<1>2. Eligible(s) \cap Urgent = {}
  BY <1>1, Zenon DEF First, Urgent
<1>3. CASE ActiveLotes(s) # {}
  <2>1. LoteOf[j] \in ActiveLotes(s)
    BY <1>1, <1>3 DEF Eligible
  <2> QED
    BY <1>1, <2>1 DEF YieldsToManual, Group
<1>4. CASE ActiveLotes(s) = {}
  <2>1. PICK i \in First(D, High) : LoteOf[j] = LoteOf[i]
    BY <1>1, <1>4 DEF Eligible
  <2>2. i \in D /\ (D \cap High # {} => i \in High)
    BY <2>1, Zenon DEF First
  <2>3. i \in Eligible(s)
    BY <1>4, <2>1, <2>2 DEF Eligible
  <2>4. D \cap High = {}
    BY <1>2, <2>2, <2>3 DEF Urgent
  <2>5. High \subseteq Group
    BY QueueAssumption DEF Group
  <2> QED
    BY <2>4, <2>5
<1> QED
  BY <1>3, <1>4

\* No claim takes a row of the automation while a row a user started is due on
\* the same number.
THEOREM ManualFirstHolds == Spec => ManualFirst
<1>1. ASSUME TypeOK, [Next]_vars, NEW j \in Group \ High, issued'[j] # issued[j]
      PROVE  Due(SessionOf[j]) \cap High = {}
  <2>1. PICK w \in Worker : Claim(w)
    BY <1>1, OnlyClaims
  <2>2. j \in Claimable(w)
    BY <1>1, <2>1, ClaimEffect DEF Group
  <2> QED
    BY <1>1, <2>2, ClaimYields
<1> DEFINE yields == \A j \in Group \ High :
                        issued'[j] # issued[j] => Due(SessionOf[j]) \cap High = {}
<1>2. TypeOK /\ [Next]_vars => [yields]_vars
  BY <1>1
<1> QED
  BY <1>2, TypeCorrect, PTL DEF Spec, ManualFirst

=============================================================================
