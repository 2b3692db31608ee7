--------------------------- MODULE SendQueueSteps ---------------------------
(***************************************************************************)
(* What the steps of SendQueue do to a row and to its claims, for any      *)
(* workers, numbers, rows and bounds: one lemma for each action of an      *)
(* attempt, in terms of AttMoves and RowMoves, and one for each kind of step*)
(* that touches several rows.  The lemmas say which fields of which record *)
(* change, so that the proofs of the properties need not look into the     *)
(* nested EXCEPTs of the actions again.                                    *)
(***************************************************************************)
EXTENDS SendQueue, TLAPS

LEMMA Bounds ==
  /\ MaxClaims \in Nat /\ MaxAttempts \in Nat \ {0} /\ Threshold \in Nat \ {0}
  /\ 0 \in 0..MaxClaims /\ 0 \in 0..MaxAttempts /\ 0 \in 0..Threshold
  /\ Token \subseteq 0..MaxClaims
<1>1. MaxClaims \in Nat /\ MaxAttempts \in Nat \ {0} /\ Threshold \in Nat \ {0}
  BY QueueAssumption
<1> QED
  BY <1>1 DEF Token

-----------------------------------------------------------------------------
(* What the writes of a step do to the row and to the attempt they name.   *)

SlipType == slips \in [Job -> SUBSET Slip]
AttType == att \in [Job -> [Token -> Attempt]]
RowType == row \in [Job -> Row]

\* Of all attempts only claim t of j changes, and has then main m, exec e, wire x.
AttMoves(j, t, m, e, x) ==
  /\ AttType'
  /\ att'[j][t].main = m /\ att'[j][t].exec = e /\ att'[j][t].wire = x
  /\ \A u \in Token \ {t} : att'[j][u] = att[j][u]
  /\ \A i \in Job \ {j} : att'[i] = att[i]

\* Of all rows only j changes, and has then status st, token k and wa v.
RowMoves(j, st, k, v) ==
  /\ RowType'
  /\ row'[j].status = st /\ row'[j].token = k /\ row'[j].wa = v
  /\ \A i \in Job \ {j} : row'[i] = row[i]

LEMMA AttSet ==
  ASSUME AttType, NEW j \in Job, NEW t \in Token, NEW a \in Attempt,
         att' = [att EXCEPT ![j] = [att[j] EXCEPT ![t] = a]]
  PROVE  AttMoves(j, t, a.main, a.exec, a.wire)
  BY DEF AttType, AttMoves

LEMMA RowSet ==
  ASSUME RowType, NEW j \in Job, NEW r \in Row, Leaves(j, r)
  PROVE  RowMoves(j, r.status, r.token, r.wa)
  BY DEF RowType, RowMoves, Leaves

LEMMA RowStays ==
  ASSUME RowType, NEW j \in Job, UNCHANGED row
  PROVE  RowMoves(j, row[j].status, row[j].token, row[j].wa)
  BY DEF RowType, RowMoves

LEMMA GoesAtt ==
  ASSUME AttType, NEW j \in Job, NEW t \in Token, NEW e \in Exec, Goes(j, t, e)
  PROVE  AttMoves(j, t, att[j][t].main, e, att[j][t].wire)
<1> DEFINE a == [att[j][t] EXCEPT !.exec = e]
<1>1. att[j][t] \in Attempt
  BY DEF AttType
<1>2. a \in Attempt /\ a.main = att[j][t].main /\ a.exec = e /\ a.wire = att[j][t].wire
  BY <1>1 DEF Attempt
<1>3. att' = [att EXCEPT ![j] = [att[j] EXCEPT ![t] = a]]
  BY DEF Goes
<1> HIDE DEF a
<1> QED
  BY <1>2, <1>3, AttSet

LEMMA QuitAtt ==
  ASSUME AttType, NEW j \in Job, NEW t \in Token, Quit(j, t)
  PROVE  AttMoves(j, t, "done", att[j][t].exec, att[j][t].wire)
<1> DEFINE a == [att[j][t] EXCEPT !.main = "done"]
<1>1. att[j][t] \in Attempt
  BY DEF AttType
<1>2. a \in Attempt /\ a.main = "done" /\ a.exec = att[j][t].exec /\ a.wire = att[j][t].wire
  BY <1>1 DEF Attempt, Main
<1>3. att' = [att EXCEPT ![j] = [att[j] EXCEPT ![t] = a]]
  BY DEF Quit
<1> HIDE DEF a
<1> QED
  BY <1>2, <1>3, AttSet

LEMMA EndsAtt ==
  ASSUME AttType, NEW j \in Job, NEW t \in Token, NEW m \in Main, Ends(j, t, m)
  PROVE  AttMoves(j, t, IF att[j][t].main = "running" THEN m ELSE att[j][t].main,
                  "over", att[j][t].wire)
<1> DEFINE n == IF att[j][t].main = "running" THEN m ELSE att[j][t].main
           a == [att[j][t] EXCEPT !.exec = "over", !.main = n]
<1>1. att[j][t] \in Attempt
  BY DEF AttType
<1>2. a \in Attempt /\ a.main = n /\ a.exec = "over" /\ a.wire = att[j][t].wire
  BY <1>1 DEF Attempt, Exec
<1>3. att' = [att EXCEPT ![j] = [att[j] EXCEPT ![t] = a]]
  BY DEF Ends, AttType
<1> HIDE DEF a
<1> QED
  BY <1>2, <1>3, AttSet

LEMMA BecomesRow ==
  ASSUME RowType, NEW j \in Job, NEW st \in Status
  PROVE  /\ Becomes(j, st) \in Row
         /\ Becomes(j, st).status = st /\ Becomes(j, st).token = 0
         /\ Becomes(j, st).wa = row[j].wa
<1>1. row[j] \in Row
  BY DEF RowType
<1> QED
  BY <1>1, Bounds DEF Becomes, Row

LEMMA LeavesAs ==
  ASSUME RowType, NEW j \in Job, NEW st \in Status, Leaves(j, Becomes(j, st))
  PROVE  RowMoves(j, st, 0, row[j].wa)
  BY BecomesRow, RowSet

LEMMA LeavesWithMessage ==
  ASSUME RowType, NEW j \in Job, NEW st \in Status, NEW t \in Token,
         Leaves(j, [Becomes(j, st) EXCEPT !.wa = t])
  PROVE  RowMoves(j, st, 0, t)
<1> DEFINE r == [Becomes(j, st) EXCEPT !.wa = t]
<1>1. Becomes(j, st) \in Row /\ Becomes(j, st).status = st /\ Becomes(j, st).token = 0
  BY BecomesRow
<1>2. r \in Row /\ r.status = st /\ r.token = 0 /\ r.wa = t
  BY <1>1, Bounds DEF Row
<1> HIDE DEF r
<1>3. Leaves(j, r)
  BY DEF r
<1> QED
  BY <1>2, <1>3, RowSet

-----------------------------------------------------------------------------
(* What each action of an attempt does.                                    *)

\* The row stays as it is ...
RowKept(j) == RowMoves(j, row[j].status, row[j].token, row[j].wa)
\* ... or, if it is still fenced by claim t, becomes uncertain.
RowDoubted(j, t) ==
  \/ RowKept(j)
  \/ Fenced(j, t) /\ \E v \in {row[j].wa, t} : RowMoves(j, "incerto", 0, v)

\* execute() ends with outcome m for process().
AttEnds(j, t, m) ==
  AttMoves(j, t, IF att[j][t].main = "running" THEN m ELSE att[j][t].main, "over", att[j][t].wire)

\* A write by id hits a row of claim t, or leaves a slip.
WritesFenced(j, t) == Fenced(j, t) \/ slips'[j] # {}

LEMMA MarkSendingMoves ==
  ASSUME RowType, AttType, NEW j \in Job, NEW t \in Token, MarkSending(j, t)
  PROVE  /\ att[j][t].main = "buffered"
         /\ \/ /\ Fenced(j, t) /\ row[j].status = "enfileirado"
               /\ RowMoves(j, "processando", row[j].token, row[j].wa)
               /\ \/ AttMoves(j, t, "running", "prepare", att[j][t].wire)
                  \/ AttMoves(j, t, "done", att[j][t].exec, att[j][t].wire)
            \/ RowKept(j) /\ AttMoves(j, t, "done", att[j][t].exec, att[j][t].wire)
<1> DEFINE r == [row[j] EXCEPT !.status = "processando", !.overdue = FALSE]
           a == [att[j][t] EXCEPT !.main = "running", !.exec = "prepare"]
<1>1. row[j] \in Row /\ att[j][t] \in Attempt
  BY DEF RowType, AttType
<1>2. r \in Row /\ r.status = "processando" /\ r.token = row[j].token /\ r.wa = row[j].wa
  BY <1>1 DEF Row, Status
<1>3. a \in Attempt /\ a.main = "running" /\ a.exec = "prepare" /\ a.wire = att[j][t].wire
  BY <1>1 DEF Attempt, Main, Exec
<1>4. (att' = [att EXCEPT ![j][t].main = "running", ![j][t].exec = "prepare"])
        => att' = [att EXCEPT ![j] = [att[j] EXCEPT ![t] = a]]
  BY DEF AttType
<1> HIDE DEF r, a
<1>5. Leaves(j, r) => RowMoves(j, "processando", row[j].token, row[j].wa)
  BY <1>2, RowSet
<1>6. (att' = [att EXCEPT ![j][t].main = "running", ![j][t].exec = "prepare"])
        => AttMoves(j, t, "running", "prepare", att[j][t].wire)
  BY <1>3, <1>4, AttSet
<1>7. (UNCHANGED row => RowKept(j))
      /\ (Quit(j, t) => AttMoves(j, t, "done", att[j][t].exec, att[j][t].wire))
  BY RowStays, QuitAtt DEF RowKept
<1> QED
  BY <1>5, <1>6, <1>7, Zenon DEF MarkSending, r

LEMMA CancelBeforeSendMoves ==
  ASSUME RowType, AttType, SlipType, NEW j \in Job, NEW t \in Token,
         CancelBeforeSend(j, t)
  PROVE  /\ att[j][t].exec = "prepare" /\ WritesFenced(j, t)
         /\ RowMoves(j, "cancelado", 0, row[j].wa) /\ AttEnds(j, t, "done")
<1>1. Leaves(j, Becomes(j, "cancelado")) => RowMoves(j, "cancelado", 0, row[j].wa)
  BY LeavesAs DEF Status
<1>2. Ends(j, t, "done") => AttEnds(j, t, "done")
  BY EndsAtt DEF AttEnds, Main
<1>3. CancelBeforeSend(j, t) => WritesFenced(j, t)
  BY DEF CancelBeforeSend, WriteById, WritesFenced, SlipType
<1> QED
  BY <1>1, <1>2, <1>3 DEF CancelBeforeSend, WriteById, Runs

LEMMA PhoneNotFoundMoves ==
  ASSUME RowType, AttType, SlipType, NEW j \in Job, NEW t \in Token,
         PhoneNotFound(j, t)
  PROVE  /\ att[j][t].exec = "prepare" /\ WritesFenced(j, t)
         /\ RowMoves(j, "erro", 0, row[j].wa) /\ AttEnds(j, t, "done")
<1> DEFINE r == [Becomes(j, "erro") EXCEPT !.attempts = IF @ < MaxAttempts THEN @ + 1 ELSE @]
<1>1. Becomes(j, "erro") \in Row /\ Becomes(j, "erro").status = "erro"
      /\ Becomes(j, "erro").token = 0 /\ Becomes(j, "erro").wa = row[j].wa
  BY BecomesRow DEF Status
<1>2. r \in Row /\ r.status = "erro" /\ r.token = 0 /\ r.wa = row[j].wa
  BY <1>1, Bounds DEF Row
<1> HIDE DEF r
<1>3. Leaves(j, r) => RowMoves(j, "erro", 0, row[j].wa)
  BY <1>2, RowSet
<1>4. Ends(j, t, "done") => AttEnds(j, t, "done")
  BY EndsAtt DEF AttEnds, Main
<1>5. PhoneNotFound(j, t) => WritesFenced(j, t)
  BY DEF PhoneNotFound, WriteById, WritesFenced, SlipType
<1> QED
  BY <1>3, <1>4, <1>5 DEF PhoneNotFound, WriteById, Runs, r

LEMMA PrepareFailsMoves ==
  ASSUME RowType, AttType, NEW j \in Job, NEW t \in Token, PrepareFails(j, t)
  PROVE  /\ att[j][t].exec = "prepare" /\ RowKept(j)
         /\ AttEnds(j, t, "failed") \/ AttEnds(j, t, "done")
  BY RowStays, EndsAtt DEF PrepareFails, Runs, AttEnds, RowKept, Main

LEMMA CallSendMessageMoves ==
  ASSUME RowType, AttType, NEW j \in Job, NEW t \in Token, CallSendMessage(j, t)
  PROVE  /\ att[j][t].exec = "prepare" /\ RowKept(j)
         /\ AttMoves(j, t, att[j][t].main, "sending", "open")
<1> DEFINE a == [att[j][t] EXCEPT !.exec = "sending", !.wire = "open"]
<1>1. att[j][t] \in Attempt
  BY DEF AttType
<1>2. a \in Attempt /\ a.main = att[j][t].main /\ a.exec = "sending" /\ a.wire = "open"
  BY <1>1 DEF Attempt, Exec, Wire
<1>3. att' = [att EXCEPT ![j] = [att[j] EXCEPT ![t] = a]]
  BY DEF CallSendMessage, AttType
<1> HIDE DEF a
<1> QED
  BY <1>2, <1>3, AttSet, RowStays DEF CallSendMessage, Runs, RowKept

LEMMA MessageTravelsMoves ==
  ASSUME RowType, AttType, NEW j \in Job, NEW t \in Token, MessageTravels(j, t)
  PROVE  /\ att[j][t].wire = "open" /\ RowKept(j)
         /\ \E x \in {"delivered", "dropped"} :
              AttMoves(j, t, att[j][t].main, att[j][t].exec, x)
<1>1. PICK x \in {"delivered", "dropped"} : att' = [att EXCEPT ![j][t].wire = x]
  BY DEF MessageTravels
<1> DEFINE a == [att[j][t] EXCEPT !.wire = x]
<1>2. att[j][t] \in Attempt
  BY DEF AttType
<1>3. a \in Attempt /\ a.main = att[j][t].main /\ a.exec = att[j][t].exec /\ a.wire = x
  BY <1>2 DEF Attempt, Wire
<1>4. att' = [att EXCEPT ![j] = [att[j] EXCEPT ![t] = a]]
  BY <1>1
<1> HIDE DEF a
<1>5. AttMoves(j, t, att[j][t].main, att[j][t].exec, x)
  BY <1>3, <1>4, AttSet
<1> QED
  BY <1>5, RowStays DEF MessageTravels, RowKept

LEMMA SendAcceptedMoves ==
  ASSUME RowType, AttType, NEW j \in Job, NEW t \in Token, SendAccepted(j, t)
  PROVE  /\ att[j][t].exec = "sending" /\ att[j][t].wire = "delivered" /\ RowKept(j)
         /\ \E e \in {"accepted", "noid"} : AttMoves(j, t, att[j][t].main, e, att[j][t].wire)
  BY RowStays, GoesAtt DEF SendAccepted, Runs, RowKept, Exec

LEMMA SendRejectedMoves ==
  ASSUME RowType, AttType, NEW j \in Job, NEW t \in Token, SendRejected(j, t)
  PROVE  att[j][t].wire = "dropped" /\ RowKept(j) /\ AttEnds(j, t, "failed")
  BY RowStays, EndsAtt DEF SendRejected, RowKept, AttEnds, Main

LEMMA SendTimesOutMoves ==
  ASSUME RowType, AttType, NEW j \in Job, NEW t \in Token, SendTimesOut(j, t)
  PROVE  att[j][t].exec = "sending" /\ RowKept(j) /\ AttEnds(j, t, "uncertain")
  BY RowStays, EndsAtt DEF SendTimesOut, Runs, RowKept, AttEnds, Main

LEMMA ItemTimesOutMoves ==
  ASSUME RowType, AttType, NEW j \in Job, NEW t \in Token, ItemTimesOut(j, t)
  PROVE  /\ att[j][t].main = "running" /\ RowKept(j)
         /\ AttMoves(j, t, "uncertain", att[j][t].exec, att[j][t].wire)
<1> DEFINE a == [att[j][t] EXCEPT !.main = "uncertain"]
<1>1. att[j][t] \in Attempt
  BY DEF AttType
<1>2. a \in Attempt /\ a.main = "uncertain" /\ a.exec = att[j][t].exec /\ a.wire = att[j][t].wire
  BY <1>1 DEF Attempt, Main
<1>3. att' = [att EXCEPT ![j] = [att[j] EXCEPT ![t] = a]]
  BY DEF ItemTimesOut
<1> HIDE DEF a
<1> QED
  BY <1>2, <1>3, AttSet, RowStays DEF ItemTimesOut, RowKept

LEMMA CompleteMoves ==
  ASSUME RowType, AttType, NEW j \in Job, NEW t \in Token, Complete(j, t)
  PROVE  /\ att[j][t].exec = "accepted"
         /\ \/ /\ Fenced(j, t) /\ RowMoves(j, "sucesso", 0, t)
               /\ \/ AttEnds(j, t, "done")
                  \/ AttMoves(j, t, att[j][t].main, "readback", att[j][t].wire)
            \/ RowKept(j) /\ AttMoves(j, t, att[j][t].main, "readback", att[j][t].wire)
<1>1. Leaves(j, [Becomes(j, "sucesso") EXCEPT !.wa = t]) => RowMoves(j, "sucesso", 0, t)
  BY LeavesWithMessage DEF Status
<1>2. Ends(j, t, "done") => AttEnds(j, t, "done")
  BY EndsAtt DEF AttEnds, Main
<1>3. Goes(j, t, "readback") => AttMoves(j, t, att[j][t].main, "readback", att[j][t].wire)
  BY GoesAtt DEF Exec
<1>4. UNCHANGED row => RowKept(j)
  BY RowStays DEF RowKept
<1> QED
  BY <1>1, <1>2, <1>3, <1>4, Zenon DEF Complete, Runs

LEMMA ReadBackMoves ==
  ASSUME RowType, AttType, NEW j \in Job, NEW t \in Token, ReadBack(j, t)
  PROVE  /\ att[j][t].exec = "readback" /\ RowKept(j)
         /\ \/ AttEnds(j, t, "done")
            \/ AttMoves(j, t, att[j][t].main, "reconcile", att[j][t].wire)
<1>1. Ends(j, t, "done") => AttEnds(j, t, "done")
  BY EndsAtt DEF AttEnds, Main
<1>2. Goes(j, t, "reconcile") => AttMoves(j, t, att[j][t].main, "reconcile", att[j][t].wire)
  BY GoesAtt DEF Exec
<1>3. UNCHANGED row => RowKept(j)
  BY RowStays DEF RowKept
<1> QED
  BY <1>1, <1>2, <1>3, Zenon DEF ReadBack, Runs

LEMMA RetryConfirmationMoves ==
  ASSUME RowType, AttType, NEW j \in Job, NEW t \in Token, RetryConfirmation(j, t)
  PROVE  /\ att[j][t].exec = "readback" /\ RowKept(j)
         /\ AttMoves(j, t, att[j][t].main, "accepted", att[j][t].wire)
  BY RowStays, GoesAtt DEF RetryConfirmation, Runs, RowKept, Exec

LEMMA DoubtMoves ==
  ASSUME RowType, NEW j \in Job, NEW t \in Token, Doubt(j, t) \/ UNCHANGED row
  PROVE  RowDoubted(j, t)
<1>1. Leaves(j, [Becomes(j, "incerto") EXCEPT !.wa = t]) => RowMoves(j, "incerto", 0, t)
  BY LeavesWithMessage DEF Status
<1>2. UNCHANGED row => RowKept(j)
  BY RowStays DEF RowKept
<1> QED
  BY <1>1, <1>2 DEF Doubt, RowDoubted

LEMMA UncertainMoves ==
  ASSUME RowType, NEW j \in Job, NEW t \in Token, Uncertain(j, t) \/ UNCHANGED row
  PROVE  RowDoubted(j, t)
<1>1. Leaves(j, Becomes(j, "incerto")) => RowMoves(j, "incerto", 0, row[j].wa)
  BY LeavesAs DEF Status
<1>2. UNCHANGED row => RowKept(j)
  BY RowStays DEF RowKept
<1> QED
  BY <1>1, <1>2 DEF Uncertain, RowDoubted

LEMMA MarkForReconciliationMoves ==
  ASSUME RowType, AttType, NEW j \in Job, NEW t \in Token,
         MarkForReconciliation(j, t)
  PROVE  /\ att[j][t].exec = "reconcile" /\ RowDoubted(j, t)
         /\ \/ AttEnds(j, t, "done")
            \/ AttMoves(j, t, IF att[j][t].main = "running" THEN "done" ELSE att[j][t].main,
                        "deferred", att[j][t].wire)
<1> DEFINE m == IF att[j][t].main = "running" THEN "done" ELSE att[j][t].main
           a == [att[j][t] EXCEPT !.exec = "deferred", !.main = m]
           defers == att' = [att EXCEPT ![j][t].exec = "deferred",
                               ![j][t].main = IF @ = "running" THEN "done" ELSE @]
<1>1. att[j][t] \in Attempt
  BY DEF AttType
<1>2. a \in Attempt /\ a.main = m /\ a.exec = "deferred" /\ a.wire = att[j][t].wire
  BY <1>1 DEF Attempt, Main, Exec
<1>3. defers => att' = [att EXCEPT ![j] = [att[j] EXCEPT ![t] = a]]
  BY DEF AttType
<1>4. Ends(j, t, "done") => AttEnds(j, t, "done")
  BY EndsAtt DEF AttEnds, Main
<1>5. /\ att[j][t].exec = "reconcile"
      /\ Doubt(j, t) \/ UNCHANGED row
      /\ Ends(j, t, "done") \/ defers
  BY Zenon DEF MarkForReconciliation, Runs
<1> HIDE DEF a, defers
<1>6. defers => AttMoves(j, t, m, "deferred", att[j][t].wire)
  BY <1>2, <1>3, AttSet
<1> QED
  BY <1>4, <1>5, <1>6, DoubtMoves

LEMMA FlushReconciliationMoves ==
  ASSUME RowType, AttType, NEW j \in Job, NEW t \in Token, FlushReconciliation(j, t)
  PROVE  /\ att[j][t].exec = "deferred" /\ RowDoubted(j, t)
         /\ AttMoves(j, t, att[j][t].main, "over", att[j][t].wire)
  BY DoubtMoves, GoesAtt DEF FlushReconciliation, Runs, Exec

LEMMA MarkNoIdentifierMoves ==
  ASSUME RowType, AttType, SlipType, NEW j \in Job, NEW t \in Token,
         MarkNoIdentifier(j, t)
  PROVE  /\ att[j][t].exec = "noid" /\ RowDoubted(j, t)
         /\ \/ AttEnds(j, t, "done")
            \/ AttEnds(j, t, "failed") /\ slips'[j] # {}
<1>1. /\ Ends(j, t, "done") => AttEnds(j, t, "done")
      /\ Ends(j, t, "failed") => AttEnds(j, t, "failed")
  BY EndsAtt DEF AttEnds, Main
<1>2. Uncertain(j, t) \/ UNCHANGED row => RowDoubted(j, t)
  BY UncertainMoves
<1>3. (slips' = [slips EXCEPT ![j] = @ \cup {"noid"}]) => slips'[j] # {}
  BY DEF SlipType
<1> QED
  BY <1>1, <1>2, <1>3 DEF MarkNoIdentifier, Runs

LEMMA MarkUncertainMoves ==
  ASSUME RowType, AttType, NEW j \in Job, NEW t \in Token, MarkUncertain(j, t)
  PROVE  /\ att[j][t].main = "uncertain" /\ RowDoubted(j, t)
         /\ AttMoves(j, t, "done", att[j][t].exec, att[j][t].wire)
  BY UncertainMoves, QuitAtt DEF MarkUncertain

LEMMA ValidateLeaseMoves ==
  ASSUME RowType, AttType, NEW j \in Job, NEW t \in Token, ValidateLease(j, t)
  PROVE  /\ att[j][t].main = "failed" /\ RowKept(j)
         /\ \E m \in {"failing", "uncertain", "done"} :
              AttMoves(j, t, m, att[j][t].exec, att[j][t].wire)
<1> DEFINE m == IF Holds(j, t) THEN "failing" ELSE "uncertain"
           a == [att[j][t] EXCEPT !.main = m]
<1>1. att[j][t] \in Attempt
  BY DEF AttType
<1>2. a \in Attempt /\ a.main = m /\ a.exec = att[j][t].exec /\ a.wire = att[j][t].wire
  BY <1>1 DEF Attempt, Main
<1>3. CASE att' = [att EXCEPT ![j][t].main = m]
  <2>1. att' = [att EXCEPT ![j] = [att[j] EXCEPT ![t] = a]]
    BY <1>3
  <2>2. m \in {"failing", "uncertain", "done"}
    OBVIOUS
  <2> HIDE DEF a, m
  <2>3. AttMoves(j, t, m, att[j][t].exec, att[j][t].wire)
    BY <1>2, <2>1, AttSet
  <2> QED
    BY <2>2, <2>3, RowStays DEF ValidateLease, RowKept
<1>4. CASE Quit(j, t)
  BY <1>4, QuitAtt, RowStays DEF ValidateLease, RowKept
<1> QED
  BY <1>3, <1>4 DEF ValidateLease

LEMMA MarkFailureMoves ==
  ASSUME RowType, AttType, NEW j \in Job, NEW t \in Token, MarkFailure(j, t)
  PROVE  /\ att[j][t].main = "failing"
         /\ AttMoves(j, t, "done", att[j][t].exec, att[j][t].wire)
         /\ \/ RowKept(j)
            \/ /\ Fenced(j, t)
               /\ \E st \in {"pendente", "erro"} : RowMoves(j, st, 0, row[j].wa)
<1>1. ASSUME NEW d \in BOOLEAN, Leaves(j, Failed(j, d))
      PROVE  \E st \in {"pendente", "erro"} : RowMoves(j, st, 0, row[j].wa)
  <2> DEFINE n == IF d THEN row[j].attempts ELSE row[j].attempts + 1
  <2>1. row[j] \in Row
    BY DEF RowType
  <2>2. /\ Becomes(j, "pendente") \in Row /\ Becomes(j, "pendente").status = "pendente"
        /\ Becomes(j, "pendente").token = 0 /\ Becomes(j, "pendente").wa = row[j].wa
        /\ Becomes(j, "erro") \in Row /\ Becomes(j, "erro").status = "erro"
        /\ Becomes(j, "erro").token = 0 /\ Becomes(j, "erro").wa = row[j].wa
    BY BecomesRow DEF Status
  <2>3. CASE n < MaxAttempts \/ d
    <3> DEFINE r == [Becomes(j, "pendente") EXCEPT !.attempts = n, !.due = FALSE]
    <3>1. n \in 0..MaxAttempts
      BY <2>1, <2>3, Bounds DEF Row
    <3>2. r \in Row /\ r.status = "pendente" /\ r.token = 0 /\ r.wa = row[j].wa
      BY <2>2, <3>1 DEF Row
    <3>3. Leaves(j, r)
      BY <1>1, <2>3 DEF Failed
    <3> HIDE DEF r
    <3> QED
      BY <3>2, <3>3, RowSet
  <2>4. CASE ~(n < MaxAttempts \/ d)
    <3> DEFINE r == [Becomes(j, "erro") EXCEPT !.attempts = MaxAttempts]
    <3>1. r \in Row /\ r.status = "erro" /\ r.token = 0 /\ r.wa = row[j].wa
      BY <2>2, Bounds DEF Row
    <3>2. Leaves(j, r)
      BY <1>1, <2>4 DEF Failed
    <3> HIDE DEF r
    <3> QED
      BY <3>1, <3>2, RowSet
  <2> QED
    BY <2>3, <2>4
<1>2. UNCHANGED row => RowKept(j)
  BY RowStays DEF RowKept
<1> QED
  BY <1>1, <1>2, QuitAtt DEF MarkFailure

\* What the steps of a claim leave alone: the numbering of the claims, the
\* decisions of people and, of other rows, the record of slips.
AttemptFrame(j) ==
  /\ UNCHANGED <<issued, base, settled>>
  /\ SlipType' /\ slips[j] \subseteq slips'[j]
  /\ \A i \in Job \ {j} : slips'[i] = slips[i]

LEMMA AttemptFrames ==
  ASSUME SlipType, NEW j \in Job, NEW t \in Token, AttemptStep(j, t)
  PROVE  AttemptFrame(j)
<1>1. CASE UNCHANGED <<issued, base, settled, slips>>
  BY <1>1 DEF AttemptFrame, SlipType
<1>2. ASSUME NEW r, WriteById(j, t, r), UNCHANGED <<issued, base, settled>>
      PROVE  AttemptFrame(j)
  BY <1>2 DEF WriteById, AttemptFrame, SlipType, Slip
<1>3. CASE CancelBeforeSend(j, t)
  BY <1>3, <1>2 DEF CancelBeforeSend
<1>4. CASE PhoneNotFound(j, t)
  BY <1>4, <1>2 DEF PhoneNotFound
<1>5. CASE MarkNoIdentifier(j, t)
  <2>1. CASE slips' = [slips EXCEPT ![j] = @ \cup {"noid"}]
    BY <1>5, <2>1 DEF MarkNoIdentifier, AttemptFrame, SlipType, Slip
  <2> QED
    BY <1>1, <1>5, <2>1, Zenon DEF MarkNoIdentifier
<1>6. CASE /\ ~CancelBeforeSend(j, t) /\ ~PhoneNotFound(j, t)
           /\ ~MarkNoIdentifier(j, t)
  <2>1. UNCHANGED <<issued, observers>>
    BY <1>6, Zenon DEF AttemptStep, MarkSending, PrepareFails, CallSendMessage,
       MessageTravels, SendAccepted, SendRejected, SendTimesOut, ItemTimesOut,
       Complete, ReadBack, RetryConfirmation, MarkForReconciliation,
       FlushReconciliation, MarkUncertain, ValidateLease, MarkFailure
  <2> QED
    BY <1>1, <2>1 DEF observers
<1> QED
  BY <1>3, <1>4, <1>5, <1>6

\* A step of claim t of j leaves the other rows and their claims alone.
LEMMA AttemptOthers ==
  ASSUME RowType, AttType, SlipType, NEW j \in Job, NEW t \in Token,
         AttemptStep(j, t)
  PROVE  /\ RowType' /\ AttType'
         /\ \A i \in Job \ {j} : row'[i] = row[i] /\ att'[i] = att[i]
  <1> USE DEF RowKept, RowMoves, RowDoubted, AttMoves, AttEnds
  <1>1. CASE \/ MarkSending(j, t) \/ CancelBeforeSend(j, t) \/ PhoneNotFound(j, t)
             \/ PrepareFails(j, t) \/ CallSendMessage(j, t) \/ MessageTravels(j, t)
    BY <1>1, MarkSendingMoves, CancelBeforeSendMoves, PhoneNotFoundMoves,
       PrepareFailsMoves, CallSendMessageMoves, MessageTravelsMoves
  <1>2. CASE \/ SendAccepted(j, t) \/ SendRejected(j, t) \/ SendTimesOut(j, t)
             \/ ItemTimesOut(j, t) \/ Complete(j, t) \/ ReadBack(j, t)
    BY <1>2, SendAcceptedMoves, SendRejectedMoves, SendTimesOutMoves,
       ItemTimesOutMoves, CompleteMoves, ReadBackMoves
  <1>3. CASE \/ RetryConfirmation(j, t) \/ MarkForReconciliation(j, t)
             \/ FlushReconciliation(j, t) \/ MarkNoIdentifier(j, t)
             \/ MarkUncertain(j, t) \/ ValidateLease(j, t) \/ MarkFailure(j, t)
    BY <1>3, RetryConfirmationMoves, MarkForReconciliationMoves,
       FlushReconciliationMoves, MarkNoIdentifierMoves, MarkUncertainMoves,
       ValidateLeaseMoves, MarkFailureMoves
  <1> QED
    BY <1>1, <1>2, <1>3, Zenon DEF AttemptStep

-----------------------------------------------------------------------------
(* Claiming, and the steps that touch several rows.                        *)

\* What a claim of worker w does to a row it takes: the row becomes
\* enfileirado under the next token, and that claim starts.
RowClaimed(j) == [row[j] EXCEPT !.status = "enfileirado", !.overdue = FALSE, !.token = issued[j] + 1]
NewClaim(w, j, m) == [NoAttempt EXCEPT !.worker = w, !.version = lease[SessionOf[j]].version, !.main = m]

Taking(j) ==
  /\ row[j].status = "pendente" /\ issued[j] + 1 \in Token
  /\ issued'[j] = issued[j] + 1
  /\ row'[j].status = "enfileirado" /\ row'[j].token = issued[j] + 1 /\ row'[j].wa = row[j].wa
  /\ att'[j][issued[j] + 1].main \in {"buffered", "done"}
  /\ att'[j][issued[j] + 1].exec = "idle" /\ att'[j][issued[j] + 1].wire = "none"
  /\ \A u \in Token \ {issued[j] + 1} : att'[j][u] = att[j][u]

LEMMA ClaimableDue ==
  ASSUME NEW w, NEW j \in Claimable(w)
  PROVE  j \in Due(SessionOf[j]) /\ j \in Eligible(SessionOf[j])
         /\ Lane(w, SessionOf[j]) /\ ~YieldsToManual(SessionOf[j])
         /\ j \in First(Eligible(SessionOf[j]), Urgent) /\ SessionOf[j] \in Session
<1>1. PICK s \in Session : Lane(w, s) /\ ~YieldsToManual(s) /\ j \in First(Eligible(s), Urgent)
  BY DEF Claimable
<1>2. j \in Eligible(s)
  BY <1>1, Zenon DEF First
<1>3. j \in Due(s)
  BY <1>2 DEF Eligible
<1>4. s = SessionOf[j]
  BY <1>3 DEF Due
<1> QED
  BY <1>1, <1>2, <1>3, <1>4

LEMMA ClaimEffect ==
  ASSUME TypeOK, NEW w \in Worker, Claim(w)
  PROVE  /\ RowType' /\ AttType' /\ issued' \in [Job -> 0..MaxClaims]
         /\ \E J \in SUBSET Claimable(w) :
              /\ \A i, j \in J : SessionOf[i] = SessionOf[j] => i = j
              /\ \A j \in J : j \in Job /\ Taking(j)
              /\ \A j \in Job \ J : row'[j] = row[j] /\ att'[j] = att[j] /\ issued'[j] = issued[j]
<1> DEFINE m(lost) == IF lost THEN "done" ELSE "buffered"
<1>1. PICK J \in SUBSET Claimable(w), lost \in BOOLEAN :
        /\ \A i, j \in J : SessionOf[i] = SessionOf[j] => i = j
        /\ \A j \in J : issued[j] < MaxClaims
        /\ issued' = [j \in Job |-> IF j \in J THEN issued[j] + 1 ELSE issued[j]]
        /\ row' = [j \in Job |-> IF j \in J THEN RowClaimed(j) ELSE row[j]]
        /\ att' = [j \in Job |-> IF j \in J
                    THEN [att[j] EXCEPT ![issued[j] + 1] = NewClaim(w, j, m(lost))] ELSE att[j]]
  BY Zenon DEF Claim, RowClaimed, NewClaim
<1> HIDE DEF m
<1>2. \A j \in J : j \in Job /\ row[j].status = "pendente"
  BY ClaimableDue DEF Due
<1>3. ASSUME NEW j \in J
      PROVE  /\ RowClaimed(j) \in Row /\ RowClaimed(j).status = "enfileirado"
             /\ RowClaimed(j).token = issued[j] + 1 /\ RowClaimed(j).wa = row[j].wa
             /\ issued[j] + 1 \in Token
  <2>1. row[j] \in Row /\ issued[j] \in 0..MaxClaims
    BY <1>2 DEF TypeOK
  <2>2. issued[j] + 1 \in 0..MaxClaims /\ issued[j] + 1 \in Token
    BY <1>1, <2>1, Bounds DEF Token
  <2> QED
    BY <2>1, <2>2 DEF RowClaimed, Row, Status
<1>4. ASSUME NEW j \in J
      PROVE  /\ NewClaim(w, j, m(lost)) \in Attempt /\ NewClaim(w, j, m(lost)).main = m(lost)
             /\ NewClaim(w, j, m(lost)).exec = "idle" /\ NewClaim(w, j, m(lost)).wire = "none"
             /\ m(lost) \in {"buffered", "done"}
  <2>1. lease[SessionOf[j]].version \in Nat
    BY <1>2, QueueAssumption DEF TypeOK, LeaseTypeOK, Lease
  <2> QED
    BY <2>1 DEF NewClaim, NoAttempt, Attempt, Main, Exec, Wire, m
<1>5. issued' \in [Job -> 0..MaxClaims]
  BY <1>1, <1>3, Bounds DEF TypeOK, Token
<1>6. RowType'
  BY <1>1, <1>3 DEF TypeOK, RowType
<1>7. AttType'
  BY <1>1, <1>3, <1>4 DEF TypeOK, AttType
<1>8. ASSUME NEW j \in J PROVE Taking(j)
  <2>1. att[j] \in [Token -> Attempt]
    BY <1>2 DEF TypeOK
  <2> QED
    BY <1>1, <1>2, <1>3, <1>4, <2>1 DEF Taking
<1> QED
  BY <1>1, <1>2, <1>5, <1>6, <1>7, <1>8

\* Of the rows exactly those of J change: to status st, under no claim.
RowsMove(J, st) ==
  /\ RowType'
  /\ \A j \in J : row'[j].status = st /\ row'[j].token = 0 /\ row'[j].wa = row[j].wa
  /\ \A j \in Job \ J : row'[j] = row[j]

LEMMA RowsEffect ==
  ASSUME RowType, NEW J \in SUBSET Job, NEW st \in Status, Rows(J, st)
  PROVE  RowsMove(J, st)
  BY BecomesRow DEF Rows, RowType, RowsMove

LEMMA TransitionEffect ==
  ASSUME RowType, NEW l, NEW from, NEW to \in Status, Transition(l, from, to)
  PROVE  \E J \in SUBSET {j \in Job : row[j].status \in from} : RowsMove(J, to)
<1> DEFINE J == {j \in Job : LoteOf[j] = l /\ row[j].status \in from}
           r(j, now) == [Becomes(j, to) EXCEPT !.due = @ \/ (now /\ to = "pendente")]
<1>1. PICK now \in BOOLEAN : row' = [j \in Job |-> IF j \in J THEN r(j, now) ELSE row[j]]
  BY Zenon DEF Transition
<1>2. ASSUME NEW j \in Job
      PROVE  /\ r(j, now) \in Row /\ r(j, now).status = to
             /\ r(j, now).token = 0 /\ r(j, now).wa = row[j].wa
  <2>1. /\ Becomes(j, to) \in Row /\ Becomes(j, to).status = to
        /\ Becomes(j, to).token = 0 /\ Becomes(j, to).wa = row[j].wa
    BY BecomesRow
  <2> QED
    BY <2>1 DEF Row
<1> HIDE DEF r
<1>3. J \in SUBSET {j \in Job : row[j].status \in from}
  OBVIOUS
<1> HIDE DEF J
<1>4. RowsMove(J, to)
  BY <1>1, <1>2, <1>3 DEF RowsMove, RowType
<1> QED
  BY <1>3, <1>4

LEMMA PersonEffect ==
  ASSUME RowType, PersonStep
  PROVE  /\ UNCHANGED <<issued, att, slips>>
         /\ \/ \E j \in Job : /\ row[j].status = "incerto" /\ RowMoves(j, "pendente", 0, row[j].wa)
                             /\ base' = [base EXCEPT ![j] = issued[j]] /\ UNCHANGED settled
            \/ \E j \in Job : /\ row[j].status = "incerto"
                             /\ \E st \in {"sucesso", "erro"} : RowMoves(j, st, row[j].token, row[j].wa)
                             /\ UNCHANGED base /\ settled' = settled \cup {j}
            \/ \E J \in SUBSET {j \in Job : row[j].status \in {"pendente", "enfileirado", "pausado"}},
                 st \in {"pausado", "pendente", "cancelado"} :
                     RowsMove(J, st) /\ UNCHANGED <<base, settled>>
            \/ \E J \in SUBSET {j \in Job : row[j].status \notin {"sucesso", "erro", "cancelado"}} :
                     RowsMove(J, "erro") /\ UNCHANGED base /\ settled' = settled \cup J
<1>1. ASSUME NEW j \in Job, RetryUncertain(j)
      PROVE  /\ row[j].status = "incerto" /\ RowMoves(j, "pendente", 0, row[j].wa)
             /\ base' = [base EXCEPT ![j] = issued[j]] /\ UNCHANGED <<issued, att, slips, settled>>
  BY <1>1, LeavesAs DEF RetryUncertain, Status
<1>2. ASSUME NEW j \in Job, SettleUncertain(j)
      PROVE  /\ row[j].status = "incerto"
             /\ \E st \in {"sucesso", "erro"} : RowMoves(j, st, row[j].token, row[j].wa)
             /\ UNCHANGED <<issued, att, slips, base>> /\ settled' = settled \cup {j}
  <2>1. PICK st \in {"sucesso", "erro"} : Leaves(j, [row[j] EXCEPT !.status = st])
    BY <1>2, Zenon DEF SettleUncertain
  <2> DEFINE r == [row[j] EXCEPT !.status = st]
  <2>2. row[j] \in Row
    BY DEF RowType
  <2>3. r \in Row /\ r.status = st /\ r.token = row[j].token /\ r.wa = row[j].wa
    BY <2>2 DEF Row, Status
  <2> HIDE DEF r
  <2>4. RowMoves(j, st, row[j].token, row[j].wa)
    BY <2>1, <2>3, RowSet DEF r
  <2>5. row[j].status = "incerto" /\ UNCHANGED <<issued, att, slips, base>> /\ settled' = settled \cup {j}
    BY <1>2, Zenon DEF SettleUncertain
  <2> QED
    BY <2>4, <2>5
<1>3. ASSUME NEW l, PauseLote(l) \/ ResumeLote(l) \/ CancelLote(l)
      PROVE  \E J \in SUBSET {j \in Job : row[j].status \in {"pendente", "enfileirado", "pausado"}},
                 st \in {"pausado", "pendente", "cancelado"} :
                     RowsMove(J, st) /\ UNCHANGED <<issued, att, slips, base, settled>>
  <2>1. PICK from \in SUBSET {"pendente", "enfileirado", "pausado"}, to \in {"pausado", "pendente", "cancelado"} :
          Transition(l, from, to)
    BY <1>3 DEF PauseLote, ResumeLote, CancelLote
  <2>2. PICK J \in SUBSET {j \in Job : row[j].status \in from} : RowsMove(J, to)
    <3>1. to \in Status
      BY DEF Status
    <3> QED
      BY <2>1, <3>1, TransitionEffect
  <2>3. UNCHANGED <<issued, att, slips, base, settled>>
    BY <2>1, Zenon DEF Transition, observers
  <2> QED
    BY <2>1, <2>2, <2>3
<1>4. ASSUME NEW s, CancelSenderWork(s)
      PROVE  /\ \E J \in SUBSET {j \in Job : row[j].status \notin {"sucesso", "erro", "cancelado"}} :
                     RowsMove(J, "erro") /\ settled' = settled \cup J
             /\ UNCHANGED <<issued, att, slips, base>>
  BY <1>4, RowsEffect DEF CancelSenderWork, Status
<1> QED
  BY <1>1, <1>2, <1>3, <1>4 DEF PersonStep

\* A step of time: due or overdue of one row, and nothing else.
LEMMA TimeEffect ==
  ASSUME RowType, NEW j \in Job, DeadlinePasses(j) \/ BecomesDue(j)
  PROVE  /\ RowKept(j)
         /\ UNCHANGED <<lease, issued, att, reclaim, failures, blocked, base, settled, slips>>
<1> DEFINE r == [row[j] EXCEPT !.overdue = TRUE]
           q == [row[j] EXCEPT !.due = TRUE]
<1>1. row[j] \in Row
  BY DEF RowType
<1>2. /\ r \in Row /\ r.status = row[j].status /\ r.token = row[j].token /\ r.wa = row[j].wa
      /\ q \in Row /\ q.status = row[j].status /\ q.token = row[j].token /\ q.wa = row[j].wa
  BY <1>1 DEF Row
<1>3. Leaves(j, r) \/ Leaves(j, q)
  BY Zenon DEF DeadlinePasses, BecomesDue
<1> HIDE DEF r, q
<1> QED
  BY <1>2, <1>3, RowSet, Zenon DEF RowKept, DeadlinePasses, BecomesDue, breaker,
     observers

=============================================================================
