------------------------ MODULE SendQueueRefinement -------------------------
(***************************************************************************)
(* The dispatch queue implements DeliveryPromise, for any workers, numbers,*)
(* rows, batches, bounds and faults: every step of SendQueue is, for every *)
(* row, a step of the promise or a stutter, unless one of the recorded slips*)
(* hits the row.  The inductive invariant of SendQueueProofs tells which   *)
(* claim can be on the wire (WiredIsNewest): the newest, and none while the*)
(* row still waits.                                                        *)
(***************************************************************************)
EXTENDS SendQueueProofs

\* The mapped state of one row.
Wired(j) == \E t \in Token : t > base[j] /\ att[j][t].wire \in {"open", "delivered"}
Fate(j) == FateOf(row[j].status)
Alone(j) == base'[j] = base[j] /\ (j \in settled' <=> j \in settled)

\* A step of the system in terms of the queue: the fate goes from one of F to
\* one of G, and wired(j) from a to b.
Moves(j, F, G) == Fate(j) \in F /\ Fate(j)' \in G
SameWire(j) == Wired(j)' <=> Wired(j)

\* The step keeps the promise for j.
Kept(j) ==
  \/ slips'[j] # {}
  \/ /\ slips[j] = {} /\ slips'[j] = {}
     /\ DP!System(j) \/ DP!AskAgain(j) \/ DP!Settle(j) \/ DP!Stays(j)

LEMMA AsSystem ==
  ASSUME NEW j \in Job, Alone(j),
         \/ ~Wired(j) /\ ~Wired(j)' /\ Moves(j, {"waiting"}, {"sending"})
         \/ ~Wired(j) /\ Wired(j)' /\ Fate(j) # "waiting" /\ Fate(j)' = Fate(j)
         \/ Wired(j) /\ ~Wired(j)' /\ Fate(j)' = Fate(j)
         \/ ~Wired(j) /\ ~Wired(j)' /\ Moves(j, {"sending"}, {"waiting", "closed"})
         \/ Wired(j) /\ Wired(j)' /\ Moves(j, {"sending"}, {"sent"})
         \/ SameWire(j) /\ Moves(j, {"sending"}, {"doubtful"})
         \/ ~Wired(j) /\ ~Wired(j)' /\ Moves(j, {"waiting"}, {"closed"})
  PROVE  DP!System(j)
<1> USE DEF Moves, DP!Move, Fate, Wired
<1>1. DP!Alone(j)
  BY DEF DP!Alone, Alone
<1>2. CASE ~Wired(j) /\ ~Wired(j)' /\ Moves(j, {"waiting"}, {"sending"})
  BY <1>1, <1>2 DEF DP!Start, DP!System
<1>3. CASE ~Wired(j) /\ Wired(j)' /\ Fate(j) # "waiting" /\ Fate(j)' = Fate(j)
  BY <1>1, <1>3 DEF DP!HandOver, DP!System
<1>4. CASE Wired(j) /\ ~Wired(j)' /\ Fate(j)' = Fate(j)
  BY <1>1, <1>4 DEF DP!Lose, DP!System
<1>5. CASE ~Wired(j) /\ ~Wired(j)' /\ Moves(j, {"sending"}, {"waiting", "closed"})
  BY <1>1, <1>5 DEF DP!GiveUp, DP!System
<1>6. CASE Wired(j) /\ Wired(j)' /\ Moves(j, {"sending"}, {"sent"})
  BY <1>1, <1>6 DEF DP!Confirm, DP!System
<1>7. CASE SameWire(j) /\ Moves(j, {"sending"}, {"doubtful"})
  BY <1>1, <1>7 DEF DP!Doubt, DP!System, SameWire
<1>8. CASE ~Wired(j) /\ ~Wired(j)' /\ Moves(j, {"waiting"}, {"closed"})
  BY <1>1, <1>8 DEF DP!Cancel, DP!System
<1> QED
  BY <1>2, <1>3, <1>4, <1>5, <1>6, <1>7, <1>8

LEMMA AsStays ==
  ASSUME NEW j \in Job, Alone(j), SameWire(j), Fate(j)' = Fate(j)
  PROVE  DP!Stays(j)
  BY DEF DP!Stays, DP!Alone, Alone, SameWire, Fate, Wired

LEMMA AsAskAgain ==
  ASSUME NEW j \in Job, base'[j] > base[j], j \in settled' <=> j \in settled,
         Moves(j, {"doubtful"}, {"waiting"}), ~Wired(j)'
  PROVE  DP!AskAgain(j)
  BY DEF DP!AskAgain, Moves, DP!Move, Fate, Wired

LEMMA AsSettle ==
  ASSUME NEW j \in Job, base'[j] = base[j], j \in settled', SameWire(j),
         \/ Moves(j, {"doubtful"}, {"sent", "closed"})
         \/ Moves(j, DP!Fate \ {"sent"}, {"closed"})
  PROVE  DP!Settle(j)
  BY DEF DP!Settle, Moves, DP!Move, Fate, Wired, SameWire

\* What the statuses of a row are to the promise.
LEMMA Fates ==
  /\ FateOf("pendente") = "waiting" /\ FateOf("enfileirado") = "waiting"
  /\ FateOf("pausado") = "waiting" /\ FateOf("processando") = "sending"
  /\ FateOf("sucesso") = "sent" /\ FateOf("incerto") = "doubtful"
  /\ FateOf("erro") = "closed" /\ FateOf("cancelado") = "closed"
  BY DEF FateOf

\* Only the newest claim of a row can be out.
LEMMA WiredIsNewest ==
  ASSUME JobTypes, NEW j \in Job, JobInv(j), slips[j] = {}
  PROVE  /\ Wired(j) <=> /\ base[j] < issued[j]
                         /\ att[j][issued[j]].wire \in {"open", "delivered"}
         /\ row[j].status \in {"pendente", "enfileirado", "pausado"} => ~Wired(j)
<1>1. issued[j] \in 0..MaxClaims /\ base[j] \in 0..MaxClaims /\ MaxClaims \in Nat
  BY Bounds DEF JobTypes
<1>2. ASSUME NEW t \in Token, t > base[j], att[j][t].wire \in {"open", "delivered"}
      PROVE  t = issued[j]
  BY <1>1, <1>2 DEF JobInv, OnceInv, ClaimInv, Spent, NoAttempt, Token
<1>3. row[j].status \in {"pendente", "enfileirado", "pausado"} => ~Wired(j)
  BY <1>1 DEF JobInv, OnceInv, Wired, Spent, Token
<1>4. base[j] < issued[j] => issued[j] \in Token
  BY <1>1 DEF Token
<1> QED
  BY <1>1, <1>2, <1>3, <1>4 DEF Wired

\* Steps that put nothing on the wire and leave the row alone.
LEMMA NothingHappens ==
  ASSUME NEW j \in Job, row'[j] = row[j], att'[j] = att[j], base'[j] = base[j],
         slips'[j] = slips[j], j \in settled' <=> j \in settled
  PROVE  Kept(j)
<1>1. Alone(j) /\ SameWire(j) /\ Fate(j)' = Fate(j)
  BY DEF Alone, SameWire, Wired, Fate
<1> QED
  BY <1>1, AsStays DEF Kept

On(x) == x \in {"open", "delivered"}

\* What a step of claim t does to the wire.
LEMMA WiredAfter ==
  ASSUME JobTypes, NEW j \in Job, JobInv(j), slips[j] = {}, NEW t \in Token,
         NEW m, NEW e, NEW x, AttMoves(j, t, m, e, x), base'[j] = base[j]
  PROVE  /\ (On(x) <=> On(att[j][t].wire)) => SameWire(j)
         /\ t <= base[j] => SameWire(j)
         /\ t > base[j] /\ ~Spent(att[j][t]) => (Wired(j) <=> On(att[j][t].wire)) /\ (Wired(j)' <=> On(x))
<1>1. issued[j] \in 0..MaxClaims /\ base[j] \in 0..MaxClaims /\ MaxClaims \in Nat
  BY Bounds DEF JobTypes
<1>2. (On(x) <=> On(att[j][t].wire)) => SameWire(j)
  BY DEF On, SameWire, Wired, AttMoves
<1>3. t <= base[j] => SameWire(j)
  BY <1>1 DEF SameWire, Wired, AttMoves, Token
<1>4. ASSUME t > base[j], ~Spent(att[j][t])
      PROVE  (Wired(j) <=> On(att[j][t].wire)) /\ (Wired(j)' <=> On(x))
  <2>1. ASSUME NEW u \in Token, u > base[j], u # t
        PROVE  att[j][u].wire \notin {"open", "delivered"}
    BY <1>1, <1>4, <2>1 DEF JobInv, OnceInv, ClaimInv, Spent, NoAttempt, Token
  <2> QED
    BY <1>4, <2>1 DEF Wired, On, AttMoves
<1> QED
  BY <1>2, <1>3, <1>4

\* A step of a claim that moves neither the row nor the wire.
LEMMA KeepsRowAndWire ==
  ASSUME JobTypes, NEW j \in Job, JobInv(j), NEW t \in Token, AttemptFrame(j),
         RowKept(j), NEW m, NEW e, AttMoves(j, t, m, e, att[j][t].wire)
  PROVE  Kept(j)
<1> SUFFICES ASSUME slips'[j] = {} PROVE Kept(j)
  BY DEF Kept
<1>1. slips[j] = {} /\ Alone(j)
  BY DEF AttemptFrame, Alone
<1>2. Fate(j)' = Fate(j)
  BY DEF RowKept, RowMoves, Fate
<1>3. SameWire(j)
  BY <1>1, WiredAfter DEF Alone
<1> QED
  BY <1>1, <1>2, <1>3, AsStays DEF Kept

LEMMA DoubtKeeps ==
  ASSUME JobTypes, NEW j \in Job, JobInv(j), NEW t \in Token, AttemptFrame(j),
         RowDoubted(j, t), att[j][t].main \notin {"buffered", "done"} \/ att[j][t].exec \notin {"idle", "over"},
         NEW m, NEW e, AttMoves(j, t, m, e, att[j][t].wire)
  PROVE  Kept(j)
<1>1. CASE RowKept(j)
  BY <1>1, KeepsRowAndWire
<1>2. CASE ~RowKept(j)
  <2> SUFFICES ASSUME slips'[j] = {} PROVE Kept(j)
    BY DEF Kept
  <2>1. slips[j] = {} /\ Alone(j)
    BY DEF AttemptFrame, Alone
  <2>2. SameWire(j)
    BY <2>1, WiredAfter DEF Alone
  <2>3. row[j].token = t /\ row'[j].status = "incerto"
    BY <1>2 DEF RowDoubted, RowMoves, Fenced
  <2>4. row[j].status = "processando"
    BY <2>3 DEF JobInv, FenceInv, BufferInv, Token
  <2>5. Moves(j, {"sending"}, {"doubtful"})
    BY <2>3, <2>4, Fates DEF Moves, Fate
  <2> QED
    BY <2>1, <2>2, <2>5, AsSystem DEF Kept
<1> QED
  BY <1>1, <1>2

\* A step of a claim that gives its row up, waiting or closed.
LEMMA GiveUpKeeps ==
  ASSUME JobTypes, NEW j \in Job, JobInv(j), NEW t \in Token, AttemptFrame(j),
         att[j][t].main \notin {"buffered", "done"} \/ att[j][t].exec \notin {"idle", "over"},
         slips'[j] = {} => Fenced(j, t) /\ ~On(att[j][t].wire),
         NEW st \in {"pendente", "erro", "cancelado"}, RowMoves(j, st, 0, row[j].wa),
         NEW m, NEW e, AttMoves(j, t, m, e, att[j][t].wire)
  PROVE  Kept(j)
<1> SUFFICES ASSUME slips'[j] = {} PROVE Kept(j)
  BY DEF Kept
<1>1. slips[j] = {} /\ Alone(j)
  BY DEF AttemptFrame, Alone
<1>2. SameWire(j)
  BY <1>1, WiredAfter DEF Alone
<1>3. row[j].token = t /\ t = issued[j] /\ row[j].status = "processando"
  BY DEF JobInv, FenceInv, BufferInv, Token, Fenced
<1>4. ~Wired(j)
  BY <1>1, <1>3, WiredIsNewest DEF On
<1>5. Moves(j, {"sending"}, {"waiting", "closed"})
  BY <1>3, Fates DEF Moves, Fate, RowMoves
<1> QED
  BY <1>1, <1>2, <1>4, <1>5, AsSystem DEF Kept, SameWire

LEMMA MarkSendingPromise ==
  ASSUME JobTypes, NEW j \in Job, JobInv(j), NEW t \in Token, AttemptFrame(j),
         MarkSending(j, t)
  PROVE  Kept(j)
<1>1. CASE RowKept(j) /\ AttMoves(j, t, "done", att[j][t].exec, att[j][t].wire)
  BY <1>1, KeepsRowAndWire
<1>2. ASSUME row[j].status = "enfileirado",
             RowMoves(j, "processando", row[j].token, row[j].wa),
             NEW m, NEW e, AttMoves(j, t, m, e, att[j][t].wire), slips'[j] = {}
      PROVE  Kept(j)
  <2>1. slips[j] = {} /\ Alone(j)
    BY <1>2 DEF AttemptFrame, Alone
  <2>2. SameWire(j)
    BY <1>2, <2>1, WiredAfter DEF Alone
  <2>3. ~Wired(j)
    BY <1>2, <2>1, WiredIsNewest
  <2>4. Moves(j, {"waiting"}, {"sending"})
    BY <1>2, Fates DEF Moves, Fate, RowMoves
  <2> QED
    BY <1>2, <2>1, <2>2, <2>3, <2>4, AsSystem DEF Kept, SameWire
<1>3. slips'[j] # {} => Kept(j)
  BY DEF Kept
<1> QED
  BY <1>1, <1>2, <1>3, MarkSendingMoves DEF JobTypes

LEMMA CallSendMessagePromise ==
  ASSUME JobTypes, NEW j \in Job, JobInv(j), NEW t \in Token, AttemptFrame(j),
         CallSendMessage(j, t)
  PROVE  Kept(j)
<1> SUFFICES ASSUME slips'[j] = {} PROVE Kept(j)
  BY DEF Kept
<1>1. slips[j] = {} /\ Alone(j)
  BY DEF AttemptFrame, Alone
<1>2. att[j][t].exec = "prepare" /\ RowKept(j) /\ AttMoves(j, t, att[j][t].main, "sending", "open")
  BY CallSendMessageMoves DEF JobTypes
<1>3. Fate(j)' = Fate(j)
  BY <1>2 DEF RowKept, RowMoves, Fate
<1>4. CASE t <= base[j]
  BY <1>1, <1>2, <1>3, <1>4, WiredAfter, AsStays DEF Alone, Kept
<1>5. CASE t > base[j]
  <2>1. ~Spent(att[j][t]) /\ att[j][t].wire = "none"
    BY <1>2 DEF Spent, JobInv, ClaimInv, Sane
  <2>2. ~Wired(j) /\ Wired(j)'
    BY <1>1, <1>2, <1>5, <2>1, WiredAfter DEF On, Alone
  <2>3. row[j].status \in {"processando", "sucesso", "erro", "cancelado", "incerto"}
    <3>1. row[j].status \in Status
      BY DEF JobTypes, RowType, Row
    <3>2. base[j] < t
      BY <1>5, Bounds DEF JobTypes, Token
    <3> QED
      BY <1>1, <2>1, <3>1, <3>2 DEF JobInv, OnceInv, Status
  <2>4. Fate(j) # "waiting"
    BY <2>3, Fates DEF Fate
  <2> QED
    BY <1>1, <1>3, <2>2, <2>4, AsSystem DEF Kept
<1> QED
  BY <1>4, <1>5, Bounds DEF JobTypes, Token

LEMMA MessageTravelsPromise ==
  ASSUME JobTypes, NEW j \in Job, JobInv(j), NEW t \in Token, AttemptFrame(j),
         MessageTravels(j, t)
  PROVE  Kept(j)
<1> SUFFICES ASSUME slips'[j] = {} PROVE Kept(j)
  BY DEF Kept
<1>1. slips[j] = {} /\ Alone(j)
  BY DEF AttemptFrame, Alone
<1>2. PICK x \in {"delivered", "dropped"} : AttMoves(j, t, att[j][t].main, att[j][t].exec, x)
  BY MessageTravelsMoves DEF JobTypes
<1>3. Fate(j)' = Fate(j) /\ att[j][t].wire = "open"
  BY MessageTravelsMoves DEF JobTypes, RowKept, RowMoves, Fate
<1>4. CASE t <= base[j] \/ x = "delivered"
  BY <1>1, <1>2, <1>3, <1>4, WiredAfter, AsStays DEF Alone, Kept, On
<1>5. CASE t > base[j] /\ x = "dropped"
  <2>1. Wired(j) /\ ~Wired(j)'
    BY <1>1, <1>2, <1>3, <1>5, WiredAfter DEF On, Alone, Spent
  <2> QED
    BY <1>1, <1>3, <2>1, AsSystem DEF Kept
<1> QED
  BY <1>2, <1>4, <1>5, Bounds DEF JobTypes, Token

LEMMA CompletePromise ==
  ASSUME JobTypes, NEW j \in Job, JobInv(j), NEW t \in Token, AttemptFrame(j),
         Complete(j, t)
  PROVE  Kept(j)
<1>1. att[j][t].exec = "accepted"
  BY CompleteMoves DEF JobTypes
<1>2. ASSUME Fenced(j, t), RowMoves(j, "sucesso", 0, t), NEW m, NEW e,
             AttMoves(j, t, m, e, att[j][t].wire),
             slips'[j] = {}
      PROVE  Kept(j)
  <2>1. slips[j] = {} /\ Alone(j)
    BY <1>2 DEF AttemptFrame, Alone
  <2>2. SameWire(j)
    BY <1>2, <2>1, WiredAfter DEF Alone
  <2>3. /\ row[j].token = t /\ t = issued[j] /\ row[j].status = "processando"
        /\ base[j] < t /\ att[j][t].wire = "delivered"
    BY <1>1, <1>2 DEF JobInv, FenceInv, BufferInv, ClaimInv, Sane, Token, Fenced
  <2>4. Wired(j)
    BY <2>1, <2>3, WiredIsNewest
  <2>5. Moves(j, {"sending"}, {"sent"})
    BY <1>2, <2>3, Fates DEF Moves, Fate, RowMoves
  <2> QED
    BY <1>2, <2>1, <2>2, <2>4, <2>5, AsSystem DEF Kept, SameWire
<1>3. slips'[j] # {} => Kept(j)
  BY DEF Kept
<1> QED
  BY <1>2, <1>3, CompleteMoves, KeepsRowAndWire DEF JobTypes, AttEnds

LEMMA AttemptPromise ==
  ASSUME JobTypes, NEW j \in Job, JobInv(j), NEW t \in Token, AttemptStep(j, t)
  PROVE  Kept(j)
<1>1. AttemptFrame(j)
  BY AttemptFrames DEF JobTypes
<1>2. Sane(att[j][t])
  BY DEF JobInv, ClaimInv
<1>3. CASE \/ PrepareFails(j, t) \/ SendAccepted(j, t) \/ SendRejected(j, t) \/ SendTimesOut(j, t)
           \/ ItemTimesOut(j, t) \/ ReadBack(j, t) \/ RetryConfirmation(j, t) \/ ValidateLease(j, t)
  <2>1. RowKept(j) /\ \E m, e : AttMoves(j, t, m, e, att[j][t].wire)
    BY <1>3, PrepareFailsMoves, SendAcceptedMoves, SendRejectedMoves,
       SendTimesOutMoves,
       ItemTimesOutMoves, ReadBackMoves, RetryConfirmationMoves, ValidateLeaseMoves DEF JobTypes, AttEnds
  <2> QED
    BY <1>1, <2>1, KeepsRowAndWire
<1>4. CASE \/ MarkForReconciliation(j, t) \/ FlushReconciliation(j, t)
           \/ MarkNoIdentifier(j, t) \/ MarkUncertain(j, t)
  <2>1. /\ RowDoubted(j, t) /\ \E m, e : AttMoves(j, t, m, e, att[j][t].wire)
        /\ att[j][t].main = "uncertain" \/ att[j][t].exec \in {"reconcile", "deferred", "noid"}
    BY <1>4, MarkForReconciliationMoves, FlushReconciliationMoves,
       MarkNoIdentifierMoves, MarkUncertainMoves
       DEF JobTypes, AttEnds
  <2> QED
    BY <1>1, <2>1, DoubtKeeps
<1>5. CASE CancelBeforeSend(j, t) \/ PhoneNotFound(j, t)
  <2>1. /\ att[j][t].exec = "prepare" /\ WritesFenced(j, t) /\ \E m, e : AttMoves(j, t, m, e, att[j][t].wire)
        /\ \E st \in {"pendente", "erro", "cancelado"} : RowMoves(j, st, 0, row[j].wa)
    BY <1>5, CancelBeforeSendMoves, PhoneNotFoundMoves DEF JobTypes, AttEnds
  <2> QED
    BY <1>1, <1>2, <2>1, GiveUpKeeps DEF WritesFenced, Sane, On
<1>6. CASE MarkFailure(j, t)
  <2>1. /\ att[j][t].main = "failing" /\ AttMoves(j, t, "done", att[j][t].exec, att[j][t].wire)
        /\ \/ RowKept(j)
           \/ /\ Fenced(j, t)
              /\ \E st \in {"pendente", "erro", "cancelado"} : RowMoves(j, st, 0, row[j].wa)
    BY <1>6, MarkFailureMoves DEF JobTypes
  <2>2. slips'[j] = {} => ~On(att[j][t].wire)
    BY <1>1, <2>1 DEF JobInv, OnceInv, Spent, On, AttemptFrame
  <2> QED
    BY <1>1, <2>1, <2>2, GiveUpKeeps, KeepsRowAndWire
<1> QED
  BY <1>1, <1>3, <1>4, <1>5, <1>6, MarkSendingPromise, CallSendMessagePromise,
     MessageTravelsPromise,
     CompletePromise DEF AttemptStep

\* A step that leaves the claims of j alone and changes its status.
LEMMA StatusKeeps ==
  ASSUME TypeOK, NEW j \in Job, JobInv(j), NEW st, row'[j].status = st,
         att'[j] = att[j], base'[j] = base[j], slips[j] \subseteq slips'[j],
         \/ /\ j \in settled' <=> j \in settled
            /\ \/ slips'[j] # {}
               \/ row[j].status \in {"pendente", "enfileirado", "pausado"}
                  /\ st \in {"pendente", "enfileirado", "pausado", "cancelado"}
               \/ row[j].status = "processando" /\ st = "incerto"
         \/ /\ j \in settled'
            /\ \/ row[j].status = "incerto" /\ st \in {"sucesso", "erro"}
               \/ row[j].status \in {"pendente", "enfileirado", "processando", "pausado", "incerto"} /\ st = "erro"
  PROVE  Kept(j)
<1> SUFFICES ASSUME slips'[j] = {} PROVE Kept(j)
  BY DEF Kept
<1>1. slips[j] = {} /\ SameWire(j) /\ JobTypes
  BY TypesOfJobs DEF SameWire, Wired
<1>2. Fate(j) = FateOf(row[j].status) /\ Fate(j)' = FateOf(st)
  BY DEF Fate
<1>3. CASE j \in settled' <=> j \in settled
  <2>1. Alone(j)
    BY <1>3 DEF Alone
  <2>2. CASE row[j].status = "processando" /\ st = "incerto"
    BY <1>1, <1>2, <2>1, <2>2, Fates, AsSystem DEF Kept, Moves
  <2>3. CASE row[j].status \in {"pendente", "enfileirado", "pausado"}
             /\ st \in {"pendente", "enfileirado", "pausado"}
    <3>1. Fate(j)' = Fate(j)
      BY <1>2, <2>3, Fates
    <3> QED
      BY <1>1, <2>1, <3>1, AsStays DEF Kept
  <2>4. CASE row[j].status \in {"pendente", "enfileirado", "pausado"} /\ st = "cancelado"
    <3>1. ~Wired(j)
      BY <1>1, <2>4, WiredIsNewest
    <3>2. Moves(j, {"waiting"}, {"closed"})
      BY <1>2, <2>4, Fates DEF Moves
    <3> QED
      BY <1>1, <2>1, <3>1, <3>2, AsSystem DEF Kept, SameWire
  <2>5. CASE /\ j \in settled'
             /\ \/ row[j].status = "incerto" /\ st \in {"sucesso", "erro"}
                \/ row[j].status \in {"pendente", "enfileirado", "processando", "pausado", "incerto"} /\ st = "erro"
    <3>1. \/ Moves(j, {"doubtful"}, {"sent", "closed"})
          \/ Moves(j, DP!Fate \ {"sent"}, {"closed"})
      BY <1>2, <2>5, Fates DEF Moves, DP!Fate
    <3> QED
      BY <1>1, <2>5, <3>1, AsSettle DEF Kept
  <2> QED
    BY <2>2, <2>3, <2>4, <2>5
<1>4. CASE ~(j \in settled' <=> j \in settled)
  <2>1. \/ Moves(j, {"doubtful"}, {"sent", "closed"})
        \/ Moves(j, DP!Fate \ {"sent"}, {"closed"})
    BY <1>2, <1>4, Fates DEF Moves, DP!Fate
  <2> QED
    BY <1>1, <1>4, <2>1, AsSettle DEF Kept
<1> QED
  BY <1>3, <1>4

LEMMA ClaimPromise ==
  ASSUME TypeOK, NEW w \in Worker, Claim(w), NEW j \in Job, JobInv(j)
  PROVE  Kept(j)
<1>1. UNCHANGED <<base, settled, slips>>
  BY Zenon DEF Claim, observers
<1>2. CASE Taking(j)
  <2>1. Wired(j)' <=> Wired(j)
    <3>1. issued[j] \in Nat /\ \A t \in Token : t = issued[j] + 1 => att[j][t].wire = "none"
      BY Bounds DEF JobInv, ClaimInv, NoAttempt, TypeOK, Token
    <3> QED
      BY <1>1, <1>2, <3>1 DEF Wired, Taking
  <2>2. Fate(j)' = Fate(j)
    BY <1>2, Fates DEF Taking, Fate
  <2>3. slips'[j] = slips[j] /\ Alone(j)
    BY <1>1 DEF Alone
  <2> QED
    BY <2>1, <2>2, <2>3, AsStays DEF Kept, SameWire
<1>3. CASE row'[j] = row[j] /\ att'[j] = att[j]
  BY <1>1, <1>3, NothingHappens
<1> QED
  BY <1>2, <1>3, ClaimEffect

LEMMA CrashPromise ==
  ASSUME TypeOK, NEW w \in Worker, Crash(w), NEW j \in Job
  PROVE  Kept(j)
<1>1. UNCHANGED <<row, issued, base, settled, slips>>
  BY Zenon DEF Crash, observers
<1>2. ASSUME NEW t \in Token PROVE att'[j][t].wire = att[j][t].wire
  <2>1. att[j][t] \in Attempt
    BY DEF TypeOK
  <2>2. att'[j][t] = IF att[j][t].worker = w
               THEN [att[j][t] EXCEPT !.main = "done", !.exec = "over"] ELSE att[j][t]
    BY DEF Crash
  <2> QED
    BY <2>1, <2>2 DEF Attempt
<1>3. Alone(j) /\ SameWire(j) /\ Fate(j)' = Fate(j) /\ slips'[j] = slips[j]
  BY <1>1, <1>2 DEF Alone, SameWire, Wired, Fate
<1> QED
  BY <1>3, AsStays DEF Kept

LEMMA ReclaimPromise ==
  ASSUME TypeOK, NEW w \in Recovering, RecoveryStep(w), NEW j \in Job, JobInv(j)
  PROVE  Kept(j)
<1> DEFINE R == reclaim[w]
<1>1. R.queued \subseteq Job /\ R.processing \subseteq Job /\ RowType /\ slips \in [Job -> SUBSET Slip]
  BY DEF TypeOK, RowType
<1>2. UNCHANGED <<issued, att, base, settled>>
  BY Zenon DEF RecoveryStep, ReclaimSelect, ReclaimQueued, ReclaimProcessing,
     ReclaimFails, observers
<1>3. ASSUME NEW J \in SUBSET Job, NEW st, NEW was, Rows(J, st),
             Overwritten(J, was),
             <<st, was>> \in {<<"pendente", "enfileirado">>, <<"incerto", "processando">>}
      PROVE  Kept(j)
  <2>1. RowsMove(J, st)
    BY <1>1, <1>3, RowsEffect DEF Status
  <2>2. slips'[j] = IF j \in J /\ row[j].status # was THEN slips[j] \cup {"reclaim"} ELSE slips[j]
    BY <1>3 DEF Overwritten
  <2>3. CASE j \in J
    BY <1>1, <1>2, <1>3, <2>1, <2>2, <2>3, StatusKeeps DEF RowsMove
  <2>4. CASE j \notin J
    BY <1>2, <2>1, <2>2, <2>4, NothingHappens DEF RowsMove
  <2> QED
    BY <2>3, <2>4
<1>4. CASE ReclaimQueued(w)
  BY <1>1, <1>3, <1>4 DEF ReclaimQueued
<1>5. CASE ReclaimProcessing(w)
  BY <1>1, <1>3, <1>5 DEF ReclaimProcessing
<1>6. CASE UNCHANGED <<row, slips>>
  BY <1>2, <1>6, NothingHappens
<1> QED
  BY <1>4, <1>5, <1>6 DEF RecoveryStep, ReclaimSelect, ReclaimFails, observers

LEMMA ResetPromise ==
  ASSUME TypeOK, NEW k, ResetStaleItems(k), NEW j \in Job, JobInv(j)
  PROVE  Kept(j)
<1> DEFINE J == Expired("enfileirado") \cap Table(k)
<1>1. UNCHANGED <<issued, att, base, settled, slips>>
  BY Zenon DEF ResetStaleItems, observers
<1>2. RowsMove(J, "pendente")
  BY RowsEffect DEF ResetStaleItems, TypeOK, RowType, Expired, Status
<1>3. j \in J => row[j].status = "enfileirado"
  BY DEF Expired
<1> HIDE DEF J
<1>4. CASE j \in J
  BY <1>1, <1>2, <1>3, <1>4, StatusKeeps DEF RowsMove
<1>5. CASE j \notin J
  BY <1>1, <1>2, <1>5, NothingHappens DEF RowsMove
<1> QED
  BY <1>4, <1>5

LEMMA PersonPromise ==
  ASSUME TypeOK, PersonStep, NEW j \in Job, JobInv(j)
  PROVE  Kept(j)
<1>1. RowType /\ JobTypes
  BY TypesOfJobs DEF TypeOK, RowType
<1>2. UNCHANGED <<issued, att, slips>>
  BY <1>1, PersonEffect
<1>3. ASSUME NEW i \in Job, row[i].status = "incerto",
             RowMoves(i, "pendente", 0, row[i].wa),
             base' = [base EXCEPT ![i] = issued[i]], UNCHANGED settled
      PROVE  Kept(j)
  <2>1. CASE i # j
    BY <1>1, <1>2, <1>3, <2>1, NothingHappens DEF RowMoves, JobTypes
  <2>2. CASE i = j /\ slips[j] = {}
    <3>1. base'[j] = issued[j] /\ base'[j] > base[j]
      BY <1>1, <1>3, <2>2, Bounds DEF JobTypes, JobInv, OnceInv
    <3>2. ~Wired(j)'
      BY <1>2, <3>1 DEF Wired, JobInv, ClaimInv, NoAttempt
    <3>3. Moves(j, {"doubtful"}, {"waiting"})
      BY <1>3, <2>2, Fates DEF Moves, Fate, RowMoves
    <3> QED
      BY <1>2, <1>3, <2>2, <3>1, <3>2, <3>3, AsAskAgain DEF Kept
  <2> QED
    BY <1>2, <2>1, <2>2 DEF Kept
<1>4. ASSUME NEW i \in Job, row[i].status = "incerto",
             NEW st \in {"sucesso", "erro"},
             RowMoves(i, st, row[i].token, row[i].wa), UNCHANGED base, settled' = settled \cup {i}
      PROVE  Kept(j)
  <2>1. CASE i # j
    BY <1>2, <1>4, <2>1, NothingHappens DEF RowMoves
  <2>2. CASE i = j
    BY <1>1, <1>2, <1>4, <2>2, StatusKeeps DEF RowMoves
  <2> QED
    BY <2>1, <2>2
<1>5. ASSUME NEW J \in SUBSET {i \in Job : row[i].status \in {"pendente", "enfileirado", "pausado"}},
             
             NEW st \in {"pausado", "pendente", "cancelado"}, RowsMove(J, st), UNCHANGED <<base, settled>>
      PROVE  Kept(j)
  <2>1. CASE j \in J
    BY <1>2, <1>5, <2>1, StatusKeeps DEF RowsMove
  <2>2. CASE j \notin J
    BY <1>2, <1>5, <2>2, NothingHappens DEF RowsMove
  <2> QED
    BY <2>1, <2>2
<1>6. ASSUME NEW J \in SUBSET {i \in Job : row[i].status \notin {"sucesso", "erro", "cancelado"}},
             
             RowsMove(J, "erro"), UNCHANGED base, settled' = settled \cup J
      PROVE  Kept(j)
  <2>1. CASE j \in J
    <3>1. row[j].status \in {"pendente", "enfileirado", "processando", "pausado", "incerto"}
      BY <1>6, <2>1 DEF TypeOK, Row, Status
    <3> QED
      BY <1>2, <1>6, <2>1, <3>1, StatusKeeps DEF RowsMove
  <2>2. CASE j \notin J
    BY <1>2, <1>6, <2>2, NothingHappens DEF RowsMove
  <2> QED
    BY <2>1, <2>2
<1> QED
  BY <1>1, <1>3, <1>4, <1>5, <1>6, PersonEffect

LEMMA NextPromise ==
  ASSUME TypeOK, [Next]_vars, \A i \in Job : JobInv(i), NEW j \in Job
  PROVE  Kept(j)
<1>1. ASSUME NEW i \in Job, NEW t \in Token, AttemptStep(i, t) PROVE Kept(j)
  <2>1. CASE i = j
    BY <1>1, <2>1, AttemptPromise, TypesOfJobs
  <2>2. CASE i # j
    <3>1. JobTypes /\ AttemptFrame(i)
      BY <1>1, AttemptFrames, TypesOfJobs DEF JobTypes
    <3>2. row'[j] = row[j] /\ att'[j] = att[j]
      BY <1>1, <2>2, <3>1, AttemptOthers DEF JobTypes
    <3> QED
      BY <2>2, <3>1, <3>2, NothingHappens DEF AttemptFrame
  <2> QED
    BY <2>1, <2>2
<1>2. ASSUME NEW w \in Worker, WorkerStep(w) PROVE Kept(j)
  BY <1>2, ClaimPromise, CrashPromise DEF WorkerStep
<1>3. ASSUME NEW w \in Recovering, RecoveryStep(w) PROVE Kept(j)
  BY <1>3, ReclaimPromise
<1>4. ASSUME NEW k, ResetStaleItems(k) PROVE Kept(j)
  BY <1>4, ResetPromise
<1>5. ASSUME NEW i \in Job, DeadlinePasses(i) \/ BecomesDue(i) PROVE Kept(j)
  <2>1. RowKept(i) /\ UNCHANGED <<issued, att, base, settled, slips>>
    BY <1>5, TimeEffect DEF TypeOK, RowType
  <2>2. Alone(j) /\ SameWire(j) /\ Fate(j)' = Fate(j) /\ slips'[j] = slips[j]
    BY <2>1 DEF RowKept, RowMoves, Alone, SameWire, Wired, Fate
  <2> QED
    BY <2>2, AsStays DEF Kept
<1>6. CASE UNCHANGED <<row, att, base, settled, slips>>
  BY <1>6, NothingHappens
<1>7. ASSUME NEW s \in Session, CircuitCoolsDown(s) \/ LeaseMoves(s) PROVE Kept(j)
  BY <1>6, <1>7 DEF CircuitCoolsDown, LeaseMoves, observers
<1>8. CASE PersonStep
  BY <1>8, PersonPromise
<1> QED
  BY <1>1, <1>2, <1>3, <1>4, <1>5, <1>6, <1>7, <1>8 DEF Next, vars, observers

LEMMA InitPromise == ASSUME Init PROVE DP!Init
<1>1. ASSUME NEW j \in Job
      PROVE  FateOf(row[j].status) = "waiting" /\ slips[j] = {}
             /\ ~\E t \in Token : t > base[j] /\ att[j][t].wire \in {"open", "delivered"}
  <2>1. row[j].status = "pendente"
    BY DEF Init
  <2> QED
    BY <2>1, Fates DEF Init, NoAttempt
<1> QED
  BY <1>1 DEF Init, DP!Init

\* What the queue promises of one message is implemented by all its workers,
\* claims, recoveries and people together.
THEOREM PromiseHolds == Spec => KeepsPromise
<1>1. QueueInv /\ [Next]_vars => DP!Next
  <2> SUFFICES ASSUME QueueInv, [Next]_vars, NEW j \in Job
               PROVE  \/ slips'[j] # {}
                      \/ /\ slips[j] = {} /\ slips'[j] = {}
                         /\ DP!System(j) \/ DP!AskAgain(j) \/ DP!Settle(j) \/ DP!Stays(j)
    BY DEF DP!Next
  <2> QED
    BY NextPromise DEF QueueInv, Kept
<1> QED
  BY <1>1, Invariance, InitPromise, PTL DEF Spec, KeepsPromise, DP!Promise

=============================================================================
