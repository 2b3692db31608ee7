--------------------------- MODULE EventsProofs -----------------------------
(***************************************************************************)
(* Proofs about the events and clicks of Services: what is followed up and *)
(* answered, and what the tables call done.                                *)
(*                                                                         *)
(* EventsInv says who has claimed each message, what he knows of it and how*)
(* many functions may still answer an event, which the properties do not.  *)
(***************************************************************************)
EXTENDS ServicesProofs, FiniteSetTheorems

-----------------------------------------------------------------------------
\* What a function is doing.
FnState == [at : {"idle", "start", "due", "armed", "again", "taken", "log"},
            on : E!Event \cup {NoEvent}, k : 0..MaxSteps, next : BOOLEAN, left : 0..MaxExtra]
\* What becomes of an event.
EventStatus == {"absent", "received", "processed", "ignored", "failed"}

\* A function works on an event or on a message that is due, and only a click
\* or a due message has a message to follow up; only a click on a flow has more
\* than one message to send.
ShapeInv == \A f \in Function :
  /\ fn[f].at \in {"start", "armed", "taken"} /\ fn[f].k = 0 => fn[f].on \in E!Event
  /\ fn[f].at = "start" => fn[f].on \in E!Event
  /\ fn[f].at # "idle" /\ fn[f].on \in Purchase \cup Lead => fn[f].k = 0
  /\ fn[f].at = "due" => fn[f].k > 0 /\ fn[f].on = NoEvent
  /\ fn[f].at = "log" => fn[f].k > 0
  /\ fn[f].at = "again" => fn[f].k = 0 /\ fn[f].on \in Click
  /\ fn[f].at \in {"armed", "again", "taken"} /\ fn[f].left > 0 => fn[f].k = 0 /\ fn[f].on \in Click

\* Function f has claimed the follow-up of message fn[f].k.
Claims(f) == fn[f].k > 0 /\ fn[f].at \in {"due", "armed", "taken", "log"}
\* The states of a message that somebody has claimed.
Claimed == {"sending", "sent", "failed"}

\* A follow-up is claimed by one function, once: a claimed message is never free
\* again, and who claimed it knows whether Meta has accepted the follow-up.
ClaimInv ==
  /\ \A f \in Function : Claims(f) =>
       /\ link[fn[f].k] \in Claimed
       /\ fn[f].at \in {"due", "armed"} => reply[fn[f].k] = 0
       /\ fn[f].at \in {"taken", "log"} => reply[fn[f].k] > 0
  /\ \A f, g \in Function : Claims(f) /\ Claims(g) /\ fn[f].k = fn[g].k => f = g
  /\ \A k \in E!Message : reply[k] <= 1 /\ (link[k] \notin Claimed => reply[k] = 0)

\* What the tables say was accepted; who is about to say it knows.
TruthInv ==
  /\ E!DoneIsTrue
  /\ \A f \in Function : fn[f].at \in {"taken", "again"} /\ fn[f].k = 0 => sent[fn[f].on] > 0

\* The functions that may still send the message of event e.
Pending(e) == {f \in Function : fn[f].on = e /\ fn[f].at \in {"start", "armed"}}
\* The messages that the stored event e allows.
Allowed(e) == IF ev[e] = "absent" THEN 0 ELSE IF e \in Purchase THEN 1 + retries[e] ELSE 1
\* What was sent and what may still be sent does not exceed what is allowed.
AnswerInv == \A e \in E!Event :
  IsFiniteSet(Pending(e)) /\ sent[e] + Cardinality(Pending(e)) <= Allowed(e)

\* The inductive invariant of the events.
EventsInv == E!TypeOK /\ ShapeInv /\ ClaimInv /\ TruthInv /\ AnswerInv

\* What the type invariant says, in the terms of this module.
LEMMA EventsTyped ==
  ASSUME E!TypeOK
  PROVE  /\ ev \in [E!Event -> EventStatus] /\ link \in [E!Message -> E!State]
         /\ fn \in [Function -> FnState]
         /\ sent \in [E!Event -> Nat] /\ extra \in [Click -> Nat] /\ reply \in [E!Message -> Nat]
         /\ retries \in [Purchase -> 0..MaxRetries] /\ faults \in 0..MaxFaults
         /\ active \in BOOLEAN /\ steps \in 0..MaxSteps
  BY DEF E!TypeOK, FnState, EventStatus

\* What is assumed of the constants of the events.
LEMMA EventsConstants ==
  /\ Purchase \cap Lead = {} /\ Purchase \cap Click = {} /\ Lead \cap Click = {}
  /\ NoEvent \notin E!Event /\ MaxSteps \in Nat \ {0} /\ About \in [Click -> 0..MaxSteps]
  /\ ByDelay \subseteq E!Message /\ MaxExtra \in Nat /\ MaxRetries \in Nat /\ MaxFaults \in Nat
  /\ E!Event = Purchase \cup Lead \cup Click /\ E!Message = 1..MaxSteps
  BY ServicesAssumption DEF E!EventsAssumption, E!Event, E!Message

\* No event has arrived.
LEMMA EventsBegin == ASSUME E!Init PROVE EventsInv
<1>1. E!TypeOK
  <2>1. active = TRUE
    BY Zenon DEF E!Init
  <2>2. active \in BOOLEAN
    BY <2>1, Zenon
  <2>3. fn \in [Function -> FnState]
    <3>1. E!Rest \in FnState
      BY EventsConstants DEF E!Rest, FnState
    <3> QED BY <3>1 DEF E!Init
  <2> QED BY <2>2, <2>3, EventsConstants DEF E!Init, E!TypeOK, FnState, E!State
<1>2. \A f \in Function : fn[f].at = "idle"
  BY DEF E!Init, E!Rest
<1>3. ShapeInv /\ ClaimInv
  BY <1>2 DEF ShapeInv, ClaimInv, Claims, E!Init
<1>4. TruthInv
  BY <1>2, EventsConstants DEF TruthInv, E!DoneIsTrue, E!Init
<1>5. AnswerInv
  <2>1. \A e \in E!Event : Pending(e) = {} /\ sent[e] = 0 /\ ev[e] = "absent"
    BY <1>2 DEF Pending, E!Init
  <2> QED BY <2>1, FS_EmptySet DEF AnswerInv, Allowed
<1> QED BY <1>1, <1>3, <1>4, <1>5 DEF EventsInv

\* Steps of the other services keep it.
LEMMA EventsStay == ASSUME EventsInv, UNCHANGED evars PROVE EventsInv'
<1>1. /\ ev' = ev /\ link' = link /\ run' = run /\ fn' = fn /\ active' = active /\ steps' = steps
      /\ sent' = sent /\ extra' = extra /\ reply' = reply /\ retries' = retries /\ faults' = faults
  BY DEF evars
<1>2. E!TypeOK'
  BY <1>1 DEF EventsInv, E!TypeOK
<1>3. ShapeInv' /\ ClaimInv'
  BY <1>1 DEF EventsInv, ShapeInv, ClaimInv, Claims
<1>4. TruthInv'
  BY <1>1 DEF EventsInv, TruthInv, E!DoneIsTrue, E!Delivered
<1>5. AnswerInv'
  BY <1>1 DEF EventsInv, AnswerInv, Pending, Allowed
<1> QED BY <1>2, <1>3, <1>4, <1>5 DEF EventsInv

-----------------------------------------------------------------------------
\* Function f goes to a, with event e, message k and n messages after it.
FnGoes(f, a, e, k, n) ==
  /\ fn' \in [Function -> FnState]
  /\ fn'[f].at = a /\ fn'[f].on = e /\ fn'[f].k = k /\ fn'[f].left = n
  /\ \A g \in Function \ {f} : fn'[g] = fn[g]

\* Only the record of function f changes, to y.
LEMMA FnPut ==
  ASSUME E!TypeOK, NEW f \in Function, NEW y \in FnState, fn' = [fn EXCEPT ![f] = y]
  PROVE  FnGoes(f, y.at, y.on, y.k, y.left)
<1>1. fn \in [Function -> FnState]
  BY EventsTyped
<1>2. fn' \in [Function -> FnState] /\ fn'[f] = y /\ \A g \in Function \ {f} : fn'[g] = fn[g]
  BY <1>1, Put
<1> QED BY <1>2, Zenon DEF FnGoes

\* A function has finished.
LEMMA FnRests ==
  ASSUME E!TypeOK, NEW f \in Function, E!Done(f)
  PROVE  FnGoes(f, "idle", NoEvent, 0, 0)
<1> DEFINE y == E!Rest
<1>1. y \in FnState /\ y.at = "idle" /\ y.on = NoEvent /\ y.k = 0 /\ y.left = 0
  BY EventsConstants DEF E!Rest, FnState
<1>2. fn' = [fn EXCEPT ![f] = y]
  BY DEF E!Done
<1> HIDE DEF y
<1>4. FnGoes(f, y.at, y.on, y.k, y.left)
  BY <1>1, <1>2, FnPut
<1> QED BY <1>1, <1>4, Zenon

\* A function is about to send.
LEMMA FnArms ==
  ASSUME E!TypeOK, NEW f \in Function, NEW b \in BOOLEAN, NEW n \in 0..MaxExtra, E!Arm(f, b, n)
  PROVE  FnGoes(f, "armed", fn[f].on, fn[f].k, n)
<1>0. fn[f] \in FnState
  BY EventsTyped
<1> DEFINE y == [fn[f] EXCEPT !.at = "armed", !.next = b, !.left = n]
<1>1. y \in FnState /\ y.at = "armed" /\ y.on = fn[f].on /\ y.k = fn[f].k /\ y.left = n
  BY <1>0 DEF FnState
<1>2. fn' = [fn EXCEPT ![f] = y]
  BY Zenon DEF E!Arm
<1> HIDE DEF y
<1>4. FnGoes(f, y.at, y.on, y.k, y.left)
  BY <1>1, <1>2, FnPut
<1> QED BY <1>1, <1>4, Zenon

\* Function f goes on in its work.
LEMMA FnAdvances ==
  ASSUME E!TypeOK, NEW f \in Function, NEW a \in {"taken", "log"}, fn' = [fn EXCEPT ![f].at = a]
  PROVE  FnGoes(f, a, fn[f].on, fn[f].k, fn[f].left)
<1>0. fn[f] \in FnState
  BY EventsTyped
<1> DEFINE y == [fn[f] EXCEPT !.at = a]
<1>1. y \in FnState /\ y.at = a /\ y.on = fn[f].on /\ y.k = fn[f].k /\ y.left = fn[f].left
  BY <1>0 DEF FnState
<1>2. fn' = [fn EXCEPT ![f] = y]
  BY Zenon
<1> HIDE DEF y
<1>4. FnGoes(f, y.at, y.on, y.k, y.left)
  BY <1>1, <1>2, FnPut
<1> QED BY <1>1, <1>4, Zenon

\* The function goes on to the next additional message of its flow.
LEMMA FnRepeats ==
  ASSUME E!TypeOK, NEW f \in Function, fn[f].left > 0,
         fn' = [fn EXCEPT ![f].at = "again", ![f].left = @ - 1]
  PROVE  FnGoes(f, "again", fn[f].on, fn[f].k, fn[f].left - 1)
<1>0. fn[f] \in FnState /\ fn[f].left \in Nat /\ fn[f].left - 1 \in 0..MaxExtra
  <2>1. fn[f] \in FnState
    BY EventsTyped
  <2>2. fn[f].left \in 0..MaxExtra
    BY <2>1 DEF FnState
  <2> QED BY <2>1, <2>2, EventsConstants
<1> DEFINE y == [fn[f] EXCEPT !.at = "again", !.left = fn[f].left - 1]
<1>1. y \in FnState /\ y.at = "again" /\ y.on = fn[f].on /\ y.k = fn[f].k /\ y.left = fn[f].left - 1
  BY <1>0 DEF FnState
<1>2. fn' = [fn EXCEPT ![f] = y]
  BY Zenon
<1> HIDE DEF y
<1>4. FnGoes(f, y.at, y.on, y.k, y.left)
  BY <1>1, <1>2, FnPut
<1> QED BY <1>1, <1>4, Zenon

\* A new event is taken up, at rest before.
LEMMA FnStarts ==
  ASSUME E!TypeOK, NEW f \in Function, NEW a \in {"start", "due"},
         NEW e \in E!Event \cup {NoEvent}, NEW k \in 0..MaxSteps,
         fn' = [fn EXCEPT ![f] = [E!Rest EXCEPT !.at = a, !.on = e, !.k = k]]
  PROVE  FnGoes(f, a, e, k, 0)
<1> DEFINE y == [E!Rest EXCEPT !.at = a, !.on = e, !.k = k]
<1>1. E!Rest \in FnState /\ E!Rest.left = 0
  BY EventsConstants DEF E!Rest, FnState
<1>2. y \in FnState /\ y.at = a /\ y.on = e /\ y.k = k /\ y.left = 0
  BY <1>1 DEF FnState
<1>3. fn' = [fn EXCEPT ![f] = y]
  BY Zenon
<1> HIDE DEF y
<1>4. FnGoes(f, y.at, y.on, y.k, y.left)
  BY <1>2, <1>3, FnPut
<1> QED BY <1>2, <1>4, Zenon

\* A purchase is taken up again.
LEMMA ReprocessGoes ==
  ASSUME E!TypeOK, NEW f \in Function, NEW e \in Purchase, E!Reprocess(f, e)
  PROVE  FnGoes(f, "start", e, 0, 0)
<1> DEFINE y == [E!Rest EXCEPT !.at = "start", !.on = e]
<1>1. E!Rest \in FnState /\ E!Rest.k = 0 /\ E!Rest.left = 0 /\ e \in E!Event
  BY EventsConstants DEF E!Rest, FnState
<1>2. y \in FnState /\ y.at = "start" /\ y.on = e /\ y.k = 0 /\ y.left = 0
  BY <1>1 DEF FnState
<1>3. fn' = [fn EXCEPT ![f] = y]
  BY Zenon DEF E!Reprocess
<1> HIDE DEF y
<1>4. FnGoes(f, y.at, y.on, y.k, y.left)
  BY <1>2, <1>3, FnPut
<1> QED BY <1>2, <1>4, Zenon

\* A message that is due is taken up.
LEMMA DueGoes ==
  ASSUME E!TypeOK, NEW f \in Function, NEW m \in ByDelay,
         fn' = [fn EXCEPT ![f] = [E!Rest EXCEPT !.at = "due", !.k = m]]
  PROVE  FnGoes(f, "due", NoEvent, m, 0)
<1> DEFINE y == [E!Rest EXCEPT !.at = "due", !.k = m]
<1>0. m \in 0..MaxSteps
  BY EventsConstants
<1>1. E!Rest \in FnState /\ E!Rest.on = NoEvent /\ E!Rest.left = 0
  BY EventsConstants DEF E!Rest, FnState
<1>2. y \in FnState /\ y.at = "due" /\ y.on = NoEvent /\ y.k = m /\ y.left = 0
  BY <1>0, <1>1 DEF FnState
<1>3. fn' = [fn EXCEPT ![f] = y]
  BY Zenon
<1> HIDE DEF y
<1>4. FnGoes(f, y.at, y.on, y.k, y.left)
  BY <1>2, <1>3, FnPut
<1> QED BY <1>2, <1>4, Zenon

\* The status of the event of function f.
LEMMA Marks ==
  ASSUME E!TypeOK, NEW f \in Function, NEW s \in EventStatus \ {"absent"}, E!Mark(f, s)
  PROVE  /\ ev' \in [E!Event -> EventStatus]
         /\ \A e \in E!Event : ev[e] # "absent" => ev'[e] # "absent"
         /\ \A e \in E!Event : ev'[e] = "processed" =>
              ev[e] = "processed" \/ (s = "processed" /\ e = fn[f].on)
<1>1. ev \in [E!Event -> EventStatus] /\ fn[f].on \in E!Event \cup {NoEvent}
  BY EventsTyped DEF FnState
<1>2. CASE fn[f].on = NoEvent
  BY <1>1, <1>2 DEF E!Mark
<1>3. CASE fn[f].on # NoEvent
  <2>1. ev' = [ev EXCEPT ![fn[f].on] = s] /\ fn[f].on \in E!Event
    BY <1>1, <1>3 DEF E!Mark
  <2> QED BY <1>1, <2>1, Put
<1> QED BY <1>2, <1>3

\* What Meta accepted is not taken back.
LEMMA StaysDelivered ==
  ASSUME \A e \in E!Event : sent[e] > 0 => sent'[e] > 0,
         \A k \in E!Message : reply[k] > 0 => reply'[k] > 0,
         NEW k \in E!Message, E!Delivered(k)
  PROVE  E!Delivered(k)'
<1>1. k # 0 /\ (k # 1 => k - 1 \in E!Message)
  BY EventsConstants
<1>2. CASE k = 1
  BY <1>2, EventsConstants DEF E!Delivered
<1>3. CASE k # 1
  BY <1>1, <1>3 DEF E!Delivered
<1> QED BY <1>2, <1>3

-----------------------------------------------------------------------------
\* How the functions that may send the message of an event change.
LEMMA PendingChanges ==
  ASSUME NEW f \in Function, NEW a, NEW d, NEW k, NEW n, FnGoes(f, a, d, k, n), NEW e
  PROVE  /\ (d = fn[f].on /\ a \in {"start", "armed"} /\ fn[f].at \in {"start", "armed"})
              => Pending(e)' = Pending(e)
         /\ (a \notin {"start", "armed"} /\ fn[f].at \notin {"start", "armed"})
              => Pending(e)' = Pending(e)
         /\ a \notin {"start", "armed"} => Pending(e)' = Pending(e) \ {f}
         /\ (a \in {"start", "armed"} /\ fn[f].at \notin {"start", "armed"})
              => Pending(e)' = IF e = d THEN Pending(e) \cup {f} ELSE Pending(e)
  BY DEF FnGoes, Pending

\* Nobody new is about to answer an event.
LEMMA AnswerSame ==
  ASSUME EventsInv, \A e \in E!Event : Pending(e)' = Pending(e),
         \A e \in E!Event : ev[e] # "absent" => ev'[e] # "absent",
         sent' = sent, retries' = retries
  PROVE  AnswerInv'
<1> SUFFICES ASSUME NEW e \in E!Event
             PROVE  (IsFiniteSet(Pending(e)) /\ sent[e] + Cardinality(Pending(e)) <= Allowed(e))'
  BY DEF AnswerInv
<1>1. IsFiniteSet(Pending(e)) /\ sent[e] + Cardinality(Pending(e)) <= Allowed(e)
  BY DEF EventsInv, AnswerInv
<1>2. Cardinality(Pending(e)) \in Nat /\ sent[e] \in Nat
  BY <1>1, FS_CardinalityType, EventsTyped DEF EventsInv
<1>3. Allowed(e) <= Allowed(e)' /\ Allowed(e) \in Nat /\ Allowed(e)' \in Nat
  BY EventsTyped, EventsConstants DEF EventsInv, Allowed
<1> QED BY <1>1, <1>2, <1>3

\* A function stops without a message accepted.
LEMMA AnswerFewer ==
  ASSUME EventsInv, NEW f \in Function, \A e \in E!Event : Pending(e)' = Pending(e) \ {f},
         \A e \in E!Event : ev[e] # "absent" => ev'[e] # "absent",
         sent' = sent, retries' = retries
  PROVE  AnswerInv'
<1> SUFFICES ASSUME NEW e \in E!Event
             PROVE  (IsFiniteSet(Pending(e)) /\ sent[e] + Cardinality(Pending(e)) <= Allowed(e))'
  BY DEF AnswerInv
<1>1. IsFiniteSet(Pending(e)) /\ sent[e] + Cardinality(Pending(e)) <= Allowed(e)
  BY DEF EventsInv, AnswerInv
<1>2. Cardinality(Pending(e)) \in Nat /\ sent[e] \in Nat
  BY <1>1, FS_CardinalityType, EventsTyped DEF EventsInv
<1>3. Allowed(e) <= Allowed(e)' /\ Allowed(e) \in Nat /\ Allowed(e)' \in Nat
  BY EventsTyped, EventsConstants DEF EventsInv, Allowed
<1>4. IsFiniteSet(Pending(e) \ {f}) /\ Cardinality(Pending(e) \ {f}) <= Cardinality(Pending(e))
      /\ Cardinality(Pending(e) \ {f}) \in Nat
  <2>1. IsFiniteSet(Pending(e) \ {f}) /\ Cardinality(Pending(e) \ {f}) \in Nat
        /\ Cardinality(Pending(e) \ {f}) = IF f \in Pending(e) THEN Cardinality(Pending(e)) - 1
                                           ELSE Cardinality(Pending(e))
    BY <1>1, FS_RemoveElement, FS_CardinalityType
  <2> QED BY <1>2, <2>1
<1>5. Pending(e)' = Pending(e) \ {f} /\ sent'[e] = sent[e]
  OBVIOUS
<1>6. IsFiniteSet(Pending(e))' /\ Cardinality(Pending(e))' = Cardinality(Pending(e) \ {f})
  BY <1>4, <1>5
<1>7. sent'[e] + Cardinality(Pending(e))' <= Allowed(e)'
  BY <1>1, <1>2, <1>3, <1>4, <1>5, <1>6
<1> QED BY <1>6, <1>4, <1>7

\* A function stops being about to send and its message may have been accepted.
LEMMA AnswerCounted ==
  ASSUME EventsInv, NEW f \in Function, fn[f].at = "armed",
         \A e \in E!Event : Pending(e)' = Pending(e) \ {f},
         \A e \in E!Event : ev[e] # "absent" => ev'[e] # "absent",
         E!Count(f), retries' = retries
  PROVE  /\ AnswerInv'
         /\ sent' \in [E!Event -> Nat] /\ reply' \in [E!Message -> Nat]
         /\ \A e \in E!Event : sent[e] > 0 => sent'[e] > 0
         /\ fn[f].k > 0 => reply'[fn[f].k] = reply[fn[f].k] + 1
         /\ \A k \in E!Message : k # fn[f].k => reply'[k] = reply[k]
         /\ fn[f].k = 0 => sent'[fn[f].on] > 0
         /\ extra' = extra
<1>1. fn[f] \in FnState /\ sent \in [E!Event -> Nat] /\ reply \in [E!Message -> Nat]
  BY EventsTyped DEF EventsInv
<1>2. fn[f].k \in 0..MaxSteps
  BY <1>1 DEF FnState
<1>3. CASE fn[f].k > 0
  <2>1. reply' = [reply EXCEPT ![fn[f].k] = @ + 1] /\ sent' = sent /\ extra' = extra
    BY <1>3 DEF E!Count, E!Follows
  <2>2. fn[f].k \in E!Message
    BY <1>2, <1>3, EventsConstants
  <2>3. AnswerInv'
    BY <2>1, AnswerFewer
  <2>4. reply[fn[f].k] + 1 \in Nat
    BY <1>1, <2>2
  <2>5. reply' \in [E!Message -> Nat] /\ reply'[fn[f].k] = reply[fn[f].k] + 1
        /\ \A k \in E!Message \ {fn[f].k} : reply'[k] = reply[k]
    BY <1>1, <2>1, <2>2, <2>4, Put
  <2> QED BY <1>1, <1>3, <2>1, <2>3, <2>5
<1>4. CASE fn[f].k = 0
  <2>1. sent' = [sent EXCEPT ![fn[f].on] = @ + 1] /\ reply' = reply /\ extra' = extra
    BY <1>4 DEF E!Count, E!Follows
  <2>2. fn[f].on \in E!Event
    BY <1>4 DEF EventsInv, ShapeInv
  <2>3. sent[fn[f].on] + 1 \in Nat
    BY <1>1, <2>2
  <2>4. sent' \in [E!Event -> Nat] /\ sent'[fn[f].on] = sent[fn[f].on] + 1
        /\ \A e \in E!Event \ {fn[f].on} : sent'[e] = sent[e]
    BY <1>1, <2>1, <2>2, <2>3, Put
  <2>5. AnswerInv'
    <3> SUFFICES ASSUME NEW e \in E!Event
                 PROVE  (IsFiniteSet(Pending(e)) /\ sent[e] + Cardinality(Pending(e)) <= Allowed(e))'
      BY DEF AnswerInv
    <3>1. IsFiniteSet(Pending(e)) /\ sent[e] + Cardinality(Pending(e)) <= Allowed(e)
      BY DEF EventsInv, AnswerInv
    <3>2. Cardinality(Pending(e)) \in Nat /\ sent[e] \in Nat
      BY <3>1, <1>1, FS_CardinalityType
    <3>3. Allowed(e) <= Allowed(e)' /\ Allowed(e) \in Nat /\ Allowed(e)' \in Nat
      BY EventsTyped, EventsConstants DEF EventsInv, Allowed
    <3>4. IsFiniteSet(Pending(e) \ {f}) /\ Cardinality(Pending(e) \ {f}) \in Nat
          /\ Cardinality(Pending(e) \ {f}) = IF f \in Pending(e) THEN Cardinality(Pending(e)) - 1
                                             ELSE Cardinality(Pending(e))
      BY <3>1, FS_RemoveElement, FS_CardinalityType
    <3>5. e = fn[f].on => f \in Pending(e)
      BY DEF Pending
    <3>6. sent'[e] = IF e = fn[f].on THEN sent[e] + 1 ELSE sent[e]
      BY <2>4
    <3>7. Pending(e)' = Pending(e) \ {f}
      OBVIOUS
    <3>8. IsFiniteSet(Pending(e))' /\ Cardinality(Pending(e))' = Cardinality(Pending(e) \ {f})
      BY <3>4, <3>7
    <3> QED BY <3>1, <3>2, <3>3, <3>4, <3>5, <3>6, <3>8
  <2>6. \A e \in E!Event : sent[e] > 0 => sent'[e] > 0
    BY <1>1, <2>4
  <2> QED BY <1>1, <1>4, <2>1, <2>2, <2>4, <2>5, <2>6
<1> QED BY <1>2, <1>3, <1>4

\* An additional message of a flow may have been accepted.
LEMMA ExtraCounted ==
  ASSUME EventsInv, NEW f \in Function, fn[f].at = "again", E!Count(f)
  PROVE  /\ sent' = sent /\ reply' = reply /\ fn[f].on \in Click /\ fn[f].k = 0
         /\ extra' \in [Click -> Nat] /\ extra'[fn[f].on] = extra[fn[f].on] + 1
         /\ \A e \in Click \ {fn[f].on} : extra'[e] = extra[e]
<1>1. fn[f].on \in Click /\ fn[f].k = 0
  BY DEF EventsInv, ShapeInv
<1>2. extra' = [extra EXCEPT ![fn[f].on] = @ + 1] /\ sent' = sent /\ reply' = reply
  BY <1>1 DEF E!Count, E!Follows
<1>3. extra \in [Click -> Nat] /\ extra[fn[f].on] + 1 \in Nat
  BY <1>1, EventsTyped DEF EventsInv
<1>4. /\ extra' \in [Click -> Nat] /\ extra'[fn[f].on] = extra[fn[f].on] + 1
      /\ \A e \in Click \ {fn[f].on} : extra'[e] = extra[e]
  BY <1>1, <1>2, <1>3, Put
<1> QED BY <1>1, <1>2, <1>4

-----------------------------------------------------------------------------
\* Who is at rest claims nothing, whatever it had sent.
LEMMA RestClaims ==
  ASSUME EventsInv, NEW f \in Function, FnGoes(f, "idle", NoEvent, 0, 0),
         \A k \in E!Message : link[k] \in Claimed => link'[k] \in Claimed,
         \A k \in E!Message : \/ reply'[k] = reply[k]
                              \/ k = fn[f].k /\ fn[f].at = "armed" /\ reply'[k] = reply[k] + 1
  PROVE  ShapeInv' /\ ClaimInv'
<1>1. ShapeInv /\ ClaimInv /\ fn \in [Function -> FnState] /\ reply \in [E!Message -> Nat]
  BY EventsTyped DEF EventsInv
<1>2. fn'[f].at = "idle" /\ fn'[f].k = 0 /\ \A g \in Function \ {f} : fn'[g] = fn[g]
  BY DEF FnGoes
<1>3. ShapeInv'
  BY <1>1, <1>2, EventsConstants DEF ShapeInv
<1>4. \A g \in Function : Claims(g)' => g # f /\ Claims(g) /\ fn[g].k \in E!Message
  BY <1>1, <1>2, EventsConstants DEF Claims, FnState
<1>5. fn[f].at = "armed" /\ fn[f].k > 0 => Claims(f)
  BY DEF Claims
<1>6. ASSUME NEW g \in Function, Claims(g)'
      PROVE  reply'[fn[g].k] = reply[fn[g].k]
  <2>1. g # f /\ Claims(g) /\ fn[g].k \in E!Message /\ fn[g].k > 0
    BY <1>4, <1>6 DEF Claims
  <2>2. fn[f].at = "armed" => fn[g].k # fn[f].k
    BY <1>1, <1>5, <2>1 DEF ClaimInv
  <2> QED BY <2>1, <2>2
<1>7. ASSUME NEW k \in E!Message
      PROVE  reply'[k] <= 1 /\ (link'[k] \notin Claimed => reply'[k] = 0)
  <2>1. reply[k] <= 1 /\ reply[k] \in Nat /\ (link'[k] \notin Claimed => link[k] \notin Claimed /\ reply[k] = 0)
    BY <1>1 DEF ClaimInv
  <2>2. CASE reply'[k] = reply[k]
    BY <2>1, <2>2
  <2>3. CASE k = fn[f].k /\ fn[f].at = "armed" /\ reply'[k] = reply[k] + 1
    <3>1. k > 0
      BY EventsConstants
    <3>2. Claims(f)
      BY <1>5, <2>3, <3>1
    <3>3. reply[k] = 0 /\ link[k] \in Claimed
      BY <1>1, <2>3, <3>2 DEF ClaimInv
    <3> QED BY <2>1, <2>3, <3>3
  <2> QED BY <2>2, <2>3
<1>8. \A g \in Function : Claims(g)' => fn'[g] = fn[g]
  BY <1>2, <1>4
<1>9. ClaimInv'
  BY <1>1, <1>4, <1>6, <1>7, <1>8 DEF ClaimInv
<1> QED BY <1>3, <1>9

\* What makes the tables stay true.
LEMMA StaysTrue ==
  ASSUME EventsInv, NEW f \in Function, NEW a, NEW d, NEW m, NEW n, FnGoes(f, a, d, m, n),
         a \in {"taken", "again"} /\ m = 0 => sent'[d] > 0,
         \A e \in E!Event : sent[e] > 0 => sent'[e] > 0,
         \A k \in E!Message : reply[k] > 0 => reply'[k] > 0,
         \A k \in E!Message : link'[k] = "sent" => link[k] = "sent" \/ reply[k] > 0,
         \A k \in E!Message : link'[k] # "none" => link[k] # "none" \/ E!Delivered(k),
         \A e \in Purchase \cup Lead : ev'[e] = "processed" => ev[e] = "processed" \/ sent'[e] > 0
  PROVE  TruthInv'
<1>1. TruthInv /\ ShapeInv
  BY DEF EventsInv
<1>2. \A k \in E!Message : link'[k] = "sent" => reply'[k] > 0
  BY <1>1 DEF TruthInv, E!DoneIsTrue
<1>3. ASSUME NEW k \in E!Message, link'[k] # "none" PROVE E!Delivered(k)'
  <2>1. E!Delivered(k)
    BY <1>1, <1>3 DEF TruthInv, E!DoneIsTrue
  <2> QED BY <2>1, StaysDelivered
<1>4. \A e \in Purchase \cup Lead : ev'[e] = "processed" => sent'[e] > 0
  BY <1>1, EventsConstants DEF TruthInv, E!DoneIsTrue
<1>5. \A g \in Function : fn'[g].at \in {"taken", "again"} /\ fn'[g].k = 0 => sent'[fn'[g].on] > 0
  <2> SUFFICES ASSUME NEW g \in Function, fn'[g].at \in {"taken", "again"}, fn'[g].k = 0
               PROVE  sent'[fn'[g].on] > 0
    OBVIOUS
  <2>1. CASE g = f
    BY <2>1 DEF FnGoes
  <2>2. CASE g # f
    <3>1. fn'[g] = fn[g]
      BY <2>2 DEF FnGoes
    <3>2. fn[g].on \in E!Event /\ sent[fn[g].on] > 0
      BY <1>1, <3>1, EventsConstants DEF TruthInv, ShapeInv
    <3> QED BY <3>1, <3>2
  <2> QED BY <2>1, <2>2
<1>6. E!DoneIsTrue'
  BY <1>2, <1>3, <1>4 DEF E!DoneIsTrue
<1> QED BY <1>5, <1>6 DEF TruthInv

-----------------------------------------------------------------------------
\* A webhook takes up an event that is new; nothing is sent for it yet.
LEMMA Captures ==
  ASSUME EventsInv, NEW f \in Function, NEW e \in E!Event, E!Capture(f, e)
  PROVE  EventsInv'
<1> DEFINE m == IF e \in Click THEN About[e] ELSE 0
<1>0. E!TypeOK /\ m \in 0..MaxSteps
  BY EventsConstants DEF EventsInv
<1>1. fn[f].at = "idle" /\ FnGoes(f, "start", e, m, 0)
  BY <1>0, FnStarts DEF E!Capture
<1>2. m > 0 => e \in Click
  OBVIOUS
<1> HIDE DEF m
<1>3. /\ ev[e] = "absent" /\ ev' = [ev EXCEPT ![e] = "received"]
      /\ link' = link /\ run' = run /\ active' = active /\ steps' = steps
      /\ retries' = retries /\ sent' = sent /\ extra' = extra /\ reply' = reply /\ faults' = faults
  BY DEF E!Capture, E!New, E!Configuration, E!Counts
<1>4. /\ ev' \in [E!Event -> EventStatus] /\ ev'[e] = "received"
      /\ \A d \in E!Event \ {e} : ev'[d] = ev[d]
  <2>1. "received" \in EventStatus /\ ev \in [E!Event -> EventStatus]
    BY <1>0, EventsTyped DEF EventStatus
  <2> QED BY <1>3, <2>1, Put
<1>5. E!TypeOK'
  BY <1>0, <1>1, <1>3, <1>4 DEF E!TypeOK, FnGoes, FnState, EventStatus
<1>6. ShapeInv'
  <2>1. e \in Purchase \cup Lead => m = 0
    BY <1>0, <1>2, EventsConstants
  <2>2. fn'[f].at = "start" /\ fn'[f].on = e /\ fn'[f].k = m /\ \A g \in Function \ {f} : fn'[g] = fn[g]
    BY <1>1 DEF FnGoes
  <2> QED BY <2>1, <2>2 DEF EventsInv, ShapeInv
<1>7. ClaimInv'
  <2>1. \A g \in Function : Claims(g)' => g # f /\ Claims(g) /\ fn'[g] = fn[g]
    BY <1>1 DEF Claims, FnGoes
  <2> QED BY <1>3, <2>1 DEF EventsInv, ClaimInv
<1>8. TruthInv'
  <2>1. \A d \in Purchase \cup Lead : ev'[d] = "processed" => ev[d] = "processed"
    BY <1>4, EventsConstants
  <2> QED BY <1>1, <1>3, <2>1, StaysTrue
<1>9. AnswerInv'
  <2> SUFFICES ASSUME NEW d \in E!Event
               PROVE  (IsFiniteSet(Pending(d)) /\ sent[d] + Cardinality(Pending(d)) <= Allowed(d))'
    BY DEF AnswerInv
  <2>1. IsFiniteSet(Pending(d)) /\ sent[d] + Cardinality(Pending(d)) <= Allowed(d)
    BY DEF EventsInv, AnswerInv
  <2>2. Cardinality(Pending(d)) \in Nat /\ sent[d] \in Nat /\ sent'[d] = sent[d]
    BY <1>0, <1>3, <2>1, FS_CardinalityType, EventsTyped
  <2>3. CASE d # e
    <3>1. Pending(d)' = Pending(d)
      BY <1>1, <2>3, PendingChanges
    <3>2. Allowed(d)' = Allowed(d)
      BY <1>3, <1>4, <2>3 DEF Allowed
    <3> QED BY <2>1, <2>2, <3>1, <3>2
  <2>4. CASE d = e
    <3>1. Pending(d)' = Pending(d) \cup {f}
      BY <1>1, <2>4, PendingChanges
    <3>2. Allowed(d) = 0 /\ Allowed(d)' \in Nat /\ Allowed(d)' >= 1
      <4>1. d \in Purchase => retries'[d] \in Nat
        BY <1>0, <1>3, EventsTyped, EventsConstants
      <4> QED BY <1>3, <1>4, <2>4, <4>1 DEF Allowed
    <3>3. sent[d] = 0 /\ Cardinality(Pending(d)) = 0
      BY <2>1, <2>2, <3>2
    <3>4. IsFiniteSet(Pending(d) \cup {f}) /\ Cardinality(Pending(d) \cup {f}) \in {0, 1}
      BY <2>1, <3>3, FS_AddElement
    <3>5. IsFiniteSet(Pending(d))' /\ Cardinality(Pending(d))' \in {0, 1}
      BY <3>1, <3>4
    <3> QED BY <2>2, <3>2, <3>3, <3>5
  <2> QED BY <2>3, <2>4
<1> QED BY <1>5, <1>6, <1>7, <1>8, <1>9 DEF EventsInv

\* A person has a purchase processed again, which allows one message more.
LEMMA Reprocesses ==
  ASSUME EventsInv, NEW f \in Function, NEW e \in Purchase, E!Reprocess(f, e)
  PROVE  EventsInv'
<1>0. E!TypeOK /\ 0 \in 0..MaxSteps /\ e \in E!Event /\ e \notin Click
  BY EventsConstants DEF EventsInv
<1>1. fn[f].at = "idle" /\ FnGoes(f, "start", e, 0, 0)
  BY <1>0, ReprocessGoes DEF E!Reprocess
<1>2. /\ ev[e] \in {"failed", "ignored"} /\ retries[e] < MaxRetries
      /\ retries' = [retries EXCEPT ![e] = @ + 1]
      /\ ev' = ev /\ link' = link /\ run' = run /\ active' = active /\ steps' = steps
      /\ sent' = sent /\ extra' = extra /\ reply' = reply /\ faults' = faults
  BY DEF E!Reprocess, E!Tables, E!Counts
<1>3. /\ retries' \in [Purchase -> 0..MaxRetries] /\ retries'[e] = retries[e] + 1
      /\ \A d \in Purchase \ {e} : retries'[d] = retries[d]
  <2>1. retries \in [Purchase -> 0..MaxRetries] /\ MaxRetries \in Nat
    BY <1>0, EventsTyped, EventsConstants
  <2>2. retries[e] + 1 \in 0..MaxRetries
    BY <1>2, <2>1
  <2> QED BY <1>2, <2>1, <2>2, Put
<1>4. E!TypeOK'
  BY <1>0, <1>1, <1>2, <1>3 DEF E!TypeOK, FnGoes, FnState
<1>5. ShapeInv'
  BY <1>0, <1>1 DEF EventsInv, ShapeInv, FnGoes
<1>6. ClaimInv'
  <2>1. \A g \in Function : Claims(g)' => g # f /\ Claims(g) /\ fn'[g] = fn[g]
    BY <1>1 DEF Claims, FnGoes
  <2> QED BY <1>2, <2>1 DEF EventsInv, ClaimInv
<1>7. TruthInv'
  BY <1>1, <1>2, StaysTrue
<1>8. AnswerInv'
  <2> SUFFICES ASSUME NEW d \in E!Event
               PROVE  (IsFiniteSet(Pending(d)) /\ sent[d] + Cardinality(Pending(d)) <= Allowed(d))'
    BY DEF AnswerInv
  <2>1. IsFiniteSet(Pending(d)) /\ sent[d] + Cardinality(Pending(d)) <= Allowed(d)
    BY DEF EventsInv, AnswerInv
  <2>2. Cardinality(Pending(d)) \in Nat /\ sent[d] \in Nat /\ sent'[d] = sent[d]
    BY <1>0, <1>2, <2>1, FS_CardinalityType, EventsTyped
  <2>3. CASE d # e
    <3>1. Pending(d)' = Pending(d)
      BY <1>1, <2>3, PendingChanges
    <3>2. Allowed(d)' = Allowed(d)
      BY <1>2, <1>3, <2>3 DEF Allowed
    <3> QED BY <2>1, <2>2, <3>1, <3>2
  <2>4. CASE d = e
    <3>1. Pending(d)' = Pending(d) \cup {f}
      BY <1>1, <2>4, PendingChanges
    <3>2. retries[d] \in Nat
      BY <1>0, <2>4, EventsTyped, EventsConstants
    <3>3. Allowed(d) = 1 + retries[d] /\ Allowed(d)' = 1 + (retries[d] + 1)
      BY <1>2, <1>3, <2>4 DEF Allowed
    <3>4. IsFiniteSet(Pending(d) \cup {f})
          /\ Cardinality(Pending(d) \cup {f}) \in {Cardinality(Pending(d)), Cardinality(Pending(d)) + 1}
      BY <2>1, FS_AddElement
    <3>5. IsFiniteSet(Pending(d))' /\ Cardinality(Pending(d))' \in {Cardinality(Pending(d)), Cardinality(Pending(d)) + 1}
      BY <3>1, <3>4
    <3> QED BY <2>1, <2>2, <3>2, <3>3, <3>5
  <2> QED BY <2>3, <2>4
<1> QED BY <1>4, <1>5, <1>6, <1>7, <1>8 DEF EventsInv

\* Editing the automation disturbs nothing that was frozen.
LEMMA Configures == ASSUME EventsInv, E!Configure PROVE EventsInv'
<1>1. /\ ev' = ev /\ link' = link /\ run' = run /\ fn' = fn
      /\ sent' = sent /\ extra' = extra /\ reply' = reply /\ retries' = retries
  BY DEF E!Configure, E!Tables, E!Counts
<1>2. E!TypeOK
  BY DEF EventsInv
<1>3. faults' \in 0..MaxFaults
  BY <1>2, EventsTyped, EventsConstants DEF E!Configure, E!Disturb
<1>4. active' \in BOOLEAN
  <2>1. active' = ~active \/ active' = active
    BY Zenon DEF E!Configure
  <2>2. active \in BOOLEAN
    BY <1>2, EventsTyped
  <2>3. (~active) \in BOOLEAN
    BY Zenon
  <2> QED BY <2>1, <2>2, <2>3, Zenon
<1>5. steps' \in 0..MaxSteps
  BY <1>2, EventsTyped DEF E!Configure
<1>6. E!TypeOK'
  BY <1>1, <1>2, <1>3, <1>4, <1>5 DEF E!TypeOK
<1>7. ShapeInv' /\ ClaimInv'
  BY <1>1 DEF EventsInv, ShapeInv, ClaimInv, Claims
<1>8. TruthInv'
  BY <1>1 DEF EventsInv, TruthInv, E!DoneIsTrue, E!Delivered
<1>9. AnswerInv'
  BY <1>1 DEF EventsInv, AnswerInv, Pending, Allowed
<1> QED BY <1>6, <1>7, <1>8, <1>9 DEF EventsInv

\* What becomes of the run of an automation.
RunStatus == {"none", "sent", "clicked", "completed", "failed"}

\* A function ends: it gives up, fails or dies, perhaps with its message accepted.
LEMMA Ends ==
  ASSUME EventsInv, NEW f \in Function, E!Done(f),
         ev' \in [E!Event -> EventStatus],
         \A e \in E!Event : ev[e] # "absent" => ev'[e] # "absent",
         \A e \in E!Event : ev'[e] = "processed" => ev[e] = "processed",
         link' \in [E!Message -> E!State],
         \A k \in E!Message : link[k] \in Claimed => link'[k] \in Claimed,
         \A k \in E!Message : link'[k] = "sent" => link[k] = "sent" \/ reply[k] > 0,
         \A k \in E!Message : link'[k] # "none" => link[k] # "none",
         run' \in RunStatus, active' = active, steps' = steps, retries' = retries,
         faults' \in 0..MaxFaults, extra' \in [Click -> Nat],
         (sent' = sent /\ reply' = reply) \/ (fn[f].at = "armed" /\ E!Count(f))
  PROVE  EventsInv'
<1>0. E!TypeOK
  BY DEF EventsInv
<1>1. FnGoes(f, "idle", NoEvent, 0, 0)
  BY <1>0, FnRests
<1>2. \A e \in E!Event : Pending(e)' = Pending(e) \ {f}
  BY <1>1, PendingChanges
<1>3. /\ sent' \in [E!Event -> Nat] /\ reply' \in [E!Message -> Nat]
      /\ \A e \in E!Event : sent[e] > 0 => sent'[e] > 0
      /\ \A k \in E!Message : reply[k] > 0 => reply'[k] > 0
      /\ \A k \in E!Message : \/ reply'[k] = reply[k]
                              \/ k = fn[f].k /\ fn[f].at = "armed" /\ reply'[k] = reply[k] + 1
      /\ AnswerInv'
  <2>1. CASE sent' = sent /\ reply' = reply
    BY <1>0, <1>2, <2>1, EventsTyped, AnswerFewer
  <2>2. CASE fn[f].at = "armed" /\ E!Count(f)
    <3>1. /\ AnswerInv'
          /\ sent' \in [E!Event -> Nat] /\ reply' \in [E!Message -> Nat]
          /\ \A e \in E!Event : sent[e] > 0 => sent'[e] > 0
          /\ fn[f].k > 0 => reply'[fn[f].k] = reply[fn[f].k] + 1
          /\ \A k \in E!Message : k # fn[f].k => reply'[k] = reply[k]
      BY <1>2, <2>2, AnswerCounted
    <3>2. \A k \in E!Message : k > 0 /\ reply[k] \in Nat
      BY <1>0, EventsTyped, EventsConstants
    <3>3. \A k \in E!Message : k = fn[f].k => reply'[k] = reply[k] + 1
      BY <3>1, <3>2
    <3>4. \A k \in E!Message : reply[k] > 0 => reply'[k] > 0
      BY <3>1, <3>2, <3>3
    <3> QED BY <2>2, <3>1, <3>3, <3>4
  <2> QED BY <2>1, <2>2
<1>4. E!TypeOK'
  BY <1>0, <1>1, <1>3 DEF E!TypeOK, FnGoes, FnState, EventStatus, RunStatus
<1>5. ShapeInv' /\ ClaimInv'
  BY <1>1, <1>3, RestClaims
<1>6. TruthInv'
  BY <1>1, <1>3, EventsConstants, StaysTrue
<1> QED BY <1>3, <1>4, <1>5, <1>6 DEF EventsInv

\* A function that has its event, or a message that is due, is about to send.
LEMMA Arms ==
  ASSUME EventsInv, NEW f \in Function, NEW b, NEW n \in 0..MaxExtra, E!Arm(f, b, n), b \in BOOLEAN,
         n > 0 => fn[f].k = 0 /\ fn[f].on \in Click,
         (fn[f].at = "start" /\ fn[f].k = 0) \/ fn[f].at = "due",
         ev' = ev, link' = link, run' \in RunStatus,
         active' = active, steps' = steps, retries' = retries, faults' = faults,
         sent' = sent, extra' = extra, reply' = reply
  PROVE  EventsInv'
<1>0. E!TypeOK /\ ShapeInv /\ ClaimInv
  BY DEF EventsInv
<1>1. FnGoes(f, "armed", fn[f].on, fn[f].k, n)
  BY <1>0, FnArms
<1>2. fn'[f].at = "armed" /\ fn'[f].on = fn[f].on /\ fn'[f].k = fn[f].k /\ fn'[f].left = n
      /\ \A g \in Function \ {f} : fn'[g] = fn[g]
  BY <1>1 DEF FnGoes
<1>3. E!TypeOK'
  BY <1>0, <1>1 DEF E!TypeOK, FnGoes, FnState, RunStatus
<1>4. ShapeInv'
  BY <1>0, <1>2 DEF ShapeInv
<1>5. \A g \in Function : /\ fn'[g].k = fn[g].k /\ (Claims(g)' <=> Claims(g))
                          /\ (Claims(g) /\ fn'[g].at # fn[g].at => fn'[g].at = "armed" /\ fn[g].at = "due")
  BY <1>2 DEF Claims
<1>6. ClaimInv'
  BY <1>0, <1>5 DEF ClaimInv
<1>7. TruthInv'
  BY <1>1, StaysTrue
<1>8. AnswerInv'
  <2>1. CASE fn[f].at = "start"
    BY <1>1, <2>1, PendingChanges, AnswerSame
  <2>2. CASE fn[f].at = "due"
    <3>1. \A e \in E!Event : e # fn[f].on
      BY <1>0, <2>2, EventsConstants DEF ShapeInv
    <3>2. \A e \in E!Event : Pending(e)' = Pending(e)
      BY <1>1, <2>2, <3>1, PendingChanges
    <3> QED BY <3>2, AnswerSame
  <2> QED BY <2>1, <2>2
<1> QED BY <1>3, <1>4, <1>6, <1>7, <1>8 DEF EventsInv

\* About to send one message, as everything but the answer of a flow.
LEMMA ArmsOne ==
  ASSUME EventsInv, NEW f \in Function, NEW b, E!Arm(f, b, 0), b \in BOOLEAN,
         (fn[f].at = "start" /\ fn[f].k = 0) \/ fn[f].at = "due",
         ev' = ev, link' = link, run' \in RunStatus,
         active' = active, steps' = steps, retries' = retries, faults' = faults,
         sent' = sent, extra' = extra, reply' = reply
  PROVE  EventsInv'
<1> DEFINE n == 0
<1>1. n \in 0..MaxExtra /\ ~(n > 0) /\ E!Arm(f, b, n)
  BY EventsConstants
<1> HIDE DEF n
<1> QED BY <1>1, Arms

\* A function that starts checks the configuration and prepares its message.
LEMMA Prepares == ASSUME EventsInv, NEW f \in Function, E!Prepare(f) PROVE EventsInv'
<1>0. E!TypeOK /\ fn[f].at = "start" /\ fn[f].k = 0
  BY DEF EventsInv, ShapeInv, E!Prepare
<1>1. /\ link' = link /\ run' = run /\ active' = active /\ steps' = steps
      /\ retries' = retries /\ faults' = faults /\ sent' = sent /\ extra' = extra /\ reply' = reply
  BY DEF E!Prepare, E!Configuration, E!Counts
<1>2. /\ link' \in [E!Message -> E!State] /\ run' \in RunStatus /\ faults' \in 0..MaxFaults
      /\ extra' \in [Click -> Nat] /\ 0 \in 0..MaxExtra
  BY <1>0, <1>1, EventsTyped, EventsConstants DEF E!TypeOK, RunStatus
<1>3. ASSUME NEW s \in {"ignored", "failed"}, E!Done(f), E!Mark(f, s) PROVE EventsInv'
  <2>1. s \in EventStatus \ {"absent"} /\ s # "processed"
    BY DEF EventStatus
  <2> QED BY <1>0, <1>1, <1>2, <1>3, <2>1, Marks, Ends
<1>4. ASSUME E!Arm(f, steps > 0, 0), ev' = ev PROVE EventsInv'
  <2>1. (steps > 0) \in BOOLEAN
    <3>1. steps \in Int
      BY <1>0, EventsTyped, EventsConstants
    <3> QED BY <3>1, SMT
  <2> QED BY <1>0, <1>1, <1>2, <1>4, <2>1, ArmsOne
<1> QED BY <1>3, <1>4 DEF E!Prepare

\* A click on the message of the flow completes the run.
LEMMA ClicksFlow == ASSUME EventsInv, NEW f \in Function, E!ClickFlow(f) PROVE EventsInv'
<1>0. E!TypeOK /\ fn[f].at = "start" /\ fn[f].k = 0
  BY DEF EventsInv, E!ClickFlow
<1>1. /\ link' = link /\ active' = active /\ steps' = steps
      /\ retries' = retries /\ faults' = faults /\ sent' = sent /\ extra' = extra /\ reply' = reply
      /\ run' \in {run, "clicked", "failed", "completed"}
  BY DEF E!ClickFlow, E!Configuration, E!Counts
<1>2. /\ link' \in [E!Message -> E!State] /\ run' \in RunStatus /\ faults' \in 0..MaxFaults
      /\ extra' \in [Click -> Nat] /\ 0 \in 0..MaxExtra
  BY <1>0, <1>1, EventsTyped, EventsConstants DEF E!TypeOK, RunStatus
<1>3. ASSUME NEW s \in {"ignored", "failed"}, E!Done(f), E!Mark(f, s) PROVE EventsInv'
  <2>1. s \in EventStatus \ {"absent"} /\ s # "processed"
    BY DEF EventStatus
  <2> QED BY <1>0, <1>1, <1>2, <1>3, <2>1, Marks, Ends
<1>4. ASSUME NEW n \in 0..MaxExtra, E!Arm(f, FALSE, n), ev' = ev PROVE EventsInv'
  <2>1. FALSE \in BOOLEAN /\ fn[f].on \in Click
    BY Zenon DEF E!ClickFlow
  <2> QED BY <1>0, <1>1, <1>2, <1>4, <2>1, Arms
<1> QED BY <1>3, <1>4 DEF E!ClickFlow

\* A click takes the follow-up of its message if nobody has, or is ignored.
LEMMA ClicksAutomation ==
  ASSUME EventsInv, NEW f \in Function, E!ClickAutomation(f) PROVE EventsInv'
<1> DEFINE m == fn[f].k
<1>0. E!TypeOK /\ ShapeInv /\ ClaimInv /\ fn[f].at = "start" /\ m > 0 /\ m \in E!Message
      /\ fn[f].on \in Click
  <2>1. fn[f] \in FnState /\ m > 0
    BY EventsTyped DEF EventsInv, E!ClickAutomation
  <2>2. m \in E!Message
    BY <2>1, EventsConstants DEF FnState
  <2> QED BY <2>1, <2>2 DEF EventsInv, E!ClickAutomation
<1>1. /\ run' = run /\ active' = active /\ steps' = steps
      /\ retries' = retries /\ faults' = faults /\ sent' = sent /\ extra' = extra /\ reply' = reply
  BY DEF E!ClickAutomation, E!Configuration, E!Counts
<1>2. /\ run' \in RunStatus /\ faults' \in 0..MaxFaults
      /\ extra' \in [Click -> Nat] /\ 0 \in 0..MaxExtra
  BY <1>0, <1>1, EventsTyped, EventsConstants DEF E!TypeOK, RunStatus
<1>3. ASSUME E!Done(f), E!Mark(f, "ignored"), link' = link PROVE EventsInv'
  <2>1. "ignored" \in EventStatus \ {"absent"} /\ link' \in [E!Message -> E!State]
    BY <1>0, <1>3, EventsTyped DEF EventStatus
  <2> QED BY <1>0, <1>1, <1>2, <1>3, <2>1, Marks, Ends
<1>4. ASSUME E!Free(m), link' = [link EXCEPT ![m] = "sending"], E!Arm(f, steps > m, 0), ev' = ev
      PROVE  EventsInv'
  <2>0. (steps > m) \in BOOLEAN
    <3>1. steps \in Int /\ m \in Int
      BY <1>0, EventsTyped, EventsConstants
    <3> QED BY <3>1, SMT
  <2>1. FnGoes(f, "armed", fn[f].on, m, 0)
    BY <1>0, <1>2, <1>4, <2>0, FnArms
  <2>2. fn'[f].at = "armed" /\ fn'[f].on = fn[f].on /\ fn'[f].k = m /\ fn'[f].left = 0
        /\ \A g \in Function \ {f} : fn'[g] = fn[g]
    BY <2>1 DEF FnGoes
  <2>3. link' \in [E!Message -> E!State] /\ link'[m] = "sending" /\ link[m] = "waiting"
        /\ \A k \in E!Message \ {m} : link'[k] = link[k]
    <3>1. "sending" \in E!State /\ link \in [E!Message -> E!State]
      BY <1>0, EventsTyped DEF E!State
    <3>2. link' \in [E!Message -> E!State] /\ link'[m] = "sending"
          /\ \A k \in E!Message \ {m} : link'[k] = link[k]
      BY <1>0, <1>4, <3>1, Put
    <3> QED BY <1>4, <3>2 DEF E!Free
  <2> HIDE DEF m
  <2>4. E!TypeOK'
    BY <1>0, <1>1, <1>4, <2>1, <2>3 DEF E!TypeOK, FnGoes, FnState
  <2>5. ShapeInv'
    BY <1>0, <2>2, EventsConstants DEF ShapeInv
  <2>6. reply[m] = 0 /\ \A g \in Function : Claims(g) => fn[g].k # m
    BY <1>0, <2>3 DEF ClaimInv, Claimed
  <2>7. \A g \in Function \ {f} : Claims(g)' => Claims(g) /\ fn'[g] = fn[g] /\ fn[g].k # m
    BY <2>2, <2>6 DEF Claims
  <2>8. ClaimInv'
    <3>1. ASSUME NEW g \in Function, Claims(g)'
          PROVE  /\ link'[fn'[g].k] \in Claimed
                 /\ fn'[g].at \in {"due", "armed"} => reply'[fn'[g].k] = 0
                 /\ fn'[g].at \in {"taken", "log"} => reply'[fn'[g].k] > 0
      <4>1. CASE g = f
        BY <1>1, <2>2, <2>3, <2>6, <4>1 DEF Claimed
      <4>2. CASE g # f
        <5>1. fn[g].k \in E!Message
          BY <1>0, <2>7, <3>1, <4>2, EventsTyped, EventsConstants DEF Claims, FnState
        <5> QED BY <1>0, <1>1, <2>3, <2>7, <3>1, <4>2, <5>1 DEF ClaimInv
      <4> QED BY <4>1, <4>2
    <3>2. \A g, h \in Function : Claims(g)' /\ Claims(h)' /\ fn'[g].k = fn'[h].k => g = h
      BY <1>0, <2>2, <2>7 DEF ClaimInv
    <3>3. \A k \in E!Message : reply'[k] <= 1 /\ (link'[k] \notin Claimed => reply'[k] = 0)
      BY <1>0, <1>1, <2>3 DEF ClaimInv, Claimed
    <3> QED BY <3>1, <3>2, <3>3 DEF ClaimInv
  <2>9. TruthInv'
    BY <1>1, <1>4, <2>1, <2>3, StaysTrue
  <2>10. AnswerInv'
    BY <1>0, <1>1, <1>4, <2>1, PendingChanges, AnswerSame
  <2> QED BY <2>4, <2>5, <2>8, <2>9, <2>10 DEF EventsInv
<1> QED BY <1>3, <1>4 DEF E!ClickAutomation

\* Old attempts are given up.
LEMMA Sweeping ==
  ASSUME E!TypeOK, NEW Z \in SUBSET E!Overdue
  PROVE  /\ E!Sweep(Z) \in [E!Message -> E!State]
         /\ \A k \in E!Message : \/ E!Sweep(Z)[k] = link[k]
                                 \/ link[k] = "sending" /\ E!Sweep(Z)[k] = "failed"
  BY EventsTyped DEF E!Sweep, E!Overdue, E!State

\* The cron gives up old attempts and claims a message that is due.
LEMMA RunsDue == ASSUME EventsInv, NEW f \in Function, E!RunDue(f) PROVE EventsInv'
<1>0. E!TypeOK /\ ShapeInv /\ ClaimInv /\ fn[f].at = "idle"
  BY DEF EventsInv, E!RunDue
<1>1. /\ ev' = ev /\ run' = run /\ active' = active /\ steps' = steps
      /\ retries' = retries /\ faults' = faults /\ sent' = sent /\ extra' = extra /\ reply' = reply
  BY DEF E!RunDue, E!Configuration, E!Counts
<1>2. PICK Z \in SUBSET E!Overdue :
       \/ link' = E!Sweep(Z) /\ fn' = fn
       \/ \E k \in ByDelay : /\ link[k] = "waiting"
                             /\ link' = [E!Sweep(Z) EXCEPT ![k] = "sending"]
                             /\ fn' = [fn EXCEPT ![f] = [E!Rest EXCEPT !.at = "due", !.k = k]]
  BY DEF E!RunDue
<1>3. /\ E!Sweep(Z) \in [E!Message -> E!State]
      /\ \A k \in E!Message : \/ E!Sweep(Z)[k] = link[k]
                              \/ link[k] = "sending" /\ E!Sweep(Z)[k] = "failed"
  BY <1>0, Sweeping
<1>4. \A g \in Function : Claims(g) => fn[g].k \in E!Message
  BY <1>0, EventsTyped, EventsConstants DEF Claims, FnState
<1>5. CASE link' = E!Sweep(Z) /\ fn' = fn
  <2>1. E!TypeOK'
    BY <1>0, <1>1, <1>3, <1>5 DEF E!TypeOK
  <2>2. ShapeInv'
    BY <1>0, <1>5 DEF ShapeInv
  <2>3. ClaimInv'
    BY <1>0, <1>1, <1>3, <1>4, <1>5 DEF ClaimInv, Claims, Claimed
  <2>4. TruthInv'
    <3>1. E!DoneIsTrue'
      BY <1>1, <1>3, <1>5 DEF EventsInv, TruthInv, E!DoneIsTrue, E!Delivered
    <3> QED BY <1>1, <1>5, <3>1 DEF EventsInv, TruthInv
  <2>5. AnswerInv'
    BY <1>1, <1>5 DEF EventsInv, AnswerInv, Pending, Allowed
  <2> QED BY <2>1, <2>2, <2>3, <2>4, <2>5 DEF EventsInv
<1>6. ASSUME NEW m \in ByDelay, link[m] = "waiting", link' = [E!Sweep(Z) EXCEPT ![m] = "sending"],
             fn' = [fn EXCEPT ![f] = [E!Rest EXCEPT !.at = "due", !.k = m]]
      PROVE  EventsInv'
  <2>0. m \in E!Message /\ m > 0 /\ m \in 0..MaxSteps
    BY EventsConstants
  <2>1. FnGoes(f, "due", NoEvent, m, 0)
    BY <1>0, <1>6, DueGoes
  <2>2. fn'[f].at = "due" /\ fn'[f].on = NoEvent /\ fn'[f].k = m
        /\ \A g \in Function \ {f} : fn'[g] = fn[g]
    BY <2>1 DEF FnGoes
  <2>3. /\ link' \in [E!Message -> E!State] /\ link'[m] = "sending"
        /\ \A k \in E!Message \ {m} : \/ link'[k] = link[k]
                                      \/ link[k] = "sending" /\ link'[k] = "failed"
    <3>1. "sending" \in E!State
      BY DEF E!State
    <3> QED BY <1>3, <1>6, <2>0, <3>1, Put
  <2>4. E!TypeOK'
    BY <1>0, <1>1, <2>1, <2>3 DEF E!TypeOK, FnGoes, FnState
  <2>5. ShapeInv'
    BY <1>0, <2>0, <2>2, EventsConstants DEF ShapeInv
  <2>6. reply[m] = 0 /\ \A g \in Function : Claims(g) => fn[g].k # m
    BY <1>0, <1>6, <2>0 DEF ClaimInv, Claimed
  <2>7. \A g \in Function \ {f} : Claims(g)' => /\ Claims(g) /\ fn'[g] = fn[g]
                                               /\ fn[g].k # m /\ fn[g].k \in E!Message
    BY <1>4, <2>2, <2>6 DEF Claims
  <2>8. ClaimInv'
    <3>1. ASSUME NEW g \in Function, Claims(g)'
          PROVE  /\ link'[fn'[g].k] \in Claimed
                 /\ fn'[g].at \in {"due", "armed"} => reply'[fn'[g].k] = 0
                 /\ fn'[g].at \in {"taken", "log"} => reply'[fn'[g].k] > 0
      <4>1. CASE g = f
        BY <1>1, <2>2, <2>3, <2>6, <4>1 DEF Claimed
      <4>2. CASE g # f
        BY <1>0, <1>1, <2>3, <2>7, <3>1, <4>2 DEF ClaimInv, Claimed
      <4> QED BY <4>1, <4>2
    <3>2. \A g, h \in Function : Claims(g)' /\ Claims(h)' /\ fn'[g].k = fn'[h].k => g = h
      BY <1>0, <2>2, <2>7 DEF ClaimInv
    <3>3. \A k \in E!Message : reply'[k] <= 1 /\ (link'[k] \notin Claimed => reply'[k] = 0)
      BY <1>0, <1>1, <2>3 DEF ClaimInv, Claimed
    <3> QED BY <3>1, <3>2, <3>3 DEF ClaimInv
  <2>9. TruthInv'
    BY <1>1, <1>6, <2>1, <2>3, StaysTrue
  <2>10. AnswerInv'
    <3>1. \A e \in E!Event : Pending(e)' = Pending(e)
      BY <1>0, <2>1, PendingChanges
    <3> QED BY <1>1, <3>1, AnswerSame
  <2> QED BY <2>4, <2>5, <2>8, <2>9, <2>10 DEF EventsInv
<1> QED BY <1>2, <1>5, <1>6

\* The message of a function that follows up.
LEMMA Following ==
  ASSUME EventsInv, NEW f \in Function, fn[f].at # "idle"
  PROVE  /\ E!Follows(f) <=> fn[f].k > 0
         /\ fn[f].k > 0 => fn[f].k \in E!Message /\ fn[f].k # 0
         /\ ~(fn[f].k > 0) => fn[f].k = 0
<1>1. fn[f] \in FnState
  BY EventsTyped DEF EventsInv
<1> QED BY <1>1, EventsConstants DEF FnState, E!Follows

\* A follow-up that is claimed fails.
LEMMA LinkFails ==
  ASSUME EventsInv, NEW m \in E!Message, link[m] \in Claimed, link' = [link EXCEPT ![m] = "failed"]
  PROVE  /\ link' \in [E!Message -> E!State]
         /\ \A k \in E!Message : link[k] \in Claimed => link'[k] \in Claimed
         /\ \A k \in E!Message : link'[k] = "sent" => link[k] = "sent"
         /\ \A k \in E!Message : link'[k] # "none" => link[k] # "none"
<1>1. link \in [E!Message -> E!State] /\ "failed" \in E!State
  BY EventsTyped DEF EventsInv, E!State
<1>2. link' \in [E!Message -> E!State] /\ link'[m] = "failed" /\ \A k \in E!Message \ {m} : link'[k] = link[k]
  BY <1>1, Put
<1>3. link'[m] \in Claimed /\ link'[m] # "sent" /\ link[m] # "none"
  BY <1>2 DEF Claimed
<1>4. \A k \in E!Message : k = m \/ link'[k] = link[k]
  BY <1>2
<1> QED BY <1>2, <1>3, <1>4

\* A function prepares a message that is due.
LEMMA DuesArm == ASSUME EventsInv, NEW f \in Function, E!Due(f) PROVE EventsInv'
<1>0. E!TypeOK /\ fn[f].at = "due" /\ fn[f].k > 0 /\ fn[f].k \in Int /\ steps \in Int
  <2>1. fn[f].at = "due" /\ fn[f].k > 0 /\ E!TypeOK
    BY DEF EventsInv, ShapeInv, E!Due
  <2> QED BY <2>1, Following, EventsTyped, EventsConstants
<1>1. /\ ev' = ev /\ run' = run /\ active' = active /\ steps' = steps
      /\ retries' = retries /\ faults' = faults /\ sent' = sent /\ extra' = extra /\ reply' = reply
  BY DEF E!Due, E!Configuration, E!Counts
<1>2. /\ ev' \in [E!Event -> EventStatus] /\ run' \in RunStatus /\ faults' \in 0..MaxFaults
      /\ extra' \in [Click -> Nat] /\ 0 \in 0..MaxExtra
  BY <1>0, <1>1, EventsTyped, EventsConstants DEF E!TypeOK, RunStatus
<1>3. ASSUME E!Arm(f, steps > fn[f].k, 0), link' = link PROVE EventsInv'
  <2>1. (steps > fn[f].k) \in BOOLEAN
    BY <1>0, SMT
  <2> QED BY <1>0, <1>1, <1>2, <1>3, <2>1, ArmsOne
<1>4. ASSUME E!Done(f), link' = [link EXCEPT ![fn[f].k] = "failed"] PROVE EventsInv'
  <2>1. fn[f].k \in E!Message /\ link[fn[f].k] \in Claimed
    BY <1>0, Following DEF Claims, ClaimInv, EventsInv
  <2> QED BY <1>0, <1>1, <1>2, <1>4, <2>1, LinkFails, Ends
<1> QED BY <1>3, <1>4 DEF E!Due

\* Meta accepts an additional message of a flow.
LEMMA AcceptsExtra ==
  ASSUME EventsInv, NEW f \in Function, fn[f].at = "again", E!Accept(f) PROVE EventsInv'
<1>0. E!TypeOK /\ ShapeInv /\ ClaimInv /\ TruthInv /\ E!Count(f)
  BY DEF EventsInv, E!Accept
<1>1. /\ ev' = ev /\ link' = link /\ run' = run /\ active' = active /\ steps' = steps
      /\ retries' = retries /\ faults' = faults
  BY DEF E!Accept, E!Tables, E!Configuration
<1>2. FnGoes(f, "taken", fn[f].on, fn[f].k, fn[f].left)
  BY <1>0, FnAdvances DEF E!Accept
<1>3. /\ sent' = sent /\ reply' = reply /\ extra' \in [Click -> Nat]
      /\ fn[f].k = 0 /\ fn[f].on \in Click
  BY <1>0, ExtraCounted
<1>4. /\ fn'[f].at = "taken" /\ fn'[f].on = fn[f].on /\ fn'[f].k = 0 /\ fn'[f].left = fn[f].left
      /\ \A g \in Function \ {f} : fn'[g] = fn[g]
  BY <1>2, <1>3 DEF FnGoes
<1>5. E!TypeOK'
  BY <1>0, <1>1, <1>2, <1>3 DEF E!TypeOK, FnGoes, FnState
<1>6. ShapeInv'
  BY <1>0, <1>3, <1>4, EventsConstants DEF ShapeInv
<1>7. \A g \in Function : (Claims(g)' <=> Claims(g)) /\ (Claims(g) => g # f /\ fn'[g] = fn[g])
  BY <1>3, <1>4 DEF Claims
<1>8. ClaimInv'
  BY <1>0, <1>1, <1>3, <1>7 DEF ClaimInv
<1>9. TruthInv'
  <2>1. sent[fn[f].on] > 0
    BY <1>0, <1>3 DEF TruthInv
  <2> QED BY <1>1, <1>2, <1>3, <2>1, StaysTrue
<1>10. AnswerInv'
  <2>1. \A e \in E!Event : Pending(e)' = Pending(e)
    BY <1>2, PendingChanges
  <2> QED BY <1>1, <1>3, <2>1, AnswerSame
<1> QED BY <1>5, <1>6, <1>8, <1>9, <1>10 DEF EventsInv

\* Meta accepts the first message of a function, which knows it.
LEMMA AcceptsFirst ==
  ASSUME EventsInv, NEW f \in Function, fn[f].at = "armed", E!Accept(f) PROVE EventsInv'
<1>0. E!TypeOK /\ ShapeInv /\ ClaimInv /\ fn[f].at = "armed" /\ E!Count(f)
  BY DEF EventsInv, E!Accept
<1>1. /\ ev' = ev /\ link' = link /\ run' = run /\ active' = active /\ steps' = steps
      /\ retries' = retries /\ faults' = faults
  BY DEF E!Accept, E!Tables, E!Configuration
<1>2. FnGoes(f, "taken", fn[f].on, fn[f].k, fn[f].left)
  BY <1>0, FnAdvances DEF E!Accept
<1>3. fn'[f].at = "taken" /\ fn'[f].on = fn[f].on /\ fn'[f].k = fn[f].k /\ fn'[f].left = fn[f].left
      /\ \A g \in Function \ {f} : fn'[g] = fn[g]
  BY <1>2 DEF FnGoes
<1>4. \A e \in E!Event : Pending(e)' = Pending(e) \ {f}
  BY <1>2, PendingChanges
<1>5. /\ AnswerInv'
      /\ sent' \in [E!Event -> Nat] /\ reply' \in [E!Message -> Nat]
      /\ \A e \in E!Event : sent[e] > 0 => sent'[e] > 0
      /\ fn[f].k > 0 => reply'[fn[f].k] = reply[fn[f].k] + 1
      /\ \A k \in E!Message : k # fn[f].k => reply'[k] = reply[k]
      /\ fn[f].k = 0 => sent'[fn[f].on] > 0
      /\ extra' = extra
  BY <1>0, <1>1, <1>4, AnswerCounted
<1>6. E!TypeOK'
  BY <1>0, <1>1, <1>2, <1>5 DEF E!TypeOK, FnGoes, FnState
<1>7. ShapeInv'
  BY <1>0, <1>3 DEF ShapeInv
<1>8. /\ fn[f].k > 0 => fn[f].k \in E!Message /\ Claims(f) /\ reply[fn[f].k] = 0 /\ reply'[fn[f].k] = 1
      /\ \A k \in E!Message : k > 0 /\ reply[k] \in Nat
  BY <1>0, <1>5, Following, EventsTyped, EventsConstants DEF ClaimInv, Claims
<1>9. \A g \in Function : (Claims(g)' <=> Claims(g)) /\ fn'[g].k = fn[g].k
  BY <1>0, <1>3 DEF Claims
<1>10. ASSUME NEW g \in Function, Claims(g)'
       PROVE  /\ link'[fn'[g].k] \in Claimed
              /\ fn'[g].at \in {"due", "armed"} => reply'[fn'[g].k] = 0
              /\ fn'[g].at \in {"taken", "log"} => reply'[fn'[g].k] > 0
  <2>1. CASE g = f
    BY <1>0, <1>1, <1>3, <1>8, <1>9, <1>10, <2>1 DEF ClaimInv, Claims
  <2>2. CASE g # f
    <3>1. Claims(g) /\ fn'[g] = fn[g] /\ fn[g].k > 0 /\ fn[g].k \in E!Message
      BY <1>0, <1>3, <1>9, <1>10, <2>2, EventsTyped, EventsConstants DEF Claims, FnState
    <3>2. fn[g].k # fn[f].k
      <4>1. CASE fn[f].k > 0
        BY <1>0, <1>8, <2>2, <3>1, <4>1 DEF ClaimInv
      <4>2. CASE ~(fn[f].k > 0)
        BY <3>1, <4>2
      <4> QED BY <4>1, <4>2
    <3> QED BY <1>0, <1>1, <1>5, <3>1, <3>2 DEF ClaimInv
  <2> QED BY <2>1, <2>2
<1>11. \A k \in E!Message : reply'[k] <= 1 /\ (link'[k] \notin Claimed => reply'[k] = 0)
  <2> SUFFICES ASSUME NEW k \in E!Message
               PROVE  reply'[k] <= 1 /\ (link'[k] \notin Claimed => reply'[k] = 0)
    OBVIOUS
  <2>1. CASE k = fn[f].k
    BY <1>0, <1>1, <1>8, <2>1 DEF ClaimInv
  <2>2. CASE k # fn[f].k
    BY <1>0, <1>1, <1>5, <2>2 DEF ClaimInv
  <2> QED BY <2>1, <2>2
<1>12. ClaimInv'
  BY <1>0, <1>9, <1>10, <1>11 DEF ClaimInv
<1>13. TruthInv'
  <2>1. \A k \in E!Message : reply[k] > 0 => reply'[k] > 0
    BY <1>5, <1>8
  <2> QED BY <1>1, <1>2, <1>5, <2>1, StaysTrue
<1> QED BY <1>5, <1>6, <1>7, <1>12, <1>13 DEF EventsInv

\* Meta accepts a message.
LEMMA Accepts == ASSUME EventsInv, NEW f \in Function, E!Accept(f) PROVE EventsInv'
  BY AcceptsFirst, AcceptsExtra DEF E!Accept, E!Sending

\* What Meta may have accepted from a function that ends.
LEMMA MayCount ==
  ASSUME EventsInv, NEW f \in Function, (E!Sending(f) /\ E!Count(f)) \/ UNCHANGED E!Counts
  PROVE  /\ (sent' = sent /\ reply' = reply) \/ (fn[f].at = "armed" /\ E!Count(f))
         /\ extra' \in [Click -> Nat]
<1>1. extra \in [Click -> Nat]
  BY EventsTyped DEF EventsInv
<1>2. CASE UNCHANGED E!Counts
  BY <1>1, <1>2 DEF E!Counts
<1>3. CASE fn[f].at = "again" /\ E!Count(f)
  BY <1>3, ExtraCounted
<1>4. CASE fn[f].at = "armed" /\ E!Count(f)
  BY <1>1, <1>4 DEF E!Count
<1> QED BY <1>2, <1>3, <1>4 DEF E!Sending

\* Meta refuses, or its answer is lost.
LEMMA Fails ==
  ASSUME EventsInv, NEW f \in Function, E!Refuse(f) \/ E!AnswerLost(f) PROVE EventsInv'
<1>0. /\ E!TypeOK /\ fn[f].at \in {"armed", "again"} /\ fn[f].at # "idle"
      /\ E!Done(f) /\ E!Mark(f, "failed")
  BY DEF EventsInv, E!Refuse, E!AnswerLost, E!Fail, E!Sending
<1>1. active' = active /\ steps' = steps /\ retries' = retries
  BY DEF E!Refuse, E!AnswerLost, E!Configuration
<1>2. faults' \in 0..MaxFaults
  BY <1>0, EventsTyped, EventsConstants DEF E!Refuse, E!AnswerLost, E!Disturb
<1>3. /\ (sent' = sent /\ reply' = reply) \/ (fn[f].at = "armed" /\ E!Count(f))
      /\ extra' \in [Click -> Nat]
  <2>1. (E!Sending(f) /\ E!Count(f)) \/ UNCHANGED E!Counts
    BY DEF E!Refuse, E!AnswerLost
  <2> QED BY <2>1, MayCount
<1>4. run' \in RunStatus
  BY <1>0 DEF E!Refuse, E!AnswerLost, E!Fail, E!TypeOK, RunStatus
<1>5. /\ link' \in [E!Message -> E!State]
      /\ \A k \in E!Message : link[k] \in Claimed => link'[k] \in Claimed
      /\ \A k \in E!Message : link'[k] = "sent" => link[k] = "sent"
      /\ \A k \in E!Message : link'[k] # "none" => link[k] # "none"
  <2>1. link' = IF E!Follows(f) THEN [link EXCEPT ![fn[f].k] = "failed"] ELSE link
    BY DEF E!Refuse, E!AnswerLost, E!Fail
  <2>2. CASE E!Follows(f)
    <3>1. fn[f].k \in E!Message /\ link[fn[f].k] \in Claimed
      <4>1. fn[f].k > 0 /\ fn[f].k \in E!Message /\ fn[f].at = "armed"
        BY <1>0, <2>2, Following DEF EventsInv, ShapeInv
      <4> QED BY <4>1 DEF Claims, ClaimInv, EventsInv
    <3>2. link' = [link EXCEPT ![fn[f].k] = "failed"]
      BY <2>1, <2>2
    <3> QED BY <3>1, <3>2, LinkFails
  <2>3. CASE ~E!Follows(f)
    BY <1>0, <2>1, <2>3, EventsTyped
  <2> QED BY <2>2, <2>3
<1>6. "failed" \in EventStatus \ {"absent"} /\ "failed" # "processed"
  BY DEF EventStatus
<1>7. /\ ev' \in [E!Event -> EventStatus]
      /\ \A e \in E!Event : ev[e] # "absent" => ev'[e] # "absent"
      /\ \A e \in E!Event : ev'[e] = "processed" => ev[e] = "processed"
  BY <1>0, <1>6, Marks
<1> QED BY <1>0, <1>1, <1>2, <1>3, <1>4, <1>5, <1>7, Ends

\* The follow-up is recorded as sent, or the error of that goes unnoticed.
LEMMA SetsSent == ASSUME EventsInv, NEW f \in Function, E!SetSent(f) PROVE EventsInv'
<1> DEFINE m == fn[f].k
<1>0. E!TypeOK /\ ShapeInv /\ ClaimInv /\ fn[f].at = "taken" /\ m > 0 /\ m \in E!Message
  <2>1. fn[f].at = "taken" /\ m > 0
    BY DEF E!SetSent, E!Follows
  <2> QED BY <2>1, Following DEF EventsInv
<1>1. /\ ev' = ev /\ run' = run /\ active' = active /\ steps' = steps
      /\ retries' = retries /\ sent' = sent /\ extra' = extra /\ reply' = reply
  BY DEF E!SetSent, E!Configuration, E!Counts
<1>2. FnGoes(f, "log", fn[f].on, m, fn[f].left)
  BY <1>0, FnAdvances DEF E!SetSent
<1>3. fn'[f].at = "log" /\ fn'[f].on = fn[f].on /\ fn'[f].k = m
      /\ \A g \in Function \ {f} : fn'[g] = fn[g]
  BY <1>2 DEF FnGoes
<1>4. faults' \in 0..MaxFaults
  BY <1>0, EventsTyped, EventsConstants DEF E!SetSent, E!Disturb
<1>5. Claims(f) /\ link[m] \in Claimed /\ reply[m] > 0
  BY <1>0 DEF Claims, ClaimInv
<1>6. link' = [link EXCEPT ![m] = "sent"] \/ link' = link
  BY DEF E!SetSent
<1> HIDE DEF m
<1>7. /\ link' \in [E!Message -> E!State]
      /\ \A k \in E!Message : (link'[k] \in Claimed <=> link[k] \in Claimed)
      /\ \A k \in E!Message : link'[k] = "sent" => link[k] = "sent" \/ k = m
      /\ \A k \in E!Message : link'[k] # "none" => link[k] # "none"
  <2>1. link \in [E!Message -> E!State] /\ "sent" \in E!State
    BY <1>0, EventsTyped DEF E!State
  <2>2. CASE link' = link
    BY <2>1, <2>2
  <2>3. CASE link' = [link EXCEPT ![m] = "sent"]
    <3>1. link' \in [E!Message -> E!State] /\ link'[m] = "sent" /\ \A k \in E!Message \ {m} : link'[k] = link[k]
      BY <1>0, <2>1, <2>3, Put
    <3> QED BY <1>5, <3>1 DEF Claimed
  <2> QED BY <1>6, <2>2, <2>3
<1>8. E!TypeOK'
  BY <1>0, <1>1, <1>2, <1>4, <1>7 DEF E!TypeOK, FnGoes, FnState
<1>9. ShapeInv'
  BY <1>0, <1>3 DEF ShapeInv, m
<1>10. \A g \in Function : /\ (Claims(g)' <=> Claims(g)) /\ fn'[g].k = fn[g].k
                           /\ Claims(g) => fn[g].k \in E!Message
                           /\ (fn'[g].at = fn[g].at \/ (fn'[g].at = "log" /\ fn[g].at = "taken"))
  BY <1>0, <1>3, EventsTyped, EventsConstants DEF Claims, FnState, m
<1>11. ClaimInv'
  BY <1>0, <1>1, <1>7, <1>10 DEF ClaimInv
<1>12. TruthInv'
  BY <1>1, <1>2, <1>5, <1>7, StaysTrue
<1>13. AnswerInv'
  <2>1. \A e \in E!Event : Pending(e)' = Pending(e)
    BY <1>0, <1>2, PendingChanges
  <2> QED BY <1>1, <2>1, AnswerSame
<1> QED BY <1>8, <1>9, <1>11, <1>12, <1>13 DEF EventsInv

\* The additional message that comes next is about to be sent.
LEMMA Repeats == ASSUME EventsInv, NEW f \in Function, E!Another(f) PROVE EventsInv'
<1>0. E!TypeOK /\ ShapeInv /\ ClaimInv /\ TruthInv /\ fn[f].at = "taken" /\ fn[f].left > 0
  BY DEF EventsInv, E!Another
<1>1. /\ ev' = ev /\ link' = link /\ run' = run /\ active' = active /\ steps' = steps
      /\ retries' = retries /\ faults' = faults /\ sent' = sent /\ extra' = extra /\ reply' = reply
  BY DEF E!Another, E!Tables, E!Configuration, E!Counts
<1>2. FnGoes(f, "again", fn[f].on, fn[f].k, fn[f].left - 1)
  BY <1>0, FnRepeats DEF E!Another
<1>3. fn[f].k = 0 /\ fn[f].on \in Click /\ sent[fn[f].on] > 0
  BY <1>0 DEF ShapeInv, TruthInv
<1>4. /\ fn'[f].at = "again" /\ fn'[f].on = fn[f].on /\ fn'[f].k = 0
      /\ \A g \in Function \ {f} : fn'[g] = fn[g]
  BY <1>2, <1>3 DEF FnGoes
<1>5. E!TypeOK'
  BY <1>0, <1>1, <1>2 DEF E!TypeOK, FnGoes, FnState
<1>6. ShapeInv'
  BY <1>0, <1>3, <1>4, EventsConstants DEF ShapeInv
<1>7. \A g \in Function : (Claims(g)' <=> Claims(g)) /\ (Claims(g) => g # f /\ fn'[g] = fn[g])
  BY <1>3, <1>4 DEF Claims
<1>8. ClaimInv'
  BY <1>0, <1>1, <1>7 DEF ClaimInv
<1>9. TruthInv'
  BY <1>1, <1>2, <1>3, StaysTrue
<1>10. AnswerInv'
  <2>1. \A e \in E!Event : Pending(e)' = Pending(e)
    BY <1>0, <1>2, PendingChanges
  <2> QED BY <1>1, <2>1, AnswerSame
<1> QED BY <1>5, <1>6, <1>8, <1>9, <1>10 DEF EventsInv

\* The message that was sent starts to wait for its own follow-up.
LEMMA LinkWaits ==
  ASSUME EventsInv, NEW f \in Function, NEW k \in Nat, k \in E!Message => E!Delivered(k), link' = E!Logs(f, k)
  PROVE  /\ link' \in [E!Message -> E!State]
         /\ \A i \in E!Message : link[i] \in Claimed => link'[i] \in Claimed
         /\ \A i \in E!Message : link'[i] = "sent" => link[i] = "sent"
         /\ \A i \in E!Message : link'[i] # "none" => link[i] # "none" \/ E!Delivered(i)
<1>1. link \in [E!Message -> E!State]
  BY EventsTyped DEF EventsInv
<1>2. CASE k \in E!Message /\ link[k] = "none"
  <2> DEFINE s == IF fn[f].next THEN "waiting" ELSE "null"
  <2>1. s \in {"waiting", "null"}
    OBVIOUS
  <2>2. link' = [link EXCEPT ![k] = s]
    BY <1>2 DEF E!Logs
  <2> HIDE DEF s
  <2>3. s \in E!State
    BY <2>1 DEF E!State
  <2>4. link' \in [E!Message -> E!State] /\ link'[k] = s /\ \A i \in E!Message \ {k} : link'[i] = link[i]
    BY <1>1, <1>2, <2>2, <2>3, Put
  <2> QED BY <1>2, <2>1, <2>4 DEF Claimed
<1>3. CASE ~(k \in E!Message /\ link[k] = "none")
  <2>1. link' = link
    BY <1>3 DEF E!Logs
  <2> QED BY <1>1, <2>1
<1> QED BY <1>2, <1>3

\* The attempt is logged and its event is processed.
LEMMA LogsAttempt == ASSUME EventsInv, NEW f \in Function, E!Log(f) PROVE EventsInv'
<1>0. /\ E!TypeOK /\ ShapeInv /\ ClaimInv /\ TruthInv /\ E!Done(f) /\ E!Mark(f, "processed")
      /\ fn[f].at \in {"taken", "log"} /\ (fn[f].at = "log" <=> fn[f].k > 0)
  <2>1. fn[f].at = IF E!Follows(f) THEN "log" ELSE "taken"
    BY DEF E!Log
  <2>2. fn[f].at # "idle"
    BY <2>1
  <2> QED BY <2>1, <2>2, Following DEF EventsInv, E!Log
<1>1. /\ active' = active /\ steps' = steps /\ retries' = retries
      /\ faults' = faults /\ sent' = sent /\ extra' = extra /\ reply' = reply
  BY DEF E!Log, E!Configuration, E!Counts
<1>2. run' \in RunStatus
  BY <1>0 DEF E!Log, E!TypeOK, RunStatus
<1>3. FnGoes(f, "idle", NoEvent, 0, 0)
  BY <1>0, FnRests
<1>4. /\ ev' \in [E!Event -> EventStatus]
      /\ \A e \in E!Event : ev[e] # "absent" => ev'[e] # "absent"
      /\ \A e \in E!Event : ev'[e] = "processed" => ev[e] = "processed" \/ e = fn[f].on
  <2>1. "processed" \in EventStatus \ {"absent"}
    BY DEF EventStatus
  <2> QED BY <1>0, <2>1, Marks
<1>5. /\ link' \in [E!Message -> E!State]
      /\ \A k \in E!Message : link[k] \in Claimed => link'[k] \in Claimed
      /\ \A k \in E!Message : link'[k] = "sent" => link[k] = "sent"
      /\ \A k \in E!Message : link'[k] # "none" => link[k] # "none" \/ E!Delivered(k)
  <2>1. link' = IF E!Follows(f) THEN E!Logs(f, fn[f].k + 1)
                ELSE IF fn[f].on \in Purchase THEN E!Logs(f, 1) ELSE link
    BY DEF E!Log
  <2>2. CASE E!Follows(f)
    <3>1. fn[f].k > 0 /\ fn[f].k \in E!Message /\ reply[fn[f].k] > 0
      BY <1>0, <2>2, Following DEF E!Follows, ClaimInv, Claims
    <3>2. fn[f].k \in Nat /\ fn[f].k + 1 \in Nat /\ fn[f].k + 1 # 0 /\ fn[f].k + 1 # 1 /\ (fn[f].k + 1) - 1 = fn[f].k
      BY <3>1, EventsConstants
    <3>3. E!Delivered(fn[f].k + 1)
      BY <3>1, <3>2 DEF E!Delivered
    <3>4. link' = E!Logs(f, fn[f].k + 1)
      BY <2>1, <2>2
    <3> QED BY <3>2, <3>3, <3>4, LinkWaits
  <2>3. CASE ~E!Follows(f) /\ fn[f].on \in Purchase
    <3>1. fn[f].at = "taken" /\ fn[f].k = 0
      BY <1>0, <2>3, Following
    <3>2. sent[fn[f].on] > 0
      BY <1>0, <3>1 DEF TruthInv
    <3>3. E!Delivered(1)
      BY <2>3, <3>2 DEF E!Delivered
    <3>4. link' = E!Logs(f, 1)
      BY <2>1, <2>3
    <3> QED BY <3>3, <3>4, LinkWaits
  <2>4. CASE ~E!Follows(f) /\ fn[f].on \notin Purchase
    BY <1>0, <2>1, <2>4, EventsTyped
  <2> QED BY <2>2, <2>3, <2>4
<1>6. E!TypeOK'
  BY <1>0, <1>1, <1>2, <1>3, <1>4, <1>5 DEF E!TypeOK, FnGoes, FnState, EventStatus, RunStatus
<1>7. ShapeInv' /\ ClaimInv'
  BY <1>1, <1>3, <1>5, RestClaims
<1>8. TruthInv'
  <2>1. fn[f].on \in Purchase \cup Lead => sent'[fn[f].on] > 0
    <3>1. fn[f].on \in Purchase \cup Lead => fn[f].at = "taken" /\ fn[f].k = 0
      BY <1>0 DEF ShapeInv
    <3> QED BY <1>0, <1>1, <3>1 DEF TruthInv
  <2> QED BY <1>1, <1>3, <1>4, <1>5, <2>1, EventsConstants, StaysTrue
<1>9. AnswerInv'
  <2>1. \A e \in E!Event : Pending(e)' = Pending(e)
    BY <1>0, <1>3, PendingChanges
  <2> QED BY <1>1, <1>4, <2>1, AnswerSame
<1> QED BY <1>6, <1>7, <1>8, <1>9 DEF EventsInv

\* The attempt is not logged, or the function dies.
LEMMA Breaks ==
  ASSUME EventsInv, NEW f \in Function, E!LogFails(f) \/ E!Crash(f) PROVE EventsInv'
<1>0. E!TypeOK /\ E!Done(f)
  BY DEF EventsInv, E!LogFails, E!Crash
<1>1. active' = active /\ steps' = steps /\ retries' = retries
  BY DEF E!LogFails, E!Crash, E!Configuration
<1>2. faults' \in 0..MaxFaults
  BY <1>0, EventsTyped, EventsConstants DEF E!LogFails, E!Crash, E!Disturb
<1>3. /\ (sent' = sent /\ reply' = reply) \/ (fn[f].at = "armed" /\ E!Count(f))
      /\ extra' \in [Click -> Nat]
  <2>1. (E!Sending(f) /\ E!Count(f)) \/ UNCHANGED E!Counts
    BY DEF E!LogFails, E!Crash
  <2> QED BY <2>1, MayCount
<1>4. run' \in RunStatus
  BY <1>0 DEF E!LogFails, E!Crash, E!Tables, E!TypeOK, RunStatus
<1>5. /\ link' \in [E!Message -> E!State]
      /\ \A k \in E!Message : link[k] \in Claimed => link'[k] \in Claimed
      /\ \A k \in E!Message : link'[k] = "sent" => link[k] = "sent" \/ reply[k] > 0
      /\ \A k \in E!Message : link'[k] # "none" => link[k] # "none"
  <2>0. link \in [E!Message -> E!State] /\ "sent" \in E!State
    BY <1>0, EventsTyped DEF E!State
  <2>1. CASE link' = link
    BY <2>0, <2>1
  <2>2. CASE E!LogFails(f) /\ link' # link
    <3>1. E!Follows(f) /\ link' = [link EXCEPT ![fn[f].k] = "sent"] /\ fn[f].at = "log"
      BY <2>2 DEF E!LogFails
    <3>2. fn[f].k > 0 /\ fn[f].k \in E!Message
      BY <3>1, Following
    <3>3. reply[fn[f].k] > 0 /\ link[fn[f].k] \in Claimed
      BY <3>1, <3>2 DEF EventsInv, ClaimInv, Claims
    <3>4. /\ link' \in [E!Message -> E!State] /\ link'[fn[f].k] = "sent"
          /\ \A k \in E!Message \ {fn[f].k} : link'[k] = link[k]
      BY <2>0, <3>1, <3>2, Put
    <3> QED BY <3>2, <3>3, <3>4 DEF Claimed
  <2>3. E!LogFails(f) \/ link' = link
    BY DEF E!Crash, E!Tables
  <2> QED BY <2>1, <2>2, <2>3
<1>6. ev' = ev \/ E!Mark(f, "failed")
  BY DEF E!LogFails, E!Crash, E!Tables
<1>7. "failed" \in EventStatus \ {"absent"} /\ "failed" # "processed"
  BY DEF EventStatus
<1>8. /\ ev' \in [E!Event -> EventStatus]
      /\ \A e \in E!Event : ev[e] # "absent" => ev'[e] # "absent"
      /\ \A e \in E!Event : ev'[e] = "processed" => ev[e] = "processed"
  BY <1>0, <1>6, <1>7, EventsTyped, Marks
<1> QED BY <1>0, <1>1, <1>2, <1>3, <1>4, <1>5, <1>8, Ends

\* Every step of the events keeps their invariant.
LEMMA EventsSteps == ASSUME EventsInv, E!Next PROVE EventsInv'
<1>1. CASE E!Configure
  BY <1>1, Configures
<1>2. ASSUME NEW f \in Function, NEW e \in E!Event, E!Capture(f, e) PROVE EventsInv'
  BY <1>2, Captures
<1>3. ASSUME NEW f \in Function, NEW e \in Purchase, E!Reprocess(f, e) PROVE EventsInv'
  BY <1>3, Reprocesses
<1>4. ASSUME NEW f \in Function, E!RunDue(f) PROVE EventsInv'
  BY <1>4, RunsDue
<1>5. ASSUME NEW f \in Function, E!Process(f) PROVE EventsInv'
  BY <1>5, Prepares, ClicksAutomation, ClicksFlow, DuesArm, Accepts, Fails, SetsSent, Repeats, LogsAttempt
     DEF E!Process
<1>6. ASSUME NEW f \in Function, E!AnswerLost(f) \/ E!LogFails(f) \/ E!Crash(f) PROVE EventsInv'
  BY <1>6, Fails, Breaks
<1> QED BY <1>1, <1>2, <1>3, <1>4, <1>5, <1>6 DEF E!Next

-----------------------------------------------------------------------------
(* The additional messages of a flow, which are counted apart.             *)

\* Function f works on click e.
Works(f, e) == fn[f].at # "idle" /\ fn[f].on = e
\* The additional messages that function f may still send.
Ahead(f) == fn[f].left + IF fn[f].at = "again" THEN 1 ELSE 0
\* The additional messages of click e follow its answer.
ExtraOf(e) ==
  /\ extra[e] <= MaxExtra
  /\ extra[e] > 0 => sent[e] > 0
  /\ ev[e] = "absent" => extra[e] = 0
\* Function f, which works on click e, keeps within the messages of the flow.
WorkOf(f, e) ==
  /\ ev[e] # "absent"
  /\ extra[e] + Ahead(f) <= MaxExtra
  /\ fn[f].at = "start" => extra[e] = 0
\* One function works on a click.
ExtraInv ==
  /\ \A e \in Click : ExtraOf(e)
  /\ \A f \in Function, e \in Click : Works(f, e) => WorkOf(f, e)
  /\ \A f, g \in Function, e \in Click : Works(f, e) /\ Works(g, e) => f = g

\* The numbers of a function that works.
LEMMA ExtraTyped ==
  ASSUME E!TypeOK, NEW f \in Function
  PROVE  fn[f].left \in Nat /\ Ahead(f) \in Nat /\ MaxExtra \in Nat /\ extra \in [Click -> Nat]
<1>1. fn[f] \in FnState /\ extra \in [Click -> Nat]
  BY EventsTyped
<1>2. fn[f].left \in 0..MaxExtra
  BY <1>1 DEF FnState
<1> QED BY <1>1, <1>2, EventsConstants DEF Ahead

\* Nothing was sent.
LEMMA ExtraBegins == ASSUME E!Init PROVE ExtraInv
<1>1. (\A f \in Function : fn[f].at = "idle") /\ \A e \in Click : extra[e] = 0
  BY DEF E!Init, E!Rest
<1> QED BY <1>1, EventsConstants DEF ExtraInv, ExtraOf, Works

\* Steps of the other services, and edits of the automation.
LEMMA ExtraStays ==
  ASSUME ExtraInv, fn' = fn, extra' = extra, sent' = sent, ev' = ev PROVE ExtraInv'
  BY DEF ExtraInv, ExtraOf, WorkOf, Works, Ahead

\* Only function f changes, with the messages it sends.
LEMMA ExtraKept ==
  ASSUME EventsInv, ExtraInv, NEW f \in Function,
         fn' \in [Function -> FnState], \A g \in Function \ {f} : fn'[g] = fn[g],
         \A e \in E!Event : ev[e] # "absent" => ev'[e] # "absent",
         \A e \in E!Event : sent[e] > 0 => sent'[e] > 0,
         \A e \in Click : \/ extra'[e] = extra[e]
                          \/ Works(f, e) /\ fn[f].at = "again" /\ extra'[e] = extra[e] + 1,
         \A e \in Click : Works(f, e)' =>
           WorkOf(f, e)' /\ (Works(f, e) \/ \A g \in Function : ~Works(g, e))
  PROVE  ExtraInv'
<1>0. E!TypeOK /\ TruthInv /\ ShapeInv /\ \A e \in Click : e \in E!Event /\ extra[e] \in Nat
  BY EventsTyped, EventsConstants DEF EventsInv
<1>1. ASSUME NEW e \in Click, Works(f, e), fn[f].at = "again"
      PROVE  sent[e] > 0 /\ ev[e] # "absent" /\ extra[e] + 1 <= MaxExtra
  <2>1. sent[e] > 0
    BY <1>0, <1>1 DEF TruthInv, ShapeInv, Works
  <2>2. ev[e] # "absent" /\ extra[e] + Ahead(f) <= MaxExtra
    BY <1>1 DEF ExtraInv, WorkOf
  <2>3. Ahead(f) >= 1
    BY <1>0, <1>1, ExtraTyped DEF Ahead
  <2> QED BY <1>0, <2>1, <2>2, <2>3, ExtraTyped
<1>2. ASSUME NEW e \in Click PROVE ExtraOf(e)'
  <2>1. ExtraOf(e) /\ e \in E!Event /\ extra[e] \in Nat
    BY <1>0 DEF ExtraInv
  <2>2. CASE extra'[e] = extra[e]
    BY <2>1, <2>2 DEF ExtraOf
  <2>3. CASE Works(f, e) /\ fn[f].at = "again" /\ extra'[e] = extra[e] + 1
    BY <1>1, <2>1, <2>3 DEF ExtraOf
  <2> QED BY <2>2, <2>3
<1>3. ASSUME NEW g \in Function \ {f}, NEW e \in Click, Works(g, e)'
      PROVE  Works(g, e) /\ WorkOf(g, e)' /\ ~Works(f, e)
  <2>1. fn'[g] = fn[g] /\ Works(g, e)
    BY <1>3 DEF Works
  <2>2. ~Works(f, e)
    BY <2>1 DEF ExtraInv
  <2>3. extra'[e] = extra[e] /\ ev'[e] # "absent" /\ Ahead(g)' = Ahead(g)
    BY <1>0, <2>1, <2>2 DEF ExtraInv, WorkOf, Ahead
  <2> QED BY <2>1, <2>2, <2>3 DEF ExtraInv, WorkOf
<1>4. \A g \in Function, e \in Click : Works(g, e)' => WorkOf(g, e)'
  BY <1>3
<1>5. ASSUME NEW g \in Function, NEW h \in Function, NEW e \in Click, Works(g, e)', Works(h, e)'
      PROVE  g = h
  <2>1. CASE g # f /\ h # f
    BY <1>3, <1>5, <2>1 DEF ExtraInv
  <2>2. ASSUME NEW i \in Function \ {f}, Works(i, e)', Works(f, e)' PROVE FALSE
    BY <1>3, <2>2
  <2> QED BY <1>5, <2>1, <2>2
<1> QED BY <1>2, <1>4, <1>5 DEF ExtraInv

\* What Meta may have accepted from function f.
LEMMA ExtraMayCount ==
  ASSUME EventsInv, NEW f \in Function, (E!Sending(f) /\ E!Count(f)) \/ UNCHANGED E!Counts
  PROVE  /\ \A e \in E!Event : sent[e] > 0 => sent'[e] > 0
         /\ \A e \in Click : \/ extra'[e] = extra[e]
                             \/ Works(f, e) /\ fn[f].at = "again" /\ extra'[e] = extra[e] + 1
         /\ fn[f].at = "again" /\ E!Count(f) => extra'[fn[f].on] = extra[fn[f].on] + 1
<1>1. CASE UNCHANGED E!Counts /\ ~(E!Sending(f) /\ E!Count(f))
  BY <1>1 DEF E!Counts, E!Sending
<1>2. CASE fn[f].at = "again" /\ E!Count(f)
  BY <1>2, ExtraCounted DEF Works
<1>3. CASE fn[f].at = "armed" /\ E!Count(f)
  <2>1. extra' = extra
    BY <1>3 DEF E!Count
  <2>2. CASE sent' = sent
    BY <1>3, <2>1, <2>2
  <2>3. CASE sent' # sent
    <3>1. sent' = [sent EXCEPT ![fn[f].on] = @ + 1]
      BY <1>3, <2>3 DEF E!Count
    <3>2. sent \in [E!Event -> Nat]
      BY EventsTyped DEF EventsInv
    <3>3. \A e \in E!Event : sent'[e] = sent[e] \/ sent'[e] = sent[e] + 1
      BY <3>1, <3>2
    <3> QED BY <1>3, <2>1, <3>2, <3>3
  <2> QED BY <2>2, <2>3
<1> QED BY <1>1, <1>2, <1>3 DEF E!Sending

\* A function ends.
LEMMA ExtraEnds ==
  ASSUME EventsInv, ExtraInv, NEW f \in Function, E!Done(f),
         \A e \in E!Event : ev[e] # "absent" => ev'[e] # "absent",
         (E!Sending(f) /\ E!Count(f)) \/ UNCHANGED E!Counts
  PROVE  ExtraInv'
<1>1. FnGoes(f, "idle", NoEvent, 0, 0)
  BY FnRests DEF EventsInv
<1>2. \A e \in Click : ~Works(f, e)'
  BY <1>1 DEF FnGoes, Works
<1> QED BY <1>1, <1>2, ExtraMayCount, ExtraKept DEF FnGoes

\* A function goes on with its click, within the messages of the flow.
LEMMA ExtraGoes ==
  ASSUME EventsInv, ExtraInv, NEW f \in Function, NEW a \in {"armed", "again", "taken", "log"}, NEW n \in Nat,
         FnGoes(f, a, fn[f].on, fn[f].k, n), fn[f].at # "idle", ev' = ev,
         (E!Sending(f) /\ E!Count(f)) \/ UNCHANGED E!Counts,
         \A e \in Click : Works(f, e) => extra'[e] + n + (IF a = "again" THEN 1 ELSE 0) <= MaxExtra
  PROVE  ExtraInv'
<1>1. fn'[f].at = a /\ fn'[f].on = fn[f].on /\ fn'[f].left = n
  BY DEF FnGoes
<1>2. ASSUME NEW e \in Click, Works(f, e)' PROVE Works(f, e) /\ WorkOf(f, e)'
  <2>1. Works(f, e)
    BY <1>1, <1>2 DEF Works
  <2>2. ev'[e] # "absent"
    BY <2>1 DEF ExtraInv, WorkOf
  <2>3. Ahead(f)' = n + (IF a = "again" THEN 1 ELSE 0)
    BY <1>1 DEF Ahead
  <2>4. extra'[e] \in Nat
    <3>1. extra[e] \in Nat
      BY EventsTyped DEF EventsInv
    <3> QED BY <3>1, ExtraMayCount
  <2>5. extra'[e] + Ahead(f)' <= MaxExtra
    BY <2>1, <2>3, <2>4
  <2> QED BY <1>1, <2>1, <2>2, <2>5 DEF WorkOf
<1> QED BY <1>2, ExtraMayCount, ExtraKept DEF FnGoes

\* A function begins with an event that nobody works on, or with none.
LEMMA ExtraStarts ==
  ASSUME EventsInv, ExtraInv, NEW f \in Function, NEW a \in {"start", "due"},
         NEW d \in E!Event \cup {NoEvent}, NEW k, FnGoes(f, a, d, k, 0),
         d \in Click => ev[d] = "absent" /\ ev'[d] # "absent",
         \A e \in E!Event : ev[e] # "absent" => ev'[e] # "absent", sent' = sent, extra' = extra
  PROVE  ExtraInv'
<1>1. fn'[f].at = a /\ fn'[f].on = d /\ fn'[f].left = 0
  BY DEF FnGoes
<1>2. ASSUME NEW e \in Click, Works(f, e)'
      PROVE  WorkOf(f, e)' /\ \A g \in Function : ~Works(g, e)
  <2>1. e = d /\ ev[e] = "absent" /\ ev'[e] # "absent"
    BY <1>1, <1>2 DEF Works
  <2>2. extra'[e] = 0
    BY <2>1 DEF ExtraInv, ExtraOf
  <2>3. Ahead(f)' = 0
    BY <1>1 DEF Ahead
  <2>4. \A g \in Function : ~Works(g, e)
    BY <2>1 DEF ExtraInv, WorkOf
  <2> QED BY <2>1, <2>2, <2>3, <2>4, EventsConstants DEF WorkOf
<1> QED BY <1>2, ExtraKept DEF FnGoes

\* What a function does before it sends.
LEMMA ExtraPrepares ==
  ASSUME EventsInv, ExtraInv, NEW f \in Function,
         E!Prepare(f) \/ E!ClickAutomation(f) \/ E!ClickFlow(f) \/ E!Due(f)
  PROVE  ExtraInv'
<1>0. E!TypeOK /\ UNCHANGED E!Counts
  BY DEF EventsInv, E!Prepare, E!ClickAutomation, E!ClickFlow, E!Due
<1>1. ASSUME NEW s \in {"ignored", "failed"}, E!Done(f), E!Mark(f, s) PROVE ExtraInv'
  <2>1. s \in EventStatus \ {"absent"}
    BY DEF EventStatus
  <2> QED BY <1>0, <1>1, <2>1, Marks, ExtraEnds
<1>2. ASSUME E!Done(f), ev' = ev PROVE ExtraInv'
  BY <1>0, <1>2, ExtraEnds
<1>3. ASSUME NEW b \in BOOLEAN, NEW n \in 0..MaxExtra, E!Arm(f, b, n), ev' = ev,
             fn[f].at \in {"start", "due"}
      PROVE  ExtraInv'
  <2>1. FnGoes(f, "armed", fn[f].on, fn[f].k, n)
    BY <1>0, <1>3, FnArms
  <2>2. n \in Nat /\ n <= MaxExtra /\ MaxExtra \in Nat
    BY EventsConstants
  <2>3. ASSUME NEW e \in Click, Works(f, e) PROVE extra'[e] + n + 0 <= MaxExtra
    <3>1. fn[f].at = "start"
      BY <1>3, <2>3, EventsConstants DEF Works, EventsInv, ShapeInv, E!Event
    <3>2. extra[e] = 0
      BY <2>3, <3>1 DEF ExtraInv, WorkOf
    <3> QED BY <1>0, <2>2, <3>2 DEF E!Counts
  <2> QED BY <1>0, <1>3, <2>1, <2>2, <2>3, ExtraGoes
<1>4. 0 \in 0..MaxExtra /\ steps \in Int /\ fn[f].k \in Int
  <2>1. fn[f] \in FnState
    BY <1>0, EventsTyped
  <2> QED BY <1>0, <2>1, EventsTyped, EventsConstants DEF FnState
<1>5. (steps > 0) \in BOOLEAN /\ (steps > fn[f].k) \in BOOLEAN
  BY <1>4, SMT
<1>6. FALSE \in BOOLEAN
  BY Zenon
<1>7. CASE E!Prepare(f)
  BY <1>1, <1>3, <1>4, <1>5, <1>7 DEF E!Prepare
<1>8. CASE E!ClickAutomation(f)
  BY <1>1, <1>3, <1>4, <1>5, <1>8 DEF E!ClickAutomation
<1>9. CASE E!ClickFlow(f)
  BY <1>1, <1>3, <1>6, <1>9 DEF E!ClickFlow
<1>10. CASE E!Due(f)
  BY <1>2, <1>3, <1>4, <1>5, <1>10 DEF E!Due
<1> QED BY <1>7, <1>8, <1>9, <1>10

\* What a function does from then on.
LEMMA ExtraSends ==
  ASSUME EventsInv, ExtraInv, NEW f \in Function,
         \/ E!Accept(f) \/ E!SetSent(f) \/ E!Another(f)
         \/ E!Refuse(f) \/ E!AnswerLost(f) \/ E!Log(f) \/ E!LogFails(f) \/ E!Crash(f)
  PROVE  ExtraInv'
<1>0. E!TypeOK
  BY DEF EventsInv
<1>1. ASSUME NEW s \in {"processed", "failed"}, E!Done(f), E!Mark(f, s),
             (E!Sending(f) /\ E!Count(f)) \/ UNCHANGED E!Counts
      PROVE  ExtraInv'
  <2>1. s \in EventStatus \ {"absent"}
    BY DEF EventStatus
  <2> QED BY <1>0, <1>1, <2>1, Marks, ExtraEnds
<1>2. ASSUME NEW e \in Click, Works(f, e) PROVE extra[e] + Ahead(f) <= MaxExtra /\ extra[e] \in Nat
  BY <1>0, <1>2, EventsTyped DEF ExtraInv, WorkOf
<1>3. fn[f].left \in Nat /\ MaxExtra \in Nat
  BY <1>0, ExtraTyped
<1>4. CASE E!Accept(f)
  <2>1. FnGoes(f, "taken", fn[f].on, fn[f].k, fn[f].left) /\ E!Sending(f) /\ E!Count(f) /\ ev' = ev
    BY <1>0, <1>4, FnAdvances DEF E!Accept, E!Tables
  <2>2. ASSUME NEW e \in Click, Works(f, e) PROVE extra'[e] + fn[f].left + 0 <= MaxExtra
    <3>1. CASE fn[f].at = "again"
      <4>1. extra'[e] = extra[e] + 1
        BY <2>1, <2>2, <3>1, ExtraMayCount DEF Works
      <4> QED BY <1>2, <1>3, <2>2, <3>1, <4>1 DEF Ahead
    <3>2. CASE fn[f].at # "again"
      <4>1. extra'[e] = extra[e]
        BY <2>1, <3>2, ExtraMayCount
      <4> QED BY <1>2, <1>3, <2>2, <3>2, <4>1 DEF Ahead
    <3> QED BY <3>1, <3>2
  <2> QED BY <1>3, <2>1, <2>2, ExtraGoes DEF E!Sending
<1>5. CASE E!SetSent(f)
  <2>1. /\ FnGoes(f, "log", fn[f].on, fn[f].k, fn[f].left) /\ ev' = ev /\ UNCHANGED E!Counts
        /\ fn[f].at = "taken"
    BY <1>0, <1>5, FnAdvances DEF E!SetSent
  <2>2. ASSUME NEW e \in Click, Works(f, e) PROVE extra'[e] + fn[f].left + 0 <= MaxExtra
    BY <1>2, <1>3, <2>1, <2>2 DEF Ahead, E!Counts
  <2> QED BY <1>3, <2>1, <2>2, ExtraGoes
<1>6. CASE E!Another(f)
  <2>1. /\ FnGoes(f, "again", fn[f].on, fn[f].k, fn[f].left - 1) /\ ev' = ev /\ UNCHANGED E!Counts
        /\ fn[f].at = "taken" /\ fn[f].left > 0
    BY <1>0, <1>6, FnRepeats DEF E!Another, E!Tables
  <2>2. fn[f].left - 1 \in Nat
    BY <1>3, <2>1
  <2>3. ASSUME NEW e \in Click, Works(f, e) PROVE extra'[e] + (fn[f].left - 1) + 1 <= MaxExtra
    BY <1>2, <1>3, <2>1, <2>3 DEF Ahead, E!Counts
  <2> QED BY <2>1, <2>2, <2>3, ExtraGoes
<1>7. CASE E!Refuse(f) \/ E!AnswerLost(f)
  BY <1>1, <1>7 DEF E!Refuse, E!AnswerLost, E!Fail
<1>8. CASE E!Log(f) \/ E!LogFails(f)
  BY <1>1, <1>8 DEF E!Log, E!LogFails
<1>9. CASE E!Crash(f)
  <2>1. E!Done(f) /\ ev' = ev /\ ((E!Sending(f) /\ E!Count(f)) \/ UNCHANGED E!Counts)
    BY <1>9 DEF E!Crash, E!Tables
  <2> QED BY <2>1, ExtraEnds
<1> QED BY <1>4, <1>5, <1>6, <1>7, <1>8, <1>9

\* Every step of the events keeps within the messages of the flows.
LEMMA ExtraSteps == ASSUME EventsInv, ExtraInv, E!Next PROVE ExtraInv'
<1>0. E!TypeOK /\ 0 \in 0..MaxSteps
  BY EventsConstants DEF EventsInv
<1>1. CASE E!Configure
  BY <1>1, ExtraStays DEF E!Configure, E!Tables, E!Counts
<1>2. ASSUME NEW f \in Function, NEW e \in E!Event, E!Capture(f, e) PROVE ExtraInv'
  <2> DEFINE m == IF e \in Click THEN About[e] ELSE 0
  <2>1. m \in 0..MaxSteps
    BY EventsConstants
  <2>2. FnGoes(f, "start", e, m, 0)
    BY <1>0, <1>2, <2>1, FnStarts DEF E!Capture
  <2>3. ev[e] = "absent" /\ ev' = [ev EXCEPT ![e] = "received"] /\ sent' = sent /\ extra' = extra
    BY <1>2 DEF E!Capture, E!New, E!Counts
  <2>4. ev'[e] # "absent" /\ \A d \in E!Event : ev[d] # "absent" => ev'[d] # "absent"
    BY <1>0, <2>3, EventsTyped
  <2> HIDE DEF m
  <2> QED BY <2>2, <2>3, <2>4, ExtraStarts
<1>3. ASSUME NEW f \in Function, NEW e \in Purchase, E!Reprocess(f, e) PROVE ExtraInv'
  <2>1. e \in E!Event /\ e \notin Click
    BY EventsConstants
  <2>2. FnGoes(f, "start", e, 0, 0) /\ ev' = ev /\ sent' = sent /\ extra' = extra
    BY <1>3, ReprocessGoes DEF EventsInv, E!Reprocess, E!Tables, E!Counts
  <2> QED BY <2>1, <2>2, ExtraStarts
<1>4. ASSUME NEW f \in Function, E!RunDue(f) PROVE ExtraInv'
  <2>1. ev' = ev /\ sent' = sent /\ extra' = extra
    BY <1>4 DEF E!RunDue, E!Counts
  <2>2. CASE fn' = fn
    BY <2>1, <2>2, ExtraStays
  <2>3. ASSUME NEW m \in ByDelay, fn' = [fn EXCEPT ![f] = [E!Rest EXCEPT !.at = "due", !.k = m]]
        PROVE  ExtraInv'
    <3>1. FnGoes(f, "due", NoEvent, m, 0) /\ NoEvent \notin Click
      BY <1>0, <2>3, DueGoes, EventsConstants
    <3> QED BY <2>1, <3>1, ExtraStarts
  <2> QED BY <1>4, <2>2, <2>3 DEF E!RunDue
<1>5. ASSUME NEW f \in Function, E!Process(f) PROVE ExtraInv'
  BY <1>5, ExtraPrepares, ExtraSends DEF E!Process
<1>6. ASSUME NEW f \in Function, E!AnswerLost(f) \/ E!LogFails(f) \/ E!Crash(f) PROVE ExtraInv'
  BY <1>6, ExtraSends
<1> QED BY <1>1, <1>2, <1>3, <1>4, <1>5, <1>6 DEF E!Next

-----------------------------------------------------------------------------
\* The invariants of the events say what their properties do.
LEMMA EventsSafe == EventsInv /\ ExtraInv => E!FollowedOnce /\ E!AnsweredOnce /\ E!DoneIsTrue
<1> SUFFICES ASSUME EventsInv, ExtraInv
             PROVE  E!FollowedOnce /\ E!AnsweredOnce /\ E!DoneIsTrue
  OBVIOUS
<1>1. E!FollowedOnce
  BY DEF EventsInv, ClaimInv, E!FollowedOnce
<1>2. ASSUME NEW e \in E!Event PROVE sent[e] <= 1 + (IF e \in Purchase THEN retries[e] ELSE 0)
  <2>1. IsFiniteSet(Pending(e)) /\ sent[e] + Cardinality(Pending(e)) <= Allowed(e)
    BY DEF EventsInv, AnswerInv
  <2>2. Cardinality(Pending(e)) \in Nat /\ sent[e] \in Nat
    BY <2>1, FS_CardinalityType, EventsTyped DEF EventsInv
  <2>3. e \in Purchase => retries[e] \in Nat
    BY EventsTyped, EventsConstants DEF EventsInv
  <2> QED BY <2>1, <2>2, <2>3 DEF Allowed
<1>3. E!AnsweredOnce
  BY <1>2 DEF E!AnsweredOnce, ExtraInv, ExtraOf
<1>4. E!DoneIsTrue
  BY DEF EventsInv, TruthInv
<1> QED BY <1>1, <1>3, <1>4

-----------------------------------------------------------------------------
\* The invariant of the events holds in every state.
THEOREM EventsInvariance == Spec => []EventsInv
<1>1. Init => EventsInv
  BY EventsBegin DEF Init
<1>2. EventsInv /\ [Next]_vars => EventsInv'
  BY OneServiceSteps, EventsSteps, EventsStay
<1> QED
  BY <1>1, <1>2, PTL DEF Spec

\* The additional messages keep within their flow in every state.
THEOREM ExtraInvariance == Spec => []ExtraInv
<1>1. Init => ExtraInv
  BY ExtraBegins DEF Init
<1>2. EventsInv /\ ExtraInv /\ [Next]_vars => ExtraInv'
  <2>1. UNCHANGED evars => fn' = fn /\ extra' = extra /\ sent' = sent /\ ev' = ev
    BY DEF evars
  <2> QED BY <2>1, OneServiceSteps, ExtraSteps, ExtraStays
<1> QED
  BY <1>1, <1>2, EventsInvariance, PTL DEF Spec

\* Each message of an automation is followed up at most once, however the runs
\* that are due, the clicks and the webhooks overlap (automation-followup.ts).
THEOREM FollowedOnceHolds == Spec => []FollowedOnce
<1>1. EventsInv /\ ExtraInv => FollowedOnce
  BY EventsSafe DEF FollowedOnce
<1> QED
  BY <1>1, EventsInvariance, ExtraInvariance, PTL

\* An event with an identifier is answered at most once, but for the retries that
\* people ask for, however often its webhook is delivered (hubla-events.ts), and the
\* additional messages of a flow follow its answer, no more than it has
\* (flow-processor.ts).
THEOREM AnsweredOnceHolds == Spec => []AnsweredOnce
<1>1. EventsInv /\ ExtraInv => AnsweredOnce
  BY EventsSafe DEF AnsweredOnce
<1> QED
  BY <1>1, EventsInvariance, ExtraInvariance, PTL

\* What the tables call processed or sent was accepted by Meta, although a
\* function may die before it writes so (hubla-processor.ts).
THEOREM DoneIsTrueHolds == Spec => []DoneIsTrue
<1>1. EventsInv /\ ExtraInv => DoneIsTrue
  BY EventsSafe DEF DoneIsTrue
<1> QED
  BY <1>1, EventsInvariance, ExtraInvariance, PTL
=============================================================================
