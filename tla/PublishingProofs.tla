------------------------- MODULE PublishingProofs ---------------------------
(***************************************************************************)
(* Proofs about the offer that is captured, the queue of its pilot and the *)
(* batch of Services, and the type of the whole.                           *)
(*                                                                         *)
(* OfferInv says which run owns the row and what the runs that lost it may *)
(* still write.  PilotInv follows a transaction from what it counts to what*)
(* it commits, and a run from the slots it read to those it fills.  BatchInv*)
(* says who has still to write the status of a batch.                      *)
(***************************************************************************)
EXTENDS EventsProofs

-----------------------------------------------------------------------------
(* The offer.                                                              *)

\* The row of the offer, and what a run does next.
OfferRow == [status : {"absent", "processing", "ignored", "failed", "ready", "waiting"},
             worker : Worker \cup {NoWorker}, live : BOOLEAN, text : SUBSET O!Provider]
\* What a run on the offer is doing.
RunState == [at : {"out", "insert", "gate", "convert", "schedule"},
             left : SUBSET O!Provider, text : SUBSET O!Provider, again : BOOLEAN]

\* A worker has one run on the row, unless it claimed the row while it ran.
SoloInv == ~overlap => \A u, v \in Run :
  /\ step[u].at \in {"gate", "convert", "schedule"} /\ step[v].at \in {"gate", "convert", "schedule"}
  /\ Owner[u] = Owner[v]
  => u = v

\* A row that is not there is not processed.
UnbornInv == offer.status = "absent" => \A u \in Run : step[u].at \in {"out", "insert"}

\* What a run has neither converted nor still to convert may pass.
TextInv == \A u \in Run : step[u].at \in {"convert", "schedule"} =>
  /\ \A p \in links : p \in step[u].left \/ p \in step[u].text \/ O!MayPass(p)
  /\ step[u].at = "schedule" => step[u].left = {}

\* The row has the text of the run that is about to schedule it.
FencedInv == ~overlap => \A u \in Run :
  step[u].at = "schedule" /\ O!Mine(u) => offer.text = step[u].text

\* What waits, or is ready, has the text of the run that left it so.
WaitsInv == offer.status \in {"ready", "waiting"} /\ ~overlap =>
  \A p \in links : p \in offer.text \/ O!MayPass(p)

\* The inductive invariant of the offer.
OfferInv == O!TypeOK /\ SoloInv /\ UnbornInv /\ TextInv /\ FencedInv /\ WaitsInv

\* What the type invariant says, in the terms of this module.
LEMMA OfferTyped ==
  ASSUME O!TypeOK
  PROVE  /\ offer \in OfferRow /\ step \in [Run -> RunState]
         /\ pilot \in [enabled : BOOLEAN, fresh : BOOLEAN]
         /\ links \subseteq O!Provider /\ policy \in {"pause", "send_original"}
         /\ overlap \in BOOLEAN /\ toggles \in 0..MaxToggles /\ setbacks \in 0..MaxSetbacks
  BY DEF O!TypeOK, OfferRow, RunState

\* What is assumed of the constants of the offer.
LEMMA OfferConstants ==
  /\ Owner \in [Run -> Worker] /\ NoWorker \notin Worker /\ MaxToggles \in Nat /\ MaxSetbacks \in Nat
  BY ServicesAssumption DEF O!OfferAssumption

\* The links of an offer, in the order in which they are converted.
LEMMA Providers == O!Provider = {"shopee", "mercado_livre", "amazon"}
<1>1. Len(O!Order) = 3 /\ O!Order[1] = "shopee" /\ O!Order[2] = "mercado_livre" /\ O!Order[3] = "amazon"
  BY DEF O!Order
<1>2. 1..Len(O!Order) = {1, 2, 3}
  BY <1>1
<1> QED BY <1>1, <1>2 DEF O!Provider

\* The link that is converted next is one that is left.
LEMMA CurrentIsLeft ==
  ASSUME O!TypeOK, NEW u \in Run, step[u].left # {}
  PROVE  O!Current(u) \in step[u].left
<1>1. step[u].left \subseteq {"shopee", "mercado_livre", "amazon"}
  BY OfferTyped, Providers DEF RunState
<1>2. /\ Len(O!Order) = 3 /\ O!Order[1] = "shopee" /\ O!Order[2] = "mercado_livre"
      /\ O!Order[3] = "amazon"
  BY DEF O!Order
<1>3. 1..Len(O!Order) = {1, 2, 3} /\ 1..(1 - 1) = {} /\ 1..(2 - 1) = {1} /\ 1..(3 - 1) = {1, 2}
  BY <1>2
<1> DEFINE First(p) == \E i \in 1..Len(O!Order) :
                         O!Order[i] = p /\ \A j \in 1..(i - 1) : O!Order[j] \notin step[u].left
<1>4. \E p \in step[u].left : First(p)
  <2>1. CASE "shopee" \in step[u].left
    <3>1. First("shopee")
      BY <1>2, <1>3
    <3> QED BY <2>1, <3>1
  <2>2. CASE "shopee" \notin step[u].left /\ "mercado_livre" \in step[u].left
    <3>1. First("mercado_livre")
      BY <1>2, <1>3, <2>2
    <3> QED BY <2>2, <3>1
  <2>3. CASE "shopee" \notin step[u].left /\ "mercado_livre" \notin step[u].left
    <3>1. "amazon" \in step[u].left
      BY <1>1, <2>3
    <3>2. First("amazon")
      BY <1>2, <1>3, <2>3
    <3> QED BY <3>1, <3>2
  <2> QED BY <2>1, <2>2, <2>3
<1>5. O!Current(u) = CHOOSE p \in step[u].left : First(p)
  BY DEF O!Current
<1> HIDE DEF First
<1> QED BY <1>4, <1>5

\* The offer was not captured.
LEMMA OfferBegins == ASSUME O!Init, links \subseteq O!Provider PROVE OfferInv
<1>1. O!TypeOK
  <2>1. overlap = FALSE
    BY Zenon DEF O!Init
  <2>2. overlap \in BOOLEAN
    BY <2>1, Zenon
  <2>3. offer \in OfferRow
    BY DEF O!Init, OfferRow
  <2>4. O!Out \in RunState
    BY DEF O!Out, RunState
  <2>5. step \in [Run -> RunState]
    BY <2>4 DEF O!Init
  <2>6. pilot \in [enabled : BOOLEAN, fresh : BOOLEAN]
    BY DEF O!Init
  <2> QED BY <2>2, <2>3, <2>5, <2>6, OfferConstants DEF O!Init, O!TypeOK, OfferRow, RunState
<1>2. /\ \A u \in Run : step[u].at = "out"
      /\ offer.status = "absent"
  BY DEF O!Init, O!Out
<1> QED BY <1>1, <1>2 DEF OfferInv, SoloInv, UnbornInv, TextInv, FencedInv, WaitsInv

\* Steps of the other services keep it.
LEMMA OfferStays == ASSUME OfferInv, UNCHANGED ovars PROVE OfferInv'
<1>1. /\ offer' = offer /\ step' = step /\ pilot' = pilot /\ links' = links /\ policy' = policy
      /\ overlap' = overlap /\ toggles' = toggles /\ setbacks' = setbacks
  BY DEF ovars
<1>2. O!TypeOK'
  BY <1>1 DEF OfferInv, O!TypeOK
<1> QED BY <1>1, <1>2 DEF OfferInv, SoloInv, UnbornInv, TextInv, FencedInv, WaitsInv, O!Mine, O!MayPass

-----------------------------------------------------------------------------
\* Run u goes on; the others do not.
RunGoes(u, a, l, t) ==
  /\ step' \in [Run -> RunState] /\ step'[u].at = a /\ step'[u].left = l /\ step'[u].text = t
  /\ \A v \in Run \ {u} : step'[v] = step[v]

\* A run ends.
LEMMA RunLeaves ==
  ASSUME O!TypeOK, NEW u \in Run, O!Leave(u)
  PROVE  RunGoes(u, "out", {}, {})
<1> DEFINE y == O!Out
<1>1. y \in RunState /\ y.at = "out" /\ y.left = {} /\ y.text = {}
  BY DEF O!Out, RunState
<1>2. step' = [step EXCEPT ![u] = y]
  BY DEF O!Leave
<1>3. step \in [Run -> RunState]
  BY OfferTyped
<1> HIDE DEF y
<1>4. step' \in [Run -> RunState] /\ step'[u] = y /\ \A v \in Run \ {u} : step'[v] = step[v]
  BY <1>1, <1>2, <1>3, Put
<1> QED BY <1>1, <1>4 DEF RunGoes

\* A run goes on with the links and the text it has.
LEMMA RunAdvances ==
  ASSUME O!TypeOK, NEW u \in Run, NEW a \in {"insert", "gate", "schedule"},
         step' = [step EXCEPT ![u].at = a]
  PROVE  RunGoes(u, a, step[u].left, step[u].text)
<1>0. step[u] \in RunState /\ step \in [Run -> RunState]
  BY OfferTyped
<1> DEFINE y == [step[u] EXCEPT !.at = a]
<1>1. y \in RunState /\ y.at = a /\ y.left = step[u].left /\ y.text = step[u].text
  BY <1>0 DEF RunState
<1>2. step' = [step EXCEPT ![u] = y]
  BY Zenon
<1> HIDE DEF y
<1>3. step' \in [Run -> RunState] /\ step'[u] = y /\ \A v \in Run \ {u} : step'[v] = step[v]
  BY <1>0, <1>1, <1>2, Put
<1>4. step'[u].at = a /\ step'[u].left = step[u].left /\ step'[u].text = step[u].text
  BY <1>1, <1>3
<1> QED BY <1>3, <1>4, Zenon DEF RunGoes

\* The row ends its processing with status s and the text it has.
Ended(s) == /\ offer' \in OfferRow /\ offer'.status = s /\ offer'.text = offer.text

\* The processing of the row ends, its text stays.
LEMMA EndsRow ==
  ASSUME O!TypeOK, NEW s \in {"ignored", "failed", "ready", "waiting"},
         offer' = [offer EXCEPT !.status = s, !.worker = NoWorker, !.live = FALSE]
  PROVE  Ended(s)
<1>1. offer \in OfferRow /\ FALSE \in BOOLEAN
  BY OfferTyped
<1> QED BY <1>1 DEF OfferRow, Ended

\* A run leaves, and may end the processing of the row.
LEMMA Leaving ==
  ASSUME OfferInv, NEW u \in Run, O!Leave(u),
         \/ offer' = offer
         \/ \E s \in {"ignored", "failed", "ready", "waiting"} :
              /\ Ended(s)
              /\ s \in {"ready", "waiting"} =>
                   offer.status = "ready" \/ (O!Mine(u) /\ step[u].at = "schedule"),
         pilot' = pilot, links' = links, policy' = policy, toggles' = toggles,
         overlap' = overlap, setbacks' \in 0..MaxSetbacks
  PROVE  OfferInv'
<1>0. /\ O!TypeOK /\ SoloInv /\ UnbornInv /\ TextInv /\ FencedInv /\ WaitsInv
      /\ offer \in OfferRow
  BY OfferTyped DEF OfferInv
<1>1. RunGoes(u, "out", {}, {})
  BY <1>0, RunLeaves
<1>2. step'[u].at = "out" /\ \A v \in Run \ {u} : step'[v] = step[v]
  BY <1>1 DEF RunGoes
<1>3. O!TypeOK'
  BY <1>0, <1>1 DEF O!TypeOK, RunGoes, RunState, Ended, OfferRow
<1>4. SoloInv'
  BY <1>0, <1>2 DEF SoloInv
<1>5. UnbornInv'
  BY <1>0, <1>2 DEF UnbornInv, Ended
<1>6. TextInv'
  BY <1>0, <1>2 DEF TextInv, O!MayPass
<1>7. FencedInv'
  BY <1>0, <1>2 DEF FencedInv, O!Mine, Ended
<1>8. WaitsInv'
  BY <1>0, <1>2 DEF WaitsInv, FencedInv, TextInv, O!MayPass, Ended
<1> QED BY <1>3, <1>4, <1>5, <1>6, <1>7, <1>8 DEF OfferInv

\* An end that is fenced by the worker's name.
LEMMA EndsFenced ==
  ASSUME O!TypeOK, NEW u \in Run, NEW s \in {"ignored", "failed"}, O!End(u, s)
  PROVE  offer' = offer \/ Ended(s)
<1>1. CASE O!Mine(u)
  <2>1. offer' = [offer EXCEPT !.status = s, !.worker = NoWorker, !.live = FALSE]
    BY <1>1 DEF O!End
  <2> QED BY <2>1, EndsRow
<1>2. CASE ~O!Mine(u)
  BY <1>2 DEF O!End
<1> QED BY <1>1, <1>2

\* The catch of process().
LEMMA CatchesFenced ==
  ASSUME O!TypeOK, NEW u \in Run, O!Caught(u)
  PROVE  offer' = offer \/ Ended("failed")
<1>1. CASE O!Mine(u) /\ offer.live
  <2>1. offer' = [offer EXCEPT !.status = "failed", !.worker = NoWorker, !.live = FALSE]
    BY <1>1 DEF O!Caught
  <2> QED BY <2>1, EndsRow
<1>2. CASE ~(O!Mine(u) /\ offer.live)
  BY <1>2 DEF O!Caught
<1> QED BY <1>1, <1>2

\* The runs that give the offer up, or schedule it.
LEMMA Leaves ==
  ASSUME OfferInv, NEW u \in Run, O!Halt(u) \/ O!Throw(u) \/ O!Schedule(u) \/ O!ResumeFails(u)
  PROVE  OfferInv'
<1>0. O!TypeOK /\ setbacks \in 0..MaxSetbacks /\ MaxSetbacks \in Nat
  BY OfferTyped, OfferConstants DEF OfferInv
<1>1. CASE O!Halt(u)
  <2>1. /\ O!End(u, "ignored") /\ O!Leave(u) /\ pilot' = pilot /\ links' = links /\ policy' = policy
        /\ toggles' = toggles /\ overlap' = overlap /\ setbacks' = setbacks
    BY <1>1 DEF O!Halt, O!Kept
  <2>2. offer' = offer \/ Ended("ignored")
    BY <1>0, <2>1, EndsFenced
  <2> QED BY <1>0, <2>1, <2>2, Leaving
<1>2. CASE O!Throw(u)
  <2>1. /\ O!Caught(u) /\ O!Leave(u) /\ pilot' = pilot /\ links' = links /\ policy' = policy
        /\ toggles' = toggles /\ overlap' = overlap /\ setbacks' = setbacks
    BY <1>2 DEF O!Throw, O!Kept, O!Caught
  <2>2. offer' = offer \/ Ended("failed")
    BY <1>0, <2>1, CatchesFenced
  <2> QED BY <1>0, <2>1, <2>2, Leaving
<1>3. CASE O!Schedule(u)
  <2>1. /\ O!Leave(u) /\ pilot' = pilot /\ links' = links /\ policy' = policy
        /\ toggles' = toggles /\ overlap' = overlap /\ setbacks' = setbacks
        /\ step[u].at = "schedule"
    BY <1>3 DEF O!Schedule, O!Kept, O!Caught
  <2>2. ASSUME O!Caught(u) PROVE OfferInv'
    <3>1. offer' = offer \/ Ended("failed")
      BY <1>0, <2>2, CatchesFenced
    <3> QED BY <1>0, <2>1, <3>1, Leaving
  <2>3. ASSUME offer' = offer PROVE OfferInv'
    BY <1>0, <2>1, <2>3, Leaving
  <2>4. ASSUME offer.status = "ready" \/ O!Mine(u), NEW s \in {"waiting", "ready", "ignored"},
               offer' = [offer EXCEPT !.status = s, !.worker = NoWorker, !.live = FALSE]
        PROVE  OfferInv'
    <3>1. Ended(s)
      BY <1>0, <2>4, EndsRow
    <3> QED BY <1>0, <2>1, <2>4, <3>1, Leaving
  <2> QED BY <1>3, <2>2, <2>3, <2>4 DEF O!Schedule, O!MaySchedule
<1>4. CASE O!ResumeFails(u)
  <2>1. /\ O!Leave(u) /\ pilot' = pilot /\ links' = links /\ policy' = policy
        /\ toggles' = toggles /\ overlap' = overlap /\ setbacks' = setbacks + 1
        /\ setbacks < MaxSetbacks /\ offer' = offer
    BY <1>4 DEF O!ResumeFails, O!Kept, O!Setback
  <2>2. setbacks' \in 0..MaxSetbacks
    BY <1>0, <2>1
  <2> QED BY <2>1, <2>2, Leaving
<1> QED BY <1>1, <1>2, <1>3, <1>4

\* A message of the group is looked at.
LEMMA CapturesOffer == ASSUME OfferInv, NEW u \in Run, O!Capture(u) PROVE OfferInv'
<1>0. /\ O!TypeOK /\ SoloInv /\ UnbornInv /\ TextInv /\ FencedInv /\ WaitsInv
  BY DEF OfferInv
<1>1. /\ offer' = offer /\ pilot' = pilot /\ links' = links /\ policy' = policy
      /\ toggles' = toggles /\ overlap' = overlap /\ setbacks' = setbacks
  BY DEF O!Capture, O!Kept
<1>2. RunGoes(u, "insert", step[u].left, step[u].text)
  BY <1>0, RunAdvances DEF O!Capture
<1>3. step'[u].at = "insert" /\ \A v \in Run \ {u} : step'[v] = step[v]
  BY <1>2 DEF RunGoes
<1>4. O!TypeOK'
  BY <1>0, <1>1, <1>2 DEF O!TypeOK, RunGoes, RunState
<1> QED BY <1>0, <1>1, <1>3, <1>4
        DEF OfferInv, SoloInv, UnbornInv, TextInv, FencedInv, WaitsInv, O!Mine, O!MayPass

\* The row is inserted, once.
LEMMA InsertsOffer == ASSUME OfferInv, NEW u \in Run, O!Insert(u) PROVE OfferInv'
<1>0. /\ O!TypeOK /\ SoloInv /\ UnbornInv /\ TextInv /\ FencedInv /\ WaitsInv
      /\ offer \in OfferRow /\ Owner[u] \in Worker
  BY OfferTyped, OfferConstants DEF OfferInv
<1>1. /\ pilot' = pilot /\ links' = links /\ policy' = policy
      /\ toggles' = toggles /\ overlap' = overlap /\ setbacks' = setbacks
  BY DEF O!Insert, O!Kept
<1>2. ASSUME O!Leave(u), offer' = offer PROVE OfferInv'
  BY <1>0, <1>1, <1>2, OfferTyped, Leaving
<1>3. ASSUME offer.status = "absent", step' = [step EXCEPT ![u].at = "gate"],
             offer' = [offer EXCEPT !.status = "processing", !.worker = Owner[u], !.live = TRUE]
      PROVE  OfferInv'
  <2>1. RunGoes(u, "gate", step[u].left, step[u].text)
    BY <1>0, <1>3, RunAdvances
  <2>2. step'[u].at = "gate" /\ \A v \in Run \ {u} : step'[v].at \in {"out", "insert"}
    BY <1>0, <1>3, <2>1 DEF RunGoes, UnbornInv
  <2>3. offer' \in OfferRow /\ offer'.status = "processing"
    BY <1>0, <1>3 DEF OfferRow
  <2>4. O!TypeOK'
    BY <1>0, <1>1, <2>1, <2>3 DEF O!TypeOK, RunGoes, RunState, OfferRow
  <2> QED BY <2>2, <2>3, <2>4
          DEF OfferInv, SoloInv, UnbornInv, TextInv, FencedInv, WaitsInv
<1> QED BY <1>2, <1>3 DEF O!Insert

\* A run in its work, whose text the row may take over.
LEMMA Working ==
  ASSUME OfferInv, NEW u \in Run, NEW a \in {"convert", "schedule"}, NEW l, NEW t, RunGoes(u, a, l, t),
         step[u].at \in {"gate", "convert"}, offer.status # "absent",
         \A p \in links : p \in l \/ p \in t \/ O!MayPass(p),
         a = "schedule" => l = {},
         offer' \in OfferRow, offer'.status = offer.status, offer'.worker = offer.worker,
         offer'.text = offer.text \/ (O!Mine(u) /\ offer'.text = t),
         a = "schedule" /\ O!Mine(u) => offer'.text = t,
         pilot' = pilot, links' = links, policy' = policy, toggles' = toggles,
         overlap' = overlap, setbacks' = setbacks
  PROVE  OfferInv'
<1>0. O!TypeOK /\ SoloInv /\ UnbornInv /\ TextInv /\ FencedInv /\ WaitsInv
  BY DEF OfferInv
<1>1. /\ step'[u].at = a /\ step'[u].left = l /\ step'[u].text = t
      /\ \A v \in Run \ {u} : step'[v] = step[v]
  BY DEF RunGoes
<1>2. O!TypeOK'
  BY <1>0 DEF O!TypeOK, RunGoes, RunState, OfferRow
<1>3. SoloInv'
  BY <1>0, <1>1 DEF SoloInv
<1>4. UnbornInv'
  BY DEF UnbornInv
<1>5. TextInv'
  BY <1>0, <1>1 DEF TextInv, O!MayPass
<1>6. FencedInv'
  <2> SUFFICES ASSUME ~overlap, NEW v \in Run, step'[v].at = "schedule", O!Mine(v)
               PROVE  offer'.text = step'[v].text
    BY DEF FencedInv, O!Mine
  <2>1. CASE v = u
    BY <1>1, <2>1
  <2>2. CASE v # u
    <3>1. step[v].at = "schedule" /\ step'[v] = step[v]
      BY <1>1, <2>2
    <3>2. ~O!Mine(u)
      BY <1>0, <2>2, <3>1 DEF SoloInv, O!Mine
    <3> QED BY <1>0, <3>1, <3>2 DEF FencedInv
  <2> QED BY <2>1, <2>2
<1>7. WaitsInv'
  BY <1>0 DEF WaitsInv, O!MayPass, O!Mine
<1> QED BY <1>2, <1>3, <1>4, <1>5, <1>6, <1>7 DEF OfferInv

\* A run looks at the offer and starts to convert it, or gives it up.
LEMMA GatesOffer == ASSUME OfferInv, NEW u \in Run, O!Gate(u) PROVE OfferInv'
<1>0. /\ O!TypeOK /\ UnbornInv /\ step[u].at = "gate" /\ offer \in OfferRow /\ step[u] \in RunState
      /\ step \in [Run -> RunState] /\ links \subseteq O!Provider /\ setbacks \in 0..MaxSetbacks
  BY OfferTyped DEF OfferInv, O!Gate
<1>1. /\ pilot' = pilot /\ links' = links /\ policy' = policy
      /\ toggles' = toggles /\ overlap' = overlap /\ setbacks' = setbacks
  BY DEF O!Gate, O!Kept
<1>2. ASSUME NEW s \in {"ignored", "failed"}, O!End(u, s), O!Leave(u) PROVE OfferInv'
  <2>1. offer' = offer \/ Ended(s)
    BY <1>0, <1>2, EndsFenced
  <2> QED BY <1>0, <1>1, <1>2, <2>1, Leaving
<1>3. ASSUME step' = [step EXCEPT ![u].at = "convert", ![u].left = links, ![u].text = {}],
             offer' = offer
      PROVE  OfferInv'
  <2> DEFINE y == [step[u] EXCEPT !.at = "convert", !.left = links, !.text = {}]
  <2>1. y \in RunState /\ y.at = "convert" /\ y.left = links /\ y.text = {}
    BY <1>0 DEF RunState
  <2>2. step' = [step EXCEPT ![u] = y]
    BY <1>3, Zenon
  <2> HIDE DEF y
  <2>3. RunGoes(u, "convert", links, {})
    BY <1>0, <2>1, <2>2, Put DEF RunGoes
  <2>4. offer.status # "absent"
    BY <1>0 DEF UnbornInv
  <2> QED BY <1>0, <1>1, <1>3, <2>3, <2>4, Working
<1> QED BY <1>2, <1>3 DEF O!Gate

\* The text of the row, if it is the worker's.
LEMMA WritesText ==
  ASSUME O!TypeOK, NEW u \in Run, NEW t \in SUBSET O!Provider, O!Write(u, t)
  PROVE  /\ offer' \in OfferRow /\ offer'.status = offer.status /\ offer'.worker = offer.worker
         /\ offer'.text = offer.text \/ (O!Mine(u) /\ offer'.text = t)
         /\ O!Mine(u) => offer'.text = t
<1>0. offer \in OfferRow
  BY OfferTyped
<1>1. CASE O!Mine(u)
  <2>1. offer' = [offer EXCEPT !.text = t]
    BY <1>1 DEF O!Write
  <2> QED BY <1>0, <1>1, <2>1 DEF OfferRow
<1>2. CASE ~O!Mine(u)
  BY <1>0, <1>2 DEF O!Write
<1> QED BY <1>1, <1>2

\* A link is converted, or its conversion fails and it may pass; then the run
\* writes its text and goes on to schedule the offer.
LEMMA Converts ==
  ASSUME OfferInv, NEW u \in Run, O!Convert(u) \/ O!ConversionFails(u) \/ O!Persist(u)
  PROVE  OfferInv'
<1>0. /\ O!TypeOK /\ UnbornInv /\ TextInv /\ step[u].at = "convert" /\ offer \in OfferRow
      /\ step[u] \in RunState /\ step \in [Run -> RunState]
      /\ links \subseteq O!Provider /\ setbacks \in 0..MaxSetbacks
  BY OfferTyped DEF OfferInv, O!Convert, O!ConversionFails, O!Persist
<1>1. /\ pilot' = pilot /\ links' = links /\ policy' = policy
      /\ toggles' = toggles /\ overlap' = overlap /\ setbacks' = setbacks
  BY DEF O!Convert, O!ConversionFails, O!Persist, O!Kept
<1>2. offer.status # "absent"
  BY <1>0 DEF UnbornInv
<1>3. \A p \in links : p \in step[u].left \/ p \in step[u].text \/ O!MayPass(p)
  BY <1>0 DEF TextInv
<1>4. step[u].left \in SUBSET O!Provider /\ step[u].text \in SUBSET O!Provider
  BY <1>0 DEF RunState
<1> DEFINE c == O!Current(u)
           l == step[u].left \ {c}
           t == step[u].text \cup {c}
<1>5. step[u].left # {} => c \in step[u].left /\ l \in SUBSET O!Provider /\ t \in SUBSET O!Provider
  BY <1>0, <1>4, CurrentIsLeft
<1>6. CASE O!Convert(u)
  <2>0. step[u].left # {} /\ O!Write(u, t)
    BY <1>6 DEF O!Convert
  <2> DEFINE y == [step[u] EXCEPT !.left = l, !.text = t]
  <2>1. y \in RunState /\ y.at = "convert" /\ y.left = l /\ y.text = t
    <3> HIDE DEF l, t
    <3> QED BY <1>0, <1>5, <2>0 DEF RunState
  <2>2. step' = [step EXCEPT ![u] = y]
    BY <1>6, Zenon DEF O!Convert
  <2> HIDE DEF y
  <2>3. RunGoes(u, "convert", l, t)
    <3> HIDE DEF l, t
    <3> QED BY <1>0, <2>1, <2>2, Put DEF RunGoes
  <2>4. /\ offer' \in OfferRow /\ offer'.status = offer.status /\ offer'.worker = offer.worker
        /\ offer'.text = offer.text \/ (O!Mine(u) /\ offer'.text = t)
    <3> HIDE DEF l, t
    <3> QED BY <1>0, <1>5, <2>0, WritesText
  <2>5. \A p \in links : p \in l \/ p \in t \/ O!MayPass(p)
    BY <1>3
  <2> HIDE DEF l, t
  <2> QED BY <1>0, <1>1, <1>2, <2>3, <2>4, <2>5, Working
<1>7. CASE O!ConversionFails(u)
  <2>0. step[u].left # {}
    BY <1>7 DEF O!ConversionFails
  <2>1. ASSUME O!MayPass(c), offer' = offer, step' = [step EXCEPT ![u].left = @ \ {c}]
        PROVE  OfferInv'
    <3> DEFINE y == [step[u] EXCEPT !.left = l]
    <3>1. y \in RunState /\ y.at = "convert" /\ y.left = l /\ y.text = step[u].text
      <4> HIDE DEF l
      <4> QED BY <1>0, <1>5, <2>0 DEF RunState
    <3>2. step' = [step EXCEPT ![u] = y]
      BY <2>1, Zenon
    <3> HIDE DEF y
    <3>3. RunGoes(u, "convert", l, step[u].text)
      <4> HIDE DEF l
      <4>1. step' \in [Run -> RunState] /\ step'[u] = y /\ \A v \in Run \ {u} : step'[v] = step[v]
        BY <1>0, <3>1, <3>2, Put
      <4> QED BY <3>1, <4>1 DEF RunGoes
    <3>4. \A p \in links : p \in l \/ p \in step[u].text \/ O!MayPass(p)
      <4>1. ASSUME NEW p \in links, p = c PROVE O!MayPass(p)
        BY <2>1, <4>1
      <4>2. ASSUME NEW p \in links, p # c PROVE p \in l \/ p \in step[u].text \/ O!MayPass(p)
        BY <1>3, <4>2
      <4> QED BY <4>1, <4>2
    <3> HIDE DEF l
    <3> QED BY <1>0, <1>1, <1>2, <2>1, <3>3, <3>4, Working
  <2>2. ASSUME O!End(u, "failed"), O!Leave(u) PROVE OfferInv'
    <3>1. offer' = offer \/ Ended("failed")
      BY <1>0, <2>2, EndsFenced
    <3> QED BY <1>0, <1>1, <2>2, <3>1, Leaving
  <2> QED BY <1>7, <2>1, <2>2 DEF O!ConversionFails
<1>8. CASE O!Persist(u)
  <2>1. step[u].left = {} /\ O!Write(u, step[u].text) /\ step' = [step EXCEPT ![u].at = "schedule"]
    BY <1>8 DEF O!Persist
  <2>2. RunGoes(u, "schedule", step[u].left, step[u].text)
    BY <1>0, <2>1, RunAdvances
  <2>3. /\ offer' \in OfferRow /\ offer'.status = offer.status /\ offer'.worker = offer.worker
        /\ offer'.text = offer.text \/ (O!Mine(u) /\ offer'.text = step[u].text)
        /\ O!Mine(u) => offer'.text = step[u].text
    BY <1>0, <1>4, <2>1, WritesText
  <2> QED BY <1>0, <1>1, <1>2, <1>3, <2>1, <2>2, <2>3, Working
<1> QED BY <1>6, <1>7, <1>8

\* The deadline of the row passes.
LEMMA ExpiresOffer == ASSUME OfferInv, O!Expire PROVE OfferInv'
<1>0. /\ O!TypeOK /\ SoloInv /\ UnbornInv /\ TextInv /\ FencedInv /\ WaitsInv /\ offer \in OfferRow
  BY OfferTyped DEF OfferInv
<1>1. /\ step' = step /\ pilot' = pilot /\ links' = links /\ policy' = policy
      /\ toggles' = toggles /\ overlap' = overlap
      /\ offer.status = "processing" /\ offer' = [offer EXCEPT !.live = FALSE]
  BY DEF O!Expire, O!Kept
<1>2. setbacks' \in 0..MaxSetbacks
  <2>1. setbacks' = setbacks \/ (setbacks < MaxSetbacks /\ setbacks' = setbacks + 1)
    BY DEF O!Expire, O!Setback
  <2> QED BY <1>0, <2>1, OfferTyped, OfferConstants
<1>3. offer' \in OfferRow /\ offer'.status = offer.status /\ offer'.worker = offer.worker
      /\ offer'.text = offer.text
  <2>1. FALSE \in BOOLEAN
    OBVIOUS
  <2> QED BY <1>0, <1>1, <2>1 DEF OfferRow
<1>4. O!TypeOK'
  BY <1>0, <1>1, <1>2, <1>3 DEF O!TypeOK, OfferRow
<1> QED BY <1>0, <1>1, <1>3, <1>4
        DEF OfferInv, SoloInv, UnbornInv, TextInv, FencedInv, WaitsInv, O!Mine, O!MayPass

\* A worker claims a row that was interrupted, perhaps one it still processes.
LEMMA RecoversOffer == ASSUME OfferInv, NEW u \in Run, O!Recover(u) PROVE OfferInv'
<1>0. /\ O!TypeOK /\ SoloInv /\ UnbornInv /\ TextInv /\ FencedInv /\ WaitsInv
      /\ offer \in OfferRow /\ step \in [Run -> RunState] /\ Owner[u] \in Worker
  BY OfferTyped, OfferConstants DEF OfferInv
<1>1. /\ pilot' = pilot /\ links' = links /\ policy' = policy /\ toggles' = toggles
      /\ setbacks' = setbacks /\ step[u].at = "out" /\ offer.status = "processing"
      /\ offer' = [offer EXCEPT !.worker = Owner[u], !.live = TRUE]
  BY DEF O!Recover, O!Kept, O!Interrupted
<1>2. overlap' = (overlap \/ O!Running(Owner[u]))
  BY DEF O!Recover
<1>3. overlap' \in BOOLEAN
  BY <1>2, Zenon
<1>4. RunGoes(u, "gate", {}, {})
  <2> DEFINE y == [O!Out EXCEPT !.at = "gate", !.again = TRUE]
  <2>1. O!Out \in RunState /\ O!Out.left = {} /\ O!Out.text = {}
    BY DEF O!Out, RunState
  <2>2. y \in RunState /\ y.at = "gate" /\ y.left = {} /\ y.text = {}
    BY <2>1 DEF RunState
  <2>3. step' = [step EXCEPT ![u] = y]
    BY Zenon DEF O!Recover
  <2> HIDE DEF y
  <2>4. step' \in [Run -> RunState] /\ step'[u] = y /\ \A v \in Run \ {u} : step'[v] = step[v]
    BY <1>0, <2>2, <2>3, Put
  <2> QED BY <2>2, <2>4 DEF RunGoes
<1>5. step'[u].at = "gate" /\ \A v \in Run \ {u} : step'[v] = step[v]
  BY <1>4 DEF RunGoes
<1>6. offer' \in OfferRow /\ offer'.status = "processing" /\ offer'.text = offer.text
      /\ offer'.worker = Owner[u]
  BY <1>0, <1>1 DEF OfferRow
<1>7. O!TypeOK'
  BY <1>0, <1>1, <1>3, <1>4, <1>6 DEF O!TypeOK, RunGoes, RunState, OfferRow
<1>8. ~overlap' => ~overlap /\ \A v \in Run : Owner[v] = Owner[u] => step[v].at = "out"
  BY <1>2 DEF O!Running
<1>9. SoloInv'
  <2> SUFFICES ASSUME ~overlap', NEW v \in Run, NEW w \in Run, Owner[v] = Owner[w],
                      step'[v].at \in {"gate", "convert", "schedule"},
                      step'[w].at \in {"gate", "convert", "schedule"}
               PROVE  v = w
    BY DEF SoloInv
  <2>1. CASE v # u /\ w # u
    BY <1>0, <1>5, <1>8, <2>1 DEF SoloInv
  <2>2. CASE v = u /\ w # u
    BY <1>5, <1>8, <2>2
  <2>3. CASE v # u /\ w = u
    BY <1>5, <1>8, <2>3
  <2> QED BY <2>1, <2>2, <2>3
<1>10. UnbornInv'
  BY <1>6 DEF UnbornInv
<1>11. TextInv'
  BY <1>0, <1>1, <1>5 DEF TextInv, O!MayPass
<1>12. FencedInv'
  BY <1>5, <1>6, <1>8 DEF FencedInv, O!Mine
<1>13. WaitsInv'
  BY <1>6 DEF WaitsInv
<1> QED BY <1>7, <1>9, <1>10, <1>11, <1>12, <1>13 DEF OfferInv

\* A worker dies with its runs; the row keeps its name.
LEMMA DiesOffer == ASSUME OfferInv, NEW w \in Worker, O!Die(w) PROVE OfferInv'
<1>0. /\ O!TypeOK /\ SoloInv /\ UnbornInv /\ TextInv /\ FencedInv /\ WaitsInv
      /\ step \in [Run -> RunState]
  BY OfferTyped DEF OfferInv
<1>1. /\ offer' = offer /\ pilot' = pilot /\ links' = links /\ policy' = policy
      /\ toggles' = toggles /\ overlap' = overlap
      /\ setbacks < MaxSetbacks /\ setbacks' = setbacks + 1
  BY DEF O!Die, O!Kept, O!Setback
<1>2. O!Out \in RunState /\ O!Out.at = "out"
  BY DEF O!Out, RunState
<1>3. step' = [u \in Run |-> IF Owner[u] = w THEN O!Out ELSE step[u]]
  BY DEF O!Die
<1>4. step' \in [Run -> RunState] /\ \A u \in Run : step'[u] = step[u] \/ step'[u].at = "out"
  BY <1>0, <1>2, <1>3
<1>5. O!TypeOK'
  <2>1. setbacks' \in 0..MaxSetbacks
    BY <1>0, <1>1, OfferTyped, OfferConstants
  <2> QED BY <1>0, <1>1, <1>4, <2>1 DEF O!TypeOK, RunState
<1>6. SoloInv' /\ UnbornInv'
  BY <1>0, <1>1, <1>4 DEF SoloInv, UnbornInv
<1>7. TextInv' /\ FencedInv' /\ WaitsInv'
  BY <1>0, <1>1, <1>4 DEF TextInv, FencedInv, WaitsInv, O!Mine, O!MayPass
<1> QED BY <1>5, <1>6, <1>7 DEF OfferInv

\* The pilot is switched, which ignores an offer that is not over.
LEMMA TogglesPilot == ASSUME OfferInv, O!Toggle PROVE OfferInv'
<1>0. /\ O!TypeOK /\ SoloInv /\ UnbornInv /\ TextInv /\ FencedInv /\ WaitsInv
      /\ offer \in OfferRow /\ pilot \in [enabled : BOOLEAN, fresh : BOOLEAN]
  BY OfferTyped DEF OfferInv
<1>1. /\ step' = step /\ links' = links /\ policy' = policy /\ overlap' = overlap
      /\ setbacks' = setbacks /\ toggles < MaxToggles /\ toggles' = toggles + 1
      /\ pilot' = [enabled |-> ~pilot.enabled, fresh |-> FALSE]
  BY DEF O!Toggle
<1>2. offer' = offer \/ (offer.status # "absent" /\ Ended("ignored"))
  <2>1. CASE pilot.enabled /\ offer.status \notin {"absent", "ignored"}
    <3>1. offer' = [offer EXCEPT !.status = "ignored", !.worker = NoWorker, !.live = FALSE]
      BY <2>1 DEF O!Toggle
    <3> QED BY <1>0, <2>1, <3>1, EndsRow
  <2>2. CASE ~(pilot.enabled /\ offer.status \notin {"absent", "ignored"})
    BY <2>2 DEF O!Toggle
  <2> QED BY <2>1, <2>2
<1>3. pilot' \in [enabled : BOOLEAN, fresh : BOOLEAN]
  <2>1. (~pilot.enabled) \in BOOLEAN /\ FALSE \in BOOLEAN
    BY Zenon
  <2> QED BY <1>1, <2>1, Zenon
<1>4. toggles' \in 0..MaxToggles
  BY <1>0, <1>1, OfferTyped, OfferConstants
<1>5. O!TypeOK'
  BY <1>0, <1>1, <1>2, <1>3, <1>4 DEF O!TypeOK, Ended, OfferRow
<1>6. SoloInv' /\ UnbornInv'
  BY <1>0, <1>1, <1>2 DEF SoloInv, UnbornInv, Ended
<1>7. TextInv'
  BY <1>0, <1>1 DEF TextInv, O!MayPass
<1>8. FencedInv' /\ WaitsInv'
  BY <1>0, <1>1, <1>2 DEF FencedInv, WaitsInv, O!Mine, O!MayPass, Ended
<1> QED BY <1>5, <1>6, <1>7, <1>8 DEF OfferInv

\* Every step of the offer keeps its invariant.
LEMMA OfferSteps == ASSUME OfferInv, O!Next PROVE OfferInv'
<1>1. ASSUME NEW u \in Run, O!Capture(u) \/ O!Progress(u) \/ O!ResumeFails(u) PROVE OfferInv'
  BY <1>1, CapturesOffer, InsertsOffer, GatesOffer, Leaves, Converts DEF O!Progress
<1>2. CASE O!AnyRecover
  BY <1>2, RecoversOffer DEF O!AnyRecover
<1>3. CASE O!Expire
  BY <1>3, ExpiresOffer
<1>4. CASE O!Toggle
  BY <1>4, TogglesPilot
<1>5. ASSUME NEW w \in Worker, O!Die(w) PROVE OfferInv'
  BY <1>5, DiesOffer
<1> QED BY <1>1, <1>2, <1>3, <1>4, <1>5 DEF O!Next

\* The invariant of the offer says what its property does.
LEMMA OfferSafe == OfferInv => O!ConvertedOrAllowed
  BY DEF OfferInv, WaitsInv, O!ConvertedOrAllowed, O!MayPass

-----------------------------------------------------------------------------
(* The queue of the pilot.                                                 *)

\* A set of naturals that is not empty has a least element.
LEMMA LeastOf ==
  ASSUME NEW W \in SUBSET Nat, W # {}
  PROVE  \E m \in W : \A n \in W : m <= n
<1>1. \E m \in W : \A n \in W : <<n, m>> \notin OpToRel(<, Nat)
  BY WFMin, NatLessThanWellFounded
<1>2. PICK m \in W : \A n \in W : <<n, m>> \notin OpToRel(<, Nat)
  BY <1>1
<1>3. \A n \in W : m <= n
  <2> SUFFICES ASSUME NEW n \in W PROVE m <= n
    OBVIOUS
  <2>1. n \in Nat /\ m \in Nat
    OBVIOUS
  <2>2. ~ (n < m)
    BY <1>2, <2>1 DEF OpToRel
  <2> QED BY <2>1, <2>2
<1> QED BY <1>3

\* A set of naturals up to n that is not empty has a greatest element.
LEMMA GreatestOf ==
  ASSUME NEW n \in Nat, NEW W \in SUBSET (0..n), W # {}
  PROVE  \E m \in W : \A k \in W : k <= m
<1> DEFINE V == {n - k : k \in W}
<1>1. V \in SUBSET Nat /\ V # {}
  <2>1. \A k \in W : k \in 0..n
    OBVIOUS
  <2>2. \A k \in W : n - k \in Nat
    BY <2>1
  <2>3. PICK k \in W : TRUE
    OBVIOUS
  <2>4. n - k \in V
    BY <2>3
  <2> QED BY <2>2, <2>4
<1>2. PICK v \in V : \A u \in V : v <= u
  BY <1>1, LeastOf
<1>3. PICK m \in W : v = n - m
  OBVIOUS
<1>4. \A k \in W : k <= m
  <2> SUFFICES ASSUME NEW k \in W PROVE k <= m
    OBVIOUS
  <2>1. n - k \in V /\ k \in 0..n /\ m \in 0..n
    OBVIOUS
  <2>2. n - m <= n - k
    BY <1>2, <1>3, <2>1
  <2> QED BY <2>1, <2>2
<1> QED BY <1>4

\* Of the numbers W, the n greatest are taken: no more than n, and n unless W has fewer.
LEMMA TakesGreatest ==
  ASSUME NEW b \in Nat, NEW W \in SUBSET (1..b), NEW n \in Nat
  PROVE  LET Q == {o \in W : Cardinality({p \in W : p > o}) < n}
         IN  Cardinality(Q) <= n /\ (Q = W \/ Cardinality(Q) >= n)
<1> DEFINE Above(o) == {p \in W : p > o}
           Q == {o \in W : Cardinality(Above(o)) < n}
<1>1. /\ IsFiniteSet(W) /\ IsFiniteSet(Q)
      /\ \A o \in W : IsFiniteSet(Above(o)) /\ Cardinality(Above(o)) \in Nat
      /\ Cardinality(Q) \in Nat
  <2>1. IsFiniteSet(1..b)
    BY FS_Interval
  <2>2. \A V \in SUBSET (1..b) : IsFiniteSet(V) /\ Cardinality(V) \in Nat
    BY <2>1, FS_Subset, FS_CardinalityType
  <2>3. Q \in SUBSET (1..b) /\ \A o \in W : Above(o) \in SUBSET (1..b)
    OBVIOUS
  <2> HIDE DEF Q, Above
  <2> QED BY <2>2, <2>3
<1>2. W \subseteq 0..b /\ W \subseteq Nat
  OBVIOUS
<1>3. Cardinality(Q) <= n
  <2>1. CASE Q = {}
    <3>1. Cardinality(Q) = 0
      BY <2>1, FS_EmptySet, Zenon
    <3> HIDE DEF Q
    <3> QED BY <3>1
  <2>2. CASE Q # {}
    <3>1. Q \in SUBSET Nat
      BY <1>2
    <3>2. PICK m \in Q : \A q \in Q : m <= q
      BY <2>2, <3>1, LeastOf
    <3>3. Cardinality(Above(m)) < n /\ m \in W
      BY <3>2
    <3>4. Q \ {m} \subseteq Above(m)
      <4> SUFFICES ASSUME NEW q \in Q \ {m} PROVE q \in Above(m)
        OBVIOUS
      <4>1. q \in W /\ m <= q /\ q # m /\ q \in Nat /\ m \in Nat
        BY <1>2, <3>2
      <4> QED BY <4>1
    <3> HIDE DEF Q, Above
    <3>5. Cardinality(Q \ {m}) <= Cardinality(Above(m)) /\ Cardinality(Above(m)) \in Nat
      BY <1>1, <3>3, <3>4, FS_Subset
    <3>6. Cardinality(Q \ {m}) = Cardinality(Q) - 1
      BY <1>1, <3>2, FS_RemoveElement
    <3> QED BY <1>1, <3>3, <3>5, <3>6
  <2> QED BY <2>1, <2>2
<1>4. Q = W \/ Cardinality(Q) >= n
  <2> SUFFICES ASSUME Q # W PROVE Cardinality(Q) >= n
    OBVIOUS
  <2>1. W \ Q # {} /\ W \ Q \in SUBSET (0..b)
    BY <1>2
  <2>2. PICK k \in W \ Q : \A j \in W \ Q : j <= k
    BY <2>1, GreatestOf
  <2>3. ~ (Cardinality(Above(k)) < n) /\ k \in W
    BY <2>2
  <2>4. Above(k) \subseteq Q
    <3> SUFFICES ASSUME NEW p \in Above(k), p \notin Q PROVE FALSE
      OBVIOUS
    <3>1. p \in W /\ p > k /\ p \in Nat /\ k \in Nat
      BY <1>2, <2>2
    <3>2. p <= k
      BY <2>2, <3>1
    <3> QED BY <3>1, <3>2
  <2> HIDE DEF Q, Above
  <2>5. Cardinality(Above(k)) <= Cardinality(Q) /\ Cardinality(Above(k)) \in Nat
    BY <1>1, <2>3, <2>4, FS_Subset
  <2> QED BY <1>1, <2>3, <2>5
<1> QED BY <1>3, <1>4

\* Nothing of an offer that waits, or was not captured, is being sent.
QuietInv == \A o \in P!Offer :
  pos[o] \in {"absent", "waiting"} => P!Open(o) = {} /\ \A g \in Group : disp[o][g] = "none"

\* One open transaction changes a dispatch, and one holds the row of an offer;
\* one that ends the offer has drawn the request for the slot it gives back.
OpenInv ==
  /\ \A s, t \in open : s.o = t.o =>
       /\ s.g = t.g => s = t
       /\ s.at = "holds" /\ t.at = "holds" => s = t
  /\ \A t \in open :
       /\ t.request <= drawn /\ disp[t.o][t.g] # "none"
       /\ t.at = "holds" /\ t.status = "done" /\ t.o \in P!Held => t.request > 0

\* Unless two of its dispatches changed at once, an offer has one open
\* transaction, whose status is what the offer will be, and its row follows its
\* dispatches.
ReleaseInv == \A o \in P!Offer \ skewed :
  /\ \A s, t \in P!Open(o) : s = t
  /\ \A t \in P!Open(o) :
       /\ t.status = P!Aggregate([disp[o] EXCEPT ![t.g] = t.to])
       /\ t.at = "same" => t.status = pos[o]
  /\ o \in P!Held => \E g \in Group : disp[o][g] # "over"

\* An offer that was not brought back ends once: then its dispatches are over.
RetryInv ==
  /\ \A t \in open : disp[t.o][t.g] = "over" => t.o \in retried
  /\ \A o \in P!Offer \ retried : pos[o] = "done" => \A g \in Group : disp[o][g] \in {"over", "none"}
  /\ \A t \in open : t.status = "done" /\ t.o \notin retried =>
       t.to = "over" /\ \A g \in Group \ {t.g} : disp[t.o][g] = "over"

\* A run promotes offers that still wait, into slots that stay free for them.
RunInv ==
  /\ maint.on =>
       /\ maint.up \subseteq P!Waiting /\ maint.out \subseteq P!Waiting /\ maint.last \in asked
       /\ Cardinality(maint.up \cup (P!Held \ retried)) <= Slots
  /\ Cardinality(P!Held \ retried) <= Slots

\* A free slot has its request, read by no run yet; or the run that is on will
\* fill the slots or leave no offer waiting but those it passed over.
AskInv ==
  /\ P!Waiting \ passed # {} /\ Cardinality(P!Held) < Slots /\ ~maint.on /\ ~lost => asked # {}
  /\ maint.on /\ ~lost =>
       \/ P!Waiting \ passed \subseteq maint.up \cup maint.out
       \/ Cardinality(P!Held \cup maint.up) >= Slots
       \/ \E i \in asked : i > maint.last

\* The inductive invariant of the pilot.
PilotInv == P!TypeOK /\ QuietInv /\ OpenInv /\ ReleaseInv /\ RetryInv /\ RunInv /\ AskInv

\* The pilot counts as this module does.
LEMMA SameCardinality == ASSUME NEW W PROVE P!Cardinality(W) = Cardinality(W)
  BY DEF P!Cardinality, Cardinality

\* What a transaction in the trigger knows.
Transaction == [at : {"counted", "holds", "same"}, o : P!Offer, g : Group,
                to : {"pending", "sending", "over"},
                status : {"scheduled", "sending", "done"}, request : 0..MaxRequests]
\* What becomes of an offer.
Position == {"absent", "waiting", "scheduled", "sending", "done"}
\* What becomes of its dispatches.
Dispatches == [Group -> {"none", "pending", "sending", "over"}]

\* What the type invariant says, in the terms of this module.
LEMMA PilotTyped ==
  ASSUME P!TypeOK
  PROVE  /\ pos \in [P!Offer -> Position] /\ disp \in [P!Offer -> Dispatches]
         /\ open \subseteq Transaction
         /\ drawn \in 0..MaxRequests /\ asked \subseteq 1..drawn
         /\ maint \in [on : BOOLEAN, last : 0..MaxRequests, up : SUBSET P!Offer, out : SUBSET P!Offer]
         /\ retried \subseteq P!Offer /\ skewed \subseteq P!Offer /\ lost \in BOOLEAN
         /\ passed \subseteq P!Offer
  BY DEF P!TypeOK, Transaction, Position, Dispatches

\* What is assumed of the constants of the pilot.
LEMMA PilotConstants ==
  /\ MaxOffers \in Nat /\ P!Offer = 1..MaxOffers /\ Slots \in Nat \ {0} /\ Group # {}
  /\ MaxRequests \in Nat
  BY ServicesAssumption DEF P!PilotAssumption, P!Offer

\* Sets of offers are finite, and no larger than the sets they are part of.
LEMMA OffersCounted ==
  ASSUME NEW W \in SUBSET P!Offer, NEW V \in SUBSET W
  PROVE  /\ IsFiniteSet(W) /\ IsFiniteSet(V) /\ Cardinality(W) \in Nat /\ Cardinality(V) \in Nat
         /\ Cardinality(V) <= Cardinality(W)
<1>1. IsFiniteSet(P!Offer)
  BY PilotConstants, FS_Interval
<1>2. IsFiniteSet(W)
  BY <1>1, FS_Subset
<1> QED BY <1>2, FS_Subset, FS_CardinalityType

\* An offer ends when its last dispatch is over.
LEMMA AggregateEnds ==
  ASSUME NEW D
  PROVE  /\ P!Aggregate(D) = "done" <=> \A g \in Group : D[g] = "over"
         /\ P!Aggregate(D) \in {"done", "scheduled", "sending"}
  BY DEF P!Aggregate

\* The offers that wait and those that hold a slot are offers.
LEMMA HeldOffers ==
  P!Held \in SUBSET P!Offer /\ P!Waiting \in SUBSET P!Offer
  BY DEF P!Held, P!Waiting

\* Nothing was captured.
LEMMA PilotBegins == ASSUME P!Init PROVE PilotInv
<1>1. /\ \A o \in P!Offer : pos[o] = "absent" /\ \A g \in Group : disp[o][g] = "none"
      /\ open = {} /\ maint.on = FALSE
  BY DEF P!Init, P!NoRun
<1>2. P!TypeOK
  <2>1. P!NoRun \in [on : BOOLEAN, last : 0..MaxRequests, up : SUBSET P!Offer, out : SUBSET P!Offer]
    BY PilotConstants DEF P!NoRun
  <2>2. lost \in BOOLEAN
    BY Zenon DEF P!Init
  <2>3. drawn \in 0..MaxRequests
    BY PilotConstants DEF P!Init
  <2> QED BY <2>1, <2>2, <2>3 DEF P!Init, P!TypeOK
<1>3. P!Held = {} /\ P!Waiting = {}
  BY <1>1 DEF P!Held, P!Waiting
<1>4. Cardinality(P!Held \ retried) <= Slots
  <2>1. P!Held \ retried = {}
    BY <1>3
  <2>2. Cardinality(P!Held \ retried) = 0
    BY <2>1, FS_EmptySet, Zenon
  <2> QED BY <2>2, PilotConstants
<1>5. QuietInv /\ OpenInv /\ ReleaseInv /\ RetryInv
  BY <1>1, <1>3 DEF QuietInv, OpenInv, ReleaseInv, RetryInv, P!Open
<1>6. RunInv /\ AskInv
  BY <1>1, <1>3, <1>4 DEF RunInv, AskInv
<1> QED BY <1>2, <1>5, <1>6 DEF PilotInv

\* Steps of the other services keep it.
LEMMA PilotStays == ASSUME PilotInv, UNCHANGED pvars PROVE PilotInv'
<1>1. /\ pos' = pos /\ disp' = disp /\ open' = open /\ asked' = asked /\ drawn' = drawn
      /\ maint' = maint /\ retried' = retried /\ skewed' = skewed /\ lost' = lost /\ passed' = passed
  BY DEF pvars
<1>2. P!TypeOK'
  BY <1>1 DEF PilotInv, P!TypeOK
<1> QED BY <1>1, <1>2 DEF PilotInv, QuietInv, OpenInv, ReleaseInv, RetryInv, RunInv, AskInv,
             P!Open, P!Held, P!Waiting

-----------------------------------------------------------------------------
\* While no run begins or ends, what it relies on is kept by a step that takes
\* no slot, and asks for maintenance when it gives one back.
LEMMA SlotsKept ==
  ASSUME PilotInv, P!TypeOK', maint' = maint, asked \subseteq asked', lost => lost', passed' = passed,
         (P!Held \ retried)' \subseteq P!Held \ retried,
         maint.on => P!Waiting' = P!Waiting,
         ~maint.on => P!Waiting' = P!Waiting \/ asked' # {},
         \/ P!Held \subseteq P!Held'
         \/ asked' # {} /\ (maint.on /\ ~lost' => \E i \in asked' : i > maint.last)
  PROVE  RunInv' /\ AskInv'
<1>1. /\ P!Held \in SUBSET P!Offer /\ P!Held' \in SUBSET P!Offer
      /\ maint.up \in SUBSET P!Offer
  BY HeldOffers, PilotTyped DEF PilotInv, P!Held
<1>2. Slots \in Nat
  BY PilotConstants
<1>3. Cardinality((P!Held \ retried)') <= Slots
  <2>1. Cardinality(P!Held \ retried) <= Slots
    BY DEF PilotInv, RunInv
  <2>2. /\ Cardinality((P!Held \ retried)') <= Cardinality(P!Held \ retried)
        /\ Cardinality((P!Held \ retried)') \in Nat /\ Cardinality(P!Held \ retried) \in Nat
    BY <1>1, OffersCounted
  <2> QED BY <1>2, <2>1, <2>2
<1>4. maint.on => Cardinality(maint.up \cup (P!Held \ retried)') <= Slots
  <2> SUFFICES ASSUME maint.on PROVE Cardinality(maint.up \cup (P!Held \ retried)') <= Slots
    OBVIOUS
  <2>1. Cardinality(maint.up \cup (P!Held \ retried)) <= Slots
    BY DEF PilotInv, RunInv
  <2>2. /\ maint.up \cup (P!Held \ retried) \in SUBSET P!Offer
        /\ maint.up \cup (P!Held \ retried)' \in SUBSET (maint.up \cup (P!Held \ retried))
    BY <1>1
  <2>3. /\ Cardinality(maint.up \cup (P!Held \ retried)') <= Cardinality(maint.up \cup (P!Held \ retried))
        /\ Cardinality(maint.up \cup (P!Held \ retried)') \in Nat
        /\ Cardinality(maint.up \cup (P!Held \ retried)) \in Nat
    BY <2>2, OffersCounted
  <2> QED BY <1>2, <2>1, <2>3
<1>5. RunInv'
  <2>1. maint.on => /\ maint.up \subseteq P!Waiting' /\ maint.out \subseteq P!Waiting'
                    /\ maint.last \in asked'
    BY DEF PilotInv, RunInv
  <2> QED BY <1>3, <1>4, <2>1 DEF RunInv
<1>6. (P!Waiting \ passed # {} /\ Cardinality(P!Held) < Slots /\ ~maint.on /\ ~lost => asked # {})'
  <2> SUFFICES ASSUME P!Waiting' \ passed' # {}, Cardinality(P!Held') < Slots, ~maint.on, ~lost', asked' = {}
               PROVE  FALSE
    OBVIOUS
  <2>1. P!Held \subseteq P!Held' /\ P!Waiting' = P!Waiting /\ asked = {} /\ ~lost
    OBVIOUS
  <2>2. /\ Cardinality(P!Held) <= Cardinality(P!Held')
        /\ Cardinality(P!Held) \in Nat /\ Cardinality(P!Held') \in Nat
    BY <1>1, <2>1, OffersCounted
  <2>3. Cardinality(P!Held) < Slots
    BY <1>2, <2>2
  <2> QED BY <2>1, <2>3 DEF PilotInv, AskInv
<1>7. ASSUME maint.on, ~lost'
      PROVE  \/ P!Waiting' \ passed' \subseteq maint.up \cup maint.out
             \/ Cardinality(P!Held' \cup maint.up) >= Slots
             \/ \E i \in asked' : i > maint.last
  <2>1. CASE P!Held \subseteq P!Held'
    <3>1. /\ P!Held' \cup maint.up \in SUBSET P!Offer
          /\ P!Held \cup maint.up \in SUBSET (P!Held' \cup maint.up)
      BY <1>1, <2>1
    <3>2. /\ Cardinality(P!Held \cup maint.up) <= Cardinality(P!Held' \cup maint.up)
          /\ Cardinality(P!Held \cup maint.up) \in Nat /\ Cardinality(P!Held' \cup maint.up) \in Nat
      BY <3>1, OffersCounted
    <3>3. \/ P!Waiting \ passed \subseteq maint.up \cup maint.out
          \/ Cardinality(P!Held \cup maint.up) >= Slots
          \/ \E i \in asked : i > maint.last
      BY <1>7 DEF PilotInv, AskInv
    <3>4. Cardinality(P!Held \cup maint.up) >= Slots => Cardinality(P!Held' \cup maint.up) >= Slots
      BY <1>2, <3>2
    <3>5. (\E i \in asked : i > maint.last) => \E i \in asked' : i > maint.last
      OBVIOUS
    <3>6. P!Waiting' = P!Waiting
      BY <1>7
    <3> QED BY <3>3, <3>4, <3>5, <3>6
  <2>2. CASE \E i \in asked' : i > maint.last
    BY <2>2
  <2> QED BY <1>7, <2>1, <2>2
<1> QED BY <1>5, <1>6, <1>7 DEF AskInv

-----------------------------------------------------------------------------
\* Position p of offer o alone changes.
LEMMA Repositioned ==
  ASSUME P!TypeOK, NEW o \in P!Offer, NEW p \in Position, pos' = [pos EXCEPT ![o] = p]
  PROVE  /\ pos' \in [P!Offer -> Position] /\ pos'[o] = p
         /\ \A q \in P!Offer \ {o} : pos'[q] = pos[q]
<1>1. pos \in [P!Offer -> Position]
  BY PilotTyped
<1> QED BY <1>1, Put

\* What the pilot has is typed after a step, part by part.
LEMMA PilotRetyped ==
  ASSUME pos' \in [P!Offer -> Position], disp' \in [P!Offer -> Dispatches],
         open' \subseteq Transaction, drawn' \in 0..MaxRequests, asked' \subseteq 1..drawn',
         maint' \in [on : BOOLEAN, last : 0..MaxRequests, up : SUBSET P!Offer, out : SUBSET P!Offer],
         retried' \subseteq P!Offer, skewed' \subseteq P!Offer, lost' \in BOOLEAN,
         passed' \subseteq P!Offer
  PROVE  P!TypeOK'
  BY DEF P!TypeOK, Transaction, Position, Dispatches

\* An offer is captured: it waits, and asks for maintenance.
LEMMA PilotSchedules == ASSUME PilotInv, NEW o \in P!Offer, P!Schedule(o) PROVE PilotInv'
<1>0. P!TypeOK /\ QuietInv /\ OpenInv /\ ReleaseInv /\ RetryInv
  BY DEF PilotInv
<1>1. /\ pos[o] = "absent" /\ ~maint.on /\ pos' = [pos EXCEPT ![o] = "waiting"]
      /\ drawn < MaxRequests /\ drawn' = drawn + 1 /\ asked' = asked \cup {drawn + 1}
      /\ disp' = disp /\ open' = open /\ maint' = maint
      /\ retried' = retried /\ skewed' = skewed /\ lost' = lost /\ passed' = passed
  BY DEF P!Schedule, P!Observed
<1>2. "waiting" \in Position
  BY DEF Position
<1>3. /\ pos' \in [P!Offer -> Position] /\ pos'[o] = "waiting"
      /\ \A q \in P!Offer \ {o} : pos'[q] = pos[q]
  BY <1>0, <1>1, <1>2, Repositioned
<1>4. drawn' \in 0..MaxRequests /\ asked' \subseteq 1..drawn' /\ drawn \in Nat
  <2>1. drawn \in 0..MaxRequests /\ asked \subseteq 1..drawn /\ MaxRequests \in Nat
    BY <1>0, PilotTyped, PilotConstants
  <2> QED BY <1>1, <2>1
<1>5. P!TypeOK'
  BY <1>0, <1>1, <1>3, <1>4, PilotTyped, PilotRetyped
<1>6. P!Held' = P!Held
  BY <1>1, <1>3 DEF P!Held
<1>7. QuietInv'
  BY <1>0, <1>1, <1>3 DEF QuietInv, P!Open
<1>8. OpenInv'
  <2>1. \A t \in open : t.request \in Nat /\ t.request <= drawn
    BY <1>0, PilotTyped DEF OpenInv, Transaction
  <2>2. \A t \in open : t.request <= drawn'
    BY <1>1, <1>4, <2>1
  <2> QED BY <1>0, <1>1, <1>6, <2>2 DEF OpenInv
<1>9. ReleaseInv'
  <2>1. \A t \in open : t.o # o
    BY <1>0, <1>1 DEF QuietInv, P!Open
  <2> QED BY <1>0, <1>1, <1>3, <1>6, <2>1 DEF ReleaseInv, P!Open
<1>10. RetryInv'
  BY <1>0, <1>1, <1>3 DEF RetryInv
<1>11. RunInv' /\ AskInv'
  <2>1. asked' # {} /\ asked \subseteq asked' /\ (P!Held \ retried)' \subseteq P!Held \ retried
        /\ P!Held \subseteq P!Held'
    BY <1>1, <1>6
  <2> QED BY <1>1, <1>5, <2>1, SlotsKept
<1> QED BY <1>5, <1>7, <1>8, <1>9, <1>10, <1>11 DEF PilotInv

\* People end an offer whose dispatches are over: it gives its slot back.
LEMMA PilotReconciles == ASSUME PilotInv, NEW o \in P!Offer, P!Reconcile(o) PROVE PilotInv'
<1>0. P!TypeOK /\ QuietInv /\ OpenInv /\ ReleaseInv /\ RetryInv
  BY DEF PilotInv
<1>1. /\ pos[o] \in {"scheduled", "sending"} /\ pos' = [pos EXCEPT ![o] = "done"]
      /\ \A g \in Group : disp[o][g] = "over"
      /\ drawn < MaxRequests /\ drawn' = drawn + 1 /\ asked' = asked \cup {drawn + 1}
      /\ disp' = disp /\ open' = open /\ maint' = maint
      /\ retried' = retried /\ skewed' = skewed /\ lost' = lost /\ passed' = passed
  BY DEF P!Reconcile, P!Observed
<1>2. "done" \in Position
  BY DEF Position
<1>3. /\ pos' \in [P!Offer -> Position] /\ pos'[o] = "done"
      /\ \A q \in P!Offer \ {o} : pos'[q] = pos[q]
  BY <1>0, <1>1, <1>2, Repositioned
<1>4. drawn' \in 0..MaxRequests /\ asked' \subseteq 1..drawn' /\ drawn \in Nat
      /\ drawn + 1 \in asked' /\ asked \subseteq 1..drawn
  <2>1. drawn \in 0..MaxRequests /\ asked \subseteq 1..drawn /\ MaxRequests \in Nat
    BY <1>0, PilotTyped, PilotConstants
  <2> QED BY <1>1, <2>1
<1>5. P!TypeOK'
  BY <1>0, <1>1, <1>3, <1>4, PilotTyped, PilotRetyped
<1>6. P!Held' = P!Held \ {o} /\ P!Waiting' = P!Waiting
  BY <1>1, <1>3 DEF P!Held, P!Waiting
<1>7. QuietInv'
  BY <1>0, <1>1, <1>3 DEF QuietInv, P!Open
<1>8. OpenInv'
  <2>1. \A t \in open : t.request \in Nat /\ t.request <= drawn
    BY <1>0, PilotTyped DEF OpenInv, Transaction
  <2>2. \A t \in open : t.request <= drawn'
    BY <1>1, <1>4, <2>1
  <2> QED BY <1>0, <1>1, <1>6, <2>2 DEF OpenInv
\* Two of its dispatches ended at once.
<1>9. o \in skewed
  <2>1. o \in P!Held
    BY <1>1 DEF P!Held
  <2> QED BY <1>0, <1>1, <2>1 DEF ReleaseInv
<1>10. ReleaseInv'
  <2>1. \A q \in P!Offer \ skewed : q # o
    BY <1>9
  <2> QED BY <1>0, <1>1, <1>3, <1>6, <2>1 DEF ReleaseInv, P!Open
<1>11. RetryInv'
  BY <1>0, <1>1, <1>3 DEF RetryInv
<1>12. RunInv' /\ AskInv'
  <2>1. maint.on => drawn + 1 > maint.last
    <3> SUFFICES ASSUME maint.on PROVE drawn + 1 > maint.last
      OBVIOUS
    <3>1. maint.last \in 1..drawn
      BY <1>4 DEF PilotInv, RunInv
    <3> QED BY <1>4, <3>1
  <2>2. /\ asked' # {} /\ (maint.on => \E i \in asked' : i > maint.last)
        /\ asked \subseteq asked' /\ (P!Held \ retried)' \subseteq P!Held \ retried
    BY <1>1, <1>4, <1>6, <2>1
  <2> QED BY <1>1, <1>5, <1>6, <2>2, SlotsKept
<1> QED BY <1>5, <1>7, <1>8, <1>10, <1>11, <1>12 DEF PilotInv

\* A transaction is undone.
LEMMA PilotAborts == ASSUME PilotInv, NEW t \in open, P!Abort(t) PROVE PilotInv'
<1>0. P!TypeOK /\ QuietInv /\ OpenInv /\ ReleaseInv /\ RetryInv
  BY DEF PilotInv
<1>1. /\ open' = open \ {t} /\ pos' = pos /\ disp' = disp /\ asked' = asked /\ drawn' = drawn
      /\ maint' = maint /\ retried' = retried /\ skewed' = skewed /\ lost' = lost /\ passed' = passed
  BY DEF P!Abort, P!Observed
<1>2. open' \subseteq open
  BY <1>1
<1>3. P!TypeOK'
  BY <1>0, <1>1, <1>2, PilotTyped, PilotRetyped
<1>4. P!Held' = P!Held /\ P!Waiting' = P!Waiting
  BY <1>1 DEF P!Held, P!Waiting
<1>5. QuietInv'
  BY <1>0, <1>1, <1>2 DEF QuietInv, P!Open
<1>6. OpenInv'
  BY <1>0, <1>1, <1>2, <1>4 DEF OpenInv
<1>7. ReleaseInv'
  BY <1>0, <1>1, <1>2, <1>4 DEF ReleaseInv, P!Open
<1>8. RetryInv'
  BY <1>0, <1>1, <1>2 DEF RetryInv
<1>9. RunInv' /\ AskInv'
  BY <1>1, <1>3, <1>4, SlotsKept
<1> QED BY <1>3, <1>5, <1>6, <1>7, <1>8, <1>9 DEF PilotInv

-----------------------------------------------------------------------------
\* No step of a run changes a transaction, and its end moves offers that waited.
LEMMA RunMoves ==
  ASSUME PilotInv, NEW U \in SUBSET P!Waiting, NEW X \in SUBSET P!Waiting,
         pos' = [o \in P!Offer |-> IF o \in U THEN "scheduled" ELSE IF o \in X THEN "done" ELSE pos[o]],
         disp' = [o \in P!Offer |-> IF o \in U THEN [g \in Group |-> "pending"] ELSE disp[o]],
         open' = open, drawn' = drawn, retried' = retried, skewed' = skewed
  PROVE  /\ pos' \in [P!Offer -> Position] /\ disp' \in [P!Offer -> Dispatches]
         /\ P!Held' = P!Held \cup U /\ P!Waiting' = P!Waiting \ (U \cup X)
         /\ QuietInv' /\ OpenInv' /\ ReleaseInv' /\ RetryInv'
<1>0. /\ P!TypeOK /\ QuietInv /\ OpenInv /\ ReleaseInv /\ RetryInv
      /\ pos \in [P!Offer -> Position] /\ disp \in [P!Offer -> Dispatches] /\ open \subseteq Transaction
  BY PilotTyped DEF PilotInv
<1>1. /\ \A o \in U : pos'[o] = "scheduled" /\ disp'[o] = [g \in Group |-> "pending"]
      /\ \A o \in X \ U : pos'[o] = "done" /\ disp'[o] = disp[o]
      /\ \A o \in P!Offer \ (U \cup X) : pos'[o] = pos[o] /\ disp'[o] = disp[o]
  BY HeldOffers
<1>2. /\ \A o \in U : \A g \in Group : disp'[o][g] = "pending"
  BY <1>1
<1>3. [g \in Group |-> "pending"] \in Dispatches
  BY DEF Dispatches
<1>4. pos' \in [P!Offer -> Position]
  BY <1>0 DEF Position
<1>5. disp' \in [P!Offer -> Dispatches]
  BY <1>0, <1>3
\* What moves waited, so that nothing of it is open and it has no dispatches.
<1>6. \A o \in U \cup X : /\ o \in P!Offer /\ pos[o] = "waiting" /\ (\A t \in open : t.o # o)
                          /\ \A g \in Group : disp[o][g] = "none"
  BY <1>0 DEF P!Waiting, QuietInv, P!Open
<1>7. P!Held' = P!Held \cup U
  BY <1>1, <1>6 DEF P!Held
<1>8. P!Waiting' = P!Waiting \ (U \cup X)
  BY <1>1, <1>6 DEF P!Waiting
<1>9. \A t \in open : /\ t.o \in P!Offer /\ t.g \in Group /\ t.o \notin U \cup X
                      /\ pos'[t.o] = pos[t.o] /\ disp'[t.o] = disp[t.o]
                      /\ (t.o \in P!Held' <=> t.o \in P!Held)
  <2>1. \A t \in open : t.o \in P!Offer /\ t.g \in Group
    BY <1>0 DEF Transaction
  <2> QED BY <1>1, <1>6, <1>7, <2>1
<1>10. QuietInv'
  <2> SUFFICES ASSUME NEW o \in P!Offer, pos'[o] \in {"absent", "waiting"}
               PROVE  (\A t \in open : t.o # o) /\ \A g \in Group : disp'[o][g] = "none"
    BY DEF QuietInv, P!Open
  <2>1. o \notin U \cup X
    BY <1>1
  <2>2. pos'[o] = pos[o] /\ disp'[o] = disp[o]
    BY <1>1, <2>1
  <2> QED BY <1>0, <2>2 DEF QuietInv, P!Open
<1>11. OpenInv'
  BY <1>0, <1>9 DEF OpenInv
<1>12. ReleaseInv'
  <2> SUFFICES ASSUME NEW o \in P!Offer \ skewed
               PROVE  /\ \A s, t \in open : s.o = o /\ t.o = o => s = t
                      /\ \A t \in open : t.o = o =>
                           /\ t.status = P!Aggregate([disp'[o] EXCEPT ![t.g] = t.to])
                           /\ t.at = "same" => t.status = pos'[o]
                      /\ o \in P!Held' => \E g \in Group : disp'[o][g] # "over"
    BY DEF ReleaseInv, P!Open
  <2>1. \A s, t \in open : s.o = o /\ t.o = o => s = t
    BY <1>0 DEF ReleaseInv, P!Open
  <2>2. ASSUME NEW t \in open, t.o = o
        PROVE  /\ t.status = P!Aggregate([disp'[o] EXCEPT ![t.g] = t.to])
               /\ t.at = "same" => t.status = pos'[o]
    <3>1. disp'[o] = disp[o] /\ pos'[o] = pos[o]
      BY <1>9, <2>2
    <3>2. /\ t.status = P!Aggregate([disp[o] EXCEPT ![t.g] = t.to])
          /\ t.at = "same" => t.status = pos[o]
      BY <1>0, <2>2 DEF ReleaseInv, P!Open
    <3> QED BY <3>1, <3>2
  <2>3. o \in P!Held' => \E g \in Group : disp'[o][g] # "over"
    <3>1. CASE o \in U
      BY <1>2, <3>1, PilotConstants
    <3>2. CASE o \notin U
      <4>1. disp'[o] = disp[o]
        BY <1>1, <3>2
      <4> QED BY <1>0, <1>7, <3>2, <4>1 DEF ReleaseInv
    <3> QED BY <3>1, <3>2
  <2> QED BY <2>1, <2>2, <2>3
<1>13. RetryInv'
  <2>1. \A t \in open : disp'[t.o][t.g] = "over" => t.o \in retried
    BY <1>0, <1>9 DEF RetryInv
  <2>2. ASSUME NEW o \in P!Offer \ retried, pos'[o] = "done", NEW g \in Group
        PROVE  disp'[o][g] \in {"over", "none"}
    <3>1. o \notin U
      BY <1>1, <2>2
    <3>2. CASE o \in X
      BY <1>1, <1>6, <3>1, <3>2
    <3>3. CASE o \notin X
      BY <1>0, <1>1, <2>2, <3>1, <3>3 DEF RetryInv
    <3> QED BY <3>2, <3>3
  <2>3. \A t \in open : t.status = "done" /\ t.o \notin retried =>
          t.to = "over" /\ \A g \in Group \ {t.g} : disp'[t.o][g] = "over"
    BY <1>0, <1>9 DEF RetryInv
  <2> QED BY <2>1, <2>2, <2>3 DEF RetryInv
<1> QED BY <1>4, <1>5, <1>7, <1>8, <1>10, <1>11, <1>12, <1>13

\* Two disjoint sets of offers count as the sum of them.
LEMMA OffersAdd ==
  ASSUME NEW W \in SUBSET P!Offer, NEW V \in SUBSET P!Offer
  PROVE  /\ Cardinality(W \cup V) <= Cardinality(W) + Cardinality(V)
         /\ W \cap V = {} => Cardinality(W \cup V) = Cardinality(W) + Cardinality(V)
         /\ Cardinality(W \cup V) \in Nat /\ Cardinality(W) \in Nat /\ Cardinality(V) \in Nat
<1>1. /\ IsFiniteSet(W) /\ IsFiniteSet(V) /\ Cardinality(W) \in Nat /\ Cardinality(V) \in Nat
      /\ Cardinality(W \cup V) \in Nat
  <2>1. W \cup V \in SUBSET P!Offer
    OBVIOUS
  <2> QED BY <2>1, OffersCounted
<1>2. Cardinality(W \cup V) = Cardinality(W) + Cardinality(V) - Cardinality(W \cap V)
  BY <1>1, FS_Union
<1>3. Cardinality(W \cap V) \in Nat
  <2>1. W \cap V \in SUBSET P!Offer
    OBVIOUS
  <2> QED BY <2>1, OffersCounted
<1>4. W \cap V = {} => Cardinality(W \cap V) = 0
  BY FS_EmptySet, Zenon
<1> QED BY <1>1, <1>2, <1>3, <1>4

\* The offers promoted fit in the free slots, and fill them unless all are.
LEMMA PromotedFits ==
  ASSUME NEW W \in SUBSET P!Offer
  PROVE  /\ P!Promoted(W) \subseteq W
         /\ Cardinality(P!Held) <= Slots => Cardinality(P!Promoted(W)) + Cardinality(P!Held) <= Slots
         /\ Cardinality(P!Held) >= Slots => P!Promoted(W) = {}
         /\ Cardinality(P!Held) < Slots =>
              P!Promoted(W) = W \/ Cardinality(P!Promoted(W)) + Cardinality(P!Held) >= Slots
<1> DEFINE n == IF Cardinality(P!Held) < Slots THEN Slots - Cardinality(P!Held) ELSE 0
           Q == {o \in W : Cardinality({p \in W : p > o}) < n}
<1>1. Cardinality(P!Held) \in Nat /\ Slots \in Nat
  BY HeldOffers, OffersCounted, PilotConstants
<1>2. n \in Nat
  BY <1>1
<1>3. P!Promoted(W) = Q
  BY SameCardinality DEF P!Promoted
<1>4. Cardinality(Q) <= n /\ (Q = W \/ Cardinality(Q) >= n)
  <2>1. MaxOffers \in Nat /\ W \in SUBSET (1..MaxOffers)
    BY PilotConstants
  <2> HIDE DEF n
  <2> QED BY <1>2, <2>1, TakesGreatest
<1>5. Q \in SUBSET P!Offer /\ Q \subseteq W
  OBVIOUS
<1> HIDE DEF Q
<1>6. Cardinality(Q) \in Nat /\ (Cardinality(Q) = 0 => Q = {})
  <2>1. IsFiniteSet(Q) /\ Cardinality(Q) \in Nat
    BY <1>5, OffersCounted
  <2> QED BY <2>1, FS_EmptySet
<1>7. n = 0 => Q = {}
  BY <1>2, <1>4, <1>6
<1> QED BY <1>1, <1>3, <1>4, <1>5, <1>6, <1>7

\* A run reads the requests and the slots that are free.
LEMMA RunStarts == ASSUME PilotInv, P!RunBegin PROVE PilotInv'
<1>0. /\ P!TypeOK /\ QuietInv /\ OpenInv /\ ReleaseInv /\ RetryInv
      /\ drawn \in 0..MaxRequests /\ asked \subseteq 1..drawn /\ MaxRequests \in Nat /\ Slots \in Nat
      /\ retried \subseteq P!Offer
  BY PilotTyped, PilotConstants DEF PilotInv
<1>1. PICK X \in SUBSET P!Waiting : \E K \in SUBSET (P!Waiting \ X) :
        /\ maint' = [on |-> TRUE, last |-> P!Latest(asked), up |-> P!Promoted(P!Waiting \ (X \cup K)), out |-> X]
        /\ passed' = K
  BY DEF P!RunBegin
<1>1a. PICK K \in SUBSET (P!Waiting \ X) :
        /\ maint' = [on |-> TRUE, last |-> P!Latest(asked), up |-> P!Promoted(P!Waiting \ (X \cup K)), out |-> X]
        /\ passed' = K
  BY <1>1
<1>2. /\ asked # {} /\ pos' = pos /\ disp' = disp /\ open' = open /\ asked' = asked /\ drawn' = drawn
      /\ retried' = retried /\ skewed' = skewed /\ lost' = FALSE
  BY DEF P!RunBegin
<1> DEFINE W == P!Waiting \ (X \cup K)
           U == P!Promoted(W)
           i == P!Latest(asked)
<1>3. maint'.on /\ maint'.last = i /\ maint'.up = U /\ maint'.out = X
  BY <1>1a
<1>4. i \in asked
  <2>1. asked \in SUBSET (0..drawn) /\ drawn \in Nat
    BY <1>0
  <2>2. \E m \in asked : \A k \in asked : k <= m
    BY <1>2, <2>1, GreatestOf
  <2> QED BY <2>2 DEF P!Latest
<1>5. W \in SUBSET P!Offer /\ P!Held \in SUBSET P!Offer
  BY HeldOffers
<1>6. /\ U \subseteq W
      /\ Cardinality(P!Held) <= Slots => Cardinality(U) + Cardinality(P!Held) <= Slots
      /\ Cardinality(P!Held) >= Slots => U = {}
      /\ Cardinality(P!Held) < Slots => U = W \/ Cardinality(U) + Cardinality(P!Held) >= Slots
  BY <1>5, PromotedFits
<1>7. P!TypeOK'
  <2>1. maint' \in [on : BOOLEAN, last : 0..MaxRequests, up : SUBSET P!Offer, out : SUBSET P!Offer]
    <3> HIDE DEF i, U
    <3>1. i \in 0..MaxRequests
      BY <1>0, <1>4
    <3>2. U \in SUBSET P!Offer /\ X \in SUBSET P!Offer
      BY <1>5, <1>6, HeldOffers
    <3>3. maint' = [on |-> TRUE, last |-> i, up |-> U, out |-> X] /\ TRUE \in BOOLEAN
      BY <1>1a DEF i, U
    <3> QED BY <3>1, <3>2, <3>3
  <2>2. passed' \subseteq P!Offer /\ lost' \in BOOLEAN
    BY <1>2, <1>1a, HeldOffers
  <2> QED BY <1>0, <1>2, <2>1, <2>2, PilotTyped, PilotRetyped
<1> HIDE DEF U, i
<1>8. P!Held' = P!Held /\ P!Waiting' = P!Waiting
  BY <1>2 DEF P!Held, P!Waiting
<1>9. QuietInv' /\ OpenInv' /\ ReleaseInv' /\ RetryInv'
  <2>1. QuietInv'
    BY <1>0, <1>2 DEF QuietInv, P!Open
  <2>2. OpenInv'
    BY <1>0, <1>2, <1>8 DEF OpenInv
  <2>3. ReleaseInv'
    BY <1>0, <1>2, <1>8 DEF ReleaseInv, P!Open
  <2>4. RetryInv'
    BY <1>0, <1>2 DEF RetryInv
  <2> QED BY <2>1, <2>2, <2>3, <2>4
<1>10. Cardinality(P!Held) \in Nat /\ Cardinality(U) \in Nat /\ U \in SUBSET P!Offer
  BY <1>5, <1>6, OffersCounted
<1>11. Cardinality(P!Held \ retried) <= Slots /\ Cardinality(P!Held \ retried) \in Nat
  BY <1>5, OffersCounted DEF PilotInv, RunInv
<1>12. Cardinality(U \cup (P!Held \ retried)) <= Slots
  <2>1. CASE Cardinality(P!Held) >= Slots
    <3>1. U \cup (P!Held \ retried) = P!Held \ retried
      BY <1>6, <2>1
    <3> QED BY <1>11, <3>1
  <2>2. CASE Cardinality(P!Held) < Slots
    <3>1. Cardinality(U) + Cardinality(P!Held) <= Slots
      BY <1>0, <1>6, <1>10, <2>2
    <3>2. P!Held \ retried \in SUBSET P!Offer
      BY <1>5
    <3>3. Cardinality(P!Held \ retried) <= Cardinality(P!Held)
      BY <1>5, OffersCounted
    <3>4. /\ Cardinality(U \cup (P!Held \ retried)) <= Cardinality(U) + Cardinality(P!Held \ retried)
          /\ Cardinality(U \cup (P!Held \ retried)) \in Nat
      BY <1>10, <3>2, OffersAdd
    <3> QED BY <1>0, <1>10, <1>11, <3>1, <3>3, <3>4
  <2> QED BY <1>0, <1>10, <2>1, <2>2
<1>13. RunInv'
  <2>1. U \subseteq P!Waiting /\ X \subseteq P!Waiting
    BY <1>6
  <2> QED BY <1>2, <1>3, <1>4, <1>8, <1>11, <1>12, <2>1 DEF RunInv
<1>14. P!Waiting \ K \subseteq U \cup X \/ Cardinality(P!Held \cup U) >= Slots
  <2>1. CASE Cardinality(P!Held) >= Slots
    <3>1. P!Held \cup U = P!Held
      BY <1>6, <2>1
    <3> QED BY <2>1, <3>1
  <2>2. CASE Cardinality(P!Held) < Slots /\ U = W
    BY <2>2
  <2>3. CASE Cardinality(U) + Cardinality(P!Held) >= Slots
    <3>1. P!Held \cap U = {}
      BY <1>6 DEF P!Held, P!Waiting
    <3>2. Cardinality(P!Held \cup U) = Cardinality(P!Held) + Cardinality(U)
      BY <1>5, <1>10, <3>1, OffersAdd
    <3> QED BY <1>10, <2>3, <3>2
  <2> QED BY <1>0, <1>6, <1>10, <2>1, <2>2, <2>3
<1>15. AskInv'
  BY <1>2, <1>3, <1>8, <1>14, <1>1a DEF AskInv
<1> QED BY <1>7, <1>9, <1>13, <1>15 DEF PilotInv

\* A run commits: the promoted offers take the slots, the requests it read go.
LEMMA RunCommits == ASSUME PilotInv, P!RunEnd PROVE PilotInv'
<1>0. /\ P!TypeOK /\ maint \in [on : BOOLEAN, last : 0..MaxRequests, up : SUBSET P!Offer, out : SUBSET P!Offer]
      /\ drawn \in 0..MaxRequests /\ asked \subseteq 1..drawn /\ MaxRequests \in Nat /\ Slots \in Nat
      /\ retried \subseteq P!Offer
  BY PilotTyped, PilotConstants DEF PilotInv
<1>1. /\ maint.on /\ maint' = P!NoRun /\ asked' = asked \ P!Served
      /\ pos' = [o \in P!Offer |-> IF o \in maint.up THEN "scheduled"
                                   ELSE IF o \in maint.out THEN "done" ELSE pos[o]]
      /\ disp' = [o \in P!Offer |-> IF o \in maint.up THEN [g \in Group |-> "pending"] ELSE disp[o]]
      /\ open' = open /\ drawn' = drawn
      /\ retried' = retried /\ skewed' = skewed /\ lost' = lost /\ passed' = passed
  BY DEF P!RunEnd, P!Observed
<1>2. /\ maint.up \in SUBSET P!Waiting /\ maint.out \in SUBSET P!Waiting
      /\ Cardinality(maint.up \cup (P!Held \ retried)) <= Slots
  BY <1>1 DEF PilotInv, RunInv
<1>3. /\ pos' \in [P!Offer -> Position] /\ disp' \in [P!Offer -> Dispatches]
      /\ P!Held' = P!Held \cup maint.up /\ P!Waiting' = P!Waiting \ (maint.up \cup maint.out)
      /\ QuietInv' /\ OpenInv' /\ ReleaseInv' /\ RetryInv'
  BY <1>1, <1>2, RunMoves
<1>4. P!TypeOK'
  <2>1. P!NoRun \in [on : BOOLEAN, last : 0..MaxRequests, up : SUBSET P!Offer, out : SUBSET P!Offer]
    BY <1>0 DEF P!NoRun
  <2>2. asked' \subseteq 1..drawn'
    BY <1>0, <1>1
  <2> QED BY <1>0, <1>1, <1>3, <2>1, <2>2, PilotTyped, PilotRetyped
<1>5. ~maint'.on
  BY <1>1 DEF P!NoRun
<1>6. RunInv'
  <2>1. /\ maint.up \cup (P!Held \ retried) \in SUBSET P!Offer
        /\ (P!Held \cup maint.up) \ retried \in SUBSET (maint.up \cup (P!Held \ retried))
    BY <1>2, HeldOffers
  <2>2. /\ Cardinality((P!Held \cup maint.up) \ retried) <= Cardinality(maint.up \cup (P!Held \ retried))
        /\ Cardinality((P!Held \cup maint.up) \ retried) \in Nat
        /\ Cardinality(maint.up \cup (P!Held \ retried)) \in Nat
    BY <2>1, OffersCounted
  <2>3. Cardinality((P!Held \cup maint.up) \ retried) <= Slots
    BY <1>0, <1>2, <2>2
  <2> QED BY <1>1, <1>3, <1>5, <2>3 DEF RunInv
<1>7. AskInv'
  <2> SUFFICES ASSUME P!Waiting' \ passed' # {}, Cardinality(P!Held') < Slots, ~lost'
               PROVE  asked' # {}
    BY <1>5 DEF AskInv
  <2>1. \/ P!Waiting \ passed \subseteq maint.up \cup maint.out
        \/ Cardinality(P!Held \cup maint.up) >= Slots
        \/ \E i \in asked : i > maint.last
    BY <1>1 DEF PilotInv, AskInv
  <2>2. ~ (P!Waiting \ passed \subseteq maint.up \cup maint.out)
    BY <1>1, <1>3
  <2>3. ~ (Cardinality(P!Held \cup maint.up) >= Slots)
    <3>1. P!Held \cup maint.up \in SUBSET P!Offer
      BY <1>2, HeldOffers
    <3>2. Cardinality(P!Held \cup maint.up) \in Nat
      BY <3>1, OffersCounted
    <3> QED BY <1>0, <1>3, <3>2
  <2>4. PICK i \in asked : i > maint.last
    BY <2>1, <2>2, <2>3
  <2>5. i \in Nat /\ maint.last \in Nat
    BY <1>0
  <2>6. i \notin P!Served
    BY <2>4, <2>5 DEF P!Served
  <2> QED BY <1>1, <2>6
<1> QED BY <1>3, <1>4, <1>6, <1>7 DEF PilotInv

\* A run is undone: the requests it read are still there.
LEMMA RunUndoes == ASSUME PilotInv, P!RunUndone PROVE PilotInv'
<1>0. P!TypeOK /\ QuietInv /\ OpenInv /\ ReleaseInv /\ RetryInv
  BY DEF PilotInv
<1>1. /\ maint.on /\ maint' = P!NoRun /\ pos' = pos /\ disp' = disp /\ open' = open
      /\ asked' = asked /\ drawn' = drawn /\ retried' = retried /\ skewed' = skewed /\ lost' = lost /\ passed' = passed
  BY DEF P!RunUndone, P!Observed
<1>2. P!TypeOK'
  <2>1. P!NoRun \in [on : BOOLEAN, last : 0..MaxRequests, up : SUBSET P!Offer, out : SUBSET P!Offer]
    BY PilotConstants DEF P!NoRun
  <2> QED BY <1>0, <1>1, <2>1, PilotTyped, PilotRetyped
<1>3. P!Held' = P!Held /\ P!Waiting' = P!Waiting
  BY <1>1 DEF P!Held, P!Waiting
<1>4. QuietInv' /\ OpenInv' /\ ReleaseInv' /\ RetryInv'
  <2>1. QuietInv'
    BY <1>0, <1>1 DEF QuietInv, P!Open
  <2>2. OpenInv'
    BY <1>0, <1>1, <1>3 DEF OpenInv
  <2>3. ReleaseInv'
    BY <1>0, <1>1, <1>3 DEF ReleaseInv, P!Open
  <2>4. RetryInv'
    BY <1>0, <1>1 DEF RetryInv
  <2> QED BY <2>1, <2>2, <2>3, <2>4
<1>5. ~maint'.on /\ asked # {} /\ Cardinality(P!Held \ retried) <= Slots
  BY <1>1 DEF P!NoRun, PilotInv, RunInv
<1> QED BY <1>1, <1>2, <1>3, <1>4, <1>5 DEF PilotInv, RunInv, AskInv

-----------------------------------------------------------------------------
\* A transaction changes a dispatch, and counts what it sees.
LEMMA PilotCounts ==
  ASSUME PilotInv, NEW o \in P!Offer, NEW g \in Group, P!Count(o, g) PROVE PilotInv'
<1>0. /\ P!TypeOK /\ QuietInv /\ OpenInv /\ ReleaseInv /\ RetryInv
      /\ disp \in [P!Offer -> Dispatches] /\ open \subseteq Transaction /\ drawn \in Nat
      /\ retried \subseteq P!Offer /\ skewed \subseteq P!Offer
  BY PilotTyped, PilotConstants DEF PilotInv
<1>1. PICK c \in P!Change :
        /\ disp[o][g] = c[1]
        /\ open' = open \cup {[at |-> "counted", o |-> o, g |-> g, to |-> c[2], request |-> 0,
                               status |-> P!Aggregate([disp[o] EXCEPT ![g] = c[2]])]}
        /\ retried' = IF c[1] = "over" THEN retried \cup {o} ELSE retried
  BY DEF P!Count
<1>2. /\ \A t \in open : t.o = o => t.g # g
      /\ skewed' = IF P!Open(o) # {} THEN skewed \cup {o} ELSE skewed
      /\ pos' = pos /\ disp' = disp /\ asked' = asked /\ drawn' = drawn /\ maint' = maint /\ lost' = lost
      /\ passed' = passed
  BY DEF P!Count, P!Open
<1>3. c[1] \in {"pending", "sending", "over"} /\ c[2] \in {"pending", "sending", "over"}
  BY DEF P!Change
<1> DEFINE D == [disp[o] EXCEPT ![g] = c[2]]
           a == P!Aggregate(D)
           n == [at |-> "counted", o |-> o, g |-> g, to |-> c[2], request |-> 0, status |-> a]
<1>4. D[g] = c[2] /\ \A h \in Group \ {g} : D[h] = disp[o][h]
  <2>1. disp[o] \in [Group -> {"none", "pending", "sending", "over"}]
    BY <1>0 DEF Dispatches
  <2> QED BY <2>1
<1>5. (a = "done" <=> \A h \in Group : D[h] = "over") /\ a \in {"done", "scheduled", "sending"}
  BY AggregateEnds
<1> HIDE DEF D, a
<1>6. /\ n \in Transaction /\ n.at = "counted" /\ n.o = o /\ n.g = g /\ n.to = c[2] /\ n.request = 0
      /\ n.status = a
  BY <1>3, <1>5, PilotConstants DEF Transaction
<1>7. open' = open \cup {n}
  BY <1>1 DEF D, a
<1> HIDE DEF n
<1>8. disp[o][g] # "none" /\ disp[o][g] \in {"pending", "sending", "over"}
  BY <1>1, <1>3
<1>9. retried \subseteq retried' /\ retried' \subseteq retried \cup {o} /\ (disp[o][g] = "over" => o \in retried')
  BY <1>1
<1>10. skewed \subseteq skewed' /\ skewed' \subseteq P!Offer /\ (o \notin skewed' => \A t \in open : t.o # o)
  BY <1>0, <1>2 DEF P!Open
<1>11. P!TypeOK'
  <2>1. open' \subseteq Transaction /\ retried' \subseteq P!Offer
    BY <1>0, <1>6, <1>7, <1>9
  <2> QED BY <1>0, <1>2, <1>10, <2>1, PilotTyped, PilotRetyped
<1>12. P!Held' = P!Held /\ P!Waiting' = P!Waiting
  BY <1>2 DEF P!Held, P!Waiting
<1>13. QuietInv'
  <2>1. pos[o] \notin {"absent", "waiting"}
    BY <1>0, <1>8 DEF QuietInv
  <2>2. ASSUME NEW q \in P!Offer, pos'[q] \in {"absent", "waiting"}
        PROVE  (\A t \in open' : t.o # q) /\ \A h \in Group : disp'[q][h] = "none"
    BY <1>0, <1>2, <1>6, <1>7, <2>1, <2>2 DEF QuietInv, P!Open
  <2> QED BY <2>2 DEF QuietInv, P!Open
<1>14. OpenInv'
  <2>1. \A s, t \in open' : s.o = t.o =>
          (s.g = t.g => s = t) /\ (s.at = "holds" /\ t.at = "holds" => s = t)
    BY <1>0, <1>2, <1>6, <1>7 DEF OpenInv
  <2>2. \A t \in open' :
          /\ t.request <= drawn' /\ disp'[t.o][t.g] # "none"
          /\ t.at = "holds" /\ t.status = "done" /\ t.o \in P!Held' => t.request > 0
    <3>1. 0 <= drawn
      BY <1>0
    <3> QED BY <1>0, <1>2, <1>6, <1>7, <1>8, <1>12, <3>1 DEF OpenInv
  <2> QED BY <2>1, <2>2 DEF OpenInv
<1>15. ReleaseInv'
  <2> SUFFICES ASSUME NEW q \in P!Offer \ skewed'
               PROVE  /\ \A s, t \in open' : s.o = q /\ t.o = q => s = t
                      /\ \A t \in open' : t.o = q =>
                           /\ t.status = P!Aggregate([disp'[q] EXCEPT ![t.g] = t.to])
                           /\ t.at = "same" => t.status = pos'[q]
                      /\ q \in P!Held' => \E h \in Group : disp'[q][h] # "over"
    BY DEF ReleaseInv, P!Open
  <2>1. q \notin skewed
    BY <1>10
  <2>2. /\ \A s, t \in open : s.o = q /\ t.o = q => s = t
        /\ \A t \in open : t.o = q =>
             /\ t.status = P!Aggregate([disp[q] EXCEPT ![t.g] = t.to])
             /\ t.at = "same" => t.status = pos[q]
        /\ q \in P!Held => \E h \in Group : disp[q][h] # "over"
    BY <1>0, <2>1 DEF ReleaseInv, P!Open
  <2>3. \A s, t \in open' : s.o = q /\ t.o = q => s = t
    BY <1>6, <1>7, <1>10, <2>2
  <2>4. ASSUME NEW t \in open', t.o = q
        PROVE  /\ t.status = P!Aggregate([disp'[q] EXCEPT ![t.g] = t.to])
               /\ t.at = "same" => t.status = pos'[q]
    <3>1. CASE t \in open
      BY <1>2, <2>2, <2>4, <3>1
    <3>2. CASE t = n
      <4>1. n.status = P!Aggregate([disp[n.o] EXCEPT ![n.g] = n.to])
        BY <1>6 DEF a, D
      <4> QED BY <1>2, <1>6, <2>4, <3>2, <4>1
    <3> QED BY <1>7, <2>4, <3>1, <3>2
  <2> QED BY <1>2, <1>12, <2>2, <2>3, <2>4
<1>16. RetryInv'
  <2>1. \A t \in open' : disp'[t.o][t.g] = "over" => t.o \in retried'
    BY <1>0, <1>2, <1>6, <1>7, <1>9 DEF RetryInv
  <2>2. \A q \in P!Offer \ retried' : pos'[q] = "done" => \A h \in Group : disp'[q][h] \in {"over", "none"}
    BY <1>0, <1>2, <1>9 DEF RetryInv
  <2>3. ASSUME NEW t \in open', t.status = "done", t.o \notin retried'
        PROVE  t.to = "over" /\ \A h \in Group \ {t.g} : disp'[t.o][h] = "over"
    <3>1. CASE t \in open
      BY <1>0, <1>2, <1>9, <2>3, <3>1 DEF RetryInv
    <3>2. CASE t = n
      BY <1>2, <1>4, <1>5, <1>6, <2>3, <3>2
    <3> QED BY <1>7, <2>3, <3>1, <3>2
  <2> QED BY <2>1, <2>2, <2>3 DEF RetryInv
<1>17. RunInv' /\ AskInv'
  <2>1. (P!Held \ retried)' \subseteq P!Held \ retried
    BY <1>9, <1>12
  <2> QED BY <1>2, <1>11, <1>12, <2>1, SlotsKept
<1> QED BY <1>11, <1>13, <1>14, <1>15, <1>16, <1>17 DEF PilotInv

\* The transaction updates the row of its offer; one that ends it draws a request.
LEMMA PilotUpdates == ASSUME PilotInv, NEW t \in open, P!Update(t) PROVE PilotInv'
<1>0. /\ P!TypeOK /\ QuietInv /\ OpenInv /\ ReleaseInv /\ RetryInv
      /\ open \subseteq Transaction /\ drawn \in 0..MaxRequests /\ asked \subseteq 1..drawn
      /\ MaxRequests \in Nat
  BY PilotTyped, PilotConstants DEF PilotInv
<1> DEFINE same == t.status = pos[t.o]
           ends == ~same /\ pos[t.o] \in {"scheduled", "sending"} /\ t.status = "done"
           h == IF same THEN "same" ELSE "holds"
           r == IF ends THEN drawn' ELSE 0
           n == [t EXCEPT !.at = h, !.request = r]
<1>1. /\ t.at = "counted" /\ (same \/ ~P!Locked(t.o)) /\ (ends => drawn < MaxRequests)
      /\ drawn' = (IF ends THEN drawn + 1 ELSE drawn) /\ open' = (open \ {t}) \cup {n}
      /\ pos' = pos /\ disp' = disp /\ asked' = asked /\ maint' = maint
      /\ retried' = retried /\ skewed' = skewed /\ lost' = lost /\ passed' = passed
  BY DEF P!Update, P!Observed
<1>2. t \in Transaction
  BY <1>0
<1>3. drawn' \in 0..MaxRequests /\ drawn <= drawn' /\ r \in 0..MaxRequests /\ r <= drawn' /\ (ends => r > 0)
  BY <1>0, <1>1
<1>4. h \in {"same", "holds"} /\ (h = "same" <=> t.status = pos[t.o])
  OBVIOUS
<1>5. ends <=> h = "holds" /\ t.o \in P!Held /\ t.status = "done"
  BY <1>2 DEF P!Held, Transaction
<1> HIDE DEF h, r, same, ends
<1>6. n \in Transaction /\ n.at = h /\ n.request = r /\ n.o = t.o /\ n.g = t.g /\ n.to = t.to
      /\ n.status = t.status
  BY <1>2, <1>3, <1>4 DEF Transaction
<1> HIDE DEF n
<1>7. h = "holds" => \A s \in open : s.o = t.o => s.at # "holds"
  BY <1>1, <1>4 DEF P!Locked, P!Open, same
<1>8. \A s \in open' : s = n \/ (s \in open /\ s # t)
  BY <1>1
<1>9. P!TypeOK'
  <2>1. open' \subseteq Transaction
    BY <1>0, <1>6, <1>8
  <2>2. asked' \subseteq 1..drawn'
    BY <1>0, <1>1, <1>3
  <2> QED BY <1>0, <1>1, <1>3, <2>1, <2>2, PilotTyped, PilotRetyped
<1>10. P!Held' = P!Held /\ P!Waiting' = P!Waiting
  BY <1>1 DEF P!Held, P!Waiting
<1>11. QuietInv'
  BY <1>0, <1>1, <1>6, <1>8 DEF QuietInv, P!Open
<1>12. OpenInv'
  <2>1. ASSUME NEW s \in open', NEW u \in open', s.o = u.o
        PROVE  (s.g = u.g => s = u) /\ (s.at = "holds" /\ u.at = "holds" => s = u)
    <3>1. CASE s = n /\ u = n
      BY <3>1
    <3>2. CASE s = n /\ u # n
      BY <1>0, <1>6, <1>7, <1>8, <2>1, <3>2 DEF OpenInv
    <3>3. CASE s # n /\ u = n
      BY <1>0, <1>6, <1>7, <1>8, <2>1, <3>3 DEF OpenInv
    <3>4. CASE s # n /\ u # n
      BY <1>0, <1>8, <2>1, <3>4 DEF OpenInv
    <3> QED BY <3>1, <3>2, <3>3, <3>4
  <2>2. ASSUME NEW s \in open'
        PROVE  /\ s.request <= drawn' /\ disp'[s.o][s.g] # "none"
               /\ s.at = "holds" /\ s.status = "done" /\ s.o \in P!Held' => s.request > 0
    <3>1. CASE s = n
      <4>1. disp'[n.o][n.g] # "none"
        BY <1>0, <1>1, <1>6 DEF OpenInv
      <4>2. n.at = "holds" /\ n.status = "done" /\ n.o \in P!Held' => n.request > 0
        BY <1>3, <1>5, <1>6, <1>10
      <4> QED BY <1>3, <1>6, <3>1, <4>1, <4>2
    <3>2. CASE s \in open
      <4>1. s.request <= drawn /\ s.request \in 0..MaxRequests
        BY <1>0, <3>2 DEF OpenInv, Transaction
      <4>2. s.request <= drawn'
        BY <1>0, <1>3, <4>1
      <4>3. /\ disp'[s.o][s.g] # "none"
            /\ s.at = "holds" /\ s.status = "done" /\ s.o \in P!Held' => s.request > 0
        BY <1>0, <1>1, <1>10, <3>2 DEF OpenInv
      <4> QED BY <4>2, <4>3
    <3> QED BY <1>8, <2>2, <3>1, <3>2
  <2> QED BY <2>1, <2>2 DEF OpenInv
<1>13. ReleaseInv'
  <2> SUFFICES ASSUME NEW q \in P!Offer \ skewed
               PROVE  /\ \A s, u \in open' : s.o = q /\ u.o = q => s = u
                      /\ \A s \in open' : s.o = q =>
                           /\ s.status = P!Aggregate([disp[q] EXCEPT ![s.g] = s.to])
                           /\ s.at = "same" => s.status = pos[q]
                      /\ q \in P!Held => \E k \in Group : disp[q][k] # "over"
    BY <1>1, <1>10 DEF ReleaseInv, P!Open
  <2>1. /\ \A s, u \in open : s.o = q /\ u.o = q => s = u
        /\ \A s \in open : s.o = q =>
             /\ s.status = P!Aggregate([disp[q] EXCEPT ![s.g] = s.to])
             /\ s.at = "same" => s.status = pos[q]
        /\ q \in P!Held => \E k \in Group : disp[q][k] # "over"
    BY <1>0 DEF ReleaseInv, P!Open
  <2>2. \A s, u \in open' : s.o = q /\ u.o = q => s = u
    BY <1>6, <1>8, <2>1
  <2>3. ASSUME NEW s \in open', s.o = q
        PROVE  /\ s.status = P!Aggregate([disp[q] EXCEPT ![s.g] = s.to])
               /\ s.at = "same" => s.status = pos[q]
    <3>1. CASE s \in open
      BY <2>1, <2>3, <3>1
    <3>2. CASE s = n
      BY <1>4, <1>6, <2>1, <2>3, <3>2
    <3> QED BY <1>8, <2>3, <3>1, <3>2
  <2> QED BY <2>1, <2>2, <2>3
<1>14. RetryInv'
  BY <1>0, <1>1, <1>6, <1>8 DEF RetryInv
<1>15. RunInv' /\ AskInv'
  BY <1>1, <1>9, <1>10, SlotsKept
<1> QED BY <1>9, <1>11, <1>12, <1>13, <1>14, <1>15 DEF PilotInv

\* A transaction commits: the row of its offer and its dispatch, its request,
\* and the offer that was brought back ends again with its last dispatch.
LEMMA PilotCommits == ASSUME PilotInv, NEW t \in open, P!Commit(t) PROVE PilotInv'
<1>0. /\ P!TypeOK /\ QuietInv /\ OpenInv /\ ReleaseInv /\ RetryInv
      /\ pos \in [P!Offer -> Position] /\ disp \in [P!Offer -> Dispatches]
      /\ open \subseteq Transaction /\ drawn \in 0..MaxRequests /\ asked \subseteq 1..drawn
      /\ maint \in [on : BOOLEAN, last : 0..MaxRequests, up : SUBSET P!Offer, out : SUBSET P!Offer]
      /\ MaxRequests \in Nat /\ lost \in BOOLEAN
  BY PilotTyped, PilotConstants DEF PilotInv
<1> DEFINE o == t.o
           status == IF t.at = "holds" THEN t.status ELSE pos[o]
           Concluded == /\ status = "done" /\ t.to = "over" /\ P!Open(o) = {t}
                    /\ \A g \in Group \ {t.g} : disp[o][g] = "over"
           settled == IF Concluded THEN {o} ELSE {}
           D == [disp[o] EXCEPT ![t.g] = t.to]
<1>1. /\ t.at # "counted" /\ open' = open \ {t} /\ pos' = [pos EXCEPT ![o] = status]
      /\ disp' = [disp EXCEPT ![o] = D] /\ asked' = asked \cup ({t.request} \ {0})
      /\ retried' = retried \ settled /\ skewed' = skewed \ settled
      /\ lost' = (lost \/ (maint.on /\ t.request \in 1..maint.last)) /\ passed' = passed
      /\ drawn' = drawn /\ maint' = maint
  BY Zenon DEF P!Commit
<1>2. /\ t \in Transaction /\ o \in P!Offer /\ t.g \in Group /\ t.to \in {"pending", "sending", "over"}
      /\ t.status \in {"scheduled", "sending", "done"} /\ t.at \in {"holds", "same"}
      /\ t.request \in 0..MaxRequests /\ t.request <= drawn
  BY <1>0, <1>1 DEF Transaction, OpenInv
<1>3. D \in Dispatches /\ D[t.g] = t.to /\ \A g \in Group \ {t.g} : D[g] = disp[o][g]
  BY <1>0, <1>2 DEF Dispatches
<1> DEFINE a == P!Aggregate(D)
<1>4. a = "done" <=> \A g \in Group : D[g] = "over"
  BY AggregateEnds
<1>5. o \notin skewed => t.status = a
  BY <1>0, <1>2 DEF ReleaseInv, P!Open
<1>6. status \in Position /\ (t.at = "holds" => status = t.status) /\ (t.at = "same" => status = pos[o])
  BY <1>0, <1>2 DEF Position
<1>7. Concluded => /\ settled = {o} /\ status = "done" /\ t.to = "over" /\ (\A s \in open : s.o = o => s = t)
               /\ \A g \in Group \ {t.g} : disp[o][g] = "over"
  BY DEF P!Open
<1>8. ~Concluded => settled = {}
  OBVIOUS
<1> HIDE DEF D, a, settled, status, Concluded
<1>9. /\ pos' \in [P!Offer -> Position] /\ pos'[o] = status
      /\ \A q \in P!Offer \ {o} : pos'[q] = pos[q]
  BY <1>0, <1>1, <1>2, <1>6, Repositioned
<1>10. /\ disp' \in [P!Offer -> Dispatches] /\ disp'[o] = D
       /\ \A q \in P!Offer \ {o} : disp'[q] = disp[q]
  BY <1>0, <1>1, <1>2, <1>3, Put
<1>11. open' \subseteq open /\ (\A s \in open' : s \in open /\ s # t)
  BY <1>1
\* The dispatch that changes is one: the offer was scheduled.
<1>12. disp[o][t.g] # "none" /\ pos[o] \in {"scheduled", "sending", "done"} /\ pos[o] \notin {"absent", "waiting"}
  <2>1. disp[o][t.g] # "none"
    BY <1>0 DEF OpenInv
  <2>2. pos[o] \notin {"absent", "waiting"} /\ pos[o] \in Position
    BY <1>0, <1>2, <2>1 DEF QuietInv
  <2> QED BY <2>1, <2>2 DEF Position
<1>13. status \in {"scheduled", "sending", "done"}
  BY <1>2, <1>6, <1>12
\* Another transaction of the offer is about another dispatch, and leaves nothing settled.
<1>14. \A s \in open' : s.o = o => s.g # t.g /\ ~Concluded /\ settled = {}
  BY <1>0, <1>7, <1>8, <1>11 DEF OpenInv
<1>15. retried' \subseteq retried /\ skewed' \subseteq skewed /\ (\A q \in P!Offer \ {o} : q \in retried <=> q \in retried')
       /\ (\A q \in P!Offer \ {o} : q \in skewed <=> q \in skewed')
  BY <1>1, <1>7, <1>8
<1>16. P!TypeOK'
  <2>1. asked' \subseteq 1..drawn'
    <3>1. {t.request} \ {0} \subseteq 1..drawn
      BY <1>0, <1>2
    <3> QED BY <1>0, <1>1, <3>1
  <2>2. lost' \in BOOLEAN
    <3>1. (maint.on /\ t.request \in 1..maint.last) \in BOOLEAN
      BY Zenon
    <3> QED BY <1>0, <1>1, <3>1, Zenon
  <2>3. retried' \subseteq P!Offer /\ skewed' \subseteq P!Offer /\ passed \subseteq P!Offer
    BY <1>0, <1>15, PilotTyped
  <2> QED BY <1>0, <1>1, <1>9, <1>10, <1>11, <2>1, <2>2, <2>3, PilotRetyped
<1>17. P!Waiting' = P!Waiting
  BY <1>2, <1>9, <1>12, <1>13 DEF P!Waiting
<1>18. \A q \in P!Offer \ {o} : q \in P!Held' <=> q \in P!Held
  BY <1>9 DEF P!Held
<1>19. /\ (o \in P!Held' <=> status \in {"scheduled", "sending"})
       /\ (o \in P!Held <=> pos[o] \in {"scheduled", "sending"})
  BY <1>2, <1>9 DEF P!Held
<1>20. QuietInv'
  <2> SUFFICES ASSUME NEW q \in P!Offer, pos'[q] \in {"absent", "waiting"}
               PROVE  (\A s \in open' : s.o # q) /\ \A g \in Group : disp'[q][g] = "none"
    BY DEF QuietInv, P!Open
  <2>1. q # o
    BY <1>9, <1>13
  <2>2. pos'[q] = pos[q] /\ disp'[q] = disp[q]
    BY <1>9, <1>10, <2>1
  <2> QED BY <1>0, <1>11, <2>2 DEF QuietInv, P!Open
<1>21. OpenInv'
  <2>1. \A s, u \in open' : s.o = u.o =>
          (s.g = u.g => s = u) /\ (s.at = "holds" /\ u.at = "holds" => s = u)
    BY <1>0, <1>11 DEF OpenInv
  <2>2. ASSUME NEW s \in open'
        PROVE  /\ s.request <= drawn' /\ disp'[s.o][s.g] # "none"
               /\ s.at = "holds" /\ s.status = "done" /\ s.o \in P!Held' => s.request > 0
    <3>1. s \in open /\ s.o \in P!Offer /\ s.g \in Group
      BY <1>0, <1>11 DEF Transaction
    <3>2. /\ s.request <= drawn /\ disp[s.o][s.g] # "none"
          /\ s.at = "holds" /\ s.status = "done" /\ s.o \in P!Held => s.request > 0
      BY <1>0, <3>1 DEF OpenInv
    <3>3. disp'[s.o][s.g] # "none"
      <4>1. CASE s.o = o
        BY <1>3, <1>10, <1>14, <3>1, <3>2, <4>1
      <4>2. CASE s.o # o
        BY <1>10, <3>1, <3>2, <4>2
      <4> QED BY <4>1, <4>2
    <3>4. ASSUME s.at = "holds", s.o \in P!Held' PROVE s.o \in P!Held
      <4>1. CASE s.o = o
        <5>1. t.at # "holds"
          BY <1>0, <1>11, <3>4, <4>1 DEF OpenInv
        <5>2. status = pos[o]
          BY <1>2, <1>6, <5>1
        <5> QED BY <1>19, <3>4, <4>1, <5>2
      <4>2. CASE s.o # o
        BY <1>18, <3>1, <3>4, <4>2
      <4> QED BY <4>1, <4>2
    <3> QED BY <1>1, <3>2, <3>3, <3>4
  <2> QED BY <2>1, <2>2 DEF OpenInv
<1>22. ReleaseInv'
  <2> SUFFICES ASSUME NEW q \in P!Offer \ skewed'
               PROVE  /\ \A s, u \in open' : s.o = q /\ u.o = q => s = u
                      /\ \A s \in open' : s.o = q =>
                           /\ s.status = P!Aggregate([disp'[q] EXCEPT ![s.g] = s.to])
                           /\ s.at = "same" => s.status = pos'[q]
                      /\ q \in P!Held' => \E g \in Group : disp'[q][g] # "over"
    BY DEF ReleaseInv, P!Open
  <2>1. q \notin skewed =>
          /\ \A s, u \in open : s.o = q /\ u.o = q => s = u
          /\ \A s \in open : s.o = q =>
               /\ s.status = P!Aggregate([disp[q] EXCEPT ![s.g] = s.to])
               /\ s.at = "same" => s.status = pos[q]
          /\ q \in P!Held => \E g \in Group : disp[q][g] # "over"
    BY <1>0 DEF ReleaseInv, P!Open
  <2>2. CASE q # o
    <3>1. /\ q \notin skewed /\ pos'[q] = pos[q] /\ disp'[q] = disp[q]
          /\ (q \in P!Held' <=> q \in P!Held)
      BY <1>9, <1>10, <1>15, <1>18, <2>2
    <3> QED BY <1>11, <2>1, <3>1
  <2>3. CASE q = o /\ q \notin skewed
    <3>1. \A s \in open' : s.o # q
      BY <1>11, <2>1, <2>3
    <3>2. ASSUME q \in P!Held' PROVE \E g \in Group : disp'[q][g] # "over"
      <4>1. status = t.status
        BY <1>2, <1>6, <2>1, <2>3
      <4>2. a # "done"
        BY <1>5, <1>19, <2>3, <3>2, <4>1
      <4> QED BY <1>4, <1>10, <2>3, <4>2
    <3> QED BY <3>1, <3>2
  <2>4. CASE q = o /\ Concluded
    <3>1. (\A s \in open' : s.o # q) /\ q \notin P!Held'
      BY <1>7, <1>14, <1>19, <2>4
    <3> QED BY <3>1
  <2>5. q # o \/ (q = o /\ q \notin skewed) \/ (q = o /\ Concluded)
    BY <1>1, <1>8
  <2> QED BY <2>2, <2>3, <2>4, <2>5
\* Who was not brought back does not change a dispatch that is over.
<1>23. disp[o][t.g] = "over" => o \in retried
  BY <1>0 DEF RetryInv
<1>24. o \notin retried /\ pos[o] = "done" => FALSE
  BY <1>0, <1>2, <1>12, <1>23 DEF RetryInv
<1>25. t.status = "done" /\ o \notin retried => t.to = "over" /\ \A g \in Group \ {t.g} : disp[o][g] = "over"
  BY <1>0 DEF RetryInv
<1>26. RetryInv'
  <2>1. ASSUME NEW s \in open', disp'[s.o][s.g] = "over" PROVE s.o \in retried'
    <3>1. s \in open /\ s.o \in P!Offer /\ s.g \in Group
      BY <1>0, <1>11 DEF Transaction
    <3>2. disp[s.o][s.g] = "over"
      BY <1>3, <1>10, <1>14, <2>1, <3>1
    <3>3. s.o \in retried
      BY <1>0, <3>1, <3>2 DEF RetryInv
    <3> QED BY <1>1, <1>14, <1>15, <3>1, <3>3
  <2>2. ASSUME NEW q \in P!Offer \ retried', pos'[q] = "done", NEW g \in Group
        PROVE  disp'[q][g] \in {"over", "none"}
    <3>1. CASE q # o
      BY <1>0, <1>9, <1>10, <1>15, <2>2, <3>1 DEF RetryInv
    <3>2. CASE q = o /\ Concluded
      BY <1>3, <1>7, <1>10, <3>2
    <3>3. CASE q = o /\ ~Concluded
      <4>1. o \notin retried /\ status = "done"
        BY <1>1, <1>8, <1>9, <2>2, <3>3
      <4>2. t.at = "holds" /\ t.status = "done"
        BY <1>2, <1>6, <1>24, <4>1
      <4>3. t.to = "over" /\ \A k \in Group \ {t.g} : disp[o][k] = "over"
        BY <1>25, <4>1, <4>2
      <4> QED BY <1>3, <1>10, <3>3, <4>3
    <3> QED BY <3>1, <3>2, <3>3
  <2>3. ASSUME NEW s \in open', s.status = "done", s.o \notin retried'
        PROVE  s.to = "over" /\ \A g \in Group \ {s.g} : disp'[s.o][g] = "over"
    <3>1. s \in open /\ s.o \in P!Offer /\ s.g \in Group
      BY <1>0, <1>11 DEF Transaction
    <3>2. s.o \notin retried
      BY <1>1, <1>14, <1>15, <2>3, <3>1
    <3>3. s.to = "over" /\ \A g \in Group \ {s.g} : disp[s.o][g] = "over"
      BY <1>0, <2>3, <3>1, <3>2 DEF RetryInv
    <3>4. s.o # o
      BY <1>2, <1>14, <1>23, <2>3, <3>2, <3>3
    <3> QED BY <1>10, <3>1, <3>3, <3>4
  <2> QED BY <2>1, <2>2, <2>3 DEF RetryInv
<1>27. (P!Held \ retried)' \subseteq P!Held \ retried
  <2>1. \A q \in P!Offer \ {o} : q \in (P!Held \ retried)' => q \in P!Held \ retried
    BY <1>15, <1>18
  <2>2. ASSUME o \in P!Held', o \notin retried' PROVE o \in P!Held \ retried
    <3>1. ~Concluded
      BY <1>7, <1>19, <2>2
    <3>2. o \notin retried
      BY <1>1, <1>8, <2>2, <3>1
    <3> QED BY <1>12, <1>19, <1>24, <3>2
  <2>3. P!Held' \subseteq P!Offer
    BY DEF P!Held
  <2> QED BY <1>1, <1>2, <2>1, <2>2, <2>3
\* A slot that is given back has drawn its request.
<1>28. \/ P!Held \subseteq P!Held'
       \/ asked' # {} /\ (maint.on /\ ~lost' => \E i \in asked' : i > maint.last)
  <2>1. CASE o \in P!Held /\ o \notin P!Held'
    <3>1. t.at = "holds" /\ t.status = "done"
      BY <1>2, <1>6, <1>13, <1>19, <2>1
    <3>2. t.request > 0
      BY <1>0, <2>1, <3>1 DEF OpenInv
    <3>3. t.request \in asked' /\ t.request \in Nat /\ maint.last \in Nat
      BY <1>0, <1>1, <1>2, <3>2
    <3>4. maint.on /\ ~lost' => t.request > maint.last
      <4>1. maint.on /\ ~lost' => t.request \notin 1..maint.last
        BY <1>1
      <4> HIDE <1>1
      <4> QED BY <3>2, <3>3, <4>1
    <3> QED BY <3>3, <3>4
  <2>2. CASE ~(o \in P!Held /\ o \notin P!Held')
    <3>1. P!Held \subseteq P!Offer
      BY DEF P!Held
    <3> QED BY <1>18, <2>2, <3>1
  <2> QED BY <2>1, <2>2
<1>29. RunInv' /\ AskInv'
  <2>1. asked \subseteq asked' /\ (lost => lost')
    BY <1>1
  <2> QED BY <1>1, <1>16, <1>17, <1>27, <1>28, <2>1, SlotsKept
<1> QED BY <1>16, <1>20, <1>21, <1>22, <1>26, <1>29 DEF PilotInv

\* Every step of the pilot keeps its invariant.
LEMMA PilotSteps == ASSUME PilotInv, P!Next PROVE PilotInv'
<1>1. ASSUME NEW o \in P!Offer, P!Schedule(o) PROVE PilotInv'
  BY <1>1, PilotSchedules
<1>2. ASSUME NEW o \in P!Offer, P!Reconcile(o) PROVE PilotInv'
  BY <1>2, PilotReconciles
<1>3. ASSUME NEW o \in P!Offer, NEW g \in Group, P!Count(o, g) PROVE PilotInv'
  BY <1>3, PilotCounts
<1>4. ASSUME NEW t \in open, P!Update(t) PROVE PilotInv'
  BY <1>4, PilotUpdates
<1>5. ASSUME NEW t \in open, P!Commit(t) PROVE PilotInv'
  BY <1>5, PilotCommits
<1>6. ASSUME NEW t \in open, P!Abort(t) PROVE PilotInv'
  BY <1>6, PilotAborts
<1>7. CASE P!RunBegin
  BY <1>7, RunStarts
<1>8. CASE P!RunEnd
  BY <1>8, RunCommits
<1>9. CASE P!RunUndone
  BY <1>9, RunUndoes
<1> QED BY <1>1, <1>2, <1>3, <1>4, <1>5, <1>6, <1>7, <1>8, <1>9 DEF P!Next

\* The invariant of the pilot says what its properties do.
LEMMA PilotSafe == PilotInv => P!SlotBound /\ P!WaitingIsAsked /\ P!SlotReleased
<1> SUFFICES ASSUME PilotInv PROVE P!SlotBound /\ P!WaitingIsAsked /\ P!SlotReleased
  OBVIOUS
<1>1. P!Cardinality(P!Held \ retried) = Cardinality(P!Held \ retried)
      /\ P!Cardinality(P!Held) = Cardinality(P!Held)
  BY SameCardinality
<1>2. P!SlotBound
  BY <1>1 DEF PilotInv, RunInv, P!SlotBound
<1>3. P!WaitingIsAsked
  BY <1>1 DEF PilotInv, AskInv, P!WaitingIsAsked
<1>4. P!SlotReleased
  <2>1. P!Held \subseteq P!Offer
    BY HeldOffers
  <2> QED BY <2>1 DEF PilotInv, ReleaseInv, P!SlotReleased
<1> QED BY <1>2, <1>3, <1>4

-----------------------------------------------------------------------------
(* The batch.                                                              *)

\* What a teller has still to do.
TellerState == [at : {"idle", "insert", "owed", "read", "rows", "batch", "batches"},
                sum : B!Active \cup B!Final \cup {"keep"}]

\* The status b agrees with the rows of now.
Agrees(b) == /\ (\A j \in Row : items[j] \in B!Final) => b \in B!Final
             /\ b \in B!Final => \A j \in Row : items[j] \notin B!Waiting

\* The tellers that will still write the status, or see that it is written.
Owing == {"owed", "read", "batch", "batches"}

\* The status that the reader t is about to write.
Outcome(t) == IF teller[t].sum = "keep" THEN batch ELSE teller[t].sum

\* Unless writers overlapped or somebody did not recompute: there are rows when
\* there is a batch and its creator has inserted them; who is about to cancel the
\* batch has left nothing to send; the only reader computed a status that agrees
\* with the rows, unless somebody else will compute it after him; and when nobody
\* owes anything the batch agrees.
BatchTold ==
  /\ batch \in {"none", "deleted"} =>
       /\ \A j \in Row : items[j] = "none"
       /\ \A t \in Teller : teller[t].at \in {"idle", "rows", "batch"}
  /\ batch = "none" => \A t \in Teller : teller[t].at = "idle"
  /\ \A t \in Teller : teller[t].at = "insert" =>
       /\ batch = "pendente" /\ \A j \in Row : items[j] = "none"
       /\ \A u \in Teller \ {t} : teller[u].at \in {"idle", "rows"}
  /\ batch \notin {"none", "deleted"} /\ (\A t \in Teller : teller[t].at # "insert") =>
       \A j \in Row : items[j] # "none"
  /\ \A t \in Teller : teller[t].at = "batch" => \A j \in Row : items[j] \notin B!Waiting
  /\ \A t \in Teller : teller[t].at = "batches" => \A j \in Row : items[j] \in B!Final
  /\ \A t, u \in Teller : teller[t].at = "read" /\ teller[u].at = "read" => t = u
  /\ \A t \in Teller :
       teller[t].at = "read" /\ (\A u \in Teller \ {t} : teller[u].at \notin Owing) => Agrees(Outcome(t))
  /\ (\A t \in Teller : teller[t].at \notin Owing) => Agrees(batch)
\* The inductive invariant of the batch: its type, and what is told while nobody overlapped.
BatchInv == B!TypeOK /\ (~raced /\ ~unpaid => BatchTold)

\* What the type invariant says, in the terms of this module.
LEMMA BatchTyped ==
  ASSUME B!TypeOK
  PROVE  /\ batch \in B!Active \cup B!Final \cup {"none", "deleted"}
         /\ items \in [Row -> B!Active \cup B!Final \cup {"none"}]
         /\ teller \in [Teller -> TellerState]
         /\ raced \in BOOLEAN /\ unpaid \in BOOLEAN /\ mishaps \in 0..MaxMishaps
         /\ Row # {} /\ MaxMishaps \in Nat
  BY ServicesAssumption DEF B!TypeOK, TellerState, B!BatchAssumption

\* Nothing was created.
LEMMA BatchBegins == ASSUME B!Init PROVE BatchInv
<1>1. Row # {} /\ MaxMishaps \in Nat
  BY ServicesAssumption DEF B!BatchAssumption
<1>2. raced = FALSE /\ unpaid = FALSE /\ mishaps = 0
  BY Zenon DEF B!Init
<1>3. raced \in BOOLEAN /\ unpaid \in BOOLEAN
  BY <1>2, Zenon
<1>4. B!TypeOK
  <2>1. mishaps \in 0..MaxMishaps
    BY <1>1, <1>2
  <2>2. teller \in [Teller -> TellerState]
    BY DEF B!Init, B!Idle, TellerState
  <2>3. items \in [Row -> B!Active \cup B!Final \cup {"none"}]
    BY DEF B!Init
  <2> QED BY <1>3, <2>1, <2>2, <2>3 DEF B!Init, B!TypeOK, TellerState
<1>5. BatchTold
  BY <1>1 DEF B!Init, B!Idle, BatchTold, Agrees, B!Final, Owing
<1> QED BY <1>4, <1>5 DEF BatchInv

\* Steps of the other services keep it.
LEMMA BatchStays == ASSUME BatchInv, UNCHANGED bvars PROVE BatchInv'
<1>1. /\ batch' = batch /\ items' = items /\ teller' = teller /\ raced' = raced
      /\ unpaid' = unpaid /\ mishaps' = mishaps
  BY DEF bvars
<1>2. B!TypeOK'
  BY <1>1 DEF BatchInv, B!TypeOK
<1>3. BatchTold => BatchTold'
  BY <1>1 DEF BatchTold, Agrees, Outcome
<1> QED BY <1>1, <1>2, <1>3 DEF BatchInv

\* Teller t goes on to s with the sum v.
TellerAt(t, s, v) ==
  /\ teller' \in [Teller -> TellerState] /\ teller'[t].at = s /\ teller'[t].sum = v
  /\ \A u \in Teller \ {t} : teller'[u] = teller[u]

\* A teller whose outcome does not matter goes on.
LEMMA TellerGoes ==
  ASSUME B!TypeOK, NEW t \in Teller,
         NEW s \in {"idle", "insert", "owed", "rows", "batch", "batches"}, B!Goto(t, s)
  PROVE  TellerAt(t, s, "keep")
<1> DEFINE x == [at |-> s, sum |-> "keep"]
<1>1. teller' = [teller EXCEPT ![t] = x]
  <2>1. [B!Idle EXCEPT !.at = s] = x
    BY DEF B!Idle
  <2> QED BY <2>1, Zenon DEF B!Goto
<1>2. x \in TellerState /\ x.at = s /\ x.sum = "keep"
  BY DEF TellerState
<1> HIDE DEF x
<1> QED BY <1>1, <1>2, BatchTyped, Put DEF TellerAt

\* The status derived from rows that are all there.
LEMMA SumRight ==
  ASSUME NEW r \in [Row -> B!Active \cup B!Final]
  PROVE  /\ B!Sum(r) \in B!Active \cup B!Final
         /\ (\A j \in Row : r[j] \in B!Final) => B!Sum(r) \in B!Final
         /\ B!Sum(r) \in B!Final => \A j \in Row : r[j] \notin B!Waiting
<1>1. Row # {}
  BY ServicesAssumption DEF B!BatchAssumption
<1> QED BY <1>1 DEF B!Sum, B!Has, B!AllIn, B!Active, B!Waiting, B!Final

\* The status derived from any rows.
LEMMA SumTyped ==
  ASSUME NEW r
  PROVE  B!Sum(r) \in B!Active \cup B!Final \cup {"keep"}
  BY DEF B!Sum, B!Active, B!Waiting, B!Final

\* No status is derived from rows that are not there.
LEMMA SumOfNone ==
  ASSUME NEW r, \A j \in Row : r[j] = "none"
  PROVE  B!Sum(r) = "keep"
<1>1. Row # {}
  BY ServicesAssumption DEF B!BatchAssumption
<1> QED BY <1>1 DEF B!Sum, B!Has, B!AllIn, B!Final

\* The batch is created, its rows are not.
LEMMA Creates == ASSUME BatchInv, NEW t \in Teller, B!Create(t) PROVE BatchInv'
<1>1. /\ B!TypeOK /\ batch = "none" /\ batch' = "pendente" /\ TellerAt(t, "insert", "keep")
      /\ items' = items /\ raced' = raced /\ unpaid' = unpaid /\ mishaps' = mishaps
  <2>1. B!TypeOK /\ B!Goto(t, "insert")
    BY DEF BatchInv, B!Create
  <2> QED BY <2>1, TellerGoes DEF B!Create
<1>2. B!TypeOK'
  BY <1>1, BatchTyped DEF B!TypeOK, TellerAt, TellerState, B!Active, B!Waiting
<1>3. ASSUME BatchTold PROVE BatchTold'
  <2>1. /\ \A j \in Row : items[j] = "none" /\ items'[j] = "none"
        /\ \A u \in Teller : teller[u].at = "idle"
    BY <1>1, <1>3 DEF BatchTold
  <2>2. \A u \in Teller \ {t} : teller'[u].at = "idle"
    BY <1>1, <2>1 DEF TellerAt
  <2>3. Agrees(batch)'
    BY <1>1, <2>1, BatchTyped DEF Agrees, B!Final
  <2>4. \A u \in Teller : teller'[u].at \in {"idle", "insert"}
    BY <1>1, <2>2 DEF TellerAt
  <2>5. teller'[t].at = "insert" /\ \A u \in Teller : teller'[u].at = "insert" => u = t
    BY <1>1, <2>2 DEF TellerAt
  <2> QED BY <1>1, <2>1, <2>2, <2>3, <2>4, <2>5 DEF BatchTold
<1> QED BY <1>1, <1>2, <1>3 DEF BatchInv

\* The rows of the batch are inserted.
LEMMA Inserts == ASSUME BatchInv, NEW t \in Teller, B!Insert(t) PROVE BatchInv'
<1>1. /\ B!TypeOK /\ teller[t].at = "insert" /\ TellerAt(t, "idle", "keep") /\ unpaid' = unpaid
  <2>1. B!TypeOK /\ B!Goto(t, "idle")
    BY DEF BatchInv, B!Insert
  <2> QED BY <2>1, TellerGoes DEF B!Insert, B!At
<1>2. CASE items' = [j \in Row |-> "pendente"] /\ B!Touch(t) /\ UNCHANGED <<batch, mishaps>>
  <2>1. raced' \in BOOLEAN /\ (~raced' => ~raced)
    BY <1>2, BatchTyped DEF BatchInv, B!Touch, B!Others
  <2>2. B!TypeOK'
    BY <1>1, <1>2, <2>1, BatchTyped DEF B!TypeOK, TellerAt, TellerState, B!Active, B!Waiting
  <2>3. BatchTold => BatchTold'
    BY <1>1, <1>2, BatchTyped DEF BatchTold, Agrees, Outcome, TellerAt, B!Final, B!Waiting, Owing
  <2> QED BY <1>1, <2>1, <2>2, <2>3 DEF BatchInv
<1>3. CASE batch' = "deleted" /\ B!Mishap /\ UNCHANGED <<items, raced>>
  <2>1. mishaps' \in 0..MaxMishaps
    BY <1>1, <1>3, BatchTyped DEF B!Mishap
  <2>2. B!TypeOK'
    BY <1>1, <1>3, <2>1, BatchTyped DEF B!TypeOK, TellerAt, TellerState
  <2>3. BatchTold => BatchTold'
    BY <1>1, <1>3, BatchTyped DEF BatchTold, Agrees, Outcome, TellerAt, B!Final, B!Waiting, Owing
  <2> QED BY <1>1, <1>3, <2>2, <2>3 DEF BatchInv
<1> QED BY <1>2, <1>3 DEF B!Insert

\* A teller reads the rows and derives the status.
LEMMA Counts == ASSUME BatchInv, NEW t \in Teller, B!Count(t) PROVE BatchInv'
<1>1. /\ B!TypeOK /\ teller[t].at = "owed" /\ TellerAt(t, "read", B!Sum(items))
      /\ batch' = batch /\ items' = items /\ unpaid' = unpaid /\ mishaps' = mishaps
  <2> DEFINE x == [at |-> "read", sum |-> B!Sum(items)]
  <2>1. teller' = [teller EXCEPT ![t] = x]
    BY DEF B!Count
  <2>2. x \in TellerState /\ x.at = "read" /\ x.sum = B!Sum(items)
    BY SumTyped DEF TellerState
  <2> HIDE DEF x
  <2>3. TellerAt(t, "read", B!Sum(items))
    BY <2>1, <2>2, BatchTyped, Put DEF TellerAt, BatchInv
  <2> QED BY <2>3 DEF BatchInv, B!Count, B!At
<1>2. raced' = (raced \/ B!Others(t, {"read", "batch", "batches"}))
  BY DEF B!Count
<1>3. B!TypeOK'
  <2>1. raced' \in BOOLEAN
    BY <1>2, Zenon
  <2> QED BY <1>1, <2>1, BatchTyped DEF B!TypeOK, TellerAt, TellerState
<1>4. ASSUME BatchTold, ~raced' PROVE BatchTold'
  <2>1. \A u \in Teller \ {t} : teller[u].at \notin {"read", "batch", "batches", "insert"}
    BY <1>1, <1>2, <1>4 DEF B!Others, BatchTold
  <2>2. batch \notin {"none", "deleted"} /\ \A j \in Row : items[j] # "none"
    BY <1>1, <1>4, <2>1 DEF BatchTold
  <2>3. Agrees(Outcome(t))'
    <3>1. items \in [Row -> B!Active \cup B!Final]
      BY <1>1, <2>2, BatchTyped
    <3>2. Outcome(t)' = B!Sum(items)
      BY <1>1, <3>1, SumRight DEF Outcome, TellerAt, B!Active, B!Waiting, B!Final
    <3> QED BY <1>1, <3>1, <3>2, SumRight DEF Agrees
  <2> QED BY <1>1, <1>4, <2>1, <2>2, <2>3, BatchTyped DEF BatchTold, TellerAt, Owing
<1> QED BY <1>1, <1>2, <1>3, <1>4 DEF BatchInv

\* A teller writes the status it derived.
LEMMA Writes == ASSUME BatchInv, NEW t \in Teller, B!Write(t) PROVE BatchInv'
<1>1. /\ B!TypeOK /\ teller[t].at = "read" /\ TellerAt(t, "idle", "keep")
      /\ batch' = IF teller[t].sum = "keep" \/ ~B!Exists THEN batch ELSE teller[t].sum
      /\ items' = items /\ unpaid' = unpaid /\ mishaps' = mishaps /\ raced' = raced
  <2>1. B!TypeOK /\ B!Goto(t, "idle")
    BY DEF BatchInv, B!Write
  <2> QED BY <2>1, TellerGoes DEF B!Write, B!At
<1>2. B!TypeOK'
  <2>1. teller[t].sum \in B!Active \cup B!Final \cup {"keep"}
    BY <1>1, BatchTyped DEF TellerState
  <2> QED BY <1>1, <2>1, BatchTyped DEF B!TypeOK, TellerAt, TellerState
<1>3. ASSUME BatchTold PROVE BatchTold'
  <2>1. batch \notin {"none", "deleted"} /\ \A u \in Teller : teller[u].at # "insert"
    BY <1>1, <1>3 DEF BatchTold
  <2>2. B!Exists
    BY <1>1, <2>1, BatchTyped DEF B!Exists
  <2>3. batch' = Outcome(t) /\ batch' \notin {"none", "deleted"}
    BY <1>1, <2>1, <2>2, BatchTyped DEF Outcome, TellerState, B!Active, B!Waiting, B!Final
  <2>4. \A u \in Teller \ {t} : teller[u].at # "read"
    BY <1>1, <1>3 DEF BatchTold
  <2>5. (\A u \in Teller \ {t} : teller[u].at \notin Owing) => Agrees(batch)'
    BY <1>1, <1>3, <2>3 DEF BatchTold, Agrees
  <2> QED BY <1>1, <1>3, <2>1, <2>3, <2>4, <2>5 DEF BatchTold, TellerAt
<1> QED BY <1>1, <1>2, <1>3 DEF BatchInv

\* A teller dies before it recomputes the status.
LEMMA LeavesUnpaid == ASSUME BatchInv, NEW t \in Teller, B!Unpaid(t) PROVE BatchInv'
<1>1. B!TypeOK /\ TellerAt(t, "idle", "keep") /\ batch' = batch /\ items' = items /\ raced' = raced
  <2>1. B!TypeOK /\ B!Goto(t, "idle")
    BY DEF BatchInv, B!Unpaid
  <2> QED BY <2>1, TellerGoes DEF B!Unpaid
<1>2. unpaid' = TRUE /\ mishaps' \in 0..MaxMishaps
  BY <1>1, BatchTyped DEF B!Unpaid, B!Mishap
<1>3. B!TypeOK'
  BY <1>1, <1>2, BatchTyped DEF B!TypeOK, TellerAt, TellerState
<1> QED BY <1>2, <1>3 DEF BatchInv

\* The switch of the pilot changes rows and recomputes nothing.
LEMMA Switches == ASSUME BatchInv, B!SwitchPilot PROVE BatchInv'
<1>1. B!TypeOK /\ unpaid' = TRUE /\ batch' = batch /\ teller' = teller /\ raced' = raced /\ mishaps' = mishaps
  BY DEF BatchInv, B!SwitchPilot
<1>2. items' \in [Row -> B!Active \cup B!Final \cup {"none"}]
  <2>1. PICK r \in {"incerto", "processando"} :
          items' = [j \in Row |-> IF items[j] = "processando" THEN r
                               ELSE B!Becomes(B!Waiting, "cancelado")[j]]
    BY DEF B!SwitchPilot
  <2>2. \A j \in Row : B!Becomes(B!Waiting, "cancelado")[j] \in B!Active \cup B!Final \cup {"none"}
    BY <1>1, BatchTyped DEF B!Becomes, B!Final
  <2>3. r \in B!Active
    BY DEF B!Active, B!Waiting
  <2> QED BY <2>1, <2>2, <2>3
<1>3. B!TypeOK'
  BY <1>1, <1>2 DEF B!TypeOK
<1> QED BY <1>1, <1>3 DEF BatchInv

\* The worker claims a row or moves it on; neither happens in a batch that is over.
LEMMA WorkerMoves == ASSUME BatchInv, NEW j \in Row, B!Claim(j) \/ B!Move(j) PROVE BatchInv'
<1>1. /\ B!TypeOK /\ teller' = teller /\ raced' = raced /\ unpaid' = unpaid /\ mishaps' = mishaps
      /\ items[j] \in {"pendente", "enfileirado"}
      /\ batch' = batch \/ (batch = "pendente" /\ batch' = "processando")
  BY DEF BatchInv, B!Claim, B!Move
<1>2. PICK s \in {"enfileirado", "processando", "pendente"} : items' = [items EXCEPT ![j] = s]
  BY DEF B!Claim, B!Move
<1>3. items' \in [Row -> B!Active \cup B!Final \cup {"none"}] /\ items'[j] = s
      /\ \A i \in Row \ {j} : items'[i] = items[i]
  <2>1. s \in B!Active \cup B!Final \cup {"none"}
    BY DEF B!Active, B!Waiting
  <2> QED BY <1>1, <1>2, <2>1, BatchTyped, Put
<1>4. B!TypeOK'
  BY <1>1, <1>3, BatchTyped DEF B!TypeOK, B!Active, B!Waiting
<1>5. ASSUME BatchTold PROVE BatchTold'
  <2>1. /\ batch \notin {"none", "deleted"} /\ batch' \notin {"none", "deleted"}
        /\ \A t \in Teller : teller[t].at \notin {"insert", "batch", "batches"}
    BY <1>1, <1>5 DEF BatchTold, B!Waiting, B!Final
  <2>2. \A i \in Row : items[i] # "none" /\ items'[i] # "none"
    BY <1>3, <1>5, <2>1 DEF BatchTold
  <2>3. ASSUME NEW b, Agrees(b) PROVE b \notin B!Final /\ Agrees(b)'
    BY <1>1, <1>3, <2>3 DEF Agrees, B!Waiting, B!Final
  <2>4. ASSUME NEW t \in Teller, Agrees(Outcome(t)) PROVE Agrees(Outcome(t))'
    <3>1. Outcome(t)' = Outcome(t) \/ Outcome(t)' = "processando"
      BY <1>1 DEF Outcome
    <3>2. Agrees(Outcome(t))' \/ Outcome(t)' = "processando"
      BY <2>3, <2>4, <3>1 DEF Agrees
    <3> QED BY <1>3, <3>2 DEF Agrees, B!Final
  <2>5. Agrees(batch) => Agrees(batch)'
    <3> SUFFICES ASSUME Agrees(batch) PROVE Agrees(batch)'
      OBVIOUS
    <3>1. CASE batch' = batch
      BY <2>3, <3>1 DEF Agrees
    <3>2. CASE batch' = "processando"
      BY <1>3, <3>2 DEF Agrees, B!Final
    <3> QED BY <1>1, <3>1, <3>2
  <2> QED BY <1>1, <1>5, <2>1, <2>2, <2>4, <2>5 DEF BatchTold
<1> QED BY <1>1, <1>4, <1>5 DEF BatchInv
\* Somebody changes a row and will have the status recomputed.
LEMMA Settled ==
  ASSUME BatchInv, NEW t \in Teller, NEW j \in Row, NEW s \in B!Active \cup B!Final, B!Settle(t, j, s)
  PROVE  BatchInv'
<1>1. /\ B!TypeOK /\ teller[t].at = "idle" /\ TellerAt(t, "owed", "keep")
      /\ batch' = batch /\ unpaid' = unpaid /\ mishaps' = mishaps
  <2>1. B!TypeOK /\ B!Goto(t, "owed")
    BY DEF BatchInv, B!Settle
  <2> QED BY <2>1, TellerGoes DEF B!Settle, B!At
<1>2. items[j] # "none"
  BY DEF B!Settle, B!Ends, B!Recovers, B!Settles, B!Active, B!Waiting, B!Final
<1>3. items' \in [Row -> B!Active \cup B!Final \cup {"none"}] /\ items'[j] = s
      /\ \A i \in Row \ {j} : items'[i] = items[i]
  <2>1. items' = [items EXCEPT ![j] = s]
    BY DEF B!Settle
  <2> QED BY <1>1, <2>1, BatchTyped, Put
<1>4. raced' = (raced \/ B!Others(t, {"batch", "batches"}))
  BY DEF B!Settle, B!Touch
<1>5. B!TypeOK'
  <2>1. raced' \in BOOLEAN
    BY <1>4, Zenon
  <2> QED BY <1>1, <1>3, <2>1, BatchTyped DEF B!TypeOK, TellerAt, TellerState
<1>6. ASSUME BatchTold, ~raced' PROVE BatchTold'
  <2>1. \A u \in Teller : teller[u].at \notin {"batch", "batches"}
    BY <1>1, <1>4, <1>6 DEF B!Others
  <2>2. batch \notin {"none", "deleted"} /\ \A u \in Teller : teller[u].at # "insert"
    BY <1>2, <1>6 DEF BatchTold
  <2>3. \A i \in Row : items'[i] # "none"
    BY <1>3, <1>6, <2>2 DEF BatchTold, B!Active, B!Waiting, B!Final
  <2>4. \A u \in Teller : teller'[u].at \notin {"insert", "batch", "batches"}
    BY <1>1, <2>1, <2>2 DEF TellerAt
  <2>5. teller'[t].at = "owed" /\ \A u \in Teller \ {t} : teller'[u].at = teller[u].at
    BY <1>1 DEF TellerAt
  <2>6. \A u \in Teller : teller'[u].at = "read" => u # t
    BY <2>5
  <2> QED BY <1>1, <1>6, <2>2, <2>3, <2>4, <2>5, <2>6 DEF BatchTold, Owing
<1> QED BY <1>1, <1>4, <1>5, <1>6 DEF BatchInv

\* A transition locks the batch, changes its rows and derives its status at once;
\* while the rows are not there it finds none to change and keeps the status.
LEMMA Transits ==
  ASSUME BatchInv, NEW t \in Teller, NEW r \in [Row -> B!Active \cup B!Final \cup {"none"}],
         \A j \in Row : r[j] = "none" <=> items[j] = "none",
         batch \in B!Active, B!Transition(t, r)
  PROVE  BatchInv'
<1>1. /\ B!TypeOK /\ teller[t].at = "idle" /\ items' = r /\ batch' = B!Now(r)
      /\ teller' = teller /\ unpaid' = unpaid /\ mishaps' = mishaps
  BY DEF BatchInv, B!Transition, B!At
<1>2. raced' = (raced \/ B!Others(t, {"read", "batch", "batches"}))
  BY DEF B!Transition
<1>3. batch' \in B!Active \cup B!Final
  BY <1>1, SumTyped DEF B!Now
<1>4. B!TypeOK'
  <2>1. raced' \in BOOLEAN
    BY <1>2, Zenon
  <2> QED BY <1>1, <1>3, <2>1, BatchTyped DEF B!TypeOK, TellerState
<1>5. ASSUME BatchTold, ~raced' PROVE BatchTold'
  <2>1. \A u \in Teller : teller[u].at \notin {"read", "batch", "batches"}
    BY <1>1, <1>2, <1>5 DEF B!Others
  <2>2. batch' \notin {"none", "deleted"} /\ batch \notin {"none", "deleted"}
    BY <1>3 DEF B!Active, B!Waiting, B!Final
  <2>3. CASE \E u \in Teller : teller[u].at = "insert"
    <3>1. batch = "pendente" /\ \A j \in Row : items[j] = "none"
      BY <1>5, <2>3 DEF BatchTold
    <3>2. \A j \in Row : items'[j] = "none"
      BY <1>1, <3>1
    <3>3. B!Sum(r) = "keep"
      BY <1>1, <3>2, SumOfNone
    <3>4. batch' = "pendente"
      BY <1>1, <3>1, <3>3 DEF B!Now
    <3>5. Agrees(batch)'
      BY <1>1, <3>2, <3>4, BatchTyped DEF Agrees, B!Final
    <3> QED BY <1>1, <1>5, <2>1, <2>3, <3>2, <3>4, <3>5 DEF BatchTold
  <2>4. CASE \A u \in Teller : teller[u].at # "insert"
    <3>1. \A j \in Row : items[j] # "none"
      BY <1>5, <2>2, <2>4 DEF BatchTold
    <3>2. r \in [Row -> B!Active \cup B!Final]
      BY <3>1
    <3>3. batch' = B!Sum(r)
      BY <1>1, <3>2, SumRight DEF B!Now, B!Active, B!Waiting, B!Final
    <3>4. Agrees(batch)'
      BY <1>1, <3>2, <3>3, SumRight DEF Agrees
    <3>5. \A j \in Row : items'[j] # "none"
      BY <1>1, <3>1
    <3> QED BY <1>1, <2>1, <2>2, <2>4, <3>4, <3>5 DEF BatchTold
  <2> QED BY <2>3, <2>4
<1> QED BY <1>1, <1>2, <1>4, <1>5 DEF BatchInv

\* The rows after the ones in some states go to another.
LEMMA BecomesTyped ==
  ASSUME B!TypeOK, NEW Of \in SUBSET B!Active, NEW s \in B!Active \cup B!Final
  PROVE  /\ B!Becomes(Of, s) \in [Row -> B!Active \cup B!Final \cup {"none"}]
         /\ \A j \in Row : B!Becomes(Of, s)[j] = IF items[j] \in Of THEN s ELSE items[j]
         /\ \A j \in Row : B!Becomes(Of, s)[j] = "none" <=> items[j] = "none"
<1>1. \A j \in Row : B!Becomes(Of, s)[j] = IF items[j] \in Of THEN s ELSE items[j]
  BY DEF B!Becomes
<1>2. "none" \notin B!Active \cup B!Final
  BY DEF B!Active, B!Waiting, B!Final
<1>3. B!Becomes(Of, s) \in [Row -> B!Active \cup B!Final \cup {"none"}]
  BY BatchTyped DEF B!Becomes
<1> QED BY <1>1, <1>2, <1>3

\* The requests that change the rows and the batch in two steps.
LEMMA Requests ==
  ASSUME BatchInv, NEW t \in Teller, B!Pause(t) \/ B!Resume(t) \/ B!Cancel(t)
  PROVE  BatchInv'
<1> USE DEF B!Active, B!Waiting, B!Final
<1>1. B!TypeOK
  BY DEF BatchInv
<1>2. CASE B!Pause(t)
  BY <1>1, <1>2, BecomesTyped, Transits DEF B!Pause
<1>3. CASE B!Resume(t)
  BY <1>1, <1>3, BecomesTyped, Transits DEF B!Resume
<1>4. CASE B!Cancel(t)
  BY <1>1, <1>4, BecomesTyped, Transits DEF B!Cancel
<1> QED BY <1>2, <1>3, <1>4

\* cancel-many begins where nothing waits.
LEMMA CancelsMany == ASSUME BatchInv, NEW t \in Teller, B!CancelMany(t) PROVE BatchInv'
<1>1. /\ B!TypeOK /\ teller[t].at = "idle" /\ TellerAt(t, "rows", "keep") /\ batch \in B!Active
      /\ batch' = batch /\ items' = items /\ raced' = raced /\ unpaid' = unpaid /\ mishaps' = mishaps
  <2>1. B!TypeOK /\ B!Goto(t, "rows")
    BY DEF BatchInv, B!CancelMany
  <2> QED BY <2>1, TellerGoes DEF B!CancelMany, B!At
<1>2. B!TypeOK'
  BY <1>1 DEF B!TypeOK, TellerAt, TellerState
<1>3. ASSUME BatchTold PROVE BatchTold'
  <2>1. batch \notin {"none", "deleted"}
    BY <1>1 DEF B!Active, B!Waiting
  <2>2. teller'[t].at = "rows" /\ \A u \in Teller \ {t} : teller'[u] = teller[u]
    BY <1>1 DEF TellerAt
  <2>3. \A u \in Teller : (teller'[u].at \in Owing <=> teller[u].at \in Owing)
    BY <1>1, <2>2 DEF Owing
  <2>4. \A u \in Teller : teller'[u].at \in {"read", "insert", "batch", "batches"} => u # t
    BY <2>2
  <2>5. \A u \in Teller : teller'[u].at = "read" => Outcome(u)' = Outcome(u)
    BY <1>1, <2>2, <2>4 DEF Outcome
  <2>6. \A b : Agrees(b)' <=> Agrees(b)
    BY <1>1 DEF Agrees
  <2>7. ASSUME NEW u \in Teller, teller'[u].at = "read",
               \A v \in Teller \ {u} : teller'[v].at \notin Owing
        PROVE  Agrees(Outcome(u))'
    <3>1. Agrees(Outcome(u))
      BY <1>3, <2>2, <2>3, <2>4, <2>7 DEF BatchTold
    <3> QED BY <1>1, <2>5, <2>7, <3>1 DEF Agrees
  <2>8. (\A u \in Teller : teller'[u].at \notin Owing) => Agrees(batch)'
    BY <1>1, <1>3, <2>3 DEF BatchTold, Agrees
  <2>9. \A u \in Teller : (teller'[u].at = "insert" <=> teller[u].at = "insert")
    BY <1>1, <2>2
  <2>10. ASSUME NEW u \in Teller, teller'[u].at = "insert"
         PROVE  /\ batch = "pendente" /\ \A j \in Row : items[j] = "none"
                /\ \A v \in Teller \ {u} : teller'[v].at \in {"idle", "rows"}
    BY <1>3, <2>2, <2>9, <2>10 DEF BatchTold
  <2>11. \A u \in Teller : teller'[u].at \in {"read", "batch", "batches"} => teller[u].at = teller'[u].at
    BY <2>2, <2>4
  <2> QED BY <1>1, <1>3, <2>1, <2>7, <2>8, <2>9, <2>10, <2>11 DEF BatchTold
<1> QED BY <1>1, <1>2, <1>3 DEF BatchInv

\* The rows are swept before the batch is cancelled.
LEMMA Sweeps ==
  ASSUME BatchInv, NEW t \in Teller, B!CancelRows(t) \/ B!DeleteNumber(t)
  PROVE  BatchInv'
<1>1. B!TypeOK /\ batch' = batch /\ unpaid' = unpaid /\ mishaps' = mishaps
  BY DEF BatchInv, B!CancelRows, B!DeleteNumber, B!Sweep
<1>2. raced' = (raced \/ B!Others(t, {"insert", "batch", "batches"}))
  BY DEF B!CancelRows, B!DeleteNumber, B!Sweep
<1>3. raced' \in BOOLEAN
  BY <1>2, Zenon
<1>4. (B!CancelRows(t) => TellerAt(t, "batch", "keep")) /\ (B!DeleteNumber(t) => TellerAt(t, "batches", "keep"))
  BY <1>1, TellerGoes DEF B!CancelRows, B!DeleteNumber, B!Sweep
<1>5. /\ items' \in [Row -> B!Active \cup B!Final \cup {"none"}]
      /\ \A j \in Row : items'[j] = "none" <=> items[j] = "none"
      /\ B!CancelRows(t) => \A j \in Row : items'[j] \notin B!Waiting
      /\ B!DeleteNumber(t) => \A j \in Row : items'[j] \notin B!Active
  <2>1. CASE B!CancelRows(t)
    <3>1. items' = B!Becomes(B!Waiting \cup {"incerto"}, "cancelado")
      BY <2>1 DEF B!CancelRows
    <3>2. B!Waiting \cup {"incerto"} \in SUBSET B!Active /\ "cancelado" \in B!Active \cup B!Final
      BY DEF B!Active, B!Waiting, B!Final
    <3>3. "cancelado" \notin B!Waiting
      BY DEF B!Waiting
    <3>4. ~B!DeleteNumber(t)
      BY <2>1 DEF B!CancelRows, B!DeleteNumber, B!At
    <3> QED BY <1>1, <3>1, <3>2, <3>3, <3>4, BecomesTyped
  <2>2. CASE B!DeleteNumber(t)
    <3>1. items' = B!Becomes(B!Active, "erro")
      BY <2>2 DEF B!DeleteNumber
    <3>2. B!Active \in SUBSET B!Active /\ "erro" \in B!Active \cup B!Final
      BY DEF B!Active, B!Waiting, B!Final
    <3>3. "erro" \notin B!Active
      BY DEF B!Active, B!Waiting
    <3>4. ~B!CancelRows(t)
      BY <2>2 DEF B!CancelRows, B!DeleteNumber, B!At
    <3> QED BY <1>1, <3>1, <3>2, <3>3, <3>4, BecomesTyped
  <2> QED BY <2>1, <2>2
<1>6. teller' \in [Teller -> TellerState] /\ \A u \in Teller \ {t} : teller'[u] = teller[u]
  BY <1>4 DEF TellerAt
<1>7. B!TypeOK'
  BY <1>1, <1>3, <1>5, <1>6, BatchTyped DEF B!TypeOK, TellerState
<1>8. ASSUME BatchTold, ~raced' PROVE BatchTold'
  <2>1. \A u \in Teller \ {t} : teller'[u].at = teller[u].at /\ teller'[u].at \notin {"insert", "batch", "batches"}
    BY <1>2, <1>6, <1>8 DEF B!Others
  <2>2. CASE B!CancelRows(t)
    <3>1. teller[t].at = "rows" /\ teller'[t].at = "batch"
      BY <1>4, <2>2 DEF B!CancelRows, B!At, TellerAt
    <3>2. batch # "none" /\ \A u \in Teller : teller[u].at # "insert"
      BY <1>8, <2>1, <3>1 DEF BatchTold
    <3>3. \A u \in Teller : teller'[u].at \notin {"insert", "batches"}
      BY <2>1, <3>1
    <3>4. batch = "deleted" => \A u \in Teller : teller'[u].at \in {"idle", "rows", "batch"}
      BY <1>8, <2>1, <3>1 DEF BatchTold
    <3>5. \A u \in Teller : teller'[u].at = "read" => u # t /\ teller[u].at = "read"
      BY <2>1, <3>1
    <3>6. \A j \in Row : items'[j] \notin B!Waiting
      BY <1>5, <2>2
    <3> QED BY <1>1, <1>5, <1>8, <3>1, <3>2, <3>3, <3>4, <3>5, <3>6 DEF BatchTold, Owing
  <2>3. CASE B!DeleteNumber(t)
    <3>1. teller[t].at = "idle" /\ teller'[t].at = "batches" /\ batch \notin {"none", "deleted"}
      BY <1>4, <2>3 DEF B!DeleteNumber, B!At, TellerAt, B!Exists, B!Active, B!Waiting, B!Final
    <3>2. \A u \in Teller : teller[u].at # "insert"
      BY <2>1, <3>1
    <3>3. \A u \in Teller : teller'[u].at \notin {"insert", "batch"}
      BY <2>1, <3>1
    <3>4. \A u \in Teller : teller'[u].at = "read" => u # t /\ teller[u].at = "read"
      BY <2>1, <3>1
    <3>5. \A j \in Row : items'[j] \in B!Final /\ items'[j] # "none"
      BY <1>5, <1>8, <2>3, <3>1, <3>2 DEF BatchTold
    <3> QED BY <1>1, <1>8, <3>1, <3>2, <3>3, <3>4, <3>5 DEF BatchTold, Owing
  <2> QED BY <2>2, <2>3 
<1> QED BY <1>1, <1>2, <1>7, <1>8 DEF BatchInv

\* The batch is cancelled after its rows.
LEMMA CancelsBatch == ASSUME BatchInv, NEW t \in Teller, B!CancelBatch(t) PROVE BatchInv'
<1>1. /\ B!TypeOK /\ TellerAt(t, "idle", "keep")
      /\ items' = items /\ unpaid' = unpaid /\ mishaps' = mishaps
  <2>1. B!TypeOK /\ B!Goto(t, "idle")
    BY DEF BatchInv, B!CancelBatch
  <2> QED BY <2>1, TellerGoes DEF B!CancelBatch
<1>2. raced' = (raced \/ B!Others(t, {"read"}))
  BY DEF B!CancelBatch
<1>3. /\ teller[t].at \in {"batch", "batches"} /\ batch' \in {batch, "cancelado"}
      /\ teller[t].at = "batch" /\ B!Exists => batch' = "cancelado"
      /\ teller[t].at = "batches" /\ batch \in B!Active => batch' = "cancelado"
      /\ batch \in {"none", "deleted"} => batch' = batch
  BY DEF B!CancelBatch, B!At, B!Exists, B!Active, B!Waiting, B!Final
<1>4. B!TypeOK'
  <2>1. raced' \in BOOLEAN
    BY <1>2, Zenon
  <2>2. batch' \in B!Active \cup B!Final \cup {"none", "deleted"}
    BY <1>1, <1>3, BatchTyped DEF B!Final
  <2> QED BY <1>1, <2>1, <2>2, BatchTyped DEF B!TypeOK, TellerAt, TellerState
<1>5. ASSUME BatchTold, ~raced' PROVE BatchTold'
  <2>1. teller'[t].at = "idle" /\ \A u \in Teller \ {t} : teller'[u] = teller[u] /\ teller'[u].at # "read"
    BY <1>1, <1>2, <1>5 DEF TellerAt, B!Others
  <2>2. \A u \in Teller : teller[u].at # "insert" /\ teller'[u].at # "insert"
    BY <1>3, <1>5, <2>1 DEF BatchTold
  <2>3. \A u \in Teller : teller'[u].at # "read"
    BY <2>1
  <2>4. batch # "none" /\ batch' # "none"
    BY <1>3, <1>5 DEF BatchTold
  <2>5. batch' = "deleted" <=> batch = "deleted"
    BY <1>1, <1>3, BatchTyped
  <2>6. Agrees(batch)'
    <3>1. \A j \in Row : items[j] \notin B!Waiting
      BY <1>3, <1>5 DEF BatchTold, B!Final, B!Waiting
    <3>2. CASE batch = "deleted"
      BY <1>1, <1>3, <1>5, <3>1, <3>2, BatchTyped DEF Agrees, BatchTold, B!Final
    <3>3. CASE batch # "deleted"
      <4>1. batch \in B!Active \cup B!Final /\ B!Exists
        BY <1>1, <2>4, <3>3, BatchTyped DEF B!Exists
      <4>2. batch' \in B!Final
        BY <1>3, <4>1 DEF B!Final
      <4> QED BY <1>1, <3>1, <4>2 DEF Agrees
    <3> QED BY <3>2, <3>3
  <2>7. \A u \in Teller : teller'[u].at \in {"rows", "batch", "batches"} => teller[u].at = teller'[u].at
    BY <2>1
  <2>8. batch = "deleted" => \A u \in Teller : teller'[u].at \in {"idle", "rows", "batch"}
    BY <1>5, <2>1 DEF BatchTold
  <2> QED BY <1>1, <1>5, <2>2, <2>3, <2>4, <2>5, <2>6, <2>7, <2>8 DEF BatchTold
<1> QED BY <1>1, <1>2, <1>4, <1>5 DEF BatchInv

\* Every step of the batch keeps its invariant.
LEMMA BatchSteps == ASSUME BatchInv, B!Next PROVE BatchInv'
<1>1. CASE B!SwitchPilot
  BY <1>1, Switches
<1>2. ASSUME NEW j \in Row, B!Claim(j) \/ B!Move(j) PROVE BatchInv'
  BY <1>2, WorkerMoves
<1>3. ASSUME NEW t \in Teller, B!Create(t) \/ B!Insert(t) \/ B!Count(t) \/ B!Write(t) \/ B!Unpaid(t)
      PROVE  BatchInv'
  BY <1>3, Creates, Inserts, Counts, Writes, LeavesUnpaid
<1>4. ASSUME NEW t \in Teller, NEW j \in Row, NEW s \in B!Active \cup B!Final, B!Settle(t, j, s)
      PROVE  BatchInv'
  BY <1>4, Settled
<1>5. ASSUME NEW t \in Teller, \/ B!Pause(t) \/ B!Resume(t) \/ B!Cancel(t) \/ B!CancelMany(t)
                               \/ B!CancelRows(t) \/ B!DeleteNumber(t) \/ B!CancelBatch(t)
      PROVE  BatchInv'
  BY <1>5, Requests, CancelsMany, Sweeps, CancelsBatch
<1> QED BY <1>1, <1>2, <1>3, <1>4, <1>5 DEF B!Next

\* The invariant of the batch says what its property does.
LEMMA BatchSafe == ASSUME BatchInv PROVE B!AgreesWithItsRows
<1> SUFFICES ASSUME B!Told
             PROVE  /\ B!AllIn(items, B!Final) => batch \in B!Final
                    /\ batch \in B!Final => B!NothingWaits
  BY DEF B!AgreesWithItsRows
<1>1. B!TypeOK /\ Agrees(batch)
  BY DEF BatchInv, B!Told, B!At, BatchTold, Owing
<1> QED BY <1>1, BatchTyped DEF Agrees, B!AllIn, B!NothingWaits

-----------------------------------------------------------------------------
(* The three together.                                                     *)

\* The invariants of the offer, the pilot and the batch.
PublishingInv == OfferInv /\ PilotInv /\ BatchInv

\* They hold in every state.
THEOREM PublishingInvariance == Spec => []PublishingInv
<1>1. Init => PublishingInv
  <2> SUFFICES ASSUME Init PROVE PublishingInv
    OBVIOUS
  <2>1. links \subseteq O!Provider
    BY Providers DEF Init
  <2>2. O!Init /\ P!Init /\ B!Init
    BY DEF Init
  <2> QED BY <2>1, <2>2, OfferBegins, PilotBegins, BatchBegins DEF PublishingInv
<1>2. PublishingInv /\ [Next]_vars => PublishingInv'
  <2> SUFFICES ASSUME PublishingInv, [Next]_vars PROVE PublishingInv'
    OBVIOUS
  <2>1. OfferInv'
    BY OneServiceSteps, OfferSteps, OfferStays DEF PublishingInv
  <2>2. PilotInv'
    BY OneServiceSteps, PilotSteps, PilotStays DEF PublishingInv
  <2>3. BatchInv'
    BY OneServiceSteps, BatchSteps, BatchStays DEF PublishingInv
  <2> QED BY <2>1, <2>2, <2>3 DEF PublishingInv
<1> QED
  BY <1>1, <1>2, PTL DEF Spec

\* An offer that waits has no link unconverted against the policy, whatever the
\* worker that lost it to another still writes (offer-processor.ts); unless a worker
\* recovered a row that it was still processing itself (`overlap`).
THEOREM ConvertedOrAllowedHolds == Spec => []ConvertedOrAllowed
<1>1. PublishingInv => ConvertedOrAllowed
  BY OfferSafe DEF PublishingInv, ConvertedOrAllowed
<1> QED
  BY <1>1, PublishingInvariance, PTL

\* A pilot holds no more offers than it has slots, but for those people brought
\* back, though offers end while others are promoted (promote_waiting_pilot_offers).
THEOREM SlotBoundHolds == Spec => []SlotBound
<1>1. PublishingInv => SlotBound
  BY PilotSafe DEF PublishingInv, SlotBound
<1> QED
  BY <1>1, PublishingInvariance, PTL

\* Between runs, while a slot is free, an offer that waits has a request, unless the
\* last run passed it over (`passed`) or deleted a request that it had not read
\* (`lost`) (run_pilot_maintenance, promote_waiting_pilot_offers).
THEOREM WaitingIsAskedHolds == Spec => []WaitingIsAsked
<1>1. PublishingInv => WaitingIsAsked
  BY PilotSafe DEF PublishingInv, WaitingIsAsked
<1> QED
  BY <1>1, PublishingInvariance, PTL

\* An offer gives its slot back with its last dispatch, unless two of them were
\* changed at once (sync_pilot_delivery_from_group_dispatch).
THEOREM SlotReleasedHolds == Spec => []SlotReleased
<1>1. PublishingInv => SlotReleased
  BY PilotSafe DEF PublishingInv, SlotReleased
<1> QED
  BY <1>1, PublishingInvariance, PTL

\* When nobody is about to write it, the status of a batch agrees with its rows,
\* unless two writers of it overlapped or a change of a row was never recomputed
\* (recalc_lote_counts).
THEOREM AgreesWithItsRowsHolds == Spec => []AgreesWithItsRows
<1>1. PublishingInv => AgreesWithItsRows
  BY BatchSafe DEF PublishingInv, AgreesWithItsRows
<1> QED
  BY <1>1, PublishingInvariance, PTL

\* Every variable of every service has its type.
THEOREM ServicesTyped == Spec => []TypeOK
<1>1. ServicesInv /\ EventsInv /\ PublishingInv => TypeOK
  <2> SUFFICES ASSUME ServicesInv, EventsInv, PublishingInv PROVE TypeOK
    OBVIOUS
  <2>1. R!TypeOK /\ M!TypeOK /\ T!TypeOK /\ A!TypeOK /\ I!TypeOK /\ S!TypeOK
    BY DEF ServicesInv, RelayInv, MediaInv, TokensInv, AccountInv, SilenceInv, SessionInv
  <2>2. E!TypeOK
    BY DEF EventsInv
  <2>3. O!TypeOK /\ P!TypeOK /\ B!TypeOK
    BY DEF PublishingInv, OfferInv, PilotInv, BatchInv
  <2> QED BY <2>1, <2>2, <2>3 DEF TypeOK
<1> QED
  BY <1>1, ServicesInvariance, EventsInvariance, PublishingInvariance, PTL
=============================================================================
