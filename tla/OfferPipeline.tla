---------------------------- MODULE OfferPipeline ----------------------------
(***************************************************************************)
(* One offer captured from a group (offers/offer-processor.ts), from the   *)
(* message to the waiting queue of its pilot.  A worker processes it in    *)
(* steps that read and write the row over the network; a row whose         *)
(* deadline passes is claimed again (offer-recovery.ts), perhaps by a      *)
(* worker that is still processing it.  Writes are fenced by the status    *)
(* and by the worker's name, not by the run.  The automation's policy and  *)
(* links do not change while the offer is processed.                       *)
(***************************************************************************)
EXTENDS Naturals, Sequences

CONSTANTS Worker, Run, NoWorker,
          Owner,         \* [Run -> Worker]
          MaxToggles,    \* bound on switching the pilot on and off
          MaxSetbacks    \* bound on crashes, slow runs and failed resumptions

OfferAssumption ==
  /\ Owner \in [Run -> Worker] /\ NoWorker \notin Worker
  /\ MaxToggles \in Nat /\ MaxSetbacks \in Nat

\* The order in which process() converts the links.
Order == <<"shopee", "mercado_livre", "amazon">>
Provider == {Order[i] : i \in 1..Len(Order)}

VARIABLES
  offer,    \* the row of captured_offers; text: providers whose links its text has converted
  step,     \* step[u]: what run u of process() does next
  pilot,    \* enabled; fresh: the message is not older than pilot_reset_at
  links, policy,
  overlap,  \* observer: a worker claimed the row while it was processing it
  toggles, setbacks

vars == <<offer, step, pilot, links, policy, overlap, toggles, setbacks>>

Out == [at |-> "out", left |-> {}, text |-> {}, again |-> FALSE]

TypeOK ==
  /\ offer \in [status : {"absent", "processing", "ignored", "failed", "ready", "waiting"},
                worker : Worker \cup {NoWorker}, live : BOOLEAN, text : SUBSET Provider]
  /\ step \in [Run -> [at : {"out", "insert", "gate", "convert", "schedule"},
                       left : SUBSET Provider, text : SUBSET Provider, again : BOOLEAN]]
  /\ pilot \in [enabled : BOOLEAN, fresh : BOOLEAN]
  /\ links \subseteq Provider /\ policy \in {"pause", "send_original"}
  /\ overlap \in BOOLEAN /\ toggles \in 0..MaxToggles /\ setbacks \in 0..MaxSetbacks

Init ==
  /\ offer = [status |-> "absent", worker |-> NoWorker, live |-> FALSE, text |-> {}]
  /\ step = [u \in Run |-> Out]
  /\ pilot = [enabled |-> TRUE, fresh |-> TRUE]
  /\ links \in SUBSET Provider \ {{}}
  /\ policy \in {"pause", "send_original"}
  /\ overlap = FALSE /\ toggles = 0 /\ setbacks = 0

Kept == <<links, policy, toggles>>
Setback == setbacks < MaxSetbacks /\ setbacks' = setbacks + 1
Leave(u) == step' = [step EXCEPT ![u] = Out]

\* Mutant of Mine: the fence forgets the worker.
AnyWorker(u) == offer.status = "processing"
\* .eq("status", "processing").eq("processing_worker_id", env.INSTANCE_ID)
Mine(u) == offer.status = "processing" /\ offer.worker = Owner[u]

\* An update of the row that ends its processing, if it is still the worker's.
End(u, s) == offer' = IF Mine(u) THEN [offer EXCEPT !.status = s, !.worker = NoWorker,
                                                    !.live = FALSE]
                      ELSE offer
Write(u, t) == offer' = IF Mine(u) THEN [offer EXCEPT !.text = t] ELSE offer

-----------------------------------------------------------------------------
(* Processing.                                                             *)

\* monitorOfferMessages, up to the first look at the automation.
Capture(u) ==
  /\ step[u].at = "out" /\ offer.status = "absent" /\ pilot.enabled
  /\ step' = [step EXCEPT ![u].at = "insert"]
  /\ UNCHANGED <<offer, pilot, Kept, overlap, setbacks>>

\* A message delivered twice is inserted once (23505).
Insert(u) ==
  /\ step[u].at = "insert"
  /\ \/ offer.status # "absent" /\ Leave(u) /\ UNCHANGED offer
     \/ /\ offer.status = "absent"
        /\ offer' = [offer EXCEPT !.status = "processing", !.worker = Owner[u], !.live = TRUE]
        /\ step' = [step EXCEPT ![u].at = "gate"]
  /\ UNCHANGED <<pilot, Kept, overlap, setbacks>>

\* No supported link or a store not connected; a short link that must not be
\* forwarded, or media lost in a restart.
Gate(u) ==
  /\ step[u].at = "gate"
  /\ \/ \E s \in {"ignored", "failed"} : End(u, s) /\ Leave(u)
     \/ /\ step' = [step EXCEPT ![u].at = "convert", ![u].left = links, ![u].text = {}]
        /\ UNCHANGED offer
  /\ UNCHANGED <<pilot, Kept, overlap, setbacks>>

\* stopIfDisabled, before and after every conversion.
Halt(u) ==
  /\ step[u].at = "convert" /\ ~pilot.enabled
  /\ End(u, "ignored") /\ Leave(u)
  /\ UNCHANGED <<pilot, Kept, overlap, setbacks>>

Current(u) == CHOOSE p \in step[u].left :
  \E i \in 1..Len(Order) : Order[i] = p /\ \A j \in 1..(i - 1) : Order[j] \notin step[u].left

Convert(u) ==
  /\ step[u].at = "convert" /\ step[u].left # {}
  /\ Write(u, step[u].text \cup {Current(u)})
  /\ step' = [step EXCEPT ![u].left = @ \ {Current(u)}, ![u].text = @ \cup {Current(u)}]
  /\ UNCHANGED <<pilot, Kept, overlap, setbacks>>

MayPass(p) == policy = "send_original" /\ p # "amazon"

ConversionFails(u) ==
  /\ step[u].at = "convert" /\ step[u].left # {}
  /\ \/ /\ MayPass(Current(u)) /\ UNCHANGED offer
        /\ step' = [step EXCEPT ![u].left = @ \ {Current(u)}]
     \/ ~MayPass(Current(u)) /\ End(u, "failed") /\ Leave(u)
  /\ UNCHANGED <<pilot, Kept, overlap, setbacks>>

\* The rewriting and the last update of the text.
Persist(u) ==
  /\ step[u].at = "convert" /\ step[u].left = {}
  /\ Write(u, step[u].text) /\ step' = [step EXCEPT ![u].at = "schedule"]
  /\ UNCHANGED <<pilot, Kept, overlap, setbacks>>

\* The catch of process(): an expired row is left to the recovery.
Caught(u) ==
  /\ Leave(u)
  /\ offer' = IF Mine(u) /\ offer.live
              THEN [offer EXCEPT !.status = "failed", !.worker = NoWorker, !.live = FALSE]
              ELSE offer

Throw(u) ==
  /\ step[u].at \in {"convert", "schedule"} /\ Caught(u)
  /\ UNCHANGED <<pilot, Kept, overlap, setbacks>>

\* schedule_pilot_offer fences only the rows that are being processed; one that
\* another run left ready, without destinations, any worker schedules.
MaySchedule(u) == offer.status = "ready" \/ (Mine(u) /\ offer.live)

\* schedule_pilot_offer.
Schedule(u) ==
  /\ step[u].at = "schedule"
  /\ \/ offer.status = "waiting" /\ Leave(u) /\ UNCHANGED offer
     \/ offer.status # "waiting" /\ ~MaySchedule(u) /\ Caught(u)
     \/ /\ MaySchedule(u) /\ Leave(u)
        /\ \E s \in IF pilot.enabled /\ pilot.fresh
                    THEN {"waiting", "ready", "ignored"} ELSE {"ignored"} :
             offer' = [offer EXCEPT !.status = s, !.worker = NoWorker, !.live = FALSE]
  /\ UNCHANGED <<pilot, Kept, overlap, setbacks>>

-----------------------------------------------------------------------------
(* Time, failures and recovery.                                            *)

Running(w) == \E u \in Run : Owner[u] = w /\ step[u].at # "out"

\* processing_deadline_at passes, with a slow run or after a death.
Expire ==
  /\ offer.status = "processing" /\ offer.live
  /\ offer' = [offer EXCEPT !.live = FALSE]
  /\ IF Running(offer.worker) THEN Setback ELSE UNCHANGED setbacks
  /\ UNCHANGED <<step, pilot, Kept, overlap>>

\* Mutant of Interrupted: only rows that no worker holds are claimed again.
InterruptedFree == offer.status = "processing" /\ offer.worker = NoWorker
Interrupted == offer.status = "processing" /\ ~offer.live

\* claim_interrupted_pilot_offers and resume; one at a time per worker.
Recover(u) ==
  /\ step[u].at = "out" /\ Interrupted /\ pilot.enabled /\ pilot.fresh
  /\ ~\E v \in Run : Owner[v] = Owner[u] /\ step[v].again
  /\ offer' = [offer EXCEPT !.worker = Owner[u], !.live = TRUE]
  /\ step' = [step EXCEPT ![u] = [Out EXCEPT !.at = "gate", !.again = TRUE]]
  /\ overlap' = (overlap \/ Running(Owner[u]))
  /\ UNCHANGED <<pilot, Kept, setbacks>>

\* resume throws before process(): the row waits for its next deadline.
ResumeFails(u) ==
  /\ step[u].at = "gate" /\ step[u].again /\ Setback /\ Leave(u)
  /\ UNCHANGED <<offer, pilot, Kept, overlap>>

Die(w) ==
  /\ Running(w) /\ Setback
  /\ step' = [u \in Run |-> IF Owner[u] = w THEN Out ELSE step[u]]
  /\ UNCHANGED <<offer, pilot, Kept, overlap>>

\* reset_pilot_on_toggle, in both directions.
Toggle ==
  /\ toggles < MaxToggles /\ toggles' = toggles + 1
  /\ pilot' = [enabled |-> ~pilot.enabled, fresh |-> FALSE]
  /\ offer' = IF pilot.enabled /\ offer.status \notin {"absent", "ignored"}
              THEN [offer EXCEPT !.status = "ignored", !.worker = NoWorker, !.live = FALSE]
              ELSE offer
  /\ UNCHANGED <<step, links, policy, overlap, setbacks>>

-----------------------------------------------------------------------------
Progress(u) == \/ Insert(u) \/ Gate(u) \/ Halt(u) \/ Convert(u) \/ ConversionFails(u)
               \/ Persist(u) \/ Throw(u) \/ Schedule(u)
AnyRecover == \E u \in Run : Recover(u)
Next == \/ \E u \in Run : Capture(u) \/ Progress(u) \/ ResumeFails(u)
        \/ AnyRecover \/ Expire \/ Toggle \/ \E w \in Worker : Die(w)

\* Runs that live go on, deadlines pass and the workers look for interrupted rows.
Fairness == WF_vars(AnyRecover) /\ WF_vars(Expire) /\ \A u \in Run : WF_vars(Progress(u))
Spec == Init /\ [][Next]_vars /\ Fairness

-----------------------------------------------------------------------------
(* Properties.                                                             *)

\* What waits to be sent has every link converted that the policy does not let
\* pass, whatever runs wrote the row; unless one worker had two runs on it,
\* whose texts the fence cannot tell apart.
ConvertedOrAllowed ==
  offer.status = "waiting" /\ ~overlap =>
    \A p \in links \ offer.text : policy = "send_original" /\ p # "amazon"

\* An offer does not stay in processing although its worker dies or is slow:
\* it is recovered, as long as the pilot of its time is on.
OfferSettles ==
  offer.status = "processing" ~>
    offer.status # "processing" \/ ~pilot.enabled \/ ~pilot.fresh
=============================================================================
