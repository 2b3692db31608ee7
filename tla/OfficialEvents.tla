--------------------------- MODULE OfficialEvents ---------------------------
(***************************************************************************)
(* Events that reach the official WhatsApp module by webhook and the       *)
(* messages they set off (web/modules/official-whatsapp/server):           *)
(*  - a purchase (Hubla, ElevaPay) sends the automation's first message,   *)
(*  - message k of the automation waits for its follow-up, message k + 1,  *)
(*    which a click or a delay triggers,                                   *)
(*  - a lead of an external site starts a flow: a message and its run,     *)
(*  - a click answers a message of the automation or of the flow, the flow *)
(*    with its additional messages.                                        *)
(* A webhook stores the event, answers, and processes it afterwards in     *)
(* after(); providers deliver again; functions die at any point.           *)
(***************************************************************************)
EXTENDS Naturals

CONSTANTS
  Purchase, Lead, Click,  \* events, by kind
  About,       \* [Click -> 0..MaxSteps]: the message clicked, 0 for the flow's
  Function,    \* serverless functions
  NoEvent,
  MaxSteps,    \* bound on the follow-ups of the automation
  ByDelay,     \* messages whose follow-up is triggered by a delay
  MaxExtra,    \* additional messages of a flow (10)
  MaxRetries,  \* bound on manual reprocessing of a purchase
  MaxFaults    \* bound on crashes, lost answers and database errors

Event == Purchase \cup Lead \cup Click
Message == 1..MaxSteps

EventsAssumption ==
  /\ Purchase \cap Lead = {} /\ Purchase \cap Click = {} /\ Lead \cap Click = {}
  /\ NoEvent \notin Event
  /\ MaxSteps \in Nat \ {0} /\ About \in [Click -> 0..MaxSteps]
  /\ ByDelay \subseteq Message
  /\ MaxExtra \in Nat /\ MaxRetries \in Nat /\ MaxFaults \in Nat

VARIABLES
  ev,      \* ev[e]: official_events.status, official_external_leads.status
  link,    \* link[k]: automation_reply_state of message k, "none" if not logged
  run,     \* status of the row of official_flow_runs
  fn,      \* fn[f]: what function f is processing
  active,  \* the automation is active
  steps,   \* follow-ups configured now
  sent,    \* sent[x]: messages Meta accepted for purchase, lead or flow click x
  extra,   \* extra[x]: additional messages Meta accepted for flow click x
  reply,   \* reply[k]: follow-ups of message k that Meta accepted
  retries, \* retries[e]: manual reprocessing of purchase e
  faults    \* disturbances so far

vars == <<ev, link, run, fn, active, steps, sent, extra, reply, retries, faults>>

State == {"none", "null", "waiting", "sending", "sent", "failed"}
\* next: the message being sent is followed by another one (snapshot.nextStep);
\* left: additional messages of the flow after it.
Rest == [at |-> "idle", on |-> NoEvent, k |-> 0, next |-> FALSE, left |-> 0]

TypeOK ==
  /\ ev \in [Event -> {"absent", "received", "processed", "ignored", "failed"}]
  /\ link \in [Message -> State]
  /\ run \in {"none", "sent", "clicked", "completed", "failed"}
  /\ fn \in [Function -> [at : {"idle", "start", "due", "armed", "again", "taken", "log"},
                          on : Event \cup {NoEvent}, k : 0..MaxSteps, next : BOOLEAN,
                          left : 0..MaxExtra]]
  /\ active \in BOOLEAN /\ steps \in 0..MaxSteps
  /\ sent \in [Event -> Nat] /\ extra \in [Click -> Nat] /\ reply \in [Message -> Nat]
  /\ retries \in [Purchase -> 0..MaxRetries] /\ faults \in 0..MaxFaults

Init ==
  /\ ev = [e \in Event |-> "absent"] /\ link = [k \in Message |-> "none"]
  /\ run = "none" /\ fn = [f \in Function |-> Rest]
  /\ active = TRUE /\ steps = MaxSteps
  /\ sent = [e \in Event |-> 0] /\ extra = [e \in Click |-> 0] /\ reply = [k \in Message |-> 0]
  /\ retries = [e \in Purchase |-> 0] /\ faults = 0

Disturb == faults < MaxFaults /\ faults' = faults + 1
Configuration == <<active, steps, retries>>
Counts == <<sent, extra, reply>>
Tables == <<ev, link, run>>

-----------------------------------------------------------------------------
(* Webhooks.                                                               *)

\* The customer holds message k (0: the flow's) once Meta accepted it.
Delivered(k) == IF k = 0 THEN \E e \in Lead : sent[e] > 0
                ELSE IF k = 1 THEN \E e \in Purchase : sent[e] > 0
                ELSE reply[k - 1] > 0

\* Mutant of New: the unique index does not stop a second delivery.
AlwaysNew(e) == ev[e] \in {"absent", "received", "processed"}
\* Unique (provider, provider_event_id, product_id) and (source_id, idempotency_key).
\* The first index leaves out the events that carry no identifier: each delivery
\* of such an event is a row, and an event, of its own.
New(e) == ev[e] = "absent"

\* capture...Event, then after(); a delivery that is not New is answered only.
Capture(f, e) ==
  /\ New(e) /\ (e \in Click => Delivered(About[e]))
  /\ fn[f].at = "idle"
  /\ ev' = [ev EXCEPT ![e] = "received"]
  /\ fn' = [fn EXCEPT ![f] = [Rest EXCEPT !.at = "start", !.on = e,
                                          !.k = IF e \in Click THEN About[e] ELSE 0]]
  /\ UNCHANGED <<link, run, Configuration, Counts, faults>>

Reprocess(f, e) ==
  /\ ev[e] \in {"failed", "ignored"} /\ retries[e] < MaxRetries /\ fn[f].at = "idle"
  /\ retries' = [retries EXCEPT ![e] = @ + 1]
  /\ fn' = [fn EXCEPT ![f] = [Rest EXCEPT !.at = "start", !.on = e]]
  /\ UNCHANGED <<Tables, active, steps, Counts, faults>>

\* Editing the follow-ups changes what is not yet frozen.
Configure ==
  /\ \/ active' = ~active /\ UNCHANGED steps
     \/ steps' \in 0..MaxSteps /\ UNCHANGED active
  /\ Disturb /\ UNCHANGED <<Tables, fn, retries, Counts>>

-----------------------------------------------------------------------------
(* Processing.                                                             *)

Follows(f) == fn[f].at # "idle" /\ fn[f].k > 0
Done(f) == fn' = [fn EXCEPT ![f] = Rest]
Mark(f, s) == ev' = IF fn[f].on = NoEvent THEN ev ELSE [ev EXCEPT ![fn[f].on] = s]
Arm(f, more, n) == fn' = [fn EXCEPT ![f].at = "armed", ![f].next = more, ![f].left = n]

\* processHublaEvent up to the call to Meta; a lead goes through startFlow.
Prepare(f) ==
  /\ fn[f].at = "start" /\ fn[f].on \in Purchase \cup Lead
  /\ \/ fn[f].on \in Purchase /\ ~active /\ Done(f) /\ Mark(f, "ignored")
     \/ Done(f) /\ Mark(f, "failed")      \* bad phone, template or variables
     \/ (fn[f].on \in Purchase => active) /\ Arm(f, steps > 0, 0) /\ UNCHANGED ev
  /\ UNCHANGED <<link, run, Configuration, Counts, faults>>

\* Mutant of Free: the state of the message is not compared before it is set.
AlwaysFree(k) == link[k] \notin {"none", "null"}
Free(k) == link[k] = "waiting"

\* processAutomationButtonClick: compare-and-set, two clicks send one follow-up.
ClickAutomation(f) ==
  LET k == fn[f].k
  IN /\ fn[f].at = "start" /\ fn[f].on \in Click /\ k > 0
     /\ \/ /\ ~Free(k) \/ k \in ByDelay     \* not logged, no match, or taken
           /\ Done(f) /\ Mark(f, "ignored") /\ UNCHANGED link
        \/ /\ Free(k) /\ k \notin ByDelay
           /\ link' = [link EXCEPT ![k] = "sending"]
           /\ Arm(f, steps > k, 0) /\ UNCHANGED ev
     /\ UNCHANGED <<run, Configuration, Counts, faults>>

\* processFlowClickByRepliedMessageId; without a run, processQuickReplyClick
\* finds no action for the private payload of a flow; a click of another phone
\* or connection leaves the run alone.
ClickFlow(f) ==
  /\ fn[f].at = "start" /\ fn[f].on \in Click /\ fn[f].k = 0
  /\ \/ Done(f) /\ Mark(f, "ignored") /\ UNCHANGED run
     \/ /\ run # "none" /\ run' = "clicked" /\ UNCHANGED ev
        /\ \E n \in 0..MaxExtra : Arm(f, FALSE, n)
     \/ run # "none" /\ run' = "failed" /\ Done(f) /\ Mark(f, "failed")
     \/ run # "none" /\ run' = "completed" /\ Done(f) /\ Mark(f, "ignored")  \* direct link
  /\ UNCHANGED <<link, Configuration, Counts, faults>>

\* claim_due_official_followups: late attempts fail, due messages are claimed.
\* Mutant of Overdue: the sweep looks at the messages that are not claimed.
OverdueUnclaimed == {k \in ByDelay : link[k] = "waiting"}
Overdue == {k \in ByDelay : link[k] = "sending"}
Sweep(S) == [k \in Message |-> IF k \in S THEN "failed" ELSE link[k]]

RunDue(f) ==
  /\ fn[f].at = "idle"
  /\ \E S \in SUBSET Overdue :              \* those claimed 120 s ago or more
       \/ S # {} /\ link' = Sweep(S) /\ UNCHANGED fn
       \/ \E k \in ByDelay :
            /\ link[k] = "waiting"
            /\ link' = [Sweep(S) EXCEPT ![k] = "sending"]
            /\ fn' = [fn EXCEPT ![f] = [Rest EXCEPT !.at = "due", !.k = k]]
  /\ UNCHANGED <<ev, run, Configuration, Counts, faults>>

\* processDueRow: a paused automation sends no delayed message.
Due(f) ==
  LET k == fn[f].k
  IN /\ fn[f].at = "due"
     /\ \/ active /\ Arm(f, steps > k, 0) /\ UNCHANGED link
        \/ ~active /\ Done(f) /\ link' = [link EXCEPT ![k] = "failed"]
     /\ UNCHANGED <<ev, run, Configuration, Counts, faults>>

\* About to send a message: the first of its answer, or an additional one.
Sending(f) == fn[f].at \in {"armed", "again"}

Count(f) ==
  IF Follows(f) THEN reply' = [reply EXCEPT ![fn[f].k] = @ + 1] /\ UNCHANGED <<sent, extra>>
  ELSE IF fn[f].at = "again" THEN extra' = [extra EXCEPT ![fn[f].on] = @ + 1] /\ UNCHANGED <<sent, reply>>
  ELSE sent' = [sent EXCEPT ![fn[f].on] = @ + 1] /\ UNCHANGED <<extra, reply>>

Accept(f) ==
  /\ Sending(f) /\ Count(f)
  /\ fn' = [fn EXCEPT ![f].at = "taken"]
  /\ UNCHANGED <<Tables, Configuration, faults>>

\* Mutant of Fail: the error of the send is not passed on.
FailProcessed(f) == Done(f) /\ Mark(f, "processed") /\ UNCHANGED <<link, run>>
\* The catch blocks before the answer: the follow-up, run or event fails.
Fail(f) ==
  /\ Done(f) /\ Mark(f, "failed")
  /\ link' = IF Follows(f) THEN [link EXCEPT ![fn[f].k] = "failed"] ELSE link
  /\ run' = IF fn[f].on \in Click /\ fn[f].k = 0 THEN "failed" ELSE run

Refuse(f) ==
  /\ Sending(f) /\ Fail(f) /\ UNCHANGED <<Configuration, Counts, faults>>

AnswerLost(f) ==
  /\ Sending(f) /\ Count(f) /\ Fail(f) /\ Disturb /\ UNCHANGED Configuration

\* automation_reply_state = 'sent' as soon as Meta has answered; the error of
\* this update is not looked at.
SetSent(f) ==
  /\ fn[f].at = "taken" /\ Follows(f)
  /\ \/ link' = [link EXCEPT ![fn[f].k] = "sent"] /\ UNCHANGED faults
     \/ Disturb /\ UNCHANGED link
  /\ fn' = [fn EXCEPT ![f].at = "log"]
  /\ UNCHANGED <<ev, run, Configuration, Counts>>

\* The loop over the additional messages of a flow logs one and sends the next.
Another(f) ==
  /\ fn[f].at = "taken" /\ fn[f].left > 0
  /\ fn' = [fn EXCEPT ![f].at = "again", ![f].left = @ - 1]
  /\ UNCHANGED <<Tables, Configuration, Counts, faults>>

\* logMessageAttempt and the status of the event; the next message starts to wait.
\* (The messages a reprocessed purchase adds are not followed.)
Logs(f, k) == IF k \in Message /\ link[k] = "none"
              THEN [link EXCEPT ![k] = IF fn[f].next THEN "waiting" ELSE "null"]
              ELSE link
Log(f) ==
  /\ fn[f].left = 0 /\ fn[f].at = IF Follows(f) THEN "log" ELSE "taken"
  /\ Done(f) /\ Mark(f, "processed")
  /\ link' = IF Follows(f) THEN Logs(f, fn[f].k + 1)
             ELSE IF fn[f].on \in Purchase THEN Logs(f, 1) ELSE link
  /\ run' = IF fn[f].on \in Lead THEN "sent"
            ELSE IF fn[f].on \in Click /\ fn[f].k = 0 THEN "completed" ELSE run
  /\ UNCHANGED <<Configuration, Counts, faults>>

\* Writing fails after Meta accepted: the catch calls a follow-up sent again (the
\* error of that update is not looked at either), and the event fails.
LogFails(f) ==
  /\ fn[f].at = (IF Follows(f) THEN "log" ELSE "taken") /\ Disturb
  /\ Done(f) /\ Mark(f, "failed")
  /\ link' \in {link} \cup IF Follows(f) THEN {[link EXCEPT ![fn[f].k] = "sent"]} ELSE {}
  /\ run' = IF fn[f].on \in Click /\ fn[f].k = 0 THEN "failed" ELSE run
  /\ UNCHANGED <<Configuration, Counts>>

Crash(f) ==
  /\ fn[f].at # "idle" /\ Disturb /\ Done(f)
  /\ IF Sending(f) THEN Count(f) \/ UNCHANGED Counts ELSE UNCHANGED Counts
  /\ UNCHANGED <<Tables, Configuration>>

-----------------------------------------------------------------------------
Process(f) == \/ Prepare(f) \/ ClickAutomation(f) \/ ClickFlow(f) \/ Due(f)
              \/ Accept(f) \/ Refuse(f) \/ SetSent(f) \/ Another(f) \/ Log(f)
Next == \/ Configure
        \/ \E f \in Function :
             \/ \E e \in Event : Capture(f, e)
             \/ \E e \in Purchase : Reprocess(f, e)
             \/ RunDue(f) \/ Process(f)
             \/ AnswerLost(f) \/ LogFails(f) \/ Crash(f)

\* Functions run, and the cron calls run-due-followups.
AnyRunDue == \E f \in Function : RunDue(f)
Fairness == WF_vars(AnyRunDue) /\ \A f \in Function : WF_vars(Process(f))
Spec == Init /\ [][Next]_vars /\ Fairness

-----------------------------------------------------------------------------
(* Properties.                                                             *)

\* A message of an automation is followed up at most once, whatever clicks,
\* deliveries, cron calls and interrupted attempts compete for it.
FollowedOnce == \A k \in Message : reply[k] <= 1

\* A webhook delivered again, and a click answered through the flow or the
\* automation, set off one message; people may add one per reprocessing.  The
\* additional messages of a flow follow its answer, each once, although any of
\* them may fail after the others left.
AnsweredOnce ==
  /\ \A e \in Event : sent[e] <= 1 + (IF e \in Purchase THEN retries[e] ELSE 0)
  /\ \A e \in Click : extra[e] <= MaxExtra /\ (extra[e] > 0 => sent[e] > 0)

\* What the tables call done was accepted by Meta: a follow-up called sent, a
\* message that waits for its own follow-up, an event called processed (a lead
\* is answered "accepted" from it).
DoneIsTrue ==
  /\ \A k \in Message : link[k] = "sent" => reply[k] > 0
  /\ \A k \in Message : link[k] # "none" => Delivered(k)
  /\ \A e \in Purchase \cup Lead : ev[e] = "processed" => sent[e] > 0

\* A follow-up by delay is settled: not left waiting or half sent, although the
\* function that was sending it died or the automation was paused.
DelaySettles == \A k \in ByDelay :
  link[k] \in {"waiting", "sending"} ~> link[k] \in {"sent", "failed"}
=============================================================================
