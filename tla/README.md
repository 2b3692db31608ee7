# ElevaZap in TLA+

Specifications, model-checking configurations and proofs for ElevaZap: the
sharing of WhatsApp sessions between service processes, the queue that sends
messages through them, the broadcasts and automations of the official WhatsApp
API, and the services around them that keep protocols of their own. Paths are
relative to the repository; `migrations/` stands for `supabase/migrations/`,
`service/` for `whatsapp-service/src/`, `official/` for
`web/modules/official-whatsapp/server/`.

## The system

A web application (Next.js) and several service processes share one PostgreSQL
database, through which they coordinate; there is no other channel between
processes. A process talks to WhatsApp through Baileys sockets, one for each
sender number.

| Part | State | Operations | Hard behaviour |
| --- | --- | --- | --- |
| **Session leases and supervisor** (`service/senders/runtime.ts`, `service/index.ts:102-124`, lease functions in `migrations/20261009220000*`, `20260826195500*`, `20261008000319*`) | `whatsapp_session_leases` (owner, expiry, version), `whatsapp_sender_pauses`; in each process the maps `senders` and `startingSenders` | renew, acquire many, acquire one (QR, restart), start, stop, pause | two processes for one number, answers applied late, lapses, restart under the same id |
| **Dispatch queue** (`service/queue/queue.ts`, `confirm-sent.ts`, `policy.ts`; `claim_whatsapp_jobs` in `migrations/20261014190500*`, mark / complete / record failure in `20260826185623*`) | rows of `envios` and `envios_grupo` (status, claim token, deadline, attempts); buffer, active sessions and deferred reconciliations of a process | claim, mark, send, confirm, fail, doubt, reconcile | a message leaves the system and cannot be taken back; lost answers; time limits that do not stop the work; moved leases |
| **Recovery** (`service/recovery.ts`, `queue.ts:148-163`) | its snapshot of rows in flight | give back, put in doubt | acts on a snapshot |
| **Circuit breaker of a number** | `consecutive_failures`, `circuit_state` | record failure, complete | shared by all workers |
| **People** (`web/app/api/incertos/*`, `transition_lote_atomic`, `cancel_whatsapp_sender_pending_work`) | the same rows | settle, resend, pause, resume, cancel, delete a number | at any moment of a claim |
| **Batch status** (`recalc_lote_counts` in `migrations/20260925020000*`, `transition_lote_atomic` in `013*`, `web/app/api/lotes/*`) | counters and status of `envios_grupo_lotes` | create, recompute, pause, resume, cancel, cancel many | counting and writing are two statements; callers that forget or fail to recompute |
| **Pilot queue** (`migrations/20260907213000*`, `20260908165112*`, `20261005200000*`, `20261010000000*`, `service/queue/pilot-maintenance.ts`) | `captured_offers`, `offer_deliveries`, `pilot_maintenance_requests` | triggers on dispatch rows, reconcile, promote, expire, request, run | triggers that do not see each other; identifiers that commit out of order |
| **Offers** (`service/offers/offer-processor.ts`, `offer-recovery.ts`, `offer-scheduler.ts`, the three `*-conversion.ts`) | `captured_offers` in processing, with worker and deadline | capture, gate, convert link by link, schedule, recover | a run that outlives its deadline; two runs under one name |
| **Official broadcasts** (`official/broadcasts.ts`, `messages-store.ts`, `web/app/api/webhooks/meta/route.ts`, `migrations/20260904001000*`) | broadcasts with a batch lease, recipients with leases, messages, revision of the flow | create, edit, pause, cancel, claim, send, log, chain, webhook | Meta cannot be asked again; webhooks overtake the log; functions die |
| **Events and follow-ups** (`official/hubla-events.ts`, `hubla-processor.ts`, `external-leads.ts`, `flow-processor.ts`, `automation-followup*.ts`) | `official_events`, `official_external_leads`, reply state of messages, flow runs | capture, process after the answer, click, due | redelivery, work that dies after the answer |
| **Meta relay** (`official/meta-relay.ts`, `migrations/20260915120000*`) | `meta_relay_jobs` | enqueue, claim, post, finish | at least once, interrupted attempts, late finishes |
| **WhatsApp session and credentials** (`service/whatsapp/session.ts`, `service/auth/supabase-auth-state.ts`) | status of the session, credentials in memory and in `whatsapp_auth_creds`, a lock | connection events, save with retries, log out, stop | a write that is given up is not cancelled |
| **Media collector** (`service/queue/temporary-media-gc.ts`, upload and template routes) | files, templates, references of dispatches | upload, use, age, collect | reads references, then removes files |
| **Mercado Livre tokens** (`web/modules/affiliate-catalog/server/mercado-livre-token-manager.ts`) | one row of tokens, a service lock | read, renew, wait, retry, connect, disconnect | a renewal token is good for one use |
| **Accounts** (`web/app/api/webhook/hubla/route.ts`, `web/app/api/webhooks/elevapay/piloto/route.ts`, `web/modules/admin/server/account-provisioning.ts`) | account, user, profile, owner, event audit | subscription events, order, administrator | writes without a transaction, compensations, redelivery |
| **Silence incidents** (`service/observability/observer.ts`, `bootstrap.ts`) | the watch of a number, `whatsapp_obs_incidents` | tick, freeze, receive, insert, resolve | background calls that overlap |

The rest is listed under "Not modelled". `PROJECT.json` lists every component with
its reason and every hazard with its line.

How the modelled parts interact: the supervisor keeps leases; `claim_whatsapp_jobs`
hands out rows only to the owner of the live lease of their number, stamping the
lease version on the row; every later write names the claim token, and the
important ones the owner and version of the lease too. So the lease version is
a fencing token for the number and the claim token one for the row. The pilot
hangs on the same rows: triggers on dispatches derive the status of deliveries and offers,
and offers reach the queue through the pilot's waiting list. Official broadcasts do
not use sessions: their functions talk to Meta's API and start one another over HTTP.
The remaining parts share tables with the others and take no steps together with them.

What makes each part correct:

* leases: a version identifies one owner, and remembered versions never run
  ahead of the table; a number nobody serves is taken over; a stale session stops;
* queue: a message that may be out is never sent again by the system; a sent
  message is never forgotten; a success is true; nothing stays in flight; a
  number works on one welcome or one batch; manual rows go first;
* batches: a batch whose rows are over is over, and one that is over has nothing
  left to send;
* pilot: no more offers hold a slot than there are slots, an offer whose dispatches
  are over gives its slot back, and an offer waits for a free slot only while a
  maintenance has been asked for;
* offers: a message is not passed on with an unconverted link the policy forbids, and no
  offer stays in processing;
* broadcasts: no recipient is sent to twice, all recipients get the same revision, a completed
  broadcast has nobody left, a status that overtakes the log is not lost, and it ends;
* events: one message for an event and one follow-up for a message, however often
  they are delivered; what is marked done was sent; a delayed follow-up is settled;
* relay: what waits has attempts left, and every job is delivered or given up;
* sessions: older credentials never replace newer ones, a log-out leaves none behind;
* media: what may still be sent has its file; tokens: a renewal presents the newest
  token; accounts: an owner enters the account it owns; incidents: one is resolved
  by the end of its own silence.

## Modules

| Module | Role |
| --- | --- |
| `LeaseContract` | the lease table as its users see it: which steps the lease of a session may take. Abstract specification `Contract`. |
| `SessionLease` | how processes and panel handlers use the lease functions. Implements `LeaseContract`. |
| `SessionLeaseProofs` | theorems about `SessionLease`. |
| `DeliveryPromise` | abstract specification of the queue: the fate of one message. |
| `SendQueue` | rows, claims, attempts, recovery, people, on top of `LeaseContract`. Implements `DeliveryPromise`. |
| `SendQueueSteps` | lemmas: what each write of `SendQueue` does to the records it names. |
| `SendQueueProofs` | its invariants: types, the history of a row, lanes. |
| `SendQueueRefinement` | proof that it implements `DeliveryPromise`. |
| `OfficialBroadcast` | one broadcast: people, batches of chained functions, status webhooks. |
| `OfficialBroadcastProofs` | theorems about it. |
| `OfficialEvents` | purchases, leads, clicks and delayed follow-ups. |
| `MetaRelay` | jobs that carry Meta's webhooks to the CRM. |
| `ManagedSession` | one WhatsApp session and its stored credentials. |
| `OfferPipeline` | one offer from the captured message to the waiting list. |
| `BatchStatus` | the status of one group batch, derived from its rows. |
| `PilotQueue` | the waiting list, its slots, triggers and maintenance. |
| `TemporaryMedia` | one stored file and its collectors. |
| `MercadoLivreTokens` | renewal of the integration's tokens. |
| `AccountProvisioning` | the account of one buyer. |
| `SilenceIncidents` | the silence detector of one number. |
| `Services` | the composition of the ten modules from `OfficialEvents` to `SilenceIncidents`. |
| `ServicesProofs` | theorems about its relay, media, tokens, accounts, silences and sessions. |
| `EventsProofs` | theorems about its events. |
| `PublishingProofs` | theorems about its offer, pilot queue and batch, and its types. |
| `MCSessionLease`, `MCSendQueue`, `MCServices` | instances for TLC. |

`SessionLease` and `SendQueue` compose through `LeaseContract`: the queue knows
leases only through the operators and steps of the contract (`LeaseMoves`), and
`SessionLease` is proved to take no other steps. This keeps the state spaces apart.

### SessionLease

`lease[s]` is the row of session `s` (version 0: no row), `held[w][s]` the lease
version in the map `senders` of process `w`, `granted[w][s]` the version under
which a session is being created (`startingSenders`), `answer[w]` the database
answer not yet applied, `sup[w]` the step of the supervisor.

`RenewLeases`, `DropNotRenewed`, `AcquireLeases`, `ApplyOwnership`, `StartSender`
/ `StartFails` and `EndCycle` are the cycle of `index.ts:102-124`; a database call
and the use of its answer are two steps, and `RenewAnswerLost` and
`AcquireAnswerLost` are calls that took effect and threw. The acquire cursor is
modelled with its order and its limit (`Rank`, `Room`, `Visited`).
`ConnectByName`, `RestartByName` and `StopSession` are the HTTP handlers, allowed at
any step of the cycle. `CrashAndRestart` loses the memory, not the leases.

### SendQueue

`row[j]` has the columns that decide anything: status, token, whether the row is
due, whether its deadline has passed, attempts, and the claim whose message
identifier it holds. The claims of a row are numbered, and `att[j][t]` is claim `t`
with its worker and lease version and three parts that live separately:

* `main`: `process()` up to and including its catch block;
* `exec`: `execute()`, which goes on when the time limit of the item has fired;
* `wire`: the message, which outlives both.

Actions carry the names of the functions. `Claim` is one call of
`claim_whatsapp_jobs` plus the buffering of `claimBatch`. `Complete`, `ReadBack`,
`RetryConfirmation`, `MarkForReconciliation` and `FlushReconciliation` are
`confirmSent` and what follows it; a call that may fail does so with or without
effect. `ReclaimSelect`, `ReclaimQueued` and `ReclaimProcessing` are the three
statements of `recoverTable`, which are not one transaction. `base`, `settled` and
`slips` are observers: nothing reads them but properties.

**Slips.** Three writes of the code can break the history of a row, and the model
takes them as they are: recovery updating rows whose state has moved on
(`"reclaim"`), an update by id that hits a row of another claim (`"write"`), and a
message without identifier whose update to `incerto` fails and is then handled as not
sent (`"noid"`). A step that does so records the slip, and `AtMostOnce`,
`NotForgotten` and `DeliveryPromise` excuse the row from then on. So those
properties say that there is no *other* way to break the promise; the run
`queue_resend` shows that the first of the three is real.

### OfficialBroadcast

`bc` is the row of the broadcast with its batch lease, `rcp[r]` the recipient's row,
`msg[r]` the row of `official_messages`, `flow` and `conn` what is read before
each send, `call` the request by which one function starts the next, `work[w]` and
`job[w][r]` a function and its concurrent sends, `hook[h]` a status webhook, `meta[r]` how
often Meta accepted a message and with which revision. `StartBatch`, `Claim`, `Settled`
and `Finish` are `processBroadcastBatch`; `ReadFlow`, `Refused`, `Accepted`,
`AnswerLost`, `Logged`, `LogFails`, `MarkAccepted`, `SkipReadStatus`, `ReadStatus`,
`CopyStatus` the awaits of `sendToRecipient`. A webhook finds the message (`Find`, which is retried when
the log has not been written), then writes message and recipient in two
statements. `RaceClosed` is about those two programs: the sender re-reads the status after its
own write because the webhook may have come first. The observer `lag` excuses the
recipients whose copy or webhook failed.

### OfficialEvents

`ev[e]` is the row of an event, `link[k]` the reply state of message `k`, `run` the
flow run of a lead, `fn[f]` a function with the step it is at. `Capture` is the webhook
up to its answer, `Prepare` and what follows it is the work in `after()`; `Reprocess` is
the button; `ClickAutomation` and `ClickFlow` are the two meanings of a
button pressed, or leave it alone; `RunDue` is one call of the cron. The answer of a flow may be
followed by additional messages (`Another`), each of which may fail after the others have left.
`LogFails` is a failure after Meta accepted: the catch writes the reply state of a follow-up
`sent` again, and the event fails. `sent`, `extra` and `reply` count what Meta accepted: answers,
the additional messages and follow-ups.

### MetaRelay, MercadoLivreTokens, TemporaryMedia

Three small protocols, each a row and its workers. `MetaRelay`: `relay[p]` and
`runner[u]` with the attempt number the runner *read*; `PutBack` is the first statement
of the claim, `Die` a function that ends between posting and finishing, and `DeliveredThrows`
the call of `finishJob('delivered')` that throws inside the `try` of the post: the catch
calls it again and, the answer having been 200, calls the job `failed`. `MercadoLivreTokens`:
pairs of tokens are numbered, `issued` is the last one, every earlier is
spent; the lock is never released and lives 20 s. The observer `crossed` marks
what the code cannot order (a renewal slower than the lock, a save that fails,
a death before it, a person who disconnects during it); `NeverSpent` says that nothing else
uses a token twice. `TemporaryMedia`: one file, uploaded for a batch or a template or stored with a
captured offer, against a template and its copy, the offer, and two dispatches. A collector
reads dispatches, batches, offers and templates by statements of their own (`Read`), which run at once and
share no snapshot, so in any order and with anything in between; then it lists the
files (`List`), removes (`Remove`) and clears what refers to them (`ClearReferences`). What keeps
`MediaKept` is the order in which the others move a reference: dispatches are stored
while the request holds the fresh upload or the template stays, the batch with its
dispatches, and an offer becomes a dispatch while its file is young. The exception is
`orphaned`: a template that is deleted while a request copies it, or after
a collector has read dispatches and batches and before it reads templates, since
a dispatch copied in between is then in neither answer.

### ManagedSession

`ws` is the session object (status, socket, stopped, phase of its end), `creds` and
`row` the versions in memory and in the table, `line` the lock with
those that wait, `saver[s]` the runs of `saveCredsWithRetry`, `late` the writes given
up by a time limit that may land at any time (`Land`). `stray` marks that such a write, or a
retry that was due before the end of the session, came after it. So `OlderNeverWins` and
`LogoutForgets` say that the lock orders everything else.

### OfferPipeline

`offer` is the row with worker and deadline, `text` the providers whose links its
stored text has converted, and `step[u]` a run of `process()`. There may be two runs
under one worker's name (`Owner`), because the fence compares names. Each link is converted
in the order of the code; `Persist`, `Write` and `End` carry the fence. `schedule_pilot_offer`
has it for a row in `processing` only: one that is `ready` any worker may schedule (`MaySchedule`). `Expire`,
`Recover`, `ResumeFails` and `Die` are deadlines and the recovery. `overlap`
marks the case the fence cannot see: a worker that recovers the row it still works on.

### BatchStatus

`batch` is the status of the batch, `items` its rows, and `teller[t]` what somebody who
changed a row has still to do: call `recalc_lote_counts` (`owed`), write the status it has
counted (`read`), insert the rows of a new batch, or write the batch after its rows
(`cancel-many`, deletion of a number). `Settle` is every change of a row whose author
recomputes; `Claim` writes the batch itself, `Move` tells nobody. `Transition` is
`transition_lote_atomic`, which holds the batch's row lock and is one step. Two
observers: `raced` is set when two writers of the status overlap, so that one writes
what it counted before the other's change, and `unpaid` when a change was never
recomputed (a failed call, a death, a pilot switched off). `AgreesWithItsRows` says
that nothing else makes the status disagree with the rows.

### PilotQueue

`pos[o]` is an offer's status, `disp[o][g]` its dispatches, `open` the transactions
inside the trigger. `Update` takes the row lock and aggregates what is committed,
`Commit` publishes, `Abort` undoes. `Schedule` is an offer that arrives. `RunBegin` and
`RunEnd` are `run_pilot_maintenance` with the snapshot it read at its start, and
`drawn` and `asked` tell identifiers drawn from requests committed. The promotion leaves offers
where they are when their row is locked (`skip locked`) or an attempt fails: it catches every error,
a lock that is not granted in 300 ms included, leaves its loop and returns, and the
run deletes its requests all the same. So a run that found a slot free may end with any part of the
offers that would have fitted promoted. `RunUndone` is what fails outside a promotion. Observers:
`retried` (offers brought back by people, which the promotion does not count),
`skewed` (offers whose two dispatches ended in transactions that did not see each
other), `lost` (a request deleted by a run that had not seen it), `passed` (offers that the
last run passed over).

### AccountProvisioning and SilenceIncidents

`request[r]` goes through the writes of its route one by one, `account[r]` is the
account request `r` created, `user` and `profile` are the buyer's; `Catch` is what
the routes do on an error (the administrator compensates, Hubla marks the
event, ElevaPay goes on), `unlinked` is set where ElevaPay goes on without a profile.
`watch` is the detector's memory and `calls` its inserts and resolutions on their way, which
come in any order; `missed` excuses failed and overtaken ones and restarts.

`Services` instantiates these modules, from `OfficialEvents` on, and takes the steps of one
of them at a time (`part`); they share no variable, so nothing is lost by it.
`MCServices` gives it a small instance of each.

### Abstractions

* Time is the fact that something expires: leases, deadlines, backoffs, circuits.
* A database statement or function is one step, judged from one snapshot (the
  cursor of `claim_whatsapp_jobs` is opened once, so all its lanes are judged
  together). A call that fails in the client took effect then or not at all.
* WhatsApp: a rejection means not delivered, an answer means delivered, a time
  limit means nothing. A process that died may still have had its message delivered.
* The status of accounts and numbers, `queue_control`, throttling and polling
  intervals only decide *whether* a claim happens, so they are absorbed by claims
  that do not happen. So is the fair order of lanes under `p_limit`.
* `SendQueue` leaves the batch row out: pause, resume and cancel are allowed there whenever
  they would change some row. Their guards on the status are in `BatchStatus`.
* The recovery of one process does not overlap itself.
* Ages that exclude one another by hours are not compared: no request and no run of the media
  collector lasts as long as a file is young (48 h), and an offer is promoted or expires
  (2 h) while its file is.
* A function of the web application that dies stops between two of its awaits. What it
  had sent counts; what it had not written is missing.

## Runs

| Run | Instance | Shows |
| --- | --- | --- |
| `lease` | 2 processes, 1 session, versions to 3, 1 crash, fair for `w1` | `TypeOK`, `Fencing`, `TokenUnshared`, `ImplementsContract`, `FreeSessionIsLeased`, `StaleSessionStops` |
| `queue_delivery` | 1 row, 1 worker, 2 claims, 2 attempts; lost answers, time limits, crashes, deadlines, people | `AtMostOnce`, `NotForgotten`, `TruthfulSuccess`, `KeepsPromise` |
| `queue_fencing` | 1 row, 2 workers, 2 lease versions, 2 claims; lapsing leases, lost answers, time limits, deadlines | `TypeOK`, `KeepsPromise` |
| `queue_recovery` | 1 row, 1 worker, fair recovery | `NothingStuckInFlight` |
| `queue_lanes` | welcome, two automatic rows of a batch, a manual row, one number | `LaneExclusive`, `ManualFirst` |
| `official` | 2 recipients, 2 functions, 1 webhook, one disturbance (crash, database error, lost call, lost answer or a person) at any point | `AtMostOnce`, `SameRevision`, `CompletedIsWhole`, `RaceClosed`, `Drains` |
| `services` | the ten small parts below, one at a time (421,192 states) | one `TypeOK` for all of them and 19 properties |
| `queue_resend` | violation of `NeverResentAlone` | finding: recovery acts on a stale snapshot |
| `queue_welcome` | violation of `WelcomeFirst` | finding: welcomes wait behind an active batch |
| `queue_account` | violation of `AccountBackpressure` | finding: one call exceeds the account's limit |
| `official_resend` | violation of `NeverResendable` | finding: a message Meta accepted is listed as a plain failure |
| `lease_limit` | 2 sessions, limit 2; violation of `FreeSessionIsLeased` | finding: the acquire limit counts own rows twice |

**Bounds.** `MaxVersion` stops leases from lapsing further: three versions let a
lease lapse, move and lapse back, so every version comparison meets an older, an equal
and a newer value; `MaxCrashes` one restart per run. `MaxClaims = 2` gives every row
a claim that can outlive another, the least with which a second message could be
sent; rows interact only through lanes, so the delivery runs have one row and
`queue_lanes` has four with one claim each. `GroupCap = 2` instead of 5 lets a lane
fill up. `Threshold` caps the failure counter. Each run enables the disturbances (`Faults`)
its question is about: all together, two claims of one row would exceed what TLC
can explore in minutes. The passing runs fire every action and disjunct between them.

`official`: two recipients and a concurrency of one make a batch take them in
turn, two functions overlap through an expired lease, and one disturbance may fall
anywhere. `services`: two functions, two follow-ups, one retry and one fault
and one additional message of a flow instead of ten (`events`); three attempts, two runners, two deaths or failed updates (`relay`); two versions of credentials, two savers and three
failed calls, as many as one saver's attempts (`session`); three runs of two workers on one
offer with two switches of the pilot and one setback (`offer`); two offers to
two groups, one slot, two open transactions and three requests (`pilot`); two dispatches, an offer and two
collectors (`media`); two callers and two pairs (`tokens`); the start and end of one
subscription, an order and the administrator for one buyer, with one error (`account`); two
incidents and one trouble (`silence`); two rows, two authors of changes and one error (`batch`). In each, two actors can stand at any two of their
steps at once, which is what every property needs to break; the mutants show it. `CONSTRAINT Judged` ends a behaviour of the batch or of the media where `raced`,
`unpaid` or `orphaned` becomes true: these are never taken back, so what follows is excused by
`AgreesWithItsRows` and `MediaKept` anyway; no liveness property is about these two parts.

No row need have anything left to do once all are final, so the runs of the queue, the
broadcasts and the services do not check for deadlock; `lease` does.

**Fairness.** In `lease`, for the process in `Steady`: `setInterval` calls the
supervisor again and again and its calls have time limits, so each step of a cycle
is weakly fair; the acquire call competes with a lost answer, and strong fairness
says that not every answer is lost for ever. Nothing is fair for the other process, for
panels, pauses or lapses. In `queue_recovery`: deadlines pass, and `periodicReclaim` (every
60 s, `index.ts:73-75`) starts (weak) and gets its updates through now and then (strong).
The workers get no fairness: that is the point of recovery. In `official` and
`services`: a function that runs goes on to its next await (it may still die, which is a
step of its own); leases, deadlines and retry times pass; the worker's
offer recovery comes every 60 s; and the cron routes are called again and
again. The last is an assumption about the installation: the comments of `run-scheduled`,
`run-due-followups` and `meta-relay/run-due` say that a cron calls them each minute, but
`web/vercel.json` has `"crons": []`, so an external caller is needed for `Drains`,
`DelaySettles` and `RelaySettles`. People, webhooks, crashes and lost answers are never fair.

## Proofs

Every safety property of a passing run, the action properties and refinements
included, is also a theorem of the specification, for all values of the constants that satisfy the
assumptions. Each part has an inductive invariant that implies its properties; the
properties alone are not inductive, because they do not say what the actors in
the middle of something know. Each invariant was checked by TLC on the run's
instance before it was proved. A proof has one lemma per action (or per kind of action), and the
temporal step combines the start, the steps and the implication.

### Leases: `SessionLeaseProofs`

`TypeCorrect`, `FencingHolds`, `TokenUnsharedHolds`, `ContractHolds`. The invariant is
`TypeOK /\ Fencing /\ TokenUnshared`. `TokenUnshared` alone is not inductive: a
worker could be handed a version another one still remembers. `Fencing` excludes
that, because a remembered version that is current belongs to the row's owner, and versions
handed out are always the row's. Every step *grows* the leases (`LeaseGrows`), and lets a
worker *learn* only versions of rows it owns after the step (`LearnsOwn`); both are
shown action by action, and `FencingStep` derives the invariant from these two facts
alone. `ContractHolds` maps each action to a step of `LeaseNext` session by session.

### Queue: `SendQueueSteps`, `SendQueueProofs`, `SendQueueRefinement`

`TypeCorrect`, `AtMostOnceHolds`, `NotForgottenHolds`, `TruthfulSuccessHolds`,
`LaneExclusiveHolds`, `ManualFirstHolds`, `PromiseHolds`. `QueueInv` is `TypeOK` and for each row:

* `FenceInv`: the token is that of the newest claim, and there is one exactly
  while the row is in flight;
* `ClaimInv`: the three parts of a claim fit each other, and later claims do not exist;
* `BufferInv`: while a row is queued its claim has sent nothing;
* `OnceInv`: unless the row slipped, every claim but the newest is *spent* (nothing of it left or
  can leave), and all are when the row waits or the system settled it as not sent;
* `TruthInv`: a success names a claim whose message was delivered.

`OnceInv` is the heart: a row may wait again only when nothing can still leave. That
an update by id could break it is why the slips are part of it. `AtMostOnce`,
`NotForgotten` and `TruthfulSuccess` follow for each row, and most actions change one row, so
the lemmas are about one row. `LaneInv` bounds what a number works on; only `Claim`
adds to it. `PromiseHolds` takes from `QueueInv` that only the newest claim can be on
the wire, and none while the row waits, and then maps each action, row by row, to the step of
`DeliveryPromise` it takes or to a stutter.

### Broadcasts: `OfficialBroadcastProofs`

`AtMostOnceHolds`, `SameRevisionHolds`, `CompletedIsWholeHolds`, `RaceClosedHolds`, with the types in
`BroadcastInvariance`. `Alone`: one function is in its batch, and it holds the lease. `Fresh`:
who waits was never handed to Meta, and nobody is about to. `Frozen`: the revision of the flow does not
change while the broadcast is pending. `Logging` and `Race`: a status that the message has
and the recipient lacks is being written, by a batch or by a webhook.

### Services: `ServicesProofs`, `EventsProofs`, `PublishingProofs`

One invariant for each part, proved of all of them together; a step of one leaves the others'
variables alone (`OneServiceSteps`). `ServicesTyped` is the type of the whole.

| Part | Theorems | Why the invariant is needed |
| --- | --- | --- |
| relay | `NoExtraAttemptHolds` | a runner took its job with attempts left, so what it writes late leaves attempts or ends the job |
| media | `MediaKeptHolds` | once a file is removed, or about to be, nothing needs it; and while a collector reads an old file that something needs, it has still to read a table in which it will find that (`MediaInv`) |
| tokens | `NeverSpentHolds` | who stands between lock and save holds the lock and read the newest pair |
| accounts | `OwnerEntersHolds` | one request at a time has created the user and not finished with it, and the profile names the account it links |
| silences | `ResolvedWithItsSilenceHolds` | an insert on its way is of the incident that goes on, a missed one, or one being resolved |
| session | `LogoutForgetsHolds`, `ConnectedIsOpenHolds`, `OlderNeverWinsHolds` | the line at the lock is in the order of its snapshots, after all that was or may still be written; nothing waits behind `clearAuth` |
| events | `FollowedOnceHolds`, `AnsweredOnceHolds`, `DoneIsTrueHolds` | one function has claimed a message, and knows whether Meta accepted; the answers sent and those that functions may still send are no more than allowed; likewise the additional messages, in a layer of its own on top (`ExtraInv`) |
| offer | `ConvertedOrAllowedHolds` | a worker has one run on the row unless `overlap`; the run that is about to schedule has converted every link that may not pass, and the row it owns has its text |
| pilot | `SlotBoundHolds`, `WaitingIsAskedHolds`, `SlotReleasedHolds` | see below |
| batch | `AgreesWithItsRowsHolds` | who has counted counted rows that agree, or somebody will count again |

`PilotInv` is the longest argument. An open transaction that ends its offer has drawn
the request for the slot it gives back (`OpenInv`); without another one beside it, its
status is what the offer will be (`ReleaseInv`); an offer that was not brought back ends
once (`RetryInv`), so it takes no slot twice; a run promotes offers that still wait into slots
that stay free for them, since only runs take slots (`RunInv`); and a run will fill the
slots, or leave no offer waiting that it did not pass over, or leave a request with a later id (`AskInv`). That the promotion
takes the newest offers and no more than fit is `TakesGreatest`, proved of any set of
numbers.

### Assumptions, and what is only model-checked

The assumptions are named where the constants are declared (`LeaseAssumption`,
`SupervisorAssumption`, `QueueAssumption`, `BroadcastAssumption`, and for the services
`ServicesAssumption`, which gathers those of its parts); TLC evaluates them on every run. They say that sets
are finite or not empty where the code's are, that bounds are numbers, and that placeholders differ
from the values they stand beside.

Only model-checked: liveness (`FreeSessionIsLeased`, `StaleSessionStops`,
`NothingStuckInFlight`, `Drains`, `DelaySettles`, `RelaySettles`, `OfferSettles`), which is
beyond the prover, and the violations.

## What the runs found

1. `recovery.ts:31-49` updates by id what it selected before: an uncertain row is
   sent again without a person (`README.md:41`, `:119`). `queue_resend`.
2. `claim_whatsapp_jobs` hides welcomes while a group batch is active
   (`README.md:45`). `queue_welcome`.
3. The limit of an account is judged once for each call
   (`distributed-queue.test.ts:37`). `queue_account`.
4. `acquire_whatsapp_session_leases` limits to `p_limit` minus the rows owned, but
   lists the rows owned first (`distributed-queue.test.ts:34`). `lease_limit`.

5. A broadcast marks a recipient plainly `failed` when the answer of Meta or the log of it is
   lost after Meta accepted the message (`official/broadcasts.ts:149-156`), and failed
   recipients are what is exported to be sent again. `official_resend`.

Met on the way and not shown by a run (the model has these as observers or leaves them out):

* *Queue*: a batch of one number is sent by up to five concurrent sends and numbers work in
  parallel, where `README.md:45` says "única e serial"; a paused number is still acquired by
  the panel and renewed; `resetStaleItems` changes rows of a batch and tells it nothing; the fallback pause of `web/lib/lote-transition.ts:8-12` marks
  dispatches `cancelado`; the cleanup of `bulk-schedule/route.ts:131` deletes batches
  whose dispatches may be claimed.
* *Batches*: two recomputations that overlap, or one that fails after a confirmed send
  (`queue.ts:750-756`), leave a batch active for ever or final with rows still waiting;
  switching a pilot off or removing one of its sources cancels rows and never recomputes
  their batch (`20260910105300*:45-53`, `20260911143000*:56-65`), which keeps it from ending, as the
  header of `20260925020000*` (1-5) describes for another cause; a batch with an
  uncertain row can be neither paused nor resumed until the doubt is settled;
  `cancel-many` writes `cancelado` while a row is settled by a worker; a batch
  whose creation dies before its rows stays `pendente`.
* *Sessions*: a save given up by its time limit lands later; a retry outlives `stop()` or waits behind
  `clearAuth` and restores credentials that were revoked; the status after a QR code is set after an
  await (`session.ts:172`); a failed last save sets `failed` over `logged_out` or `idle`
  (`session.ts:101`).
* *Pilot and offers*: two dispatches of one offer that end in concurrent transactions leave it
  `sending` (`migrations/20260907213000*:69`, against lines 3-5 of its header) until it is
  reconciled; a maintenance request whose identifier commits late is deleted unseen
  (`20261010000000*:470-475`, against its comment at 448-453); a promotion that fails, or skips a locked offer,
  leaves offers waiting beside free slots and their requests deleted (`20261010000000*:167-192`,
  473), where the same comment says "Outro erro ou tempo esgotado desfaz tudo e o pedido continua"; the fence of offers is
  the name of the process and not of the run; recovery of an offer has no limit; `offer-retry.ts:6-38` checks and
  then writes.
* *Official*: concurrent status webhooks can take `read` back to `delivered`
  (`messages-store.ts:133`); an event stays `received` when `after()` dies; reprocessing
  compares nothing; click rows stay `sending` after a crash; `finishJob` goes by id and can reopen a
  delivered job, and one whose update throws after a delivery is called `failed` (`meta-relay.ts:114-132`);
  the status that a batch copies can overwrite a newer one (`broadcasts.ts:130-147`); an event of a flow fails
  after some of its additional messages have left (`flow-processor.ts:132-164`); events without a provider's identifier are not recognised when redelivered.
* *Media*: the collector (off by default) does not look for the files of automation steps
  and follow-ups (`temporary-media-gc.ts:11`), and reads references without pages, cut at 1000 rows
  (48-54); a template can be deleted while a schedule copies it; the five reads share no snapshot, so
  a dispatch copied after the dispatches were read from a template that is deleted before the templates are read
  loses its file, against "Deletes only media that is unreferenced by every active or permanent
  workflow" (11).
* *Tokens*: a renewal slower than 20 s overlaps another; a disconnection during it is undone
  by the save; a lost answer spends the token.
* *Accounts*: a retry of an event that failed half way is taken for a duplicate
  (`hubla/route.ts:101-106`), and so is a cancellation under the same invoice; an account without an owner is left behind;
  ElevaPay's profile failure is never repaired (`route.ts:75-81`); the administrator's
  compensation can delete an account an event has found.
* *Incidents*: a resolution overtakes the insert; a restart leaves incidents open.

## Not modelled

Most lines of the repository are pages, components and request handlers without steps of
their own: they read, validate, format and render. These, and the parts below, are
listed in `PROJECT.json` as not modelled:

* user interface, authentication, configuration of accounts;
* parsing, formatting, text conversion, AI rewriting, affiliate links, catalogue,
  analytics: functions of their input whose correctness is a matter of cases, not of steps (the
  offer's pipeline sees a conversion succeed or fail);
* the browser extension: it scrapes pages and forwards what it finds;
* synchronisation of groups and campaigns: idempotent upserts of what WhatsApp reports;
* the campaign redirect: one locked statement for a click;
* counters, samples and traces of observability, the media cache, the counters of a batch;
* the repair of group rows without session and `service/lock.ts`, which nothing calls although
  `README.md:196` describes it.

So the share of lines that the map covers stays small by the nature of the repository, while
the parts that run concurrently, retry, expire or die are modelled.

## Plan

The safety properties of all runs are proved, and so are both refinements. What may follow:

1. the theorems that the observers hide: a bound on how a row can slip (`slips`) when
   recovery runs alone, and on `raced` when the recomputation holds the batch's row lock;
2. the facts behind the liveness properties that are safety properties themselves (what is not settled has a
   deadline, a request or a function that will go on), which the prover can reach;
3. the parts listed above as not modelled that gain steps of their own.
