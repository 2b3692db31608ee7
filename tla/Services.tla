------------------------------ MODULE Services ------------------------------
(***************************************************************************)
(* The services around the queue.  They keep rows of their own and share   *)
(* no state, so a behaviour takes steps of one of them: `part` is chosen   *)
(* at the start and never changes.                                         *)
(***************************************************************************)
EXTENDS Naturals

CONSTANTS
  Parts,
  Purchase, Lead, Click, About, Function, NoEvent, MaxSteps, ByDelay, MaxExtra, MaxRetries, MaxFaults,
  Payload, Runner, NoPayload, MaxAttempts, MaxDeaths,
  Saver, Clear, MaxVersion, MaxFailures,
  Worker, Run, Owner, NoWorker, MaxToggles, MaxSetbacks,
  MaxOffers, Group, MaxOpen, Again, Slots, MaxRequests,
  Job, Collector,
  Caller, NoCaller, MaxTokens,
  Request, Kind, Key, Sub, NoAccount, NoSub, MaxErrors,
  MaxIncidents, MaxTroubles,
  Row, Teller, MaxMishaps

VARIABLES
  part,
  ev, link, run, fn, active, steps, sent, extra, reply, retries, faults,
  relay, runner, deaths,
  ws, creds, row, line, saver, late, stray, failures,
  offer, step, pilot, links, policy, overlap, toggles, setbacks,
  pos, disp, open, asked, drawn, maint, retried, skewed, lost, passed,
  file, draft, template, captured, jobs, gc, orphaned,
  tokens, issued, lock, caller, crossed,
  audit, account, user, profile, request, unlinked, errors,
  watch, next, calls, rows, missed, troubles,
  batch, items, teller, raced, unpaid, mishaps

evars == <<ev, link, run, fn, active, steps, sent, extra, reply, retries, faults>>
rvars == <<relay, runner, deaths>>
svars == <<ws, creds, row, line, saver, late, stray, failures>>
ovars == <<offer, step, pilot, links, policy, overlap, toggles, setbacks>>
pvars == <<pos, disp, open, asked, drawn, maint, retried, skewed, lost, passed>>
mvars == <<file, draft, template, captured, jobs, gc, orphaned>>
tvars == <<tokens, issued, lock, caller, crossed>>
avars == <<audit, account, user, profile, request, unlinked, errors>>
ivars == <<watch, next, calls, rows, missed, troubles>>
bvars == <<batch, items, teller, raced, unpaid, mishaps>>
vars == <<part, evars, rvars, svars, ovars, pvars, mvars, tvars, avars, ivars, bvars>>

E == INSTANCE OfficialEvents
R == INSTANCE MetaRelay
S == INSTANCE ManagedSession
O == INSTANCE OfferPipeline
P == INSTANCE PilotQueue
M == INSTANCE TemporaryMedia
T == INSTANCE MercadoLivreTokens
A == INSTANCE AccountProvisioning
I == INSTANCE SilenceIncidents
B == INSTANCE BatchStatus

ASSUME ServicesAssumption ==
  /\ E!EventsAssumption /\ R!RelayAssumption /\ S!SessionAssumption /\ O!OfferAssumption
  /\ P!PilotAssumption /\ T!TokensAssumption /\ A!ProvisioningAssumption
  /\ I!SilenceAssumption /\ B!BatchAssumption

Init ==
  /\ part \in Parts
  /\ E!Init /\ R!Init /\ S!Init /\ O!Init /\ P!Init /\ M!Init /\ T!Init /\ A!Init /\ I!Init /\ B!Init
  /\ links = {"mercado_livre", "amazon"}
  \* The parts that are not explored have one initial state.
  /\ part # "offer" => policy = "pause"
  /\ part # "session" => creds = 0

Next ==
  \/ /\ part = "events" /\ E!Next
     /\ UNCHANGED <<part, rvars, svars, ovars, pvars, mvars, tvars, avars, ivars, bvars>>
  \/ /\ part = "relay" /\ R!Next
     /\ UNCHANGED <<part, evars, svars, ovars, pvars, mvars, tvars, avars, ivars, bvars>>
  \/ /\ part = "session" /\ S!Next
     /\ UNCHANGED <<part, evars, rvars, ovars, pvars, mvars, tvars, avars, ivars, bvars>>
  \/ /\ part = "offer" /\ O!Next
     /\ UNCHANGED <<part, evars, rvars, svars, pvars, mvars, tvars, avars, ivars, bvars>>
  \/ /\ part = "pilot" /\ P!Next
     /\ UNCHANGED <<part, evars, rvars, svars, ovars, mvars, tvars, avars, ivars, bvars>>
  \/ /\ part = "media" /\ M!Next
     /\ UNCHANGED <<part, evars, rvars, svars, ovars, pvars, tvars, avars, ivars, bvars>>
  \/ /\ part = "tokens" /\ T!Next
     /\ UNCHANGED <<part, evars, rvars, svars, ovars, pvars, mvars, avars, ivars, bvars>>
  \/ /\ part = "account" /\ A!Next
     /\ UNCHANGED <<part, evars, rvars, svars, ovars, pvars, mvars, tvars, ivars, bvars>>
  \/ /\ part = "silence" /\ I!Next
     /\ UNCHANGED <<part, evars, rvars, svars, ovars, pvars, mvars, tvars, avars, bvars>>
  \/ /\ part = "batch" /\ B!Next
     /\ UNCHANGED <<part, evars, rvars, svars, ovars, pvars, mvars, tvars, avars, ivars>>

\* The fairness of each part, while it is the one explored.
Fairness ==
  /\ WF_evars(part = "events" /\ E!AnyRunDue)
  /\ \A f \in Function : WF_evars(part = "events" /\ E!Process(f))
  /\ \A e \in Payload : /\ WF_rvars(part = "relay" /\ R!PutBack(e))
                        /\ WF_rvars(part = "relay" /\ R!AnyClaim(e))
  /\ \A u \in Runner : WF_rvars(part = "relay" /\ R!Deliver(u))
  /\ WF_ovars(part = "offer" /\ O!AnyRecover) /\ WF_ovars(part = "offer" /\ O!Expire)
  /\ \A u \in Run : WF_ovars(part = "offer" /\ O!Progress(u))

Spec == Init /\ [][Next]_vars /\ Fairness

-----------------------------------------------------------------------------
\* Every variable of every part has its type.
TypeOK == /\ E!TypeOK /\ R!TypeOK /\ S!TypeOK /\ O!TypeOK /\ P!TypeOK
          /\ M!TypeOK /\ T!TypeOK /\ A!TypeOK /\ I!TypeOK /\ B!TypeOK
\* One follow-up per message of an automation (flow-processor, automation-followup).
FollowedOnce == E!FollowedOnce
\* One message per event, however often its webhook is delivered (hubla-events.ts).
AnsweredOnce == E!AnsweredOnce
\* What the tables call done was accepted by Meta (hubla-processor.ts).
DoneIsTrue == E!DoneIsTrue
\* A follow-up by delay is settled (automation-followups-cron.ts).
DelaySettles == E!DelaySettles
\* A job that waits has attempts left (meta-relay.ts, finishJob).
NoExtraAttempt == R!NoExtraAttempt
\* Every job of the relay is delivered or given up (meta-relay.ts).
RelaySettles == R!RelaySettles
\* Older credentials do not replace newer ones (supabase-auth-state.ts).
OlderNeverWins == S!OlderNeverWins
\* Logout leaves no credentials behind (supabase-auth-state.ts, clearAuth).
LogoutForgets == S!LogoutForgets
\* A connected number has its socket open (session.ts).
ConnectedIsOpen == S!ConnectedIsOpen
\* No link waits unconverted against the policy (offer-processor.ts).
ConvertedOrAllowed == O!ConvertedOrAllowed
\* No offer stays in processing (offer-recovery.ts).
OfferSettles == O!OfferSettles
\* No more offers hold a slot than there are slots (promote_waiting_pilot_offers).
SlotBound == P!SlotBound
\* No offer that was not passed over waits for a free slot unasked (run_pilot_maintenance).
WaitingIsAsked == P!WaitingIsAsked
\* An offer that is over gives its slot back (sync_pilot_delivery_from_group_dispatch).
SlotReleased == P!SlotReleased
\* What may still be sent has its file (temporary-media-gc.ts).
MediaKept == M!MediaKept
\* A renewal presents the newest token (mercado-livre-token-manager.ts).
NeverSpent == T!NeverSpent
\* The owner of an account enters that account (account-provisioning.ts, webhooks).
OwnerEnters == A!OwnerEnters
\* Incidents are resolved by the end of their own silence (observer.ts).
ResolvedWithItsSilence == I!ResolvedWithItsSilence
\* A batch is over when its rows are, and has nothing left to send (recalc_lote_counts).
AgreesWithItsRows == B!AgreesWithItsRows
=============================================================================
