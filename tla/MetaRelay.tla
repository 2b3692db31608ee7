----------------------------- MODULE MetaRelay -----------------------------
(***************************************************************************)
(* The relay of Meta's webhooks to the CRM (server/meta-relay.ts): a       *)
(* payload becomes a job, stored once; a cron claims due jobs, delivers    *)
(* them with an idempotency key and schedules what failed again, while the *)
(* claim puts back jobs whose attempt was interrupted.                     *)
(***************************************************************************)
EXTENDS Naturals

CONSTANTS Payload, Runner, NoPayload,
          MaxAttempts, \* max_attempts (5)
          MaxDeaths    \* bound on the functions that die and the updates that fail

RelayAssumption ==
  MaxAttempts \in Nat \ {0} /\ MaxDeaths \in Nat /\ NoPayload \notin Payload

VARIABLES
  relay,   \* relay[p]: the row of meta_relay_jobs: status ("none" if absent), attempts
  runner,  \* runner[u]: the job u delivers, as it read it
  deaths   \* functions that died and updates that failed so far

vars == <<relay, runner, deaths>>

TypeOK ==
  /\ relay \in [Payload ->
       [status : {"none", "queued", "processing", "retry_scheduled", "delivered", "failed"},
        attempts : 0..MaxAttempts]]
  /\ runner \in [Runner -> [at : {"idle", "posting", "answered"},
                            job : Payload \cup {NoPayload}, attempts : 0..MaxAttempts,
                            answer : {"ok", "retry", "reject"}]]
  /\ deaths \in 0..MaxDeaths

Free == [at |-> "idle", job |-> NoPayload, attempts |-> 0, answer |-> "ok"]
Init ==
  /\ relay = [p \in Payload |-> [status |-> "none", attempts |-> 0]]
  /\ runner = [u \in Runner |-> Free]
  /\ deaths = 0

\* enqueueMetaRelay: a redelivered webhook has the same idempotency key.
Enqueue(p) ==
  /\ relay[p].status = "none"
  /\ relay' = [relay EXCEPT ![p].status = "queued"]
  /\ UNCHANGED <<runner, deaths>>

\* Mutant of Interrupted: jobs that wait are put back, the claimed ones are not.
InterruptedWaiting(p) == relay[p].status = "retry_scheduled"
Interrupted(p) == relay[p].status = "processing"

\* claim_due_meta_relay_jobs puts back jobs claimed 120 s ago or more, those
\* of a function that is still waiting for the database included.
PutBack(p) ==
  /\ Interrupted(p)
  /\ relay' = [relay EXCEPT ![p].status = "retry_scheduled"]
  /\ UNCHANGED <<runner, deaths>>

\* The claim, and the read of the claimed job.
Claim(u, p) ==
  /\ relay[p].status \in {"queued", "retry_scheduled"} /\ runner[u].at = "idle"
  /\ relay' = [relay EXCEPT ![p].status = "processing"]
  /\ runner' = [runner EXCEPT ![u] = [Free EXCEPT !.at = "posting", !.job = p,
                                                  !.attempts = relay[p].attempts]]
  /\ UNCHANGED deaths

\* deliverJob: success, an answer worth another attempt (shouldRetryMetaRelay)
\* or a refusal.
Post(u) ==
  /\ runner[u].at = "posting"
  /\ \E a \in {"ok", "retry", "reject"} :
       runner' = [runner EXCEPT ![u].at = "answered", ![u].answer = a]
  /\ UNCHANGED <<relay, deaths>>

Attempt(u) == runner[u].attempts + 1
\* Mutant of Retried: the last attempt is scheduled again.
RetriedForever(u) == runner[u].answer = "retry"
Retried(u) == runner[u].answer = "retry" /\ Attempt(u) < MaxAttempts

\* finishJob writes by id alone, whatever the row says now.
FinishJob(u) ==
  /\ runner[u].at = "answered"
  /\ relay' = [relay EXCEPT ![runner[u].job] =
       [status |-> IF runner[u].answer = "ok" THEN "delivered"
                   ELSE IF Retried(u) THEN "retry_scheduled" ELSE "failed",
        attempts |-> Attempt(u)]]
  /\ runner' = [runner EXCEPT ![u] = Free]
  /\ UNCHANGED deaths

\* finishJob('delivered') throws, with its update made or not: the catch of the
\* delivery calls it again, with an answer that is not worth another attempt.
DeliveredThrows(u) ==
  /\ runner[u].at = "answered" /\ runner[u].answer = "ok"
  /\ deaths < MaxDeaths /\ deaths' = deaths + 1
  /\ runner' = [runner EXCEPT ![u].answer = "reject"]
  /\ \/ UNCHANGED relay
     \/ relay' = [relay EXCEPT ![runner[u].job] = [status |-> "delivered", attempts |-> Attempt(u)]]

\* The function dies, or the final update fails.
Die(u) ==
  /\ runner[u].at # "idle" /\ deaths < MaxDeaths /\ deaths' = deaths + 1
  /\ runner' = [runner EXCEPT ![u] = Free]
  /\ UNCHANGED relay

Next == \/ \E p \in Payload : Enqueue(p) \/ PutBack(p) \/ \E u \in Runner : Claim(u, p)
        \/ \E u \in Runner : Post(u) \/ FinishJob(u) \/ DeliveredThrows(u) \/ Die(u)

\* The cron calls run-due; functions that live go on.
AnyClaim(p) == \E u \in Runner : Claim(u, p)
Deliver(u) == Post(u) \/ FinishJob(u)
Fairness == /\ \A p \in Payload : WF_vars(PutBack(p)) /\ WF_vars(AnyClaim(p))
            /\ \A u \in Runner : WF_vars(Deliver(u))
Spec == Init /\ [][Next]_vars /\ Fairness

-----------------------------------------------------------------------------
(* Properties.                                                             *)

\* No job waits for an attempt beyond its maximum, although a late function
\* overwrites the row and its count of attempts by id alone.
NoExtraAttempt == \A p \in Payload :
  relay[p].status \in {"queued", "retry_scheduled", "processing"}
    => relay[p].attempts < MaxAttempts

\* Every job is delivered or given up, although interrupted attempts are put
\* back uncounted, late functions overwrite one another and the updates of the
\* row fail.
RelaySettles == \A p \in Payload :
  relay[p].status = "queued" ~> relay[p].status \in {"delivered", "failed"}
=============================================================================
