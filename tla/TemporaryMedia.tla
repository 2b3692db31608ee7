--------------------------- MODULE TemporaryMedia ---------------------------
(***************************************************************************)
(* One stored file, the rows that refer to it and the collectors of the    *)
(* workers (queue/temporary-media-gc.ts).  A collector reads the tables    *)
(* that may refer to the file, each by a statement of its own, in any      *)
(* order; then it lists the files, removes, and clears what refers to the  *)
(* removed.  The file is uploaded by people, for a batch or a template, or *)
(* by a worker, for a captured offer.  No request and no run of the        *)
(* collector lasts as long as a file is young (48 h), and offers are       *)
(* promoted within it (2 h).  Fewer rows than PostgREST returns in a page; *)
(* the quick replies, which are read too but whose files no dispatch       *)
(* takes, and the automations, whose files the collector does not look     *)
(* for, are left out.                                                      *)
(***************************************************************************)
CONSTANTS Job, Collector

\* envios_grupo, envios_grupo_lotes, captured_offers, modelos_mensagem.
Table == {"jobs", "lots", "offers", "templates"}

VARIABLES
  file,     \* the object: fresh until TEMPORARY_MEDIA_GC_MIN_AGE_MS (48 h)
  draft,    \* a request that will refer to the file: its upload, or its copy of a template
  template, \* modelos_mensagem
  captured, \* captured_offers: the offer whose file it is, in ACTIVE_OFFER_STATUSES or over
  jobs,     \* jobs[j]: status of the dispatch (and its batch), and whether it refers to the file
  gc,       \* gc[c]: what collector c does next, and the tables it has still to read
  orphaned  \* observer: a template was deleted that a request or a collector relied on

vars == <<file, draft, template, captured, jobs, gc, orphaned>>
References == <<draft, template, captured>>

TypeOK ==
  /\ file \in {"none", "fresh", "old", "gone"}
  /\ draft \in {"none", "upload", "copy"} /\ template \in BOOLEAN
  /\ captured \in {"none", "active", "over"}
  /\ jobs \in [Job -> [status : {"none", "queued", "incerto", "over"}, refers : BOOLEAN]]
  /\ gc \in [Collector -> [at : {"idle", "read", "remove", "clear"}, unread : SUBSET Table]]
  /\ orphaned \in BOOLEAN

Idle == [at |-> "idle", unread |-> {}]
Init ==
  /\ file = "none" /\ draft = "none" /\ template = FALSE /\ captured = "none"
  /\ jobs = [j \in Job |-> [status |-> "none", refers |-> FALSE]]
  /\ gc = [c \in Collector |-> Idle] /\ orphaned = FALSE

Reading(c) == gc[c].at = "read"

-----------------------------------------------------------------------------
(* The rows that refer to the file.                                        *)

\* The signed upload; the request that uses the file comes later, or never.
Upload ==
  /\ file = "none" /\ file' = "fresh" /\ draft' = "upload"
  /\ UNCHANGED <<template, captured, jobs, gc, orphaned>>

\* process() stores the file of an offer and then writes its path to the row.
CaptureMedia ==
  /\ file = "none" /\ file' = "fresh" /\ captured' \in {"active", "over"}
  /\ UNCHANGED <<draft, template, jobs, gc, orphaned>>

Age ==
  /\ file = "fresh" /\ draft = "none" /\ (\A c \in Collector : ~Reading(c)) /\ file' = "old"
  /\ UNCHANGED <<References, jobs, gc, orphaned>>

SaveTemplate ==
  /\ draft = "upload" /\ template' = TRUE /\ draft' = "none"
  /\ UNCHANGED <<file, captured, jobs, gc, orphaned>>

\* A collector that has read the dispatches and the batches counts on the template.
CountsOnTemplate(c) ==
  Reading(c) /\ gc[c].unread \cap {"jobs", "lots", "templates"} = {"templates"}

DeleteTemplate ==
  /\ template /\ template' = FALSE
  /\ orphaned' = (orphaned \/ draft = "copy" \/ \E c \in Collector : CountsOnTemplate(c))
  /\ UNCHANGED <<file, draft, captured, jobs, gc>>

\* bulk-schedule reads the template first.
CopyTemplate ==
  /\ template /\ draft = "none" /\ draft' = "copy"
  /\ UNCHANGED <<file, template, captured, jobs, gc, orphaned>>

\* The dispatches of a batch (lotes/create, lotes/bulk-schedule, which goes on to
\* its next batch); the batch, stored just before them, refers as they do.
Enqueue(j) ==
  /\ draft # "none" /\ jobs[j].status = "none"
  /\ draft' = "none" \/ (draft = "copy" /\ UNCHANGED draft)
  /\ jobs' = [jobs EXCEPT ![j] = [status |-> "queued", refers |-> TRUE]]
  /\ UNCHANGED <<file, template, captured, gc, orphaned>>

\* The request fails, and takes its rows back.
GiveUp ==
  /\ draft # "none" /\ draft' = "none"
  /\ UNCHANGED <<file, template, captured, jobs, gc, orphaned>>

\* An offer is promoted to a dispatch for each destination.
Promote(j) ==
  /\ captured = "active" /\ file = "fresh" /\ jobs[j].status = "none"
  /\ jobs' = [jobs EXCEPT ![j] = [status |-> "queued", refers |-> TRUE]]
  /\ UNCHANGED <<file, References, gc, orphaned>>

\* The offer is sent, ignored or a duplicate; people bring it back only with an
\* uncertain dispatch, which refers to the file as well.
EndOffer ==
  /\ captured = "active" /\ captured' = "over"
  /\ UNCHANGED <<file, draft, template, jobs, gc, orphaned>>

\* The queue sends, fails, cancels or does not know; people retry or settle.
Settle(j) ==
  /\ \/ jobs[j].status = "queued" /\ \E s \in {"incerto", "over"} : jobs' = [jobs EXCEPT ![j].status = s]
     \/ jobs[j].status = "incerto" /\ \E s \in {"queued", "over"} : jobs' = [jobs EXCEPT ![j].status = s]
  /\ UNCHANGED <<file, References, gc, orphaned>>

-----------------------------------------------------------------------------
(* The collectors.                                                         *)

\* Mutant of Active: what may have been sent needs its file no more.
ActiveCertain == {"queued"}
Active == {"queued", "incerto"}

\* What a statement on table t finds; a batch has the status of its dispatches.
Refers(t) ==
  CASE t \in {"jobs", "lots"} -> \E j \in Job : jobs[j].status \in Active /\ jobs[j].refers
    [] t = "offers" -> captured = "active"
    [] t = "templates" -> template

Begin(c) ==
  /\ gc[c].at = "idle" /\ gc' = [gc EXCEPT ![c] = [at |-> "read", unread |-> Table]]
  /\ UNCHANGED <<file, References, jobs, orphaned>>

\* One of the five statements of pathsToKeep: a path that it finds is kept.
Read(c, t) ==
  /\ Reading(c) /\ t \in gc[c].unread
  /\ gc' = [gc EXCEPT ![c] = IF Refers(t) THEN Idle ELSE [at |-> "read", unread |-> gc[c].unread \ {t}]]
  /\ UNCHANGED <<file, References, jobs, orphaned>>

OldEnough == file = "old"

\* The cutoff is taken after the paths to keep, the listing follows.
List(c) ==
  /\ Reading(c) /\ gc[c].unread = {}
  /\ gc' = [gc EXCEPT ![c] = IF OldEnough THEN [at |-> "remove", unread |-> {}] ELSE Idle]
  /\ UNCHANGED <<file, References, jobs, orphaned>>

\* A path that is gone already is not an error.
Remove(c) ==
  /\ gc[c].at = "remove" /\ gc' = [gc EXCEPT ![c] = [at |-> "clear", unread |-> {}]] /\ file' = "gone"
  /\ UNCHANGED <<References, jobs, orphaned>>

\* clearTerminalReferences (the offers are over as before without their path).
ClearReferences(c) ==
  /\ gc[c].at = "clear" /\ gc' = [gc EXCEPT ![c] = Idle]
  /\ jobs' = [j \in Job |-> IF jobs[j].status = "over" THEN [jobs[j] EXCEPT !.refers = FALSE]
                            ELSE jobs[j]]
  /\ UNCHANGED <<file, References, orphaned>>

\* An error of the database or the storage, or the end of the worker.
Throw(c) ==
  /\ gc[c].at # "idle" /\ gc' = [gc EXCEPT ![c] = Idle]
  /\ UNCHANGED <<file, References, jobs, orphaned>>

Next ==
  \/ Upload \/ CaptureMedia \/ Age \/ SaveTemplate \/ DeleteTemplate \/ CopyTemplate \/ GiveUp \/ EndOffer
  \/ \E j \in Job : Enqueue(j) \/ Promote(j) \/ Settle(j)
  \/ \E c \in Collector :
       \/ Begin(c) \/ List(c) \/ Remove(c) \/ ClearReferences(c) \/ Throw(c)
       \/ \E t \in Table : Read(c, t)

Spec == Init /\ [][Next]_vars

\* A dispatch that may still be sent, or an offer that is still active, has its
\* file, whatever was created, retried or settled between the statements of a
\* collector, its listing and its removal; except a dispatch copied from a
\* template that was deleted before the request had stored it, or after a
\* collector that did not see the dispatch and before that collector had read the
\* templates.
MediaKept ==
  ~orphaned =>
    /\ \A j \in Job : jobs[j].status \in {"queued", "incerto"} /\ jobs[j].refers => file \in {"fresh", "old"}
    /\ captured = "active" => file \in {"fresh", "old"}
=============================================================================
