-------------------------- MODULE SilenceIncidents --------------------------
(***************************************************************************)
(* The silence detector of one number (observability/observer.ts) and what *)
(* it stores (bootstrap.ts).  A silence that lasts opens an incident; each *)
(* portrait of it is one row, inserted in the background, and the next     *)
(* message received resolves the rows there are.  Inserts and resolutions  *)
(* are calls that overlap, fail and are not repeated.                      *)
(***************************************************************************)
EXTENDS Naturals

CONSTANTS
  MaxIncidents, \* bound on the incidents
  MaxTroubles   \* bound on failed calls and on restarts

SilenceAssumption == MaxIncidents \in Nat /\ MaxTroubles \in Nat

VARIABLES
  watch,    \* on: enabled for the number; open: last.open > last.close; level; incident (0: none)
  next,     \* the incidents that have a name
  calls,    \* inserts and resolutions on their way
  rows,     \* whatsapp_obs_incidents
  missed,   \* observer: incidents with a failed or overtaken call, or a restart
  troubles

vars == <<watch, next, calls, rows, missed, troubles>>

Incident == 1..MaxIncidents
Call == [op : {"insert"}, of : Incident, kind : {"silence", "pre_restart"}]
        \cup [op : {"resolve"}, of : Incident, kind : {"silence"}]

TypeOK ==
  /\ watch \in [on : BOOLEAN, open : BOOLEAN, level : {0, 2, 20}, incident : 0..MaxIncidents]
  /\ next \in 0..MaxIncidents /\ calls \subseteq Call
  /\ rows \subseteq [of : Incident, kind : {"silence", "pre_restart"}, resolved : BOOLEAN]
  /\ missed \subseteq Incident /\ troubles \in 0..MaxTroubles

Init ==
  /\ watch = [on |-> TRUE, open |-> TRUE, level |-> 0, incident |-> 0]
  /\ next = 0 /\ calls = {} /\ rows = {} /\ missed = {} /\ troubles = 0

Trouble == troubles < MaxTroubles /\ troubles' = troubles + 1
Current == IF watch.incident = 0 THEN next + 1 ELSE watch.incident
Insert(i, k) == [op |-> "insert", of |-> i, kind |-> k]
Resolve(i) == [op |-> "resolve", of |-> i, kind |-> "silence"]
Inserting(i) == \E c \in calls : c.op = "insert" /\ c.of = i

\* openIncident: the incident has its name although a cap on the writes (30 an
\* hour, one before a restart in 10 minutes) keeps its portrait from the store.
OpenIncident(k, level) ==
  /\ Current <= MaxIncidents /\ Insert(Current, k) \notin calls
  /\ next' = IF Current > next THEN Current ELSE next
  /\ watch' = [watch EXCEPT !.level = level, !.incident = Current]
  /\ calls' \in {calls, calls \cup {Insert(Current, k)}}

\* tick: the silence counts from the last message or opening; the level only rises.
Tick ==
  /\ watch.on /\ watch.open
  /\ \/ /\ watch.level = 0 /\ watch' = [watch EXCEPT !.level = 2] /\ UNCHANGED <<next, calls>>
     \/ /\ watch.level < 20
        /\ IF watch.incident = 0 THEN OpenIncident("silence", 20)
           ELSE watch' = [watch EXCEPT !.level = 20] /\ UNCHANGED <<next, calls>>
  /\ UNCHANGED <<rows, missed, troubles>>

\* freezeBeforeRestart.
Freeze ==
  /\ watch.on /\ watch.level > 0
  /\ OpenIncident("pre_restart", watch.level)
  /\ UNCHANGED <<rows, missed, troubles>>

\* Mutant of Ended: the episode's name is kept.
EndedNamed == [watch EXCEPT !.level = 0]
Ended == [watch EXCEPT !.level = 0, !.incident = 0]

\* upsert and recover: a message received ends the silence.
Receive ==
  /\ watch.on /\ watch.level > 0 /\ watch' = Ended
  /\ calls' = IF watch.incident = 0 THEN calls ELSE calls \cup {Resolve(watch.incident)}
  /\ UNCHANGED <<next, rows, missed, troubles>>

\* The socket opens or closes; the detector is switched on or off.
Switch ==
  /\ \/ watch' = [watch EXCEPT !.open = ~@]
     \/ watch' = [watch EXCEPT !.on = ~@]
  /\ UNCHANGED <<next, calls, rows, missed, troubles>>

Inserted(c) ==
  /\ c.op = "insert" /\ calls' = calls \ {c}
  /\ rows' = rows \cup {[of |-> c.of, kind |-> c.kind, resolved |-> FALSE]}
  /\ UNCHANGED <<watch, next, missed, troubles>>

Resolved(i) == {IF r.of = i THEN [r EXCEPT !.resolved = TRUE] ELSE r : r \in rows}

\* resolveIncident: the rows that are there; a portrait on its way stays open.
Resolving(c) ==
  /\ c.op = "resolve" /\ calls' = calls \ {c} /\ rows' = Resolved(c.of)
  /\ missed' = IF Inserting(c.of) THEN missed \cup {c.of} ELSE missed
  /\ UNCHANGED <<watch, next, troubles>>

\* The error is only logged.
CallFails(c) ==
  /\ Trouble /\ calls' = calls \ {c} /\ missed' = missed \cup {c.of}
  /\ UNCHANGED <<watch, next, rows>>

\* The worker ends: the state of the detector and its calls are lost.
Restart ==
  /\ Trouble /\ calls' = {}
  /\ missed' = missed \cup {c.of : c \in calls} \cup ({watch.incident} \ {0})
  /\ watch' = [watch EXCEPT !.open = FALSE, !.level = 0, !.incident = 0]
  /\ UNCHANGED <<next, rows>>

Next ==
  \/ Tick \/ Freeze \/ Receive \/ Switch \/ Restart
  \/ \E c \in calls : Inserted(c) \/ Resolving(c) \/ CallFails(c)

Spec == Init /\ [][Next]_vars

\* Rows tell the end of their own silence: an incident that goes on is not resolved
\* by the end of another, and one that ended is, once its calls are done; except
\* when a call failed, a portrait arrived after the resolution, or the worker ended.
ResolvedWithItsSilence == \A r \in rows :
  /\ r.resolved => r.of # watch.incident
  /\ r.of # watch.incident /\ r.of \notin missed /\ Resolve(r.of) \notin calls => r.resolved
=============================================================================
