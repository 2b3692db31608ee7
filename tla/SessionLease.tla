---------------------------- MODULE SessionLease ----------------------------
(***************************************************************************)
(* How service processes share the WhatsApp sessions (senders/runtime.ts   *)
(* and the lease functions of the database).  A process keeps a map        *)
(* `senders` of running sessions, each with the lease version it was       *)
(* started under; a non-overlapping supervisor cycle renews the leases of  *)
(* that map, drops what was not renewed, acquires more, drops what it does *)
(* not own and starts what it does.  HTTP handlers connect, restart and    *)
(* disconnect single numbers at any moment of the cycle.  Every database   *)
(* call and the use of its answer are separate steps, an answer may be     *)
(* lost, and a process may crash and come back.                            *)
(***************************************************************************)
EXTENDS LeaseContract, FiniteSets

CONSTANTS MaxSessionsPerWorker,  \* env.MAX_SESSIONS_PER_WORKER
          Steady,                \* workers that keep running; the others may die silently
          MaxCrashes             \* bound on process restarts

ASSUME SupervisorAssumption ==
  /\ Steady \subseteq Worker
  /\ MaxSessionsPerWorker \in Nat \ {0}
  /\ MaxCrashes \in Nat
  /\ IsFiniteSet(Session)

VARIABLES
  paused,   \* sessions with a row in whatsapp_sender_pauses
  held,     \* held[w][s]: leaseVersion of s in the map `senders` of w, 0 if absent
  granted,  \* granted[w][s]: version under which w is creating the session, 0 if none
  sup,      \* sup[w]: step of the supervisor cycle of w
  answer,   \* answer[w][s]: version the last database answer gives w for s, 0 if none
  todo,     \* todo[w]: sessions the current cycle still has to start
  crashes

workerVars == <<held, granted, sup, answer, todo>>
vars == <<lease, paused, held, granted, sup, answer, todo, crashes>>

SupStep == {"idle", "renewed", "acquire", "acquired", "starting"}
Nothing == [s \in Session |-> 0]

TypeOK ==
  /\ LeaseTypeOK
  /\ paused \subseteq Session
  /\ held \in [Worker -> [Session -> Nat]]
  /\ granted \in [Worker -> [Session -> Nat]]
  /\ sup \in [Worker -> SupStep]
  /\ answer \in [Worker -> [Session -> Nat]]
  /\ todo \in [Worker -> SUBSET Session]
  /\ crashes \in Nat

Init ==
  /\ LeaseInit
  /\ paused = {}
  /\ held = [w \in Worker |-> Nothing]
  /\ granted = [w \in Worker |-> Nothing]
  /\ sup = [w \in Worker |-> "acquire"]
  /\ answer = [w \in Worker |-> Nothing]
  /\ todo = [w \in Worker |-> {}]
  /\ crashes = 0

-----------------------------------------------------------------------------
(* The supervisor cycle of worker w.                                       *)

\* Sessions of the map `senders` whose lease the renew statement matches.
Renewed(w) == {s \in Session : held[w][s] # 0 /\ Renewable(w, s, held[w][s])}

RenewRows(w) ==
  lease' = [s \in Session |->
              IF s \in Renewed(w) THEN [lease[s] EXCEPT !.live = TRUE] ELSE lease[s]]

RenewLeases(w) ==
  /\ sup[w] = "idle"
  /\ RenewRows(w)
  /\ sup' = [sup EXCEPT ![w] = "renewed"]
  /\ answer' = [answer EXCEPT ![w] =
                  [s \in Session |-> IF s \in Renewed(w) THEN held[w][s] ELSE 0]]
  /\ UNCHANGED <<paused, held, granted, todo, crashes>>

\* The renewal took effect but its answer was lost: the cycle throws and ends.
RenewAnswerLost(w) ==
  /\ sup[w] = "idle"
  /\ RenewRows(w)
  /\ UNCHANGED <<paused, held, granted, sup, answer, todo, crashes>>

\* Mutant of Kept: a session missing from the answer goes on running.
KeptAll(w) == held[w]

\* What is left of the map `senders` when every session the answer does not
\* list is stopped, also one that an HTTP handler put there while the answer
\* was on its way.
Kept(w) == [s \in Session |-> IF answer[w][s] # 0 THEN held[w][s] ELSE 0]

DropNotRenewed(w) ==
  /\ sup[w] = "renewed"
  /\ held' = [held EXCEPT ![w] = Kept(w)]
  /\ sup' = [sup EXCEPT ![w] = "acquire"]
  /\ answer' = [answer EXCEPT ![w] = Nothing]
  /\ UNCHANGED <<lease, paused, granted, todo, crashes>>

LiveOwned(w) == {s \in Session : lease[s].owner = w /\ lease[s].live}

\* Mutant of Candidates: lapsed leases of other workers are passed over.
CandidatesOwnOnly(w) == {s \in Session : lease[s].owner \in {w, NoWorker}} \ paused

Candidates(w) == {s \in Session : CanTake(w, s)} \ paused
\* The ORDER BY of the cursor: the worker's own rows (the earliest to expire
\* first), then lapsed rows of others, then sessions without a row.
Rank(w, s) ==
  IF lease[s].owner = w THEN (IF lease[s].live THEN 1 ELSE 0)
  ELSE IF lease[s].owner # NoWorker THEN 2 ELSE 3
\* The LIMIT of the cursor, greatest(0, p_limit - owned_count).
Room(w) == IF Cardinality(LiveOwned(w)) >= MaxSessionsPerWorker THEN 0
           ELSE MaxSessionsPerWorker - Cardinality(LiveOwned(w))

\* A set the acquire cursor may visit: as many candidates as the limit
\* allows, in that order.
Visited(w, S) ==
  /\ S \subseteq Candidates(w)
  /\ Cardinality(S) <= Room(w)
  /\ Cardinality(S) = Room(w) \/ S = Candidates(w)
  /\ \A s \in S, r \in Candidates(w) \ S : Rank(w, s) <= Rank(w, r)

TakeRows(w, S) ==
  lease' = [s \in Session |-> IF s \in S THEN Taken(w, s) ELSE lease[s]]

\* Mutant of Returned: the closing query forgets whose leases it lists.
ReturnedAnyOwner(w, R) == R = {s \in Session : lease'[s].live}

\* The rows the function returns: live leases of w, at most p_limit of them.
Returned(w, R) ==
  LET mine == {s \in Session : lease'[s].owner = w /\ lease'[s].live}
  IN /\ R \subseteq mine
     /\ Cardinality(R) <= MaxSessionsPerWorker
     /\ Cardinality(R) = MaxSessionsPerWorker \/ R = mine

AcquireLeases(w) ==
  /\ sup[w] = "acquire"
  /\ \E S, R \in SUBSET Session :
       /\ Visited(w, S)
       /\ TakeRows(w, S)
       /\ Returned(w, R)
       /\ answer' = [answer EXCEPT ![w] =
                       [s \in Session |-> IF s \in R THEN lease'[s].version ELSE 0]]
  /\ sup' = [sup EXCEPT ![w] = "acquired"]
  /\ UNCHANGED <<paused, held, granted, todo, crashes>>

AcquireAnswerLost(w) ==
  /\ sup[w] = "acquire"
  /\ \E S \in SUBSET Session : Visited(w, S) /\ TakeRows(w, S)
  /\ sup' = [sup EXCEPT ![w] = "idle"]
  /\ UNCHANGED <<paused, held, granted, answer, todo, crashes>>

\* A session already being created keeps the version it was asked with
\* (the map startingSenders answers the second caller with the first promise).
Asked(w, s, v) == IF granted[w][s] # 0 THEN granted[w][s] ELSE v

\* Stop what the answer does not list; ask for every listed session that is
\* not running under exactly the listed version.
ApplyOwnership(w) ==
  LET toStart == {s \in Session : answer[w][s] # 0 /\ held[w][s] # answer[w][s]}
  IN /\ sup[w] = "acquired"
     /\ held' = [held EXCEPT ![w] = Kept(w)]
     /\ granted' = [granted EXCEPT ![w] =
                      [s \in Session |-> IF s \in toStart
                                         THEN Asked(w, s, answer[w][s])
                                         ELSE granted[w][s]]]
     /\ todo' = [todo EXCEPT ![w] = toStart]
     /\ sup' = [sup EXCEPT ![w] = "starting"]
     /\ answer' = [answer EXCEPT ![w] = Nothing]
     /\ UNCHANGED <<lease, paused, crashes>>

\* createWhatsAppSession returned: a session running under another version was
\* stopped first, and the new one enters the map with the version asked for.
StartSender(w, s) ==
  /\ granted[w][s] # 0
  /\ held' = [held EXCEPT ![w][s] = granted[w][s]]
  /\ granted' = [granted EXCEPT ![w][s] = 0]
  /\ todo' = [todo EXCEPT ![w] = @ \ {s}]
  /\ UNCHANGED <<lease, paused, sup, answer, crashes>>

\* Creation threw after the old session was stopped, or a local hold refused
\* it before the old session was touched.
StartFails(w, s) ==
  /\ granted[w][s] # 0
  /\ held' = [held EXCEPT ![w][s] = 0] \/ UNCHANGED held
  /\ granted' = [granted EXCEPT ![w][s] = 0]
  /\ todo' = [todo EXCEPT ![w] = @ \ {s}]
  /\ UNCHANGED <<lease, paused, sup, answer, crashes>>

EndCycle(w) ==
  /\ sup[w] = "starting"
  /\ todo[w] = {}
  /\ sup' = [sup EXCEPT ![w] = "idle"]
  /\ UNCHANGED <<lease, paused, held, granted, answer, todo, crashes>>

-----------------------------------------------------------------------------
(* HTTP handlers, operators and failures.                                  *)

\* Mutant of TakeRow: the upsert has lost its WHERE.
TakeRowUnguarded(w, s) == lease' = [lease EXCEPT ![s] = Taken(w, s)]

TakeRow(w, s) == CanTake(w, s) /\ lease' = [lease EXCEPT ![s] = Taken(w, s)]

\* Connect by QR code: the single acquire function checks neither pauses nor
\* the worker's limit.  A session that is running and active is kept as it is,
\* under the version it has; otherwise it is logged out and created anew.
ConnectByName(w, s) ==
  /\ TakeRow(w, s)
  /\ \/ held[w][s] # 0 /\ UNCHANGED <<held, granted>>
     \/ /\ held' = [held EXCEPT ![w][s] = 0]
        /\ granted' = [granted EXCEPT ![w][s] = Asked(w, s, lease'[s].version)]
  /\ UNCHANGED <<paused, sup, answer, todo, crashes>>

\* Restart by name always replaces the running session.
RestartByName(w, s) ==
  /\ TakeRow(w, s)
  /\ held' = [held EXCEPT ![w][s] = 0]
  /\ granted' = [granted EXCEPT ![w][s] = Asked(w, s, lease'[s].version)]
  /\ UNCHANGED <<paused, sup, answer, todo, crashes>>

\* Logout by the panel, or a local hold: the session goes, the lease stays.
StopSession(w, s) ==
  /\ held[w][s] # 0
  /\ held' = [held EXCEPT ![w][s] = 0]
  /\ UNCHANGED <<lease, paused, granted, sup, answer, todo, crashes>>

PauseSender(s) ==
  /\ s \notin paused
  /\ paused' = paused \cup {s}
  /\ UNCHANGED <<lease, crashes, workerVars>>

ResumeSender(s) ==
  /\ s \in paused
  /\ paused' = paused \ {s}
  /\ UNCHANGED <<lease, crashes, workerVars>>

LeaseLapses(s) ==
  /\ lease[s].live
  /\ lease[s].version < MaxVersion
  /\ lease' = [lease EXCEPT ![s].live = FALSE]
  /\ UNCHANGED <<paused, crashes, workerVars>>

\* The process dies and is started again under the same INSTANCE_ID: its
\* memory is lost, its leases are not.
CrashAndRestart(w) ==
  /\ crashes < MaxCrashes
  /\ crashes' = crashes + 1
  /\ held' = [held EXCEPT ![w] = Nothing]
  /\ granted' = [granted EXCEPT ![w] = Nothing]
  /\ answer' = [answer EXCEPT ![w] = Nothing]
  /\ todo' = [todo EXCEPT ![w] = {}]
  /\ sup' = [sup EXCEPT ![w] = "acquire"]
  /\ UNCHANGED <<lease, paused>>

Supervisor(w) ==
  \/ RenewLeases(w) \/ RenewAnswerLost(w) \/ DropNotRenewed(w)
  \/ AcquireLeases(w) \/ AcquireAnswerLost(w) \/ ApplyOwnership(w) \/ EndCycle(w)
  \/ \E s \in Session : StartSender(w, s) \/ StartFails(w, s)

Panel(w) ==
  \E s \in Session : ConnectByName(w, s) \/ RestartByName(w, s) \/ StopSession(w, s)

Next ==
  \/ \E w \in Worker : Supervisor(w) \/ Panel(w) \/ CrashAndRestart(w)
  \/ \E s \in Session : PauseSender(s) \/ ResumeSender(s) \/ LeaseLapses(s)

Spec == Init /\ [][Next]_vars

\* In a process that keeps running, setInterval keeps calling the supervisor,
\* every call it makes settles, and not every acquire answer is lost.
Fairness ==
  \A w \in Steady :
    /\ WF_vars(RenewLeases(w))
    /\ WF_vars(DropNotRenewed(w))
    /\ SF_vars(AcquireLeases(w))
    /\ WF_vars(ApplyOwnership(w))
    /\ WF_vars(EndCycle(w))
    /\ \A s \in Session : WF_vars(StartSender(w, s) \/ StartFails(w, s))

FairSpec == Spec /\ Fairness

-----------------------------------------------------------------------------
(* Properties.                                                             *)

\* The lease versions a worker may still act under.
Cached(w, s) == {held[w][s], granted[w][s], answer[w][s]} \ {0}

\* Fencing.  A version a worker remembers was never issued later than the row,
\* and if it is the row's current version the worker is the row's owner: so no
\* statement fenced by (worker, version) can act for a worker that lost s.
Fencing ==
  \A w \in Worker, s \in Session :
    \A v \in Cached(w, s) :
      v <= lease[s].version /\ (v = lease[s].version => lease[s].owner = w)

\* A fencing token is never shared: two processes never remember the same
\* version of the same session, however leases lapsed, moved and were renewed.
TokenUnshared ==
  \A w1, w2 \in Worker, s \in Session :
    Cached(w1, s) \cap Cached(w2, s) # {} => w1 = w2

\* The workers and the two acquire functions together keep the lease contract.
ImplementsContract == Contract

\* A number nobody is serving is taken over: a lapsed lease of a session that
\* is not paused is eventually live again.  ("retoma após expiração do lease")
FreeSessionIsLeased ==
  \A s \in Session : (~lease[s].live /\ s \notin paused) ~> (lease[s].live \/ s \in paused)

\* Two sockets for one number do not last: a session a worker runs under a
\* version that is no longer the row's is stopped or replaced.
StaleSessionStops ==
  \A w \in Steady, s \in Session :
    (held[w][s] # 0 /\ held[w][s] # lease[s].version)
      ~> (held[w][s] = 0 \/ held[w][s] = lease[s].version)

=============================================================================
