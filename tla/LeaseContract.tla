--------------------------- MODULE LeaseContract ---------------------------
(***************************************************************************)
(* The lease table whatsapp_session_leases as its users rely on it: one    *)
(* row per WhatsApp session (a sender number) with the worker that owns    *)
(* it, a version that is the fencing token, and whether lease_expires_at   *)
(* is still in the future.  Wall-clock time is abstracted to the fact that *)
(* a live lease may lapse at any moment.                                   *)
(*                                                                         *)
(* SessionLease details how workers obtain and lose leases and implements  *)
(* this contract; SendQueue uses the contract and nothing else.            *)
(***************************************************************************)
EXTENDS Integers

CONSTANTS Worker,     \* env.INSTANCE_ID of each running service process
          Session,    \* rows of whatsapp_senders
          NoWorker,   \* owner of a session that has no lease row yet
          MaxVersion  \* bound: leases stop lapsing at this version

ASSUME LeaseAssumption ==
  /\ NoWorker \notin Worker
  /\ MaxVersion \in Nat

VARIABLE lease

Lease == [owner : Worker \cup {NoWorker}, version : Nat, live : BOOLEAN]

LeaseTypeOK == lease \in [Session -> Lease]

\* No lease row exists: version 0 is the absence of a row.
LeaseInit ==
  lease = [s \in Session |-> [owner |-> NoWorker, version |-> 0, live |-> FALSE]]

-----------------------------------------------------------------------------
\* The ON CONFLICT ... WHERE of both acquire functions.
CanTake(w, s) == lease[s].owner = w \/ ~lease[s].live

\* Mutants of Taken.
TakenSameVersion(w, s) ==
  [owner   |-> w,
   version |-> IF lease[s].owner = NoWorker THEN 1 ELSE lease[s].version,
   live    |-> TRUE]

TakenVersionDown(w, s) ==
  [owner |-> w, version |-> lease[s].version - 1, live |-> TRUE]

\* The row both acquire functions write: the version survives only when the
\* same owner re-acquires a lease that is still live.
Taken(w, s) ==
  [owner   |-> w,
   version |-> IF lease[s].owner = w /\ lease[s].live
               THEN lease[s].version ELSE lease[s].version + 1,
   live    |-> TRUE]

\* The WHERE of renew_whatsapp_session_leases: owner and version must match;
\* a lapsed lease nobody took is renewed all the same.
Renewable(w, s, v) == lease[s].owner = w /\ lease[s].version = v

\* validate_whatsapp_session_lease, and the lease conjunct of every
\* statement that fences a write.
HoldsLease(w, s, v) == Renewable(w, s, v) /\ lease[s].live

-----------------------------------------------------------------------------
\* What may happen to the lease of one session in one step.
TakenBy(w, s) == CanTake(w, s) /\ lease'[s] = Taken(w, s)

ExtendedBy(w, s) ==
  /\ lease[s].owner = w
  /\ lease'[s] = [lease[s] EXCEPT !.live = TRUE]

\* now() reaches lease_expires_at.
Lapsed(s) ==
  /\ lease[s].live
  /\ lease[s].version < MaxVersion
  /\ lease'[s] = [lease[s] EXCEPT !.live = FALSE]

SessionStep(s) ==
  \/ lease'[s] = lease[s]
  \/ \E w \in Worker : TakenBy(w, s) \/ ExtendedBy(w, s)
  \/ Lapsed(s)

LeaseNext ==
  /\ lease' = [s \in Session |-> lease'[s]]
  /\ \A s \in Session : SessionStep(s)

\* The contract: no step gives a live lease to a second worker, and every
\* change of owner, like every take-over of a lapsed lease, raises the version.
Contract == LeaseInit /\ [][LeaseNext]_lease

=============================================================================
