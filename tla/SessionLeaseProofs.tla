------------------------- MODULE SessionLeaseProofs -------------------------
(***************************************************************************)
(* Proofs about SessionLease, for any workers, sessions and bounds.        *)
(*                                                                         *)
(* The argument for fencing: versions of a lease only grow and keep their  *)
(* owner (LeaseGrows), and a worker only ever learns a version when it is  *)
(* the row's current one and the worker its owner (LearnsOwn).  From these *)
(* two facts about every step, Fencing and TokenUnshared together are      *)
(* inductive.                                                              *)
(***************************************************************************)
EXTENDS SessionLease, TLAPS

\* What every step does to the leases ...
LeaseGrows ==
  \A s \in Session :
    /\ lease'[s].version >= lease[s].version
    /\ lease'[s].version = lease[s].version => lease'[s].owner = lease[s].owner

\* ... and to what the workers remember of them.
LearnsOwn ==
  \A w \in Worker, s \in Session : \A v \in Cached(w, s)' :
    v \in Cached(w, s) \/ (v = lease'[s].version /\ lease'[s].owner = w)

-----------------------------------------------------------------------------
(* Types.                                                                  *)

LEMMA TakenType ==
  ASSUME LeaseTypeOK, NEW w \in Worker, NEW s \in Session
  PROVE  Taken(w, s) \in Lease
  BY DEF LeaseTypeOK, Taken, Lease

LEMMA RenewType ==
  ASSUME LeaseTypeOK, NEW w \in Worker, RenewRows(w)
  PROVE  LeaseTypeOK'
  BY DEF LeaseTypeOK, RenewRows, Lease

LEMMA TakeType ==
  ASSUME LeaseTypeOK, NEW w \in Worker, NEW S \in SUBSET Session, TakeRows(w, S)
  PROVE  LeaseTypeOK'
  BY TakenType DEF LeaseTypeOK, TakeRows

LEMMA TakeRowType ==
  ASSUME LeaseTypeOK, NEW w \in Worker, NEW s \in Session, TakeRow(w, s)
  PROVE  LeaseTypeOK'
  BY TakenType DEF LeaseTypeOK, TakeRow

LEMMA NothingType == Nothing \in [Session -> Nat]
  BY DEF Nothing

LEMMA AskedType ==
  ASSUME TypeOK, NEW w \in Worker, NEW s \in Session, NEW v \in Nat
  PROVE  Asked(w, s, v) \in Nat
  BY DEF TypeOK, Asked

\* The initial states and every step respect the types.
LEMMA InitTypes == ASSUME Init PROVE TypeOK
  BY NothingType DEF Init, TypeOK, LeaseInit, LeaseTypeOK, Lease, SupStep

LEMMA SupervisorTypes ==
  ASSUME TypeOK, NEW w \in Worker, Supervisor(w)
  PROVE  TypeOK'
<1> USE DEF SupStep
<1>1. CASE RenewLeases(w)
  BY <1>1, RenewType DEF RenewLeases, TypeOK
<1>2. CASE RenewAnswerLost(w)
  BY <1>2, RenewType DEF RenewAnswerLost, TypeOK
<1>3. CASE DropNotRenewed(w)
  BY <1>3, NothingType DEF DropNotRenewed, Kept, TypeOK, LeaseTypeOK
<1>4. CASE AcquireLeases(w)
  <2>1. PICK S \in SUBSET Session, R \in SUBSET Session :
          /\ TakeRows(w, S)
          /\ answer' = [answer EXCEPT ![w] =
                          [s \in Session |-> IF s \in R THEN lease'[s].version ELSE 0]]
    BY <1>4 DEF AcquireLeases
  <2>2. LeaseTypeOK'
    BY <2>1, TakeType DEF TypeOK
  <2>3. \A s \in Session : lease'[s].version \in Nat
    BY <2>2 DEF LeaseTypeOK, Lease
  <2> QED
    BY <1>4, <2>1, <2>2, <2>3 DEF AcquireLeases, TypeOK
<1>5. CASE AcquireAnswerLost(w)
  BY <1>5, TakeType DEF AcquireAnswerLost, TypeOK
<1>6. CASE ApplyOwnership(w)
  <2>1. \A s \in Session : Asked(w, s, answer[w][s]) \in Nat
    BY AskedType DEF TypeOK
  <2> QED
    BY <1>6, <2>1, NothingType DEF ApplyOwnership, Kept, TypeOK, LeaseTypeOK
<1>7. CASE EndCycle(w)
  BY <1>7 DEF EndCycle, TypeOK, LeaseTypeOK
<1>8. ASSUME NEW s \in Session, StartSender(w, s) PROVE TypeOK'
  BY <1>8 DEF StartSender, TypeOK, LeaseTypeOK
<1>9. ASSUME NEW s \in Session, StartFails(w, s) PROVE TypeOK'
  <2>1. held' \in [Worker -> [Session -> Nat]]
    <3>1. CASE held' = [held EXCEPT ![w][s] = 0]
      BY <3>1 DEF TypeOK
    <3>2. CASE UNCHANGED held
      BY <3>2 DEF TypeOK
    <3> QED
      BY <1>9, <3>1, <3>2 DEF StartFails
  <2> QED
    BY <1>9, <2>1 DEF StartFails, TypeOK, LeaseTypeOK
<1> QED
  BY <1>1, <1>2, <1>3, <1>4, <1>5, <1>6, <1>7, <1>8, <1>9 DEF Supervisor

LEMMA PanelTypes ==
  ASSUME TypeOK, NEW w \in Worker, Panel(w)
  PROVE  TypeOK'
<1>1. ASSUME NEW s \in Session, ConnectByName(w, s) PROVE TypeOK'
  <2>1. LeaseTypeOK' /\ lease'[s].version \in Nat
    BY <1>1, TakeRowType DEF ConnectByName, TypeOK, LeaseTypeOK, Lease
  <2>2. Asked(w, s, lease'[s].version) \in Nat
    BY <2>1, AskedType
  <2>3. held' \in [Worker -> [Session -> Nat]] /\ granted' \in [Worker -> [Session -> Nat]]
    <3>1. CASE UNCHANGED <<held, granted>>
      BY <3>1 DEF TypeOK
    <3>2. CASE /\ held' = [held EXCEPT ![w][s] = 0]
               /\ granted' = [granted EXCEPT ![w][s] = Asked(w, s, lease'[s].version)]
      BY <3>2, <2>2 DEF TypeOK
    <3> QED
      BY <1>1, <3>1, <3>2 DEF ConnectByName
  <2> QED
    BY <1>1, <2>1, <2>3 DEF ConnectByName, TypeOK
<1>2. ASSUME NEW s \in Session, RestartByName(w, s) PROVE TypeOK'
  <2>1. LeaseTypeOK' /\ lease'[s].version \in Nat
    BY <1>2, TakeRowType DEF RestartByName, TypeOK, LeaseTypeOK, Lease
  <2>2. Asked(w, s, lease'[s].version) \in Nat
    BY <2>1, AskedType
  <2> QED
    BY <1>2, <2>1, <2>2 DEF RestartByName, TypeOK
<1>3. ASSUME NEW s \in Session, StopSession(w, s) PROVE TypeOK'
  BY <1>3 DEF StopSession, TypeOK, LeaseTypeOK
<1> QED
  BY <1>1, <1>2, <1>3 DEF Panel

LEMMA StepTypes == ASSUME TypeOK, [Next]_vars PROVE TypeOK'
<1>1. ASSUME NEW w \in Worker, Supervisor(w) PROVE TypeOK'
  BY <1>1, SupervisorTypes
<1>2. ASSUME NEW w \in Worker, Panel(w) PROVE TypeOK'
  BY <1>2, PanelTypes
<1>3. ASSUME NEW w \in Worker, CrashAndRestart(w) PROVE TypeOK'
  BY <1>3, NothingType DEF CrashAndRestart, TypeOK, LeaseTypeOK, SupStep
<1>4. ASSUME NEW s \in Session, PauseSender(s) \/ ResumeSender(s) PROVE TypeOK'
  BY <1>4 DEF PauseSender, ResumeSender, workerVars, TypeOK, LeaseTypeOK
<1>5. ASSUME NEW s \in Session, LeaseLapses(s) PROVE TypeOK'
  BY <1>5 DEF LeaseLapses, workerVars, TypeOK, LeaseTypeOK, Lease
<1>6. CASE UNCHANGED vars
  BY <1>6 DEF vars, TypeOK, LeaseTypeOK
<1> QED
  BY <1>1, <1>2, <1>3, <1>4, <1>5, <1>6 DEF Next

\* Every state the service processes and the lease functions reach is of the
\* declared type.
THEOREM TypeCorrect == Spec => []TypeOK
<1>1. Init => TypeOK
  BY InitTypes
<1>2. TypeOK /\ [Next]_vars => TypeOK'
  BY StepTypes
<1> QED
  BY <1>1, <1>2, PTL DEF Spec

-----------------------------------------------------------------------------
(* Leases only grow.                                                       *)

LEMMA TakenGrows ==
  ASSUME LeaseTypeOK, NEW w \in Worker, NEW s \in Session
  PROVE  /\ Taken(w, s).version >= lease[s].version
         /\ Taken(w, s).version = lease[s].version => lease[s].owner = w
         /\ Taken(w, s).owner = w
  BY DEF LeaseTypeOK, Taken, Lease

LEMMA RenewGrows ==
  ASSUME LeaseTypeOK, NEW w \in Worker, RenewRows(w)
  PROVE  LeaseGrows
  BY DEF LeaseTypeOK, RenewRows, Lease, LeaseGrows

LEMMA TakeGrows ==
  ASSUME LeaseTypeOK, NEW w \in Worker, NEW S \in SUBSET Session, TakeRows(w, S)
  PROVE  LeaseGrows
<1> SUFFICES ASSUME NEW s \in Session
             PROVE  /\ lease'[s].version >= lease[s].version
                    /\ lease'[s].version = lease[s].version => lease'[s].owner = lease[s].owner
  BY DEF LeaseGrows
<1>1. CASE s \in S
  <2>1. lease'[s] = Taken(w, s)
    BY <1>1 DEF TakeRows
  <2> QED
    BY <2>1, TakenGrows
<1>2. CASE s \notin S
  BY <1>2 DEF TakeRows, LeaseTypeOK, Lease
<1> QED
  BY <1>1, <1>2

LEMMA TakeRowGrows ==
  ASSUME LeaseTypeOK, NEW w \in Worker, NEW s \in Session, TakeRow(w, s)
  PROVE  LeaseGrows /\ lease'[s].owner = w
<1>1. lease'[s] = Taken(w, s) /\ \A r \in Session \ {s} : lease'[r] = lease[r]
  BY DEF TakeRow, LeaseTypeOK
<1>2. \A r \in Session : lease[r].version \in Nat
  BY DEF LeaseTypeOK, Lease
<1> QED
  BY <1>1, <1>2, TakenGrows DEF LeaseGrows

LEMMA LeaseStays ==
  ASSUME LeaseTypeOK, UNCHANGED lease
  PROVE  LeaseGrows
  BY DEF LeaseTypeOK, Lease, LeaseGrows

-----------------------------------------------------------------------------
(* Every step grows the leases and lets a worker learn only its own.       *)

\* A step that leaves the memory of the workers alone teaches them nothing.
LEMMA NothingLearnt ==
  ASSUME UNCHANGED <<held, granted, answer>>
  PROVE  LearnsOwn
  BY DEF LearnsOwn, Cached

LEMMA SupervisorLearns ==
  ASSUME TypeOK, NEW w \in Worker, Supervisor(w)
  PROVE  LeaseGrows /\ LearnsOwn
<1> USE DEF TypeOK
<1>1. CASE RenewLeases(w)
  <2>1. LeaseGrows
    BY <1>1, RenewGrows DEF RenewLeases
  <2>2. LearnsOwn
    BY <1>1 DEF RenewLeases, LearnsOwn, Cached
  <2> QED
    BY <2>1, <2>2
<1>2. CASE RenewAnswerLost(w)
  BY <1>2, RenewGrows, NothingLearnt DEF RenewAnswerLost
<1>3. CASE DropNotRenewed(w)
  <2>1. LearnsOwn
    BY <1>3 DEF DropNotRenewed, Kept, Nothing, LearnsOwn, Cached
  <2> QED
    BY <1>3, <2>1, LeaseStays DEF DropNotRenewed
<1>4. CASE AcquireLeases(w)
  <2>1. PICK S \in SUBSET Session, R \in SUBSET Session :
          /\ TakeRows(w, S)
          /\ Returned(w, R)
          /\ answer' = [answer EXCEPT ![w] =
                          [s \in Session |-> IF s \in R THEN lease'[s].version ELSE 0]]
    BY <1>4 DEF AcquireLeases
  <2>2. \A s \in R : lease'[s].owner = w
    BY <2>1 DEF Returned
  <2>3. LearnsOwn
    BY <1>4, <2>1, <2>2 DEF AcquireLeases, LearnsOwn, Cached
  <2> QED
    BY <2>1, <2>3, TakeGrows
<1>5. CASE AcquireAnswerLost(w)
  BY <1>5, TakeGrows, NothingLearnt DEF AcquireAnswerLost
<1>6. CASE ApplyOwnership(w)
  <2>1. LearnsOwn
    BY <1>6 DEF ApplyOwnership, Asked, Kept, Nothing, LearnsOwn, Cached
  <2> QED
    BY <1>6, <2>1, LeaseStays DEF ApplyOwnership
<1>7. CASE EndCycle(w)
  BY <1>7, LeaseStays, NothingLearnt DEF EndCycle
<1>8. ASSUME NEW s \in Session, StartSender(w, s) PROVE LeaseGrows /\ LearnsOwn
  <2>1. LearnsOwn
    BY <1>8 DEF StartSender, LearnsOwn, Cached
  <2> QED
    BY <1>8, <2>1, LeaseStays DEF StartSender
<1>9. ASSUME NEW s \in Session, StartFails(w, s) PROVE LeaseGrows /\ LearnsOwn
  <2>1. LearnsOwn
    <3>1. CASE held' = [held EXCEPT ![w][s] = 0]
      BY <1>9, <3>1 DEF StartFails, LearnsOwn, Cached
    <3>2. CASE UNCHANGED held
      BY <1>9, <3>2 DEF StartFails, LearnsOwn, Cached
    <3> QED
      BY <1>9, <3>1, <3>2 DEF StartFails
  <2> QED
    BY <1>9, <2>1, LeaseStays DEF StartFails
<1> QED
  BY <1>1, <1>2, <1>3, <1>4, <1>5, <1>6, <1>7, <1>8, <1>9 DEF Supervisor

\* A handler that took the row s for w and asks for a new session under the
\* version it wrote.
LEMMA GrantLearns ==
  ASSUME TypeOK, NEW w \in Worker, NEW s \in Session,
         TakeRow(w, s),
         held' = [held EXCEPT ![w][s] = 0],
         granted' = [granted EXCEPT ![w][s] = Asked(w, s, lease'[s].version)],
         UNCHANGED answer
  PROVE  LearnsOwn
<1>1. lease'[s].owner = w
  BY TakeRowGrows DEF TypeOK
<1> QED
  BY <1>1 DEF TypeOK, Asked, LearnsOwn, Cached

LEMMA PanelLearns ==
  ASSUME TypeOK, NEW w \in Worker, Panel(w)
  PROVE  LeaseGrows /\ LearnsOwn
<1>1. ASSUME NEW s \in Session, ConnectByName(w, s) PROVE LeaseGrows /\ LearnsOwn
  <2>1. LeaseGrows
    BY <1>1, TakeRowGrows DEF ConnectByName, TypeOK
  <2>2. CASE UNCHANGED <<held, granted>>
    BY <1>1, <2>1, <2>2, NothingLearnt DEF ConnectByName
  <2>3. CASE /\ held' = [held EXCEPT ![w][s] = 0]
             /\ granted' = [granted EXCEPT ![w][s] = Asked(w, s, lease'[s].version)]
    BY <1>1, <2>1, <2>3, GrantLearns DEF ConnectByName
  <2> QED
    BY <1>1, <2>2, <2>3 DEF ConnectByName
<1>2. ASSUME NEW s \in Session, RestartByName(w, s) PROVE LeaseGrows /\ LearnsOwn
  <2>1. LeaseGrows
    BY <1>2, TakeRowGrows DEF RestartByName, TypeOK
  <2> QED
    BY <1>2, <2>1, GrantLearns DEF RestartByName
<1>3. ASSUME NEW s \in Session, StopSession(w, s) PROVE LeaseGrows /\ LearnsOwn
  <2>1. LearnsOwn
    BY <1>3 DEF StopSession, LearnsOwn, Cached, TypeOK
  <2> QED
    BY <1>3, <2>1, LeaseStays DEF StopSession, TypeOK
<1> QED
  BY <1>1, <1>2, <1>3 DEF Panel

LEMMA StepLearns ==
  ASSUME TypeOK, [Next]_vars
  PROVE  LeaseGrows /\ LearnsOwn
<1> USE DEF TypeOK
<1>1. ASSUME NEW w \in Worker, Supervisor(w) PROVE LeaseGrows /\ LearnsOwn
  BY <1>1, SupervisorLearns
<1>2. ASSUME NEW w \in Worker, Panel(w) PROVE LeaseGrows /\ LearnsOwn
  BY <1>2, PanelLearns
<1>3. ASSUME NEW w \in Worker, CrashAndRestart(w) PROVE LeaseGrows /\ LearnsOwn
  <2>1. LearnsOwn
    BY <1>3 DEF CrashAndRestart, Nothing, LearnsOwn, Cached
  <2> QED
    BY <1>3, <2>1, LeaseStays DEF CrashAndRestart
<1>4. ASSUME NEW s \in Session, PauseSender(s) \/ ResumeSender(s)
      PROVE  LeaseGrows /\ LearnsOwn
  BY <1>4, LeaseStays, NothingLearnt DEF PauseSender, ResumeSender, workerVars
<1>5. ASSUME NEW s \in Session, LeaseLapses(s) PROVE LeaseGrows /\ LearnsOwn
  <2>1. LeaseGrows
    BY <1>5 DEF LeaseLapses, LeaseTypeOK, Lease, LeaseGrows
  <2> QED
    BY <1>5, <2>1, NothingLearnt DEF LeaseLapses, workerVars
<1>6. CASE UNCHANGED vars
  BY <1>6, LeaseStays, NothingLearnt DEF vars
<1> QED
  BY <1>1, <1>2, <1>3, <1>4, <1>5, <1>6 DEF Next

-----------------------------------------------------------------------------
(* Fencing.                                                                *)

LEMMA CachedType ==
  ASSUME TypeOK, NEW w \in Worker, NEW s \in Session
  PROVE  Cached(w, s) \in SUBSET Nat
  BY DEF TypeOK, Cached

FencingInv == TypeOK /\ Fencing /\ TokenUnshared

LEMMA FencingStep ==
  ASSUME FencingInv, [Next]_vars
  PROVE  FencingInv'
<1>1. TypeOK'
  BY StepTypes DEF FencingInv
<1>2. LeaseGrows /\ LearnsOwn
  BY StepLearns DEF FencingInv
<1>3. \A s \in Session : lease[s].version \in Nat /\ lease'[s].version \in Nat
  BY <1>1 DEF FencingInv, TypeOK, LeaseTypeOK, Lease
<1>4. Fencing'
  <2> SUFFICES ASSUME NEW w \in Worker, NEW s \in Session, NEW v \in Cached(w, s)'
               PROVE  /\ v <= lease'[s].version
                      /\ v = lease'[s].version => lease'[s].owner = w
    BY DEF Fencing
  <2>1. CASE v \in Cached(w, s)
    <3>1. v \in Nat
      BY <2>1, CachedType DEF FencingInv
    <3>2. v <= lease[s].version /\ (v = lease[s].version => lease[s].owner = w)
      BY <2>1 DEF FencingInv, Fencing
    <3>3. /\ lease'[s].version >= lease[s].version
          /\ lease'[s].version = lease[s].version => lease'[s].owner = lease[s].owner
      BY <1>2 DEF LeaseGrows
    <3> QED
      BY <1>3, <3>1, <3>2, <3>3
  <2>2. CASE v = lease'[s].version /\ lease'[s].owner = w
    BY <1>3, <2>2
  <2> QED
    BY <1>2, <2>1, <2>2 DEF LearnsOwn
<1>5. TokenUnshared'
  <2> SUFFICES ASSUME NEW w1 \in Worker, NEW w2 \in Worker, NEW s \in Session,
                      NEW v \in Cached(w1, s)', v \in Cached(w2, s)'
               PROVE  w1 = w2
    BY DEF TokenUnshared
  <2>1. CASE v \in Cached(w1, s) /\ v \in Cached(w2, s)
    BY <2>1 DEF FencingInv, TokenUnshared
  <2>2. CASE v = lease'[s].version
    BY <1>4, <2>2 DEF Fencing
  <2> QED
    BY <1>2, <2>1, <2>2 DEF LearnsOwn
<1> QED
  BY <1>1, <1>4, <1>5 DEF FencingInv

LEMMA FencingStart == ASSUME Init PROVE FencingInv
<1>1. TypeOK
  BY InitTypes
<1>2. \A w \in Worker, s \in Session : Cached(w, s) = {}
  BY DEF Init, Nothing, Cached
<1> QED
  BY <1>1, <1>2 DEF FencingInv, Fencing, TokenUnshared

LEMMA FencingAlways == Spec => []FencingInv
<1>1. Init => FencingInv
  BY FencingStart
<1>2. FencingInv /\ [Next]_vars => FencingInv'
  BY FencingStep
<1> QED
  BY <1>1, <1>2, PTL DEF Spec

\* A statement fenced by a remembered version never acts for a worker that has
\* lost the session, for any number of workers, take-overs and lost answers.
THEOREM FencingHolds == Spec => []Fencing
<1>1. FencingInv => Fencing
  BY DEF FencingInv
<1> QED
  BY <1>1, FencingAlways, PTL

\* No two workers ever remember the same version of a session.
THEOREM TokenUnsharedHolds == Spec => []TokenUnshared
<1>1. FencingInv => TokenUnshared
  BY DEF FencingInv
<1> QED
  BY <1>1, FencingAlways, PTL

-----------------------------------------------------------------------------
(* The contract.                                                           *)

\* Every row of a lease table that is again a function moves as allowed.
LEMMA ContractStep ==
  ASSUME LeaseTypeOK', \A s \in Session : SessionStep(s)
  PROVE  LeaseNext
  BY DEF LeaseNext, LeaseTypeOK

LEMMA RenewKeepsContract ==
  ASSUME LeaseTypeOK, NEW w \in Worker, RenewRows(w), NEW s \in Session
  PROVE  SessionStep(s)
<1>1. CASE s \in Renewed(w)
  <2>1. lease[s].owner = w /\ lease'[s] = [lease[s] EXCEPT !.live = TRUE]
    BY <1>1 DEF Renewed, Renewable, RenewRows
  <2> QED
    BY <2>1 DEF SessionStep, ExtendedBy
<1>2. CASE s \notin Renewed(w)
  BY <1>2 DEF RenewRows, SessionStep
<1> QED
  BY <1>1, <1>2

LEMMA TakeKeepsContract ==
  ASSUME NEW w \in Worker, NEW S \in SUBSET Session, Visited(w, S), TakeRows(w, S),
         NEW s \in Session
  PROVE  SessionStep(s)
<1>1. CASE s \in S
  <2>1. CanTake(w, s)
    BY <1>1 DEF Visited, Candidates
  <2>2. lease'[s] = Taken(w, s)
    BY <1>1 DEF TakeRows
  <2> QED
    BY <2>1, <2>2 DEF SessionStep, TakenBy
<1>2. CASE s \notin S
  BY <1>2 DEF TakeRows, SessionStep
<1> QED
  BY <1>1, <1>2

LEMMA TakeRowKeepsContract ==
  ASSUME LeaseTypeOK, NEW w \in Worker, NEW r \in Session, TakeRow(w, r),
         NEW s \in Session
  PROVE  SessionStep(s)
<1>1. CanTake(w, r) /\ lease'[r] = Taken(w, r)
  BY DEF TakeRow, LeaseTypeOK
<1>2. CASE s = r
  BY <1>1, <1>2 DEF SessionStep, TakenBy
<1>3. CASE s # r
  BY <1>3 DEF TakeRow, LeaseTypeOK, SessionStep
<1> QED
  BY <1>2, <1>3

LEMMA LapseKeepsContract ==
  ASSUME LeaseTypeOK, NEW r \in Session, LeaseLapses(r), NEW s \in Session
  PROVE  SessionStep(s)
<1>1. CASE s = r
  BY <1>1 DEF LeaseLapses, LeaseTypeOK, SessionStep, Lapsed
<1>2. CASE s # r
  BY <1>2 DEF LeaseLapses, LeaseTypeOK, SessionStep
<1> QED
  BY <1>1, <1>2

LEMMA StepKeepsContract ==
  ASSUME TypeOK, Next
  PROVE  LeaseNext \/ UNCHANGED lease
<1> USE DEF TypeOK
<1>1. LeaseTypeOK'
  BY StepTypes
<1>2. ASSUME NEW w \in Worker, RenewRows(w) PROVE LeaseNext
  BY <1>1, <1>2, RenewKeepsContract, ContractStep
<1>3. ASSUME NEW w \in Worker, NEW S \in SUBSET Session, Visited(w, S), TakeRows(w, S)
      PROVE  LeaseNext
  BY <1>1, <1>3, TakeKeepsContract, ContractStep
<1>4. ASSUME NEW w \in Worker, NEW s \in Session, TakeRow(w, s) PROVE LeaseNext
  BY <1>1, <1>4, TakeRowKeepsContract, ContractStep
<1>5. ASSUME NEW s \in Session, LeaseLapses(s) PROVE LeaseNext
  BY <1>1, <1>5, LapseKeepsContract, ContractStep
<1>6. ASSUME NEW w \in Worker, Supervisor(w) PROVE LeaseNext \/ UNCHANGED lease
  BY <1>2, <1>3, <1>6
  DEF Supervisor, RenewLeases, RenewAnswerLost, DropNotRenewed, AcquireLeases,
      AcquireAnswerLost, ApplyOwnership, EndCycle, StartSender, StartFails
<1>7. ASSUME NEW w \in Worker, Panel(w) PROVE LeaseNext \/ UNCHANGED lease
  BY <1>4, <1>7 DEF Panel, ConnectByName, RestartByName, StopSession
<1>8. ASSUME NEW w \in Worker, CrashAndRestart(w) PROVE UNCHANGED lease
  BY <1>8 DEF CrashAndRestart
<1>9. ASSUME NEW s \in Session, PauseSender(s) \/ ResumeSender(s) PROVE UNCHANGED lease
  BY <1>9 DEF PauseSender, ResumeSender
<1> QED
  BY <1>5, <1>6, <1>7, <1>8, <1>9 DEF Next

\* The service processes and the lease functions implement the contract the
\* dispatch queue is built on: a live lease has one owner, and every take-over
\* raises the version.
THEOREM ContractHolds == Spec => ImplementsContract
<1>1. Init => LeaseInit
  BY DEF Init
<1>2. TypeOK /\ [Next]_vars => [LeaseNext]_lease
  <2>1. ASSUME TypeOK, Next PROVE LeaseNext \/ UNCHANGED lease
    BY <2>1, StepKeepsContract
  <2>2. ASSUME UNCHANGED vars PROVE UNCHANGED lease
    BY <2>2 DEF vars
  <2> QED
    BY <2>1, <2>2
<1> QED
  BY <1>1, <1>2, TypeCorrect, PTL DEF Spec, ImplementsContract, Contract

=============================================================================
