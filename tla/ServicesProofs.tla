--------------------------- MODULE ServicesProofs ---------------------------
(***************************************************************************)
(* Proofs about the relay, the temporary media, the Mercado Livre tokens,  *)
(* the accounts, the silence detector and the sessions of Services, for    *)
(* any constants that satisfy its assumption.                              *)
(*                                                                         *)
(* Every service has its own inductive invariant (RelayInv, ...) that      *)
(* includes its type, and the lemmas that it holds at the start, that its  *)
(* own steps keep it and that the steps of the other services do.  A       *)
(* service is explored by itself but the invariants are proved of all the  *)
(* services together.                                                      *)
(***************************************************************************)
EXTENDS Services, Integers, Sequences, SequenceTheorems, TLAPS

-----------------------------------------------------------------------------
(* What the writes do to the functions and sequences they change.          *)

\* One value of a function changes.
LEMMA Put == ASSUME NEW D, NEW C, NEW f \in [D -> C], NEW x \in D, NEW y \in C, NEW g,
                    g = [f EXCEPT ![x] = y]
             PROVE  g \in [D -> C] /\ g[x] = y /\ \A z \in D \ {x} : g[z] = f[z]
  OBVIOUS

\* One element of a sequence is taken out.
LEMMA Removed ==
  ASSUME NEW D, NEW q \in Seq(D), NEW i \in 1..Len(q), NEW z,
         z = SubSeq(q, 1, i - 1) \o SubSeq(q, i + 1, Len(q))
  PROVE  /\ z \in Seq(D) /\ Len(z) = Len(q) - 1
         /\ \A j \in 1..Len(z) : z[j] = IF j < i THEN q[j] ELSE q[j + 1]
<1> DEFINE a == SubSeq(q, 1, i - 1)
           b == SubSeq(q, i + 1, Len(q))
<1>1. /\ a \in Seq(D) /\ Len(a) = i - 1
      /\ \A j \in 1..(i - 1) : a[j] = q[j]
  BY SubSeqProperties
<1>2. /\ b \in Seq(D) /\ Len(b) = Len(q) - i
      /\ \A j \in 1..(Len(q) - i) : b[j] = q[i + j]
  BY SubSeqProperties
<1> HIDE DEF a, b
<1>3. /\ a \o b \in Seq(D) /\ Len(a \o b) = Len(a) + Len(b)
      /\ \A j \in 1..(Len(a) + Len(b)) : (a \o b)[j] = IF j <= Len(a) THEN a[j] ELSE b[j - Len(a)]
  BY <1>1, <1>2, ConcatProperties
<1>4. z = a \o b
  BY DEF a, b
<1>5. PICK n \in Nat : n = Len(q)
  BY LenProperties
<1>6. i \in Nat /\ i >= 1 /\ i <= n
  BY <1>5
<1>7. Len(z) = n - 1 /\ z \in Seq(D)
  <2>0. Len(a) = i - 1 /\ Len(b) = n - i
    BY <1>1, <1>2, <1>5, Zenon
  <2>1. Len(a) + Len(b) = n - 1
    BY <1>6, <2>0
  <2> QED BY <1>3, <1>4, <2>1, Zenon
<1>8. ASSUME NEW j \in 1..(n - 1) PROVE z[j] = IF j < i THEN q[j] ELSE q[j + 1]
  <2>1. j \in 1..(Len(a) + Len(b))
    BY <1>1, <1>2, <1>5, <1>6
  <2>2. z[j] = IF j <= i - 1 THEN a[j] ELSE b[j - (i - 1)]
    BY <1>1, <1>3, <1>4, <2>1
  <2>3. CASE j < i
    <3>1. j \in 1..(i - 1) /\ j <= i - 1
      BY <1>6, <2>3
    <3> QED BY <1>1, <2>2, <2>3, <3>1
  <2>4. CASE ~(j < i)
    <3>1. j - (i - 1) \in 1..(n - i) /\ i + (j - (i - 1)) = j + 1 /\ ~(j <= i - 1)
      BY <1>6, <2>4
    <3>2. b[j - (i - 1)] = q[j + 1]
      BY <1>2, <1>5, <3>1
    <3> QED BY <2>2, <2>4, <3>1, <3>2
  <2> QED BY <2>3, <2>4
<1> QED BY <1>5, <1>7, <1>8

-----------------------------------------------------------------------------
(* The relay of events to Meta.                                            *)

\* A job that was never queued has no attempt; one that is being delivered
\* was taken with attempts left.
RelayInv ==
  /\ R!TypeOK /\ R!NoExtraAttempt
  /\ \A e \in Payload : relay[e].status = "none" => relay[e].attempts = 0
  /\ \A u \in Runner : runner[u].at # "idle"
       => runner[u].job \in Payload /\ runner[u].attempts < MaxAttempts

\* A relay without jobs.
LEMMA RelayBegins == Init => RelayInv
<1>0. MaxAttempts \in Nat \ {0} /\ MaxDeaths \in Nat
  BY ServicesAssumption DEF R!RelayAssumption
<1> QED BY <1>0 DEF Init, R!Init, R!Free, RelayInv, R!TypeOK, R!NoExtraAttempt

\* Steps of the other services.
LEMMA RelayStays == ASSUME RelayInv, UNCHANGED rvars PROVE RelayInv'
  BY DEF rvars, RelayInv, R!TypeOK, R!NoExtraAttempt

\* Webhooks, claims, deliveries and deaths of the runner.
LEMMA RelaySteps == ASSUME RelayInv, R!Next PROVE RelayInv'
<1>0. MaxAttempts \in Nat \ {0} /\ MaxDeaths \in Nat
  BY ServicesAssumption DEF R!RelayAssumption
<1>1. ASSUME NEW e \in Payload, R!Enqueue(e) PROVE RelayInv'
  BY <1>0, <1>1 DEF R!Enqueue, RelayInv, R!TypeOK, R!NoExtraAttempt
<1>2. ASSUME NEW e \in Payload, R!PutBack(e) PROVE RelayInv'
  BY <1>0, <1>2 DEF R!PutBack, R!Interrupted, RelayInv, R!TypeOK, R!NoExtraAttempt
<1>3. ASSUME NEW e \in Payload, NEW u \in Runner, R!Claim(u, e) PROVE RelayInv'
  BY <1>0, <1>3 DEF R!Claim, R!Free, RelayInv, R!TypeOK, R!NoExtraAttempt
<1>4. ASSUME NEW u \in Runner, R!Post(u) PROVE RelayInv'
  <2>1. PICK a \in {"ok", "retry", "reject"} :
          runner' = [runner EXCEPT ![u].at = "answered", ![u].answer = a]
    BY <1>4 DEF R!Post
  <2> DEFINE x == [runner[u] EXCEPT !.at = "answered", !.answer = a]
  <2>2. runner' = [runner EXCEPT ![u] = x]
    BY <2>1, Zenon
  <2>3. runner[u] \in [at : {"idle", "posting", "answered"}, job : Payload \cup {NoPayload},
                       attempts : 0..MaxAttempts, answer : {"ok", "retry", "reject"}]
    BY DEF RelayInv, R!TypeOK
  <2>4. /\ x \in [at : {"idle", "posting", "answered"}, job : Payload \cup {NoPayload},
                  attempts : 0..MaxAttempts, answer : {"ok", "retry", "reject"}]
        /\ x.job = runner[u].job /\ x.attempts = runner[u].attempts
    BY <2>3
  <2> HIDE DEF x
  <2>5. UNCHANGED <<relay, deaths>> /\ runner[u].at = "posting"
    BY <1>4 DEF R!Post
  <2> QED BY <1>0, <2>2, <2>4, <2>5 DEF RelayInv, R!TypeOK, R!NoExtraAttempt
<1>5. ASSUME NEW u \in Runner, R!FinishJob(u) PROVE RelayInv'
  BY <1>0, <1>5
     DEF R!FinishJob, R!Retried, R!Attempt, R!Free, RelayInv, R!TypeOK, R!NoExtraAttempt
<1>6. ASSUME NEW u \in Runner, R!Die(u) PROVE RelayInv'
  BY <1>0, <1>6 DEF R!Die, R!Free, RelayInv, R!TypeOK, R!NoExtraAttempt
<1>7. ASSUME NEW u \in Runner, R!DeliveredThrows(u) PROVE RelayInv'
  <2> DEFINE x == [runner[u] EXCEPT !.answer = "reject"]
             y == [status |-> "delivered", attempts |-> runner[u].attempts + 1]
  <2>1. /\ runner' = [runner EXCEPT ![u] = x] /\ runner[u].at = "answered"
        /\ deaths' \in 0..MaxDeaths
        /\ relay' = relay \/ relay' = [relay EXCEPT ![runner[u].job] = y]
    BY <1>0, <1>7 DEF R!DeliveredThrows, R!Attempt, RelayInv, R!TypeOK
  <2>2. /\ runner[u] \in [at : {"idle", "posting", "answered"}, job : Payload \cup {NoPayload},
                          attempts : 0..MaxAttempts, answer : {"ok", "retry", "reject"}]
        /\ runner[u].job \in Payload /\ runner[u].attempts < MaxAttempts
    BY <2>1 DEF RelayInv, R!TypeOK
  <2>3. /\ x \in [at : {"idle", "posting", "answered"}, job : Payload \cup {NoPayload},
                  attempts : 0..MaxAttempts, answer : {"ok", "retry", "reject"}]
        /\ x.job = runner[u].job /\ x.attempts = runner[u].attempts
    BY <2>2
  <2>4. /\ y \in [status : {"none", "queued", "processing", "retry_scheduled", "delivered", "failed"},
                  attempts : 0..MaxAttempts]
        /\ y.status = "delivered"
    BY <1>0, <2>2
  <2> HIDE DEF x, y
  <2>5. /\ relay' \in [Payload -> [status : {"none", "queued", "processing", "retry_scheduled",
                                             "delivered", "failed"}, attempts : 0..MaxAttempts]]
        /\ \A e \in Payload : relay'[e] = relay[e] \/ relay'[e].status = "delivered"
    BY <2>1, <2>2, <2>4 DEF RelayInv, R!TypeOK
  <2>6. /\ runner' \in [Runner -> [at : {"idle", "posting", "answered"}, job : Payload \cup {NoPayload},
                                   attempts : 0..MaxAttempts, answer : {"ok", "retry", "reject"}]]
        /\ \A v \in Runner : runner'[v] = runner[v] \/
             (runner'[v].job \in Payload /\ runner'[v].attempts < MaxAttempts)
    BY <2>1, <2>2, <2>3 DEF RelayInv, R!TypeOK
  <2> QED BY <2>1, <2>5, <2>6 DEF RelayInv, R!TypeOK, R!NoExtraAttempt
<1> QED BY <1>1, <1>2, <1>3, <1>4, <1>5, <1>6, <1>7 DEF R!Next

-----------------------------------------------------------------------------
(* The collection of temporary media.                                      *)

\* A dispatch that may still be sent, and refers to the file.
Queued == \E j \in Job : jobs[j].status \in {"queued", "incerto"} /\ jobs[j].refers
\* What may still be sent: a dispatch, an offer, a template, or a draft on its way.
Needed == template \/ draft # "none" \/ captured = "active" \/ Queued
\* What a collector that looks for an old file has still to read, if it is needed.
ReadInv(c) ==
  /\ template => "templates" \in gc[c].unread
  /\ captured = "active" => "offers" \in gc[c].unread
  /\ Queued => template \/ gc[c].unread \cap {"jobs", "lots"} # {}
\* A collector removes only a file that was old and that nothing needed since it
\* began to read, unless `orphaned` records that a template was deleted meanwhile.
MediaInv ==
  /\ M!TypeOK
  /\ draft = "upload" => file = "fresh"
  /\ (template \/ draft # "none" \/ captured = "active" \/ \E j \in Job : jobs[j].refers) => file # "none"
  /\ draft = "copy" /\ ~orphaned => template
  /\ \A c \in Collector : gc[c].at = "remove" => file \in {"old", "gone"}
  /\ (file = "gone" \/ \E c \in Collector : gc[c].at = "remove") /\ ~orphaned => ~Needed
  /\ file = "old" /\ ~orphaned => \A c \in Collector : M!Reading(c) => ReadInv(c)

\* What the type invariant says, in the terms of this module.
CollectorState == [at : {"idle", "read", "remove", "clear"}, unread : SUBSET M!Table]
MediaJob == [status : {"none", "queued", "incerto", "over"}, refers : BOOLEAN]

\* A file that nothing refers to.
LEMMA MediaBegins == ASSUME M!Init PROVE MediaInv
<1>1. M!Idle \in CollectorState
  BY DEF M!Idle, CollectorState
<1>2. [status |-> "none", refers |-> FALSE] \in MediaJob
  BY DEF MediaJob
<1>3. gc \in [Collector -> CollectorState] /\ jobs \in [Job -> MediaJob]
  BY <1>1, <1>2 DEF M!Init
<1>4. (\A c \in Collector : gc[c].at = "idle") /\ \A j \in Job : ~jobs[j].refers
  BY DEF M!Init, M!Idle
<1>5. M!TypeOK
  BY <1>3 DEF M!Init, M!TypeOK, CollectorState, MediaJob
<1> QED BY <1>4, <1>5 DEF M!Init, MediaInv, Needed, Queued

\* Steps of the other services.
LEMMA MediaStays == ASSUME MediaInv, UNCHANGED mvars PROVE MediaInv'
  BY DEF mvars, MediaInv, M!TypeOK, M!Reading, ReadInv, Needed, Queued

\* Only collector c changes, to a with the tables in U to read.
Collects(c, a, U) ==
  /\ gc' \in [Collector -> CollectorState] /\ gc'[c].at = a /\ gc'[c].unread = U
  /\ \A d \in Collector \ {c} : gc'[d] = gc[d]

\* How a collector goes on.
LEMMA CollectorMoves ==
  ASSUME M!TypeOK, NEW c \in Collector, NEW a \in {"read", "remove", "clear"}, NEW U \in SUBSET M!Table
  PROVE  /\ gc' = [gc EXCEPT ![c] = [at |-> a, unread |-> U]] => Collects(c, a, U)
         /\ gc' = [gc EXCEPT ![c] = M!Idle] => Collects(c, "idle", {})
<1>1. gc \in [Collector -> CollectorState]
  BY DEF M!TypeOK, CollectorState
<1> DEFINE y == [at |-> a, unread |-> U]
<1>2. y \in CollectorState /\ y.at = a /\ y.unread = U
  BY DEF CollectorState
<1>3. M!Idle \in CollectorState /\ M!Idle.at = "idle" /\ M!Idle.unread = {}
  BY DEF M!Idle, CollectorState
<1> HIDE DEF y
<1>4. ASSUME gc' = [gc EXCEPT ![c] = y] PROVE Collects(c, a, U)
  BY <1>1, <1>2, <1>4, Put DEF Collects
<1>5. ASSUME gc' = [gc EXCEPT ![c] = M!Idle] PROVE Collects(c, "idle", {})
  BY <1>1, <1>3, <1>5, Put DEF Collects
<1> QED BY <1>4, <1>5 DEF y

\* A collector that stops, removes or clears.
LEMMA CollectorRests ==
  ASSUME MediaInv, NEW c \in Collector, NEW a \in {"idle", "clear"}, Collects(c, a, {}),
         file' \in {file, "gone"}, file' = "gone" => file = "gone" \/ gc[c].at = "remove",
         draft' = draft, template' = template, captured' = captured, orphaned' = orphaned,
         jobs' \in [Job -> MediaJob],
         \A j \in Job : (jobs'[j].refers => jobs[j].refers) /\ (jobs'[j].status = jobs[j].status)
  PROVE  MediaInv'
<1>0. \A d \in Collector : (gc'[d].at \in {"read", "remove"} => d # c /\ gc'[d] = gc[d])
  BY DEF Collects
<1>1. M!TypeOK'
  BY DEF MediaInv, M!TypeOK, Collects, CollectorState, MediaJob
<1>2. Queued' => Queued
  BY DEF Queued
<1>3. draft = "upload" => file' = "fresh"
  BY DEF MediaInv
<1>4. (file' = "gone" \/ \E d \in Collector : gc'[d].at = "remove") /\ ~orphaned => ~Needed
  BY <1>0 DEF MediaInv
<1>5. file' = "old" => file = "old"
  OBVIOUS
<1>6. file' = "old" /\ ~orphaned => \A d \in Collector : M!Reading(d)' => ReadInv(d)'
  BY <1>0, <1>2, <1>5 DEF MediaInv, M!Reading, ReadInv
<1>7. \A d \in Collector : gc'[d].at = "remove" => file' \in {"old", "gone"}
  BY <1>0 DEF MediaInv
<1>8. (template \/ draft # "none" \/ captured = "active" \/ \E j \in Job : jobs'[j].refers) => file' # "none"
  BY DEF MediaInv
<1> QED BY <1>1, <1>2, <1>3, <1>4, <1>6, <1>7, <1>8 DEF MediaInv, Needed

\* Uploads, drafts, templates, offers and dispatches.
LEMMA ReferencesChange ==
  ASSUME MediaInv,
         \/ M!Upload \/ M!CaptureMedia \/ M!Age \/ M!SaveTemplate \/ M!DeleteTemplate
         \/ M!CopyTemplate \/ M!GiveUp \/ M!EndOffer
  PROVE  MediaInv'
<1> USE DEF MediaInv, M!TypeOK, M!Reading, ReadInv, Needed, Queued
<1>1. ASSUME M!Upload PROVE MediaInv'
  BY <1>1 DEF M!Upload
<1>2. ASSUME M!CaptureMedia PROVE MediaInv'
  BY <1>2 DEF M!CaptureMedia
<1>3. ASSUME M!Age PROVE MediaInv'
  <2>1. /\ file = "fresh" /\ file' = "old" /\ \A c \in Collector : gc[c].at \notin {"read", "remove"}
        /\ UNCHANGED <<draft, template, captured, jobs, gc, orphaned>> /\ draft = "none"
    BY <1>3 DEF M!Age, M!References
  <2> QED BY <2>1
<1>4. ASSUME M!SaveTemplate PROVE MediaInv'
  BY <1>4 DEF M!SaveTemplate
<1>5. ASSUME M!DeleteTemplate PROVE MediaInv'
  <2>1. /\ template /\ ~template' /\ orphaned' \in BOOLEAN
        /\ UNCHANGED <<file, draft, captured, jobs, gc>>
    <3>1. orphaned' \in BOOLEAN
      <4>1. orphaned' = (orphaned \/ draft = "copy" \/ \E c \in Collector : M!CountsOnTemplate(c))
        BY <1>5 DEF M!DeleteTemplate
      <4>2. (orphaned \/ draft = "copy" \/ \E c \in Collector : M!CountsOnTemplate(c)) \in BOOLEAN
        BY Zenon
      <4> QED BY <4>1, <4>2, Zenon
    <3> QED BY <1>5, <3>1 DEF M!DeleteTemplate
  <2>2. ~orphaned' => ~orphaned /\ draft # "copy"
    BY <1>5 DEF M!DeleteTemplate
  <2>3. ASSUME ~orphaned', NEW c \in Collector, M!Reading(c), "templates" \in gc[c].unread
        PROVE  gc[c].unread \cap {"jobs", "lots"} # {}
    <3>1. ~M!CountsOnTemplate(c)
      BY <1>5, <2>3 DEF M!DeleteTemplate
    <3>2. gc[c].unread \cap {"jobs", "lots", "templates"} # {"templates"}
      BY <2>3, <3>1 DEF M!CountsOnTemplate
    <3>3. "templates" \in gc[c].unread \cap {"jobs", "lots", "templates"}
      BY <2>3
    <3>4. PICK t \in gc[c].unread \cap {"jobs", "lots", "templates"} : t # "templates"
      BY <3>2, <3>3
    <3> QED BY <3>4
  <2>4. file = "old" /\ ~orphaned' => \A c \in Collector : M!Reading(c) => ReadInv(c)'
    <3> SUFFICES ASSUME file = "old", ~orphaned', NEW c \in Collector, M!Reading(c)
                 PROVE  ReadInv(c)'
      OBVIOUS
    <3>1. "templates" \in gc[c].unread /\ (captured = "active" => "offers" \in gc[c].unread)
      BY <2>1, <2>2
    <3>2. gc[c].unread \cap {"jobs", "lots"} # {}
      BY <2>3, <3>1
    <3> QED BY <2>1, <3>1, <3>2
  <2>5. M!TypeOK'
    <3>1. template' \in BOOLEAN
      BY <1>5, Zenon DEF M!DeleteTemplate
    <3> QED BY <2>1, <3>1
  <2>6. Needed' => Needed
    BY <2>1
  <2>7. (file' = "gone" \/ \E c \in Collector : gc'[c].at = "remove") /\ ~orphaned' => ~Needed'
    <3> HIDE DEF Needed
    <3> QED BY <2>1, <2>2, <2>6
  <2>8. /\ draft' = "copy" /\ ~orphaned' => template'
        /\ draft' = "upload" => file' = "fresh"
        /\ \A c \in Collector : gc'[c].at = "remove" => file' \in {"old", "gone"}
        /\ (template' \/ draft' # "none" \/ captured' = "active" \/ \E j \in Job : jobs'[j].refers)
             => file' # "none"
    BY <2>1, <2>2
  <2>9. file' = "old" /\ ~orphaned' => \A c \in Collector : M!Reading(c)' => ReadInv(c)'
    BY <2>1, <2>4
  <2> HIDE DEF Needed, ReadInv, M!Reading, M!TypeOK
  <2> QED BY <2>5, <2>7, <2>8, <2>9
<1>6. ASSUME M!CopyTemplate PROVE MediaInv'
  BY <1>6 DEF M!CopyTemplate
<1>7. ASSUME M!GiveUp PROVE MediaInv'
  BY <1>7 DEF M!GiveUp
<1>8. ASSUME M!EndOffer PROVE MediaInv'
  BY <1>8 DEF M!EndOffer
<1> QED BY <1>1, <1>2, <1>3, <1>4, <1>5, <1>6, <1>7, <1>8

\* A dispatch that is queued or settled.
LEMMA DispatchChanges ==
  ASSUME MediaInv, NEW j \in Job, M!Enqueue(j) \/ M!Promote(j) \/ M!Settle(j)
  PROVE  MediaInv'
<1>0. jobs \in [Job -> MediaJob]
  BY DEF MediaInv, M!TypeOK, MediaJob
<1>1. /\ jobs' \in [Job -> MediaJob] /\ gc' = gc /\ file' = file /\ template' = template
      /\ captured' = captured /\ orphaned' = orphaned /\ draft' \in {draft, "none"}
      /\ \A i \in Job \ {j} : jobs'[i] = jobs[i]
  <2> DEFINE y == [status |-> "queued", refers |-> TRUE]
  <2>1. y \in MediaJob
    BY DEF MediaJob
  <2> HIDE DEF y
  <2>2. ASSUME jobs' = [jobs EXCEPT ![j] = y]
        PROVE  jobs' \in [Job -> MediaJob] /\ \A i \in Job \ {j} : jobs'[i] = jobs[i]
    BY <1>0, <2>1, <2>2, Put
  <2>3. ASSUME NEW s \in {"queued", "incerto", "over"}, jobs' = [jobs EXCEPT ![j].status = s]
        PROVE  jobs' \in [Job -> MediaJob] /\ \A i \in Job \ {j} : jobs'[i] = jobs[i]
    BY <1>0, <2>3 DEF MediaJob
  <2> QED BY <2>2, <2>3 DEF y, M!Enqueue, M!Promote, M!Settle, M!References
<1>2. \/ Queued' => Queued
      \/ draft # "none"
      \/ captured = "active" /\ file = "fresh"
  <2>1. CASE M!Settle(j)
    <3>1. jobs[j].status \in {"queued", "incerto"} /\ jobs'[j].refers = jobs[j].refers
      BY <1>0, <2>1 DEF M!Settle, MediaJob
    <3> QED BY <1>1, <3>1 DEF Queued
  <2> QED BY <2>1 DEF M!Enqueue, M!Promote
<1>3. (\E i \in Job : jobs'[i].refers) => file # "none"
  <2>1. CASE M!Settle(j)
    <3>1. jobs'[j].refers = jobs[j].refers
      BY <1>0, <2>1 DEF M!Settle, MediaJob
    <3> QED BY <1>1, <3>1 DEF MediaInv
  <2>2. CASE ~M!Settle(j)
    BY <2>2 DEF MediaInv, M!Enqueue, M!Promote
  <2> QED BY <2>1, <2>2
<1>4. Needed' => Needed
  BY <1>1, <1>2 DEF Needed
<1>5. file = "old" /\ ~orphaned => \A c \in Collector : M!Reading(c) => ReadInv(c)'
  <2>1. file = "old" /\ ~orphaned /\ ~(Queued' => Queued) => template
    BY <1>2 DEF MediaInv, M!TypeOK
  <2> QED BY <1>1, <2>1 DEF MediaInv, ReadInv
<1>6. M!TypeOK'
  BY <1>1 DEF MediaInv, M!TypeOK, MediaJob
<1>7. /\ draft' = "upload" => file = "fresh"
      /\ draft' = "copy" /\ ~orphaned => template
      /\ (template \/ draft' # "none" \/ captured = "active") => file # "none"
  BY <1>1 DEF MediaInv
<1> QED BY <1>1, <1>3, <1>4, <1>5, <1>6, <1>7 DEF MediaInv, M!Reading

\* Reads, listings and removals of the collectors.
LEMMA CollectorSteps ==
  ASSUME MediaInv, NEW c \in Collector,
         \/ M!Begin(c) \/ M!List(c) \/ M!Remove(c) \/ M!ClearReferences(c) \/ M!Throw(c)
         \/ \E t \in M!Table : M!Read(c, t)
  PROVE  MediaInv'
<1>0. /\ M!TypeOK /\ gc \in [Collector -> CollectorState] /\ gc[c].unread \in SUBSET M!Table
      /\ jobs \in [Job -> MediaJob]
  BY DEF MediaInv, M!TypeOK, CollectorState, MediaJob
<1>1. CASE gc' = [gc EXCEPT ![c] = M!Idle] /\ UNCHANGED <<file, M!References, jobs, orphaned>>
  <2>1. Collects(c, "idle", {})
    BY <1>0, <1>1, CollectorMoves
  <2> QED BY <1>0, <1>1, <2>1, CollectorRests DEF M!References
<1>2. CASE M!Begin(c)
  <2>1. Collects(c, "read", M!Table) /\ UNCHANGED <<file, draft, template, captured, jobs, orphaned>>
    BY <1>0, <1>2, CollectorMoves DEF M!Begin, M!References
  <2>2. \A d \in Collector : d = c \/ gc'[d] = gc[d]
    BY <2>1 DEF Collects
  <2>3. gc'[c].at = "read" /\ gc'[c].unread = M!Table
    BY <2>1 DEF Collects
  <2>4. M!TypeOK'
    BY <1>0, <2>1 DEF M!TypeOK, Collects, CollectorState
  <2>5. ReadInv(c)'
    BY <2>3 DEF ReadInv, M!Table
  <2> QED BY <2>1, <2>2, <2>3, <2>4, <2>5 DEF MediaInv, M!Reading, ReadInv, Needed, Queued
<1>3. ASSUME NEW t \in M!Table, M!Read(c, t) PROVE MediaInv'
  <2>0. M!Reading(c) /\ UNCHANGED <<file, draft, template, captured, jobs, orphaned>>
    BY <1>3 DEF M!Read, M!References
  <2>1. CASE M!Refers(t)
    BY <1>1, <1>3, <2>1 DEF M!Read
  <2>2. CASE ~M!Refers(t)
    <3>1. gc[c].unread \ {t} \in SUBSET M!Table
      BY <1>0
    <3>2. gc' = [gc EXCEPT ![c] = [at |-> "read", unread |-> gc[c].unread \ {t}]]
      BY <1>3, <2>2 DEF M!Read
    <3>3. Collects(c, "read", gc[c].unread \ {t})
      BY <1>0, <3>1, <3>2, CollectorMoves
    <3>4. \A d \in Collector : d = c \/ gc'[d] = gc[d]
      BY <3>3 DEF Collects
    <3>5. gc'[c].at = "read" /\ gc'[c].unread = gc[c].unread \ {t}
      BY <3>3 DEF Collects
    <3>6. M!TypeOK'
      BY <1>0, <2>0, <3>3 DEF M!TypeOK, Collects, CollectorState
    <3>7. /\ t \in {"jobs", "lots"} => ~Queued
          /\ t = "offers" => captured # "active"
          /\ t = "templates" => ~template
      BY <2>2 DEF M!Refers, M!Active, Queued
    <3>8. t \in {"jobs", "lots", "offers", "templates"}
      BY DEF M!Table
    <3>9. ReadInv(c) => ReadInv(c)'
      BY <2>0, <3>5, <3>7, <3>8 DEF ReadInv, Queued
    <3> QED BY <2>0, <3>4, <3>5, <3>6, <3>9 DEF MediaInv, M!Reading, ReadInv, Needed, Queued
  <2> QED BY <2>1, <2>2
<1>4. CASE M!List(c) /\ M!OldEnough
  <2>0. /\ M!Reading(c) /\ gc[c].unread = {} /\ file = "old"
        /\ UNCHANGED <<file, draft, template, captured, jobs, orphaned>>
    BY <1>4 DEF M!List, M!References, M!OldEnough
  <2>1. gc' = [gc EXCEPT ![c] = [at |-> "remove", unread |-> {}]]
    BY <1>4 DEF M!List
  <2>2. Collects(c, "remove", {})
    BY <1>0, <2>1, CollectorMoves
  <2>3. \A d \in Collector : d = c \/ gc'[d] = gc[d]
    BY <2>2 DEF Collects
  <2>4. gc'[c].at = "remove"
    BY <2>2 DEF Collects
  <2>5. M!TypeOK'
    BY <1>0, <2>0, <2>2 DEF M!TypeOK, Collects, CollectorState
  <2>6. ~orphaned => ~Needed
    BY <1>0, <2>0 DEF MediaInv, ReadInv, Needed, M!TypeOK
  <2> QED BY <2>0, <2>3, <2>4, <2>5, <2>6 DEF MediaInv, M!Reading, ReadInv, Needed, Queued
<1>5. CASE M!List(c) /\ ~M!OldEnough
  BY <1>1, <1>5 DEF M!List
<1>6. CASE M!Remove(c)
  <2>1. gc[c].at = "remove" /\ file' = "gone" /\ UNCHANGED <<draft, template, captured, jobs, orphaned>>
    BY <1>6 DEF M!Remove, M!References
  <2>2. Collects(c, "clear", {})
    BY <1>0, <1>6, CollectorMoves DEF M!Remove
  <2> QED BY <1>0, <2>1, <2>2, CollectorRests
<1>7. CASE M!ClearReferences(c)
  <2>1. UNCHANGED <<file, draft, template, captured, orphaned>>
    BY <1>7 DEF M!ClearReferences, M!References
  <2>2. Collects(c, "idle", {})
    BY <1>0, <1>7, CollectorMoves DEF M!ClearReferences
  <2>3. /\ jobs' \in [Job -> MediaJob]
        /\ \A j \in Job : (jobs'[j].refers => jobs[j].refers) /\ (jobs'[j].status = jobs[j].status)
    <3>1. jobs' = [j \in Job |-> IF jobs[j].status = "over" THEN [jobs[j] EXCEPT !.refers = FALSE]
                                 ELSE jobs[j]]
      BY <1>7 DEF M!ClearReferences
    <3>2. ASSUME NEW j \in Job
          PROVE  /\ jobs'[j] \in MediaJob /\ (jobs'[j].refers => jobs[j].refers)
                 /\ jobs'[j].status = jobs[j].status
      <4> DEFINE y == [jobs[j] EXCEPT !.refers = FALSE]
      <4>1. jobs[j] \in MediaJob
        BY <1>0
      <4>2. y \in MediaJob /\ ~y.refers /\ y.status = jobs[j].status
        BY <4>1 DEF MediaJob
      <4>3. jobs'[j] = jobs[j] \/ jobs'[j] = y
        BY <3>1
      <4> HIDE DEF y
      <4> QED BY <4>1, <4>2, <4>3
    <3> QED BY <3>1, <3>2
  <2> QED BY <2>1, <2>2, <2>3, CollectorRests
<1>8. CASE M!Throw(c)
  BY <1>1, <1>8 DEF M!Throw
<1> QED BY <1>2, <1>3, <1>4, <1>5, <1>6, <1>7, <1>8

\* Every step of the media keeps their invariant.
LEMMA MediaSteps == ASSUME MediaInv, M!Next PROVE MediaInv'
  BY ReferencesChange, DispatchChanges, CollectorSteps DEF M!Next

\* What the collection promises follows.
LEMMA MediaSafe == MediaInv => M!MediaKept
<1>1. ASSUME MediaInv, ~orphaned, NEW j \in Job, jobs[j].status \in {"queued", "incerto"}, jobs[j].refers
      PROVE  file \in {"fresh", "old"}
  BY <1>1 DEF MediaInv, M!TypeOK, Needed, Queued
<1>2. ASSUME MediaInv, ~orphaned, captured = "active" PROVE file \in {"fresh", "old"}
  BY <1>2 DEF MediaInv, M!TypeOK, Needed
<1> QED BY <1>1, <1>2 DEF M!MediaKept

-----------------------------------------------------------------------------
(* The tokens of the Mercado Livre integration.                            *)

\* Unless a lease expired under its holder (`crossed`), who is between lock and
\* save holds the lock, and the pair it read is the newest and unspent.
TokensInv ==
  /\ T!TypeOK
  /\ lock.live => lock.holder \in Caller
  /\ ~crossed =>
       /\ \A c \in Caller :
            /\ caller[c].at \in {"read", "exchange", "save"} => lock.live /\ lock.holder = c
            /\ caller[c].at \in {"exchange", "save"} => caller[c].pair = issued
       /\ (\A c \in Caller : caller[c].at # "save") /\ tokens.pair # 0 => tokens.pair = issued

\* The steps of a caller of the token manager.
CallerStep == {"idle", "lock", "read", "exchange", "save", "mark", "poll", "call", "again"}
CallerState == [at : CallerStep, pair : 0..MaxTokens, forced : BOOLEAN]

\* Callers at rest.
LEMMA TokensBegin == ASSUME T!Init PROVE TokensInv
<1>0. MaxTokens \in Nat \ {0} /\ NoCaller \notin Caller
  BY ServicesAssumption DEF T!TokensAssumption
<1>1. tokens \in [pair : 0..MaxTokens, fresh : BOOLEAN,
                  status : {"connected", "disconnected", "error", "reauthorization_required"}]
  BY <1>0 DEF T!Init
<1>2. lock \in [holder : Caller \cup {NoCaller}, live : BOOLEAN] /\ ~lock.live
  BY DEF T!Init
<1>3. caller \in [Caller -> CallerState] /\ \A c \in Caller : caller[c].at = "idle"
  BY <1>0 DEF T!Init, T!Idle, CallerState, CallerStep
<1> QED BY <1>0, <1>1, <1>2, <1>3 DEF T!Init, TokensInv, T!TypeOK, CallerState, CallerStep

\* Steps of the other services.
LEMMA TokensStay == ASSUME TokensInv, UNCHANGED tvars PROVE TokensInv'
  BY DEF tvars, TokensInv, T!TypeOK

\* Only caller c changes, and is then at s with the pair n.
Moved(c, s, n, b) ==
  /\ caller' \in [Caller -> CallerState]
  /\ caller'[c].at = s /\ caller'[c].pair = n /\ caller'[c].forced = b
  /\ \A d \in Caller \ {c} : caller'[d] = caller[d]

\* What the two ways to go on do.
LEMMA Moves ==
  ASSUME T!TypeOK, NEW c \in Caller, NEW s \in CallerStep, NEW n \in 0..MaxTokens, NEW b \in BOOLEAN
  PROVE  /\ T!Goto(c, s) => Moved(c, s, caller[c].pair, caller[c].forced)
         /\ caller' = [caller EXCEPT ![c].at = s, ![c].pair = n] => Moved(c, s, n, caller[c].forced)
         /\ caller' = [caller EXCEPT ![c].at = s, ![c].forced = b] => Moved(c, s, caller[c].pair, b)
         /\ caller' = [caller EXCEPT ![c] = [at |-> s, pair |-> n, forced |-> b]] => Moved(c, s, n, b)
<1>0. caller \in [Caller -> CallerState] /\ caller[c] \in CallerState
  BY DEF T!TypeOK, CallerState, CallerStep
<1>1. ASSUME T!Goto(c, s) PROVE Moved(c, s, caller[c].pair, caller[c].forced)
  <2> DEFINE x == [caller[c] EXCEPT !.at = s]
  <2>1. x \in CallerState /\ x.at = s /\ x.pair = caller[c].pair /\ x.forced = caller[c].forced
    BY <1>0 DEF CallerState
  <2>2. caller' = [caller EXCEPT ![c] = x]
    BY <1>1, Zenon DEF T!Goto
  <2> HIDE DEF x
  <2> QED BY <1>0, <2>1, <2>2, Put DEF Moved
<1>2. ASSUME caller' = [caller EXCEPT ![c].at = s, ![c].pair = n]
      PROVE  Moved(c, s, n, caller[c].forced)
  <2> DEFINE x == [caller[c] EXCEPT !.at = s, !.pair = n]
  <2>1. x \in CallerState /\ x.at = s /\ x.pair = n /\ x.forced = caller[c].forced
    BY <1>0 DEF CallerState
  <2>2. caller' = [caller EXCEPT ![c] = x]
    BY <1>2, Zenon
  <2> HIDE DEF x
  <2> QED BY <1>0, <2>1, <2>2, Put DEF Moved
<1>3. ASSUME caller' = [caller EXCEPT ![c].at = s, ![c].forced = b]
      PROVE  Moved(c, s, caller[c].pair, b)
  <2> DEFINE x == [caller[c] EXCEPT !.at = s, !.forced = b]
  <2>1. x \in CallerState /\ x.at = s /\ x.pair = caller[c].pair /\ x.forced = b
    BY <1>0 DEF CallerState
  <2>2. caller' = [caller EXCEPT ![c] = x]
    BY <1>3, Zenon
  <2> HIDE DEF x
  <2> QED BY <1>0, <2>1, <2>2, Put DEF Moved
<1>4. ASSUME caller' = [caller EXCEPT ![c] = [at |-> s, pair |-> n, forced |-> b]]
      PROVE  Moved(c, s, n, b)
  BY <1>0, <1>4 DEF Moved, CallerState
<1> QED BY <1>1, <1>2, <1>3, <1>4

\* A caller that goes on outside the lock, or as its holder.
LEMMA TokensKept ==
  ASSUME TokensInv, NEW c \in Caller, NEW s \in CallerStep, NEW n \in 0..MaxTokens, NEW b \in BOOLEAN,
         Moved(c, s, n, b), tokens' = tokens, issued' = issued, lock' = lock, crossed' = crossed,
         s \in {"read", "exchange", "save"} => caller[c].at = "read",
         s \in {"exchange", "save"} => tokens.pair # 0 /\ n = tokens.pair /\ s = "exchange",
         caller[c].at # "save"
  PROVE  TokensInv'
BY DEF TokensInv, T!TypeOK, Moved, CallerState, CallerStep

\* The types of what a caller keeps.
LEMMA TokensTyped ==
  ASSUME TokensInv, NEW c \in Caller
  PROVE  /\ T!TypeOK /\ caller[c].pair \in 0..MaxTokens /\ caller[c].forced \in BOOLEAN
         /\ caller[c].at \in CallerStep
         /\ tokens.pair \in 0..MaxTokens /\ issued \in 0..MaxTokens
  BY DEF TokensInv, T!TypeOK, CallerStep

\* Every step of a caller, and the end of a lease.
LEMMA TokensSteps == ASSUME TokensInv, T!Next PROVE TokensInv'
<1>0. MaxTokens \in Nat \ {0} /\ NoCaller \notin Caller
  BY ServicesAssumption DEF T!TokensAssumption
<1>a. 0 \in 0..MaxTokens /\ "idle" \in CallerStep /\ FALSE \in BOOLEAN /\ TRUE \in BOOLEAN
  BY <1>0 DEF CallerStep
<1>b. ASSUME NEW c \in Caller, caller' = [caller EXCEPT ![c] = T!Idle]
      PROVE  Moved(c, "idle", 0, FALSE)
  <2>1. caller' = [caller EXCEPT ![c] = [at |-> "idle", pair |-> 0, forced |-> FALSE]]
    BY <1>b DEF T!Idle
  <2> QED BY <1>a, <2>1, TokensTyped, Moves
<1>c. ASSUME NEW c \in Caller, Moved(c, "idle", 0, FALSE), caller[c].at # "save",
             UNCHANGED <<tokens, issued, lock, crossed>>
      PROVE  TokensInv'
  <2>1. /\ tokens' = tokens /\ issued' = issued /\ lock' = lock /\ crossed' = crossed
        /\ "idle" \notin {"read", "exchange", "save"}
    BY <1>c
  <2> QED BY <1>a, <1>c, <2>1, TokensKept
<1>1. ASSUME NEW c \in Caller, T!Get(c) PROVE TokensInv'
  <2>1. Moved(c, IF tokens.fresh THEN "call" ELSE "lock", tokens.pair, FALSE)
    <3>1. (IF tokens.fresh THEN "call" ELSE "lock") \in CallerStep
      BY DEF CallerStep
    <3> QED BY <1>1, <3>1, TokensTyped, Moves DEF T!Get
  <2> QED BY <1>1, <2>1, TokensTyped, TokensKept DEF T!Get, T!At, CallerStep
<1>2. ASSUME NEW c \in Caller, T!Acquire(c) PROVE TokensInv'
  <2>0. UNCHANGED <<tokens, issued, crossed>> /\ caller[c].at = "lock"
    BY <1>2 DEF T!Acquire, T!At
  <2>1. CASE T!Free
    <3>1. Moved(c, "read", caller[c].pair, caller[c].forced)
      BY <1>2, <2>1, TokensTyped, Moves DEF T!Acquire, CallerStep
    <3>2. lock' = [holder |-> c, live |-> TRUE] /\ ~lock.live
      BY <1>2, <2>1 DEF T!Acquire, T!Free
    <3> QED BY <1>0, <2>0, <3>1, <3>2 DEF Moved, CallerState, CallerStep, TokensInv, T!TypeOK
  <2>2. CASE ~T!Free
    <3>1. Moved(c, "poll", caller[c].pair, caller[c].forced)
      BY <1>2, <2>2, TokensTyped, Moves DEF T!Acquire, CallerStep
    <3>2. lock' = lock
      BY <1>2, <2>2 DEF T!Acquire
    <3> QED BY <2>0, <3>1, <3>2, TokensTyped, TokensKept DEF CallerStep
  <2> QED BY <2>1, <2>2
<1>3. ASSUME NEW c \in Caller, T!Read(c) PROVE TokensInv'
  <2>0. UNCHANGED <<tokens, issued, lock, crossed>> /\ caller[c].at = "read"
    BY <1>3 DEF T!Read, T!At
  <2>1. CASE tokens.pair = 0
    BY <1>3, <1>b, <1>c, <2>0, <2>1 DEF T!Read, T!Used
  <2>2. CASE tokens.pair # 0
    <3>1. Moved(c, "exchange", tokens.pair, caller[c].forced)
      BY <1>3, <2>2, TokensTyped, Moves DEF T!Read, T!Used, CallerStep
    <3> QED BY <2>0, <2>2, <3>1, TokensTyped, TokensKept DEF CallerStep
  <2> QED BY <2>1, <2>2
<1>4. ASSUME NEW c \in Caller, T!Exchange(c) PROVE TokensInv'
  <2>0. tokens' = tokens /\ lock' = lock /\ caller[c].at = "exchange"
    BY <1>4 DEF T!Exchange, T!At
  <2>1. CASE /\ caller[c].pair = issued /\ issued < MaxTokens /\ issued' = issued + 1
             /\ caller' = [caller EXCEPT ![c].at = "save", ![c].pair = issued + 1] /\ UNCHANGED crossed
    <3>0. issued + 1 \in 0..MaxTokens
      BY <1>0, <2>1, TokensTyped
    <3>1. Moved(c, "save", issued + 1, caller[c].forced)
      BY <2>1, <3>0, TokensTyped, Moves DEF CallerStep
    <3> QED BY <1>0, <2>0, <2>1, <3>0, <3>1 DEF Moved, CallerState, CallerStep, TokensInv, T!TypeOK
  <2>2. CASE issued < MaxTokens /\ issued' = issued + 1 /\ T!Goto(c, "mark") /\ crossed' = TRUE
    <3>0. issued + 1 \in 0..MaxTokens
      BY <1>0, <2>2, TokensTyped
    <3>1. Moved(c, "mark", caller[c].pair, caller[c].forced)
      BY <2>2, TokensTyped, Moves DEF CallerStep
    <3> QED BY <1>0, <2>0, <2>2, <3>0, <3>1 DEF Moved, CallerState, CallerStep, TokensInv, T!TypeOK
  <2>3. CASE T!Goto(c, "mark") /\ UNCHANGED <<issued, crossed>>
    <3>1. Moved(c, "mark", caller[c].pair, caller[c].forced)
      BY <2>3, TokensTyped, Moves DEF CallerStep
    <3> QED BY <2>0, <2>3, <3>1, TokensTyped, TokensKept DEF CallerStep
  <2> QED BY <1>4, <2>1, <2>2, <2>3 DEF T!Exchange
<1>5. ASSUME NEW c \in Caller, T!Save(c) PROVE TokensInv'
  <2>0. issued' = issued /\ lock' = lock /\ caller[c].at = "save"
    BY <1>5 DEF T!Save, T!At
  <2>1. CASE /\ tokens' = [pair |-> caller[c].pair, fresh |-> TRUE, status |-> "connected"]
             /\ T!Goto(c, IF caller[c].forced THEN "again" ELSE "call") /\ UNCHANGED crossed
    <3> DEFINE s == IF caller[c].forced THEN "again" ELSE "call"
    <3>0. s \in CallerStep /\ s \in {"again", "call"}
      BY DEF CallerStep
    <3>1. T!Goto(c, s)
      BY <2>1
    <3> HIDE DEF s
    <3>2. Moved(c, s, caller[c].pair, caller[c].forced)
      BY <3>0, <3>1, TokensTyped, Moves
    <3> QED BY <1>0, <2>0, <2>1, <3>0, <3>2 DEF Moved, CallerState, CallerStep, TokensInv, T!TypeOK
  <2>2. CASE T!Goto(c, "mark") /\ crossed' = TRUE /\ UNCHANGED tokens
    <3>1. Moved(c, "mark", caller[c].pair, caller[c].forced)
      BY <2>2, TokensTyped, Moves DEF CallerStep
    <3> QED BY <1>0, <2>0, <2>2, <3>1 DEF Moved, CallerState, CallerStep, TokensInv, T!TypeOK
  <2> QED BY <1>5, <2>1, <2>2 DEF T!Save
<1>6. ASSUME NEW c \in Caller, T!MarkError(c) PROVE TokensInv'
  BY <1>0, <1>6 DEF T!MarkError, TokensInv, T!TypeOK, T!At, T!Idle
<1>7. ASSUME NEW c \in Caller, T!Poll(c) PROVE TokensInv'
  <2>0. UNCHANGED <<tokens, issued, lock, crossed>> /\ caller[c].at = "poll"
    BY <1>7 DEF T!Poll, T!At
  <2>1. CASE tokens.pair = 0
    BY <1>7, <1>b, <1>c, <2>0, <2>1 DEF T!Poll
  <2>2. CASE tokens.pair # 0
    <3> DEFINE s == IF caller[c].forced THEN "again" ELSE "call"
    <3>0. s \in CallerStep /\ s \in {"again", "call"}
      BY DEF CallerStep
    <3>1. caller' = [caller EXCEPT ![c].at = s, ![c].pair = tokens.pair]
      BY <1>7, <2>2 DEF T!Poll
    <3> HIDE DEF s
    <3>2. Moved(c, s, tokens.pair, caller[c].forced)
      BY <3>0, <3>1, TokensTyped, Moves
    <3> QED BY <2>0, <3>0, <3>2, TokensTyped, TokensKept
  <2> QED BY <2>1, <2>2
<1>8. ASSUME NEW c \in Caller, T!Call(c) PROVE TokensInv'
  <2>0. UNCHANGED <<tokens, issued, lock, crossed>> /\ caller[c].at = "call"
    BY <1>8 DEF T!Call, T!At
  <2>1. CASE caller' = [caller EXCEPT ![c] = T!Idle]
    BY <1>b, <1>c, <2>0, <2>1
  <2>2. CASE caller' = [caller EXCEPT ![c].at = "lock", ![c].forced = TRUE]
    <3>1. Moved(c, "lock", caller[c].pair, TRUE)
      BY <2>2, TokensTyped, Moves DEF CallerStep
    <3> QED BY <2>0, <3>1, TokensTyped, TokensKept DEF CallerStep
  <2> QED BY <1>8, <2>1, <2>2 DEF T!Call
<1>9. ASSUME NEW c \in Caller, T!CallAgain(c) PROVE TokensInv'
  BY <1>0, <1>9 DEF T!CallAgain, TokensInv, T!TypeOK, T!At, T!Idle
<1>10. ASSUME NEW c \in Caller, T!Die(c) PROVE TokensInv'
  BY <1>0, <1>10 DEF T!Die, TokensInv, T!TypeOK, T!At, T!Idle
<1>11. ASSUME T!LockEnds PROVE TokensInv'
  BY <1>0, <1>11 DEF T!LockEnds, TokensInv, T!TypeOK, T!Step
<1>12. ASSUME T!TokenEnds PROVE TokensInv'
  BY <1>0, <1>12 DEF T!TokenEnds, TokensInv, T!TypeOK
<1>13. ASSUME T!Connect PROVE TokensInv'
  BY <1>0, <1>13 DEF T!Connect, TokensInv, T!TypeOK, T!Renewing, T!Step
<1>14. ASSUME T!Disconnect PROVE TokensInv'
  BY <1>0, <1>14 DEF T!Disconnect, TokensInv, T!TypeOK, T!Renewing, T!Step
<1> QED BY <1>1, <1>2, <1>3, <1>4, <1>5, <1>6, <1>7, <1>8, <1>9, <1>10, <1>11, <1>12, <1>13,
           <1>14 DEF T!Next

\* What the manager promises follows.
LEMMA TokensSafe == TokensInv => T!NeverSpent
  BY DEF TokensInv, T!NeverSpent, T!TypeOK, T!At, T!Step, T!Renewing

-----------------------------------------------------------------------------
(* The accounts and their provisioning.                                    *)

\* The records of the tables and of a request.
AuditRow == [status : {"none", "processing", "processed", "error"}, account : Request \cup {NoAccount}]
AccountRow == [status : {"none", "active", "ended"}, sub : A!Subs, owner : BOOLEAN]
RequestStep == {"start", "find", "account", "user", "profile", "owner", "update", "close", "error",
                "undo user", "undo", "done"}
RequestState == [at : RequestStep, account : Request \cup {NoAccount}]

\* The steps of the request that created the user and has not finished with it.
WithUser == {"profile", "owner", "undo user"}

\* The request that created the user is the one whose account it links; an
\* account that has an owner has its user, unless the undo left it (`unlinked`).
AccountInv ==
  /\ A!TypeOK
  /\ \A r \in Request : request[r].at \in {"update", "close"} =>
       request[r].account \in Request /\ Kind[r] # "admin"
  /\ \A r \in Request : request[r].at \in WithUser =>
       user /\ \A q \in Request : request[q].at \in WithUser => q = r
  /\ \A r \in Request : request[r].at = "owner" /\ ~unlinked => profile = r
  /\ \A a \in Request : account[a].owner =>
       /\ user /\ (~unlinked => profile = a)
       /\ \A r \in Request : request[r].at \notin WithUser

\* The types, by the names of the records.
LEMMA AccountTyped ==
  ASSUME A!TypeOK
  PROVE  /\ audit \in [A!Keys -> AuditRow] /\ account \in [Request -> AccountRow]
         /\ request \in [Request -> RequestState] /\ user \in BOOLEAN
         /\ profile \in Request \cup {NoAccount} /\ unlinked \in BOOLEAN /\ errors \in 0..MaxErrors
  BY DEF A!TypeOK, AuditRow, AccountRow, RequestState, RequestStep

\* Empty tables.
LEMMA AccountBegins == ASSUME A!Init PROVE AccountInv
<1>0. MaxErrors \in Nat
  BY ServicesAssumption DEF A!ProvisioningAssumption
<1>1. audit \in [A!Keys -> AuditRow] /\ account \in [Request -> AccountRow]
  BY DEF A!Init, AuditRow, AccountRow, A!Subs
<1>2. request \in [Request -> RequestState] /\ \A r \in Request : request[r].at = "start"
  BY DEF A!Init, RequestState, RequestStep
<1>3. \A a \in Request : ~account[a].owner
  BY DEF A!Init
<1>4. user = FALSE /\ profile = NoAccount /\ unlinked = FALSE /\ errors = 0
  BY Zenon DEF A!Init
<1>a. /\ user \in BOOLEAN /\ profile \in Request \cup {NoAccount} /\ unlinked \in BOOLEAN
      /\ errors \in 0..MaxErrors
  <2>1. user \in BOOLEAN /\ unlinked \in BOOLEAN
    BY <1>4, Zenon
  <2>2. profile \in Request \cup {NoAccount}
    BY <1>4, Zenon
  <2>3. errors \in 0..MaxErrors
    BY <1>0, <1>4
  <2> QED BY <2>1, <2>2, <2>3
<1>5. A!TypeOK
  BY <1>1, <1>2, <1>a DEF A!TypeOK, AuditRow, AccountRow, RequestState, RequestStep
<1> QED BY <1>2, <1>3, <1>5 DEF AccountInv, WithUser

\* Steps of the other services.
LEMMA AccountStays == ASSUME AccountInv, UNCHANGED avars PROVE AccountInv'
  BY DEF avars, AccountInv, A!TypeOK

\* A request goes on, and all the rest stays as it is.
Goes(r, s) == /\ request' \in [Request -> RequestState] /\ request'[r].at = s
              /\ request'[r].account = request[r].account
              /\ \A q \in Request \ {r} : request'[q] = request[q]
\* Goto moves one request.
LEMMA RequestGoes == ASSUME A!TypeOK, NEW r \in Request, NEW s \in RequestStep, A!Goto(r, s)
                     PROVE  Goes(r, s)
<1> DEFINE x == [request[r] EXCEPT !.at = s]
<1>0. request \in [Request -> RequestState] /\ request[r] \in RequestState
  BY AccountTyped
<1>1. x \in RequestState /\ x.at = s /\ x.account = request[r].account
  BY <1>0 DEF RequestState
<1>2. request' = [request EXCEPT ![r] = x]
  BY Zenon DEF A!Goto
<1> HIDE DEF x
<1> QED BY <1>0, <1>1, <1>2, Put DEF Goes

\* Every step of a request, its errors and its undo.
LEMMA AccountSteps == ASSUME AccountInv, A!Next PROVE AccountInv'
<1>0. MaxErrors \in Nat /\ NoAccount \notin Request
  BY ServicesAssumption DEF A!ProvisioningAssumption
<1>a. A!TypeOK
  BY DEF AccountInv
<1>b. ASSUME NEW r \in Request, NEW s \in RequestStep \ WithUser, Goes(r, s),
             s \in {"update", "close"} => request[r].account \in Request /\ Kind[r] # "admin",
             account' \in [Request -> AccountRow],
             \A a \in Request : account'[a].owner => account[a].owner,
             user' = user, profile' = profile, unlinked' = unlinked, errors' \in 0..MaxErrors,
             audit' \in [A!Keys -> AuditRow]
      PROVE  AccountInv'
  <2>1. /\ request' \in [Request -> RequestState] /\ user' \in BOOLEAN
        /\ profile' \in Request \cup {NoAccount} /\ unlinked' \in BOOLEAN
    BY <1>a, <1>b, AccountTyped DEF Goes
  <2>2. A!TypeOK'
    BY <1>b, <2>1 DEF A!TypeOK, AuditRow, AccountRow, RequestState, RequestStep
  <2>3. /\ \A q \in Request : request'[q].at \in WithUser => request'[q] = request[q]
        /\ \A q \in Request : request'[q].at \in {"update", "close"} => request'[q].account \in Request /\ Kind[q] # "admin"
    BY <1>b DEF Goes, AccountInv
  <2> QED BY <1>b, <2>2, <2>3 DEF AccountInv, WithUser
<1>c. ASSUME NEW r \in Request, NEW s \in WithUser, Goes(r, s), request[r].at \in WithUser,
             s = "owner" /\ ~unlinked' => profile' = r,
             account' = account, audit' = audit, user' = user, profile' \in Request \cup {NoAccount},
             unlinked' \in BOOLEAN, errors' \in 0..MaxErrors
      PROVE  AccountInv'
  <2>1. /\ request' \in [Request -> RequestState] /\ user' \in BOOLEAN
        /\ account' \in [Request -> AccountRow] /\ audit' \in [A!Keys -> AuditRow]
    BY <1>a, <1>c, AccountTyped DEF Goes
  <2>2. A!TypeOK'
    BY <1>c, <2>1 DEF A!TypeOK, AuditRow, AccountRow, RequestState, RequestStep
  <2>3. /\ \A q \in Request : request'[q].at \in WithUser => q = r
        /\ \A q \in Request : request'[q].at \in {"update", "close"} => request'[q].account \in Request /\ Kind[q] # "admin"
    BY <1>c DEF Goes, AccountInv, WithUser
  <2>4. user' /\ \A a \in Request : ~account'[a].owner
    BY <1>c DEF AccountInv
  <2>5. \A q \in Request : request'[q].at = "owner" /\ ~unlinked' => profile' = q
    <3> TAKE q \in Request
    <3>1. request'[q].at = "owner" => q = r
      BY <2>3 DEF WithUser
    <3> QED BY <1>c, <3>1 DEF Goes
  <2> QED BY <2>2, <2>3, <2>4, <2>5 DEF AccountInv
<1>d. ASSUME A!Error PROVE errors' \in 0..MaxErrors
  BY <1>0, <1>a, <1>d, AccountTyped DEF A!Error
<1>e. ASSUME UNCHANGED errors PROVE errors' \in 0..MaxErrors
  BY <1>a, <1>e, AccountTyped
<1>f. ASSUME NEW r \in Request
      PROVE  /\ Key[r] \in A!Keys /\ Sub[r] \in A!Subs /\ NoSub \in A!Subs
  BY DEF A!Keys, A!Subs
<1>g. ASSUME NEW r \in Request, NEW s \in RequestStep, A!Goto(r, s) PROVE Goes(r, s)
  BY <1>a, <1>g, RequestGoes
<1>h. ASSUME NEW r \in Request, NEW s, audit' = [audit EXCEPT ![Key[r]].status = s],
             s \in {"none", "processing", "processed", "error"}
      PROVE  audit' \in [A!Keys -> AuditRow]
  <2> DEFINE x == [audit[Key[r]] EXCEPT !.status = s]
  <2>1. audit[Key[r]] \in AuditRow /\ audit \in [A!Keys -> AuditRow]
    BY <1>a, <1>f, AccountTyped
  <2>2. x \in AuditRow
    BY <1>h, <2>1 DEF AuditRow
  <2>3. audit' = [audit EXCEPT ![Key[r]] = x]
    BY <1>h, Zenon
  <2> HIDE DEF x
  <2> QED BY <1>f, <2>1, <2>2, <2>3, Put
<1>i. ASSUME UNCHANGED <<audit, account>>
      PROVE  /\ audit' \in [A!Keys -> AuditRow] /\ account' \in [Request -> AccountRow]
             /\ \A a \in Request : account'[a].owner => account[a].owner
  BY <1>a, <1>i, AccountTyped
<1>1. ASSUME NEW r \in Request, A!Audit(r) PROVE AccountInv'
  <2>0. UNCHANGED <<account, user, profile, unlinked, errors>>
    BY <1>1 DEF A!Audit
  <2>1. \E s \in {"find", "done"} : A!Goto(r, s)
    BY <1>1 DEF A!Audit
  <2>2. PICK s \in {"find", "done"} : Goes(r, s)
    BY <1>g, <2>1 DEF RequestStep
  <2>3. audit' \in [A!Keys -> AuditRow]
    BY <1>1, <1>a, <1>h, AccountTyped DEF A!Audit
  <2>4. s \in RequestStep \ WithUser /\ s \notin {"update", "close"}
    BY DEF RequestStep, WithUser
  <2>5. account \in [Request -> AccountRow] /\ errors \in 0..MaxErrors
    BY <1>a, AccountTyped
  <2> QED BY <1>b, <2>0, <2>2, <2>3, <2>4, <2>5
<1>2. ASSUME NEW r \in Request, A!Find(r) PROVE AccountInv'
  <2>0. UNCHANGED <<audit, account, user, profile, unlinked, errors>>
    BY <1>2 DEF A!Find
  <2>1. PICK n \in Request \cup {NoAccount}, s \in {"done", "update", "error", "account"} :
          /\ request' = [request EXCEPT ![r] = [at |-> s, account |-> n]]
          /\ s = "update" => n \in Request /\ Kind[r] # "admin"
    <3> DEFINE bySub == {a \in Request : account[a].sub = Sub[r] /\ Sub[r] # NoSub}
               n == IF bySub # {} THEN CHOOSE a \in bySub : TRUE ELSE profile
               s == IF Kind[r] = "order" /\ bySub # {} THEN "done"
                    ELSE IF n # NoAccount THEN IF Kind[r] = "admin" THEN "done" ELSE "update"
                    ELSE IF Kind[r] = "stop" THEN "error" ELSE "account"
    <3>1. n \in Request \cup {NoAccount}
      BY <1>a, AccountTyped
    <3>2. s \in {"done", "update", "error", "account"} /\ (s = "update" => n # NoAccount /\ Kind[r] # "admin")
      OBVIOUS
    <3>3. request' = [request EXCEPT ![r] = [at |-> s, account |-> n]]
      BY <1>2 DEF A!Find
    <3> HIDE DEF n, s
    <3> QED BY <3>1, <3>2, <3>3
  <2>2. /\ request' \in [Request -> RequestState] /\ request'[r].at = s /\ request'[r].account = n
        /\ \A q \in Request \ {r} : request'[q] = request[q]
    <3> DEFINE x == [at |-> s, account |-> n]
    <3>1. x \in RequestState /\ x.at = s /\ x.account = n
      BY DEF RequestState, RequestStep
    <3>2. request' = [request EXCEPT ![r] = x] /\ request \in [Request -> RequestState]
      BY <1>a, <2>1, AccountTyped
    <3> HIDE DEF x
    <3> QED BY <3>1, <3>2, Put
  <2>3. A!TypeOK'
    BY <1>a, <2>0, <2>2 DEF A!TypeOK, RequestState, RequestStep
  <2>4. /\ \A q \in Request : request'[q].at \in WithUser => request'[q] = request[q]
        /\ \A q \in Request : request'[q].at \in {"update", "close"} => request'[q].account \in Request /\ Kind[q] # "admin"
    <3>1. s \notin WithUser /\ (s \in {"update", "close"} => n \in Request /\ Kind[r] # "admin")
      BY <2>1 DEF WithUser
    <3>2. \A q \in Request : request[q].at \in {"update", "close"} => request[q].account \in Request /\ Kind[q] # "admin"
      BY DEF AccountInv
    <3>3. ASSUME NEW q \in Request, request'[q].at \in WithUser PROVE request'[q] = request[q]
      BY <2>2, <3>1, <3>3
    <3>4. ASSUME NEW q \in Request, request'[q].at \in {"update", "close"}
          PROVE  request'[q].account \in Request /\ Kind[q] # "admin"
      <4>1. CASE q = r
        BY <2>2, <3>1, <3>4, <4>1
      <4>2. CASE q # r
        BY <2>2, <3>2, <3>4, <4>2
      <4> QED BY <4>1, <4>2
    <3> QED BY <3>3, <3>4
  <2>5. account' = account /\ user' = user /\ profile' = profile /\ unlinked' = unlinked
    BY <2>0
  <2> QED BY <2>3, <2>4, <2>5 DEF AccountInv, WithUser
<1>j. account \in [Request -> AccountRow] /\ audit \in [A!Keys -> AuditRow]
      /\ request \in [Request -> RequestState]
      /\ user \in BOOLEAN /\ profile \in Request \cup {NoAccount} /\ unlinked \in BOOLEAN
      /\ errors \in 0..MaxErrors
  BY <1>a, AccountTyped
\* A request leaves: nothing but its step and the errors changes.
<1>k. ASSUME NEW r \in Request, NEW s \in {"error", "undo", "done", "find"}, A!Goto(r, s),
             UNCHANGED <<audit, account, user, profile, unlinked>>, errors' \in 0..MaxErrors
      PROVE  AccountInv'
  <2>1. s \in RequestStep \ WithUser /\ s \notin {"update", "close"}
    BY DEF RequestStep, WithUser
  <2>2. Goes(r, s)
    BY <1>g, <1>k, <2>1
  <2>3. account' = account /\ audit' = audit /\ user' = user /\ profile' = profile /\ unlinked' = unlinked
    BY <1>k
  <2> QED BY <1>b, <1>j, <1>k, <2>1, <2>2, <2>3
<1>3. ASSUME NEW r \in Request, A!NewAccount(r) PROVE AccountInv'
  <2>0. audit' = audit /\ user' = user /\ profile' = profile /\ unlinked' = unlinked /\ errors' = errors
    BY <1>3 DEF A!NewAccount
  <2>1. CASE A!Taken(Sub[r])
    <3>1. UNCHANGED account /\ \E s \in {"error", "done"} : A!Goto(r, s)
      BY <1>3, <2>1 DEF A!NewAccount
    <3> QED BY <1>k, <1>j, <2>0, <3>1
  <2>2. CASE ~A!Taken(Sub[r])
    <3> DEFINE x == [status |-> "active", sub |-> Sub[r], owner |-> FALSE]
    <3>1. x \in AccountRow /\ ~x.owner
      BY <1>f DEF AccountRow
    <3>2. account' = [account EXCEPT ![r] = x] /\ A!Goto(r, "user")
      BY <1>3, <2>2 DEF A!NewAccount
    <3> HIDE DEF x
    <3>3. account' \in [Request -> AccountRow] /\ \A a \in Request : account'[a].owner => account[a].owner
      BY <1>j, <3>1, <3>2, Put
    <3>4. "user" \in RequestStep \ WithUser /\ "user" \notin {"update", "close"}
      BY DEF RequestStep, WithUser
    <3>5. Goes(r, "user")
      BY <1>g, <3>2, <3>4
    <3> QED BY <1>b, <1>j, <2>0, <3>3, <3>4, <3>5
  <2> QED BY <2>1, <2>2
<1>l. ASSUME NEW r \in Request, A!Refused(r), UNCHANGED <<audit, account, user, profile, unlinked>>,
             errors' \in 0..MaxErrors
      PROVE  AccountInv'
  BY <1>k, <1>l DEF A!Refused
<1>4. ASSUME NEW r \in Request, A!NewUser(r) PROVE AccountInv'
  <2>0. audit' = audit /\ account' = account /\ unlinked' = unlinked /\ request[r].at = "user"
    BY <1>4 DEF A!NewUser, A!At
  <2>1. CASE /\ ~user /\ user' = TRUE /\ A!Goto(r, "profile")
             /\ profile' = IF Kind[r] = "order" THEN profile ELSE r
             /\ UNCHANGED errors
    <3>1. Goes(r, "profile")
      BY <1>g, <2>1 DEF RequestStep
    <3>2. profile' \in Request \cup {NoAccount} /\ errors' \in 0..MaxErrors /\ user'
      BY <1>j, <2>1
    <3>3. \A q \in Request : request[q].at \notin WithUser /\ ~account[q].owner
      BY <2>1 DEF AccountInv
    <3>4. A!TypeOK'
      BY <1>a, <2>0, <2>1, <3>1, <3>2 DEF A!TypeOK, Goes, RequestState, RequestStep
    <3>5. /\ \A q \in Request : request'[q].at \in WithUser => q = r
          /\ \A q \in Request : request'[q].at # "owner"
          /\ \A q \in Request : request'[q].at \in {"update", "close"} => request'[q].account \in Request /\ Kind[q] # "admin"
      BY <3>1, <3>3 DEF Goes, AccountInv, WithUser
    <3> QED BY <2>0, <3>2, <3>3, <3>4, <3>5 DEF AccountInv
  <2>2. CASE user /\ A!Refused(r) /\ UNCHANGED <<user, profile, errors>>
    BY <1>j, <1>l, <2>0, <2>2
  <2>3. CASE ~user /\ A!Error /\ A!Refused(r) /\ UNCHANGED <<user, profile>>
    BY <1>d, <1>l, <2>0, <2>3
  <2> QED BY <1>4, <2>1, <2>2, <2>3 DEF A!NewUser
\* The errors of a request that is to link the user.
<1>m. ASSUME NEW r \in Request, request[r].at \in WithUser, A!Catch(r), A!Error,
             UNCHANGED <<audit, account, user, profile, unlinked>>
      PROVE  AccountInv'
  <2>1. CASE A!Goto(r, "undo user")
    <3>1. Goes(r, "undo user") /\ "undo user" \in WithUser /\ "undo user" # "owner"
      BY <1>g, <2>1 DEF RequestStep, WithUser
    <3> QED BY <1>c, <1>d, <1>j, <1>m, <3>1
  <2>2. CASE A!Goto(r, "error") \/ A!Goto(r, "done")
    BY <1>d, <1>k, <1>m, <2>2
  <2> QED BY <1>m, <2>1, <2>2 DEF A!Catch
<1>5. ASSUME NEW r \in Request, A!Profile(r) PROVE AccountInv'
  <2>0. audit' = audit /\ account' = account /\ user' = user /\ request[r].at = "profile"
        /\ request[r].at \in WithUser
    BY <1>5 DEF A!Profile, A!At, WithUser
  <2>a. A!Goto(r, "owner") => Goes(r, "owner") /\ "owner" \in WithUser
    BY <1>g DEF RequestStep, WithUser
  <2>1. CASE profile' = r /\ A!Goto(r, "owner") /\ UNCHANGED <<unlinked, errors>>
    BY <1>c, <1>j, <2>0, <2>1, <2>a
  <2>2. CASE A!Error /\ UNCHANGED profile /\ A!Goto(r, "owner") /\ unlinked' = TRUE
    BY <1>c, <1>d, <1>j, <2>0, <2>2, <2>a
  <2>3. CASE A!Error /\ UNCHANGED profile /\ A!Catch(r) /\ UNCHANGED unlinked
    BY <1>m, <2>0, <2>3
  <2> QED BY <1>5, <2>1, <2>2, <2>3 DEF A!Profile
<1>6. ASSUME NEW r \in Request, A!LinkOwner(r) PROVE AccountInv'
  <2>0. audit' = audit /\ user' = user /\ profile' = profile /\ unlinked' = unlinked
        /\ request[r].at = "owner" /\ request[r].at \in WithUser
    BY <1>6 DEF A!LinkOwner, A!At, WithUser
  <2>1. CASE /\ account' = [account EXCEPT ![r].owner = TRUE]
             /\ request' = [request EXCEPT ![r] = [at |-> IF A!Hubla(r) THEN "update" ELSE "done",
                                                   account |-> r]]
             /\ UNCHANGED errors
    <3> DEFINE x == [account[r] EXCEPT !.owner = TRUE]
               y == [at |-> IF A!Hubla(r) THEN "update" ELSE "done", account |-> r]
    <3>1. x \in AccountRow /\ x.owner
      <4>1. account[r] \in AccountRow
        BY <1>j
      <4> QED BY <4>1 DEF AccountRow
    <3>2. /\ y \in RequestState /\ y.at \notin WithUser /\ y.account = r
          /\ y.at \in {"update", "close"} => Kind[r] # "admin"
      BY DEF RequestState, RequestStep, WithUser, A!Hubla
    <3>3. account' = [account EXCEPT ![r] = x]
      BY <2>1, Zenon
    <3>4. request' = [request EXCEPT ![r] = y]
      BY <2>1, Zenon
    <3> HIDE DEF x, y
    <3>5. /\ account' \in [Request -> AccountRow] /\ account'[r].owner
          /\ \A a \in Request \ {r} : account'[a] = account[a]
      BY <1>j, <3>1, <3>3, Put
    <3>6. /\ request' \in [Request -> RequestState] /\ request'[r].at \notin WithUser
          /\ request'[r].account = r /\ (request'[r].at \in {"update", "close"} => Kind[r] # "admin")
          /\ \A q \in Request \ {r} : request'[q] = request[q]
      BY <1>j, <3>2, <3>4, Put
    <3>7. A!TypeOK'
      BY <1>a, <2>0, <2>1, <3>5, <3>6 DEF A!TypeOK, AccountRow, RequestState, RequestStep
    <3>8. user /\ (~unlinked => profile = r) /\ \A a \in Request : ~account[a].owner
      BY <2>0 DEF AccountInv
    <3>9. \A q \in Request : request'[q].at \notin WithUser
      BY <2>0, <3>6 DEF AccountInv
    <3>10. \A q \in Request : request'[q].at \in {"update", "close"} => request'[q].account \in Request /\ Kind[q] # "admin"
      BY <3>6 DEF AccountInv
    <3>11. \A q \in Request : request'[q].at # "owner"
      BY <3>9 DEF WithUser
    <3> QED BY <2>0, <3>5, <3>7, <3>8, <3>9, <3>10, <3>11 DEF AccountInv
  <2>2. CASE A!Error /\ A!Catch(r) /\ UNCHANGED account
    BY <1>m, <2>0, <2>2
  <2> QED BY <1>6, <2>1, <2>2 DEF A!LinkOwner
<1>7. ASSUME NEW r \in Request, A!Update(r) PROVE AccountInv'
  <2> DEFINE a == request[r].account
             clash == account[a].sub # Sub[r] /\ A!Taken(Sub[r])
  <2>0. audit' = audit /\ user' = user /\ profile' = profile /\ unlinked' = unlinked
        /\ errors' = errors /\ request[r].at = "update"
    BY <1>7 DEF A!Update, A!At
  <2>a. a \in Request
    BY <2>0 DEF AccountInv
  <2>1. CASE clash
    <3>1. A!Catch(r) /\ account' = account
      BY <1>7, <2>1 DEF A!Update
    <3>2. A!Goto(r, "error") \/ A!Goto(r, "done")
      BY <2>0, <3>1 DEF A!Catch, AccountInv
    <3> QED BY <1>j, <1>k, <2>0, <3>1, <3>2
  <2>2. CASE ~clash
    <3> DEFINE s == IF A!Hubla(r) THEN "close" ELSE "done"
               x == [account[a] EXCEPT !.status = IF Kind[r] = "stop" THEN "ended" ELSE "active",
                                       !.sub = IF Sub[r] = NoSub THEN @ ELSE Sub[r]]
    <3>1. s \in RequestStep \ WithUser /\ A!Goto(r, s)
      BY <1>7, <2>2 DEF A!Update, RequestStep, WithUser
    <3>2. x \in AccountRow /\ x.owner = account[a].owner
      <4>1. account[a] \in AccountRow /\ account[a].sub \in A!Subs
        BY <1>j, <2>a DEF AccountRow
      <4> DEFINE t == IF Kind[r] = "stop" THEN "ended" ELSE "active"
                 u == IF Sub[r] = NoSub THEN account[a].sub ELSE Sub[r]
      <4>2. t \in {"none", "active", "ended"} /\ u \in A!Subs
        BY <1>f, <4>1
      <4>3. x = [account[a] EXCEPT !.status = t, !.sub = u]
        BY Zenon
      <4> HIDE DEF t, u, x
      <4>4. [account[a] EXCEPT !.status = t, !.sub = u] \in AccountRow
            /\ [account[a] EXCEPT !.status = t, !.sub = u].owner = account[a].owner
        BY <4>1, <4>2 DEF AccountRow
      <4> QED BY <4>3, <4>4
    <3>3. account' = account \/ account' = [account EXCEPT ![a] = x]
      <4>1. account' = account \/ account' =
               [account EXCEPT ![a].status = IF Kind[r] = "stop" THEN "ended" ELSE "active",
                               ![a].sub = IF Sub[r] = NoSub THEN @ ELSE Sub[r]]
        BY <1>7, <2>2, Zenon DEF A!Update
      <4> QED BY <4>1, Zenon
    <3> HIDE DEF s, x, clash
    <3>4. account' \in [Request -> AccountRow] /\ \A q \in Request : account'[q].owner => account[q].owner
      BY <1>j, <2>a, <3>2, <3>3, Put
    <3>5. request[r].account \in Request /\ Kind[r] # "admin"
      BY <2>0 DEF AccountInv
    <3> QED BY <1>b, <1>g, <1>j, <2>0, <3>1, <3>4, <3>5
  <2> QED BY <2>1, <2>2
<1>8. ASSUME NEW r \in Request, A!Close(r) PROVE AccountInv'
  <2>0. account' = account /\ user' = user /\ profile' = profile /\ unlinked' = unlinked
        /\ errors' = errors /\ request[r].at = "close" /\ A!Goto(r, "done")
    BY <1>8 DEF A!Close, A!At
  <2>1. audit' \in [A!Keys -> AuditRow]
    <3> DEFINE x == [status |-> "processed", account |-> request[r].account]
    <3>1. x \in AuditRow
      BY <2>0 DEF AuditRow, AccountInv
    <3>2. audit' = audit \/ audit' = [audit EXCEPT ![Key[r]] = x]
      BY <1>8 DEF A!Close
    <3> HIDE DEF x
    <3> QED BY <1>f, <1>j, <3>1, <3>2, Put
  <2>2. "done" \in RequestStep \ WithUser /\ "done" \notin {"update", "close"}
    BY DEF RequestStep, WithUser
  <2> QED BY <1>b, <1>g, <1>j, <2>0, <2>1, <2>2
<1>9. ASSUME NEW r \in Request, A!CloseError(r) PROVE AccountInv'
  <2>0. account' = account /\ user' = user /\ profile' = profile /\ unlinked' = unlinked
        /\ errors' = errors /\ A!Goto(r, "done")
    BY <1>9 DEF A!CloseError
  <2>1. audit' \in [A!Keys -> AuditRow]
    BY <1>9, <1>h DEF A!CloseError
  <2>2. "done" \in RequestStep \ WithUser /\ "done" \notin {"update", "close"}
    BY DEF RequestStep, WithUser
  <2> QED BY <1>b, <1>g, <1>j, <2>0, <2>1, <2>2
<1>10. ASSUME NEW r \in Request, A!UndoUser(r) PROVE AccountInv'
  <2>0. audit' = audit /\ account' = account /\ unlinked' = unlinked /\ errors' = errors
        /\ request[r].at = "undo user" /\ request[r].at \in WithUser
    BY <1>10 DEF A!UndoUser, A!At, WithUser
  <2>1. user' = FALSE /\ profile' = NoAccount /\ \A a \in Request : ~account[a].owner
    BY <1>10, <2>0 DEF A!UndoUser, AccountInv
  <2>2. Goes(r, "undo")
    BY <1>10, <1>g DEF A!UndoUser, RequestStep
  <2>3. A!TypeOK'
    BY <1>a, <2>0, <2>1, <2>2 DEF A!TypeOK, Goes, RequestState, RequestStep
  <2>4. \A q \in Request : request'[q].at \notin WithUser
    BY <2>0, <2>2 DEF Goes, AccountInv, WithUser
  <2>5. /\ \A q \in Request : request'[q].at \in {"update", "close"} => request'[q].account \in Request /\ Kind[q] # "admin"
        /\ \A q \in Request : request'[q].at # "owner"
    BY <2>2, <2>4 DEF Goes, AccountInv, WithUser
  <2> QED BY <2>0, <2>1, <2>3, <2>4, <2>5 DEF AccountInv
<1>11. ASSUME NEW r \in Request, A!Undo(r) PROVE AccountInv'
  <2>0. audit' = audit /\ user' = user /\ profile' = profile /\ unlinked' = unlinked
        /\ errors' = errors /\ A!Goto(r, "done")
    BY <1>11 DEF A!Undo
  <2>1. account' \in [Request -> AccountRow] /\ \A a \in Request : account'[a].owner => account[a].owner
    <3> DEFINE x == [status |-> "none", sub |-> NoSub, owner |-> FALSE]
    <3>1. x \in AccountRow /\ ~x.owner
      BY <1>f DEF AccountRow
    <3>2. account' = account \/ account' = [account EXCEPT ![r] = x]
      BY <1>11 DEF A!Undo
    <3> HIDE DEF x
    <3> QED BY <1>j, <3>1, <3>2, Put
  <2>2. "done" \in RequestStep \ WithUser /\ "done" \notin {"update", "close"}
    BY DEF RequestStep, WithUser
  <2> QED BY <1>b, <1>g, <1>j, <2>0, <2>1, <2>2
<1>12. ASSUME NEW r \in Request, A!Die(r) PROVE AccountInv'
  BY <1>d, <1>k, <1>12 DEF A!Die
<1> QED BY <1>1, <1>2, <1>3, <1>4, <1>5, <1>6, <1>7, <1>8, <1>9, <1>10, <1>11, <1>12 DEF A!Next

\* What the provisioning promises follows.
LEMMA AccountSafe == AccountInv => A!OwnerEnters
  BY DEF AccountInv, A!OwnerEnters

-----------------------------------------------------------------------------
(* The incidents of silence.                                               *)

\* The records of the table and of the detector.
IncidentRow == [of : I!Incident, kind : {"silence", "pre_restart"}, resolved : BOOLEAN]
WatchState == [on : BOOLEAN, open : BOOLEAN, level : {0, 2, 20}, incident : 0..MaxIncidents]

\* An insert on its way is of the incident that goes on, of one that was missed,
\* or of one whose resolution is on its way too.
Expected(c) == \/ c.of = watch.incident \/ c.of \in missed \/ I!Resolve(c.of) \in calls

\* The resolution of an incident is on its way only when the incident is no
\* longer the one that goes on; numbers of incidents are not used twice.
SilenceInv ==
  /\ I!TypeOK /\ watch.incident <= next
  /\ I!Resolve(watch.incident) \notin calls
  /\ \A c \in calls : c.of <= next /\ (c.op = "insert" => Expected(c))
  /\ \A r \in rows : r.of <= next
  /\ I!ResolvedWithItsSilence

\* A detector at rest.
LEMMA SilenceBegins == ASSUME I!Init PROVE SilenceInv
  BY ServicesAssumption DEF I!SilenceAssumption, I!Init, SilenceInv, I!TypeOK, I!ResolvedWithItsSilence

\* Steps of the other services.
LEMMA SilenceStays == ASSUME SilenceInv, UNCHANGED ivars PROVE SilenceInv'
  BY DEF ivars, SilenceInv, I!TypeOK, I!ResolvedWithItsSilence, I!Resolve, I!Call, I!Incident, Expected

\* The types of what the detector keeps.
LEMMA SilenceTyped ==
  ASSUME SilenceInv
  PROVE  /\ MaxIncidents \in Nat /\ MaxTroubles \in Nat
         /\ watch \in WatchState /\ next \in 0..MaxIncidents /\ calls \subseteq I!Call
         /\ rows \subseteq IncidentRow /\ missed \subseteq I!Incident /\ troubles \in 0..MaxTroubles
         /\ watch.incident <= next /\ watch.incident \in 0..MaxIncidents /\ watch.level \in {0, 2, 20}
         /\ \A c \in calls : c.of \in I!Incident /\ c.of \in Nat /\ c.of > 0
         /\ \A r \in rows : r.of \in I!Incident /\ r.of \in Nat /\ r.of > 0
  BY ServicesAssumption
     DEF I!SilenceAssumption, SilenceInv, I!TypeOK, I!Call, I!Incident, IncidentRow, WatchState

\* A change of the detector that keeps the incident.
LEMMA SilenceWatches ==
  ASSUME SilenceInv, watch' \in WatchState, watch'.incident = watch.incident,
         UNCHANGED <<next, calls, rows, missed>>, troubles' \in 0..MaxTroubles
  PROVE  SilenceInv'
  BY DEF SilenceInv, I!TypeOK, I!ResolvedWithItsSilence, I!Resolve, I!Call, I!Incident, Expected, WatchState

\* A new incident: its insert is sent, or missed.
LEMMA SilenceOpens ==
  ASSUME SilenceInv, NEW k \in {"silence", "pre_restart"}, NEW v \in {2, 20}, I!OpenIncident(k, v),
         UNCHANGED <<rows, missed, troubles>>
  PROVE  SilenceInv'
<1> DEFINE n == I!Current
           w == [watch EXCEPT !.level = v, !.incident = n]
           new == I!Insert(n, k)
<1>1. n \in I!Incident /\ n \in Nat /\ n > 0 /\ (watch.incident = 0 => n = next + 1)
      /\ (watch.incident # 0 => n = watch.incident /\ n <= next)
  BY SilenceTyped DEF I!OpenIncident, I!Current, I!Incident
<1>2. next' = IF n > next THEN n ELSE next
  BY DEF I!OpenIncident
<1>3. next' \in 0..MaxIncidents /\ next' >= next /\ n <= next'
  BY <1>1, <1>2, SilenceTyped DEF I!Incident
<1>4. w \in WatchState /\ w.incident = n /\ watch' = w
  <2>1. watch \in WatchState /\ n \in 0..MaxIncidents /\ v \in {0, 2, 20}
    BY <1>1, SilenceTyped DEF I!Incident
  <2>2. watch' = w
    BY DEF I!OpenIncident
  <2> HIDE DEF n
  <2> QED BY <2>1, <2>2 DEF WatchState
<1>5. new \in I!Call /\ new.op = "insert" /\ new.of = n
  BY <1>1 DEF I!Insert, I!Call
<1>6. calls' = calls \/ calls' = calls \cup {new}
  BY DEF I!OpenIncident
<1>7. \A j : I!Resolve(j) \in calls' <=> I!Resolve(j) \in calls
  BY <1>5, <1>6 DEF I!Resolve
<1>8. rows' = rows /\ missed' = missed /\ troubles' = troubles
  OBVIOUS
<1> HIDE DEF n, w, new
<1>9. watch' \in WatchState /\ watch'.incident = n
  BY <1>4
<1>10. I!TypeOK'
  BY <1>3, <1>5, <1>6, <1>8, <1>9, SilenceTyped DEF I!TypeOK, WatchState, IncidentRow
<1>11. I!Resolve(n) \notin calls
  <2>1. CASE watch.incident = 0
    <3>1. I!Resolve(n).of = n
      BY DEF I!Resolve
    <3>2. next + 1 > next
      BY SilenceTyped
    <3> QED BY <1>1, <2>1, <3>1, <3>2, SilenceTyped DEF SilenceInv
  <2>2. CASE watch.incident # 0
    BY <1>1, <2>2 DEF SilenceInv
  <2> QED BY <2>1, <2>2
<1>12. \A c \in calls' : c.of <= next' /\ (c.op = "insert" => Expected(c)')
  <2> TAKE c \in calls'
  <2>1. CASE c \in calls
    <3>1. c.of <= next /\ (c.op = "insert" => Expected(c)) /\ c.of \in Nat /\ c.of > 0
      BY <2>1, SilenceTyped DEF SilenceInv
    <3>2. c.of <= next'
      BY <1>3, <3>1, SilenceTyped
    <3>3. Expected(c) => Expected(c)'
      BY <1>1, <1>7, <1>8, <1>9, <3>1 DEF Expected
    <3> QED BY <3>1, <3>2, <3>3
  <2>2. CASE c = new
    BY <1>3, <1>5, <1>9, <2>2 DEF Expected
  <2> QED BY <1>6, <2>1, <2>2
<1>13. \A r \in rows' : r.of <= next'
  BY <1>3, <1>8, SilenceTyped DEF SilenceInv
<1>14. I!ResolvedWithItsSilence'
  <2> SUFFICES ASSUME NEW r \in rows
      PROVE /\ r.resolved => r.of # n
            /\ r.of # n /\ r.of \notin missed /\ I!Resolve(r.of) \notin calls => r.resolved
    BY <1>7, <1>8, <1>9 DEF I!ResolvedWithItsSilence
  <2>1. r.of <= next /\ r.of \in Nat /\ r.of > 0 /\ next \in Nat
    BY SilenceTyped DEF SilenceInv
  <2>2. /\ r.resolved => r.of # watch.incident
        /\ r.of # watch.incident /\ r.of \notin missed /\ I!Resolve(r.of) \notin calls => r.resolved
    BY DEF SilenceInv, I!ResolvedWithItsSilence
  <2> QED BY <1>1, <2>1, <2>2
<1> QED BY <1>3, <1>7, <1>9, <1>10, <1>11, <1>12, <1>13, <1>14 DEF SilenceInv

\* A message ends the silence.
LEMMA SilenceReceives == ASSUME SilenceInv, I!Receive PROVE SilenceInv'
<1> DEFINE n == watch.incident
           w == [watch EXCEPT !.level = 0, !.incident = 0]
<1>1. w \in WatchState /\ w.incident = 0 /\ watch' = w
  <2>1. watch \in WatchState /\ 0 \in 0..MaxIncidents
    BY SilenceTyped
  <2>2. watch' = w
    BY DEF I!Receive, I!Ended
  <2> QED BY <2>1, <2>2 DEF WatchState
<1>2. next' = next /\ rows' = rows /\ missed' = missed /\ troubles' = troubles
  BY DEF I!Receive
<1>3. calls' = IF n = 0 THEN calls ELSE calls \cup {I!Resolve(n)}
  BY DEF I!Receive
<1>4. n # 0 => I!Resolve(n) \in I!Call /\ n <= next
  BY SilenceTyped DEF I!Resolve, I!Call, I!Incident
<1>5. /\ \A i : I!Resolve(i).of = i /\ I!Resolve(i).op = "resolve"
      /\ I!Resolve(0) \notin calls
  BY SilenceTyped DEF I!Resolve
<1> HIDE DEF w
<1>6. I!TypeOK'
  BY <1>1, <1>2, <1>3, <1>4, SilenceTyped DEF I!TypeOK, WatchState, IncidentRow
<1>7. watch'.incident = 0 /\ 0 <= next /\ next \in Nat /\ n \in Nat
  BY <1>1, SilenceTyped
<1>8. I!Resolve(0) \notin calls'
  BY <1>3, <1>5
<1>9. \A c \in calls' : c.of <= next' /\ (c.op = "insert" => Expected(c)')
  <2> TAKE c \in calls'
  <2>1. CASE c \in calls
    <3>1. c.of <= next /\ (c.op = "insert" => Expected(c))
      BY <2>1 DEF SilenceInv
    <3>2. c.of # 0
      BY <2>1, SilenceTyped
    <3>3. Expected(c) => Expected(c)'
      BY <1>2, <1>3, <3>2 DEF Expected
    <3> QED BY <1>2, <3>1, <3>3
  <2>2. CASE n # 0 /\ c = I!Resolve(n)
    BY <1>2, <1>4, <1>5, <2>2
  <2> QED BY <1>3, <2>1, <2>2
<1>10. \A r \in rows' : r.of <= next'
  BY <1>2 DEF SilenceInv
<1>11. I!ResolvedWithItsSilence'
  <2> SUFFICES ASSUME NEW r \in rows
      PROVE /\ r.resolved => r.of # 0
            /\ r.of \notin missed /\ I!Resolve(r.of) \notin calls' => r.resolved
    BY <1>2, <1>7 DEF I!ResolvedWithItsSilence
  <2>1. r.of # 0
    BY SilenceTyped
  <2>2. r.of # n /\ r.of \notin missed /\ I!Resolve(r.of) \notin calls => r.resolved
    BY DEF SilenceInv, I!ResolvedWithItsSilence
  <2> QED BY <1>3, <2>1, <2>2
<1> QED BY <1>2, <1>6, <1>7, <1>8, <1>9, <1>10, <1>11 DEF SilenceInv

\* The insert of an incident arrives.
LEMMA SilenceInserts == ASSUME SilenceInv, NEW c \in calls, I!Inserted(c) PROVE SilenceInv'
<1> DEFINE q == [of |-> c.of, kind |-> c.kind, resolved |-> FALSE]
<1>1. calls' = calls \ {c} /\ rows' = rows \cup {q} /\ c.op = "insert"
      /\ watch' = watch /\ next' = next /\ missed' = missed /\ troubles' = troubles
  BY DEF I!Inserted
<1>2. q \in IncidentRow /\ q.of = c.of /\ q.resolved = FALSE
  BY SilenceTyped DEF IncidentRow, I!Call
<1>3. \A i : I!Resolve(i) \in calls' <=> I!Resolve(i) \in calls
  BY <1>1 DEF I!Resolve
<1> HIDE DEF q
<1>4. I!TypeOK'
  BY <1>1, <1>2, SilenceTyped DEF I!TypeOK, WatchState, IncidentRow
<1>5. c.of <= next /\ Expected(c)
  BY <1>1 DEF SilenceInv
<1>6. \A d \in calls' : d.of <= next' /\ (d.op = "insert" => Expected(d)')
  <2> TAKE d \in calls'
  <2>1. d.of <= next /\ (d.op = "insert" => Expected(d))
    BY <1>1 DEF SilenceInv
  <2> QED BY <1>1, <1>3, <2>1 DEF Expected
<1>7. \A r \in rows' : r.of <= next'
  BY <1>1, <1>2, <1>5 DEF SilenceInv
<1>8. I!ResolvedWithItsSilence'
  BY <1>1, <1>2, <1>3, <1>5 DEF SilenceInv, I!ResolvedWithItsSilence, Expected
<1>9. watch'.incident <= next' /\ I!Resolve(watch'.incident) \notin calls'
  BY <1>1, <1>3 DEF SilenceInv
<1> QED BY <1>4, <1>6, <1>7, <1>8, <1>9 DEF SilenceInv

\* The resolution of an incident arrives.
LEMMA SilenceResolves == ASSUME SilenceInv, NEW c \in calls, I!Resolving(c) PROVE SilenceInv'
<1> DEFINE n == c.of
<1>1. calls' = calls \ {c} /\ c.op = "resolve" /\ rows' = I!Resolved(n)
      /\ missed' = (IF I!Inserting(n) THEN missed \cup {n} ELSE missed)
      /\ watch' = watch /\ next' = next /\ troubles' = troubles
  BY DEF I!Resolving
<1>2. c = I!Resolve(n)
  BY <1>1, SilenceTyped DEF I!Resolve, I!Call
<1>3. n \in I!Incident /\ n # watch.incident
  BY <1>2, SilenceTyped DEF SilenceInv
<1>4. \A q \in rows' : \E r \in rows : /\ q \in IncidentRow /\ q.of = r.of
                                       /\ IF r.of = n THEN q.resolved ELSE q = r
  <2> TAKE q \in rows'
  <2>1. PICK r \in rows : q = IF r.of = n THEN [r EXCEPT !.resolved = TRUE] ELSE r
    BY <1>1 DEF I!Resolved
  <2>2. r \in IncidentRow
    BY SilenceTyped
  <2>3. CASE r.of = n
    <3>1. q = [r EXCEPT !.resolved = TRUE]
      BY <2>1, <2>3
    <3> QED BY <2>2, <2>3, <3>1 DEF IncidentRow
  <2>4. CASE r.of # n
    BY <2>1, <2>2, <2>4
  <2> QED BY <2>3, <2>4
<1>5. \A i : i # n => (I!Resolve(i) \in calls' <=> I!Resolve(i) \in calls)
  BY <1>1, <1>2 DEF I!Resolve
<1>6. calls' \subseteq calls /\ missed \subseteq missed'
  BY <1>1
<1> HIDE DEF n
<1>7. I!TypeOK'
  <2>1. rows' \subseteq IncidentRow /\ missed' \subseteq I!Incident
    BY <1>1, <1>3, <1>4, SilenceTyped
  <2> QED BY <1>1, <1>6, <2>1, SilenceTyped DEF I!TypeOK, WatchState, IncidentRow
<1>8. \A d \in calls' : d.of <= next' /\ (d.op = "insert" => Expected(d)')
  <2> TAKE d \in calls'
  <2>1. d \in calls /\ d.of <= next /\ (d.op = "insert" => Expected(d))
    BY <1>6 DEF SilenceInv
  <2>2. d.op = "insert" /\ d.of = n => n \in missed'
    BY <1>1, <2>1 DEF I!Inserting
  <2> QED BY <1>1, <1>5, <1>6, <2>1, <2>2 DEF Expected
<1>9. \A r \in rows' : r.of <= next'
  BY <1>1, <1>4 DEF SilenceInv
<1>10. I!ResolvedWithItsSilence'
  <2> SUFFICES ASSUME NEW q \in rows'
      PROVE /\ q.resolved => q.of # watch.incident
            /\ q.of # watch.incident /\ q.of \notin missed' /\ I!Resolve(q.of) \notin calls' => q.resolved
    BY <1>1 DEF I!ResolvedWithItsSilence
  <2>1. PICK r \in rows : /\ q \in IncidentRow /\ q.of = r.of
                          /\ IF r.of = n THEN q.resolved ELSE q = r
    BY <1>4
  <2>2. /\ r.resolved => r.of # watch.incident
        /\ r.of # watch.incident /\ r.of \notin missed /\ I!Resolve(r.of) \notin calls => r.resolved
    BY DEF SilenceInv, I!ResolvedWithItsSilence
  <2> QED BY <1>3, <1>5, <1>6, <2>1, <2>2
<1>11. watch'.incident <= next' /\ I!Resolve(watch'.incident) \notin calls'
  BY <1>1, <1>6 DEF SilenceInv
<1> QED BY <1>7, <1>8, <1>9, <1>10, <1>11 DEF SilenceInv

\* A call to the database fails.
LEMMA SilenceLoses == ASSUME SilenceInv, NEW c \in calls, I!CallFails(c) PROVE SilenceInv'
<1>1. calls' = calls \ {c} /\ missed' = missed \cup {c.of}
      /\ watch' = watch /\ next' = next /\ rows' = rows
  BY DEF I!CallFails
<1>2. troubles' \in 0..MaxTroubles
  BY SilenceTyped DEF I!CallFails, I!Trouble
<1>3. c.of \in I!Incident
  BY SilenceTyped
<1>4. I!TypeOK'
  BY <1>1, <1>2, <1>3, SilenceTyped DEF I!TypeOK, WatchState, IncidentRow
<1>5. \A i : i # c.of => (I!Resolve(i) \in calls' <=> I!Resolve(i) \in calls)
  <2>1. \A i : I!Resolve(i).of = i
    BY DEF I!Resolve
  <2> QED BY <1>1, <2>1
<1>6. \A d \in calls' : d.of <= next' /\ (d.op = "insert" => Expected(d)')
  <2> TAKE d \in calls'
  <2>1. d.of <= next /\ (d.op = "insert" => Expected(d))
    BY <1>1 DEF SilenceInv
  <2> QED BY <1>1, <1>5, <2>1 DEF Expected
<1>7. I!ResolvedWithItsSilence'
  BY <1>1, <1>5 DEF SilenceInv, I!ResolvedWithItsSilence
<1> QED BY <1>1, <1>4, <1>6, <1>7 DEF SilenceInv

\* A restart of the process closes the incident that went on.
LEMMA SilenceRestarts == ASSUME SilenceInv, I!Restart PROVE SilenceInv'
<1> DEFINE w == [watch EXCEPT !.open = FALSE, !.level = 0, !.incident = 0]
<1>1. calls' = {} /\ next' = next /\ rows' = rows /\ watch' = w
      /\ missed' = missed \cup {c.of : c \in calls} \cup ({watch.incident} \ {0})
  BY DEF I!Restart
<1>2. troubles' \in 0..MaxTroubles
  BY SilenceTyped DEF I!Restart, I!Trouble
<1>3. w \in WatchState /\ w.incident = 0
  <2>1. watch \in WatchState /\ 0 \in 0..MaxIncidents
    BY SilenceTyped
  <2> QED BY <2>1 DEF WatchState
<1> HIDE DEF w
<1>4. missed' \subseteq I!Incident /\ missed \subseteq missed'
  BY <1>1, SilenceTyped DEF I!Incident
<1>5. \A i : I!Resolve(i) \in calls => i \in missed'
  <2>1. \A i : I!Resolve(i).of = i
    BY DEF I!Resolve
  <2> QED BY <1>1, <2>1
<1>6. I!TypeOK'
  BY <1>1, <1>2, <1>3, <1>4, SilenceTyped DEF I!TypeOK, WatchState, IncidentRow
<1>7. I!ResolvedWithItsSilence'
  <2> SUFFICES ASSUME NEW r \in rows
      PROVE /\ r.resolved => r.of # 0
            /\ r.of \notin missed' => r.resolved
    BY <1>1, <1>3 DEF I!ResolvedWithItsSilence
  <2>1. r.of # 0 /\ (r.of = watch.incident => r.of \in missed')
    BY <1>1, SilenceTyped
  <2>2. r.of # watch.incident /\ r.of \notin missed /\ I!Resolve(r.of) \notin calls => r.resolved
    BY DEF SilenceInv, I!ResolvedWithItsSilence
  <2> QED BY <1>4, <1>5, <2>1, <2>2
<1>8. watch'.incident = 0 /\ 0 <= next'
  BY <1>1, <1>3, SilenceTyped
<1> QED BY <1>1, <1>6, <1>7, <1>8 DEF SilenceInv

\* Every step of the detector.
LEMMA SilenceSteps == ASSUME SilenceInv, I!Next PROVE SilenceInv'
<1>0. watch \in WatchState /\ next \in 0..MaxIncidents /\ troubles \in 0..MaxTroubles
  BY SilenceTyped
<1>1. ASSUME I!Tick PROVE SilenceInv'
  <2>0. UNCHANGED <<rows, missed, troubles>>
    BY <1>1 DEF I!Tick
  <2>1. ASSUME NEW v \in {2, 20}, watch' = [watch EXCEPT !.level = v], UNCHANGED <<next, calls>>
        PROVE  SilenceInv'
    <3>1. [watch EXCEPT !.level = v] \in WatchState
          /\ [watch EXCEPT !.level = v].incident = watch.incident
      BY <1>0 DEF WatchState
    <3>2. watch' \in WatchState /\ watch'.incident = watch.incident
      BY <2>1, <3>1
    <3> QED BY <1>0, <2>0, <2>1, <3>2, SilenceWatches
  <2>2. CASE I!OpenIncident("silence", 20)
    BY <2>0, <2>2, SilenceOpens
  <2> QED BY <1>1, <2>1, <2>2 DEF I!Tick
<1>2. ASSUME I!Freeze PROVE SilenceInv'
  <2>1. watch.level \in {2, 20} /\ I!OpenIncident("pre_restart", watch.level)
        /\ UNCHANGED <<rows, missed, troubles>>
    BY <1>2, SilenceTyped DEF I!Freeze
  <2> QED BY <2>1, SilenceOpens
<1>3. ASSUME I!Switch PROVE SilenceInv'
  <2>1. watch' \in WatchState /\ watch'.incident = watch.incident
    <3>1. CASE watch' = [watch EXCEPT !.open = ~@]
      <4>1. [watch EXCEPT !.open = ~@] \in WatchState
            /\ [watch EXCEPT !.open = ~@].incident = watch.incident
        BY <1>0 DEF WatchState
      <4> QED BY <3>1, <4>1
    <3>2. CASE watch' = [watch EXCEPT !.on = ~@]
      <4>1. [watch EXCEPT !.on = ~@] \in WatchState
            /\ [watch EXCEPT !.on = ~@].incident = watch.incident
        BY <1>0 DEF WatchState
      <4> QED BY <3>2, <4>1
    <3> QED BY <1>3, <3>1, <3>2 DEF I!Switch
  <2>2. UNCHANGED <<next, calls, rows, missed>> /\ troubles' \in 0..MaxTroubles
    BY <1>0, <1>3 DEF I!Switch
  <2> QED BY <2>1, <2>2, SilenceWatches
<1> QED BY <1>1, <1>2, <1>3, SilenceReceives, SilenceRestarts, SilenceInserts, SilenceResolves,
           SilenceLoses DEF I!Next

-----------------------------------------------------------------------------
(* The sessions and their credentials.                                     *)

\* The records of the session and of a saver.
SessionState ==
  [status : {"idle", "starting", "waiting_qr", "connected", "reconnecting", "logged_out", "failed"},
   stopped : BOOLEAN, open : BOOLEAN, credsError : BOOLEAN,
   sock : {"none", "connecting", "open"}, qr : BOOLEAN, timer : BOOLEAN,
   phase : {"live", "leaving", "clearing", "left", "stopping", "gone"}, ahead : Nat]
SaverState == [at : {"idle", "queued", "wait"}, attempt : 0..3, snap : 0..MaxVersion]
Operation == Saver \cup {Clear}

\* The socket of session w, its status and the phase of its end belong together.
SocketInv(w) ==
  /\ w.open <=> w.sock = "open"
  /\ w.timer => w.sock = "none"
  /\ w.stopped <=> w.phase # "live"
  /\ w.phase \notin {"live", "leaving"} => w.sock = "none"
  /\ w.status = "connected" /\ ~w.stopped => w.open

\* An operation is in the line once; who waits there has its attempts counted.
LineInv ==
  /\ \A i, j \in 1..Len(line) : line[i] = line[j] => i = j
  /\ \A i \in 1..Len(line) : line[i] \in Saver => saver[line[i]].at = "queued"
  /\ \A i \in 1..Len(line) : line[i] = Clear => ws.phase = "clearing"
  /\ \A s \in Saver : saver[s].at = "wait" => saver[s].attempt < S!Attempts

\* Unless an attempt went astray, nothing is queued behind clearAuth, and after
\* it there are no credentials to write.
ForgetInv == ~stray =>
  /\ ws.phase = "clearing" => \A i \in 1..Len(line) : line[i] = Clear => i = Len(line)
  /\ ws.phase = "left" =>
       /\ creds = 0 /\ row \in {S!NoRow, 0}
       /\ \A i \in 1..Len(line) : line[i] \in Saver => saver[line[i]].snap = 0

\* Version u may be written before v; the credentials of a cleared session are 0.
Before(u, v) == u <= v \/ v = 0
Older == late \cup {row}
\* The line is in the order of the snapshots, after all that was written or may
\* still land.
OrderInv == ws.phase # "gone" =>
  /\ \A i, j \in 1..Len(line) : i < j /\ line[i] \in Saver /\ line[j] \in Saver
       => Before(saver[line[i]].snap, saver[line[j]].snap)
  /\ \A v \in Older, j \in 1..Len(line) : line[j] \in Saver => Before(v, saver[line[j]].snap)
  /\ IF ws.phase = "left" THEN creds = 0
     ELSE /\ \A v \in Older : v <= creds
          /\ \A i \in 1..Len(line) : line[i] \in Saver => saver[line[i]].snap <= creds

\* The inductive invariant of the session.
SessionInv == S!TypeOK /\ SocketInv(ws) /\ LineInv /\ ForgetInv /\ OrderInv

\* The types of what the session keeps.
LEMMA SessionTyped ==
  ASSUME S!TypeOK
  PROVE  /\ MaxVersion \in Nat \ {0} /\ MaxFailures \in Nat /\ Clear \notin Saver
         /\ ws \in SessionState /\ creds \in 0..MaxVersion /\ row \in 0..MaxVersion \cup {S!NoRow}
         /\ line \in Seq(Operation) /\ Len(line) \in Nat /\ \A i \in 1..Len(line) : line[i] \in Operation
         /\ saver \in [Saver -> SaverState]
         /\ late \subseteq 0..MaxVersion \cup {S!NoRow} /\ stray \in BOOLEAN /\ failures \in 0..MaxFailures
         /\ S!NoRow = -1 /\ row \in Int /\ \A v \in Older : v \in Int
         /\ \A s \in Saver : saver[s].snap \in 0..MaxVersion /\ saver[s].attempt \in 0..3
<1>1. MaxVersion \in Nat \ {0} /\ MaxFailures \in Nat /\ Clear \notin Saver
  BY ServicesAssumption DEF S!SessionAssumption
<1>2. line \in Seq(Operation)
  BY DEF S!TypeOK, Operation
<1>3. Len(line) \in Nat /\ \A i \in 1..Len(line) : line[i] \in Operation
  BY <1>2, LenProperties, ElementOfSeq
<1>4. saver \in [Saver -> SaverState]
  BY DEF S!TypeOK, SaverState, S!Attempts, S!Version
<1>5. ws \in SessionState
  BY DEF S!TypeOK, SessionState
<1>6. creds \in 0..MaxVersion /\ row \in 0..MaxVersion \cup {S!NoRow}
      /\ late \subseteq 0..MaxVersion \cup {S!NoRow} /\ stray \in BOOLEAN /\ failures \in 0..MaxFailures
  BY DEF S!TypeOK, S!Version
<1>7. S!NoRow = -1 /\ row \in Int /\ \A v \in Older : v \in Int
  BY <1>1, <1>6 DEF S!NoRow, Older
<1>8. \A s \in Saver : saver[s].snap \in 0..MaxVersion /\ saver[s].attempt \in 0..3
  BY <1>4 DEF SaverState
<1> QED BY <1>1, <1>2, <1>3, <1>4, <1>5, <1>6, <1>7, <1>8

\* A session that starts.
LEMMA SessionBegins == ASSUME S!Init, creds \in {0, 1} PROVE SessionInv
<1>1. MaxVersion \in Nat \ {0} /\ MaxFailures \in Nat /\ Clear \notin Saver
  BY ServicesAssumption DEF S!SessionAssumption
<1>2. ws \in SessionState /\ SocketInv(ws) /\ ws.phase = "live"
  BY DEF S!Init, SessionState, SocketInv
<1>3. saver \in [Saver -> SaverState]
  BY <1>1 DEF S!Init, S!Resting, SaverState
<1>4. line = <<>> /\ Len(line) = 0 /\ late = {}
  BY DEF S!Init
<1>5. creds \in 0..MaxVersion /\ row \in 0..MaxVersion \cup {S!NoRow} /\ row <= creds
  BY <1>1 DEF S!Init, S!NoRow
<1>6. stray \in BOOLEAN /\ failures \in 0..MaxFailures
  <2>1. stray = FALSE /\ failures = 0
    BY Zenon DEF S!Init
  <2>2. stray \in BOOLEAN
    BY <2>1, Zenon
  <2>3. failures \in 0..MaxFailures
    BY <1>1, <2>1
  <2> QED BY <2>2, <2>3
<1>7. S!TypeOK
  <2>1. line \in Seq(Saver \cup {Clear}) /\ late \subseteq S!Version \cup {S!NoRow}
    BY <1>4
  <2>2. saver \in [Saver -> [at : {"idle", "queued", "wait"}, attempt : 0..S!Attempts, snap : S!Version]]
    BY <1>3 DEF S!Version, S!Attempts, SaverState
  <2>3. creds \in S!Version /\ row \in S!Version \cup {S!NoRow}
    BY <1>5 DEF S!Version
  <2> QED BY <1>2, <1>6, <2>1, <2>2, <2>3, Zenon DEF S!TypeOK, SessionState
<1>8. \A s \in Saver : saver[s].at = "idle"
  BY DEF S!Init, S!Resting
<1> QED BY <1>2, <1>4, <1>5, <1>7, <1>8 DEF SessionInv, LineInv, ForgetInv, OrderInv, Older

\* Steps of the other services.
LEMMA SessionStays == ASSUME SessionInv, UNCHANGED svars PROVE SessionInv'
<1>1. /\ ws' = ws /\ creds' = creds /\ row' = row /\ line' = line /\ saver' = saver
      /\ late' = late /\ stray' = stray /\ failures' = failures
  BY DEF svars
<1> QED BY <1>1 DEF SessionInv, LineInv, ForgetInv, OrderInv, Older, SocketInv, S!TypeOK

\* A step of the session that leaves credentials, line and savers alone.
LEMMA SessionMoves ==
  ASSUME SessionInv, ws' \in SessionState, SocketInv(ws)',
         \/ ws'.phase = ws.phase
         \/ ws.phase \notin {"clearing", "left", "gone"} /\ ws'.phase \notin {"clearing", "left"},
         UNCHANGED <<creds, row, line, saver, late, stray, failures>>
  PROVE  SessionInv'
<1>1. S!TypeOK'
  BY DEF SessionInv, S!TypeOK, SessionState
<1>2. /\ creds' = creds /\ row' = row /\ line' = line /\ saver' = saver
      /\ late' = late /\ stray' = stray
  OBVIOUS
<1>3. LineInv'
  BY <1>2 DEF SessionInv, LineInv
<1>4. ForgetInv'
  BY <1>2 DEF SessionInv, ForgetInv
<1>5. OrderInv'
  BY <1>2 DEF SessionInv, OrderInv, Older
<1> QED BY <1>1, <1>3, <1>4, <1>5 DEF SessionInv

\* The socket, logout and stop.
LEMMA SocketSteps ==
  ASSUME SessionInv,
         S!Qr \/ S!QrDrawn \/ S!Open \/ S!Close \/ S!Reconnect \/ S!Logout \/ S!Stop \/ S!Stopped
  PROVE  SessionInv'
<1> USE DEF SocketInv
<1>0. S!TypeOK /\ SocketInv(ws) /\ ws \in SessionState /\ Len(line) \in Nat
  BY SessionTyped DEF SessionInv
<1>1. UNCHANGED <<creds, row, line, saver, late, stray, failures>>
  BY DEF S!Qr, S!QrDrawn, S!Open, S!Close, S!Reconnect, S!Logout, S!Stop, S!Stopped, S!Disk
<1>a. ASSUME NEW w \in SessionState, ws' = w, SocketInv(w),
             \/ w.phase = ws.phase
             \/ ws.phase \notin {"clearing", "left", "gone"} /\ w.phase \notin {"clearing", "left"}
      PROVE  SessionInv'
  BY <1>1, <1>a, SessionMoves
<1>2. CASE S!Qr
  <2> DEFINE w == [ws EXCEPT !.qr = TRUE]
  <2>1. w \in SessionState /\ SocketInv(w) /\ w.phase = ws.phase
    BY <1>0 DEF SessionState
  <2>2. ws' = w
    BY <1>2 DEF S!Qr
  <2> QED BY <1>a, <2>1, <2>2
<1>3. CASE S!QrDrawn
  <2> DEFINE w == [ws EXCEPT !.qr = FALSE, !.status = "waiting_qr"]
  <2>1. w \in SessionState /\ SocketInv(w) /\ w.phase = ws.phase
    BY <1>0 DEF SessionState
  <2>2. ws' = w
    BY <1>3 DEF S!QrDrawn
  <2> QED BY <1>a, <2>1, <2>2
<1>4. CASE S!Open
  <2> DEFINE w == [ws EXCEPT !.sock = "open", !.open = TRUE, !.status = "connected", !.credsError = FALSE]
  <2>1. ws.sock = "connecting" /\ ws' = w
    BY <1>4 DEF S!Open
  <2>2. w \in SessionState /\ SocketInv(w) /\ w.phase = ws.phase
    BY <1>0, <2>1 DEF SessionState
  <2> QED BY <1>a, <2>1, <2>2
<1>5. CASE S!Close
  <2>1. CASE ws.stopped
    <3> DEFINE w == [ws EXCEPT !.sock = "none", !.open = FALSE]
    <3>1. w \in SessionState /\ SocketInv(w) /\ w.phase = ws.phase
      BY <1>0, <2>1 DEF SessionState
    <3>2. ws' = w
      BY <1>5, <2>1 DEF S!Close
    <3> QED BY <1>a, <3>1, <3>2
  <2>2. CASE ~ws.stopped
    <3>1. PICK s \in {"logged_out", "reconnecting"} :
            ws' = [ws EXCEPT !.sock = "none", !.open = FALSE, !.status = s,
                             !.credsError = FALSE, !.timer = @ \/ s = "reconnecting"]
      BY <1>5, <2>2 DEF S!Close
    <3> DEFINE t == ws.timer \/ s = "reconnecting"
               w == [ws EXCEPT !.sock = "none", !.open = FALSE, !.status = s,
                               !.credsError = FALSE, !.timer = t]
    <3>2. t \in BOOLEAN
      OBVIOUS
    <3>3. ws' = w
      BY <3>1, Zenon
    <3> HIDE DEF t
    <3>4. w \in SessionState /\ SocketInv(w) /\ w.phase = ws.phase
      BY <1>0, <3>2 DEF SessionState
    <3> QED BY <1>a, <3>3, <3>4
  <2> QED BY <2>1, <2>2
<1>6. CASE S!Reconnect
  <2>1. CASE ws.stopped
    <3> DEFINE w == [ws EXCEPT !.timer = FALSE]
    <3>1. w \in SessionState /\ SocketInv(w) /\ w.phase = ws.phase
      BY <1>0 DEF SessionState
    <3>2. ws' = w
      BY <1>6, <2>1 DEF S!Reconnect
    <3> QED BY <1>a, <3>1, <3>2
  <2>2. CASE ~ws.stopped
    <3> DEFINE w == [ws EXCEPT !.timer = FALSE, !.status = "starting", !.sock = "connecting",
                               !.credsError = FALSE]
    <3>1. ws' = w /\ ws.timer
      BY <1>6, <2>2 DEF S!Reconnect
    <3>2. w \in SessionState /\ SocketInv(w) /\ w.phase = ws.phase
      BY <1>0, <2>2, <3>1 DEF SessionState
    <3> QED BY <1>a, <3>1, <3>2
  <2> QED BY <2>1, <2>2
<1>7. CASE S!Logout
  <2> DEFINE w == [ws EXCEPT !.stopped = TRUE, !.phase = "leaving"]
  <2>1. ws' = w /\ ~ws.stopped
    BY <1>7 DEF S!Logout
  <2>2. w \in SessionState /\ SocketInv(w) /\ w.phase = "leaving" /\ ws.phase = "live"
    BY <1>0, <2>1 DEF SessionState
  <2> QED BY <1>a, <2>1, <2>2
<1>8. CASE S!Stop
  <2> DEFINE x == [ws EXCEPT !.stopped = TRUE, !.sock = "none", !.open = FALSE]
             n == Len(line)
             w == [x EXCEPT !.phase = "stopping", !.ahead = n]
  <2>1. ws' = w /\ ~ws.stopped
    BY <1>8 DEF S!Stop, S!Ended
  <2>2. x \in SessionState /\ x.open = FALSE /\ x.sock = "none" /\ x.stopped /\ ws.phase = "live"
    BY <1>0, <2>1 DEF SessionState
  <2>3. n \in Nat
    BY <1>0
  <2> HIDE DEF x, n
  <2>4. w \in SessionState /\ SocketInv(w) /\ w.phase = "stopping"
    BY <2>2, <2>3 DEF SessionState
  <2> QED BY <1>a, <2>1, <2>2, <2>4
<1>9. CASE S!Stopped
  <2> DEFINE w == [ws EXCEPT !.phase = "gone", !.status = "idle"]
  <2>1. ws' = w /\ ws.phase = "stopping"
    BY <1>9 DEF S!Stopped
  <2>2. w \in SessionState /\ SocketInv(w) /\ w.phase = "gone"
    BY <1>0, <2>1 DEF SessionState
  <2> QED BY <1>a, <2>1, <2>2
<1> QED BY <1>2, <1>3, <1>4, <1>5, <1>6, <1>7, <1>8, <1>9

\* An operation joins the line: attempt n of saver s, with snapshot v.
LEMMA Queues ==
  ASSUME S!TypeOK, NEW s \in Saver, NEW n \in 1..3, NEW v \in 0..MaxVersion, S!Queue(s, n, v)
  PROVE  /\ saver' \in [Saver -> SaverState] /\ saver'[s].at = "queued" /\ saver'[s].snap = v
         /\ \A u \in Saver \ {s} : saver'[u] = saver[u]
         /\ line' \in Seq(Operation) /\ Len(line') = Len(line) + 1 /\ line'[Len(line) + 1] = s
         /\ \A i \in 1..Len(line) : line'[i] = line[i]
<1> DEFINE x == [at |-> "queued", attempt |-> n, snap |-> v]
<1>1. x \in SaverState /\ x.at = "queued" /\ x.snap = v
  BY DEF SaverState
<1>2. saver' = [saver EXCEPT ![s] = x] /\ saver \in [Saver -> SaverState]
  BY SessionTyped DEF S!Queue
<1> HIDE DEF x
<1>3. line' = Append(line, s) /\ line \in Seq(Operation) /\ s \in Operation
  BY SessionTyped DEF S!Queue, Operation
<1>4. line' \in Seq(Operation) /\ Len(line') = Len(line) + 1 /\ line'[Len(line) + 1] = s
      /\ \A i \in 1..Len(line) : line'[i] = line[i]
  BY <1>3, AppendProperties
<1> QED BY <1>1, <1>2, <1>4, Put

\* The operation whose turn it is leaves: the others move up by one.
LEMMA TurnPasses ==
  ASSUME SessionInv, NEW o \in Operation, S!Turn(o), S!Release(o)
  PROVE  /\ 1 \in 1..Len(line) /\ line[1] = o
         /\ line' \in Seq(Operation) /\ Len(line') = Len(line) - 1
         /\ \A j \in 1..Len(line') :
              line'[j] = line[j + 1] /\ j + 1 \in 1..Len(line) /\ 1 < j + 1 /\ line'[j] # o
<1>1. line \in Seq(Operation) /\ Len(line) \in Nat
  BY SessionTyped DEF SessionInv
<1>2. line # <<>> /\ Head(line) = o
  BY DEF S!Turn
<1>3. Head(line) = line[1] /\ Len(line) >= 1
  BY <1>1, <1>2, HeadTailProperties, EmptySeq
<1>4. PICK i \in 1..Len(line) : line[i] = o /\ line' = SubSeq(line, 1, i - 1) \o SubSeq(line, i + 1, Len(line))
  BY DEF S!Release
<1>5. i = 1
  BY <1>1, <1>2, <1>3, <1>4 DEF SessionInv, LineInv
<1>6. /\ line' \in Seq(Operation) /\ Len(line') = Len(line) - 1
      /\ \A j \in 1..Len(line') : line'[j] = IF j < i THEN line[j] ELSE line[j + 1]
  <2>1. line' = SubSeq(line, 1, i - 1) \o SubSeq(line, i + 1, Len(line))
    BY <1>4
  <2> QED BY <1>1, <2>1, Removed, ZenonT(60)
<1>7. ASSUME NEW j \in 1..Len(line')
      PROVE  line'[j] = line[j + 1] /\ j + 1 \in 1..Len(line) /\ 1 < j + 1 /\ line'[j] # o
  <2>1. j \in Nat /\ j >= 1 /\ j <= Len(line) - 1
    BY <1>1, <1>6
  <2>2. line'[j] = IF j < i THEN line[j] ELSE line[j + 1]
    BY <1>6
  <2>3. line'[j] = line[j + 1] /\ j + 1 \in 1..Len(line) /\ 1 < j + 1
    BY <1>1, <1>5, <2>1, <2>2
  <2>4. line[j + 1] # line[1]
    <3>1. 1 \in 1..Len(line) /\ j + 1 # 1
      BY <1>1, <1>3, <2>1
    <3> QED BY <2>3, <3>1 DEF SessionInv, LineInv
  <2> QED BY <1>2, <1>3, <2>3, <2>4
<1> QED BY <1>1, <1>2, <1>3, <1>6, <1>7

\* What then remains of the line, if only the saver that left it changes.
LEMMA LineRemains ==
  ASSUME SessionInv, NEW o \in Operation, S!Turn(o), S!Release(o),
         \A u \in Saver \ {o} : saver'[u] = saver[u], o # Clear => ws'.phase = ws.phase,
         o \in Saver /\ saver'[o].at = "wait" => saver'[o].attempt < S!Attempts
  PROVE  /\ LineInv'
         /\ \A j \in 1..Len(line') : line'[j] \in Saver => saver'[line'[j]] = saver[line[j + 1]]
<1>1. /\ Len(line) \in Nat /\ Len(line') = Len(line) - 1 /\ line[1] = o /\ 1 \in 1..Len(line)
      /\ \A j \in 1..Len(line') :
              line'[j] = line[j + 1] /\ j + 1 \in 1..Len(line) /\ 1 < j + 1 /\ line'[j] # o
  BY TurnPasses, SessionTyped DEF SessionInv
<1>2. \A j \in 1..Len(line') : line'[j] \in Saver => saver'[line'[j]] = saver[line[j + 1]]
  BY <1>1
<1>3. ASSUME NEW i \in 1..Len(line'), NEW j \in 1..Len(line'), line'[i] = line'[j] PROVE i = j
  <2>1. i + 1 \in 1..Len(line) /\ j + 1 \in 1..Len(line) /\ line[i + 1] = line[j + 1]
    BY <1>1, <1>3
  <2>2. i + 1 = j + 1
    BY <2>1 DEF SessionInv, LineInv
  <2> QED BY <2>2
<1>4. ASSUME NEW i \in 1..Len(line'), line'[i] \in Saver PROVE saver'[line'[i]].at = "queued"
  BY <1>1, <1>2, <1>4 DEF SessionInv, LineInv
<1>5. ASSUME NEW i \in 1..Len(line'), line'[i] = Clear PROVE ws'.phase = "clearing"
  BY <1>1, <1>5 DEF SessionInv, LineInv
<1>6. \A u \in Saver : saver'[u].at = "wait" => saver'[u].attempt < S!Attempts
  BY DEF SessionInv, LineInv
<1> QED BY <1>2, <1>3, <1>4, <1>5, <1>6 DEF LineInv

\* The waiting savers stay in the order of their snapshots, whatever the one
\* that left has written or left on its way.
LEMMA OrderRemains ==
  ASSUME SessionInv, NEW o \in Operation, S!Turn(o), S!Release(o), ws'.phase = ws.phase, creds' = creds,
         \A u \in Saver \ {o} : saver'[u] = saver[u], NEW x \in Int, o \in Saver => x = saver[o].snap, o = Clear => x = S!NoRow,
         Older' \subseteq Older \cup {x}
  PROVE  OrderInv'
<1>0. S!TypeOK
  BY DEF SessionInv
<1>1. SUFFICES ASSUME ws.phase # "gone"
               PROVE  OrderInv'
  BY DEF OrderInv
<1>2. /\ Len(line) \in Nat /\ Len(line') = Len(line) - 1 /\ line[1] = o /\ 1 \in 1..Len(line)
      /\ \A j \in 1..Len(line') :
              line'[j] = line[j + 1] /\ j + 1 \in 1..Len(line) /\ 1 < j + 1 /\ line'[j] # o
  BY <1>0, TurnPasses, SessionTyped DEF SessionInv
<1>3. \A j \in 1..Len(line') : line'[j] \in Saver => saver'[line'[j]] = saver[line[j + 1]]
  BY <1>2
<1>4. creds \in Nat /\ S!NoRow = -1 /\ o \in Saver \cup {Clear}
      /\ \A u \in Saver : saver[u].snap \in Nat
  BY <1>0, SessionTyped DEF Operation
<1>5. ASSUME NEW i \in 1..Len(line'), NEW j \in 1..Len(line'), i < j, line'[i] \in Saver, line'[j] \in Saver
      PROVE  Before(saver'[line'[i]].snap, saver'[line'[j]].snap)
  <2>1. i + 1 < j + 1
    BY <1>2, <1>5
  <2> QED BY <1>1, <1>2, <1>3, <1>5, <2>1 DEF SessionInv, OrderInv
<1>6. ASSUME NEW v \in Older', NEW j \in 1..Len(line'), line'[j] \in Saver
      PROVE  Before(v, saver'[line'[j]].snap)
  <2>1. line[j + 1] \in Saver /\ saver'[line'[j]] = saver[line[j + 1]] /\ j + 1 \in 1..Len(line) /\ 1 < j + 1
    BY <1>2, <1>3, <1>6
  <2>2. CASE v \in Older
    BY <1>1, <2>1, <2>2 DEF SessionInv, OrderInv
  <2>3. CASE v = x /\ o \in Saver
    BY <1>1, <1>2, <2>1, <2>3 DEF SessionInv, OrderInv
  <2>4. CASE v = x /\ o = Clear
    BY <1>4, <2>1, <2>4 DEF Before
  <2> QED BY <1>4, <2>2, <2>3, <2>4
<1>7. CASE ws.phase = "left"
  <2>1. creds' = 0
    BY <1>7 DEF SessionInv, OrderInv
  <2> QED BY <1>5, <1>6, <1>7, <2>1 DEF OrderInv
<1>8. CASE ws.phase # "left"
  <2>1. \A v \in Older : v <= creds
    BY <1>1, <1>8 DEF SessionInv, OrderInv
  <2>2. \A i \in 1..Len(line) : line[i] \in Saver => saver[line[i]].snap <= creds
    BY <1>1, <1>8 DEF SessionInv, OrderInv
  <2>3. x <= creds
    BY <1>2, <1>4, <2>2
  <2>4. \A v \in Older' : v <= creds'
    BY <2>1, <2>3
  <2>5. \A i \in 1..Len(line') : line'[i] \in Saver => saver'[line'[i]].snap <= creds'
    BY <1>2, <1>3, <2>2
  <2> QED BY <1>5, <1>6, <1>8, <2>4, <2>5 DEF OrderInv
<1> QED BY <1>7, <1>8


\* An attempt joins the line with the credentials of now, or the next ones.
LEMMA AttemptQueues ==
  ASSUME SessionInv, NEW s \in Saver, saver[s].at # "queued", NEW n \in 1..3, S!Queue(s, n, creds'),
         creds' \in 0..MaxVersion, creds' = creds \/ (creds' = creds + 1 /\ ws.phase # "left"),
         UNCHANGED <<ws, row, late, failures>>, stray' \in BOOLEAN
  PROVE  S!TypeOK' /\ LineInv' /\ OrderInv'
         /\ \A i \in 1..Len(line') : (i \in 1..Len(line) /\ line'[i] = line[i]) \/ (line'[i] = s /\ saver'[s].snap = creds')
<1>0. S!TypeOK /\ Len(line) \in Nat /\ creds \in Nat /\ MaxVersion \in Nat /\ Clear \notin Saver
      /\ creds' \in Nat /\ creds <= creds'
      /\ (\A u \in Saver : saver[u].snap \in Nat) /\ \A v \in Older : v \in Int
  <2>1. S!TypeOK /\ Len(line) \in Nat /\ creds \in 0..MaxVersion /\ MaxVersion \in Nat /\ Clear \notin Saver
        /\ (\A u \in Saver : saver[u].snap \in 0..MaxVersion) /\ \A v \in Older : v \in Int
    BY SessionTyped DEF SessionInv
  <2> QED BY <2>1
<1>1. ws' = ws /\ row' = row /\ late' = late /\ failures' = failures
  OBVIOUS
<1>2. /\ saver' \in [Saver -> SaverState] /\ saver'[s].at = "queued" /\ saver'[s].snap = creds'
      /\ \A u \in Saver \ {s} : saver'[u] = saver[u]
      /\ line' \in Seq(Operation) /\ Len(line') = Len(line) + 1 /\ line'[Len(line) + 1] = s
      /\ \A i \in 1..Len(line) : line'[i] = line[i]
  BY <1>0, Queues
<1>3. \A i \in 1..Len(line) : line[i] # s
  BY DEF SessionInv, LineInv
<1>4. S!TypeOK'
  BY <1>0, <1>1, <1>2 DEF S!TypeOK, S!Version, S!Attempts, SaverState, Operation
<1>5. ASSUME NEW i \in 1..Len(line')
      PROVE  (i \in 1..Len(line) /\ line'[i] = line[i]) \/ (i = Len(line) + 1 /\ line'[i] = s)
  <2>1. i \in 1..Len(line) \/ i = Len(line) + 1
    BY <1>0, <1>2
  <2> QED BY <1>2, <2>1
<1>6. ASSUME NEW i \in 1..Len(line), line'[i] \in Saver
      PROVE  saver'[line'[i]] = saver[line[i]] /\ line[i] \in Saver
  BY <1>2, <1>3, <1>6
<1>7. LineInv'
  <2>1. ASSUME NEW i \in 1..Len(line'), NEW j \in 1..Len(line'), line'[i] = line'[j] PROVE i = j
    BY <1>3, <1>5, <2>1 DEF SessionInv, LineInv
  <2>2. ASSUME NEW i \in 1..Len(line'), line'[i] \in Saver PROVE saver'[line'[i]].at = "queued"
    BY <1>2, <1>5, <1>6, <2>2 DEF SessionInv, LineInv
  <2>3. ASSUME NEW i \in 1..Len(line'), line'[i] = Clear PROVE ws'.phase = "clearing"
    BY <1>0, <1>1, <1>5, <2>3 DEF SessionInv, LineInv
  <2>4. ASSUME NEW u \in Saver, saver'[u].at = "wait" PROVE saver'[u].attempt < S!Attempts
    BY <1>2, <2>4 DEF SessionInv, LineInv
  <2> QED BY <2>1, <2>2, <2>3, <2>4 DEF LineInv
<1>8. ASSUME ws.phase # "gone" PROVE OrderInv'
  <2>1. /\ \A i, j \in 1..Len(line) : i < j /\ line[i] \in Saver /\ line[j] \in Saver
             => Before(saver[line[i]].snap, saver[line[j]].snap)
        /\ \A v \in Older, j \in 1..Len(line) : line[j] \in Saver => Before(v, saver[line[j]].snap)
    BY <1>8 DEF SessionInv, OrderInv
  <2>2. Older' = Older
    BY <1>1 DEF Older
  <2>3. ws.phase = "left" => creds' = 0
    BY <1>8 DEF SessionInv, OrderInv
  <2>4. ASSUME ws.phase # "left", NEW v \in Older' PROVE v <= creds'
    <3>1. v \in Int /\ v <= creds
      BY <1>0, <1>8, <2>2, <2>4 DEF SessionInv, OrderInv
    <3> QED BY <1>0, <3>1
  <2>5. ASSUME ws.phase # "left", NEW i \in 1..Len(line'), line'[i] \in Saver
        PROVE  saver'[line'[i]].snap <= creds'
    <3>1. CASE i \in 1..Len(line) /\ line'[i] = line[i]
      <4>1. saver'[line'[i]] = saver[line[i]] /\ line[i] \in Saver
        BY <1>6, <2>5, <3>1
      <4>2. saver[line[i]].snap <= creds /\ saver[line[i]].snap \in Nat
        BY <1>0, <1>8, <2>5, <3>1, <4>1 DEF SessionInv, OrderInv
      <4> QED BY <1>0, <4>1, <4>2
    <3>2. CASE line'[i] = s
      BY <1>0, <1>2, <3>2
    <3> QED BY <1>5, <3>1, <3>2
  <2>6. ASSUME NEW v \in Older', NEW j \in 1..Len(line'), line'[j] \in Saver
        PROVE  Before(v, saver'[line'[j]].snap)
    <3>1. CASE j \in 1..Len(line)
      BY <1>6, <2>1, <2>2, <2>6, <3>1
    <3>2. CASE line'[j] = s
      BY <1>2, <2>3, <2>4, <3>2 DEF Before
    <3> QED BY <1>5, <3>1, <3>2
  <2>7. ASSUME NEW i \in 1..Len(line'), NEW j \in 1..Len(line'), i < j, line'[i] \in Saver, line'[j] \in Saver
        PROVE  Before(saver'[line'[i]].snap, saver'[line'[j]].snap)
    <3>1. i \in 1..Len(line)
      BY <1>0, <1>2, <2>7
    <3>2. CASE j \in 1..Len(line)
      BY <1>6, <2>1, <2>7, <3>1, <3>2
    <3>3. CASE line'[j] = s
      BY <1>2, <2>3, <2>5, <2>7, <3>3 DEF Before
    <3> QED BY <1>5, <3>2, <3>3
  <2> QED BY <1>1, <2>3, <2>4, <2>5, <2>6, <2>7 DEF OrderInv
<1> QED BY <1>1, <1>2, <1>4, <1>5, <1>7, <1>8 DEF OrderInv

\* The socket changed the credentials.
LEMMA CredsUpdates == ASSUME SessionInv, NEW s \in Saver, S!CredsUpdate(s) PROVE SessionInv'
<1>1. /\ ws' = ws /\ row' = row /\ late' = late /\ stray' = stray /\ failures' = failures
      /\ creds' = creds + 1 /\ saver[s].at = "idle" /\ ws.sock # "none" /\ creds < MaxVersion
      /\ S!Queue(s, 1, creds + 1)
  BY DEF S!CredsUpdate
<1>2. ws.phase \in {"live", "leaving"}
  BY <1>1, SessionTyped DEF SessionInv, SocketInv, SessionState
<1>3. creds' \in 0..MaxVersion /\ 1 \in 1..3 /\ stray' \in BOOLEAN
  BY <1>1, SessionTyped DEF SessionInv
<1>4. S!TypeOK' /\ LineInv' /\ OrderInv'
  <2>1. S!Queue(s, 1, creds')
    BY <1>1
  <2> QED BY <1>1, <1>2, <1>3, <2>1, AttemptQueues
<1>5. ForgetInv' /\ SocketInv(ws)'
  BY <1>1, <1>2 DEF SessionInv, ForgetInv, SocketInv
<1> QED BY <1>4, <1>5 DEF SessionInv

\* The next attempt of a saver.
LEMMA Retries == ASSUME SessionInv, NEW s \in Saver, S!Retry(s) PROVE SessionInv'
<1>1. /\ ws' = ws /\ row' = row /\ late' = late /\ failures' = failures /\ creds' = creds
      /\ saver[s].at = "wait" /\ S!Queue(s, saver[s].attempt + 1, creds)
      /\ stray' = (stray \/ ws.phase = "clearing")
  BY DEF S!Retry
<1>2. saver[s].attempt + 1 \in 1..3
  BY <1>1, SessionTyped DEF SessionInv, LineInv, S!Attempts
<1>3. creds' \in 0..MaxVersion
  BY <1>1, SessionTyped DEF SessionInv
<1>4. stray' \in BOOLEAN
  BY <1>1, Zenon
<1>5. S!TypeOK' /\ LineInv' /\ OrderInv'
      /\ \A i \in 1..Len(line') : (i \in 1..Len(line) /\ line'[i] = line[i]) \/ (line'[i] = s /\ saver'[s].snap = creds')
  <2> DEFINE n == saver[s].attempt + 1
  <2>1. S!Queue(s, n, creds') /\ n \in 1..3
    BY <1>1, <1>2
  <2> HIDE DEF n
  <2>2. saver[s].at # "queued"
    BY <1>1
  <2> QED BY <1>1, <1>3, <1>4, <2>1, <2>2, AttemptQueues
<1>6. ForgetInv'
  <2> SUFFICES ASSUME ~stray', ws.phase = "left"
               PROVE  /\ creds = 0 /\ row \in {S!NoRow, 0}
                      /\ \A i \in 1..Len(line') : line'[i] \in Saver => saver'[line'[i]].snap = 0
    BY <1>1 DEF ForgetInv
  <2>1. /\ creds = 0 /\ row \in {S!NoRow, 0}
        /\ \A i \in 1..Len(line) : line[i] \in Saver => saver[line[i]].snap = 0
    BY <1>1 DEF SessionInv, ForgetInv
  <2>2. saver'[s].snap = creds /\ \A u \in Saver \ {s} : saver'[u] = saver[u]
    BY <1>1, <1>2, <1>3, Queues DEF SessionInv
  <2> QED BY <1>1, <1>5, <2>1, <2>2
<1>7. SocketInv(ws)'
  BY <1>1 DEF SessionInv, SocketInv
<1> QED BY <1>5, <1>6, <1>7 DEF SessionInv

\* An operation has passed: the wait of stop() is shorter by one.
LEMMA Passes ==
  ASSUME SessionInv
  PROVE  S!Passed \in SessionState /\ SocketInv(S!Passed) /\ S!Passed.phase = ws.phase
         /\ S!Passed.open = ws.open /\ S!Passed.stopped = ws.stopped /\ S!Passed.sock = ws.sock
<1> DEFINE n == IF ws.ahead > 0 THEN ws.ahead - 1 ELSE 0
           w == [ws EXCEPT !.ahead = n]
<1>1. ws \in SessionState /\ SocketInv(ws)
  BY SessionTyped DEF SessionInv
<1>2. n \in Nat
  BY <1>1 DEF SessionState
<1>3. S!Passed = w
  BY Zenon DEF S!Passed
<1> HIDE DEF n
<1>4. w \in SessionState /\ SocketInv(w) /\ w.phase = ws.phase /\ w.open = ws.open
      /\ w.stopped = ws.stopped /\ w.sock = ws.sock
  BY <1>1, <1>2 DEF SessionState, SocketInv
<1> QED BY <1>3, <1>4

\* A save that succeeds.
LEMMA Saves == ASSUME SessionInv, NEW s \in Saver, S!Saved(s) PROVE SessionInv'
<1>0. S!TypeOK /\ s \in Operation /\ saver \in [Saver -> SaverState] /\ saver[s].snap \in 0..MaxVersion
      /\ saver[s].snap \in Int /\ s # Clear
  <2>1. S!TypeOK /\ s \in Operation /\ saver \in [Saver -> SaverState] /\ saver[s].snap \in 0..MaxVersion
        /\ s # Clear
    BY SessionTyped DEF SessionInv, Operation
  <2> QED BY <2>1
<1>1. /\ S!Turn(s) /\ S!Release(s) /\ row' = saver[s].snap
      /\ saver' = [saver EXCEPT ![s] = S!Resting]
      /\ creds' = creds /\ late' = late /\ stray' = stray /\ failures' = failures
  BY DEF S!Saved
<1>2. saver' \in [Saver -> SaverState] /\ saver'[s].at = "idle" /\ \A u \in Saver \ {s} : saver'[u] = saver[u]
  <2>1. S!Resting \in SaverState /\ S!Resting.at = "idle"
    BY SessionTyped DEF SessionInv, S!Resting, SaverState
  <2> QED BY <1>0, <1>1, <2>1, Put
<1>3. ws' \in SessionState /\ SocketInv(ws') /\ ws'.phase = ws.phase
  <2>1. CASE ~S!Revived
    BY <1>1, <2>1, Passes DEF S!Saved
  <2>2. CASE S!Revived
    <3> DEFINE x == S!Passed
               w == [x EXCEPT !.status = "connected", !.credsError = FALSE]
    <3>1. ws' = w
      BY <2>2 DEF S!Saved
    <3>2. x \in SessionState /\ SocketInv(x) /\ x.phase = ws.phase /\ x.open /\ ~x.stopped
      BY <2>2, Passes DEF S!Revived
    <3> HIDE DEF x
    <3>3. w \in SessionState /\ SocketInv(w) /\ w.phase = ws.phase
      BY <3>2 DEF SessionState, SocketInv
    <3> QED BY <3>1, <3>3
  <2> QED BY <2>1, <2>2
<1>4. line' \in Seq(Operation) /\ line[1] = s /\ 1 \in 1..Len(line)
  BY <1>0, <1>1, TurnPasses
<1>5. S!TypeOK'
  <2>1. row' \in S!Version \cup {S!NoRow}
    BY <1>0, <1>1 DEF S!Version
  <2> QED BY <1>0, <1>1, <1>2, <1>3, <1>4, <2>1 DEF S!TypeOK, S!Attempts, S!Version, SaverState, SessionState, Operation
<1>6. LineInv' /\ \A j \in 1..Len(line') : line'[j] \in Saver => saver'[line'[j]] = saver[line[j + 1]]
  BY <1>0, <1>1, <1>2, <1>3, LineRemains
<1>7. OrderInv'
  <2>1. Older' \subseteq Older \cup {saver[s].snap}
    BY <1>1 DEF Older
  <2> QED BY <1>0, <1>1, <1>2, <1>3, <2>1, OrderRemains
<1>8. ForgetInv'
  <2>1. \A j \in 1..Len(line') : line'[j] = line[j + 1] /\ j + 1 \in 1..Len(line)
        /\ Len(line') = Len(line) - 1 /\ Len(line) \in Nat
    BY <1>0, <1>1, TurnPasses, SessionTyped
  <2>2. ASSUME ~stray, ws.phase = "clearing", NEW j \in 1..Len(line'), line'[j] = Clear PROVE j = Len(line')
    <3>1. j + 1 = Len(line)
      BY <2>1, <2>2 DEF SessionInv, ForgetInv
    <3> QED BY <2>1, <3>1
  <2>3. ASSUME ~stray, ws.phase = "left"
        PROVE  /\ creds' = 0 /\ row' = 0
               /\ \A j \in 1..Len(line') : line'[j] \in Saver => saver'[line'[j]].snap = 0
    <3>1. creds = 0 /\ \A i \in 1..Len(line) : line[i] \in Saver => saver[line[i]].snap = 0
      BY <2>3 DEF SessionInv, ForgetInv
    <3>2. saver[s].snap = 0
      BY <1>4, <3>1
    <3> QED BY <1>1, <1>6, <2>1, <3>1, <3>2
  <2> QED BY <1>1, <1>3, <2>2, <2>3 DEF ForgetInv
<1> QED BY <1>3, <1>5, <1>6, <1>7, <1>8 DEF SessionInv

\* A save that fails, or is given up.
LEMMA SaveErrs == ASSUME SessionInv, NEW s \in Saver, S!SaveFails(s) PROVE SessionInv'
<1>0. S!TypeOK /\ s \in Operation /\ saver \in [Saver -> SaverState] /\ saver[s].snap \in 0..MaxVersion
      /\ saver[s].snap \in Int /\ s # Clear
  <2>1. S!TypeOK /\ s \in Operation /\ saver \in [Saver -> SaverState] /\ saver[s].snap \in 0..MaxVersion
        /\ s # Clear
    BY SessionTyped DEF SessionInv, Operation
  <2> QED BY <2>1
<1>1. /\ S!Turn(s) /\ S!Release(s) /\ late' \in {late, late \cup {saver[s].snap}}
      /\ creds' = creds /\ row' = row /\ stray' = stray /\ failures' \in 0..MaxFailures
  BY SessionTyped DEF S!SaveFails, S!Fail, SessionInv
<1>2. /\ saver' \in [Saver -> SaverState] /\ \A u \in Saver \ {s} : saver'[u] = saver[u]
      /\ saver'[s].at = "wait" => saver'[s].attempt < S!Attempts
  <2>1. CASE saver[s].attempt < S!Attempts
    <3> DEFINE x == [saver[s] EXCEPT !.at = "wait"]
    <3>1. saver' = [saver EXCEPT ![s] = x]
      <4>1. saver' = [saver EXCEPT ![s].at = "wait"]
        BY <2>1 DEF S!SaveFails
      <4> QED BY <4>1, Zenon
    <3>2. saver[s] \in SaverState
      BY <1>0
    <3>3. x \in SaverState /\ x.attempt = saver[s].attempt
      BY <3>2 DEF SaverState
    <3> HIDE DEF x
    <3> QED BY <1>0, <2>1, <3>1, <3>3, Put
  <2>2. CASE ~(saver[s].attempt < S!Attempts)
    <3>1. S!Resting \in SaverState /\ S!Resting.at = "idle"
      BY SessionTyped DEF SessionInv, S!Resting, SaverState
    <3>2. saver' = [saver EXCEPT ![s] = S!Resting]
      BY <2>2 DEF S!SaveFails
    <3> QED BY <1>0, <3>1, <3>2, Put
  <2> QED BY <2>1, <2>2
<1>3. ws' \in SessionState /\ SocketInv(ws') /\ ws'.phase = ws.phase
  <2>1. CASE saver[s].attempt < S!Attempts
    BY <2>1, Passes DEF S!SaveFails
  <2>2. CASE ~(saver[s].attempt < S!Attempts)
    <3> DEFINE x == S!Passed
               w == [x EXCEPT !.status = "failed", !.credsError = TRUE]
    <3>1. ws' = w
      BY <2>2 DEF S!SaveFails
    <3>2. x \in SessionState /\ SocketInv(x) /\ x.phase = ws.phase
      BY Passes
    <3> HIDE DEF x
    <3>3. w \in SessionState /\ SocketInv(w) /\ w.phase = ws.phase
      BY <3>2 DEF SessionState, SocketInv
    <3> QED BY <3>1, <3>3
  <2> QED BY <2>1, <2>2
<1>4. line' \in Seq(Operation) /\ line[1] = s /\ 1 \in 1..Len(line)
  BY <1>0, <1>1, TurnPasses
<1>5. S!TypeOK'
  <2>1. late' \subseteq S!Version \cup {S!NoRow}
    BY <1>0, <1>1 DEF S!Version, S!TypeOK
  <2> QED BY <1>0, <1>1, <1>2, <1>3, <1>4, <2>1 DEF S!TypeOK, S!Attempts, S!Version, SaverState, SessionState, Operation
<1>6. LineInv' /\ \A j \in 1..Len(line') : line'[j] \in Saver => saver'[line'[j]] = saver[line[j + 1]]
  BY <1>0, <1>1, <1>2, <1>3, LineRemains
<1>7. OrderInv'
  <2>1. Older' \subseteq Older \cup {saver[s].snap}
    BY <1>1 DEF Older
  <2> QED BY <1>0, <1>1, <1>2, <1>3, <2>1, OrderRemains
<1>8. ForgetInv'
  <2>1. \A j \in 1..Len(line') : line'[j] = line[j + 1] /\ j + 1 \in 1..Len(line)
        /\ Len(line') = Len(line) - 1 /\ Len(line) \in Nat
    BY <1>0, <1>1, TurnPasses, SessionTyped
  <2>2. ASSUME ~stray, ws.phase = "clearing", NEW j \in 1..Len(line'), line'[j] = Clear PROVE j = Len(line')
    <3>1. j + 1 = Len(line)
      BY <2>1, <2>2 DEF SessionInv, ForgetInv
    <3> QED BY <2>1, <3>1
  <2>3. ASSUME ~stray, ws.phase = "left"
        PROVE  /\ creds' = 0 /\ row' \in {S!NoRow, 0}
               /\ \A j \in 1..Len(line') : line'[j] \in Saver => saver'[line'[j]].snap = 0
    BY <1>1, <1>4, <1>6, <2>1, <2>3 DEF SessionInv, ForgetInv
  <2>4. S!NoRow' = S!NoRow
    BY DEF S!NoRow
  <2> QED BY <1>1, <1>3, <2>2, <2>3, <2>4 DEF ForgetInv
<1> QED BY <1>3, <1>5, <1>6, <1>7, <1>8 DEF SessionInv

\* A write that was given up lands.
LEMMA Lands == ASSUME SessionInv, NEW v \in S!Version \cup {S!NoRow}, S!Land(v) PROVE SessionInv'
<1>1. /\ v \in late /\ late' = late \ {v} /\ row' = v /\ stray' = TRUE
      /\ ws' = ws /\ creds' = creds /\ line' = line /\ saver' = saver /\ failures' = failures
  BY DEF S!Land
<1>2. S!TypeOK'
  BY <1>1 DEF SessionInv, S!TypeOK
<1>3. LineInv' /\ SocketInv(ws)' /\ ForgetInv'
  BY <1>1 DEF SessionInv, LineInv, SocketInv, ForgetInv
<1>4. Older' \subseteq Older
  BY <1>1 DEF Older
<1>5. OrderInv'
  BY <1>1, <1>4 DEF SessionInv, OrderInv
<1> QED BY <1>2, <1>3, <1>5 DEF SessionInv

\* clearAuth joins the line.
LEMMA FinishesLogout == ASSUME SessionInv, S!FinishLogout PROVE SessionInv'
<1>0. S!TypeOK /\ line \in Seq(Operation) /\ Len(line) \in Nat /\ Clear \in Operation /\ Clear \notin Saver
      /\ ws \in SessionState /\ SocketInv(ws)
  BY SessionTyped DEF SessionInv, Operation
<1>1. /\ ws.phase = "leaving" /\ line' = Append(line, Clear)
      /\ creds' = creds /\ row' = row /\ saver' = saver /\ late' = late /\ stray' = stray /\ failures' = failures
  BY DEF S!FinishLogout
<1>2. ws' \in SessionState /\ SocketInv(ws') /\ ws'.phase = "clearing"
  <2> DEFINE x == [ws EXCEPT !.stopped = TRUE, !.sock = "none", !.open = FALSE]
             w == [x EXCEPT !.phase = "clearing"]
  <2>1. x \in SessionState /\ x.open = FALSE /\ x.sock = "none" /\ x.stopped /\ x.timer = ws.timer
    BY <1>0 DEF SessionState
  <2>2. ws' = w
    BY DEF S!FinishLogout, S!Ended
  <2> HIDE DEF x
  <2>3. w \in SessionState /\ SocketInv(w) /\ w.phase = "clearing"
    BY <2>1 DEF SessionState, SocketInv
  <2> QED BY <2>2, <2>3
<1>3. /\ line' \in Seq(Operation) /\ Len(line') = Len(line) + 1 /\ line'[Len(line) + 1] = Clear
      /\ \A i \in 1..Len(line) : line'[i] = line[i]
  BY <1>0, <1>1, AppendProperties
<1>4. ASSUME NEW i \in 1..Len(line')
      PROVE  (i \in 1..Len(line) /\ line'[i] = line[i]) \/ (i = Len(line) + 1 /\ line'[i] = Clear)
  <2>1. i \in 1..Len(line) \/ i = Len(line) + 1
    BY <1>0, <1>3
  <2> QED BY <1>3, <2>1
<1>5. \A i \in 1..Len(line) : line[i] # Clear
  BY <1>1 DEF SessionInv, LineInv
<1>6. S!TypeOK'
  BY <1>0, <1>1, <1>2, <1>3 DEF S!TypeOK, SessionState, Operation
<1>7. LineInv'
  <2>1. ASSUME NEW i \in 1..Len(line'), NEW j \in 1..Len(line'), line'[i] = line'[j] PROVE i = j
    BY <1>4, <1>5, <2>1 DEF SessionInv, LineInv
  <2>2. ASSUME NEW i \in 1..Len(line'), line'[i] \in Saver PROVE saver'[line'[i]].at = "queued"
    BY <1>0, <1>1, <1>4, <2>2 DEF SessionInv, LineInv
  <2>3. \A u \in Saver : saver'[u].at = "wait" => saver'[u].attempt < S!Attempts
    BY <1>1 DEF SessionInv, LineInv
  <2> QED BY <1>2, <2>1, <2>2, <2>3 DEF LineInv
<1>8. ForgetInv'
  BY <1>2, <1>3, <1>4, <1>5 DEF ForgetInv
<1>9. OrderInv'
  <2>1. /\ \A i, j \in 1..Len(line) : i < j /\ line[i] \in Saver /\ line[j] \in Saver
             => Before(saver[line[i]].snap, saver[line[j]].snap)
        /\ \A v \in Older, j \in 1..Len(line) : line[j] \in Saver => Before(v, saver[line[j]].snap)
        /\ \A v \in Older : v <= creds
        /\ \A i \in 1..Len(line) : line[i] \in Saver => saver[line[i]].snap <= creds
    BY <1>1 DEF SessionInv, OrderInv
  <2>2. Older' = Older
    BY <1>1 DEF Older
  <2>3. \A i \in 1..Len(line') : line'[i] \in Saver => i \in 1..Len(line) /\ line'[i] = line[i]
    BY <1>0, <1>4
  <2> QED BY <1>1, <1>2, <2>1, <2>2, <2>3 DEF OrderInv
<1> QED BY <1>2, <1>6, <1>7, <1>8, <1>9 DEF SessionInv

\* clearAuth has its turn.
LEMMA Clears == ASSUME SessionInv, S!Cleared PROVE SessionInv'
<1>0. /\ S!TypeOK /\ Clear \in Operation /\ Clear \notin Saver /\ 0 \in 0..MaxVersion /\ S!NoRow = -1
      /\ ws \in SessionState /\ SocketInv(ws) /\ Len(line) \in Nat
      /\ \A u \in Saver : saver[u].snap \in Nat
  <2>1. /\ S!TypeOK /\ Clear \in Operation /\ Clear \notin Saver /\ S!NoRow = -1 /\ MaxVersion \in Nat
        /\ ws \in SessionState /\ SocketInv(ws) /\ Len(line) \in Nat
        /\ \A u \in Saver : saver[u].snap \in 0..MaxVersion
    BY SessionTyped DEF SessionInv, Operation
  <2> QED BY <2>1
<1>1. /\ S!Turn(Clear) /\ S!Release(Clear) /\ row' = S!NoRow /\ creds' = 0
      /\ saver' = saver /\ late' = late /\ stray' = stray /\ failures' = failures
      /\ ws' = [ws EXCEPT !.phase = "left", !.status = "logged_out", !.credsError = FALSE]
  BY DEF S!Cleared, S!Forgotten
<1>2. /\ line' \in Seq(Operation) /\ Len(line') = Len(line) - 1 /\ 1 \in 1..Len(line) /\ line[1] = Clear
      /\ \A j \in 1..Len(line') :
           line'[j] = line[j + 1] /\ j + 1 \in 1..Len(line) /\ 1 < j + 1 /\ line'[j] # Clear
  BY <1>0, <1>1, TurnPasses
<1>3. ws.phase = "clearing"
  BY <1>2 DEF SessionInv, LineInv
<1>4. ws' \in SessionState /\ SocketInv(ws') /\ ws'.phase = "left"
  BY <1>0, <1>1, <1>3 DEF SessionState, SocketInv
<1>5. S!TypeOK'
  <2>1. creds' \in S!Version /\ row' \in S!Version \cup {S!NoRow}
    BY <1>0, <1>1 DEF S!Version
  <2> QED BY <1>1, <1>2, <1>4, <2>1 DEF SessionInv, S!TypeOK, SessionState, Operation
<1>6. LineInv'
  BY <1>0, <1>1, LineRemains
<1>7. ForgetInv'
  <2>1. ASSUME ~stray PROVE Len(line') = 0
    <3>1. 1 = Len(line)
      BY <1>2, <1>3, <2>1 DEF SessionInv, ForgetInv
    <3> QED BY <1>2, <3>1, 1 - 1 = 0
  <2>2. S!NoRow' = S!NoRow
    BY DEF S!NoRow
  <2>3. ASSUME ~stray, NEW j \in 1..Len(line') PROVE FALSE
    <3>1. Len(line') = 0 /\ j \in 1..0
      BY <2>1, <2>3
    <3> QED BY <3>1
  <2> QED BY <1>1, <1>4, <2>2, <2>3 DEF ForgetInv
<1>8. OrderInv'
  <2>0. ws.phase # "gone"
    BY <1>3
  <2>1. ASSUME NEW i \in 1..Len(line'), NEW j \in 1..Len(line'), i < j, line'[i] \in Saver, line'[j] \in Saver
        PROVE  Before(saver'[line'[i]].snap, saver'[line'[j]].snap)
    <3>1. i + 1 \in 1..Len(line) /\ j + 1 \in 1..Len(line) /\ line'[i] = line[i + 1] /\ line'[j] = line[j + 1]
      BY <1>2
    <3>2. i + 1 < j + 1
      BY <2>1, <1>2
    <3> QED BY <1>1, <2>0, <2>1, <3>1, <3>2 DEF SessionInv, OrderInv
  <2>2. ASSUME NEW v \in Older', NEW j \in 1..Len(line'), line'[j] \in Saver
        PROVE  Before(v, saver'[line'[j]].snap)
    <3>1. line[j + 1] \in Saver /\ saver'[line'[j]] = saver[line[j + 1]] /\ j + 1 \in 1..Len(line)
      BY <1>1, <1>2, <2>2
    <3>2. CASE v \in late
      BY <2>0, <3>1, <3>2 DEF SessionInv, OrderInv, Older
    <3>3. CASE v = S!NoRow
      BY <1>0, <3>1, <3>3 DEF Before
    <3> QED BY <1>1, <3>2, <3>3 DEF Older
  <2> QED BY <1>1, <1>4, <2>1, <2>2 DEF OrderInv
<1> QED BY <1>4, <1>5, <1>6, <1>7, <1>8 DEF SessionInv

\* clearAuth fails.
LEMMA ClearErrs == ASSUME SessionInv, S!ClearFails PROVE SessionInv'
<1>0. S!TypeOK /\ Clear \in Operation /\ Clear \notin Saver /\ S!NoRow \in Int /\ Len(line) \in Nat
  <2>1. S!TypeOK /\ Clear \in Operation /\ Clear \notin Saver /\ S!NoRow = -1 /\ Len(line) \in Nat
    BY SessionTyped DEF SessionInv, Operation
  <2> QED BY <2>1
<1>1. /\ S!Turn(Clear) /\ S!Release(Clear) /\ late' \in {late, late \cup {S!NoRow}}
      /\ ws' = ws /\ creds' = creds /\ row' = row /\ saver' = saver /\ stray' = stray
      /\ failures' \in 0..MaxFailures
  BY SessionTyped DEF S!ClearFails, S!Fail, SessionInv
<1>2. /\ line' \in Seq(Operation) /\ Len(line') = Len(line) - 1 /\ 1 \in 1..Len(line) /\ line[1] = Clear
      /\ \A j \in 1..Len(line') : line'[j] = line[j + 1] /\ j + 1 \in 1..Len(line) /\ line'[j] # Clear
  BY <1>0, <1>1, TurnPasses
<1>3. ws.phase = "clearing"
  BY <1>2 DEF SessionInv, LineInv
<1>4. S!TypeOK'
  <2>1. late' \subseteq S!Version \cup {S!NoRow}
    BY <1>1 DEF SessionInv, S!TypeOK
  <2> QED BY <1>1, <1>2, <2>1 DEF SessionInv, S!TypeOK, Operation
<1>5. LineInv'
  BY <1>0, <1>1, LineRemains
<1>6. ForgetInv' /\ SocketInv(ws)'
  BY <1>1, <1>2, <1>3 DEF SessionInv, ForgetInv, SocketInv
<1>7. OrderInv'
  <2>1. Older' \subseteq Older \cup {S!NoRow}
    BY <1>1 DEF Older
  <2> QED BY <1>0, <1>1, <2>1, OrderRemains
<1> QED BY <1>4, <1>5, <1>6, <1>7 DEF SessionInv

\* The number's next session writes versions of its own.
LEMMA Succeeds == ASSUME SessionInv, S!Successor PROVE SessionInv'
<1>1. /\ ws.phase = "gone" /\ row \in 0..(MaxVersion - 1) /\ row' = row + 1
      /\ ws' = ws /\ creds' = creds /\ line' = line /\ saver' = saver /\ late' = late
      /\ stray' = stray /\ failures' = failures
  BY DEF S!Successor
<1>2. row' \in S!Version
  BY <1>1, SessionTyped DEF SessionInv, S!Version
<1>3. S!TypeOK'
  BY <1>1, <1>2 DEF SessionInv, S!TypeOK
<1> QED BY <1>1, <1>3 DEF SessionInv, LineInv, SocketInv, ForgetInv, OrderInv

\* Every step of the session.
LEMMA SessionSteps == ASSUME SessionInv, S!Next PROVE SessionInv'
<1>1. CASE S!Qr \/ S!QrDrawn \/ S!Open \/ S!Close \/ S!Reconnect \/ S!Logout \/ S!Stop \/ S!Stopped
  BY <1>1, SocketSteps
<1>2. ASSUME NEW s \in Saver, S!CredsUpdate(s) \/ S!Saved(s) \/ S!SaveFails(s) \/ S!Retry(s)
      PROVE  SessionInv'
  BY <1>2, CredsUpdates, Saves, SaveErrs, Retries
<1>3. ASSUME NEW v \in S!Version \cup {S!NoRow}, S!Land(v) PROVE SessionInv'
  BY <1>3, Lands
<1>4. CASE S!FinishLogout \/ S!Cleared \/ S!ClearFails \/ S!Successor
  BY <1>4, FinishesLogout, Clears, ClearErrs, Succeeds
<1> QED BY <1>1, <1>2, <1>3, <1>4 DEF S!Next

\* What the session promises follows.
LEMMA SessionSafe == SessionInv => S!LogoutForgets /\ S!ConnectedIsOpen
  BY DEF SessionInv, ForgetInv, SocketInv, S!LogoutForgets, S!ConnectedIsOpen

\* The write at the head of the line is not older than the stored one.
LEMMA RowGrows ==
  ASSUME SessionInv, S!Next
  PROVE  row' >= row \/ row' \in {S!NoRow, 0} \/ late' # late \/ ws.phase = "gone"
<1> SUFFICES ASSUME late' = late, ws.phase # "gone", row' # row
             PROVE  row' >= row \/ row' \in {S!NoRow, 0}
  <2>1. row \in Int
    BY SessionTyped DEF SessionInv
  <2> QED BY <2>1
<1>1. ASSUME NEW s \in Saver, S!Saved(s) PROVE row' >= row \/ row' = 0
  <2>1. /\ row' = saver[s].snap /\ 1 \in 1..Len(line) /\ line[1] = s /\ saver[s].snap \in Int /\ row \in Int
    <3>1. saver[s].snap \in 0..MaxVersion /\ row \in Int /\ s \in Operation
      BY SessionTyped DEF SessionInv, Operation
    <3> QED BY <1>1, <3>1, TurnPasses DEF S!Saved
  <2>2. Before(row, saver[s].snap)
    BY <2>1 DEF SessionInv, OrderInv, Older
  <2> QED BY <2>1, <2>2 DEF Before
<1>2. ASSUME NEW v \in S!Version \cup {S!NoRow}, S!Land(v) PROVE FALSE
  BY <1>2 DEF S!Land
<1>3. CASE S!Cleared
  BY <1>3 DEF S!Cleared
<1>4. ASSUME S!Successor PROVE FALSE
  BY <1>4 DEF S!Successor
<1>5. ASSUME S!Qr \/ S!QrDrawn \/ S!Open \/ S!Close \/ S!Reconnect \/ S!Logout \/ S!Stop \/ S!Stopped
      PROVE  FALSE
  BY <1>5 DEF S!Qr, S!QrDrawn, S!Open, S!Close, S!Reconnect, S!Logout, S!Stop, S!Stopped, S!Disk
<1>6. ASSUME S!FinishLogout \/ S!ClearFails PROVE FALSE
  BY <1>6 DEF S!FinishLogout, S!ClearFails
<1>7. ASSUME NEW s \in Saver, S!CredsUpdate(s) \/ S!SaveFails(s) \/ S!Retry(s) PROVE FALSE
  BY <1>7 DEF S!CredsUpdate, S!SaveFails, S!Retry
<1> QED BY <1>1, <1>2, <1>3, <1>4, <1>5, <1>6, <1>7 DEF S!Next

-----------------------------------------------------------------------------
(* The theorems.                                                           *)

\* A step is a step of one service at most.
LEMMA OneServiceSteps ==
  ASSUME [Next]_vars
  PROVE  /\ R!Next \/ UNCHANGED rvars
         /\ M!Next \/ UNCHANGED mvars
         /\ T!Next \/ UNCHANGED tvars
         /\ A!Next \/ UNCHANGED avars
         /\ I!Next \/ UNCHANGED ivars
         /\ S!Next \/ UNCHANGED svars
         /\ E!Next \/ UNCHANGED evars
         /\ O!Next \/ UNCHANGED ovars
         /\ P!Next \/ UNCHANGED pvars
         /\ B!Next \/ UNCHANGED bvars
<1>1. CASE Next
  BY <1>1 DEF Next
<1>2. CASE UNCHANGED vars
  BY <1>2 DEF vars
<1> QED BY <1>1, <1>2

\* The invariants of the services hold together.
ServicesInv ==
  /\ RelayInv /\ MediaInv /\ TokensInv /\ AccountInv /\ SilenceInv /\ SessionInv

LEMMA ServicesBegin == Init => ServicesInv
<1> SUFFICES ASSUME Init
             PROVE  ServicesInv
  OBVIOUS
<1>1. RelayInv
  BY RelayBegins
<1>2. MediaInv
  BY MediaBegins DEF Init
<1>3. TokensInv
  BY TokensBegin DEF Init
<1>4. AccountInv
  BY AccountBegins DEF Init
<1>5. SilenceInv
  BY SilenceBegins DEF Init
<1>6. SessionInv
  <2>1. S!Init /\ creds \in {0, 1}
    BY DEF Init, S!Init
  <2> QED BY <2>1, SessionBegins
<1> QED BY <1>1, <1>2, <1>3, <1>4, <1>5, <1>6 DEF ServicesInv

LEMMA ServicesSteps == ServicesInv /\ [Next]_vars => ServicesInv'
<1> SUFFICES ASSUME ServicesInv, [Next]_vars
             PROVE  ServicesInv'
  OBVIOUS
<1>1. RelayInv'
  BY OneServiceSteps, RelaySteps, RelayStays DEF ServicesInv
<1>2. MediaInv'
  BY OneServiceSteps, MediaSteps, MediaStays DEF ServicesInv
<1>3. TokensInv'
  BY OneServiceSteps, TokensSteps, TokensStay DEF ServicesInv
<1>4. AccountInv'
  BY OneServiceSteps, AccountSteps, AccountStays DEF ServicesInv
<1>5. SilenceInv'
  BY OneServiceSteps, SilenceSteps, SilenceStays DEF ServicesInv
<1>6. SessionInv'
  BY OneServiceSteps, SessionSteps, SessionStays DEF ServicesInv
<1> QED BY <1>1, <1>2, <1>3, <1>4, <1>5, <1>6 DEF ServicesInv

\* The inductive invariants of the services hold in every state.
THEOREM ServicesInvariance == Spec => []ServicesInv
<1>1. Init => ServicesInv
  BY ServicesBegin
<1>2. ServicesInv /\ [Next]_vars => ServicesInv'
  BY ServicesSteps
<1> QED
  BY <1>1, <1>2, PTL DEF Spec

\* The counter of a job that waits or is being attempted stays below the maximum,
\* though late functions overwrite it by id and interrupted attempts are put back
\* uncounted (meta-relay.ts, finishJob).  How often a job is posted is not bounded.
THEOREM NoExtraAttemptHolds == Spec => []NoExtraAttempt
<1>1. ServicesInv => NoExtraAttempt
  BY DEF ServicesInv, RelayInv, NoExtraAttempt
<1> QED
  BY <1>1, ServicesInvariance, PTL

\* A dispatch that may still be sent, and an active offer, has its file, in whatever
\* order a collector reads the tables (temporary-media-gc.ts); except when a template
\* was deleted under a request or a collector that relied on it (`orphaned`).
THEOREM MediaKeptHolds == Spec => []MediaKept
<1>1. ServicesInv => MediaKept
  BY MediaSafe DEF ServicesInv, MediaKept
<1> QED
  BY <1>1, ServicesInvariance, PTL

\* A renewal presents the newest token (mercado-livre-token-manager.ts), until one
\* outlives its lock, loses its answer, fails or dies before its save, or crosses a
\* person who connects or disconnects (`crossed`).
THEOREM NeverSpentHolds == Spec => []NeverSpent
<1>1. ServicesInv => NeverSpent
  BY TokensSafe DEF ServicesInv, NeverSpent
<1> QED
  BY <1>1, ServicesInvariance, PTL

\* The owner of an account enters that account, whatever webhooks arrive together
\* and whatever step of one fails (account-provisioning.ts), but for the write of an
\* order's profile, after which the order goes on (`unlinked`).
THEOREM OwnerEntersHolds == Spec => []OwnerEnters
<1>1. ServicesInv => OwnerEnters
  BY AccountSafe DEF ServicesInv, OwnerEnters
<1> QED
  BY <1>1, ServicesInvariance, PTL

\* Only the end of its own silence resolves an incident, and does unless a call
\* failed, was overtaken or was lost in a restart (`missed`) (observer.ts).
THEOREM ResolvedWithItsSilenceHolds == Spec => []ResolvedWithItsSilence
<1>1. ServicesInv => ResolvedWithItsSilence
  BY DEF ServicesInv, SilenceInv, ResolvedWithItsSilence
<1> QED
  BY <1>1, ServicesInvariance, PTL

\* After logout no attempt that waited for the lock before clearAuth did brings the
\* credentials back (supabase-auth-state.ts); retries that queued behind it and
\* timed-out writes that land do, and are left out (`stray`).
THEOREM LogoutForgetsHolds == Spec => []LogoutForgets
<1>1. ServicesInv => LogoutForgets
  BY SessionSafe DEF ServicesInv, LogoutForgets
<1> QED
  BY <1>1, ServicesInvariance, PTL

\* A session that was not stopped is called connected only while its socket is open
\* (session.ts).
THEOREM ConnectedIsOpenHolds == Spec => []ConnectedIsOpen
<1>1. ServicesInv => ConnectedIsOpen
  BY SessionSafe DEF ServicesInv, ConnectedIsOpen
<1> QED
  BY <1>1, ServicesInvariance, PTL

\* An older write never replaces newer credentials, except one that was given up
\* and lands, or that outlives stop() (supabase-auth-state.ts, saveCreds).
THEOREM OlderNeverWinsHolds == Spec => OlderNeverWins
<1> DEFINE Grows == row' >= row \/ row' \in {S!NoRow, 0} \/ late' # late \/ ws.phase = "gone"
<1>1. ServicesInv /\ [Next]_vars => [Grows]_(S!vars)
  <2> SUFFICES ASSUME ServicesInv, [Next]_vars
               PROVE  [Grows]_(S!vars)
    OBVIOUS
  <2>1. S!Next \/ UNCHANGED svars
    BY OneServiceSteps
  <2>2. CASE S!Next
    BY <2>2, RowGrows DEF ServicesInv
  <2>3. CASE UNCHANGED svars
    BY <2>3 DEF svars, S!vars
  <2> QED BY <2>1, <2>2, <2>3
<1> QED
  BY <1>1, ServicesInvariance, PTL DEF Spec, OlderNeverWins, S!OlderNeverWins
=============================================================================
