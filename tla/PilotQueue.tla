----------------------------- MODULE PilotQueue -----------------------------
(***************************************************************************)
(* The waiting queue of one pilot that is on: offers wait, a few of them   *)
(* hold a slot while their dispatches are sent, and a maintenance worker   *)
(* (queue/pilot-maintenance.ts, 20261010000000, mode 'deferred') promotes  *)
(* waiting offers when a request asks for it.  Transactions read what is   *)
(* committed when a statement starts, and their requests draw an id        *)
(* before they commit.                                                     *)
(***************************************************************************)
EXTENDS Naturals, FiniteSets

CONSTANTS
  MaxOffers,  \* offers, numbered in the order of captured_at
  Group,      \* destinations of every offer
  MaxOpen,    \* bound on the transactions open at once
  Again,      \* offers that people may bring back
  Slots,      \* offers that may be scheduled or sending (5)
  MaxRequests \* bound on the ids of pilot_maintenance_requests

\* schedule_pilot_offer refuses an offer without destinations.
PilotAssumption ==
  /\ MaxOffers \in Nat \ {0} /\ Again \subseteq 1..MaxOffers /\ Slots \in Nat \ {0}
  /\ IsFiniteSet(Group) /\ Group # {}
  /\ MaxOpen \in Nat /\ MaxRequests \in Nat

Offer == 1..MaxOffers

VARIABLES
  pos,      \* pos[o]: captured_offers.status; "done" for every final one
  disp,     \* disp[o][g]: the dispatch, and its delivery, which follows it
  open,     \* transactions that change a dispatch, in the trigger
  asked,    \* committed requests
  drawn,    \* the last id drawn
  maint,    \* run_pilot_maintenance: its last request, offers to promote and to drop
  retried,  \* observer: offers that people brought back, until they end again
  skewed,   \* observer: offers two transactions changed at once, until they end
  lost,     \* observer: the last run deleted a request it had not seen
  passed    \* observer: offers the last run could not promote

vars == <<pos, disp, open, asked, drawn, maint, retried, skewed, lost, passed>>

NoRun == [on |-> FALSE, last |-> 0, up |-> {}, out |-> {}]

TypeOK ==
  /\ pos \in [Offer -> {"absent", "waiting", "scheduled", "sending", "done"}]
  /\ disp \in [Offer -> [Group -> {"none", "pending", "sending", "over"}]]
  /\ open \subseteq [at : {"counted", "holds", "same"}, o : Offer, g : Group, to : {"pending", "sending", "over"},
                     status : {"scheduled", "sending", "done"}, request : 0..MaxRequests]
  /\ drawn \in 0..MaxRequests /\ asked \subseteq 1..drawn
  /\ maint \in [on : BOOLEAN, last : 0..MaxRequests, up : SUBSET Offer, out : SUBSET Offer]
  /\ retried \subseteq Offer /\ skewed \subseteq Offer /\ passed \subseteq Offer
  /\ lost \in BOOLEAN

Init ==
  /\ pos = [o \in Offer |-> "absent"] /\ disp = [o \in Offer |-> [g \in Group |-> "none"]]
  /\ open = {} /\ asked = {} /\ drawn = 0 /\ maint = NoRun
  /\ retried = {} /\ skewed = {} /\ lost = FALSE /\ passed = {}

Observed == <<retried, skewed, lost, passed>>

-----------------------------------------------------------------------------
(* Capture and the changes of a dispatch.                                  *)

\* schedule_pilot_offer, under the lock of the pilot that a run also takes.
Schedule(o) ==
  /\ pos[o] = "absent" /\ \A p \in 1..(o - 1) : pos[p] # "absent"
  /\ ~maint.on /\ drawn < MaxRequests
  /\ pos' = [pos EXCEPT ![o] = "waiting"]
  /\ drawn' = drawn + 1 /\ asked' = asked \cup {drawn + 1}
  /\ UNCHANGED <<disp, open, maint, Observed>>

\* The queue claims, sends, puts back or cancels; people retry what is over.
Change == {<<"pending", "sending">>, <<"sending", "pending">>, <<"sending", "over">>,
           <<"pending", "over">>, <<"over", "pending">>}

\* Mutant of Aggregate: the end of the last delivery does not end the offer.
AggregateOpen(D) == IF \E g \in Group : D[g] = "sending" THEN "sending" ELSE "scheduled"
\* sync_pilot_delivery_from_group_dispatch: the offer from its deliveries.
Aggregate(D) == IF \A g \in Group : D[g] = "over" THEN "done"
                ELSE IF \E g \in Group : D[g] = "sending" THEN "sending" ELSE "scheduled"

Open(o) == {t \in open : t.o = o}

\* The trigger counts the deliveries that are committed, and its own.
Count(o, g) ==
  /\ Cardinality(open) < MaxOpen /\ \A t \in Open(o) : t.g # g
  /\ \E c \in Change :
       /\ disp[o][g] = c[1] /\ (c[1] = "over" => o \in Again)
       /\ open' = open \cup {[at |-> "counted", o |-> o, g |-> g, to |-> c[2], request |-> 0,
                              status |-> Aggregate([disp[o] EXCEPT ![g] = c[2]])]}
       /\ retried' = IF c[1] = "over" THEN retried \cup {o} ELSE retried
  /\ skewed' = IF Open(o) # {} THEN skewed \cup {o} ELSE skewed
  /\ UNCHANGED <<pos, disp, asked, drawn, maint, lost, passed>>

Locked(o) == \E t \in Open(o) : t.at = "holds"

\* The update of the offer locks its row, and an offer that ends asks for
\* maintenance (promote_waiting_after_pilot_terminal and its companion); a
\* status that is not distinct locks and changes nothing.
Update(t) ==
  LET same == t.status = pos[t.o]
      ends == ~same /\ pos[t.o] \in {"scheduled", "sending"} /\ t.status = "done"
  IN /\ t.at = "counted" /\ (same \/ ~Locked(t.o))
     /\ ends => drawn < MaxRequests
     /\ drawn' = IF ends THEN drawn + 1 ELSE drawn
     /\ open' = (open \ {t}) \cup {[t EXCEPT !.at = IF same THEN "same" ELSE "holds",
                                            !.request = IF ends THEN drawn' ELSE 0]}
     /\ UNCHANGED <<pos, disp, asked, maint, Observed>>

Commit(t) ==
  LET status == IF t.at = "holds" THEN t.status ELSE pos[t.o]
      settled == IF status = "done" /\ t.to = "over" /\ Open(t.o) = {t}
                      /\ \A g \in Group \ {t.g} : disp[t.o][g] = "over"
                 THEN {t.o} ELSE {}
  IN /\ t.at # "counted" /\ open' = open \ {t}
     /\ pos' = [pos EXCEPT ![t.o] = status]
     /\ disp' = [disp EXCEPT ![t.o][t.g] = t.to]
     /\ asked' = asked \cup ({t.request} \ {0})
     /\ retried' = retried \ settled /\ skewed' = skewed \ settled
     /\ lost' = (lost \/ (maint.on /\ t.request \in 1..maint.last))
     /\ UNCHANGED <<drawn, maint, passed>>

\* The transaction is undone (the 8 s limit of PostgREST): its id is skipped.
Abort(t) ==
  /\ t.at # "counted" /\ open' = open \ {t}
  /\ UNCHANGED <<pos, disp, asked, drawn, maint, Observed>>

-----------------------------------------------------------------------------
(* Maintenance (run_pilot_maintenance).                                    *)

Held == {o \in Offer : pos[o] \in {"scheduled", "sending"}}
Waiting == {o \in Offer : pos[o] = "waiting"}

\* Mutant of Promoted: the slots that are held are not counted.
PromotedMore(W) == {o \in W : Cardinality({p \in W : p > o}) < Slots}
\* promote_waiting_pilot_offers: fills the slots, newest first.
Promoted(W) ==
  LET n == IF Cardinality(Held) < Slots THEN Slots - Cardinality(Held) ELSE 0
  IN {o \in W : Cardinality({p \in W : p > o}) < n}

Latest(S) == CHOOSE i \in S : \A j \in S : j <= i

\* X: offers that waited two hours, and those that promotion ignores or leaves
\* without destinations.  K: offers that are passed over beside a free slot, because
\* somebody holds their row (skip locked), or because the promotion of one of them
\* failed: its error, a lock that is not granted in 300 ms included, is caught, and
\* ends the loop but not the run.
RunBegin ==
  /\ ~maint.on /\ asked # {}
  /\ \E X \in SUBSET Waiting : \E K \in SUBSET (Waiting \ X) :
       /\ K # {} => Cardinality(Held) < Slots
       /\ maint' = [on |-> TRUE, last |-> Latest(asked), up |-> Promoted(Waiting \ (X \cup K)), out |-> X]
       /\ passed' = K
  /\ lost' = FALSE
  /\ UNCHANGED <<pos, disp, open, asked, drawn, retried, skewed>>

\* Mutant of Served: every request is deleted.
ServedAll == asked
Served == {i \in asked : i <= maint.last}

\* The schedule is compacted, the requests up to the last one read are deleted,
\* whether or not every offer could be promoted.
RunEnd ==
  /\ maint.on /\ maint' = NoRun
  /\ pos' = [o \in Offer |-> IF o \in maint.up THEN "scheduled"
                             ELSE IF o \in maint.out THEN "done" ELSE pos[o]]
  /\ disp' = [o \in Offer |-> IF o \in maint.up THEN [g \in Group |-> "pending"] ELSE disp[o]]
  /\ asked' = asked \ Served
  /\ UNCHANGED <<open, drawn, Observed>>

\* 'ocupado' or an error outside a promotion, the time limit, or a death:
\* everything is undone.
RunUndone ==
  /\ maint.on /\ maint' = NoRun
  /\ UNCHANGED <<pos, disp, open, asked, drawn, Observed>>

\* reconcile_pilot_offer_status, called by hand.
Reconcile(o) ==
  /\ pos[o] \in {"scheduled", "sending"} /\ ~Locked(o)
  /\ \A g \in Group : disp[o][g] = "over"
  /\ drawn < MaxRequests /\ drawn' = drawn + 1 /\ asked' = asked \cup {drawn + 1}
  /\ pos' = [pos EXCEPT ![o] = "done"]
  /\ UNCHANGED <<disp, open, maint, Observed>>

Next ==
  \/ \E o \in Offer : Schedule(o) \/ Reconcile(o) \/ \E g \in Group : Count(o, g)
  \/ \E t \in open : Update(t) \/ Commit(t) \/ Abort(t)
  \/ RunBegin \/ RunEnd \/ RunUndone

Spec == Init /\ [][Next]_vars

-----------------------------------------------------------------------------
(* Properties.                                                             *)

\* A pilot holds no more offers than it has slots, except those that people
\* brought back, although offers are promoted while others end or resume.
SlotBound == Cardinality(Held \ retried) <= Slots

\* While a slot is free no offer waits without a request that will promote it,
\* although requests arrive and slots are given back during a run; except the
\* offers that the last run passed over, whose requests it deletes all the same,
\* and except when an id drawn earlier than the one that the last run read was
\* committed while it ran.
WaitingIsAsked ==
  Waiting \ passed # {} /\ Cardinality(Held) < Slots /\ ~maint.on /\ ~lost =>
    asked # {}

\* An offer whose dispatches are all over gives its slot back, in whatever
\* order they end; except when two of them ended at once, each not seeing the
\* other (20261009233000 repairs such offers).
SlotReleased == \A o \in Held \ skewed :
  Open(o) = {} => \E g \in Group : disp[o][g] # "over"
=============================================================================
