----------------------------- MODULE MCServices -----------------------------
(***************************************************************************)
(* Services on small instances: the events and clicks, the workers' runs   *)
(* on an offer and the requests that create accounts.                      *)
(***************************************************************************)
EXTENDS Services

CONSTANTS p, l, c1, c2, c3, wa, wb, a1, a2, b1, rs, rx, ro, ra, key, sub

OnePurchase == {p}
OneLead == {l}
\* Two clicks on the first message of the automation, one on the flow's.
ThreeClicks == {c1, c2, c3}
ThreeAbout == [c \in ThreeClicks |-> IF c = c3 THEN 0 ELSE 1]

\* Two workers, one of which may have two runs on the offer.
TwoWorkers == {wa, wb}
ThreeRuns == {a1, a2, b1}
ThreeOwner == [u \in ThreeRuns |-> IF u = b1 THEN wb ELSE wa]

\* Start and end of one subscription under one invoice, an order, the administrator.
FourRequests == {rs, rx, ro, ra}
FourKind == [r \in FourRequests |-> CASE r = rs -> "start" [] r = rx -> "stop"
                                      [] r = ro -> "order" [] OTHER -> "admin"]
FourKey == [r \in FourRequests |-> IF r \in {rs, rx} THEN key ELSE r]
FourSub == [r \in FourRequests |-> CASE r \in {rs, rx} -> sub [] r = ro -> ro [] OTHER -> NoSub]

\* What the observers of the batch and of the media excuse they excuse for good:
\* behind such a state no property of these two parts says anything, and TLC does
\* not look there.  The other parts leave these observers alone.
Judged == ~raced /\ ~unpaid /\ ~orphaned

=============================================================================
