-------------------------- MODULE DeliveryPromise --------------------------
(***************************************************************************)
(* What the dispatch queue promises for one message, whatever workers,     *)
(* claims and leases are behind it: a message that may have reached        *)
(* WhatsApp is never sent a second time by the system itself.  It ends as  *)
(* sent, as closed, or as doubtful, and only a person leaves the doubt.    *)
(*                                                                         *)
(* A message whose history a known defect has broken is excused; SendQueue *)
(* says exactly which writes those are.                                    *)
(***************************************************************************)
EXTENDS Naturals

CONSTANT Job

VARIABLES
  fate,     \* fate[j]: what the queue says of j
  wired,    \* wired[j]: a send asked for since the last decision may be out
  asks,     \* asks[j] grows whenever a person asks for j again
  settled,  \* messages whose outcome a person decided
  broken    \* broken[j]: a known defect has hit j

vars == <<fate, wired, asks, settled, broken>>

Fate == {"waiting", "sending", "sent", "doubtful", "closed"}

Init ==
  /\ fate = [j \in Job |-> "waiting"]
  /\ wired = [j \in Job |-> FALSE]
  /\ asks = [j \in Job |-> 0]
  /\ settled = {}
  /\ broken = [j \in Job |-> FALSE]

Move(j, from, to) == fate[j] \in from /\ fate'[j] \in to
Alone(j) == asks'[j] = asks[j] /\ (j \in settled' <=> j \in settled)

\* The system by itself.
Start(j) == ~wired[j] /\ ~wired'[j] /\ Move(j, {"waiting"}, {"sending"})
\* A send that is under way when the row is given up still goes out.
HandOver(j) == ~wired[j] /\ wired'[j] /\ fate[j] # "waiting" /\ fate'[j] = fate[j]
Lose(j) == wired[j] /\ ~wired'[j] /\ fate'[j] = fate[j]
GiveUp(j) == ~wired[j] /\ ~wired'[j] /\ Move(j, {"sending"}, {"waiting", "closed"})
Confirm(j) == wired[j] /\ wired'[j] /\ Move(j, {"sending"}, {"sent"})
Doubt(j) == wired'[j] = wired[j] /\ Move(j, {"sending"}, {"doubtful"})
Cancel(j) == ~wired[j] /\ ~wired'[j] /\ Move(j, {"waiting"}, {"closed"})

System(j) ==
  /\ Alone(j)
  /\ Start(j) \/ HandOver(j) \/ Lose(j) \/ GiveUp(j) \/ Confirm(j) \/ Doubt(j) \/ Cancel(j)

\* A person.
AskAgain(j) ==
  /\ asks'[j] > asks[j] /\ (j \in settled' <=> j \in settled)
  /\ Move(j, {"doubtful"}, {"waiting"}) /\ ~wired'[j]

Settle(j) ==
  /\ j \in settled' /\ asks'[j] = asks[j] /\ wired'[j] = wired[j]
  /\ \/ Move(j, {"doubtful"}, {"sent", "closed"})
     \/ Move(j, Fate \ {"sent"}, {"closed"})

Stays(j) == Alone(j) /\ fate'[j] = fate[j] /\ wired'[j] = wired[j]

Next ==
  \A j \in Job :
    \/ broken'[j]
    \/ ~broken[j] /\ ~broken'[j] /\ (System(j) \/ AskAgain(j) \/ Settle(j) \/ Stays(j))

Promise == Init /\ [][Next]_vars

=============================================================================
