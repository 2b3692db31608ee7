--------------------------- MODULE ManagedSession ---------------------------
(***************************************************************************)
(* One WhatsApp session of a worker (whatsapp/session.ts) and its stored   *)
(* credentials (auth/supabase-auth-state.ts).  Writes of the credentials   *)
(* queue behind a lock; one that exceeds DB_TIMEOUT_MS gives the lock up   *)
(* without being cancelled and may still land.  start() is one step: the   *)
(* version it awaits is cached after the first socket.                     *)
(***************************************************************************)
EXTENDS Integers, Sequences

CONSTANTS
  Saver,      \* runs of saveCredsWithRetry
  Clear,      \* clearAuth, as an operation of the lock
  MaxVersion, \* bound on the versions of the credentials
  MaxFailures \* bound on slow or failed database calls

SessionAssumption ==
  Clear \notin Saver /\ MaxVersion \in Nat \ {0} /\ MaxFailures \in Nat

\* 0: the result of initAuthCreds, never registered.
Version == 0..MaxVersion
NoRow == -1
Attempts == 3

VARIABLES
  ws,     \* the session: status, stopped, socketOpen, lastError, socket, phase of stop or logout
  creds,  \* the credentials in memory
  row,    \* whatsapp_auth_creds, as stored
  line,   \* operations that hold or wait for the lock
  saver,  \* saver[s]: attempt and snapshot
  late,   \* writes that were given up and may land
  stray,  \* observer: a write nothing orders stray or may: see Land and Retry
  failures

vars == <<ws, creds, row, line, saver, late, stray, failures>>

Resting == [at |-> "idle", attempt |-> 0, snap |-> 0]

TypeOK ==
  /\ ws \in [status : {"idle", "starting", "waiting_qr", "connected", "reconnecting",
                       "logged_out", "failed"},
             stopped : BOOLEAN, open : BOOLEAN, credsError : BOOLEAN,
             sock : {"none", "connecting", "open"}, qr : BOOLEAN, timer : BOOLEAN,
             phase : {"live", "leaving", "clearing", "left", "stopping", "gone"}, ahead : Nat]
  /\ creds \in Version /\ row \in Version \cup {NoRow}
  /\ line \in Seq(Saver \cup {Clear})
  /\ saver \in [Saver -> [at : {"idle", "queued", "wait"}, attempt : 0..Attempts, snap : Version]]
  /\ late \subseteq Version \cup {NoRow} /\ stray \in BOOLEAN /\ failures \in 0..MaxFailures

Init ==
  /\ ws = [status |-> "starting", stopped |-> FALSE, open |-> FALSE, credsError |-> FALSE,
           sock |-> "connecting", qr |-> FALSE, timer |-> FALSE, phase |-> "live", ahead |-> 0]
  /\ \/ creds = 0 /\ row = NoRow
     \/ creds = 1 /\ row = 1
  /\ line = <<>> /\ saver = [s \in Saver |-> Resting]
  /\ late = {} /\ stray = FALSE /\ failures = 0

Disk == <<creds, row, line, saver, late, stray, failures>>
Fail == failures < MaxFailures /\ failures' = failures + 1

-----------------------------------------------------------------------------
(* The socket (connection.update).                                         *)

\* The status is set after the QR is drawn, whatever happened meanwhile.
Qr == ws.sock = "connecting" /\ ~ws.qr /\ ws' = [ws EXCEPT !.qr = TRUE] /\ UNCHANGED Disk
QrDrawn ==
  ws.qr /\ ws' = [ws EXCEPT !.qr = FALSE, !.status = "waiting_qr"] /\ UNCHANGED Disk

Open ==
  /\ ws.sock = "connecting"
  /\ ws' = [ws EXCEPT !.sock = "open", !.open = TRUE, !.status = "connected", !.credsError = FALSE]
  /\ UNCHANGED Disk

\* 401, 403 and 419 end the session; any other code starts it again after 5 s.
Close ==
  /\ ws.sock # "none"
  /\ IF ws.stopped THEN ws' = [ws EXCEPT !.sock = "none", !.open = FALSE]
     ELSE \E s \in {"logged_out", "reconnecting"} :
            ws' = [ws EXCEPT !.sock = "none", !.open = FALSE, !.status = s,
                             !.credsError = FALSE, !.timer = @ \/ s = "reconnecting"]
  /\ UNCHANGED Disk

Reconnect ==
  /\ ws.timer
  /\ ws' = IF ws.stopped THEN [ws EXCEPT !.timer = FALSE]
           ELSE [ws EXCEPT !.timer = FALSE, !.status = "starting", !.sock = "connecting",
                           !.credsError = FALSE]
  /\ UNCHANGED Disk

-----------------------------------------------------------------------------
(* Saving the credentials.                                                 *)

Queue(s, n, v) ==
  /\ saver' = [saver EXCEPT ![s] = [at |-> "queued", attempt |-> n, snap |-> v]]
  /\ line' = Append(line, s)

\* creds.update: the socket changed the credentials; the snapshot is taken
\* before the lock is asked for.
CredsUpdate(s) ==
  /\ ws.sock # "none" /\ saver[s].at = "idle" /\ creds < MaxVersion
  /\ creds' = creds + 1 /\ Queue(s, 1, creds + 1)
  /\ UNCHANGED <<ws, row, late, stray, failures>>

\* Mutant of Turn: the operations do not wait for one another.
AnyTurn(o) == \E i \in 1..Len(line) : line[i] = o
Turn(o) == line # <<>> /\ Head(line) = o
\* The operation leaves the line; the others keep their order.
Release(o) == \E i \in 1..Len(line) :
  line[i] = o /\ line' = SubSeq(line, 1, i - 1) \o SubSeq(line, i + 1, Len(line))
Passed == [ws EXCEPT !.ahead = IF @ > 0 THEN @ - 1 ELSE 0]

\* Mutant of Revived: an earlier success brings a closed socket back.
RevivedClosed == ws.status = "failed" /\ ws.credsError /\ ~ws.stopped
Revived == ws.status = "failed" /\ ws.credsError /\ ws.open /\ ~ws.stopped

Saved(s) ==
  /\ Turn(s) /\ Release(s)
  /\ row' = saver[s].snap /\ saver' = [saver EXCEPT ![s] = Resting]
  /\ ws' = IF Revived THEN [Passed EXCEPT !.status = "connected", !.credsError = FALSE]
                      ELSE Passed
  /\ UNCHANGED <<creds, late, stray, failures>>

\* An error writes nothing; a timed-out write is left on its way.
SaveFails(s) ==
  /\ Turn(s) /\ Release(s) /\ Fail
  /\ late' \in {late, late \cup {saver[s].snap}}
  /\ IF saver[s].attempt < Attempts
     THEN saver' = [saver EXCEPT ![s].at = "wait"] /\ ws' = Passed
     ELSE /\ saver' = [saver EXCEPT ![s] = Resting]
          /\ ws' = [Passed EXCEPT !.status = "failed", !.credsError = TRUE]
  /\ UNCHANGED <<creds, row, stray>>

\* The next attempt takes the credentials of its own moment: the old ones, if
\* clearAuth waits for the lock before it.
Retry(s) ==
  /\ saver[s].at = "wait" /\ Queue(s, saver[s].attempt + 1, creds)
  /\ stray' = (stray \/ ws.phase = "clearing")
  /\ UNCHANGED <<ws, creds, row, late, failures>>

Land(v) ==
  /\ v \in late /\ late' = late \ {v} /\ row' = v /\ stray' = TRUE
  /\ UNCHANGED <<ws, creds, line, saver, failures>>

-----------------------------------------------------------------------------
(* The end of a session.                                                   *)

Ended == [ws EXCEPT !.stopped = TRUE, !.sock = "none", !.open = FALSE]

\* logout: the socket says good-bye, then clearAuth waits for its turn.
Logout ==
  /\ ~ws.stopped /\ ws' = [ws EXCEPT !.stopped = TRUE, !.phase = "leaving"]
  /\ UNCHANGED Disk
FinishLogout ==
  /\ ws.phase = "leaving" /\ ws' = [Ended EXCEPT !.phase = "clearing"]
  /\ line' = Append(line, Clear)
  /\ UNCHANGED <<creds, row, saver, late, stray, failures>>

\* Mutant of Forgotten: clearAuth keeps the credentials in memory.
KeptInMemory == creds
Forgotten == 0

Cleared ==
  /\ Turn(Clear) /\ Release(Clear) /\ row' = NoRow /\ creds' = Forgotten
  /\ ws' = [ws EXCEPT !.phase = "left", !.status = "logged_out", !.credsError = FALSE]
  /\ UNCHANGED <<saver, late, stray, failures>>

\* logout() rejects: the session stays stopped, its credentials stay stored.
ClearFails ==
  /\ Turn(Clear) /\ Release(Clear) /\ Fail
  /\ late' \in {late, late \cup {NoRow}}
  /\ UNCHANGED <<ws, creds, row, saver, stray>>

\* stop waits for the operations that hold or wait for the lock now.
Stop ==
  /\ ~ws.stopped /\ ws' = [Ended EXCEPT !.phase = "stopping", !.ahead = Len(line)]
  /\ UNCHANGED Disk

Stopped ==
  /\ ws.phase = "stopping" /\ ws.ahead = 0
  /\ ws' = [ws EXCEPT !.phase = "gone", !.status = "idle"] /\ UNCHANGED Disk

\* The number's next session, in this worker or another, saves its own.
Successor ==
  /\ ws.phase = "gone" /\ row \in 0..(MaxVersion - 1) /\ row' = row + 1
  /\ UNCHANGED <<ws, creds, line, saver, late, stray, failures>>

Next ==
  \/ Qr \/ QrDrawn \/ Open \/ Close \/ Reconnect
  \/ \E s \in Saver : CredsUpdate(s) \/ Saved(s) \/ SaveFails(s) \/ Retry(s)
  \/ \E v \in Version \cup {NoRow} : Land(v)
  \/ Logout \/ FinishLogout \/ Cleared \/ ClearFails \/ Stop \/ Stopped \/ Successor

Spec == Init /\ [][Next]_vars

-----------------------------------------------------------------------------
(* Properties.                                                             *)

\* An older write never replaces newer credentials, however updates, retries
\* and failures overlap; except a timed-out write that lands later, and an
\* attempt that outlives stop(), which waitForIdle does not wait for.
OlderNeverWins == [][ row' >= row \/ row' \in {NoRow, 0} \/ late' # late \/ ws.phase = "gone" ]_vars

\* After logout no attempt that was waiting brings the old credentials back;
\* except one that queued behind clearAuth, or a timed-out write.
LogoutForgets == ws.phase = "left" /\ ~stray => row \in {NoRow, 0}

\* A number is called connected only while its socket is open: a save that
\* succeeds late does not say so of a closed one.
ConnectedIsOpen == ws.status = "connected" /\ ~ws.stopped => ws.open
=============================================================================
