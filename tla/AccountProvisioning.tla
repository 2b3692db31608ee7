------------------------ MODULE AccountProvisioning ------------------------
(***************************************************************************)
(* What creates and settles the account of one buyer: subscription events  *)
(* of Hubla (web/app/api/webhook/hubla), an ElevaPay order                 *)
(* (web/app/api/webhooks/elevapay/piloto) and the administrator            *)
(* (account-provisioning.ts).  Each writes account, user, profile and      *)
(* owner in turn, without a transaction; a request may die between two.    *)
(* A request's account bears its name.  The lookups are one step.          *)
(***************************************************************************)
EXTENDS Naturals

CONSTANTS
  Request, NoAccount, NoSub,
  Kind,     \* [Request -> {"start", "stop", "order", "admin"}]
  Key,      \* [Request -> idempotency key or order]: deliveries of one event share it
  Sub,      \* [Request -> subscription, order or NoSub]
  MaxErrors \* bound on errors and deaths

ProvisioningAssumption ==
  /\ Kind \in [Request -> {"start", "stop", "order", "admin"}]
  /\ DOMAIN Key = Request /\ DOMAIN Sub = Request /\ NoAccount \notin Request /\ MaxErrors \in Nat

Keys == {Key[r] : r \in Request}
Subs == {Sub[r] : r \in Request} \cup {NoSub}

VARIABLES
  audit,    \* hubla_webhook_events
  account,  \* accounts: account[r] is the one request r created
  user,     \* whether auth.users has the buyer's e-mail
  profile,  \* app_users: the account the buyer enters
  request,  \* request[r]: its step and the account it found
  unlinked, \* observer: an order went on although it could not write the profile
  errors

vars == <<audit, account, user, profile, request, unlinked, errors>>

TypeOK ==
  /\ audit \in [Keys -> [status : {"none", "processing", "processed", "error"},
                         account : Request \cup {NoAccount}]]
  /\ account \in [Request -> [status : {"none", "active", "ended"}, sub : Subs, owner : BOOLEAN]]
  /\ user \in BOOLEAN /\ profile \in Request \cup {NoAccount}
  /\ request \in [Request -> [at : {"start", "find", "account", "user", "profile", "owner", "update",
                                    "close", "error", "undo user", "undo", "done"},
                              account : Request \cup {NoAccount}]]
  /\ unlinked \in BOOLEAN /\ errors \in 0..MaxErrors

Init ==
  /\ audit = [k \in Keys |-> [status |-> "none", account |-> NoAccount]]
  /\ account = [r \in Request |-> [status |-> "none", sub |-> NoSub, owner |-> FALSE]]
  /\ user = FALSE /\ profile = NoAccount
  /\ request = [r \in Request |-> [at |-> "start", account |-> NoAccount]]
  /\ unlinked = FALSE /\ errors = 0

At(r, s) == request[r].at = s
Goto(r, s) == request' = [request EXCEPT ![r].at = s]
Error == errors < MaxErrors /\ errors' = errors + 1
Hubla(r) == Kind[r] \in {"start", "stop"}
Catch(r) == Goto(r, IF Hubla(r) THEN "error" ELSE IF Kind[r] = "admin" THEN "undo user" ELSE "done")

\* hubla_subscription_id is unique.
Taken(s) == \E a \in Request : s # NoSub /\ account[a].sub = s

\* Hubla's event is written first: a key that is known is a duplicate, whatever
\* became of it.
Audit(r) ==
  /\ At(r, "start")
  /\ IF ~Hubla(r) THEN Goto(r, "find") /\ UNCHANGED audit
     ELSE IF audit[Key[r]].status # "none" THEN Goto(r, "done") /\ UNCHANGED audit
     ELSE Goto(r, "find") /\ audit' = [audit EXCEPT ![Key[r]].status = "processing"]
  /\ UNCHANGED <<account, user, profile, unlinked, errors>>

\* The account of the subscription, or of the e-mail.
Find(r) ==
  LET bySub == {a \in Request : account[a].sub = Sub[r] /\ Sub[r] # NoSub}
      known == IF bySub # {} THEN CHOOSE a \in bySub : TRUE ELSE profile
  IN /\ At(r, "find")
     /\ request' = [request EXCEPT ![r] =
          [at |-> IF Kind[r] = "order" /\ bySub # {} THEN "done"
                  ELSE IF known # NoAccount THEN IF Kind[r] = "admin" THEN "done" ELSE "update"
                  ELSE IF Kind[r] = "stop" THEN "error" ELSE "account",
           account |-> known]]
     /\ UNCHANGED <<audit, account, user, profile, unlinked, errors>>

NewAccount(r) ==
  /\ At(r, "account")
  /\ IF Taken(Sub[r]) THEN Goto(r, IF Hubla(r) THEN "error" ELSE "done") /\ UNCHANGED account
     ELSE /\ account' = [account EXCEPT ![r] = [status |-> "active", sub |-> Sub[r], owner |-> FALSE]]
          /\ Goto(r, "user")
  /\ UNCHANGED <<audit, user, profile, unlinked, errors>>

\* Mutant of Refused: Hubla goes on with the user that exists.
Reused(r) == Goto(r, "profile")
\* The e-mail has a user already, or Auth fails: Hubla leaves its account.
Refused(r) == Goto(r, IF Hubla(r) THEN "error" ELSE "undo")

\* Auth, and the trigger that writes the profile of the account in the metadata
\* (handle_new_app_user), which an order does not name there.
NewUser(r) ==
  /\ At(r, "user")
  /\ \/ /\ ~user /\ user' = TRUE /\ Goto(r, "profile")
        /\ profile' = IF Kind[r] = "order" THEN profile ELSE r
        /\ UNCHANGED errors
     \/ user /\ Refused(r) /\ UNCHANGED <<user, profile, errors>>
     \/ ~user /\ Error /\ Refused(r) /\ UNCHANGED <<user, profile>>
  /\ UNCHANGED <<audit, account, unlinked>>

\* An order reads the result only after the owner's update.
Profile(r) ==
  /\ At(r, "profile")
  /\ \/ profile' = r /\ Goto(r, "owner") /\ UNCHANGED <<unlinked, errors>>
     \/ /\ Error /\ UNCHANGED profile
        /\ IF Kind[r] = "order" THEN Goto(r, "owner") /\ unlinked' = TRUE
                                ELSE Catch(r) /\ UNCHANGED unlinked
  /\ UNCHANGED <<audit, account, user>>

\* owner_user_id is unique.
LinkOwner(r) ==
  /\ At(r, "owner")
  /\ \/ /\ \A a \in Request : ~account[a].owner
        /\ account' = [account EXCEPT ![r].owner = TRUE]
        /\ request' = [request EXCEPT ![r] = [at |-> IF Hubla(r) THEN "update" ELSE "done",
                                              account |-> r]]
        /\ UNCHANGED errors
     \/ Error /\ Catch(r) /\ UNCHANGED account
  /\ UNCHANGED <<audit, user, profile, unlinked>>

Update(r) ==
  LET a == request[r].account
      clash == account[a].sub # Sub[r] /\ Taken(Sub[r])
  IN /\ At(r, "update")
     /\ IF clash THEN Catch(r) /\ UNCHANGED account
        ELSE /\ Goto(r, IF Hubla(r) THEN "close" ELSE "done")
             /\ account' = IF account[a].status = "none" THEN account
                ELSE [account EXCEPT ![a].status = IF Kind[r] = "stop" THEN "ended" ELSE "active",
                                     ![a].sub = IF Sub[r] = NoSub THEN @ ELSE Sub[r]]
     /\ UNCHANGED <<audit, user, profile, unlinked, errors>>

\* A processed event refers to an account that exists.
Close(r) ==
  /\ At(r, "close") /\ Goto(r, "done")
  /\ audit' = IF account[request[r].account].status = "none" THEN audit
              ELSE [audit EXCEPT ![Key[r]] = [status |-> "processed", account |-> request[r].account]]
  /\ UNCHANGED <<account, user, profile, unlinked, errors>>

CloseError(r) ==
  /\ At(r, "error") /\ Goto(r, "done") /\ audit' = [audit EXCEPT ![Key[r]].status = "error"]
  /\ UNCHANGED <<account, user, profile, unlinked, errors>>

\* The administrator's compensation: the user, whose profile goes with it, and
\* the account; neither goes while something refers to it.
UndoUser(r) ==
  /\ At(r, "undo user") /\ Goto(r, "undo")
  /\ IF \E a \in Request : account[a].owner THEN UNCHANGED <<user, profile>>
     ELSE user' = FALSE /\ profile' = NoAccount
  /\ UNCHANGED <<audit, account, unlinked, errors>>
Undo(r) ==
  /\ At(r, "undo") /\ Goto(r, "done")
  /\ account' = IF profile = r \/ \E k \in Keys : audit[k].account = r THEN account
                ELSE [account EXCEPT ![r] = [status |-> "none", sub |-> NoSub, owner |-> FALSE]]
  /\ UNCHANGED <<audit, user, profile, unlinked, errors>>

\* The function is ended: nothing resumes the request.
Die(r) ==
  /\ request[r].at \notin {"start", "done"} /\ Error /\ Goto(r, "done")
  /\ UNCHANGED <<audit, account, user, profile, unlinked>>

Next == \E r \in Request :
  \/ Audit(r) \/ Find(r) \/ NewAccount(r) \/ NewUser(r) \/ Profile(r) \/ LinkOwner(r) \/ Update(r)
  \/ Close(r) \/ CloseError(r) \/ UndoUser(r) \/ Undo(r) \/ Die(r)

Spec == Init /\ [][Next]_vars

\* The account that a buyer owns is the account the buyer enters, although events
\* of one purchase, an order and the administrator create accounts at once and
\* any of them stops half-way; except an order that could not write the profile.
OwnerEnters == ~unlinked => \A a \in Request : account[a].owner => profile = a
=============================================================================
