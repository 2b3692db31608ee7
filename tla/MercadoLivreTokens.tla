------------------------- MODULE MercadoLivreTokens -------------------------
(***************************************************************************)
(* The tokens of the Mercado Livre integration (mercado-livre-token-       *)
(* manager.ts): one row, read by every caller, renewed under a service     *)
(* lock that is never released and lives 20 s.  A renewal token is spent   *)
(* by its use; the access token that comes with it expires.  External:     *)
(* api.mercadolibre.com/oauth/token, of which only that is assumed.        *)
(***************************************************************************)
EXTENDS Naturals

CONSTANTS Caller, NoCaller, MaxTokens

TokensAssumption == NoCaller \notin Caller /\ MaxTokens \in Nat \ {0}

VARIABLES
  tokens,   \* the row: the pair stored (0: none), its expiry and the status
  issued,   \* the last pair that Mercado Livre issued; the others are spent
  lock,     \* holder of the lock, and whether the 20 s are still running
  caller,   \* caller[c]: step of getMercadoLivreAccessToken, and the pair it holds
  crossed   \* observer: a slow or failed save, or a person during a renewal

vars == <<tokens, issued, lock, caller, crossed>>

TypeOK ==
  /\ tokens \in [pair : 0..MaxTokens, fresh : BOOLEAN,
                 status : {"connected", "disconnected", "error", "reauthorization_required"}]
  /\ issued \in 0..MaxTokens
  /\ lock \in [holder : Caller \cup {NoCaller}, live : BOOLEAN]
  /\ caller \in [Caller -> [at : {"idle", "lock", "read", "exchange", "save", "mark", "poll",
                                  "call", "again"},
                            pair : 0..MaxTokens, forced : BOOLEAN]]
  /\ crossed \in BOOLEAN

Idle == [at |-> "idle", pair |-> 0, forced |-> FALSE]

Init ==
  /\ tokens = [pair |-> 0, fresh |-> FALSE, status |-> "disconnected"]
  /\ issued = 0 /\ lock = [holder |-> NoCaller, live |-> FALSE]
  /\ caller = [c \in Caller |-> Idle] /\ crossed = FALSE

At(c, s) == caller[c].at = s
Goto(c, s) == caller' = [caller EXCEPT ![c].at = s]
Step == {"read", "exchange", "save"}
Renewing == \E c \in Caller : caller[c].at \in Step

\* The first read: a fresh token is used as it is.
Get(c) ==
  /\ At(c, "idle") /\ tokens.pair # 0
  /\ caller' = [caller EXCEPT ![c] = [at |-> IF tokens.fresh THEN "call" ELSE "lock",
                                      pair |-> tokens.pair, forced |-> FALSE]]
  /\ UNCHANGED <<tokens, issued, lock, crossed>>

\* Mutant of Free: the lock of another is not looked at.
AlwaysFree == TRUE
Free == ~lock.live

\* acquire_service_lock; every renewal has a name of its own.
Acquire(c) ==
  /\ At(c, "lock")
  /\ IF Free THEN lock' = [holder |-> c, live |-> TRUE] /\ Goto(c, "read")
             ELSE Goto(c, "poll") /\ UNCHANGED lock
  /\ UNCHANGED <<tokens, issued, crossed>>

\* The row is read again under the lock.
Used(c) == tokens.pair

Read(c) ==
  /\ At(c, "read")
  /\ caller' = IF Used(c) = 0 THEN [caller EXCEPT ![c] = Idle]
               ELSE [caller EXCEPT ![c].at = "exchange", ![c].pair = Used(c)]
  /\ UNCHANGED <<tokens, issued, lock, crossed>>

\* Mercado Livre answers; a spent token, or its silence, is an error, and so is
\* the answer that is lost after the token was spent.
Exchange(c) ==
  /\ At(c, "exchange")
  /\ \/ /\ caller[c].pair = issued /\ issued < MaxTokens /\ issued' = issued + 1
        /\ \/ /\ caller' = [caller EXCEPT ![c].at = "save", ![c].pair = issued + 1]
              /\ UNCHANGED crossed
           \/ Goto(c, "mark") /\ crossed' = TRUE
     \/ Goto(c, "mark") /\ UNCHANGED <<issued, crossed>>
  /\ UNCHANGED <<tokens, lock>>

\* saveTokens, by id alone.
Save(c) ==
  /\ At(c, "save")
  /\ \/ /\ tokens' = [pair |-> caller[c].pair, fresh |-> TRUE, status |-> "connected"]
        /\ Goto(c, IF caller[c].forced THEN "again" ELSE "call") /\ UNCHANGED crossed
     \/ Goto(c, "mark") /\ crossed' = TRUE /\ UNCHANGED tokens
  /\ UNCHANGED <<issued, lock>>

MarkError(c) ==
  /\ At(c, "mark") /\ tokens' = [tokens EXCEPT !.status = "error"]
  /\ caller' = [caller EXCEPT ![c] = Idle]
  /\ UNCHANGED <<issued, lock, crossed>>

\* Others wait at most 2.1 s for a fresh token, and then use what is stored.
Poll(c) ==
  /\ At(c, "poll")
  /\ caller' = IF tokens.pair = 0 THEN [caller EXCEPT ![c] = Idle]
               ELSE [caller EXCEPT ![c].at = IF caller[c].forced THEN "again" ELSE "call",
                                   ![c].pair = tokens.pair]
  /\ UNCHANGED <<tokens, issued, lock, crossed>>

\* withMercadoLivreAuthRetry: a refusal is answered with one forced renewal.
Call(c) ==
  /\ At(c, "call")
  /\ \/ caller' = [caller EXCEPT ![c] = Idle]
     \/ caller' = [caller EXCEPT ![c].at = "lock", ![c].forced = TRUE]
  /\ UNCHANGED <<tokens, issued, lock, crossed>>
CallAgain(c) ==
  /\ At(c, "again") /\ caller' = [caller EXCEPT ![c] = Idle]
  /\ tokens' \in {tokens, [tokens EXCEPT !.status = "reauthorization_required"]}
  /\ UNCHANGED <<issued, lock, crossed>>

\* A caller dies with its function.
Die(c) ==
  /\ ~At(c, "idle") /\ caller' = [caller EXCEPT ![c] = Idle]
  /\ crossed' = (crossed \/ At(c, "save"))
  /\ UNCHANGED <<tokens, issued, lock>>

\* The 20 s pass, whatever the holder does.
LockEnds ==
  /\ lock.live /\ lock' = [lock EXCEPT !.live = FALSE]
  /\ crossed' = (crossed \/ caller[lock.holder].at \in Step)
  /\ UNCHANGED <<tokens, issued, caller>>

TokenEnds ==
  /\ tokens.fresh /\ tokens' = [tokens EXCEPT !.fresh = FALSE]
  /\ UNCHANGED <<issued, lock, caller, crossed>>

\* completeMercadoLivreAuthorization and disconnectMercadoLivre, by people.
Connect ==
  /\ issued < MaxTokens /\ issued' = issued + 1
  /\ tokens' = [pair |-> issued + 1, fresh |-> TRUE, status |-> "connected"]
  /\ crossed' = Renewing
  /\ UNCHANGED <<lock, caller>>
Disconnect ==
  /\ tokens.pair # 0
  /\ tokens' = [pair |-> 0, fresh |-> FALSE, status |-> "disconnected"]
  /\ crossed' = (crossed \/ Renewing)
  /\ UNCHANGED <<issued, lock, caller>>

Next ==
  \/ \E c \in Caller : \/ Get(c) \/ Acquire(c) \/ Read(c) \/ Exchange(c) \/ Save(c)
                       \/ MarkError(c) \/ Poll(c) \/ Call(c) \/ CallAgain(c) \/ Die(c)
  \/ LockEnds \/ TokenEnds \/ Connect \/ Disconnect

Spec == Init /\ [][Next]_vars

\* Callers that expire together, or are refused together, never present a token
\* that another has spent, and between renewals the stored pair can be renewed;
\* except around a renewal that outlived the lock, lost its answer or its save,
\* died before it, or crossed a person who connected or disconnected.
NeverSpent ==
  ~crossed => /\ \A c \in Caller : At(c, "exchange") => caller[c].pair = issued
              /\ ~Renewing /\ tokens.pair # 0 => tokens.pair = issued
=============================================================================
