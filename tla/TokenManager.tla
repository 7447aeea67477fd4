----------------------------- MODULE TokenManager -----------------------------
(***************************************************************************)
(* OAuthTokenManager (packages/oauth/src/token-manager.ts) at work on one  *)
(* connection: calls of several processes obtain access tokens, refresh    *)
(* them under the connection's lock, and complete authorization callbacks. *)
(* A call is a program counter and the locals it carries over its awaits;  *)
(* between two awaits it is atomic.                                        *)
(*                                                                         *)
(* The lock is what LeaseLock implements.  The authorization server is     *)
(* external: it honours the last refresh token of a grant, may rotate it   *)
(* when it is used, and may revoke the grant when a spent one comes back.  *)
(* Left out: DPoP keys and nonces, scopes, client registrations and the    *)
(* wording of last_error.                                                  *)
(***************************************************************************)
EXTENDS ConnectionStore, CircuitBreaker

CONSTANTS
  Process,      \* gateway replicas and workers
  Call,         \* slots for calls
  Home,         \* the process each call runs in
  MaxRetries,   \* config.maxRefreshRetries
  MaxGen,       \* bound: rotations of one grant
  MaxVersion    \* bound: token_version

ASSUME HomeAssumption == Home \in [Call -> Process]
ASSUME RetriesAssumption == MaxRetries \in Nat
ASSUME BoundsAssumption == MaxGen \in Nat /\ MaxVersion \in Nat

VARIABLES
  pc,           \* where each call is
  early,        \* minRemainingMs was given (the worker's refresh horizon)
  snap,         \* the row as the call read it (what it uses of it later)
  got,          \* the token set it was answered
  tries,        \* refresh attempts already repeated
  tx,           \* the transaction of an authorization callback
  breaker,      \* breakers of each process, for this connection
  holders, lapsed,   \* the lock oauth-refresh:<id> (module Lease)
  last,         \* server: last generation of refresh token of each grant
  revoked,      \* server: grants it no longer honours
  sent,         \* history: how often each transaction's code was presented
  mishap,       \* history: a rotation was lost where no code can help it
  does          \* does[c]: the operations slot c is used for; never changes

callVars == <<pc, early, snap, got, tries, tx>>
lockVars == <<holders, lapsed>>
serverVars == <<last, revoked>>
vars == <<storeVars, callVars, breaker, lockVars, serverVars, sent, mishap, does>>

Lock == INSTANCE Lease

Blank == [status |-> "GONE", ver |-> 0, at |-> None, rt |-> None]

TokenSet == [at : Line, rt : RefreshToken \cup {None}]

InLock == {"refresh", "store", "current", "degrade", "refused", "leave"}

TokenPC == {"idle", "markReauth", "waitLock", "consume", "exchange",
            "storeCode", "activate"} \cup InLock

ManagerTypeOK(PCs) ==
  /\ StoreTypeOK
  /\ pc \in [Call -> PCs]
  /\ early \in [Call -> BOOLEAN]
  /\ snap \in [Call -> Row]
  /\ got \in [Call -> TokenSet \cup {None}]
  /\ tries \in [Call -> 0..MaxRetries]
  /\ tx \in [Call -> Txn \cup {None}]
  /\ breaker \in [Process -> Breaker]
  /\ holders \subseteq Call
  /\ lapsed \in BOOLEAN
  /\ last \in [Line -> Nat]
  /\ revoked \subseteq Line
  /\ sent \in [Txn -> Nat]
  /\ mishap \in BOOLEAN

(***************************************************************************)
(* Control                                                                 *)
(***************************************************************************)

Goto(c, s) == pc' = [pc EXCEPT ![c] = s]

Forget(c) ==
  /\ early' = [early EXCEPT ![c] = FALSE]
  /\ snap' = [snap EXCEPT ![c] = Blank]
  /\ got' = [got EXCEPT ![c] = None]
  /\ tries' = [tries EXCEPT ![c] = 0]
  /\ tx' = [tx EXCEPT ![c] = None]

\* Of the row it read, a call is left with the columns it looks at later.
Remember(c, columns) == snap' = [snap EXCEPT ![c] = columns]

\* The call is over, with an answer or an error.
Return(c) == Goto(c, "idle") /\ Forget(c)

\* The critical section is over but for the release of the lock.
EndSection(c) == Goto(c, "leave") /\ Forget(c)

CountFailure(c) ==
  breaker' = [breaker EXCEPT ![Home[c]] = RecordFailure(@)]

CountSuccess(c) ==
  breaker' = [breaker EXCEPT ![Home[c]] = RecordSuccess(@)]

(***************************************************************************)
(* getValidAccessToken                                                     *)
(***************************************************************************)

\* assertUsable
Serves(status) == status \notin {"REAUTH_REQUIRED", "DISABLED"}

\* isAccessTokenUsable, of the row as it is now
TokenUsable(horizon) ==
  row.at # None /\ (age = "fresh" \/ (age = "due" /\ ~horizon))

\* A call that is served from the row, or refused by its status, changes
\* nothing.  The others need a refresh, or a user when there is none to do.
GetToken(c, horizon) ==
  /\ pc[c] = "idle"
  /\ ~Gone /\ Serves(row.status)
  /\ ~TokenUsable(horizon)
  /\ \/ row.rt # None /\ Goto(c, "waitLock")
     \/ row.rt = None /\ ~TokenUsable(FALSE) /\ Goto(c, "markReauth")
  /\ early' = [early EXCEPT ![c] = horizon]
  /\ UNCHANGED <<storeVars, snap, got, tries, tx, breaker, lockVars,
                 serverVars, sent, mishap, does>>

MarkReauth(c) ==
  /\ pc[c] = "markReauth"
  /\ SetStatus("REAUTH_REQUIRED")
  /\ Return(c)
  /\ UNCHANGED <<age, txn, late, breaker, lockVars, serverVars, sent, mishap, does>>

\* waitMs passed.
LockTimeout(c) ==
  /\ pc[c] = "waitLock"
  /\ Return(c)
  /\ UNCHANGED <<storeVars, breaker, lockVars, serverVars, sent, mishap, does>>

\* In the lock, the row is read again: it may have been refreshed meanwhile.
AcquireAndRead(c) ==
  /\ pc[c] = "waitLock"
  /\ Lock!Grant(c)
  /\ \/ /\ Gone \/ ~Serves(row.status) \/ TokenUsable(early[c])
        /\ EndSection(c)
        /\ UNCHANGED breaker
     \/ /\ ~Gone /\ Serves(row.status) /\ ~TokenUsable(early[c])
        /\ \E cooled \in BOOLEAN :
             LET b == breaker[Home[c]] IN
             /\ breaker' = [breaker EXCEPT ![Home[c]] = AfterIsOpen(b, cooled)]
             /\ IF IsOpen(b, cooled) \/ row.rt = None
                THEN EndSection(c)
                ELSE /\ Goto(c, "refresh")
                     /\ Remember(c, [row EXCEPT !.at = None])
                     /\ UNCHANGED <<early, got, tries, tx>>
  /\ UNCHANGED <<storeVars, serverVars, sent, mishap, does>>

(***************************************************************************)
(* refreshLocked                                                           *)
(***************************************************************************)

Honoured(token) == token[1] \notin revoked /\ token[2] = last[token[1]]

\* Mutant of RetryOrDegrade: one attempt too many.
RetryOnceMore(c) ==
  /\ got' = [got EXCEPT ![c] = None]
  /\ IF tries[c] <= MaxRetries
     THEN /\ tries' = [tries EXCEPT ![c] = @ + 1]
          /\ Goto(c, "refresh")
          /\ UNCHANGED breaker
     ELSE /\ CountFailure(c)
          /\ Goto(c, "degrade")
          /\ UNCHANGED tries
  /\ UNCHANGED <<early, snap, tx>>

\* A TRANSIENT failure: once more, or count it and degrade the connection.
RetryOrDegrade(c) ==
  /\ got' = [got EXCEPT ![c] = None]
  /\ IF tries[c] < MaxRetries
     THEN /\ tries' = [tries EXCEPT ![c] = @ + 1]
          /\ Goto(c, "refresh")
          /\ UNCHANGED breaker
     ELSE /\ CountFailure(c)
          /\ Goto(c, "degrade")
          /\ UNCHANGED tries
  /\ UNCHANGED <<early, snap, tx>>

\* The server rotates the token presented, or leaves it in force.
Rotate(line, rotates) ==
  /\ rotates => last[line] < MaxGen
  /\ last' = [last EXCEPT ![line] = IF rotates THEN @ + 1 ELSE @]

RefreshGranted(c) ==
  LET line == snap[c].rt[1] IN
  /\ pc[c] = "refresh"
  /\ Honoured(snap[c].rt)
  /\ snap[c].ver < MaxVersion
  /\ \E rotates \in BOOLEAN :
       /\ Rotate(line, rotates)
       /\ got' = [got EXCEPT ![c] =
            [at |-> line, rt |-> IF rotates THEN <<line, last[line] + 1>> ELSE None]]
  /\ CountSuccess(c)
  /\ Goto(c, "store")
  /\ UNCHANGED <<storeVars, early, snap, tries, tx, lockVars, revoked, sent, mishap, does>>

\* The server rotated the token and its answer did not arrive.
RefreshAnswerLost(c) ==
  /\ pc[c] = "refresh"
  /\ Honoured(snap[c].rt)
  /\ Rotate(snap[c].rt[1], TRUE)
  /\ RetryOrDegrade(c)
  /\ mishap' = TRUE
  /\ UNCHANGED <<storeVars, lockVars, revoked, sent, does>>

\* A 5xx, or no connection.
RefreshUnavailable(c) ==
  /\ pc[c] = "refresh"
  /\ RetryOrDegrade(c)
  /\ UNCHANGED <<storeVars, lockVars, serverVars, sent, mishap, does>>

\* invalid_grant, invalid_client, invalid_scope: terminal.  The server may
\* take a spent token for a stolen one and revoke the whole grant.
RefreshRefused(c) ==
  LET line == snap[c].rt[1] IN
  /\ pc[c] = "refresh"
  /\ \/ UNCHANGED revoked
     \/ snap[c].rt[2] # last[line] /\ revoked' = revoked \cup {line}
  /\ CountFailure(c)
  /\ Goto(c, "refused")
  /\ UNCHANGED <<storeVars, early, snap, got, tries, tx, lockVars, last, sent, mishap, does>>

\* persistTokens.  When the swap does not apply, the call is to serve what is
\* current.
StoreTokens(c) ==
  /\ pc[c] = "store"
  /\ UpdateTokens(snap[c].ver, got[c].at,
                  IF got[c].rt = None THEN snap[c].rt ELSE got[c].rt)
  /\ IF SwapApplies(snap[c].ver)
     THEN EndSection(c)
     ELSE /\ Goto(c, "current")
          /\ got' = [got EXCEPT ![c] = None]
          /\ UNCHANGED <<early, snap, tries, tx>>
  /\ UNCHANGED <<txn, late, breaker, lockVars, serverVars, sent, mishap, does>>

\* The row is read again, within the try: that it is gone, holds no access
\* token, or cannot be read is a TRANSIENT failure, and the next attempt
\* presents the token read before.
ServeCurrent(c) ==
  /\ pc[c] = "current"
  /\ \/ ~Gone /\ row.at # None /\ EndSection(c) /\ UNCHANGED breaker
     \/ RetryOrDegrade(c)
  /\ UNCHANGED <<storeVars, lockVars, serverVars, sent, mishap, does>>

\* The store failed inside the try: a TRANSIENT failure like any other, and
\* the next attempt presents the token read before.
StoreTokensFails(c) ==
  /\ pc[c] = "store"
  /\ RetryOrDegrade(c)
  /\ mishap' = (mishap \/ got[c].rt # None)
  /\ UNCHANGED <<storeVars, lockVars, serverVars, sent, does>>

\* applyRefreshFailure, TRANSIENT: from the status read before the attempts.
Degrade(c) ==
  /\ pc[c] = "degrade"
  /\ SetStatus(IF snap[c].status = "CONNECTED" THEN "DEGRADED" ELSE snap[c].status)
  /\ EndSection(c)
  /\ UNCHANGED <<age, txn, late, breaker, lockVars, serverVars, sent, mishap, does>>

\* applyRefreshFailure, the terminal kinds.
MarkRefused(c) ==
  /\ pc[c] = "refused"
  /\ SetStatus("REAUTH_REQUIRED")
  /\ EndSection(c)
  /\ UNCHANGED <<age, txn, late, breaker, lockVars, serverVars, sent, mishap, does>>

LeaveLock(c) ==
  /\ pc[c] = "leave"
  /\ Lock!Leave({c})
  /\ Return(c)
  /\ UNCHANGED <<storeVars, breaker, serverVars, sent, mishap, does>>

\* The process stalls past the lease, or cannot reach the store to renew it.
LeaseLapses(c) ==
  /\ c \in holders
  /\ ~lapsed
  /\ Lock!Lapse
  /\ UNCHANGED <<storeVars, callVars, breaker, serverVars, sent, mishap, does>>

(***************************************************************************)
(* exchangeCode                                                            *)
(***************************************************************************)

\* The callback of t arrives, for the first time or again: the transaction is
\* read, failed if it is past its time or its connection gone.
Callback(c, t) ==
  /\ pc[c] = "idle"
  /\ Found(t)
  /\ IF late[t] \/ Gone
     THEN Fail(t) /\ UNCHANGED callVars
     ELSE /\ Goto(c, "consume")
          /\ Remember(c, [Blank EXCEPT !.ver = row.ver, !.rt = row.rt])
          /\ tx' = [tx EXCEPT ![c] = t]
          /\ UNCHANGED <<txn, early, got, tries>>
  /\ UNCHANGED <<row, age, late, breaker, lockVars, serverVars, sent, mishap, does>>

ConsumeTransaction(c) ==
  /\ pc[c] = "consume"
  /\ Consume(tx[c])
  /\ IF Consumable(tx[c])
     THEN Goto(c, "exchange") /\ UNCHANGED <<early, snap, got, tries, tx>>
     ELSE Return(c)
  /\ UNCHANGED <<row, age, late, breaker, lockVars, serverVars, sent, mishap, does>>

\* The code is presented: refused or unanswered, or a grant begins, with a
\* refresh token or without.
PresentCode(c) ==
  LET t == tx[c] IN
  /\ pc[c] = "exchange"
  /\ sent' = [sent EXCEPT ![t] = @ + 1]
  /\ \/ Return(c) /\ UNCHANGED last
     \/ /\ sent[t] = 0
        /\ snap[c].ver < MaxVersion
        /\ \E refreshable \in BOOLEAN :
             /\ last' = [last EXCEPT ![t] = IF refreshable THEN 1 ELSE 0]
             /\ got' = [got EXCEPT ![c] =
                  [at |-> t, rt |-> IF refreshable THEN <<t, 1>> ELSE None]]
        /\ Goto(c, "storeCode")
        /\ UNCHANGED <<early, snap, tries, tx>>
  /\ UNCHANGED <<storeVars, breaker, lockVars, revoked, mishap, does>>

\* A grant without a refresh token keeps the one of the row it read: out of
\* the lock, so a refresh may be spending that token now.
KeepsTokenInUse(c) ==
  /\ got[c].rt = None
  /\ SwapApplies(snap[c].ver)
  /\ \E d \in Call : pc[d] \in {"refresh", "store"} /\ snap[d].ver = row.ver

\* persistTokens again; whether the swap applied is not looked at.
StoreGrant(c) ==
  /\ pc[c] = "storeCode"
  /\ UpdateTokens(snap[c].ver, got[c].at,
                  IF got[c].rt = None THEN snap[c].rt ELSE got[c].rt)
  /\ mishap' = (mishap \/ KeepsTokenInUse(c))
  /\ Goto(c, "activate")
  /\ UNCHANGED <<txn, late, early, snap, got, tries, tx, breaker, lockVars,
                 serverVars, sent, does>>

StoreGrantFails(c) ==
  /\ pc[c] = "storeCode"
  /\ Return(c)
  /\ UNCHANGED <<storeVars, breaker, lockVars, serverVars, sent, mishap, does>>

=============================================================================
