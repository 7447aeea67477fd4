---------------------------- MODULE GrantLifecycle ----------------------------
(***************************************************************************)
(* The life of one OAuth connection: the token manager's calls (module     *)
(* TokenManager) interleaved with what ConnectionService                   *)
(* (packages/federation/src/connection-service.ts), the gateway handler    *)
(* and the background worker write to the same row, each out of the lock   *)
(* and from the row it read some awaits before; and with crashes.          *)
(*                                                                         *)
(* Left out: discovery and registration (they may fail anywhere before the *)
(* writes modelled), the catalogue itself, aliases, audit and metrics.     *)
(***************************************************************************)
EXTENDS TokenManager

CONSTANTS
  Start,     \* the grant the connection starts with
  Workloads  \* for what the slots are used: each a function from calls to
             \* sets of operations; a behaviour has one of them

ASSUME StartAssumption == Start \in Line \ Txn
ASSUME WorkloadsAssumption ==
  Workloads \subseteq [Call -> SUBSET {"token", "early", "callback", "authorize",
                      "sync", "disable", "call", "disconnect", "rewrap",
                      "stall", "crash"}]

ServicePC == {"prepare", "prepared", "transact", "sync", "listing",
              "unauthorized", "enable", "revoke", "revokeWrite", "delete", "rewrap"}

TypeOK == ManagerTypeOK(TokenPC \cup ServicePC) /\ does \in Workloads

\* A connection authorized some time ago.
Init ==
  /\ row = [status |-> "CONNECTED", ver |-> 2, at |-> Start, rt |-> <<Start, 1>>]
  /\ age = "fresh"
  /\ txn = [t \in Txn |-> "absent"]
  /\ late = [t \in Txn |-> FALSE]
  /\ pc = [c \in Call |-> "idle"]
  /\ early = [c \in Call |-> FALSE]
  /\ snap = [c \in Call |-> Blank]
  /\ got = [c \in Call |-> None]
  /\ tries = [c \in Call |-> 0]
  /\ tx = [c \in Call |-> None]
  /\ breaker = [p \in Process |-> Closed]
  /\ Lock!LeaseInit
  /\ last = [l \in Line |-> IF l = Start THEN 1 ELSE 0]
  /\ revoked = {}
  /\ sent = [t \in Txn |-> 0]
  /\ mishap = FALSE
  /\ does \in Workloads

(***************************************************************************)
(* Control                                                                 *)
(***************************************************************************)

\* An operation begins by reading the row; it goes no further without one.
ReadRow(c, s, columns) ==
  /\ ~Gone
  /\ Goto(c, s)
  /\ Remember(c, columns)
  /\ UNCHANGED <<early, got, tries, tx>>

\* An update of a deleted row throws: the operation ends there.
GotoIfUpdated(c, s) == Goto(c, IF Gone THEN "idle" ELSE s) /\ Forget(c)

\* What no step of this module touches.
Elsewhere == <<age, late, breaker, lockVars, last, sent, does>>

(***************************************************************************)
(* startAuthorization                                                      *)
(***************************************************************************)

StartAuthorization(c) ==
  /\ pc[c] = "idle"
  /\ ReadRow(c, "prepare", [Blank EXCEPT !.ver = row.ver])
  /\ UNCHANGED <<row, txn, revoked, mishap, Elsewhere>>

\* Discovery names the issuer the grant is bound to, or fails.
IssuerKept(c) ==
  /\ pc[c] = "prepare"
  /\ Goto(c, "prepared") \/ Goto(c, "idle")
  /\ Forget(c)
  /\ UNCHANGED <<row, txn, revoked, mishap, Elsewhere>>

\* The resource moved to another issuer: the old grant is dropped, and the
\* version is one more than the one that was read. Where the row has been
\* stored to since, a version in use is given to another content: a mishap.
IssuerMoved(c) ==
  /\ pc[c] = "prepare"
  /\ snap[c].ver < MaxVersion
  /\ Update([row EXCEPT !.at = None, !.rt = None, !.ver = snap[c].ver + 1])
  /\ mishap' = (mishap \/ (~Gone /\ row.ver # snap[c].ver))
  /\ GotoIfUpdated(c, "prepared")
  /\ UNCHANGED <<txn, revoked, Elsewhere>>

\* A client is registered or found: the user is to authorize.
AwaitAuthorization(c) ==
  /\ pc[c] = "prepared"
  /\ SetStatus("AUTHORIZATION_REQUIRED")
  /\ GotoIfUpdated(c, "transact")
  /\ UNCHANGED <<txn, revoked, mishap, Elsewhere>>

\* None can be: the user is to supply one.
AwaitClient(c) ==
  /\ pc[c] = "prepared"
  /\ SetStatus("CLIENT_CREDENTIALS_REQUIRED")
  /\ Return(c)
  /\ UNCHANGED <<txn, revoked, mishap, Elsewhere>>

OpenTransaction(c, t) ==
  /\ pc[c] = "transact"
  /\ CreateTransaction(t)
  /\ Return(c)
  /\ UNCHANGED <<row, revoked, mishap, Elsewhere>>

\* The transaction cannot be stored, or there is no slot left for it.
OpenTransactionFails(c) ==
  /\ pc[c] = "transact"
  /\ Return(c)
  /\ UNCHANGED <<row, txn, revoked, mishap, Elsewhere>>

(***************************************************************************)
(* syncCatalogue: refresh, the worker's resync, the end of a callback      *)
(***************************************************************************)

ReadForSync(c) ==
  /\ pc[c] = "idle"
  /\ ReadRow(c, "sync", [Blank EXCEPT !.status = row.status])
  /\ UNCHANGED <<row, txn, revoked, mishap, Elsewhere>>

\* activateConnection, after the callback's grant was handed to the store.
Activate(c) ==
  /\ pc[c] = "activate"
  /\ IF Gone THEN Return(c)
     ELSE /\ Goto(c, "sync")
          /\ Remember(c, [Blank EXCEPT !.status = row.status])
          /\ got' = [got EXCEPT ![c] = None]
          /\ tx' = [tx EXCEPT ![c] = None]
          /\ UNCHANGED <<early, tries>>
  /\ UNCHANGED <<row, txn, revoked, mishap, Elsewhere>>

\* Every upstream request asks for a token, and so needs a usable status.
ListUpstream(c) ==
  /\ pc[c] = "sync"
  /\ ~Gone /\ Serves(row.status)
  /\ Goto(c, "listing")
  /\ UNCHANGED <<early, snap, got, tries, tx>>
  /\ UNCHANGED <<row, txn, revoked, mishap, Elsewhere>>

\* The catalogue is stored; the status follows from the one read before.
SyncDone(c) ==
  /\ pc[c] = "listing"
  /\ SetStatus(IF snap[c].status = "CONNECTED_NON_REFRESHABLE"
               THEN "CONNECTED_NON_REFRESHABLE" ELSE "CONNECTED")
  /\ Return(c)
  /\ UNCHANGED <<txn, revoked, mishap, Elsewhere>>

\* A request is refused a token: a user has to authorize first.
MeetUnauthorized(c) ==
  /\ pc[c] \in {"sync", "listing"}
  /\ ~Gone
  /\ row.status = "REAUTH_REQUIRED" \/ (row.rt = None /\ ~TokenUsable(FALSE))
  /\ Goto(c, "unauthorized")
  /\ UNCHANGED <<early, snap, got, tries, tx>>
  /\ UNCHANGED <<row, txn, revoked, mishap, Elsewhere>>

\* That, or any other failure: the upstream, the store, a disabled or deleted
\* connection.
SyncFails(c) ==
  /\ pc[c] \in {"sync", "listing", "unauthorized"}
  /\ SetStatus(IF pc[c] = "unauthorized" THEN "REAUTH_REQUIRED" ELSE "DEGRADED")
  /\ Return(c)
  /\ UNCHANGED <<txn, revoked, mishap, Elsewhere>>

(***************************************************************************)
(* setEnabled                                                              *)
(***************************************************************************)

Disable(c) ==
  /\ pc[c] = "idle"
  /\ ~Gone /\ row.status # "DISABLED"
  /\ SetStatus("DISABLED")
  /\ UNCHANGED <<callVars, txn, revoked, mishap, Elsewhere>>

ReadToEnable(c) ==
  /\ pc[c] = "idle"
  /\ row.status = "DISABLED"
  /\ ReadRow(c, "enable", [Blank EXCEPT !.at = row.at, !.rt = row.rt])
  /\ UNCHANGED <<row, txn, revoked, mishap, Elsewhere>>

\* The status is derived from the credentials read; a sync follows.
Enable(c) ==
  LET s == IF snap[c].at # None /\ snap[c].rt = None
           THEN "CONNECTED_NON_REFRESHABLE" ELSE "CONNECTED" IN
  /\ pc[c] = "enable"
  /\ SetStatus(s)
  /\ IF Gone THEN Return(c)
     ELSE /\ Goto(c, "sync")
          /\ Remember(c, [Blank EXCEPT !.status = s])
          /\ UNCHANGED <<early, got, tries, tx>>
  /\ UNCHANGED <<txn, revoked, mishap, Elsewhere>>

(***************************************************************************)
(* requireIncrementalAuthorization                                         *)
(***************************************************************************)

\* A tool call met insufficient_scope: the grant has to be widened.
InsufficientScope(c) ==
  /\ pc[c] = "idle"
  /\ ~Gone /\ row.at # None
  /\ SetStatus("REAUTH_REQUIRED")
  /\ UNCHANGED <<callVars, txn, revoked, mishap, Elsewhere>>

(***************************************************************************)
(* disconnect                                                              *)
(***************************************************************************)

Disconnect(c) ==
  /\ pc[c] = "idle"
  /\ row.ver < MaxVersion
  /\ ReadRow(c, "revoke", [Blank EXCEPT !.ver = row.ver, !.rt = row.rt])
  /\ UNCHANGED <<row, txn, revoked, mishap, Elsewhere>>

\* revokeConnection: the server revokes the grant of the token read, or the
\* call fails and is logged.
RevokeUpstream(c) ==
  /\ pc[c] = "revoke"
  /\ \/ UNCHANGED revoked
     \/ snap[c].rt # None /\ revoked' = revoked \cup {snap[c].rt[1]}
  /\ Goto(c, "revokeWrite")
  /\ UNCHANGED <<early, snap, got, tries, tx>>
  /\ UNCHANGED <<row, txn, mishap, Elsewhere>>

\* revokeConnection's finally; an update that fails here is logged.
RevokeWrite(c) ==
  /\ pc[c] = "revokeWrite"
  /\ Update([status |-> "REAUTH_REQUIRED", ver |-> snap[c].ver + 1,
             at |-> None, rt |-> None])
  /\ Goto(c, "delete") /\ Forget(c)
  /\ UNCHANGED <<txn, revoked, mishap, Elsewhere>>

Delete(c) ==
  /\ pc[c] = "delete"
  /\ DeleteRow
  /\ Return(c)
  /\ UNCHANGED <<txn, revoked, mishap, Elsewhere>>

(***************************************************************************)
(* rewrapCredentials                                                       *)
(***************************************************************************)

\* A key was rotated: the worker reads the rows whose tokens are under the
\* old one, and writes each token it read back under the new one.
ReadToRewrap(c) ==
  /\ pc[c] = "idle"
  /\ row.at # None \/ row.rt # None
  /\ ReadRow(c, "rewrap", [Blank EXCEPT !.at = row.at, !.rt = row.rt])
  /\ UNCHANGED <<row, txn, revoked, mishap, Elsewhere>>

Rewrap(c) ==
  LET s == snap[c] IN
  /\ pc[c] = "rewrap"
  /\ Update([row EXCEPT !.at = IF s.at # None THEN s.at ELSE @,
                        !.rt = IF s.rt # None THEN s.rt ELSE @])
  /\ mishap' = (mishap \/ (~Gone /\ row'.rt # row.rt))
  /\ Return(c)
  /\ UNCHANGED <<txn, revoked, Elsewhere>>

(***************************************************************************)
(* A process dies: its calls end where they are, and with them what they   *)
(* alone held; its breakers start anew.                                    *)
(***************************************************************************)

Crash(p) ==
  LET dead == {c \in Call : Home[c] = p}
      Reset(f, v) == [c \in Call |-> IF c \in dead THEN v ELSE f[c]]
  IN
  /\ \E c \in dead : "crash" \in does[c] /\ pc[c] # "idle"
  /\ pc' = Reset(pc, "idle")
  /\ early' = Reset(early, FALSE)
  /\ snap' = Reset(snap, Blank)
  /\ got' = Reset(got, None)
  /\ tries' = Reset(tries, 0)
  /\ tx' = Reset(tx, None)
  /\ holders' = holders \ dead
  /\ breaker' = [breaker EXCEPT ![p] = Closed]
  /\ mishap' = (mishap \/ \E c \in dead : pc[c] \in {"store", "revokeWrite", "delete"})
  /\ UNCHANGED <<storeVars, lapsed, serverVars, sent, does>>

-----------------------------------------------------------------------------
TokenStep(c) ==
  \/ "token" \in does[c] /\ GetToken(c, FALSE)
  \/ "early" \in does[c] /\ GetToken(c, TRUE)
  \/ MarkReauth(c) \/ LockTimeout(c) \/ AcquireAndRead(c)
  \/ RefreshGranted(c) \/ RefreshAnswerLost(c) \/ RefreshUnavailable(c)
  \/ RefreshRefused(c) \/ StoreTokens(c) \/ StoreTokensFails(c)
  \/ ServeCurrent(c)
  \/ Degrade(c) \/ MarkRefused(c) \/ LeaveLock(c)

CallbackStep(c) ==
  \/ "callback" \in does[c] /\ \E t \in Txn : Callback(c, t)
  \/ ConsumeTransaction(c) \/ PresentCode(c)
  \/ StoreGrant(c) \/ StoreGrantFails(c) \/ Activate(c)

ServiceStep(c) ==
  \/ "authorize" \in does[c] /\ StartAuthorization(c)
  \/ IssuerKept(c) \/ IssuerMoved(c) \/ AwaitAuthorization(c) \/ AwaitClient(c)
  \/ \E t \in Txn : OpenTransaction(c, t)
  \/ OpenTransactionFails(c)
  \/ "sync" \in does[c] /\ ReadForSync(c)
  \/ ListUpstream(c) \/ SyncDone(c) \/ MeetUnauthorized(c) \/ SyncFails(c)
  \/ "disable" \in does[c] /\ Disable(c)
  \/ "disable" \in does[c] /\ ReadToEnable(c)
  \/ Enable(c)
  \/ "call" \in does[c] /\ InsufficientScope(c)
  \/ "disconnect" \in does[c] /\ Disconnect(c)
  \/ RevokeUpstream(c) \/ RevokeWrite(c) \/ Delete(c)
  \/ "rewrap" \in does[c] /\ ReadToRewrap(c)
  \/ Rewrap(c)

EnvironmentStep ==
  \/ \E c \in Call : "stall" \in does[c] /\ LeaseLapses(c)
  \/ AccessTokenAges
     /\ UNCHANGED <<callVars, breaker, lockVars, serverVars, sent, mishap, does>>
  \/ \E t \in Txn : (TransactionExpires(t) \/ PurgeExpired(t))
     /\ UNCHANGED <<callVars, breaker, lockVars, serverVars, sent, mishap, does>>
  \/ \E p \in Process : Crash(p)

Next ==
  \/ \E c \in Call : TokenStep(c) \/ CallbackStep(c) \/ ServiceStep(c)
  \/ EnvironmentStep

Spec == Init /\ [][Next]_vars

-----------------------------------------------------------------------------
(***************************************************************************)
(* Properties                                                              *)
(***************************************************************************)

\* An authorization code is presented to the server once at most, however
\* often its callback arrives, on whichever replica and around whichever
\* crash, expiry or purge: consume() is what decides (token-manager.ts:228).
CodePresentedOnce == \A t \in Txn : sent[t] <= 1

\* The refresh token of the row is one the server still honours, or its
\* replacement is about to be stored, or the connection is being deleted:
\* no interleaving of refreshes, re-authorizations, issuer moves, syncs and
\* disconnects spends it unnoticed.  A refresh whose swap did not apply may
\* present the token it spent again (token-manager.ts:586-602), which may
\* cost that grant, but then the row holds another by now, or none.
\* `mishap` and `lapsed` name the
\* exceptions, none of which the code can see: an answer or a write lost
\* after a rotation, a crash in between, a lapsed lock, a rewrap that puts
\* a stale token back, a new grant that keeps the token being refreshed, a
\* move to another issuer that gives the row a version it has had before.
GrantSurvives ==
  ~mishap /\ ~lapsed /\ row.rt # None =>
    \/ Honoured(row.rt)
    \/ \E c \in Call : pc[c] = "store" /\ got[c].rt # None /\ snap[c].rt = row.rt
    \/ \E c \in Call : pc[c] \in {"revokeWrite", "delete"}

\* "DISABLED serves nothing at all" (docs/operations/running.md:231): once
\* disabled, a connection leaves that status only when someone enables it,
\* authorizes it again or deletes it, never by a write of a call that was
\* under way or of a background job.
DisabledStays ==
  [][row.status = "DISABLED" =>
       \/ row'.status \in {"DISABLED", "GONE"}
       \/ \E c \in Call : pc[c] \in {"enable", "prepared", "storeCode"}
                        /\ pc'[c] # pc[c]]_vars

\* "a concurrent refresh still wins the compare-and-swap it expects"
\* (background-worker.ts:165-169): a refresh token once stored is not
\* replaced by one of the same grant that it replaced.
RotationSticks ==
  [][row.rt # None /\ row'.rt # None /\ row.rt[1] = row'.rt[1] =>
       row.rt[2] <= row'.rt[2]]_vars

\* exchangeCode "exchanges the code and stores the resulting credentials"
\* (token-manager.ts:178-180) and routes.ts:196 tells the user "The
\* credentials were stored": a callback that gets that far has done so.
GrantIsStored ==
  [][\A c \in Call : pc[c] = "storeCode" /\ pc'[c] = "activate" =>
                     row'.at = got[c].at]_vars

=============================================================================
