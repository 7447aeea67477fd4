------------------------- MODULE GrantLifecycle_proofs -------------------------
(***************************************************************************)
(* CodePresentedOnce, TypeOK and GrantSurvives for every set of calls,     *)
(* processes, transactions and grants, every workload and every bound.     *)
(*                                                                         *)
(* What makes CodePresentedOnce inductive (IInv) is who may hold a         *)
(* transaction: one that is still PENDING is held by nobody, and one call  *)
(* at most stands between consuming a transaction and presenting its code. *)
(*                                                                         *)
(* SInv is the inductive invariant of the other two.  As long as no mishap *)
(* has happened and the row is there to stay (Calm), critical sections are *)
(* disjoint and nothing is revoked; a refresh holds the token in force,    *)
(* and the version under which its swap applies as long as the row has     *)
(* that token; a callback's version tells the token it read; and a grant   *)
(* that has yet to begin is nowhere (Sound).  Most steps change none of    *)
(* what Sound looks at (Still); the others have a lemma each.              *)
(***************************************************************************)
EXTENDS GrantLifecycle, TLAPS

(***************************************************************************)
(* CodePresentedOnce                                                       *)
(***************************************************************************)


PC == TokenPC \cup ServicePC

TxnStatus == {"absent", "PENDING", "CONSUMED", "FAILED", "purged"}

Typed ==
  /\ pc \in [Call -> PC]
  /\ tx \in [Call -> Txn \cup {None}]
  /\ txn \in [Txn -> TxnStatus]
  /\ sent \in [Txn -> Nat]

Presenting(c) == pc[c] = "exchange"

Exclusive ==
  /\ \A c \in Call : pc[c] \in {"consume", "exchange"} => tx[c] \in Txn
  /\ \A c \in Call : Presenting(c) => sent[tx[c]] = 0
  /\ \A c, d \in Call : Presenting(c) /\ Presenting(d) /\ tx[c] = tx[d] => c = d
  /\ \A t \in Txn : txn[t] \in {"absent", "PENDING"} =>
       sent[t] = 0 /\ \A c \in Call : Presenting(c) => tx[c] # t

IInv == Typed /\ Exclusive /\ CodePresentedOnce

\* What almost every step leaves alone: no call comes near a code, none is
\* presented, and no transaction returns to PENDING.
Quiet ==
  /\ Typed'
  /\ sent' = sent
  /\ \A t \in Txn : \/ txn'[t] = txn[t]
                    \/ txn[t] = "absent"
                    \/ txn'[t] \notin {"absent", "PENDING"}
  /\ \A c \in Call : \/ pc'[c] = pc[c] /\ tx'[c] = tx[c]
                     \/ pc'[c] \notin {"consume", "exchange"}

LEMMA QuietKeeps == IInv /\ Quiet => IInv'
BY DEF IInv, Quiet, Typed, Exclusive, CodePresentedOnce, Presenting, TxnStatus

LEMMA Initially == Init => IInv
BY DEF Init, IInv, Typed, Exclusive, CodePresentedOnce, Presenting, PC, TokenPC, TxnStatus

\* The steps of getValidAccessToken and refreshLocked.
LEMMA TokenStepsQuiet ==
  ASSUME IInv, NEW c \in Call, TokenStep(c)
  PROVE  Quiet
<1> USE DEF IInv, Typed, Quiet, PC, TokenPC, InLock, Goto, Forget, Return, EndSection,
            storeVars
<1>1. CASE GetToken(c, FALSE) \/ GetToken(c, TRUE)
  BY <1>1 DEF GetToken
<1>2. CASE MarkReauth(c) \/ LockTimeout(c)
  BY <1>2 DEF MarkReauth, LockTimeout
<1>3. CASE AcquireAndRead(c)
  BY <1>3 DEF AcquireAndRead
<1>4. CASE RefreshGranted(c) \/ RefreshRefused(c)
  BY <1>4 DEF RefreshGranted, RefreshRefused
<1>5. CASE RefreshAnswerLost(c) \/ RefreshUnavailable(c)
  BY <1>5 DEF RefreshAnswerLost, RefreshUnavailable, RetryOrDegrade
<1>6. CASE StoreTokens(c)
  BY <1>6 DEF StoreTokens
<1>7. CASE StoreTokensFails(c) \/ ServeCurrent(c)
  BY <1>7 DEF StoreTokensFails, ServeCurrent, RetryOrDegrade
<1>8. CASE Degrade(c) \/ MarkRefused(c) \/ LeaveLock(c)
  BY <1>8 DEF Degrade, MarkRefused, LeaveLock
<1> QED
  BY <1>1, <1>2, <1>3, <1>4, <1>5, <1>6, <1>7, <1>8 DEF TokenStep

\* The steps of ConnectionService, the gateway handler and the worker.
LEMMA ServiceStepsQuiet ==
  ASSUME IInv, NEW c \in Call, ServiceStep(c)
  PROVE  Quiet
<1> USE DEF IInv, Typed, Quiet, PC, TokenPC, ServicePC, TxnStatus, Goto, Forget, Return,
            Elsewhere, callVars
<1>1. CASE StartAuthorization(c) \/ IssuerKept(c) \/ IssuerMoved(c)
  BY <1>1 DEF StartAuthorization, IssuerKept, IssuerMoved, ReadRow, GotoIfUpdated
<1>2. CASE AwaitAuthorization(c) \/ AwaitClient(c) \/ OpenTransactionFails(c)
  BY <1>2 DEF AwaitAuthorization, AwaitClient, OpenTransactionFails, GotoIfUpdated
<1>3. ASSUME NEW t \in Txn, OpenTransaction(c, t) PROVE Quiet
  BY <1>3 DEF OpenTransaction, CreateTransaction
<1>4. CASE ReadForSync(c) \/ ListUpstream(c) \/ SyncDone(c) \/ MeetUnauthorized(c) \/ SyncFails(c)
  BY <1>4 DEF ReadForSync, ListUpstream, SyncDone, MeetUnauthorized, SyncFails, ReadRow
<1>5. CASE Disable(c) \/ InsufficientScope(c)
  BY <1>5 DEF Disable, InsufficientScope
<1>6. CASE ReadToEnable(c) \/ Enable(c)
  BY <1>6 DEF ReadToEnable, Enable, ReadRow
<1>7. CASE Disconnect(c) \/ RevokeUpstream(c) \/ RevokeWrite(c) \/ Delete(c)
  BY <1>7 DEF Disconnect, RevokeUpstream, RevokeWrite, Delete, ReadRow
<1>8. CASE ReadToRewrap(c) \/ Rewrap(c)
  BY <1>8 DEF ReadToRewrap, Rewrap, ReadRow
<1> QED
  BY <1>1, <1>2, <1>3, <1>4, <1>5, <1>6, <1>7, <1>8 DEF ServiceStep

\* Expiries, purges, lapses and crashes.
LEMMA EnvironmentStepsQuiet ==
  ASSUME IInv, EnvironmentStep
  PROVE  Quiet
<1> USE DEF IInv, Typed, Quiet, PC, TokenPC, TxnStatus
<1>1. ASSUME NEW c \in Call, LeaseLapses(c) PROVE Quiet
  BY <1>1 DEF LeaseLapses, storeVars, callVars
<1>2. CASE /\ AccessTokenAges
           /\ UNCHANGED <<callVars, breaker, lockVars, serverVars, sent, mishap, does>>
  BY <1>2 DEF AccessTokenAges, callVars
<1>3. ASSUME NEW t \in Txn, TransactionExpires(t) \/ PurgeExpired(t),
             UNCHANGED <<callVars, breaker, lockVars, serverVars, sent, mishap, does>>
      PROVE  Quiet
  BY <1>3 DEF TransactionExpires, PurgeExpired, callVars
<1>4. ASSUME NEW p \in Process, Crash(p) PROVE Quiet
  BY <1>4 DEF Crash, storeVars
<1> QED
  BY <1>1, <1>2, <1>3, <1>4 DEF EnvironmentStep

LEMMA Inductive == IInv /\ [Next]_vars => IInv'
<1> SUFFICES ASSUME IInv, [Next]_vars PROVE IInv'
  OBVIOUS
<1>1. ASSUME NEW c \in Call, TokenStep(c) \/ ServiceStep(c) PROVE IInv'
  BY <1>1, TokenStepsQuiet, ServiceStepsQuiet, QuietKeeps
<1>2. CASE EnvironmentStep
  BY <1>2, EnvironmentStepsQuiet, QuietKeeps
<1>3. ASSUME NEW c \in Call, NEW t \in Txn, Callback(c, t) PROVE IInv'
  <2>1. CASE late[t] \/ Gone
    <3>1. Quiet
      BY <1>3, <2>1 DEF Callback, Fail, Quiet, IInv, Typed, TxnStatus, callVars
    <3> QED BY <3>1, QuietKeeps
  <2>2. CASE ~(late[t] \/ Gone)
    <3>1. /\ pc' = [pc EXCEPT ![c] = "consume"] /\ tx' = [tx EXCEPT ![c] = t]
          /\ txn' = txn /\ sent' = sent
      BY <1>3, <2>2 DEF Callback, Goto
    <3> QED BY <3>1 DEF IInv, Typed, Exclusive, CodePresentedOnce, Presenting, PC, TokenPC
  <2> QED BY <2>1, <2>2
<1>4. ASSUME NEW c \in Call, ConsumeTransaction(c) PROVE IInv'
  <2>1. CASE Consumable(tx[c])
    <3>1. /\ pc[c] = "consume" /\ pc' = [pc EXCEPT ![c] = "exchange"]
          /\ tx' = tx /\ sent' = sent
          /\ txn' = [txn EXCEPT ![tx[c]] = "CONSUMED"] /\ txn[tx[c]] = "PENDING"
      BY <1>4, <2>1 DEF ConsumeTransaction, Consume, Consumable, Goto
    <3>2. tx[c] \in Txn /\ sent[tx[c]] = 0 /\ \A d \in Call : Presenting(d) => tx[d] # tx[c]
      BY <3>1 DEF IInv, Exclusive
    <3> QED
      BY <3>1, <3>2 DEF IInv, Typed, Exclusive, CodePresentedOnce, Presenting, PC,
         TokenPC, TxnStatus
  <2>2. CASE ~Consumable(tx[c])
    <3>1. txn' = txn
      BY <1>4, <2>2 DEF ConsumeTransaction, Consume, IInv, Typed
    <3>2. Quiet
      BY <1>4, <2>2, <3>1 DEF ConsumeTransaction, Quiet, IInv, Typed, Return, Goto,
         Forget, PC, TokenPC
    <3> QED BY <3>2, QuietKeeps
  <2> QED BY <2>1, <2>2
<1>5. ASSUME NEW c \in Call, PresentCode(c) PROVE IInv'
  <2>1. /\ pc[c] = "exchange" /\ txn' = txn
        /\ sent' = [sent EXCEPT ![tx[c]] = @ + 1]
        /\ \E s \in {"idle", "storeCode"} : pc' = [pc EXCEPT ![c] = s]
        /\ tx' = tx \/ tx' = [tx EXCEPT ![c] = None]
    BY <1>5 DEF PresentCode, storeVars, Return, Goto, Forget
  <2>2. tx[c] \in Txn /\ sent[tx[c]] = 0 /\ txn[tx[c]] \notin {"absent", "PENDING"}
    BY <2>1 DEF IInv, Exclusive, Presenting
  <2>3. Typed'
    BY <2>1, <2>2 DEF IInv, Typed, PC, TokenPC
  <2>4. \A d \in Call : pc'[d] \in {"consume", "exchange"} =>
          d # c /\ pc'[d] = pc[d] /\ tx'[d] = tx[d]
    BY <2>1 DEF IInv, Typed
  <2>5. \A t \in Txn : sent'[t] = IF t = tx[c] THEN 1 ELSE sent[t]
    BY <2>1, <2>2 DEF IInv, Typed
  <2>6. Exclusive'
    BY <2>1, <2>2, <2>4, <2>5 DEF IInv, Exclusive, Presenting
  <2>7. CodePresentedOnce'
    BY <2>5 DEF IInv, CodePresentedOnce
  <2> QED BY <2>3, <2>6, <2>7 DEF IInv
<1>6. ASSUME NEW c \in Call, StoreGrant(c) \/ StoreGrantFails(c) \/ Activate(c) PROVE IInv'
  <2>1. Quiet
    BY <1>6 DEF StoreGrant, StoreGrantFails, Activate, Quiet, IInv, Typed, Return, Goto,
       Forget, PC, TokenPC, ServicePC, storeVars, Elsewhere
  <2> QED BY <2>1, QuietKeeps
<1>7. CASE UNCHANGED vars
  BY <1>7, QuietKeeps DEF vars, storeVars, callVars, Quiet, IInv, Typed
<1> QED
  BY <1>1, <1>2, <1>3, <1>4, <1>5, <1>6, <1>7 DEF Next, CallbackStep

\* However many callbacks, replicas and crashes there are, the code of a
\* transaction is presented to the authorization server once at most.
THEOREM PresentedOnce == Spec => []CodePresentedOnce
<1>1. IInv => CodePresentedOnce
  BY DEF IInv
<1> QED BY <1>1, Initially, Inductive, PTL DEF Spec


-----------------------------------------------------------------------------
(***************************************************************************)
(* TypeOK                                                                  *)
(***************************************************************************)

\* What an UPDATE leaves is a row.
LEMMA UpdateTyped ==
  ASSUME row \in Row, NEW r \in Row, Update(r)
  PROVE  row' \in Row
BY DEF Update

LEMMA SetStatusTyped ==
  ASSUME row \in Row, NEW s \in Status, SetStatus(s)
  PROVE  row' \in Row
BY DEF SetStatus, Update, Row, RefreshToken

LEMMA UpdateTokensTyped ==
  ASSUME StoreTypeOK, NEW v \in Nat, NEW a \in Line \cup {None},
         NEW r \in RefreshToken \cup {None}, UpdateTokens(v, a, r)
  PROVE  row' \in Row /\ age' \in {"fresh", "due", "expired"}
BY DEF StoreTypeOK, UpdateTokens, Row, Status, RefreshToken

LEMMA BreakerTyped ==
  ASSUME NEW b \in Breaker
  PROVE  /\ RecordFailure(b) \in Breaker /\ RecordSuccess(b) \in Breaker
         /\ Closed \in Breaker
         /\ \A cooled \in BOOLEAN : AfterIsOpen(b, cooled) \in Breaker
BY ThresholdAssumption DEF RecordFailure, RecordSuccess, Closed, AfterIsOpen, Breaker

LEMMA CountingTyped ==
  ASSUME breaker \in [Process -> Breaker], NEW c \in Call,
         CountFailure(c) \/ CountSuccess(c) \/ UNCHANGED breaker
  PROVE  breaker' \in [Process -> Breaker]
<1>1. Home[c] \in Process
  BY HomeAssumption
<1>2. /\ RecordFailure(breaker[Home[c]]) \in Breaker
      /\ RecordSuccess(breaker[Home[c]]) \in Breaker
  BY <1>1, BreakerTyped
<1> QED BY <1>1, <1>2 DEF CountFailure, CountSuccess

LEMMA BlankTyped == Blank \in Row /\ None \in RefreshToken \cup {None}
BY DEF Blank, Row

\* The locals of a call that ends.
LEMMA ForgetTyped ==
  ASSUME TypeOK, NEW c \in Call, Forget(c)
  PROVE  /\ early' \in [Call -> BOOLEAN]
         /\ snap' \in [Call -> Row]
         /\ got' \in [Call -> TokenSet \cup {None}]
         /\ tries' \in [Call -> 0..MaxRetries]
         /\ tx' \in [Call -> Txn \cup {None}]
BY BlankTyped, RetriesAssumption DEF TypeOK, ManagerTypeOK, Forget

LEMMA RetryTyped ==
  ASSUME TypeOK, NEW c \in Call, RetryOrDegrade(c)
  PROVE  /\ pc' \in [Call -> PC]
         /\ early' = early /\ snap' = snap /\ tx' = tx
         /\ got' \in [Call -> TokenSet \cup {None}]
         /\ tries' \in [Call -> 0..MaxRetries]
         /\ breaker' \in [Process -> Breaker]
<1>1. breaker' \in [Process -> Breaker]
  BY CountingTyped DEF TypeOK, ManagerTypeOK, RetryOrDegrade
<1>2. tries' \in [Call -> 0..MaxRetries]
  BY RetriesAssumption DEF TypeOK, ManagerTypeOK, RetryOrDegrade
<1> QED BY <1>1, <1>2 DEF TypeOK, ManagerTypeOK, RetryOrDegrade, Goto, PC, TokenPC, InLock

LEMMA TypedInitially == Init => TypeOK
<1> SUFFICES ASSUME Init PROVE TypeOK
  OBVIOUS
<1>1. row \in Row
  BY StartAssumption DEF Init, Row, Status, RefreshToken
<1>2. tries \in [Call -> 0..MaxRetries] /\ breaker \in [Process -> Breaker]
  BY RetriesAssumption, BreakerTyped, ThresholdAssumption DEF Init, Breaker, Closed
<1> QED
  BY <1>1, <1>2, BlankTyped DEF Init, TypeOK, ManagerTypeOK, StoreTypeOK, TokenPC, Lock!LeaseInit

\* What a call carries over its awaits, and TypeOK itself rests on.
Carried ==
  \A c \in Call :
    /\ pc[c] \in {"refresh", "store", "current"} => snap[c].rt \in RefreshToken
    /\ pc[c] \in {"refresh", "store", "current", "degrade"} => snap[c].status \in Status
    /\ pc[c] \in {"store", "storeCode"} => got[c] \in TokenSet
    /\ pc[c] \in {"consume", "exchange"} => tx[c] \in Txn

TInv == TypeOK /\ Carried

\* A step of one call that ends it, or takes it where it carries nothing.
LEMMA CarriedKept ==
  ASSUME TInv, NEW c \in Call, NEW s \in PC, Goto(c, s),
         \A d \in Call \ {c} : snap'[d] = snap[d] /\ got'[d] = got[d] /\ tx'[d] = tx[d],
         s \in {"refresh", "store", "current"} => snap'[c].rt \in RefreshToken,
         s \in {"refresh", "store", "current", "degrade"} => snap'[c].status \in Status,
         s \in {"store", "storeCode"} => got'[c] \in TokenSet,
         s \in {"consume", "exchange"} => tx'[c] \in Txn
  PROVE  Carried'
BY DEF TInv, TypeOK, ManagerTypeOK, Carried, Goto

LEMMA ReturnKeeps ==
  ASSUME TInv, NEW c \in Call, Return(c) \/ EndSection(c)
  PROVE  Carried' /\ pc' \in [Call -> PC]
<1>1. PICK s \in {"idle", "leave"} : Goto(c, s) /\ Forget(c)
  BY DEF Return, EndSection
<1>2. Carried'
  <2>1. \A d \in Call \ {c} : snap'[d] = snap[d] /\ got'[d] = got[d] /\ tx'[d] = tx[d]
    BY <1>1 DEF Forget, TInv, TypeOK, ManagerTypeOK
  <2> QED BY <1>1, <2>1, CarriedKept DEF PC, TokenPC, InLock
<1> QED BY <1>1, <1>2 DEF Goto, TInv, TypeOK, ManagerTypeOK, PC, TokenPC, InLock

LEMMA TokenStepsTyped ==
  ASSUME TInv, NEW c \in Call, TokenStep(c)
  PROVE  TInv'
<1> USE DEF TypeOK, ManagerTypeOK
<1>1. ASSUME NEW h \in BOOLEAN, GetToken(c, h) PROVE TInv'
  <2>1. PICK s \in {"waitLock", "markReauth"} : Goto(c, s)
    BY <1>1 DEF GetToken
  <2>2. Carried'
    BY <1>1, <2>1, CarriedKept DEF GetToken, PC, TokenPC, InLock
  <2>3. TypeOK'
    BY <1>1, <2>1 DEF TInv, GetToken, Goto, StoreTypeOK, storeVars, TokenPC, InLock,
       lockVars, serverVars
  <2> QED BY <2>2, <2>3 DEF TInv
<1>2. CASE MarkReauth(c) \/ Degrade(c) \/ MarkRefused(c)
  <2>1. row' \in Row
    <3>1. PICK s \in Status \cup {"GONE"} : SetStatus(s)
      BY <1>2 DEF TInv, MarkReauth, Degrade, MarkRefused, Status, Row
    <3> QED BY <3>1 DEF TInv, SetStatus, Update, StoreTypeOK, Row
  <2>2. Forget(c) /\ (Return(c) \/ EndSection(c))
    BY <1>2 DEF MarkReauth, Degrade, MarkRefused, Return, EndSection
  <2>3. TypeOK'
    BY <1>2, <2>1, <2>2, ForgetTyped, ReturnKeeps DEF TInv, MarkReauth, Degrade, MarkRefused, StoreTypeOK,
       PC, lockVars, serverVars
  <2> QED BY <2>2, <2>3, ReturnKeeps DEF TInv
<1>3. CASE LockTimeout(c) \/ LeaveLock(c)
  <2>1. Forget(c) /\ Return(c)
    BY <1>3 DEF LockTimeout, LeaveLock, Return
  <2>2. TypeOK'
    BY <1>3, <2>1, ForgetTyped, ReturnKeeps DEF TInv, LockTimeout, LeaveLock, Lock!Leave,
       StoreTypeOK, storeVars, PC, lockVars, serverVars
  <2> QED BY <2>1, <2>2, ReturnKeeps DEF TInv
<1>4. CASE AcquireAndRead(c)
  <2>1. holders' \subseteq Call /\ lapsed' \in BOOLEAN
    BY <1>4 DEF TInv, AcquireAndRead, Lock!Grant
  <2>2. breaker' \in [Process -> Breaker]
    <3>1. Home[c] \in Process /\ breaker[Home[c]] \in Breaker
      BY HomeAssumption DEF TInv
    <3>2. \/ UNCHANGED breaker
          \/ \E cooled \in BOOLEAN :
               breaker' = [breaker EXCEPT ![Home[c]] = AfterIsOpen(breaker[Home[c]], cooled)]
      BY <1>4 DEF AcquireAndRead
    <3> QED BY <3>1, <3>2, BreakerTyped DEF TInv
  <2>3. CASE EndSection(c)
    <3>1. Forget(c)
      BY <2>3 DEF EndSection
    <3>2. TypeOK'
      BY <1>4, <2>1, <2>2, <2>3, <3>1, ForgetTyped, ReturnKeeps DEF TInv, AcquireAndRead,
         StoreTypeOK, storeVars, serverVars, PC
    <3> QED BY <2>3, <3>2, ReturnKeeps DEF TInv
  <2>4. CASE ~EndSection(c)
    <3>1. /\ Goto(c, "refresh")
          /\ snap' = [snap EXCEPT ![c] = [row EXCEPT !.at = None]]
          /\ UNCHANGED <<early, got, tries, tx>>
          /\ row.rt # None /\ ~Gone
      BY <1>4, <2>4 DEF AcquireAndRead, Remember
    <3>2. /\ [row EXCEPT !.at = None] \in Row
          /\ [row EXCEPT !.at = None].rt \in RefreshToken
          /\ [row EXCEPT !.at = None].status \in Status
      BY <3>1 DEF TInv, StoreTypeOK, Row, Gone
    <3>3. Carried'
      BY <3>1, <3>2, CarriedKept DEF TInv, PC, TokenPC, InLock
    <3>4. TypeOK'
      BY <1>4, <2>1, <2>2, <3>1, <3>2 DEF TInv, AcquireAndRead, Goto, StoreTypeOK, storeVars,
         serverVars, TokenPC, InLock
    <3> QED BY <3>3, <3>4 DEF TInv
  <2> QED BY <2>3, <2>4
<1>5. CASE RefreshGranted(c)
  <2>1. snap[c].rt \in RefreshToken /\ snap[c].rt[1] \in Line
    BY <1>5 DEF RefreshGranted, TInv, Carried, RefreshToken
  <2>2. PICK rotates \in BOOLEAN :
          /\ Rotate(snap[c].rt[1], rotates)
          /\ got' = [got EXCEPT ![c] = [at |-> snap[c].rt[1],
               rt |-> IF rotates THEN <<snap[c].rt[1], last[snap[c].rt[1]] + 1>> ELSE None]]
    BY <1>5 DEF RefreshGranted
  <2>3. last' \in [Line -> Nat]
    BY <2>1, <2>2 DEF TInv, Rotate
  <2>4. got'[c] \in TokenSet /\ got' \in [Call -> TokenSet \cup {None}]
    BY <2>1, <2>2 DEF TInv, TokenSet, RefreshToken
  <2>5. breaker' \in [Process -> Breaker]
    BY <1>5, CountingTyped DEF TInv, RefreshGranted
  <2>6. Carried'
    <3>1. snap[c].status \in Status
      BY <1>5 DEF RefreshGranted, TInv, Carried
    <3> QED
      BY <1>5, <2>1, <2>2, <2>4, <3>1, CarriedKept DEF TInv, RefreshGranted, PC, TokenPC, InLock
  <2>7. TypeOK'
    BY <1>5, <2>3, <2>4, <2>5 DEF TInv, RefreshGranted, Goto, StoreTypeOK, storeVars,
       TokenPC, InLock, lockVars
  <2> QED BY <2>6, <2>7 DEF TInv
<1>6. CASE \/ RefreshAnswerLost(c)
           \/ RefreshUnavailable(c)
           \/ StoreTokensFails(c)
           \/ ServeCurrent(c) /\ ~EndSection(c)
  <2>1. RetryOrDegrade(c) /\ pc[c] \in {"refresh", "store", "current"}
    BY <1>6 DEF RefreshAnswerLost, RefreshUnavailable, StoreTokensFails, ServeCurrent
  <2>2. snap[c].rt \in RefreshToken /\ snap[c].rt[1] \in Line
    BY <2>1 DEF TInv, Carried, RefreshToken
  <2>3. last' \in [Line -> Nat]
    BY <1>6, <2>2 DEF TInv, RefreshAnswerLost, RefreshUnavailable, StoreTokensFails,
       ServeCurrent, Rotate, serverVars
  <2>4. Carried'
    <3>1. PICK s \in {"refresh", "degrade"} : Goto(c, s)
      BY <2>1 DEF RetryOrDegrade
    <3>2. \A d \in Call \ {c} : got'[d] = got[d]
      BY <2>1 DEF RetryOrDegrade, TInv
    <3>3. snap[c].status \in Status
      BY <2>1 DEF TInv, Carried
    <3> QED
      BY <2>1, <2>2, <3>1, <3>2, <3>3, CarriedKept, RetryTyped DEF TInv, PC, TokenPC, InLock
  <2>5. TypeOK'
    BY <1>6, <2>1, <2>3, RetryTyped DEF TInv, RefreshAnswerLost, RefreshUnavailable,
       StoreTokensFails, ServeCurrent, StoreTypeOK, storeVars, lockVars, serverVars, PC
  <2> QED BY <2>4, <2>5 DEF TInv
<1>7. CASE RefreshRefused(c)
  <2>1. snap[c].rt[1] \in Line
    BY <1>7 DEF RefreshRefused, TInv, Carried, RefreshToken
  <2>2. breaker' \in [Process -> Breaker]
    BY <1>7, CountingTyped DEF TInv, RefreshRefused
  <2>3. Carried'
    BY <1>7, CarriedKept DEF RefreshRefused, PC, TokenPC, InLock
  <2>4. TypeOK'
    BY <1>7, <2>1, <2>2 DEF TInv, RefreshRefused, Goto, StoreTypeOK, storeVars, TokenPC, InLock,
       lockVars
  <2> QED BY <2>3, <2>4 DEF TInv
<1>8. CASE StoreTokens(c)
  <2>1. /\ got[c] \in TokenSet /\ snap[c].ver \in Nat
        /\ got[c].at \in Line \cup {None}
        /\ (IF got[c].rt = None THEN snap[c].rt ELSE got[c].rt) \in RefreshToken \cup {None}
    BY <1>8 DEF StoreTokens, TInv, Carried, TokenSet, Row
  <2>2. row' \in Row /\ age' \in {"fresh", "due", "expired"}
    BY <1>8, <2>1, UpdateTokensTyped DEF StoreTokens, TInv
  <2>3. CASE SwapApplies(snap[c].ver)
    <3>1. EndSection(c) /\ Forget(c)
      BY <1>8, <2>3 DEF StoreTokens, EndSection
    <3>2. TypeOK'
      BY <1>8, <2>2, <3>1, ForgetTyped, ReturnKeeps DEF TInv, StoreTokens, StoreTypeOK, PC,
         lockVars, serverVars
    <3> QED BY <3>1, <3>2, ReturnKeeps DEF TInv
  <2>4. CASE ~SwapApplies(snap[c].ver)
    <3>1. /\ Goto(c, "current") /\ got' = [got EXCEPT ![c] = None]
          /\ UNCHANGED <<early, snap, tries, tx>>
      BY <1>8, <2>4 DEF StoreTokens
    <3>2. snap[c].rt \in RefreshToken /\ snap[c].status \in Status
      BY <1>8 DEF StoreTokens, TInv, Carried
    <3>3. Carried'
      BY <3>1, <3>2, CarriedKept DEF TInv, PC, TokenPC, InLock
    <3>4. TypeOK'
      BY <1>8, <2>2, <3>1 DEF TInv, StoreTokens, StoreTypeOK, Goto, TokenPC, InLock, lockVars,
         serverVars
    <3> QED BY <3>3, <3>4 DEF TInv
  <2> QED BY <2>3, <2>4
<1>9. CASE ServeCurrent(c) /\ EndSection(c)
  <2>1. UNCHANGED <<storeVars, breaker, lockVars, serverVars, sent, mishap, does>>
        \/ RetryOrDegrade(c)
    BY <1>9 DEF ServeCurrent
  <2>2. EndSection(c) /\ Forget(c) /\ ~RetryOrDegrade(c)
    BY <1>9 DEF EndSection, RetryOrDegrade, Goto, TInv
  <2>3. TypeOK'
    BY <1>9, <2>1, <2>2, ForgetTyped, ReturnKeeps DEF TInv, ServeCurrent, StoreTypeOK, PC,
       storeVars, lockVars, serverVars
  <2> QED BY <2>2, <2>3, ReturnKeeps DEF TInv
<1> QED
  BY <1>1, <1>2, <1>3, <1>4, <1>5, <1>6, <1>7, <1>8, <1>9 DEF TokenStep

LEMMA CallbackStepsTyped ==
  ASSUME TInv, IInv, NEW c \in Call, CallbackStep(c)
  PROVE  TInv'
<1> USE DEF TypeOK, ManagerTypeOK
<1>1. ASSUME NEW t \in Txn, Callback(c, t) PROVE TInv'
  <2>1. CASE late[t] \/ Gone
    <3>1. UNCHANGED callVars /\ Fail(t)
      BY <1>1, <2>1 DEF Callback
    <3>2. Carried'
      BY <3>1 DEF TInv, Carried, callVars
    <3>3. TypeOK'
      BY <1>1, <3>1 DEF TInv, Callback, Fail, callVars, StoreTypeOK, lockVars, serverVars
    <3> QED BY <3>2, <3>3 DEF TInv
  <2>2. CASE ~(late[t] \/ Gone)
    <3>1. /\ Goto(c, "consume")
          /\ snap' = [snap EXCEPT ![c] = [Blank EXCEPT !.ver = row.ver, !.rt = row.rt]]
          /\ tx' = [tx EXCEPT ![c] = t]
          /\ UNCHANGED <<txn, early, got, tries>>
      BY <1>1, <2>2 DEF Callback, Remember
    <3>2. [Blank EXCEPT !.ver = row.ver, !.rt = row.rt] \in Row
      BY DEF TInv, StoreTypeOK, Blank, Row
    <3>3. Carried'
      BY <3>1, CarriedKept DEF TInv, PC, TokenPC, InLock
    <3>4. TypeOK'
      BY <1>1, <3>1, <3>2 DEF TInv, Callback, Goto, StoreTypeOK, TokenPC, InLock, lockVars,
         serverVars
    <3> QED BY <3>3, <3>4 DEF TInv
  <2> QED BY <2>1, <2>2
<1>2. CASE ConsumeTransaction(c)
  <2>1. txn' \in [Txn -> TxnStatus]
    BY <1>2 DEF TInv, ConsumeTransaction, Consume, Consumable, StoreTypeOK, TxnStatus
  <2>2. CASE Consumable(tx[c])
    <3>1. Goto(c, "exchange") /\ UNCHANGED <<early, snap, got, tries, tx>>
      BY <1>2, <2>2 DEF ConsumeTransaction
    <3>2. Carried'
      BY <1>2, <3>1, CarriedKept DEF ConsumeTransaction, TInv, Carried, PC, TokenPC, InLock
    <3>3. TypeOK'
      BY <1>2, <2>1, <3>1 DEF TInv, ConsumeTransaction, Goto, StoreTypeOK, TokenPC, InLock, lockVars,
         serverVars, TxnStatus
    <3> QED BY <3>2, <3>3 DEF TInv
  <2>3. CASE ~Consumable(tx[c])
    <3>1. Return(c) /\ Forget(c)
      BY <1>2, <2>3 DEF ConsumeTransaction, Return
    <3>2. TypeOK'
      BY <1>2, <2>1, <3>1, ForgetTyped, ReturnKeeps DEF TInv, ConsumeTransaction, StoreTypeOK, PC,
         lockVars, serverVars, TxnStatus
    <3> QED BY <3>1, <3>2, ReturnKeeps DEF TInv
  <2> QED BY <2>2, <2>3
<1>3. CASE PresentCode(c)
  <2>1. tx[c] \in Txn /\ tx[c] \in Line
    BY <1>3, LineAssumption DEF PresentCode, TInv, Carried
  <2>2. sent' \in [Txn -> Nat]
    BY <1>3, <2>1 DEF PresentCode, TInv
  <2>3. CASE Return(c) /\ UNCHANGED last
    <3>1. Forget(c)
      BY <2>3 DEF Return
    <3>2. TypeOK'
      BY <1>3, <2>2, <2>3, <3>1, ForgetTyped, ReturnKeeps DEF TInv, PresentCode, StoreTypeOK,
         storeVars, PC, lockVars
    <3> QED BY <2>3, <3>2, ReturnKeeps DEF TInv
  <2>4. CASE ~(Return(c) /\ UNCHANGED last)
    <3>1. PICK refreshable \in BOOLEAN :
            /\ last' = [last EXCEPT ![tx[c]] = IF refreshable THEN 1 ELSE 0]
            /\ got' = [got EXCEPT ![c] =
                 [at |-> tx[c], rt |-> IF refreshable THEN <<tx[c], 1>> ELSE None]]
      BY <1>3, <2>4 DEF PresentCode
    <3>2. Goto(c, "storeCode") /\ UNCHANGED <<early, snap, tries, tx>>
      BY <1>3, <2>4 DEF PresentCode
    <3>3. last' \in [Line -> Nat]
      BY <3>1, <2>1 DEF TInv
    <3>4. got'[c] \in TokenSet /\ got' \in [Call -> TokenSet \cup {None}]
      BY <2>1, <3>1 DEF TInv, TokenSet, RefreshToken
    <3>5. Carried'
      BY <3>1, <3>2, <3>4, CarriedKept DEF TInv, PC, TokenPC, InLock
    <3>6. TypeOK'
      BY <1>3, <2>2, <3>2, <3>3, <3>4 DEF TInv, PresentCode, Goto, StoreTypeOK, storeVars, TokenPC,
         InLock, lockVars
    <3> QED BY <3>5, <3>6 DEF TInv
  <2> QED BY <2>3, <2>4
<1>4. CASE StoreGrant(c)
  <2>1. /\ got[c] \in TokenSet /\ snap[c].ver \in Nat
        /\ got[c].at \in Line \cup {None}
        /\ (IF got[c].rt = None THEN snap[c].rt ELSE got[c].rt) \in RefreshToken \cup {None}
    BY <1>4 DEF StoreGrant, TInv, Carried, TokenSet, Row
  <2>2. row' \in Row /\ age' \in {"fresh", "due", "expired"}
    BY <1>4, <2>1, UpdateTokensTyped DEF StoreGrant, TInv
  <2>3. Carried'
    BY <1>4, CarriedKept DEF StoreGrant, PC, TokenPC, InLock
  <2>4. TypeOK'
    BY <1>4, <2>2 DEF TInv, StoreGrant, Goto, StoreTypeOK, TokenPC, InLock, lockVars, serverVars
  <2> QED BY <2>3, <2>4 DEF TInv
<1>5. CASE StoreGrantFails(c)
  <2>1. Forget(c) /\ Return(c)
    BY <1>5 DEF StoreGrantFails, Return
  <2>2. TypeOK'
    BY <1>5, <2>1, ForgetTyped, ReturnKeeps DEF TInv, StoreGrantFails, StoreTypeOK, storeVars, PC,
       lockVars, serverVars
  <2> QED BY <2>1, <2>2, ReturnKeeps DEF TInv
<1>6. CASE Activate(c)
  <2>1. CASE Gone
    <3>1. Forget(c) /\ Return(c)
      BY <1>6, <2>1 DEF Activate, Return
    <3>2. TypeOK'
      BY <1>6, <3>1, ForgetTyped, ReturnKeeps DEF TInv, Activate, StoreTypeOK, Elsewhere, PC,
         lockVars
    <3> QED BY <3>1, <3>2, ReturnKeeps DEF TInv
  <2>2. CASE ~Gone
    <3>1. /\ Goto(c, "sync")
          /\ snap' = [snap EXCEPT ![c] = [Blank EXCEPT !.status = row.status]]
          /\ got' = [got EXCEPT ![c] = None]
          /\ tx' = [tx EXCEPT ![c] = None]
          /\ UNCHANGED <<early, tries>>
      BY <1>6, <2>2 DEF Activate, Remember
    <3>2. [Blank EXCEPT !.status = row.status] \in Row
      BY DEF TInv, StoreTypeOK, Blank, Row
    <3>3. Carried'
      BY <3>1, CarriedKept DEF TInv, PC, ServicePC, TokenPC, InLock
    <3>4. TypeOK'
      BY <1>6, <3>1, <3>2 DEF TInv, Activate, Goto, StoreTypeOK, ServicePC, Elsewhere, lockVars
    <3> QED BY <3>3, <3>4 DEF TInv
  <2> QED BY <2>1, <2>2
<1> QED
  BY <1>1, <1>2, <1>3, <1>4, <1>5, <1>6 DEF CallbackStep

LEMMA ServiceStepsTyped ==
  ASSUME TInv, NEW c \in Call, ServiceStep(c)
  PROVE  TInv'
<1> USE DEF TypeOK, ManagerTypeOK, Elsewhere, lockVars
\* A row read, or nothing yet: the call goes on with what it remembers of it.
<1>1. ASSUME NEW s \in ServicePC, NEW columns \in Row, ReadRow(c, s, columns),
             UNCHANGED <<row, txn, revoked, mishap, Elsewhere>>
      PROVE  TInv'
  <2>1. Carried'
    BY <1>1, CarriedKept DEF TInv, ReadRow, Remember, PC, ServicePC
  <2>2. TypeOK'
    BY <1>1 DEF TInv, ReadRow, Remember, Goto, StoreTypeOK
  <2> QED BY <2>1, <2>2 DEF TInv
<1>2. CASE StartAuthorization(c) \/ ReadForSync(c) \/ ReadToEnable(c) \/ Disconnect(c)
           \/ ReadToRewrap(c)
  <2>1. /\ [Blank EXCEPT !.ver = row.ver] \in Row
        /\ [Blank EXCEPT !.status = row.status] \in Row
        /\ [Blank EXCEPT !.at = row.at, !.rt = row.rt] \in Row
        /\ [Blank EXCEPT !.ver = row.ver, !.rt = row.rt] \in Row
    BY DEF TInv, StoreTypeOK, Blank, Row
  <2> QED
    BY <1>1, <1>2, <2>1 DEF StartAuthorization, ReadForSync, ReadToEnable, Disconnect,
       ReadToRewrap, ServicePC
\* The row is written, and the call ends or goes on with nothing.
<1>3. ASSUME NEW s \in ServicePC \cup {"idle"}, Goto(c, s), Forget(c), row' \in Row,
             txn' \in [Txn -> TxnStatus], mishap' \in BOOLEAN,
             UNCHANGED <<revoked, Elsewhere>>
      PROVE  TInv'
  <2>1. \A d \in Call \ {c} : snap'[d] = snap[d] /\ got'[d] = got[d] /\ tx'[d] = tx[d]
    BY <1>3 DEF TInv, Forget
  <2>2. Carried'
    BY <1>3, <2>1, CarriedKept DEF PC, ServicePC, TokenPC
  <2>3. pc' \in [Call -> TokenPC \cup ServicePC]
    BY <1>3 DEF TInv, Goto, TokenPC
  <2>4. TypeOK'
    BY <1>3, <2>3, ForgetTyped DEF TInv, StoreTypeOK, TxnStatus
  <2> QED BY <2>2, <2>4 DEF TInv
<1>4. txn \in [Txn -> TxnStatus] /\ mishap \in BOOLEAN /\ row \in Row
  BY DEF TInv, StoreTypeOK, TxnStatus
<1>5. CASE IssuerKept(c) \/ OpenTransactionFails(c)
  <2>1. Forget(c) /\ \E s \in {"prepared", "idle"} : Goto(c, s)
    BY <1>5 DEF IssuerKept, OpenTransactionFails, Return
  <2> QED
    BY <1>3, <1>4, <1>5, <2>1 DEF IssuerKept, OpenTransactionFails, ServicePC
<1>6. CASE IssuerMoved(c)
  <2>1. snap[c].ver \in Nat /\ snap[c].ver + 1 \in Nat
    BY DEF TInv, Row
  <2>2. row' \in Row
    BY <1>4, <1>6, <2>1 DEF IssuerMoved, Update, Row
  <2>3. Forget(c) /\ \E s \in {"prepared", "idle"} : Goto(c, s)
    BY <1>6 DEF IssuerMoved, GotoIfUpdated
  <2>4. mishap' \in BOOLEAN /\ txn' = txn /\ UNCHANGED <<revoked, Elsewhere>>
    BY <1>4, <1>6 DEF IssuerMoved
  <2> QED BY <1>3, <1>4, <2>2, <2>3, <2>4 DEF ServicePC
<1>7. CASE AwaitAuthorization(c) \/ AwaitClient(c) \/ SyncDone(c) \/ SyncFails(c)
  <2>1. row' \in Row
    <3>1. PICK s \in Status : SetStatus(s)
      BY <1>7 DEF AwaitAuthorization, AwaitClient, SyncDone, SyncFails, Status
    <3> QED BY <1>4, <3>1, SetStatusTyped
  <2>2. Forget(c) /\ \E s \in {"transact", "idle"} : Goto(c, s)
    BY <1>7 DEF AwaitAuthorization, AwaitClient, SyncDone, SyncFails, Return, GotoIfUpdated
  <2> QED
    BY <1>3, <1>4, <1>7, <2>1, <2>2 DEF AwaitAuthorization, AwaitClient, SyncDone, SyncFails,
       ServicePC
<1>8. ASSUME NEW t \in Txn, OpenTransaction(c, t) PROVE TInv'
  <2>1. txn' \in [Txn -> TxnStatus]
    BY <1>4, <1>8 DEF OpenTransaction, CreateTransaction, TxnStatus
  <2> QED BY <1>3, <1>4, <1>8, <2>1 DEF OpenTransaction, Return
<1>9. CASE ListUpstream(c) \/ MeetUnauthorized(c)
  <2>1. /\ \E s \in {"listing", "unauthorized"} : Goto(c, s)
        /\ UNCHANGED <<early, snap, got, tries, tx>>
        /\ UNCHANGED <<row, txn, revoked, mishap, Elsewhere>>
    BY <1>9 DEF ListUpstream, MeetUnauthorized
  <2>2. Carried'
    BY <2>1, CarriedKept DEF PC, ServicePC
  <2>3. TypeOK'
    BY <2>1 DEF TInv, Goto, StoreTypeOK, ServicePC
  <2> QED BY <2>2, <2>3 DEF TInv
<1>10. CASE Disable(c) \/ InsufficientScope(c)
  <2>1. row' \in Row /\ UNCHANGED callVars
    BY <1>4, <1>10, SetStatusTyped DEF Disable, InsufficientScope, Status
  <2>2. Carried'
    BY <2>1 DEF TInv, Carried, callVars
  <2>3. TypeOK'
    BY <1>10, <2>1 DEF TInv, Disable, InsufficientScope, callVars, StoreTypeOK
  <2> QED BY <2>2, <2>3 DEF TInv
<1>11. CASE Enable(c)
  <2> DEFINE s == IF snap[c].at # None /\ snap[c].rt = None
                  THEN "CONNECTED_NON_REFRESHABLE" ELSE "CONNECTED"
  <2>1. row' \in Row /\ UNCHANGED <<txn, revoked, mishap, Elsewhere>>
    BY <1>4, <1>11, SetStatusTyped DEF Enable, Status
  <2>2. CASE Gone
    BY <1>3, <1>4, <1>11, <2>1, <2>2 DEF Enable, Return
  <2>3. CASE ~Gone
    <3>1. /\ Goto(c, "sync")
          /\ snap' = [snap EXCEPT ![c] = [Blank EXCEPT !.status = s]]
          /\ UNCHANGED <<early, got, tries, tx>>
      BY <1>11, <2>3 DEF Enable, Remember
    <3>2. [Blank EXCEPT !.status = s] \in Row
      BY DEF Blank, Row, Status
    <3> HIDE DEF s
    <3>3. Carried'
      BY <3>1, CarriedKept DEF TInv, PC, ServicePC
    <3>4. TypeOK'
      BY <2>1, <3>1, <3>2 DEF TInv, Goto, StoreTypeOK, ServicePC
    <3> QED BY <3>3, <3>4 DEF TInv
  <2> QED BY <2>2, <2>3
<1>12. CASE RevokeUpstream(c)
  <2>1. revoked' \subseteq Line
    BY <1>12 DEF TInv, RevokeUpstream, Row, RefreshToken
  <2>2. Carried'
    BY <1>12, CarriedKept DEF RevokeUpstream, PC, ServicePC
  <2>3. TypeOK'
    BY <1>12, <2>1 DEF TInv, RevokeUpstream, Goto, StoreTypeOK, ServicePC
  <2> QED BY <2>2, <2>3 DEF TInv
<1>13. CASE RevokeWrite(c)
  <2>1. snap[c].ver + 1 \in Nat
    BY DEF TInv, Row
  <2>2. row' \in Row
    BY <1>4, <1>13, <2>1 DEF RevokeWrite, Update, Row, Status
  <2> QED BY <1>3, <1>4, <1>13, <2>2 DEF RevokeWrite, ServicePC
<1>14. CASE Delete(c)
  <2>1. row' \in Row
    BY <1>14 DEF Delete, DeleteRow, Row
  <2> QED BY <1>3, <1>4, <1>14, <2>1 DEF Delete, Return
<1>15. CASE Rewrap(c)
  <2>1. row' \in Row
    BY <1>4, <1>15 DEF TInv, Rewrap, Update, Row
  <2>2. mishap' \in BOOLEAN
    BY <1>4, <1>15 DEF Rewrap
  <2> QED BY <1>3, <1>4, <1>15, <2>1, <2>2 DEF Rewrap, Return
<1> QED
  BY <1>2, <1>5, <1>6, <1>7, <1>8, <1>9, <1>10, <1>11, <1>12, <1>13, <1>14, <1>15
     DEF ServiceStep

LEMMA EnvironmentStepsTyped ==
  ASSUME TInv, EnvironmentStep
  PROVE  TInv'
<1> USE DEF TypeOK, ManagerTypeOK, lockVars, serverVars
<1>1. ASSUME NEW c \in Call, LeaseLapses(c) PROVE TInv'
  BY <1>1 DEF TInv, Carried, LeaseLapses, Lock!Lapse, StoreTypeOK, storeVars, callVars
<1>2. CASE /\ AccessTokenAges
           /\ UNCHANGED <<callVars, breaker, lockVars, serverVars, sent, mishap, does>>
  BY <1>2 DEF TInv, Carried, AccessTokenAges, StoreTypeOK, callVars
<1>3. ASSUME NEW t \in Txn, TransactionExpires(t) \/ PurgeExpired(t),
             UNCHANGED <<callVars, breaker, lockVars, serverVars, sent, mishap, does>>
      PROVE  TInv'
  BY <1>3 DEF TInv, Carried, TransactionExpires, PurgeExpired, StoreTypeOK, callVars
<1>4. ASSUME NEW p \in Process, Crash(p) PROVE TInv'
  <2>1. breaker' \in [Process -> Breaker]
    BY <1>4, BreakerTyped DEF TInv, Crash
  <2>2. Carried'
    BY <1>4 DEF TInv, Carried, Crash
  <2>3. pc' \in [Call -> TokenPC \cup ServicePC] /\ early' \in [Call -> BOOLEAN]
    BY <1>4 DEF TInv, Crash, TokenPC
  <2>4. snap' \in [Call -> Row]
    BY <1>4, BlankTyped DEF TInv, Crash
  <2>5. got' \in [Call -> TokenSet \cup {None}] /\ tx' \in [Call -> Txn \cup {None}]
    BY <1>4 DEF TInv, Crash
  <2>6. tries' \in [Call -> 0..MaxRetries]
    BY <1>4, RetriesAssumption DEF TInv, Crash
  <2>7. mishap' \in BOOLEAN /\ holders' \subseteq Call
    BY <1>4 DEF TInv, Crash
  <2>8. TypeOK'
    BY <1>4, <2>1, <2>3, <2>4, <2>5, <2>6, <2>7 DEF TInv, Crash, StoreTypeOK, storeVars
  <2> QED BY <2>2, <2>8 DEF TInv
<1> QED
  BY <1>1, <1>2, <1>3, <1>4 DEF EnvironmentStep

LEMMA TypedInductive == IInv /\ TInv /\ [Next]_vars => TInv'
<1> SUFFICES ASSUME IInv, TInv, [Next]_vars PROVE TInv'
  OBVIOUS
<1>1. ASSUME NEW c \in Call, TokenStep(c) \/ CallbackStep(c) \/ ServiceStep(c) PROVE TInv'
  BY <1>1, TokenStepsTyped, CallbackStepsTyped, ServiceStepsTyped
<1>2. CASE EnvironmentStep
  BY <1>2, EnvironmentStepsTyped
<1>3. CASE UNCHANGED vars
  BY <1>3 DEF vars, storeVars, callVars, lockVars, serverVars, TInv, Carried, TypeOK,
     ManagerTypeOK, StoreTypeOK
<1> QED
  BY <1>1, <1>2, <1>3 DEF Next

-----------------------------------------------------------------------------
(***************************************************************************)
(* What cannot be undone                                                   *)
(***************************************************************************)

\* A deleted row holds no token.
Tombstone == Gone => row.rt = None

Deleting(c) == pc[c] \in {"revokeWrite", "delete"}

\* The exceptions of GrantSurvives, once there, stay.
Onward ==
  /\ Tombstone'
  /\ Gone => Gone'
  /\ mishap => mishap'
  /\ lapsed => lapsed'
  /\ \A c \in Call : Deleting(c) => Deleting(c)' \/ mishap' \/ Gone'

LEMMA SetStatusOnward ==
  ASSUME TInv, Tombstone, NEW s \in Status, SetStatus(s)
  PROVE  Tombstone' /\ (Gone => Gone')
BY DEF TInv, TypeOK, ManagerTypeOK, StoreTypeOK, Row, Tombstone, Gone, SetStatus, Update, Status

LEMMA SwapOnward ==
  ASSUME TInv, Tombstone, NEW v, NEW a, NEW r, UpdateTokens(v, a, r)
  PROVE  Tombstone' /\ (Gone => Gone')
BY DEF Tombstone, Gone, UpdateTokens, SwapApplies

LEMMA TokenStepsOnward ==
  ASSUME TInv, Tombstone, NEW c \in Call, TokenStep(c)
  PROVE  Onward
<1> USE DEF Onward
<1>0. mishap \in BOOLEAN /\ mishap' \in BOOLEAN /\ lapsed \in BOOLEAN /\ lapsed' \in BOOLEAN
  BY TokenStepsTyped DEF TInv, TypeOK, ManagerTypeOK
<1>1. pc \in [Call -> PC] /\ row \in Row
  BY DEF TInv, TypeOK, ManagerTypeOK, StoreTypeOK, PC
<1>2. \A d \in Call : Deleting(d) => Deleting(d)'
  <2>1. pc[c] \notin {"revokeWrite", "delete"} /\ \E s : Goto(c, s)
    BY DEF TokenStep, GetToken, MarkReauth, LockTimeout, AcquireAndRead, RefreshGranted,
       RefreshAnswerLost, RefreshUnavailable, RefreshRefused, StoreTokens, StoreTokensFails,
       ServeCurrent, Degrade, MarkRefused, LeaveLock, Return, EndSection, RetryOrDegrade
  <2> QED BY <1>1, <2>1 DEF Goto, Deleting
<1>3. (mishap => mishap') /\ (lapsed => lapsed')
  BY <1>0 DEF TokenStep, GetToken, MarkReauth, LockTimeout, AcquireAndRead, RefreshGranted,
     RefreshAnswerLost, RefreshUnavailable, RefreshRefused, StoreTokens, StoreTokensFails,
     ServeCurrent, Degrade, MarkRefused, LeaveLock, lockVars, Lock!Grant, Lock!Leave
<1>4. CASE row' = row
  BY <1>2, <1>3, <1>4 DEF Tombstone, Gone
<1>5. CASE MarkReauth(c) \/ Degrade(c) \/ MarkRefused(c)
  <2>1. PICK s \in Status : SetStatus(s)
    BY <1>5 DEF MarkReauth, Degrade, MarkRefused, Status, TInv, Carried
  <2> QED BY <1>2, <1>3, <2>1, SetStatusOnward
<1>6. CASE StoreTokens(c)
  BY <1>2, <1>3, <1>6, SwapOnward DEF StoreTokens
<1> QED
  BY <1>4, <1>5, <1>6 DEF TokenStep, GetToken, LockTimeout, AcquireAndRead, RefreshGranted,
     RefreshAnswerLost, RefreshUnavailable, RefreshRefused, StoreTokensFails, ServeCurrent,
     LeaveLock, storeVars

LEMMA CallbackStepsOnward ==
  ASSUME IInv, TInv, Tombstone, NEW c \in Call, CallbackStep(c)
  PROVE  Onward
<1> USE DEF Onward
<1>0. mishap \in BOOLEAN /\ mishap' \in BOOLEAN /\ lapsed \in BOOLEAN /\ lapsed' \in BOOLEAN
  BY CallbackStepsTyped DEF TInv, TypeOK, ManagerTypeOK
<1>1. pc \in [Call -> PC] /\ row \in Row
  BY DEF TInv, TypeOK, ManagerTypeOK, StoreTypeOK, PC
<1>2. \A d \in Call : Deleting(d) => Deleting(d)'
  <2>1. pc[c] \notin {"revokeWrite", "delete"}
        /\ (pc' = pc \/ \E s : Goto(c, s))
    BY DEF CallbackStep, Callback, ConsumeTransaction, PresentCode, StoreGrant,
       StoreGrantFails, Activate, Return, callVars
  <2> QED BY <1>1, <2>1 DEF Goto, Deleting
<1>3. (mishap => mishap') /\ (lapsed => lapsed')
  BY <1>0 DEF CallbackStep, Callback, ConsumeTransaction, PresentCode, StoreGrant,
     StoreGrantFails, Activate, lockVars, Elsewhere
<1>4. CASE row' = row
  BY <1>2, <1>3, <1>4 DEF Tombstone, Gone
<1>5. CASE StoreGrant(c)
  BY <1>2, <1>3, <1>5, SwapOnward DEF StoreGrant
<1> QED
  BY <1>4, <1>5 DEF CallbackStep, Callback, ConsumeTransaction, PresentCode,
     StoreGrantFails, Activate, storeVars

LEMMA ServiceStepsOnward ==
  ASSUME TInv, Tombstone, NEW c \in Call, ServiceStep(c)
  PROVE  Onward
<1> USE DEF Onward
<1>0. mishap \in BOOLEAN /\ mishap' \in BOOLEAN /\ lapsed \in BOOLEAN /\ lapsed' \in BOOLEAN
  BY ServiceStepsTyped DEF TInv, TypeOK, ManagerTypeOK
<1>1. pc \in [Call -> PC] /\ row \in Row
  BY DEF TInv, TypeOK, ManagerTypeOK, StoreTypeOK, PC
<1>2. (mishap => mishap') /\ (lapsed => lapsed')
  BY <1>0 DEF ServiceStep, StartAuthorization, IssuerKept, IssuerMoved, AwaitAuthorization,
     AwaitClient, OpenTransaction, OpenTransactionFails, ReadForSync, ListUpstream, SyncDone,
     MeetUnauthorized, SyncFails, Disable, ReadToEnable, Enable, InsufficientScope,
     Disconnect, RevokeUpstream, RevokeWrite, Delete, ReadToRewrap, Rewrap, Elsewhere, lockVars
<1>3. CASE RevokeWrite(c)
  <2>1. Deleting(c)' /\ \A d \in Call \ {c} : pc'[d] = pc[d]
    BY <1>1, <1>3 DEF RevokeWrite, Goto, Deleting
  <2>2. Tombstone' /\ (Gone => Gone')
    BY <1>1, <1>3 DEF RevokeWrite, Update, Tombstone, Gone
  <2> QED BY <1>2, <2>1, <2>2 DEF Deleting
<1>4. CASE Delete(c)
  <2>1. Gone' /\ Tombstone'
    BY <1>4 DEF Delete, DeleteRow, Gone, Tombstone
  <2> QED BY <1>2, <2>1
<1>5. CASE ~RevokeWrite(c) /\ ~Delete(c)
  <2>1. \A d \in Call : Deleting(d) => Deleting(d)'
    <3>1. pc[c] \notin {"revokeWrite", "delete"}
          /\ (pc' = pc \/ \E s : Goto(c, s))
      BY <1>5 DEF ServiceStep, StartAuthorization, IssuerKept, IssuerMoved, AwaitAuthorization,
         AwaitClient, OpenTransaction, OpenTransactionFails, ReadForSync, ListUpstream, SyncDone,
         MeetUnauthorized, SyncFails, Disable, ReadToEnable, Enable, InsufficientScope,
         Disconnect, RevokeUpstream, ReadToRewrap, Rewrap, Return, ReadRow, GotoIfUpdated,
         callVars
    <3> QED BY <1>1, <3>1 DEF Goto, Deleting
  <2>2. CASE row' = row
    BY <1>2, <2>1, <2>2 DEF Tombstone, Gone
  <2>3. CASE \E s \in Status : SetStatus(s)
    BY <1>2, <2>1, <2>3, SetStatusOnward
  <2>4. CASE IssuerMoved(c) \/ Rewrap(c)
    <3>1. Tombstone' /\ (Gone => Gone')
      BY <1>1, <2>4 DEF IssuerMoved, Rewrap, Update, Tombstone, Gone, Row
    <3> QED BY <1>2, <2>1, <3>1
  <2> QED
    BY <1>5, <2>2, <2>3, <2>4
       DEF ServiceStep, StartAuthorization, IssuerKept, AwaitAuthorization,
         AwaitClient, OpenTransaction, OpenTransactionFails, ReadForSync, ListUpstream, SyncDone,
         MeetUnauthorized, SyncFails, Disable, ReadToEnable, Enable, InsufficientScope,
         Disconnect, RevokeUpstream, ReadToRewrap, Status
<1> QED BY <1>3, <1>4, <1>5

LEMMA EnvironmentStepsOnward ==
  ASSUME TInv, Tombstone, EnvironmentStep
  PROVE  Onward
<1> USE DEF Onward
<1>1. pc \in [Call -> PC] /\ row \in Row
  BY DEF TInv, TypeOK, ManagerTypeOK, StoreTypeOK, PC
<1>2. ASSUME NEW p \in Process, Crash(p) PROVE Onward
  <2>1. row' = row /\ (mishap => mishap') /\ (lapsed => lapsed')
    BY <1>2 DEF Crash, storeVars
  <2>2. \A c \in Call : Deleting(c) => Deleting(c)' \/ mishap'
    BY <1>1, <1>2 DEF Crash, Deleting
  <2> QED BY <2>1, <2>2 DEF Tombstone, Gone
<1>3. CASE ~\E p \in Process : Crash(p)
  <2>1. row' = row /\ pc' = pc /\ (mishap => mishap') /\ (lapsed => lapsed')
    BY <1>3 DEF EnvironmentStep, LeaseLapses, Lock!Lapse, AccessTokenAges, TransactionExpires,
       PurgeExpired, storeVars, callVars, lockVars
  <2> QED BY <2>1 DEF Tombstone, Gone, Deleting
<1> QED BY <1>2, <1>3

LEMMA NextOnward ==
  ASSUME IInv, TInv, Tombstone, [Next]_vars
  PROVE  Onward
<1>1. ASSUME NEW c \in Call, TokenStep(c) \/ CallbackStep(c) \/ ServiceStep(c) PROVE Onward
  BY <1>1, TokenStepsOnward, CallbackStepsOnward, ServiceStepsOnward
<1>2. CASE EnvironmentStep
  BY <1>2, EnvironmentStepsOnward
<1>3. CASE UNCHANGED vars
  BY <1>3 DEF vars, storeVars, callVars, lockVars, Onward, Tombstone, Gone, Deleting
<1> QED
  BY <1>1, <1>2, <1>3 DEF Next

-----------------------------------------------------------------------------
(***************************************************************************)
(* GrantSurvives                                                           *)
(***************************************************************************)

\* None of the exceptions has happened.
Calm == ~mishap /\ ~lapsed /\ ~Gone /\ \A c \in Call : ~Deleting(c)

\* Critical sections do not overlap.
Locked ==
  /\ \A c \in Call : pc[c] \in InLock => c \in holders
  /\ \A c, d \in holders : c = d

InForce(rt) == rt[2] = last[rt[1]]

\* The call has a new refresh token to store.
Replacing(c) == pc[c] = "store" /\ got[c].rt # None

Of(rt, line) == rt # None /\ rt[1] = line

\* No row, and no row once read, has a refresh token of this grant.
Unseen(line) == ~Of(row.rt, line) /\ \A c \in Call : ~Of(snap[c].rt, line)

\* A grant begun, and not stored yet.
Begun(c) == pc[c] = "storeCode" /\ got[c].rt # None

RowInForce ==
  row.rt # None => InForce(row.rt) \/ \E c \in Call : Replacing(c) /\ snap[c].rt = row.rt

\* The row is as a refresh read it, or it went on to another version and has
\* no token of the grant that was read.
AsRead(c) == row.rt = snap[c].rt /\ row.ver = snap[c].ver
Outdone(c) == snap[c].ver < row.ver /\ ~Of(row.rt, snap[c].rt[1])

\* Unless the row went on, what a refresh presents or is about to store is in
\* force, and the swap will apply.
RefreshSound(c) ==
  pc[c] \in {"refresh", "store", "current"} =>
    \/ Outdone(c)
    \/ /\ AsRead(c)
       /\ pc[c] # "current"
       /\ pc[c] = "refresh" => InForce(snap[c].rt)
       /\ pc[c] = "store" =>
            IF got[c].rt = None THEN InForce(snap[c].rt)
            ELSE InForce(got[c].rt) /\ got[c].rt[1] = snap[c].rt[1]

\* A callback's version is not ahead of the row, and tells its token.
CallbackSound(c) ==
  pc[c] \in {"consume", "exchange", "storeCode"} =>
    snap[c].ver <= row.ver /\ (snap[c].ver = row.ver => snap[c].rt = row.rt)

\* Grants that have yet to begin are nowhere, those begun only with their call.
GrantsApart ==
  /\ \A t \in Txn : sent[t] = 0 =>
       Unseen(t) /\ \A c \in Call : Begun(c) => got[c].rt[1] # t
  /\ \A c \in Call : Begun(c) => InForce(got[c].rt) /\ Unseen(got[c].rt[1])
  /\ \A c, d \in Call : Begun(c) /\ Begun(d) /\ got[c].rt[1] = got[d].rt[1] => c = d

\* A grant the server took for stolen is one the row has left.
RevokedApart ==
  \A l \in revoked :
    /\ ~Of(row.rt, l)
    /\ \A c \in Call : Begun(c) => got[c].rt[1] # l
    /\ \A t \in Txn : sent[t] = 0 => t # l

Sound ==
  /\ Locked
  /\ RevokedApart
  /\ RowInForce
  /\ \A c \in Call : RefreshSound(c) /\ CallbackSound(c)
  /\ GrantsApart

SInv == IInv /\ TInv /\ Tombstone /\ (Calm => Sound)

Carrying == {"refresh", "store", "current", "consume", "exchange", "storeCode"}

\* What almost every step does to a call: nothing; or it is left with nothing
\* to carry, or with what it read, or it tries again, or goes on to present a
\* code; and no token it was about to store in place of the row's is lost.
CallQuiet(c) ==
  \/ pc'[c] = pc[c] /\ snap'[c] = snap[c] /\ got'[c] = got[c]
  \/ /\ Replacing(c) => snap[c].rt # row.rt
     /\ snap'[c].rt \in {None, row.rt, snap[c].rt}
     /\ \/ pc'[c] \notin Carrying
        \/ /\ pc'[c] = "refresh" /\ pc[c] \in {"refresh", "store", "current"} /\ ~Replacing(c)
           /\ snap'[c] = snap[c]
        \/ /\ pc'[c] = "current" /\ pc[c] = "store" /\ row.ver # snap[c].ver
           /\ snap'[c] = snap[c]
        \/ pc'[c] = "exchange" /\ pc[c] = "consume" /\ snap'[c] = snap[c]
        \/ pc'[c] = "consume" /\ snap'[c].ver = row.ver /\ snap'[c].rt = row.rt

\* The lock is left by calls that leave the section, and entered by none.
LockQuiet ==
  /\ holders' \subseteq holders
  /\ \A c \in Call : pc'[c] \in InLock =>
       pc[c] \in InLock /\ (c \in holders => c \in holders')

Still ==
  /\ row'.rt = row.rt /\ row'.ver = row.ver
  /\ last' = last
  /\ \A l \in revoked' \ revoked : ~Of(row.rt, l) /\ \E c \in Call : Of(snap[c].rt, l)
  /\ \A t \in Txn : sent'[t] = 0 => sent[t] = 0
  /\ LockQuiet
  /\ \A c \in Call : CallQuiet(c)

LEMMA StillSound ==
  ASSUME TInv, Sound, Still
  PROVE  Sound'
<1>0. row \in Row
  BY DEF TInv, TypeOK, ManagerTypeOK, StoreTypeOK
<1>1. Locked'
  BY DEF Sound, Locked, Still, LockQuiet
<1>2. ASSUME NEW c \in Call, Replacing(c), snap[c].rt = row.rt
      PROVE  Replacing(c)' /\ snap'[c].rt = row'.rt
  BY <1>2 DEF Still, CallQuiet, Replacing
<1>3. RowInForce'
  BY <1>2 DEF Sound, RowInForce, Still, InForce
<1>4. ASSUME NEW c \in Call PROVE RefreshSound(c)' /\ CallbackSound(c)'
  <2>1. RefreshSound(c) /\ CallbackSound(c) /\ CallQuiet(c)
    BY DEF Sound, Still
  <2>2. CASE pc'[c] = pc[c] /\ snap'[c] = snap[c] /\ got'[c] = got[c]
    BY <2>1, <2>2 DEF Still, RefreshSound, CallbackSound, InForce, AsRead, Outdone, Of
  <2>3. CASE ~(pc'[c] = pc[c] /\ snap'[c] = snap[c] /\ got'[c] = got[c])
    <3>1. CASE pc'[c] \notin Carrying
      BY <3>1 DEF Carrying, RefreshSound, CallbackSound
    <3>2. CASE pc'[c] = "refresh" /\ pc[c] \in {"refresh", "store", "current"} /\ ~Replacing(c)
               /\ snap'[c] = snap[c]
      BY <2>1, <3>2 DEF Still, RefreshSound, CallbackSound, InForce, Replacing, AsRead,
         Outdone, Of
    <3>3. CASE pc'[c] = "current" /\ pc[c] = "store" /\ row.ver # snap[c].ver
               /\ snap'[c] = snap[c]
      BY <2>1, <3>3 DEF Still, RefreshSound, CallbackSound, AsRead, Outdone, Of
    <3>4. CASE pc'[c] \in {"exchange", "consume"}
      BY <1>0, <2>1, <2>3, <3>4 DEF CallQuiet, Carrying, Still, RefreshSound, CallbackSound, Row
    <3> QED BY <2>1, <2>3, <3>1, <3>2, <3>3, <3>4 DEF CallQuiet
  <2> QED BY <2>2, <2>3
<1>5. ASSUME NEW c \in Call, Begun(c)'
      PROVE  Begun(c) /\ got'[c] = got[c]
  BY <1>5 DEF Still, CallQuiet, Begun, Carrying
<1>6. ASSUME NEW l, Unseen(l) PROVE Unseen(l)'
  BY <1>6 DEF Still, CallQuiet, Unseen, Of
<1>7. GrantsApart'
  BY <1>5, <1>6 DEF Sound, GrantsApart, Still, InForce
<1>8. RevokedApart'
  <2>1. ASSUME NEW l \in revoked'
        PROVE  /\ ~Of(row'.rt, l)
               /\ \A c \in Call : Begun(c)' => got'[c].rt[1] # l
               /\ \A t \in Txn : sent'[t] = 0 => t # l
    <3>1. CASE l \in revoked
      BY <1>5, <2>1, <3>1 DEF Sound, RevokedApart, Still, Of
    <3>2. CASE l \notin revoked
      <4>1. ~Of(row.rt, l) /\ ~Unseen(l)
        BY <2>1, <3>2 DEF Still, Unseen
      <4> QED BY <1>5, <2>1, <4>1 DEF Sound, GrantsApart, Still, Of
    <3> QED BY <3>1, <3>2
  <2> QED BY <2>1 DEF RevokedApart
<1> QED BY <1>1, <1>3, <1>4, <1>7, <1>8 DEF Sound

\* Where the row takes no token but one begun, and none begins but of a grant
\* that was nowhere, what was revoked stays apart.
LEMMA RevokedKept ==
  ASSUME Sound, revoked' = revoked,
         \A l : Of(row'.rt, l) => \/ Of(row.rt, l)
                                  \/ \E c \in Call : Begun(c) /\ got[c].rt[1] = l,
         \A c \in Call : Begun(c)' =>
            \/ Begun(c) /\ got'[c].rt = got[c].rt
            \/ \E t \in Txn : sent[t] = 0 /\ got'[c].rt[1] = t,
         \A t \in Txn : sent'[t] = 0 => sent[t] = 0
  PROVE  RevokedApart'
BY DEF Sound, RevokedApart

LEMMA CalmBefore ==
  ASSUME SInv, [Next]_vars, Calm'
  PROVE  Calm /\ Sound
<1>1. Onward
  BY NextOnward DEF SInv
<1>2. Calm
  BY <1>1 DEF Calm, Onward
<1> QED BY <1>2 DEF SInv

\* A refresh rotates the token it presents, or leaves it in force.
LEMMA GrantedSound ==
  ASSUME TInv, Sound, NEW c \in Call, RefreshGranted(c)
  PROVE  Sound'
<1> DEFINE L == snap[c].rt[1]
<1>1. /\ pc[c] = "refresh" /\ snap[c].rt \in RefreshToken /\ L \in Line
      /\ pc \in [Call -> PC] /\ got \in [Call -> TokenSet \cup {None}]
      /\ last \in [Line -> Nat] /\ row \in Row
  BY DEF RefreshGranted, TInv, Carried, TypeOK, ManagerTypeOK, StoreTypeOK, PC, RefreshToken
<1>2. PICK rotates \in BOOLEAN :
        /\ last' = [last EXCEPT ![L] = IF rotates THEN @ + 1 ELSE @]
        /\ got' = [got EXCEPT ![c] =
             [at |-> L, rt |-> IF rotates THEN <<L, last[L] + 1>> ELSE None]]
  BY DEF RefreshGranted, Rotate
<1>3. /\ pc' = [pc EXCEPT ![c] = "store"]
      /\ UNCHANGED <<row, snap, holders, revoked, sent>>
  BY DEF RefreshGranted, Goto, storeVars, lockVars
<1>4. InForce(snap[c].rt) /\ (Outdone(c) \/ AsRead(c))
  BY <1>1 DEF Sound, RefreshSound, RefreshGranted, Honoured, InForce
<1>5. \A d \in Call : pc[d] \in {"refresh", "store", "current"} => d = c
  BY <1>1 DEF Sound, Locked, InLock
<1>6. Locked'
  BY <1>1, <1>3 DEF Sound, Locked, InLock
<1>7. \A l \in Line : l # L => last'[l] = last[l]
  BY <1>1, <1>2
<1>8. RowInForce'
  <2>1. CASE row.rt = None
    BY <2>1, <1>3 DEF RowInForce
  <2>2. CASE row.rt # None
    <3>1. InForce(row.rt) /\ row.rt \in RefreshToken
      BY <1>1, <1>5, <2>2 DEF Sound, RowInForce, Replacing, Row
    <3>2. CASE row.rt[1] = L
      <4>1. row.rt = snap[c].rt
        BY <1>1, <1>4, <3>1, <3>2 DEF InForce, RefreshToken
      <4>2. CASE rotates
        <5>1. Replacing(c)'
          BY <1>1, <1>2, <1>3, <4>2, NoneIsNoToken DEF Replacing
        <5> QED BY <4>1, <5>1, <1>3 DEF RowInForce
      <4>3. CASE ~rotates
        BY <1>1, <1>2, <1>3, <3>1, <4>3 DEF InForce, RowInForce
      <4> QED BY <4>2, <4>3
    <3>3. CASE row.rt[1] # L
      BY <1>3, <1>7, <3>1, <3>3 DEF InForce, RowInForce, RefreshToken
    <3> QED BY <3>2, <3>3
  <2> QED BY <2>1, <2>2
<1>9. ASSUME NEW d \in Call PROVE RefreshSound(d)' /\ CallbackSound(d)'
  <2>1. CASE d = c
    <3>1. pc'[c] = "store"
      BY <1>1, <1>3
    <3>2. IF got'[c].rt = None THEN InForce(snap[c].rt)'
          ELSE InForce(got[c].rt)' /\ got'[c].rt[1] = snap'[c].rt[1]
      <4>1. got'[c].rt = IF rotates THEN <<L, last[L] + 1>> ELSE None
        BY <1>1, <1>2
      <4>2. last'[L] = IF rotates THEN last[L] + 1 ELSE last[L]
        BY <1>1, <1>2
      <4>3. CASE rotates
        <5>1. got'[c].rt[1] = L /\ got'[c].rt[2] = last'[L] /\ got'[c].rt \in RefreshToken
          BY <1>1, <4>1, <4>2, <4>3 DEF RefreshToken
        <5> QED BY <1>3, <5>1, NoneIsNoToken DEF InForce, RefreshToken
      <4>4. CASE ~rotates
        <5>1. got'[c].rt = None /\ last'[L] = last[L]
          BY <4>1, <4>2, <4>4
        <5> QED BY <1>3, <1>4, <5>1 DEF InForce
      <4> QED BY <4>3, <4>4
    <3>3. snap'[c].rt # None /\ (Outdone(c)' \/ AsRead(c)')
      BY <1>1, <1>3, <1>4, NoneIsNoToken DEF Outdone, AsRead, Of, RefreshToken
    <3> QED BY <2>1, <3>1, <3>2, <3>3 DEF RefreshSound, CallbackSound
  <2>2. CASE d # c
    <3>1. pc'[d] = pc[d] /\ pc[d] \notin {"refresh", "store", "current"}
      BY <1>1, <1>3, <1>5, <2>2
    <3> QED BY <1>3, <3>1 DEF RefreshSound, CallbackSound, Sound
  <2> QED BY <2>1, <2>2
<1>10. \A d \in Call : Begun(d)' => Begun(d) /\ got'[d] = got[d]
  BY <1>1, <1>2, <1>3 DEF Begun
<1>11. ASSUME NEW d \in Call, Begun(d) PROVE InForce(got[d].rt)'
  <2>1. InForce(got[d].rt) /\ got[d].rt[1] # L
    BY <1>11, <1>1, NoneIsNoToken DEF Sound, GrantsApart, Unseen, Of, RefreshToken
  <2>2. got[d].rt[1] \in Line
    BY <1>11, <1>1 DEF Begun, TInv, Carried, TokenSet, RefreshToken
  <2>3. d # c
    BY <1>11, <1>1 DEF Begun
  <2> QED BY <1>1, <1>2, <1>7, <2>1, <2>2, <2>3 DEF InForce
<1>12. GrantsApart'
  BY <1>3, <1>10, <1>11 DEF Sound, GrantsApart, Unseen
<1>13. RevokedApart'
  BY <1>3, <1>10, RevokedKept
<1> QED BY <1>6, <1>8, <1>9, <1>12, <1>13 DEF Sound

\* The swap of a refresh: it applies wherever the row has the token read.
LEMMA StoreTokensSound ==
  ASSUME TInv, Sound, ~Gone, NEW c \in Call, StoreTokens(c)
  PROVE  Sound'
<1>1. /\ pc[c] = "store" /\ snap[c].rt \in RefreshToken /\ got[c] \in TokenSet
      /\ pc \in [Call -> PC] /\ got \in [Call -> TokenSet \cup {None}]
      /\ snap \in [Call -> Row] /\ row \in Row /\ row.ver \in Nat
  BY DEF StoreTokens, TInv, Carried, TypeOK, ManagerTypeOK, StoreTypeOK, PC, Row
<1>2. /\ \E s \in {"leave", "current"} : pc' = [pc EXCEPT ![c] = s]
      /\ got' = [got EXCEPT ![c] = None]
      /\ UNCHANGED <<last, revoked, holders, sent>>
  BY DEF StoreTokens, EndSection, Goto, Forget, lockVars, serverVars
<1>3. LockQuiet
  BY <1>1, <1>2 DEF LockQuiet, InLock
<1>4. RefreshSound(c)
  BY DEF Sound
<1>5. CASE ~SwapApplies(snap[c].ver)
  <2>1. row' = row
    BY <1>5 DEF StoreTokens, UpdateTokens
  <2>2. snap[c].ver # row.ver /\ snap[c].rt # row.rt
    BY <1>1, <1>4, <1>5, NoneIsNoToken DEF RefreshSound, AsRead, Outdone, Of, SwapApplies,
       RefreshToken
  <2>a. pc' = [pc EXCEPT ![c] = "current"] /\ snap' = snap
    BY <1>5 DEF StoreTokens, Goto
  <2>3. \A d \in Call : CallQuiet(d)
    BY <1>1, <1>2, <2>2, <2>a DEF CallQuiet, Carrying
  <2> QED BY <1>2, <1>3, <2>1, <2>3, StillSound DEF Still
<1>6. CASE SwapApplies(snap[c].ver)
  <2> DEFINE new == IF got[c].rt = None THEN snap[c].rt ELSE got[c].rt
  <2>1. row'.rt = new /\ row'.ver = row.ver + 1
    BY <1>6 DEF StoreTokens, UpdateTokens, SwapApplies
  <2>a. pc' = [pc EXCEPT ![c] = "leave"] /\ snap' = [snap EXCEPT ![c] = Blank]
    BY <1>6 DEF StoreTokens, EndSection, Goto, Forget
  <2>b. AsRead(c) /\ snap[c].ver \in Nat
    BY <1>1, <1>4, <1>6 DEF RefreshSound, Outdone, SwapApplies, Row
  <2>2. InForce(new) /\ new[1] = snap[c].rt[1] /\ new # None
    BY <1>1, <1>4, <1>6, NoneIsNoToken DEF RefreshSound, Outdone, SwapApplies, RefreshToken, Row
  <2> HIDE DEF new
  <2>3. Locked'
    BY <1>2, <1>3 DEF Sound, Locked, LockQuiet
  <2>4. RowInForce'
    BY <1>2, <2>1, <2>2 DEF RowInForce, InForce
  <2>5. \A d \in Call : pc[d] \in {"refresh", "store", "current"} => d = c
    BY <1>1 DEF Sound, Locked, InLock
  <2>6. ASSUME NEW d \in Call PROVE RefreshSound(d)' /\ CallbackSound(d)'
    <3>1. CASE d = c
      BY <1>1, <2>a, <3>1 DEF RefreshSound, CallbackSound
    <3>2. CASE d # c
      <4>1. pc'[d] = pc[d] /\ pc[d] \notin {"refresh", "store", "current"} /\ snap'[d] = snap[d]
        BY <1>1, <2>a, <2>5, <3>2
      <4>2. CallbackSound(d) /\ snap[d].ver \in Nat
        BY <1>1 DEF Sound, Row
      <4> QED BY <1>1, <2>1, <4>1, <4>2 DEF RefreshSound, CallbackSound
    <3> QED BY <3>1, <3>2
  <2>7. ASSUME NEW l, Unseen(l) PROVE Unseen(l)'
    <3>1. ~Of(snap[c].rt, l)
      BY <2>7 DEF Unseen
    <3>2. snap[c].rt # None
      BY <1>1, NoneIsNoToken DEF RefreshToken
    <3> QED BY <1>1, <2>a, <2>1, <2>2, <2>7, <3>1, <3>2 DEF Unseen, Of, Blank
  <2>8. \A d \in Call : Begun(d)' => Begun(d) /\ got'[d] = got[d]
    BY <1>1, <1>2, <2>a DEF Begun
  <2>9. GrantsApart'
    BY <1>2, <2>7, <2>8 DEF Sound, GrantsApart, InForce
  <2>10. \A l : Of(row'.rt, l) => Of(row.rt, l)
    BY <1>1, <2>1, <2>2, <2>b, NoneIsNoToken DEF Of, AsRead, RefreshToken
  <2>11. RevokedApart'
    BY <1>2, <2>8, <2>10, RevokedKept
  <2> QED BY <2>3, <2>4, <2>6, <2>9, <2>11 DEF Sound
<1> QED BY <1>5, <1>6

\* A spent token came back: its grant is no longer the row's.
LEMMA RefusedSound ==
  ASSUME TInv, Sound, NEW c \in Call, RefreshRefused(c)
  PROVE  Sound'
<1> DEFINE L == snap[c].rt[1]
<1>1. /\ pc[c] = "refresh" /\ snap[c].rt \in RefreshToken /\ pc \in [Call -> PC]
      /\ pc' = [pc EXCEPT ![c] = "refused"]
      /\ UNCHANGED <<row, snap, got, holders, last, sent>>
  BY DEF RefreshRefused, TInv, Carried, TypeOK, ManagerTypeOK, PC, Goto, storeVars, lockVars
<1>2. \A l \in revoked' \ revoked : l = L /\ ~InForce(snap[c].rt)
  BY DEF RefreshRefused, InForce
<1>3. ~InForce(snap[c].rt) => ~Of(row.rt, L)
  BY <1>1 DEF Sound, RefreshSound, Outdone
<1>4. Of(snap[c].rt, L)
  BY <1>1, NoneIsNoToken DEF Of, RefreshToken
<1>5. LockQuiet
  BY <1>1 DEF LockQuiet, InLock
<1>6. \A d \in Call : CallQuiet(d)
  BY <1>1 DEF CallQuiet, Carrying, Replacing
<1> QED BY <1>1, <1>2, <1>3, <1>4, <1>5, <1>6, StillSound DEF Still

\* A grant begins: its line was nowhere before.
LEMMA PresentCodeSound ==
  ASSUME IInv, TInv, Sound, NEW c \in Call, PresentCode(c)
  PROVE  Sound'
<1> DEFINE t == tx[c]
<1>1. /\ pc[c] = "exchange" /\ t \in Txn /\ t \in Line /\ sent[t] = 0 /\ sent \in [Txn -> Nat]
      /\ pc \in [Call -> PC] /\ got \in [Call -> TokenSet \cup {None}]
      /\ snap \in [Call -> Row] /\ last \in [Line -> Nat] /\ row \in Row
  BY LineAssumption DEF PresentCode, IInv, Exclusive, Presenting, TInv, Carried, TypeOK,
     ManagerTypeOK, StoreTypeOK, PC
<1>2. /\ sent' = [sent EXCEPT ![t] = @ + 1]
      /\ UNCHANGED <<row, holders, revoked>>
  BY DEF PresentCode, storeVars, lockVars
<1>3. \A u \in Txn : sent'[u] = 0 => sent[u] = 0 /\ u # t
  BY <1>1, <1>2
<1>4. CASE Return(c) /\ UNCHANGED last
  <2>1. /\ pc' = [pc EXCEPT ![c] = "idle"] /\ snap' = [snap EXCEPT ![c] = Blank]
        /\ got' = [got EXCEPT ![c] = None]
    BY <1>4 DEF Return, Goto, Forget
  <2>2. LockQuiet
    BY <1>1, <1>2, <2>1 DEF LockQuiet, InLock
  <2>3. \A d \in Call : CallQuiet(d)
    BY <1>1, <2>1 DEF CallQuiet, Carrying, Blank, Replacing
  <2> QED BY <1>2, <1>3, <1>4, <2>2, <2>3, StillSound DEF Still
<1>5. CASE ~(Return(c) /\ UNCHANGED last)
  <2>1. PICK refreshable \in BOOLEAN :
          /\ last' = [last EXCEPT ![t] = IF refreshable THEN 1 ELSE 0]
          /\ got' = [got EXCEPT ![c] =
               [at |-> t, rt |-> IF refreshable THEN <<t, 1>> ELSE None]]
    BY <1>5 DEF PresentCode
  <2>2. pc' = [pc EXCEPT ![c] = "storeCode"] /\ snap' = snap /\ tx' = tx
    BY <1>5 DEF PresentCode, Goto
  <2>3. Unseen(t) /\ \A d \in Call : Begun(d) => got[d].rt[1] # t
    BY <1>1 DEF Sound, GrantsApart
  <2>4. \A rt \in RefreshToken : rt[1] # t /\ InForce(rt) => InForce(rt)'
    BY <1>1, <2>1 DEF InForce, RefreshToken
  <2>5. \A d \in Call \ {c} : pc'[d] = pc[d] /\ got'[d] = got[d]
    BY <1>1, <2>1, <2>2
  <2>6. Locked'
    BY <1>1, <1>2, <2>2 DEF Sound, Locked, InLock
  <2>7. RowInForce'
    <3>1. CASE row.rt = None
      BY <1>2, <3>1 DEF RowInForce
    <3>2. CASE row.rt # None
      <4>1. row.rt \in RefreshToken /\ row.rt[1] # t
        BY <1>1, <2>3, <3>2 DEF Unseen, Of, Row
      <4>2. \A d \in Call : Replacing(d) => Replacing(d)'
        BY <1>1, <2>5 DEF Replacing
      <4> QED BY <1>2, <2>2, <2>4, <4>1, <4>2, <3>2 DEF Sound, RowInForce
    <3> QED BY <3>1, <3>2
  <2>8. ASSUME NEW d \in Call PROVE RefreshSound(d)' /\ CallbackSound(d)'
    <3>1. CASE d = c
      BY <1>1, <1>2, <2>2, <3>1 DEF Sound, RefreshSound, CallbackSound
    <3>2. CASE d # c
      <4>1. RefreshSound(d) /\ CallbackSound(d) /\ pc'[d] = pc[d] /\ got'[d] = got[d]
        BY <2>5, <3>2 DEF Sound
      <4>2. CASE pc[d] \in {"refresh", "store", "current"}
        <5>1. snap[d].rt \in RefreshToken /\ snap[d].rt[1] # t
          BY <1>1, <2>3, <4>2, NoneIsNoToken DEF TInv, Carried, Unseen, Of, RefreshToken
        <5>2. pc[d] = "store" => got[d].rt \in RefreshToken \cup {None}
          BY DEF TInv, Carried, TokenSet
        <5>3. (AsRead(d)' <=> AsRead(d)) /\ (Outdone(d)' <=> Outdone(d))
          BY <1>2, <2>2 DEF AsRead, Outdone, Of
        <5>4. pc[d] = "store" /\ ~Outdone(d) /\ got[d].rt # None =>
                got[d].rt \in RefreshToken /\ got[d].rt[1] # t
          BY <4>1, <5>1, <5>2 DEF RefreshSound
        <5>5. RefreshSound(d)'
          BY <2>2, <2>4, <4>1, <4>2, <5>1, <5>3, <5>4 DEF RefreshSound
        <5>6. CallbackSound(d)'
          BY <4>1, <4>2 DEF CallbackSound
        <5> QED BY <5>5, <5>6
      <4>3. CASE pc[d] \notin {"refresh", "store", "current"}
        BY <1>2, <2>2, <4>1, <4>3 DEF RefreshSound, CallbackSound
      <4> QED BY <4>2, <4>3
    <3> QED BY <3>1, <3>2
  <2>9. \A l : Unseen(l) => Unseen(l)'
    BY <1>2, <2>2 DEF Unseen
  <2>10. ASSUME NEW d \in Call, Begun(d)', d # c
         PROVE  /\ Begun(d) /\ got'[d] = got[d] /\ got[d].rt \in RefreshToken
                /\ got[d].rt[1] # t
    <3>1. Begun(d) /\ got'[d] = got[d]
      BY <2>5, <2>10 DEF Begun
    <3> QED BY <2>3, <3>1 DEF Begun, TInv, Carried, TokenSet
  <2>11. Begun(c)' => got'[c].rt[1] = t /\ InForce(got[c].rt)'
    <3>1. got'[c].rt = IF refreshable THEN <<t, 1>> ELSE None
      BY <1>1, <2>1
    <3>2. CASE refreshable
      BY <1>1, <2>1, <3>1, <3>2 DEF InForce
    <3>3. CASE ~refreshable
      BY <3>1, <3>3 DEF Begun
    <3> QED BY <3>2, <3>3
  <2>12. GrantsApart'
    <3>1. ASSUME NEW u \in Txn, sent'[u] = 0
          PROVE  Unseen(u)' /\ \A d \in Call : Begun(d)' => got'[d].rt[1] # u
      <4>1. sent[u] = 0 /\ u # t
        BY <1>3, <3>1
      <4> QED BY <2>9, <2>10, <2>11, <4>1 DEF Sound, GrantsApart
    <3>2. ASSUME NEW d \in Call, Begun(d)'
          PROVE  InForce(got[d].rt)' /\ Unseen(got[d].rt[1])'
      <4>1. CASE d = c
        <5>1. got'[c].rt[1] = t /\ InForce(got[c].rt)'
          BY <2>11, <3>2, <4>1
        <5> QED BY <1>2, <2>2, <2>3, <4>1, <5>1 DEF Unseen
      <4>2. CASE d # c
        <5>1. /\ Begun(d) /\ got'[d] = got[d] /\ got[d].rt \in RefreshToken
              /\ got[d].rt[1] # t /\ InForce(got[d].rt) /\ Unseen(got[d].rt[1])
          BY <2>10, <3>2, <4>2 DEF Sound, GrantsApart
        <5>2. InForce(got[d].rt)'
          BY <2>4, <5>1 DEF InForce
        <5> QED BY <1>2, <2>2, <5>1, <5>2 DEF Unseen
      <4> QED BY <4>1, <4>2
    <3>3. ASSUME NEW d \in Call, NEW e \in Call, Begun(d)', Begun(e)',
                 got'[d].rt[1] = got'[e].rt[1]
          PROVE  d = e
      BY <2>10, <2>11, <3>3 DEF Sound, GrantsApart
    <3> QED BY <3>1, <3>2, <3>3 DEF GrantsApart
  <2>13. RevokedApart'
    <3>1. \A d \in Call : Begun(d)' =>
            \/ Begun(d) /\ got'[d].rt = got[d].rt
            \/ \E u \in Txn : sent[u] = 0 /\ got'[d].rt[1] = u
      BY <1>1, <2>10, <2>11
    <3> QED BY <1>2, <1>3, <3>1, RevokedKept
  <2> QED BY <2>6, <2>7, <2>8, <2>12, <2>13 DEF Sound
<1> QED BY <1>4, <1>5

\* The swap of a callback: a new grant replaces the row's, or a new access
\* token comes to the refresh token that was read, and that is the row's still.
LEMMA StoreGrantSound ==
  ASSUME TInv, Sound, ~Gone, NEW c \in Call, StoreGrant(c), ~mishap'
  PROVE  Sound'
<1>1. /\ pc[c] = "storeCode" /\ got[c] \in TokenSet
      /\ pc \in [Call -> PC] /\ snap \in [Call -> Row] /\ row \in Row /\ row.ver \in Nat
  BY DEF StoreGrant, TInv, Carried, TypeOK, ManagerTypeOK, StoreTypeOK, PC, Row
<1>2. /\ pc' = [pc EXCEPT ![c] = "activate"]
      /\ UNCHANGED <<snap, got, last, revoked, holders, sent>>
  BY DEF StoreGrant, Goto, lockVars, serverVars
<1>3. LockQuiet
  BY <1>1, <1>2 DEF LockQuiet, InLock
<1>4. CASE ~SwapApplies(snap[c].ver)
  <2>1. row' = row
    BY <1>4 DEF StoreGrant, UpdateTokens
  <2>2. \A d \in Call : CallQuiet(d)
    BY <1>1, <1>2 DEF CallQuiet, Carrying, Replacing
  <2> QED BY <1>2, <1>3, <2>1, <2>2, StillSound DEF Still
<1>5. CASE SwapApplies(snap[c].ver)
  <2> DEFINE new == IF got[c].rt = None THEN snap[c].rt ELSE got[c].rt
  <2>1. row'.rt = new /\ row'.ver = row.ver + 1 /\ row.ver = snap[c].ver
    BY <1>5 DEF StoreGrant, UpdateTokens, SwapApplies
  <2>2. snap[c].rt = row.rt
    BY <1>1, <2>1 DEF Sound, CallbackSound
  <2>3. Locked'
    BY <1>2, <1>3 DEF Sound, Locked, LockQuiet
  <2>4. \A d \in Call : CallbackSound(d)'
    <3>1. \A d \in Call : CallbackSound(d) /\ snap[d].ver \in Nat
      BY <1>1 DEF Sound, Row
    <3> QED BY <1>1, <1>2, <2>1, <3>1 DEF CallbackSound
  <2>5. \A d \in Call : pc'[d] \in {"refresh", "store", "current"} <=> pc[d] \in {"refresh", "store", "current"}
    BY <1>1, <1>2
  <2>6. \A d \in Call : Replacing(d) => Replacing(d)'
    BY <1>1, <1>2 DEF Replacing
  <2>7. \A d \in Call : Begun(d)' => Begun(d) /\ d # c
    BY <1>1, <1>2 DEF Begun
  <2>8. CASE got[c].rt = None
    <3>1. row'.rt = row.rt
      BY <2>1, <2>2, <2>8
    <3>2. RowInForce'
      BY <1>2, <2>6, <3>1 DEF Sound, RowInForce, InForce
    <3>3. \A d \in Call : pc[d] \in {"refresh", "store"} => snap[d].ver # row.ver
      BY <1>5, <2>8 DEF StoreGrant, KeepsTokenInUse
    <3>4. ASSUME NEW d \in Call PROVE RefreshSound(d)'
      <4>1. RefreshSound(d) /\ snap[d].ver \in Nat
        BY <1>1 DEF Sound, Row
      <4>2. CASE d = c
        BY <1>1, <1>2, <4>2 DEF RefreshSound
      <4>3. CASE d # c
        <5>1. pc'[d] = pc[d] /\ snap'[d] = snap[d]
          BY <1>1, <1>2, <4>3
        <5>2. pc[d] \in {"refresh", "store", "current"} => Outdone(d)
          BY <3>3, <4>1 DEF RefreshSound, AsRead
        <5>3. Outdone(d) => Outdone(d)'
          BY <1>1, <2>1, <3>1, <4>1, <5>1 DEF Outdone, Of
        <5> QED BY <5>1, <5>2, <5>3 DEF RefreshSound
      <4> QED BY <4>2, <4>3
    <3>5. \A l : Unseen(l) => Unseen(l)'
      BY <1>2, <3>1 DEF Unseen
    <3>6. GrantsApart'
      BY <1>2, <2>7, <3>5 DEF Sound, GrantsApart, InForce
    <3>7. RevokedApart'
      BY <1>2, <2>7, <3>1, RevokedKept DEF Of
    <3> QED BY <2>3, <2>4, <3>2, <3>4, <3>6, <3>7 DEF Sound
  <2>9. CASE got[c].rt # None
    <3>1. row'.rt = got[c].rt
      BY <2>1, <2>9
    <3>2. Begun(c) /\ InForce(got[c].rt) /\ Unseen(got[c].rt[1])
      BY <1>1, <2>9 DEF Begun, Sound, GrantsApart
    <3>3. RowInForce'
      BY <1>2, <3>1, <3>2 DEF RowInForce, InForce
    <3>4. ASSUME NEW d \in Call PROVE RefreshSound(d)'
      <4>1. RefreshSound(d) /\ snap[d].ver \in Nat
        BY <1>1 DEF Sound, Row
      <4>2. CASE d = c
        BY <1>1, <1>2, <4>2 DEF RefreshSound
      <4>3. CASE d # c /\ pc[d] \in {"refresh", "store", "current"}
        <5>1. pc'[d] = pc[d] /\ snap'[d] = snap[d]
          BY <1>1, <1>2, <4>3
        <5>2. snap[d].rt # None
          BY <4>3, NoneIsNoToken DEF TInv, Carried, RefreshToken
        <5>3. snap[d].rt[1] # got[c].rt[1]
          BY <3>2, <5>2 DEF Unseen, Of
        <5>4. snap[d].ver <= row.ver
          BY <1>1, <4>1, <4>3 DEF RefreshSound, Outdone, AsRead
        <5>5. Outdone(d)'
          BY <1>1, <2>1, <3>1, <4>1, <5>1, <5>3, <5>4 DEF Outdone, Of
        <5> QED BY <5>5 DEF RefreshSound
      <4>4. CASE d # c /\ pc[d] \notin {"refresh", "store", "current"}
        BY <1>1, <1>2, <4>4 DEF RefreshSound
      <4> QED BY <4>2, <4>3, <4>4
    <3>5. \A l : Unseen(l) /\ l # got[c].rt[1] => Unseen(l)'
      BY <1>2, <3>1 DEF Unseen, Of
    <3>6. \A d \in Call : Begun(d)' => got[d].rt[1] # got[c].rt[1]
      BY <2>7, <3>2 DEF Sound, GrantsApart
    <3>7. GrantsApart'
      <4>1. \A t \in Txn : sent[t] = 0 => t # got[c].rt[1]
        BY <3>2 DEF Sound, GrantsApart
      <4> QED BY <1>2, <2>7, <3>5, <3>6, <4>1 DEF Sound, GrantsApart, InForce
    <3>8. RevokedApart'
      <4>1. \A l : Of(row'.rt, l) => l = got[c].rt[1]
        BY <3>1 DEF Of
      <4> QED BY <1>2, <2>7, <3>2, <4>1, RevokedKept
    <3> QED BY <2>3, <2>4, <3>3, <3>4, <3>7, <3>8 DEF Sound
  <2> QED BY <2>8, <2>9
<1> QED BY <1>4, <1>5

\* The row read in the lock: nobody else's refresh is under way.
LEMMA AcquireSound ==
  ASSUME TInv, Sound, ~lapsed, NEW c \in Call, AcquireAndRead(c)
  PROVE  Sound'
<1>1. /\ pc[c] = "waitLock" /\ holders = {} /\ holders' = {c}
      /\ pc \in [Call -> PC] /\ snap \in [Call -> Row] /\ row \in Row
      /\ got \in [Call -> TokenSet \cup {None}]
      /\ UNCHANGED <<row, last, revoked, sent>>
  BY DEF AcquireAndRead, Lock!Grant, TInv, TypeOK, ManagerTypeOK, StoreTypeOK, PC, storeVars,
     serverVars
<1>2. \A d \in Call : pc[d] \notin InLock
  BY <1>1 DEF Sound, Locked
<1>3. \A d \in Call : ~Replacing(d)
  BY <1>2 DEF Replacing, InLock
<1>4. PICK s \in {"refresh", "leave"} :
        /\ pc' = [pc EXCEPT ![c] = s]
        /\ \/ s = "leave" /\ Forget(c)
           \/ /\ s = "refresh" /\ row.rt # None /\ got' = got
              /\ snap' = [snap EXCEPT ![c] = [row EXCEPT !.at = None]]
  BY DEF AcquireAndRead, EndSection, Goto, Remember
<1>5. \A d \in Call \ {c} : pc'[d] = pc[d] /\ snap'[d] = snap[d] /\ got'[d] = got[d]
  BY <1>1, <1>4 DEF Forget
<1>6. snap'[c].rt \in {None, row.rt} /\ (s = "refresh" => snap'[c].rt = row.rt /\ snap'[c].ver = row.ver)
  BY <1>1, <1>4 DEF Forget, Blank, Row
<1>7. Locked'
  BY <1>1, <1>2, <1>4 DEF Sound, Locked
<1>8. RowInForce' /\ (row.rt # None => InForce(row.rt))
  BY <1>1, <1>3 DEF Sound, RowInForce, InForce
<1>9. ASSUME NEW d \in Call PROVE RefreshSound(d)' /\ CallbackSound(d)'
  <2>1. CASE d = c
    <3>1. pc'[c] = s
      BY <1>1, <1>4
    <3>2. s = "refresh" => AsRead(c)' /\ InForce(snap[c].rt)'
      BY <1>1, <1>4, <1>6, <1>8 DEF AsRead, InForce
    <3> QED BY <2>1, <3>1, <3>2 DEF RefreshSound, CallbackSound
  <2>2. CASE d # c
    <3>1. pc'[d] = pc[d] /\ pc[d] \notin {"refresh", "store", "current"}
      BY <1>2, <1>5, <2>2 DEF InLock
    <3> QED BY <1>1, <1>5, <2>2, <3>1 DEF Sound, RefreshSound, CallbackSound
  <2> QED BY <2>1, <2>2
<1>10. \A l : Unseen(l) => Unseen(l)'
  BY <1>1, <1>5, <1>6 DEF Unseen, Of
<1>11. \A d \in Call : Begun(d)' => Begun(d) /\ got'[d] = got[d]
  BY <1>1, <1>4, <1>5 DEF Begun
<1>12. GrantsApart'
  BY <1>1, <1>10, <1>11 DEF Sound, GrantsApart, InForce
<1>13. RevokedApart'
  BY <1>1, <1>11, RevokedKept
<1> QED BY <1>7, <1>8, <1>9, <1>12, <1>13 DEF Sound

\* The old grant is dropped, from the row as it was read.
LEMMA IssuerMovedSound ==
  ASSUME TInv, Sound, ~Gone, NEW c \in Call, IssuerMoved(c), ~mishap'
  PROVE  Sound'
<1>1. /\ pc[c] = "prepare" /\ pc \in [Call -> PC] /\ snap \in [Call -> Row]
      /\ got \in [Call -> TokenSet \cup {None}] /\ row.ver \in Nat
  BY DEF IssuerMoved, TInv, TypeOK, ManagerTypeOK, StoreTypeOK, PC, Row
<1>2. row.ver = snap[c].ver
  BY DEF IssuerMoved
<1>3. row'.rt = None /\ row'.ver = row.ver + 1
  BY <1>2 DEF IssuerMoved, Update, TInv, TypeOK, ManagerTypeOK, StoreTypeOK, Row
<1>4. /\ \E s \in {"prepared", "idle"} : pc' = [pc EXCEPT ![c] = s]
      /\ snap' = [snap EXCEPT ![c] = Blank] /\ got' = [got EXCEPT ![c] = None]
      /\ UNCHANGED <<last, revoked, holders, sent>>
  BY DEF IssuerMoved, GotoIfUpdated, Goto, Forget, Elsewhere, lockVars
<1>5. Locked'
  BY <1>1, <1>4 DEF Sound, Locked, InLock
<1>6. RowInForce'
  BY <1>3 DEF RowInForce
<1>7. ASSUME NEW d \in Call PROVE RefreshSound(d)' /\ CallbackSound(d)'
  <2>1. CASE d = c
    BY <1>1, <1>4, <2>1 DEF RefreshSound, CallbackSound
  <2>2. CASE d # c
    <3>1. pc'[d] = pc[d] /\ snap'[d] = snap[d] /\ got'[d] = got[d] /\ snap[d].ver \in Nat
      BY <1>1, <1>4, <2>2 DEF Row
    <3>3. RefreshSound(d) /\ CallbackSound(d)
      BY DEF Sound
    <3>4. RefreshSound(d)'
      <4>1. pc[d] \in {"refresh", "store", "current"} => snap[d].ver <= row.ver
        BY <1>1, <3>1, <3>3 DEF RefreshSound, AsRead, Outdone
      <4>2. pc[d] \in {"refresh", "store", "current"} => Outdone(d)'
        BY <1>1, <1>3, <3>1, <4>1 DEF Outdone, Of
      <4> QED BY <3>1, <4>2 DEF RefreshSound
    <3>5. CallbackSound(d)'
      BY <1>1, <1>3, <3>1, <3>3 DEF CallbackSound
    <3> QED BY <3>4, <3>5
  <2> QED BY <2>1, <2>2
<1>8. \A l : Unseen(l) => Unseen(l)'
  BY <1>1, <1>3, <1>4 DEF Unseen, Of, Blank
<1>9. \A d \in Call : Begun(d)' => Begun(d) /\ got'[d] = got[d]
  BY <1>1, <1>4 DEF Begun
<1>10. GrantsApart'
  BY <1>4, <1>8, <1>9 DEF Sound, GrantsApart, InForce
<1>11. RevokedApart'
  BY <1>3, <1>4, <1>9, RevokedKept DEF Of
<1> QED BY <1>5, <1>6, <1>7, <1>10, <1>11 DEF Sound

\* One call's step that only reads, ends it, or touches the row's status.
LEMMA CallStill ==
  ASSUME TInv, NEW c \in Call, NEW s \in PC, Goto(c, s), s \notin Carrying,
         s \in InLock => pc[c] \in InLock,
         Replacing(c) => snap[c].rt # row.rt,
         \A d \in Call \ {c} : snap'[d] = snap[d] /\ got'[d] = got[d],
         snap'[c].rt \in {None, row.rt, snap[c].rt},
         row'.rt = row.rt, row'.ver = row.ver,
         holders' = holders \/ (holders' = holders \ {c} /\ s \notin InLock),
         UNCHANGED <<last, revoked, sent>>
  PROVE  Still
<1>1. pc \in [Call -> PC]
  BY DEF TInv, TypeOK, ManagerTypeOK, PC
<1>2. LockQuiet
  BY <1>1 DEF LockQuiet, Goto
<1>3. \A d \in Call : CallQuiet(d)
  BY <1>1 DEF CallQuiet, Goto
<1> QED BY <1>2, <1>3 DEF Still

\* What ends leaves nothing behind.
LEMMA ForgetsAll ==
  ASSUME TInv, NEW c \in Call, Forget(c)
  PROVE  /\ \A d \in Call \ {c} : snap'[d] = snap[d] /\ got'[d] = got[d]
         /\ snap'[c].rt = None
BY DEF TInv, TypeOK, ManagerTypeOK, Forget, Blank

LEMMA StatusOnly ==
  ASSUME TInv, NEW s, SetStatus(s)
  PROVE  row'.rt = row.rt /\ row'.ver = row.ver
BY DEF SetStatus, Update, TInv, TypeOK, ManagerTypeOK, StoreTypeOK, Row

LEMMA TokenStepsSound ==
  ASSUME TInv, Sound, Calm, Calm', NEW c \in Call, TokenStep(c)
  PROVE  Sound'
<1>1. /\ pc \in [Call -> PC] /\ snap \in [Call -> Row] /\ row \in Row
      /\ got \in [Call -> TokenSet \cup {None}]
  BY DEF TInv, TypeOK, ManagerTypeOK, StoreTypeOK, PC
<1>2. ~Gone /\ ~lapsed /\ ~lapsed' /\ ~mishap'
  BY DEF Calm
<1>3. ASSUME NEW h \in BOOLEAN, GetToken(c, h) PROVE Sound'
  <2>1. PICK s \in {"waitLock", "markReauth"} : Goto(c, s)
    BY <1>3 DEF GetToken
  <2>2. ~Replacing(c) /\ UNCHANGED <<row, snap, got, holders, last, revoked, sent>>
    BY <1>3 DEF GetToken, Replacing, storeVars, lockVars, serverVars
  <2>3. Still
    BY <2>1, <2>2, CallStill DEF PC, TokenPC, Carrying, InLock
  <2> QED BY <2>3, StillSound
<1>4. CASE MarkReauth(c) \/ Degrade(c) \/ MarkRefused(c)
  <2>1. row'.rt = row.rt /\ row'.ver = row.ver
    BY <1>4, StatusOnly DEF MarkReauth, Degrade, MarkRefused
  <2>2. PICK s \in {"idle", "leave"} :
          Goto(c, s) /\ Forget(c) /\ (s = "leave" => pc[c] \in InLock)
    BY <1>4 DEF MarkReauth, Degrade, MarkRefused, Return, EndSection, InLock
  <2>3. ~Replacing(c) /\ UNCHANGED <<holders, last, revoked, sent>>
    BY <1>4 DEF MarkReauth, Degrade, MarkRefused, Replacing, lockVars, serverVars
  <2>4. Still
    BY <2>1, <2>2, <2>3, ForgetsAll, CallStill DEF PC, TokenPC, Carrying, InLock
  <2> QED BY <2>4, StillSound
<1>5. CASE LockTimeout(c) \/ LeaveLock(c)
  <2>1. /\ Goto(c, "idle") /\ Forget(c) /\ ~Replacing(c)
        /\ UNCHANGED <<row, last, revoked, sent>>
        /\ holders' = holders \/ holders' = holders \ {c}
    BY <1>5 DEF LockTimeout, LeaveLock, Return, Replacing, Lock!Leave, storeVars, lockVars,
       serverVars
  <2>2. Still
    BY <2>1, ForgetsAll, CallStill DEF PC, TokenPC, Carrying, InLock
  <2> QED BY <2>2, StillSound
<1>6. CASE AcquireAndRead(c)
  BY <1>2, <1>6, AcquireSound
<1>7. CASE RefreshGranted(c)
  BY <1>7, GrantedSound
<1>8. CASE RefreshAnswerLost(c)
  BY <1>2, <1>8 DEF RefreshAnswerLost
<1>9. CASE \/ RefreshUnavailable(c)
           \/ StoreTokensFails(c)
           \/ ServeCurrent(c) /\ RetryOrDegrade(c)
  <2>1. /\ RetryOrDegrade(c) /\ pc[c] \in {"refresh", "store", "current"}
        /\ UNCHANGED <<row, holders, last, revoked, sent>>
    BY <1>9 DEF RefreshUnavailable, StoreTokensFails, ServeCurrent, storeVars, lockVars,
       serverVars
  <2>2. ~Replacing(c)
    BY <1>2, <1>9 DEF RefreshUnavailable, StoreTokensFails, ServeCurrent, Replacing
  <2>3. PICK s \in {"refresh", "degrade"} : pc' = [pc EXCEPT ![c] = s]
    BY <2>1 DEF RetryOrDegrade, Goto
  <2>4. snap' = snap /\ got' = [got EXCEPT ![c] = None]
    BY <2>1 DEF RetryOrDegrade
  <2>5. LockQuiet
    BY <1>1, <2>1, <2>3 DEF LockQuiet, InLock
  <2>6. \A d \in Call : CallQuiet(d)
    BY <1>1, <2>1, <2>2, <2>3, <2>4 DEF CallQuiet, Carrying
  <2>7. Still
    BY <2>1, <2>5, <2>6 DEF Still
  <2> QED BY <2>7, StillSound
<1>10. CASE RefreshRefused(c)
  BY <1>10, RefusedSound
<1>11. CASE StoreTokens(c)
  BY <1>2, <1>11, StoreTokensSound
<1>12. CASE ServeCurrent(c) /\ ~RetryOrDegrade(c)
  <2>1. /\ Goto(c, "leave") /\ Forget(c) /\ pc[c] = "current"
        /\ UNCHANGED <<row, holders, last, revoked, sent>>
    BY <1>12 DEF ServeCurrent, EndSection, storeVars, lockVars, serverVars
  <2>2. Still
    BY <2>1, ForgetsAll, CallStill DEF PC, TokenPC, Carrying, InLock, Replacing
  <2> QED BY <2>2, StillSound
<1> QED
  BY <1>3, <1>4, <1>5, <1>6, <1>7, <1>8, <1>9, <1>10, <1>11, <1>12 DEF TokenStep

LEMMA CallbackStepsSound ==
  ASSUME IInv, TInv, Sound, Calm, Calm', NEW c \in Call, CallbackStep(c)
  PROVE  Sound'
<1>1. /\ pc \in [Call -> PC] /\ snap \in [Call -> Row] /\ row \in Row
      /\ got \in [Call -> TokenSet \cup {None}]
  BY DEF TInv, TypeOK, ManagerTypeOK, StoreTypeOK, PC
<1>2. ~Gone /\ ~mishap'
  BY DEF Calm
<1>3. ASSUME NEW t \in Txn, Callback(c, t) PROVE Sound'
  <2>1. UNCHANGED <<row, holders, last, revoked, sent>> /\ pc[c] = "idle"
    BY <1>3 DEF Callback, lockVars, serverVars
  <2>2. \/ UNCHANGED <<pc, snap, got>>
        \/ /\ pc' = [pc EXCEPT ![c] = "consume"] /\ got' = got
           /\ snap' = [snap EXCEPT ![c] = [Blank EXCEPT !.ver = row.ver, !.rt = row.rt]]
    BY <1>3 DEF Callback, callVars, Goto, Remember
  <2>3. LockQuiet
    BY <1>1, <2>1, <2>2 DEF LockQuiet, InLock
  <2>4. \A d \in Call : CallQuiet(d)
    BY <1>1, <2>1, <2>2 DEF CallQuiet, Carrying, Blank, Replacing
  <2>5. Still
    BY <2>1, <2>3, <2>4 DEF Still
  <2> QED BY <2>5, StillSound
<1>4. CASE ConsumeTransaction(c)
  <2>1. UNCHANGED <<row, holders, last, revoked, sent>> /\ pc[c] = "consume"
    BY <1>4 DEF ConsumeTransaction, lockVars, serverVars
  <2>2. \/ pc' = [pc EXCEPT ![c] = "exchange"] /\ UNCHANGED <<snap, got>>
        \/ /\ pc' = [pc EXCEPT ![c] = "idle"] /\ snap' = [snap EXCEPT ![c] = Blank]
           /\ got' = [got EXCEPT ![c] = None]
    BY <1>4 DEF ConsumeTransaction, Goto, Return, Forget
  <2>3. LockQuiet
    BY <1>1, <2>1, <2>2 DEF LockQuiet, InLock
  <2>4. \A d \in Call : CallQuiet(d)
    BY <1>1, <2>1, <2>2 DEF CallQuiet, Carrying, Blank, Replacing
  <2>5. Still
    BY <2>1, <2>3, <2>4 DEF Still
  <2> QED BY <2>5, StillSound
<1>5. CASE PresentCode(c)
  BY <1>5, PresentCodeSound
<1>6. CASE StoreGrant(c)
  BY <1>2, <1>6, StoreGrantSound
<1>7. CASE StoreGrantFails(c)
  <2>1. /\ Goto(c, "idle") /\ Forget(c) /\ ~Replacing(c)
        /\ UNCHANGED <<row, holders, last, revoked, sent>>
    BY <1>7 DEF StoreGrantFails, Return, Replacing, storeVars, lockVars, serverVars
  <2>2. Still
    BY <2>1, ForgetsAll, CallStill DEF PC, TokenPC, Carrying, InLock
  <2> QED BY <2>2, StillSound
<1>8. CASE Activate(c)
  <2>1. /\ Goto(c, "sync") /\ pc[c] = "activate"
        /\ snap' = [snap EXCEPT ![c] = [Blank EXCEPT !.status = row.status]]
        /\ got' = [got EXCEPT ![c] = None]
        /\ UNCHANGED <<row, holders, last, revoked, sent>>
    BY <1>2, <1>8 DEF Activate, Remember, Elsewhere, lockVars
  <2>2. Still
    BY <1>1, <2>1, CallStill DEF PC, ServicePC, TokenPC, Carrying, InLock, Replacing, Blank
  <2> QED BY <2>2, StillSound
<1> QED
  BY <1>3, <1>4, <1>5, <1>6, <1>7, <1>8 DEF CallbackStep

LEMMA ServiceStepsSound ==
  ASSUME TInv, Sound, Calm, Calm', NEW c \in Call, ServiceStep(c)
  PROVE  Sound'
<1> USE DEF Elsewhere, lockVars
<1>1. /\ pc \in [Call -> PC] /\ snap \in [Call -> Row] /\ row \in Row
      /\ got \in [Call -> TokenSet \cup {None}]
  BY DEF TInv, TypeOK, ManagerTypeOK, StoreTypeOK, PC
<1>2. ~Gone /\ ~mishap' /\ ~Gone' /\ \A d \in Call : ~Deleting(d) /\ ~Deleting(d)'
  BY DEF Calm
<1>3. ASSUME NEW s \in ServicePC \cup {"idle"}, Goto(c, s),
             pc[c] \in ServicePC \cup {"idle"},
             \A d \in Call \ {c} : snap'[d] = snap[d] /\ got'[d] = got[d],
             snap'[c].rt \in {None, row.rt, snap[c].rt},
             row'.rt = row.rt, row'.ver = row.ver, UNCHANGED <<holders, last, revoked, sent>>
      PROVE  Sound'
  <2>1. Still
    BY <1>3, CallStill DEF PC, TokenPC, ServicePC, Carrying, InLock, Replacing
  <2> QED BY <2>1, StillSound
<1>4. CASE StartAuthorization(c) \/ ReadForSync(c) \/ ReadToEnable(c) \/ Disconnect(c)
           \/ ReadToRewrap(c)
  <2>1. PICK s \in ServicePC, columns \in
               {[Blank EXCEPT !.ver = row.ver], [Blank EXCEPT !.status = row.status],
                [Blank EXCEPT !.at = row.at, !.rt = row.rt],
                [Blank EXCEPT !.ver = row.ver, !.rt = row.rt]} : ReadRow(c, s, columns)
    BY <1>4 DEF StartAuthorization, ReadForSync, ReadToEnable, Disconnect, ReadToRewrap,
       ServicePC
  <2>2. columns.rt \in {None, row.rt}
    BY DEF Blank
  <2>3. /\ Goto(c, s) /\ snap' = [snap EXCEPT ![c] = columns] /\ got' = got
    BY <2>1 DEF ReadRow, Remember
  <2>4. pc[c] = "idle" /\ UNCHANGED <<row, holders, last, revoked, sent>>
    BY <1>4 DEF StartAuthorization, ReadForSync, ReadToEnable, Disconnect, ReadToRewrap
  <2> QED BY <1>1, <1>3, <2>2, <2>3, <2>4
<1>5. CASE IssuerKept(c) \/ OpenTransactionFails(c)
           \/ \E t \in Txn : OpenTransaction(c, t)
  <2>1. /\ \E s \in {"prepared", "idle"} : Goto(c, s)
        /\ Forget(c) /\ pc[c] \in ServicePC
        /\ UNCHANGED <<row, holders, last, revoked, sent>>
    BY <1>5 DEF IssuerKept, OpenTransactionFails, OpenTransaction, Return, ServicePC
  <2> QED BY <1>3, <2>1, ForgetsAll DEF ServicePC
<1>6. CASE IssuerMoved(c)
  BY <1>2, <1>6, IssuerMovedSound
<1>7. CASE AwaitAuthorization(c) \/ AwaitClient(c) \/ SyncDone(c) \/ SyncFails(c)
  <2>1. row'.rt = row.rt /\ row'.ver = row.ver
    BY <1>7, StatusOnly DEF AwaitAuthorization, AwaitClient, SyncDone, SyncFails
  <2>2. /\ \E s \in {"transact", "idle"} : Goto(c, s)
        /\ Forget(c) /\ pc[c] \in ServicePC
        /\ UNCHANGED <<holders, last, revoked, sent>>
    BY <1>7 DEF AwaitAuthorization, AwaitClient, SyncDone, SyncFails, Return, GotoIfUpdated,
       ServicePC
  <2> QED BY <1>3, <2>1, <2>2, ForgetsAll DEF ServicePC
<1>8. CASE ListUpstream(c) \/ MeetUnauthorized(c)
  <2>1. /\ \E s \in {"listing", "unauthorized"} : Goto(c, s)
        /\ pc[c] \in ServicePC
        /\ UNCHANGED <<row, snap, got, holders, last, revoked, sent>>
    BY <1>8 DEF ListUpstream, MeetUnauthorized, ServicePC
  <2> QED BY <1>3, <2>1 DEF ServicePC
<1>9. CASE Disable(c) \/ InsufficientScope(c)
  <2>1. row'.rt = row.rt /\ row'.ver = row.ver
    BY <1>9, StatusOnly DEF Disable, InsufficientScope
  <2>2. Still
    BY <1>9, <2>1 DEF Disable, InsufficientScope, callVars, Still, LockQuiet, CallQuiet
  <2> QED BY <2>2, StillSound
<1>10. CASE Enable(c)
  <2>1. row'.rt = row.rt /\ row'.ver = row.ver
    BY <1>10, StatusOnly DEF Enable
  <2>2. /\ Goto(c, "sync") /\ got' = got /\ pc[c] \in ServicePC
        /\ UNCHANGED <<holders, last, revoked, sent>>
    BY <1>2, <1>10 DEF Enable, ServicePC
  <2>3. PICK s : snap' = [snap EXCEPT ![c] = [Blank EXCEPT !.status = s]]
    BY <1>2, <1>10 DEF Enable, Remember
  <2>4. snap'[c].rt = None
    BY <1>1, <2>3 DEF Blank
  <2> QED BY <1>1, <1>3, <2>1, <2>2, <2>3, <2>4 DEF ServicePC
<1>11. CASE RevokeUpstream(c) \/ RevokeWrite(c)
  <2>1. Deleting(c)'
    BY <1>1, <1>11 DEF RevokeUpstream, RevokeWrite, Goto, Deleting
  <2> QED BY <1>2, <2>1
<1>12. CASE Delete(c)
  BY <1>2, <1>12 DEF Delete, Deleting
<1>13. CASE Rewrap(c)
  <2>1. row'.rt = row.rt /\ row'.ver = row.ver
    BY <1>1, <1>2, <1>13 DEF Rewrap, Update, Row
  <2>2. /\ Goto(c, "idle") /\ Forget(c) /\ pc[c] \in ServicePC
        /\ UNCHANGED <<holders, last, revoked, sent>>
    BY <1>13 DEF Rewrap, Return, ServicePC
  <2> QED BY <1>3, <2>1, <2>2, ForgetsAll
<1> QED
  BY <1>4, <1>5, <1>6, <1>7, <1>8, <1>9, <1>10, <1>11, <1>12, <1>13 DEF ServiceStep

LEMMA EnvironmentStepsSound ==
  ASSUME TInv, Sound, Calm, Calm', EnvironmentStep
  PROVE  Sound'
<1>1. ~lapsed' /\ ~mishap'
  BY DEF Calm
<1>2. ASSUME NEW p \in Process, Crash(p) PROVE Sound'
  <2> DEFINE dead == {c \in Call : Home[c] = p}
  <2>1. /\ holders' = holders \ dead /\ UNCHANGED <<row, last, revoked, sent>>
        /\ \A c \in Call \ dead : pc'[c] = pc[c] /\ snap'[c] = snap[c] /\ got'[c] = got[c]
        /\ \A c \in dead : pc'[c] = "idle" /\ snap'[c] = Blank /\ pc[c] # "store"
    BY <1>1, <1>2 DEF Crash, storeVars, serverVars
  <2>2. LockQuiet
    BY <2>1 DEF LockQuiet, InLock
  <2>3. \A c \in Call : CallQuiet(c)
    BY <2>1 DEF CallQuiet, Carrying, Replacing, Blank
  <2>4. Still
    BY <2>1, <2>2, <2>3 DEF Still
  <2> QED BY <2>4, StillSound
<1>3. ASSUME NEW c \in Call, LeaseLapses(c) PROVE Sound'
  BY <1>1, <1>3 DEF LeaseLapses, Lock!Lapse
<1>4. CASE ~\E p \in Process : Crash(p)
  <2>1. UNCHANGED <<row, pc, snap, got, holders, last, revoked, sent>>
    BY <1>1, <1>3, <1>4 DEF EnvironmentStep, LeaseLapses, Lock!Lapse, AccessTokenAges,
       TransactionExpires, PurgeExpired, callVars, lockVars, serverVars
  <2>2. Still
    BY <2>1 DEF Still, LockQuiet, CallQuiet
  <2> QED BY <2>2, StillSound
<1> QED BY <1>2, <1>4

LEMMA SoundInductive == SInv /\ [Next]_vars => SInv'
<1> SUFFICES ASSUME SInv, [Next]_vars PROVE SInv'
  OBVIOUS
<1>1. IInv' /\ TInv' /\ Tombstone'
  BY Inductive, TypedInductive, NextOnward DEF SInv, Onward
<1>2. ASSUME Calm' PROVE Sound'
  <2>1. Calm /\ Sound /\ TInv /\ IInv
    BY <1>2, CalmBefore DEF SInv
  <2>2. ASSUME NEW c \in Call, TokenStep(c) \/ CallbackStep(c) \/ ServiceStep(c) PROVE Sound'
    BY <1>2, <2>1, <2>2, TokenStepsSound, CallbackStepsSound, ServiceStepsSound
  <2>3. CASE EnvironmentStep
    BY <1>2, <2>1, <2>3, EnvironmentStepsSound
  <2>4. CASE UNCHANGED vars
    <3>1. Still
      BY <2>4 DEF vars, storeVars, callVars, lockVars, serverVars, Still, LockQuiet, CallQuiet
    <3> QED BY <2>1, <3>1, StillSound
  <2> QED BY <2>2, <2>3, <2>4 DEF Next
<1> QED BY <1>1, <1>2 DEF SInv

LEMMA SoundInitially == Init => SInv
<1> SUFFICES ASSUME Init PROVE SInv
  OBVIOUS
<1>1. IInv /\ TypeOK
  BY Initially, TypedInitially
<1>2. TInv /\ Tombstone
  BY <1>1 DEF Init, TInv, Carried, Tombstone, Gone
<1>3. Locked /\ RowInForce /\ RevokedApart
  BY StartAssumption DEF Init, Locked, InLock, RowInForce, InForce, RevokedApart, Lock!LeaseInit
<1>4. \A c \in Call : RefreshSound(c) /\ CallbackSound(c)
  BY DEF Init, RefreshSound, CallbackSound
<1>5. GrantsApart
  BY StartAssumption DEF Init, GrantsApart, Unseen, Of, Begun, Blank
<1> QED BY <1>1, <1>2, <1>3, <1>4, <1>5 DEF SInv, Sound

LEMMA SoundSurvives == SInv => GrantSurvives
<1> SUFFICES ASSUME SInv, ~mishap, ~lapsed, row.rt # None
             PROVE  \/ Honoured(row.rt)
                    \/ \E c \in Call : pc[c] = "store" /\ got[c].rt # None
                                       /\ snap[c].rt = row.rt
                    \/ \E c \in Call : pc[c] \in {"revokeWrite", "delete"}
  BY DEF GrantSurvives
<1>1. ~Gone
  BY DEF SInv, Tombstone
<1>2. CASE \E c \in Call : Deleting(c)
  BY <1>2 DEF Deleting
<1>3. CASE Calm
  BY <1>3 DEF SInv, Sound, RowInForce, RevokedApart, Of, InForce, Replacing, Honoured
<1> QED BY <1>1, <1>2, <1>3 DEF Calm

\* The variables of the token manager, the store and the service keep their
\* types, and so no operation is ever entered without what it works on.
THEOREM TypeCorrect == Spec => []TypeOK
<1>1. SInv => TypeOK
  BY DEF SInv, TInv
<1> QED BY <1>1, SoundInitially, SoundInductive, PTL DEF Spec

\* As long as none of the named mishaps happens, no interleaving of refreshes,
\* callbacks, syncs, issuer moves and crashes leaves a spent refresh token in
\* the row of a connection that is not being deleted.
THEOREM GrantIsNeverSpent == Spec => []GrantSurvives
<1> QED BY SoundSurvives, SoundInitially, SoundInductive, PTL DEF Spec


-----------------------------------------------------------------------------
(***************************************************************************)
(* The lock                                                                *)
(***************************************************************************)

LEMMA LockStep ==
  ASSUME TypeOK, [Next]_vars
  PROVE  [Lock!LeaseNext]_(Lock!leaseVars)
<1> USE DEF Lock!LeaseNext, Lock!leaseVars
<1>1. holders \subseteq Call
  BY DEF TypeOK, ManagerTypeOK
<1>2. ASSUME NEW c \in Call, TokenStep(c) PROVE [Lock!LeaseNext]_(Lock!leaseVars)
  <2>1. CASE AcquireAndRead(c)
    BY <2>1 DEF AcquireAndRead
  <2>2. CASE LeaveLock(c)
    <3>1. {c} \in SUBSET Call
      OBVIOUS
    <3> QED BY <2>2, <3>1 DEF LeaveLock
  <2>3. CASE ~AcquireAndRead(c) /\ ~LeaveLock(c)
    BY <1>2, <2>3 DEF TokenStep, GetToken, MarkReauth, LockTimeout, RefreshGranted,
       RefreshAnswerLost, RefreshUnavailable, RefreshRefused, StoreTokens, StoreTokensFails,
       ServeCurrent, Degrade, MarkRefused, lockVars
  <2> QED BY <2>1, <2>2, <2>3
<1>3. ASSUME NEW c \in Call, CallbackStep(c) PROVE UNCHANGED Lock!leaseVars
  BY <1>3 DEF CallbackStep, Callback, ConsumeTransaction, PresentCode, StoreGrant,
     StoreGrantFails, Activate, lockVars, Elsewhere
<1>4. ASSUME NEW c \in Call, ServiceStep(c) PROVE UNCHANGED Lock!leaseVars
  BY <1>4 DEF ServiceStep, StartAuthorization, IssuerKept, IssuerMoved, AwaitAuthorization,
     AwaitClient, OpenTransaction, OpenTransactionFails, ReadForSync, ListUpstream, SyncDone,
     MeetUnauthorized, SyncFails, Disable, ReadToEnable, Enable, InsufficientScope,
     Disconnect, RevokeUpstream, RevokeWrite, Delete, ReadToRewrap, Rewrap, Elsewhere, lockVars
<1>5. ASSUME NEW p \in Process, Crash(p) PROVE [Lock!LeaseNext]_(Lock!leaseVars)
  <2> DEFINE S == {c \in holders : Home[c] = p}
  <2>1. S \in SUBSET Call /\ S \subseteq holders /\ holders' = holders \ S /\ lapsed' = lapsed
    BY <1>1, <1>5 DEF Crash
  <2>2. CASE S = {}
    BY <2>1, <2>2
  <2>3. CASE S # {}
    <3>1. Lock!Leave(S)
      BY <2>1, <2>3 DEF Lock!Leave
    <3> QED BY <2>1, <3>1
  <2> QED BY <2>2, <2>3
<1>6. ASSUME EnvironmentStep, ~\E p \in Process : Crash(p)
      PROVE  [Lock!LeaseNext]_(Lock!leaseVars)
  BY <1>6 DEF EnvironmentStep, LeaseLapses, lockVars
<1>7. CASE UNCHANGED vars
  BY <1>7 DEF vars, lockVars
<1> QED BY <1>2, <1>3, <1>4, <1>5, <1>6, <1>7 DEF Next

\* The calls of all replicas use the refresh lock as module Lease allows, whose
\* promise LeaseLock keeps: entering, leaving, dying and lapsing are its steps, and
\* no write to the row, none of the service's either, is a step of the lock.
THEOREM RefreshesUseALease == Spec => Lock!LeaseSpec
<1>1. Init => Lock!LeaseInit
  BY DEF Init
<1>2. TypeOK /\ [Next]_vars => [Lock!LeaseNext]_(Lock!leaseVars)
  BY LockStep
<1> QED BY <1>1, <1>2, TypeCorrect, PTL DEF Spec, Lock!LeaseSpec

-----------------------------------------------------------------------------
(***************************************************************************)
(* What is stored moves on                                                 *)
(***************************************************************************)

\* A later refresh token of the same grant.
Newer(was, new) == was # None /\ new # None /\ new[1] = was[1] /\ was[2] < new[2]

\* The version a refresh read tells the token it read, and what it was given
\* in its place is newer.
Versioned(c) ==
  /\ pc[c] \in {"refresh", "store", "current"} =>
       snap[c].ver <= row.ver /\ (snap[c].ver = row.ver => snap[c].rt = row.rt)
  /\ Replacing(c) => Newer(snap[c].rt, got[c].rt)

VInv == SInv /\ (Calm => \A c \in Call : Versioned(c))

\* A refresh token is replaced with the version it had, by a newer one of its
\* grant, by one of a grant that the row had none of, or it is dropped.
RowMovesOn ==
  \/ row'.rt = row.rt /\ row'.ver \in {row.ver, row.ver + 1}
  \/ /\ row'.ver = row.ver + 1
     /\ \/ row'.rt = None
        \/ Newer(row.rt, row'.rt)
        \/ row'.rt # None /\ Unseen(row'.rt[1])

\* What a step may do to a refresh: end it, go on with what it read, begin it
\* from the row as it is.
RefreshMoves(c) ==
  \/ pc'[c] \notin {"refresh", "store", "current"}
  \/ /\ pc[c] \in {"refresh", "store", "current"} /\ snap'[c] = snap[c]
     /\ Replacing(c)' => Newer(snap[c].rt, got'[c].rt) \/ (Replacing(c) /\ got'[c] = got[c])
  \/ row' = row /\ snap'[c].ver = row.ver /\ snap'[c].rt = row.rt /\ ~Replacing(c)'

OthersStay(c) ==
  \A d \in Call \ {c} : pc'[d] = pc[d] /\ snap'[d] = snap[d] /\ got'[d] = got[d]

LEMMA OthersRefresh ==
  ASSUME NEW c \in Call, OthersStay(c), RefreshMoves(c)
  PROVE  \A d \in Call : RefreshMoves(d)
BY DEF OthersStay, RefreshMoves, Replacing

LEMMA VersionedKept ==
  ASSUME TInv, RowMovesOn, NEW c \in Call, Versioned(c), RefreshMoves(c)
  PROVE  Versioned(c)'
<1>1. row.ver \in Nat /\ snap[c].ver \in Nat
  BY DEF TInv, TypeOK, ManagerTypeOK, StoreTypeOK, Row
<1>2. CASE pc'[c] \notin {"refresh", "store", "current"}
  BY <1>2 DEF Versioned, Replacing
<1>3. CASE /\ pc[c] \in {"refresh", "store", "current"} /\ snap'[c] = snap[c]
           /\ Replacing(c)' => Newer(snap[c].rt, got'[c].rt) \/ (Replacing(c) /\ got'[c] = got[c])
  <2>1. Replacing(c)' => Newer(snap[c].rt, got[c].rt)'
    BY <1>3 DEF Versioned, Newer
  <2>2. snap[c].ver <= row'.ver /\ (snap[c].ver = row'.ver => snap[c].rt = row'.rt)
    BY <1>1, <1>3 DEF Versioned, RowMovesOn
  <2> QED BY <1>3, <2>1, <2>2 DEF Versioned
<1>4. CASE row' = row /\ snap'[c].ver = row.ver /\ snap'[c].rt = row.rt /\ ~Replacing(c)'
  BY <1>1, <1>4 DEF Versioned
<1> QED BY <1>2, <1>3, <1>4 DEF RefreshMoves

LEMMA TokenStepsRefresh ==
  ASSUME TInv, Sound, Calm, NEW c \in Call, TokenStep(c)
  PROVE  OthersStay(c) /\ RefreshMoves(c)
<1>1. /\ pc \in [Call -> PC] /\ snap \in [Call -> Row] /\ row \in Row
      /\ got \in [Call -> TokenSet \cup {None}] /\ last \in [Line -> Nat]
  BY DEF TInv, TypeOK, ManagerTypeOK, StoreTypeOK, PC
<1>2. ASSUME Forget(c), NEW s \in {"idle", "leave"}, Goto(c, s)
      PROVE  OthersStay(c) /\ RefreshMoves(c)
  BY <1>1, <1>2, ForgetsAll DEF Goto, OthersStay, RefreshMoves
<1>3. ASSUME NEW s \in PC \ {"refresh", "store", "current"}, Goto(c, s), UNCHANGED <<snap, got>>
      PROVE  OthersStay(c) /\ RefreshMoves(c)
  BY <1>1, <1>3 DEF Goto, OthersStay, RefreshMoves
<1>4. CASE \E h \in BOOLEAN : GetToken(c, h)
  <2>1. PICK s \in {"waitLock", "markReauth"} : Goto(c, s)
    BY <1>4 DEF GetToken
  <2>2. UNCHANGED <<snap, got>>
    BY <1>4 DEF GetToken
  <2> QED BY <1>3, <2>1, <2>2 DEF PC, TokenPC
<1>5. CASE MarkReauth(c) \/ Degrade(c) \/ MarkRefused(c) \/ LockTimeout(c) \/ LeaveLock(c)
           \/ (ServeCurrent(c) /\ EndSection(c)) \/ (StoreTokens(c) /\ EndSection(c))
  <2>1. \E s \in {"idle", "leave"} : Goto(c, s) /\ Forget(c)
    BY <1>5 DEF MarkReauth, Degrade, MarkRefused, LockTimeout, LeaveLock, Return, EndSection
  <2> QED BY <1>2, <2>1
<1>6. CASE AcquireAndRead(c)
  <2>1. row' = row
    BY <1>6 DEF AcquireAndRead, storeVars
  <2>2. CASE EndSection(c)
    BY <1>2, <2>2 DEF EndSection
  <2>3. CASE ~EndSection(c)
    <3>1. /\ Goto(c, "refresh") /\ got' = got
          /\ snap' = [snap EXCEPT ![c] = [row EXCEPT !.at = None]]
      BY <1>6, <2>3 DEF AcquireAndRead, Remember
    <3>2. snap'[c].ver = row.ver /\ snap'[c].rt = row.rt
      BY <1>1, <3>1 DEF Row
    <3> QED BY <1>1, <2>1, <3>1, <3>2 DEF Goto, OthersStay, RefreshMoves, Replacing
  <2> QED BY <2>2, <2>3
<1>7. CASE RefreshGranted(c)
  <2> DEFINE L == snap[c].rt[1]
  <2>1. pc[c] = "refresh" /\ snap[c].rt \in RefreshToken /\ snap[c].rt[2] = last[L]
    BY <1>7 DEF RefreshGranted, Honoured, TInv, Carried
  <2>2. PICK rotates \in BOOLEAN :
          got' = [got EXCEPT ![c] = [at |-> L, rt |-> IF rotates THEN <<L, last[L] + 1>> ELSE None]]
    BY <1>7 DEF RefreshGranted
  <2>3. pc' = [pc EXCEPT ![c] = "store"] /\ snap' = snap
    BY <1>7 DEF RefreshGranted, Goto
  <2>4. OthersStay(c)
    BY <2>2, <2>3 DEF OthersStay
  <2>5. got'[c].rt = IF rotates THEN <<L, last[L] + 1>> ELSE None
    BY <1>1, <2>2
  <2>6. Replacing(c)' => Newer(snap[c].rt, got'[c].rt)
    <3>1. SUFFICES ASSUME got'[c].rt # None PROVE Newer(snap[c].rt, got'[c].rt)
      BY DEF Replacing
    <3>2. got'[c].rt[1] = L /\ got'[c].rt[2] = last[L] + 1
      BY <2>5, <3>1
    <3>3. snap[c].rt # None /\ last[L] \in Nat
      BY <1>1, <2>1, NoneIsNoToken DEF RefreshToken
    <3> QED BY <2>1, <3>1, <3>2, <3>3 DEF Newer
  <2> QED BY <2>1, <2>3, <2>4, <2>6 DEF RefreshMoves
<1>8. CASE \/ RefreshAnswerLost(c)
           \/ RefreshUnavailable(c)
           \/ StoreTokensFails(c)
           \/ ServeCurrent(c) /\ ~EndSection(c)
  <2>1. RetryOrDegrade(c) /\ pc[c] \in {"refresh", "store", "current"}
    BY <1>8 DEF RefreshAnswerLost, RefreshUnavailable, StoreTokensFails, ServeCurrent
  <2>2. PICK s \in {"refresh", "degrade"} : pc' = [pc EXCEPT ![c] = s]
    BY <2>1 DEF RetryOrDegrade, Goto
  <2>3. snap' = snap /\ got' = [got EXCEPT ![c] = None]
    BY <2>1 DEF RetryOrDegrade
  <2> QED BY <1>1, <2>1, <2>2, <2>3 DEF OthersStay, RefreshMoves, Replacing
<1>9. CASE RefreshRefused(c)
  <2>1. Goto(c, "refused") /\ UNCHANGED <<snap, got>>
    BY <1>9 DEF RefreshRefused
  <2> QED BY <1>3, <2>1 DEF PC, TokenPC, InLock
<1>10. CASE StoreTokens(c) /\ ~EndSection(c)
  <2>1. /\ pc[c] = "store" /\ pc' = [pc EXCEPT ![c] = "current"]
        /\ snap' = snap /\ got' = [got EXCEPT ![c] = None]
    BY <1>10 DEF StoreTokens, Goto
  <2> QED BY <1>1, <2>1 DEF OthersStay, RefreshMoves, Replacing
<1> QED
  BY <1>4, <1>5, <1>6, <1>7, <1>8, <1>9, <1>10 DEF TokenStep

LEMMA OtherStepsRefresh ==
  ASSUME TInv, NEW c \in Call, CallbackStep(c) \/ ServiceStep(c)
  PROVE  \A d \in Call : RefreshMoves(d)
<1>1. pc \in [Call -> PC] /\ snap \in [Call -> Row] /\ got \in [Call -> TokenSet \cup {None}]
  BY DEF TInv, TypeOK, ManagerTypeOK, PC
<1>2. CASE UNCHANGED <<pc, snap, got>>
  BY <1>2 DEF RefreshMoves, Replacing
<1>3. ASSUME NEW s, Goto(c, s), s \notin {"refresh", "store", "current"},
             OthersStay(c)
      PROVE  \A d \in Call : RefreshMoves(d)
  BY <1>1, <1>3, OthersRefresh DEF RefreshMoves, Goto
<1>4. ASSUME NEW s, Goto(c, s) PROVE \A d \in Call \ {c} : pc'[d] = pc[d]
  BY <1>1, <1>4 DEF Goto
<1>5. CASE CallbackStep(c)
  <2>1. UNCHANGED <<pc, snap, got>>
        \/ \E s : /\ Goto(c, s) /\ s \notin {"refresh", "store", "current"}
                  /\ (snap' = snap \/ \E x : snap' = [snap EXCEPT ![c] = x])
                  /\ (got' = got \/ \E x : got' = [got EXCEPT ![c] = x])
    BY <1>5 DEF CallbackStep, Callback, ConsumeTransaction, PresentCode, StoreGrant,
       StoreGrantFails, Activate, Return, Forget, Remember, callVars
  <2>2. CASE UNCHANGED <<pc, snap, got>>
    BY <1>2, <2>2
  <2>3. CASE \E s : /\ Goto(c, s) /\ s \notin {"refresh", "store", "current"}
                    /\ (snap' = snap \/ \E x : snap' = [snap EXCEPT ![c] = x])
                    /\ (got' = got \/ \E x : got' = [got EXCEPT ![c] = x])
    <3>1. OthersStay(c)
      BY <1>1, <1>4, <2>3 DEF OthersStay
    <3> QED BY <1>3, <2>3, <3>1
  <2> QED BY <2>1, <2>2, <2>3
<1>6. CASE ServiceStep(c)
  <2>1. UNCHANGED <<pc, snap, got>>
        \/ \E s : /\ Goto(c, s) /\ s \notin {"refresh", "store", "current"}
                  /\ (snap' = snap \/ \E x : snap' = [snap EXCEPT ![c] = x])
                  /\ (got' = got \/ \E x : got' = [got EXCEPT ![c] = x])
    BY <1>6 DEF ServiceStep, StartAuthorization, IssuerKept, IssuerMoved, AwaitAuthorization,
     AwaitClient, OpenTransaction, OpenTransactionFails, ReadForSync, ListUpstream, SyncDone,
     MeetUnauthorized, SyncFails, Disable, ReadToEnable, Enable, InsufficientScope,
     Disconnect, RevokeUpstream, RevokeWrite, Delete, ReadToRewrap, Rewrap, Return, ReadRow,
     GotoIfUpdated, Forget, Remember, callVars
  <2>2. CASE UNCHANGED <<pc, snap, got>>
    BY <1>2, <2>2
  <2>3. CASE \E s : /\ Goto(c, s) /\ s \notin {"refresh", "store", "current"}
                    /\ (snap' = snap \/ \E x : snap' = [snap EXCEPT ![c] = x])
                    /\ (got' = got \/ \E x : got' = [got EXCEPT ![c] = x])
    <3>1. OthersStay(c)
      BY <1>1, <1>4, <2>3 DEF OthersStay
    <3> QED BY <1>3, <2>3, <3>1
  <2> QED BY <2>1, <2>2, <2>3
<1> QED BY <1>5, <1>6

LEMMA RowStep ==
  ASSUME SInv, [Next]_vars, Calm', \A c \in Call : Versioned(c)
  PROVE  RowMovesOn
<1>1. Calm /\ Sound /\ TInv /\ ~Gone /\ ~mishap' /\ row \in Row /\ row.ver \in Nat
  BY CalmBefore DEF SInv, Calm, TInv, TypeOK, ManagerTypeOK, StoreTypeOK, Row
<1>2. CASE row' = row
  BY <1>2 DEF RowMovesOn
<1>3. ASSUME NEW s, SetStatus(s) PROVE RowMovesOn
  BY <1>1, <1>3, StatusOnly DEF RowMovesOn
<1>4. ASSUME NEW c \in Call, TokenStep(c), row' # row PROVE RowMovesOn
  <2>1. CASE MarkReauth(c) \/ Degrade(c) \/ MarkRefused(c)
    BY <1>3, <2>1 DEF MarkReauth, Degrade, MarkRefused
  <2>2. CASE StoreTokens(c)
    <3> DEFINE new == IF got[c].rt = None THEN snap[c].rt ELSE got[c].rt
    <3>1. pc[c] = "store" /\ SwapApplies(snap[c].ver)
      BY <1>4, <2>2 DEF StoreTokens, UpdateTokens
    <3>2. row'.rt = new /\ row'.ver = row.ver + 1
      BY <2>2, <3>1 DEF StoreTokens, UpdateTokens, SwapApplies
    <3>3. snap[c].rt = row.rt
      BY <3>1 DEF Versioned, SwapApplies
    <3> QED BY <3>1, <3>2, <3>3 DEF RowMovesOn, Versioned, Replacing
  <2> QED
    BY <1>4, <2>1, <2>2 DEF TokenStep, GetToken, LockTimeout, AcquireAndRead, RefreshGranted,
       RefreshAnswerLost, RefreshUnavailable, RefreshRefused, StoreTokensFails, ServeCurrent,
       LeaveLock, storeVars
<1>5. ASSUME NEW c \in Call, CallbackStep(c), row' # row PROVE RowMovesOn
  <2>1. StoreGrant(c)
    BY <1>5 DEF CallbackStep, Callback, ConsumeTransaction, PresentCode, StoreGrantFails,
       Activate, storeVars
  <2> DEFINE new == IF got[c].rt = None THEN snap[c].rt ELSE got[c].rt
  <2>2. pc[c] = "storeCode" /\ SwapApplies(snap[c].ver)
    BY <1>5, <2>1 DEF StoreGrant, UpdateTokens
  <2>3. row'.rt = new /\ row'.ver = row.ver + 1
    BY <2>1, <2>2 DEF StoreGrant, UpdateTokens, SwapApplies
  <2>4. CASE got[c].rt = None
    <3>1. snap[c].rt = row.rt
      BY <1>1, <2>2 DEF Sound, CallbackSound, SwapApplies
    <3> QED BY <2>3, <2>4, <3>1 DEF RowMovesOn
  <2>5. CASE got[c].rt # None
    <3>1. Unseen(got[c].rt[1])
      BY <1>1, <2>2, <2>5 DEF Sound, GrantsApart, Begun
    <3> QED BY <2>3, <2>5, <3>1 DEF RowMovesOn
  <2> QED BY <2>4, <2>5
<1>6. ASSUME NEW c \in Call, ServiceStep(c), row' # row PROVE RowMovesOn
  <2>1. CASE \E s : SetStatus(s)
    BY <1>3, <2>1
  <2>2. CASE IssuerMoved(c)
    <3>1. snap[c].ver = row.ver
      BY <1>1, <2>2 DEF IssuerMoved
    <3> QED BY <1>1, <2>2, <3>1 DEF IssuerMoved, Update, RowMovesOn, Row
  <2>3. CASE Rewrap(c)
    BY <1>1, <2>3 DEF Rewrap, Update, RowMovesOn, Row
  <2>4. CASE RevokeWrite(c) \/ Delete(c)
    BY <1>1, <2>4 DEF RevokeWrite, Delete, Calm, Deleting
  <2> QED
    BY <1>6, <2>1, <2>2, <2>3, <2>4
       DEF ServiceStep, StartAuthorization, IssuerKept, AwaitAuthorization,
         AwaitClient, OpenTransaction, OpenTransactionFails, ReadForSync, ListUpstream, SyncDone,
         MeetUnauthorized, SyncFails, Disable, ReadToEnable, Enable, InsufficientScope,
         Disconnect, RevokeUpstream, ReadToRewrap
<1>7. CASE EnvironmentStep \/ UNCHANGED vars
  BY <1>2, <1>7 DEF EnvironmentStep, LeaseLapses, AccessTokenAges, TransactionExpires,
     PurgeExpired, Crash, storeVars, vars
<1> QED BY <1>2, <1>4, <1>5, <1>6, <1>7 DEF Next

LEMMA RefreshesStep ==
  ASSUME SInv, [Next]_vars, Calm'
  PROVE  \A c \in Call : RefreshMoves(c)
<1>1. Calm /\ Sound /\ TInv
  BY CalmBefore DEF SInv
<1>2. ASSUME NEW c \in Call, TokenStep(c) \/ CallbackStep(c) \/ ServiceStep(c)
      PROVE  \A d \in Call : RefreshMoves(d)
  BY <1>1, <1>2, TokenStepsRefresh, OtherStepsRefresh, OthersRefresh
<1>3. ASSUME NEW p \in Process, Crash(p) PROVE \A d \in Call : RefreshMoves(d)
  BY <1>3 DEF Crash, RefreshMoves, Replacing
<1>4. CASE (EnvironmentStep /\ ~\E p \in Process : Crash(p)) \/ UNCHANGED vars
  <2>1. UNCHANGED <<pc, snap, got>>
    BY <1>4 DEF EnvironmentStep, LeaseLapses, vars, callVars
  <2> QED BY <2>1 DEF RefreshMoves, Replacing
<1> QED BY <1>2, <1>3, <1>4 DEF Next

LEMMA VersionedInductive == VInv /\ [Next]_vars => VInv' /\ (Calm' => RowMovesOn)
<1> SUFFICES ASSUME VInv, [Next]_vars PROVE VInv' /\ (Calm' => RowMovesOn)
  OBVIOUS
<1>1. SInv'
  BY SoundInductive DEF VInv
<1>2. ASSUME Calm' PROVE RowMovesOn /\ \A c \in Call : Versioned(c)'
  <2>1. \A c \in Call : Versioned(c)
    BY <1>2, CalmBefore DEF VInv
  <2>2. RowMovesOn
    BY <1>2, <2>1, RowStep DEF VInv
  <2>3. \A c \in Call : RefreshMoves(c)
    BY <1>2, RefreshesStep DEF VInv
  <2> QED BY <2>1, <2>2, <2>3, VersionedKept DEF VInv, SInv
<1> QED BY <1>1, <1>2 DEF VInv

\* No update of the refresh token is lost: while none of the named mishaps has
\* happened and the connection is not being deleted, whoever replaces the token
\* stored, refresh, callback or move to another issuer, replaces the version it
\* has, by a newer token of the same grant, by one of a grant nobody has read
\* yet, or by none.  RotationSticks, which the code breaks (run rewrap), claims as
\* much of every step.
THEOREM TokensMoveOn == Spec => [][Calm' => RowMovesOn]_vars
<1>1. Init => VInv
  BY SoundInitially DEF VInv, Init, Versioned, Replacing
<1>2. VInv /\ [Next]_vars => VInv' /\ [Calm' => RowMovesOn]_vars
  BY VersionedInductive
<1> QED BY <1>1, <1>2, PTL DEF Spec
=============================================================================
