--------------------------- MODULE LeaseLock_proofs ---------------------------
(***************************************************************************)
(* LeaseLock for every set of processes and calls: the row guards its      *)
(* holder, and the lock implements module Lease.  RowGuardsItsHolder is    *)
(* inductive as it stands; for the refinement one fact more is needed,     *)
(* that a call is at the row exactly while its local turn lasts.           *)
(***************************************************************************)
EXTENDS LeaseLock, TLAPS

PhaseInTurn == \A c \in Call : phase[c] = "none" <=> turn[c] # "running"

IInv == LeaseLockTypeOK /\ PhaseInTurn /\ RowGuardsItsHolder

\* Ending a turn in the process keeps the mutex's variables well typed.
LEMMA FinishTyped ==
  ASSUME LockTypeOK, NEW c \in Call, Finish(c)
  PROVE  LockTypeOK' /\ turn' = [turn EXCEPT ![c] = "idle"]
BY HomeAssumption DEF LockTypeOK, Finish

LEMMA Initially == LeaseLockInit => IInv
BY DEF LeaseLockInit, LockInit, IInv, LeaseLockTypeOK, LockTypeOK, PhaseInTurn,
       RowGuardsItsHolder, InRow

LEMMA Inductive == IInv /\ [LeaseLockNext]_leaseLockVars => IInv'
<1> SUFFICES ASSUME IInv, [LeaseLockNext]_leaseLockVars PROVE IInv'
  OBVIOUS
<1> USE HomeAssumption, GoneAssumption, NoneAssumption
    DEF IInv, LeaseLockTypeOK, PhaseInTurn, RowGuardsItsHolder, InRow
<1>1. ASSUME NEW c \in Call, CallWithLock(c) PROVE IInv'
  BY <1>1 DEF CallWithLock, Request, LockTypeOK
<1>2. ASSUME NEW c \in Call, LocalGiveUp(c) PROVE IInv'
  <2>1. LockTypeOK' /\ turn' = [turn EXCEPT ![c] = "idle"] /\ turn[c] = "waiting"
    BY <1>2, FinishTyped DEF LocalGiveUp, GiveUp
  <2> QED BY <1>2, <2>1 DEF LocalGiveUp, LockTypeOK
<1>3. ASSUME NEW c \in Call, LocalEnter(c) PROVE IInv'
  BY <1>3 DEF LocalEnter, Enter, LockTypeOK
<1>4. ASSUME NEW c \in Call, LocalExpire(c) PROVE IInv'
  BY <1>4 DEF LocalExpire, ExpireLease, LockTypeOK
<1>5. ASSUME NEW c \in Call, TryAcquire(c) PROVE IInv'
  <2>1. LeaseLockTypeOK' /\ PhaseInTurn'
    BY <1>5 DEF TryAcquire, LockTypeOK
  <2>2. ~lapsed => InRow = {}
    BY <1>5 DEF TryAcquire
  <2>3. InRow' = InRow \cup {c}
    BY <1>5 DEF TryAcquire
  <2>4. RowGuardsItsHolder'
    BY <1>5, <2>2, <2>3 DEF TryAcquire
  <2> QED BY <2>1, <2>4
<1>6. ASSUME NEW c \in Call, EndTurn(c), UNCHANGED <<rowOwner, rowLive, lapsed>>
      PROVE  IInv'
  <2>1. LockTypeOK' /\ turn' = [turn EXCEPT ![c] = "idle"]
    BY <1>6, FinishTyped DEF EndTurn, SettleTurn
  <2> QED BY <1>6, <2>1 DEF EndTurn, LockTypeOK
<1>7. ASSUME NEW c \in Call, AcquireDeadline(c) PROVE IInv'
  BY <1>6, <1>7 DEF AcquireDeadline
<1>8. ASSUME NEW c \in Call, Renew(c) \/ RenewFails(c) PROVE IInv'
  BY <1>8 DEF Renew, RenewFails, LockTypeOK
<1>9. ASSUME NEW c \in Call, WorkDone(c) PROVE IInv'
  BY <1>9 DEF WorkDone, LockTypeOK
<1>10. ASSUME NEW c \in Call, ReleaseRow(c) PROVE IInv'
  <2>1. LockTypeOK' /\ turn' = [turn EXCEPT ![c] = "idle"]
    BY <1>10, FinishTyped DEF ReleaseRow, EndTurn, SettleTurn
  <2>2. LeaseLockTypeOK' /\ PhaseInTurn'
    BY <1>10, <2>1 DEF ReleaseRow, EndTurn, LockTypeOK, rowVars
  <2>3. InRow' = InRow \ {c} /\ c \in InRow /\ lapsed' = lapsed
    BY <1>10 DEF ReleaseRow, EndTurn
  <2>4. ~lapsed => InRow' = {}
    BY <2>3
  <2>5. RowGuardsItsHolder'
    BY <2>3, <2>4
  <2> QED BY <2>2, <2>5
<1>11. ASSUME NEW c \in Call, ReleaseRowFails(c) PROVE IInv'
  BY <1>6, <1>11 DEF ReleaseRowFails
<1>15. ASSUME NEW c \in Call, AcquireFails(c) PROVE IInv'
  <2>1. LockTypeOK' /\ turn' = [turn EXCEPT ![c] = "idle"]
    BY <1>15, FinishTyped DEF AcquireFails, EndTurn, SettleTurn
  <2>2. phase' = [phase EXCEPT ![c] = "none"] /\ told' = [told EXCEPT ![c] = FALSE]
        /\ phase[c] = "acquiring" /\ lapsed' = lapsed
    BY <1>15 DEF AcquireFails, EndTurn
  <2>3. \/ UNCHANGED rowVars
        \/ (rowOwner = None \/ ~rowLive) /\ rowOwner' = Home[c] /\ rowLive' = TRUE
    BY <1>15 DEF AcquireFails
  <2>4. LeaseLockTypeOK'
    <3>1. phase' \in [Call -> {"none", "acquiring", "holding", "releasing"}]
          /\ told' \in [Call -> BOOLEAN] /\ lapsed' \in BOOLEAN
      BY <2>2
    <3>2. (rowOwner' = rowOwner \/ rowOwner' \in Process) /\ (rowLive' = rowLive \/ rowLive' = TRUE)
      BY <2>3 DEF rowVars
    <3>3. rowOwner' \in Process \cup {None, Gone}
      BY <3>2
    <3>4. rowLive' \in BOOLEAN
      BY <3>2
    <3> QED BY <2>1, <3>1, <3>3, <3>4
  <2>5. PhaseInTurn'
    BY <2>1, <2>2 DEF LockTypeOK
  <2>6. InRow' = InRow
    BY <2>2
  <2>7. CASE UNCHANGED rowVars
    <3>1. rowOwner' = rowOwner /\ rowLive' = rowLive
      BY <2>7 DEF rowVars
    <3>2. RowGuardsItsHolder'
      BY <2>2, <2>6, <3>1
    <3> QED BY <2>4, <2>5, <3>2
  <2>8. CASE (rowOwner = None \/ ~rowLive) /\ rowOwner' = Home[c] /\ rowLive' = TRUE
    <3>1. ~lapsed => InRow = {}
      BY <2>8
    <3> QED BY <2>2, <2>4, <2>5, <2>6, <3>1
  <2> QED BY <2>3, <2>4, <2>5, <2>7, <2>8
<1>12. CASE RowExpires
  BY <1>12 DEF RowExpires, LockTypeOK
<1>13. ASSUME NEW p \in Process, Crash(p) PROVE IInv'
  <2>1. LeaseLockTypeOK'
    BY <1>13 DEF Crash, LockTypeOK
  <2>2. PhaseInTurn'
    BY <1>13 DEF Crash, LockTypeOK
  <2>3. \A c \in InRow' : c \in InRow /\ Home[c] # p
    BY <1>13 DEF Crash
  <2>4. RowGuardsItsHolder'
    BY <1>13, <2>3 DEF Crash
  <2> QED BY <2>1, <2>2, <2>4
<1>14. CASE UNCHANGED leaseLockVars
  BY <1>14 DEF leaseLockVars, LockTypeOK
<1> QED
  BY <1>1, <1>2, <1>3, <1>4, <1>5, <1>7, <1>8, <1>9, <1>10, <1>11, <1>12, <1>13, <1>14,
     <1>15 DEF LeaseLockNext

LEMMA Invariant == LeaseLockSpec => []IInv
BY Initially, Inductive, PTL DEF LeaseLockSpec

\* The mutex, the row and the calls have the values they are declared to have.
THEOREM TypeCorrect == LeaseLockSpec => []LeaseLockTypeOK
BY Invariant, PTL DEF IInv

\* With any number of processes and callers, while no lease has run out under
\* its holder, one call at most is between taking the row and giving it back.
THEOREM HolderGuarded == LeaseLockSpec => []RowGuardsItsHolder
BY Invariant, PTL DEF IInv

-----------------------------------------------------------------------------
(***************************************************************************)
(* Refinement: taking the row grants the lock, fn's end and a crash leave  *)
(* it, an expiry under a holder is a lapse, and the rest is a stutter.     *)
(***************************************************************************)

Holding == {c \in Call : phase[c] = "holding"}

LEMMA StepsImplement ==
  IInv /\ [LeaseLockNext]_leaseLockVars => [Abstract!LeaseNext]_(Abstract!leaseVars)
<1> SUFFICES ASSUME IInv, [LeaseLockNext]_leaseLockVars
             PROVE  \/ \E c \in Call : Abstract!Grant(c)
                    \/ \E S \in SUBSET Call : Abstract!Leave(S)
                    \/ Abstract!Lapse
                    \/ Holding' = Holding /\ lapsed' = lapsed
  BY DEF Abstract!LeaseNext, Abstract!leaseVars, Holding
<1> USE DEF IInv, LeaseLockTypeOK, PhaseInTurn, Holding
<1>1. ASSUME NEW c \in Call, CallWithLock(c) \/ LocalGiveUp(c) \/ LocalExpire(c)
      PROVE  Holding' = Holding /\ lapsed' = lapsed
  BY <1>1 DEF CallWithLock, LocalGiveUp, LocalExpire
<1>2. ASSUME NEW c \in Call, LocalEnter(c) PROVE Holding' = Holding /\ lapsed' = lapsed
  BY <1>2 DEF LocalEnter, Enter
<1>3. ASSUME NEW c \in Call, TryAcquire(c) PROVE Abstract!Grant(c)
  <2>1. c \notin Holding /\ Holding' = Holding \cup {c} /\ lapsed' = lapsed
    BY <1>3 DEF TryAcquire
  <2>2. Holding = {} \/ lapsed
    <3> SUFFICES ASSUME NEW d \in Holding, ~lapsed PROVE FALSE
      OBVIOUS
    <3>1. d \in InRow /\ Home[d] \in Process
      BY HomeAssumption DEF InRow
    <3>2. rowOwner = Home[d] /\ rowLive
      BY <3>1 DEF RowGuardsItsHolder
    <3> QED BY <1>3, <3>1, <3>2, GoneAssumption DEF TryAcquire
  <2> QED BY <2>1, <2>2 DEF Abstract!Grant
<1>4. ASSUME NEW c \in Call,
             AcquireDeadline(c) \/ AcquireFails(c) \/ ReleaseRow(c) \/ ReleaseRowFails(c)
      PROVE  Holding' = Holding /\ lapsed' = lapsed
  BY <1>4 DEF AcquireDeadline, AcquireFails, ReleaseRow, ReleaseRowFails, EndTurn
<1>5. ASSUME NEW c \in Call, Renew(c) \/ RenewFails(c)
      PROVE  Holding' = Holding /\ lapsed' = lapsed
  BY <1>5 DEF Renew, RenewFails
<1>6. ASSUME NEW c \in Call, WorkDone(c) PROVE Abstract!Leave({c})
  <2>1. c \in Holding /\ Holding' = Holding \ {c} /\ lapsed' = lapsed
    BY <1>6 DEF WorkDone
  <2> QED BY <2>1 DEF Abstract!Leave
<1>7. CASE RowExpires
  <2>1. Holding' = Holding /\ (lapsed' = TRUE \/ lapsed' = lapsed)
    BY <1>7 DEF RowExpires
  <2> QED BY <2>1 DEF Abstract!Lapse
<1>8. ASSUME NEW p \in Process, Crash(p)
      PROVE  \/ \E S \in SUBSET Call : Abstract!Leave(S)
             \/ Holding' = Holding /\ lapsed' = lapsed
  <2> DEFINE lost == {c \in Call : Home[c] = p} \cap Holding
  <2>1. Holding' = Holding \ lost /\ lapsed' = lapsed
    BY <1>8 DEF Crash
  <2>2. CASE lost = {}
    BY <2>1, <2>2
  <2>3. CASE lost # {}
    <3>1. lost \in SUBSET Call
      OBVIOUS
    <3> QED BY <2>1, <2>3, <3>1 DEF Abstract!Leave
  <2> QED BY <2>2, <2>3
<1>9. CASE UNCHANGED leaseLockVars
  BY <1>9 DEF leaseLockVars
<1> QED
  BY <1>1, <1>2, <1>3, <1>4, <1>5, <1>6, <1>7, <1>8, <1>9 DEF LeaseLockNext

\* SqlLeaseLock implements the lock that the token manager is built on.
THEOREM Implements == LeaseLockSpec => ImplementsLease
<1>1. LeaseLockInit => Abstract!LeaseInit
  BY DEF LeaseLockInit, Abstract!LeaseInit
<1> QED
  BY <1>1, StepsImplement, Invariant, PTL
     DEF LeaseLockSpec, ImplementsLease, Abstract!LeaseSpec

=============================================================================
