------------------------------ MODULE LeaseLock ------------------------------
(***************************************************************************)
(* SqlLeaseLock of packages/storage/src/sql-store.ts, for one key: a row   *)
(* of distributed_locks (owner, expires_at) taken inside the in-process    *)
(* mutex.  The owner is one random token per process, so two calls of one  *)
(* process are the same owner to the row.                                  *)
(*                                                                         *)
(* Time is a choice: a live row may expire at any moment.  When it does so *)
(* under a call that still needs it (its renewals were late: a stalled     *)
(* event loop, a store out of reach) `lapsed` records it.                  *)
(***************************************************************************)
EXTENDS InProcessLock

CONSTANT
  Gone       \* owner token of a process that has died

ASSUME GoneAssumption == Gone \notin Process /\ None \notin Process /\ Gone # None

VARIABLES
  phase,     \* phase[c] inside the local turn: "none", "acquiring" (polling
             \* for the row), "holding" (fn runs), "releasing" (the DELETE)
  rowOwner,  \* owner of the row; None when there is no row
  rowLive,   \* the row's expires_at is in the future
  told,      \* told[c]: the signal handed to fn has been aborted
  lapsed     \* history: a row expired under a call that held it

rowVars == <<rowOwner, rowLive>>
leaseLockVars == <<turn, ahead, tail, expired, phase, rowOwner, rowLive, told, lapsed>>

LeaseLockTypeOK ==
  /\ LockTypeOK
  /\ phase \in [Call -> {"none", "acquiring", "holding", "releasing"}]
  /\ rowOwner \in Process \cup {None, Gone}
  /\ rowLive \in BOOLEAN
  /\ told \in [Call -> BOOLEAN]
  /\ lapsed \in BOOLEAN

LeaseLockInit ==
  /\ LockInit
  /\ phase = [c \in Call |-> "none"]
  /\ rowOwner = None
  /\ rowLive = FALSE
  /\ told = [c \in Call |-> FALSE]
  /\ lapsed = FALSE

\* Calls that took the row and have not finished giving it back.
InRow == {c \in Call : phase[c] \in {"holding", "releasing"}}

(***************************************************************************)
(* The local turn                                                          *)
(***************************************************************************)

CallWithLock(c) ==
  /\ Request(c)
  /\ UNCHANGED <<phase, rowOwner, rowLive, told, lapsed>>

LocalGiveUp(c) ==
  /\ GiveUp(c)
  /\ UNCHANGED <<phase, rowOwner, rowLive, told, lapsed>>

\* Our turn in the process: start polling for the row.
LocalEnter(c) ==
  /\ Enter(c)
  /\ phase' = [phase EXCEPT ![c] = "acquiring"]
  /\ UNCHANGED <<rowOwner, rowLive, told, lapsed>>

\* waitMs + leaseMs passed: the caller is rejected and the signal aborted.
LocalExpire(c) ==
  /\ ExpireLease(c)
  /\ told' = [told EXCEPT ![c] = phase[c] = "holding"]
  /\ UNCHANGED <<phase, rowOwner, rowLive, lapsed>>

\* The function given to the local lock ends: the local turn passes on.
EndTurn(c) ==
  /\ SettleTurn(c)
  /\ phase' = [phase EXCEPT ![c] = "none"]
  /\ told' = [told EXCEPT ![c] = FALSE]

(***************************************************************************)
(* The row                                                                 *)
(***************************************************************************)

\* Mutant of TryAcquire: a process may take its own live row again.
TryAcquireOwn(c) ==
  /\ phase[c] = "acquiring"
  /\ rowOwner \in {None, Home[c]} \/ ~rowLive
  /\ rowOwner' = Home[c]
  /\ rowLive' = TRUE
  /\ phase' = [phase EXCEPT ![c] = "holding"]
  /\ UNCHANGED <<turn, ahead, tail, expired, told, lapsed>>

\* Upsert where expires_at <= now.  A try on a live row changes nothing, and
\* the owner it names does not matter: not even our own row is re-entered.
TryAcquire(c) ==
  /\ phase[c] = "acquiring"
  /\ rowOwner = None \/ ~rowLive
  /\ rowOwner' = Home[c]
  /\ rowLive' = TRUE
  /\ phase' = [phase EXCEPT ![c] = "holding"]
  /\ UNCHANGED <<turn, ahead, tail, expired, told, lapsed>>

\* Mutant of AcquireDeadline: the loop ends and the work starts all the same.
DeadlineIgnored(c) ==
  /\ phase[c] = "acquiring"
  /\ rowOwner # None /\ rowLive
  /\ phase' = [phase EXCEPT ![c] = "holding"]
  /\ UNCHANGED <<turn, ahead, tail, expired, told, rowOwner, rowLive, lapsed>>

\* A failed try past the deadline: CONFLICT.
AcquireDeadline(c) ==
  /\ phase[c] = "acquiring"
  /\ rowOwner # None /\ rowLive
  /\ EndTurn(c)
  /\ UNCHANGED <<rowOwner, rowLive, lapsed>>

\* The statement fails: the caller gets the error.  If only its answer was lost
\* the row is ours, and nobody will give it back.
AcquireFails(c) ==
  /\ phase[c] = "acquiring"
  /\ EndTurn(c)
  /\ \/ UNCHANGED rowVars
     \/ /\ rowOwner = None \/ ~rowLive
        /\ rowOwner' = Home[c] /\ rowLive' = TRUE
  /\ UNCHANGED lapsed

\* The renewal timer: extend the row wherever it names our process, learn
\* that it is lost when it does not.
Renew(c) ==
  /\ phase[c] = "holding"
  /\ IF rowOwner = Home[c]
     THEN rowLive' = TRUE /\ UNCHANGED told
     ELSE told' = [told EXCEPT ![c] = TRUE] /\ UNCHANGED rowLive
  /\ UNCHANGED <<turn, ahead, tail, expired, phase, rowOwner, lapsed>>

\* The store did not answer the renewal.
RenewFails(c) ==
  /\ phase[c] = "holding"
  /\ ~told[c]
  /\ told' = [told EXCEPT ![c] = TRUE]
  /\ UNCHANGED <<turn, ahead, tail, expired, phase, rowOwner, rowLive, lapsed>>

\* fn settled; the renewal timer is cleared and the DELETE is on its way.
WorkDone(c) ==
  /\ phase[c] = "holding"
  /\ phase' = [phase EXCEPT ![c] = "releasing"]
  /\ UNCHANGED <<turn, ahead, tail, expired, rowOwner, rowLive, told, lapsed>>

\* DELETE ... WHERE key AND owner: whichever call of this process took it.
ReleaseRow(c) ==
  /\ phase[c] = "releasing"
  /\ IF rowOwner = Home[c]
     THEN rowOwner' = None /\ rowLive' = FALSE
     ELSE UNCHANGED rowVars
  /\ EndTurn(c)
  /\ UNCHANGED lapsed

\* The DELETE failed: fn's result is replaced by the error, the row stays.
ReleaseRowFails(c) ==
  /\ phase[c] = "releasing"
  /\ EndTurn(c)
  /\ UNCHANGED <<rowOwner, rowLive, lapsed>>

(***************************************************************************)
(* The environment                                                         *)
(***************************************************************************)

\* expires_at passes.
RowExpires ==
  /\ rowOwner # None
  /\ rowLive
  /\ rowLive' = FALSE
  /\ lapsed' = (lapsed \/ InRow # {})
  /\ UNCHANGED <<turn, ahead, tail, expired, phase, rowOwner, told>>

\* A process dies and restarts with a new owner token; its row is left behind.
Crash(p) ==
  LET dead == {c \in Call : Home[c] = p} IN
  /\ \E c \in dead : turn[c] # "idle"
  /\ turn' = [c \in Call |-> IF c \in dead THEN "idle" ELSE turn[c]]
  /\ ahead' = [c \in Call |-> IF c \in dead THEN {} ELSE ahead[c]]
  /\ tail' = [tail EXCEPT ![p] = None]
  /\ expired' = [c \in Call |-> expired[c] /\ c \notin dead]
  /\ phase' = [c \in Call |-> IF c \in dead THEN "none" ELSE phase[c]]
  /\ told' = [c \in Call |-> told[c] /\ c \notin dead]
  /\ rowOwner' = IF rowOwner = p THEN Gone ELSE rowOwner
  /\ UNCHANGED <<rowLive, lapsed>>

LeaseLockNext ==
  \/ \E c \in Call :
       \/ CallWithLock(c) \/ LocalGiveUp(c) \/ LocalEnter(c) \/ LocalExpire(c)
       \/ TryAcquire(c) \/ AcquireDeadline(c) \/ AcquireFails(c)
       \/ Renew(c) \/ RenewFails(c)
       \/ WorkDone(c) \/ ReleaseRow(c) \/ ReleaseRowFails(c)
  \/ RowExpires
  \/ \E p \in Process : Crash(p)

(***************************************************************************)
(* A turn that has come is taken, polling meets the row or its deadline,   *)
(* work ends (every await inside has a timeout) and the release is sent.   *)
(* Nothing obliges a waiter to give up, a lease to expire or a process to  *)
(* die.                                                                    *)
(***************************************************************************)
LockFairness ==
  \A c \in Call :
    /\ WF_leaseLockVars(LocalEnter(c))
    /\ WF_leaseLockVars(TryAcquire(c) \/ AcquireDeadline(c))
    /\ WF_leaseLockVars(WorkDone(c))
    /\ WF_leaseLockVars(ReleaseRow(c) \/ ReleaseRowFails(c))

LeaseLockSpec == LeaseLockInit /\ [][LeaseLockNext]_leaseLockVars

FairLeaseLockSpec == LeaseLockSpec /\ LockFairness

-----------------------------------------------------------------------------
(***************************************************************************)
(* Properties                                                              *)
(***************************************************************************)

\* While no lease has run out under its holder, one call at most is between
\* taking the row and giving it back, and the live row is that call's.  This
\* is the row "keeps two replicas from refreshing the same connection at the
\* same time" (sql-store.ts:80-81), and it holds in one process too, where
\* the local mutex alone does not: once a waiter at the tail gave up, a
\* newcomer finds no tail and runs beside the call that still runs.
RowGuardsItsHolder ==
  ~lapsed => \A c \in InRow :
               /\ rowOwner = Home[c] /\ rowLive
               /\ \A d \in InRow : d = c

\* The class implements the lock its users rely on.
Abstract == INSTANCE Lease WITH holders <- {c \in Call : phase[c] = "holding"}

ImplementsLease == Abstract!LeaseSpec

\* Every queued call gets its turn or gives up, whatever happens to those in
\* front of it (locks.ts:58 "or we would drop their turn", locks.ts:67): no
\* exit path of a call, a timeout and a crash included, forgets to pass the
\* turn on.  No waiter is obliged to give up, so this is not by timeout.
TurnComes == \A c \in Call : turn[c] = "waiting" ~> turn[c] # "waiting"

=============================================================================
