-------------------------------- MODULE Lease --------------------------------
(***************************************************************************)
(* What a DistributedLock promises its users for one key: the critical     *)
(* sections of different calls do not overlap, unless the lease of one of  *)
(* them ran out while it was still working (`lapsed`).  LeaseLock          *)
(* implements this, and TokenManager is built on it.                       *)
(***************************************************************************)
CONSTANT Call

VARIABLES
  holders,   \* calls whose critical section is in progress
  lapsed     \* some lease has run out under its holder

leaseVars == <<holders, lapsed>>

LeaseInit == holders = {} /\ lapsed = FALSE

\* Only an unheld lock is granted, or one whose lease a holder has lost.
Grant(c) ==
  /\ c \notin holders
  /\ holders = {} \/ lapsed
  /\ holders' = holders \cup {c}
  /\ UNCHANGED lapsed

\* Critical sections end: one by one, or together when their process dies.
Leave(S) ==
  /\ S # {}
  /\ S \subseteq holders
  /\ holders' = holders \ S
  /\ UNCHANGED lapsed

\* A lease runs out under a holder that is stalled or cut off from the store.
Lapse ==
  /\ lapsed' = TRUE
  /\ UNCHANGED holders

LeaseNext ==
  \/ \E c \in Call : Grant(c)
  \/ \E S \in SUBSET Call : Leave(S)
  \/ Lapse

LeaseSpec == LeaseInit /\ [][LeaseNext]_leaseVars

=============================================================================
