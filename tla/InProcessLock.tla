---------------------------- MODULE InProcessLock ----------------------------
(***************************************************************************)
(* The per-process mutex of packages/security/src/locks.ts, for one key    *)
(* (keys share nothing).  Callers form a chain of promises: a newcomer     *)
(* waits for the call that `tails` names and puts itself there.            *)
(*                                                                         *)
(* A process has one instance of the class, so `tail` is indexed by        *)
(* process.  ahead[c] is the set of calls whose `held` promise must still  *)
(* resolve before c's turn: the promise chain behind c, flattened.         *)
(* `finish` resolves `held` and deletes the map entry in a microtask; no   *)
(* timer or I/O runs in between, and a call queued by another microtask in *)
(* that gap is indistinguishable from one queued just before, so both are  *)
(* one step here.  Timers (waitMs, leaseMs) may fire at any moment at      *)
(* which the code has them armed.                                          *)
(***************************************************************************)
CONSTANTS
  Process,   \* processes, each with an InProcessLock instance
  Call,      \* slots for withLock calls; a slot is reused once its call ends
  Home,      \* the process each call runs in
  None       \* "no entry in tails"

ASSUME HomeAssumption == Home \in [Call -> Process]
ASSUME NoneAssumption == None \notin Call

VARIABLES
  turn,      \* turn[c]: "idle", "waiting" (queued), "running" (fn in progress)
  ahead,     \* ahead[c]: calls whose turn must end before c's begins
  tail,      \* tail[p]: the last call queued in p, as `tails` records it
  expired    \* expired[c]: leaseMs passed, the caller was rejected, fn goes on

lockVars == <<turn, ahead, tail, expired>>

LockTypeOK ==
  /\ turn \in [Call -> {"idle", "waiting", "running"}]
  /\ ahead \in [Call -> SUBSET Call]
  /\ tail \in [Process -> Call \cup {None}]
  /\ expired \in [Call -> BOOLEAN]

LockInit ==
  /\ turn = [c \in Call |-> "idle"]
  /\ ahead = [c \in Call |-> {}]
  /\ tail = [p \in Process |-> None]
  /\ expired = [c \in Call |-> FALSE]

(***************************************************************************)
(* Operations                                                              *)
(***************************************************************************)

\* withLock is called: chain behind the recorded tail, become the tail.
Request(c) ==
  LET previous == tail[Home[c]] IN
  /\ turn[c] = "idle"
  /\ turn' = [turn EXCEPT ![c] = "waiting"]
  /\ ahead' = [ahead EXCEPT ![c] =
                 IF previous = None THEN {} ELSE ahead[previous] \cup {previous}]
  /\ tail' = [tail EXCEPT ![Home[c]] = c]
  /\ UNCHANGED expired

\* The promise chain ahead of c has resolved: fn starts.
Enter(c) ==
  /\ turn[c] = "waiting"
  /\ ahead[c] = {}
  /\ turn' = [turn EXCEPT ![c] = "running"]
  /\ UNCHANGED <<ahead, tail, expired>>

\* Mutant of Finish: the slot is left in a state nobody expects.
FinishUnreset(c) ==
  /\ turn' = [turn EXCEPT ![c] = "finished"]
  /\ ahead' = [d \in Call |-> IF d = c THEN {} ELSE ahead[d] \ {c}]
  /\ tail' = [tail EXCEPT ![Home[c]] = IF @ = c THEN None ELSE @]
  /\ expired' = [expired EXCEPT ![c] = FALSE]

\* finish(): resolve `held`, and drop the map entry when it is still ours.
Finish(c) ==
  /\ turn' = [turn EXCEPT ![c] = "idle"]
  /\ ahead' = [d \in Call |-> IF d = c THEN {} ELSE ahead[d] \ {c}]
  /\ tail' = [tail EXCEPT ![Home[c]] = IF @ = c THEN None ELSE @]
  /\ expired' = [expired EXCEPT ![c] = FALSE]

\* Mutant of GiveUp: `held` is left pending, and with it everyone behind.
GiveUpSilently(c) ==
  /\ turn[c] = "waiting"
  /\ ahead[c] # {}
  /\ turn' = [turn EXCEPT ![c] = "idle"]
  /\ UNCHANGED <<ahead, tail, expired>>

\* waitMs passed before c's turn came: the caller is rejected.  A timer does
\* not fire while a turn that has come is still to be taken by its microtask.
GiveUp(c) ==
  /\ turn[c] = "waiting"
  /\ ahead[c] # {}
  /\ \A d \in Call : Home[d] = Home[c] /\ turn[d] = "waiting" => ahead[d] # {}
  /\ Finish(c)

\* fn settled, one way or the other.
SettleTurn(c) ==
  /\ turn[c] = "running"
  /\ Finish(c)

\* leaseMs passed: abort the signal and reject the caller; fn keeps the lock.
ExpireLease(c) ==
  /\ turn[c] = "running"
  /\ ~expired[c]
  /\ expired' = [expired EXCEPT ![c] = TRUE]
  /\ UNCHANGED <<turn, ahead, tail>>

LockNext ==
  \E c \in Call :
    \/ Request(c)
    \/ Enter(c)
    \/ GiveUp(c)
    \/ SettleTurn(c)
    \/ ExpireLease(c)

LockSpec == LockInit /\ [][LockNext]_lockVars

=============================================================================
