---------------------------- MODULE CircuitBreaker ----------------------------
(***************************************************************************)
(* CircuitBreaker of packages/security/src/locks.ts as a value: failures   *)
(* counted (never past Threshold, where counting on changes nothing) and   *)
(* whether openedAt is set.  The cooldown is a choice of the caller: at    *)
(* any isOpen() it may or may not have passed.                             *)
(***************************************************************************)
EXTENDS Naturals

CONSTANT Threshold    \* failures that open the breaker (5 in token-manager.ts)

ASSUME ThresholdAssumption == Threshold \in Nat \ {0}

Breaker == [failures : 0..Threshold, open : BOOLEAN]

Closed == [failures |-> 0, open |-> FALSE]

\* isOpen() is an answer and an update: past the cooldown it resets.
IsOpen(b, cooled) == b.open /\ ~cooled

AfterIsOpen(b, cooled) == IF b.open /\ cooled THEN Closed ELSE b

RecordSuccess(b) == Closed

\* A failure past the threshold opens, or opens again.
RecordFailure(b) ==
  LET n == IF b.failures < Threshold THEN b.failures + 1 ELSE Threshold IN
  [failures |-> n, open |-> n >= Threshold]

=============================================================================
