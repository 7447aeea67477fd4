------------------------------ MODULE MCSharing ------------------------------
(* What concurrent callers share on the way to an upstream: the lock of a    *)
(* connection (LeaseLock, on two processes), the sessions of a process       *)
(* (UpstreamSessions, two connections under one downstream session) and one  *)
(* connection (MCUpstreamClient).  A behaviour runs one of them.             *)
EXTENDS MCUpstreamClient, UpstreamSessions, LeaseLock, Sequences, TLC

CONSTANTS p, q, a, b, x, k1, k2, s1, s2, s3

VARIABLE part
sharingVars == <<part, connectionVars, sessionVars, leaseLockVars>>

\* Two calls share a process, a third runs alone.
MCHome == (a :> p) @@ (b :> p) @@ (x :> q)

MCScope == {{k1}, {k2}, {k1, k2}}

\* Attempts are alike: they are taken in one order.
InOrder ==
  \A i \in 1..2 : LET s == <<s1, s2, s3>> IN
    stage[s[i]] = "unused" => stage[s[i + 1]] = "unused"

SharingInit ==
  /\ part \in {"lock", "sessions", "connection"}
  /\ LeaseLockInit /\ SessionsInit /\ ConnectionInit
  /\ (part # "connection") => (transportKind = "HTTP_SSE")

SharingNext ==
  \/ /\ part = "lock" /\ LeaseLockNext
     /\ UNCHANGED <<part, connectionVars, sessionVars>>
  \/ /\ part = "sessions" /\ SessionsNext /\ InOrder'
     /\ UNCHANGED <<part, connectionVars, leaseLockVars>>
  \/ /\ part = "connection" /\ ConnectionNext
     /\ UNCHANGED <<part, sessionVars, leaseLockVars>>

\* Of what does not run, no action with fairness is ever enabled.
SharingSpec ==
  /\ SharingInit /\ [][SharingNext]_sharingVars
  /\ LockFairness /\ Fairness /\ Legacy!Fairness
=============================================================================
