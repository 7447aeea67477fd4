------------------------------ MODULE RateLimiter ------------------------------
(***************************************************************************)
(* The token buckets of packages/security/src/rate-limit.ts, one per       *)
(* tenant, in one process.  Time passes by the millisecond, the clock does *)
(* not go back, and the arithmetic is floating point: a token is cut in    *)
(* Whole parts, of which a millisecond brings back Inflow, and what is     *)
(* computed from elapsed time in check() and sweep() is up to Error off.   *)
(***************************************************************************)
EXTENDS Integers

CONSTANTS
  Tenant,
  Limit, Interval, \* requests allowed in an interval, and its milliseconds
  Burst,           \* rule.burst ?? rule.limit
  Second,          \* milliseconds of a second
  Grain, Error,    \* Interval * Grain parts are a token; rounding, in parts
  Unknown          \* no row, no value

Inflow == Limit * Grain
Whole == Interval * Grain
Capacity == Burst * Whole

\* A computation is off by less than half of what a millisecond brings back.
ASSUME RuleAssumption ==
  /\ Limit \in Nat \ {0} /\ Interval \in Nat \ {0} /\ Burst \in Nat \ {0}
  /\ Second \in Nat \ {0} /\ Grain \in Nat \ {0}
  /\ Error \in Nat /\ 2 * Error <= Inflow

\* Milliseconds after which time adds nothing, whatever was left.
Enough == Capacity + Error + 1
\* Tokens as they were at updatedAt, and the milliseconds since, where they matter.
BucketState == [tokens : 0 .. Capacity, idle : 0 .. Enough]

ASSUME UnknownAssumption == Unknown \notin BucketState /\ Unknown \notin Int

VARIABLES
  buckets,  \* this.buckets
  owed,     \* history: what a bucket nobody sweeps would hold against a tenant
  promised, \* history: milliseconds left of the last wait a tenant was told, -1
            \* when it has waited longer
  misled    \* history: of tenants refused after they waited, 1 if one waited longer

limiterVars == <<buckets, owed, promised, misled>>

Fresh == [tokens |-> Capacity, idle |-> 0]
Lesser(a, b) == IF a < b THEN a ELSE b
Less(a, b) == IF a > b THEN a - b ELSE 0

LimiterTypeOK ==
  /\ buckets \in [Tenant -> BucketState \cup {Unknown}]
  /\ owed \in [Tenant -> Nat]
  /\ promised \in [Tenant -> Nat \cup {-1, Unknown}]
  /\ misled \subseteq {0, 1}

LimiterInit ==
  /\ buckets = [t \in Tenant |-> Unknown]
  /\ owed = [t \in Tenant |-> 0]
  /\ promised = [t \in Tenant |-> Unknown]
  /\ misled = {}

Bucket(t) == IF buckets[t] = Unknown THEN Fresh ELSE buckets[t]

\* tokens + refill, e parts off: the refill of no time at all is exact.
Rounding == -Error .. Error
Filled(t, e) ==
  Bucket(t).tokens + Bucket(t).idle * Inflow + (IF Bucket(t).idle = 0 THEN 0 ELSE e)
Tokens(t, e) == Lesser(Capacity, Filled(t, e))

\* Whole seconds until there is a token, rounded up.
Wait(tokens, e) == (Whole - tokens + e + Inflow * Second - 1) \div (Inflow * Second)
RetryAfter(tokens, e) == IF Wait(tokens, e) < 1 THEN 1 ELSE Wait(tokens, e)

\* History: a decision, or a bucket dropped, may be a rounding to the tenant's gain.
Rounded(t) == IF Bucket(t).idle = 0 THEN owed[t] ELSE Less(owed[t], Error)

\* check() that lets the request through
Admitted(t) ==
  \E e \in Rounding :
    /\ Tokens(t, e) >= Whole
    /\ buckets' = [buckets EXCEPT ![t] = [tokens |-> Tokens(t, e) - Whole, idle |-> 0]]
    /\ owed' = [owed EXCEPT ![t] = Rounded(t) + Whole]
    /\ promised' = [promised EXCEPT ![t] = Unknown]
    /\ UNCHANGED misled

\* check() that does not, and says how long to wait
TooMany(t) ==
  \E e, r \in Rounding :
    /\ Tokens(t, e) < Whole
    /\ buckets' = [buckets EXCEPT ![t] = [tokens |-> Tokens(t, e), idle |-> 0]]
    /\ owed' = [owed EXCEPT ![t] = Rounded(t)]
    /\ promised' = [promised EXCEPT ![t] = RetryAfter(Tokens(t, e), r) * Second]
    /\ misled' = IF promised[t] \in {0, -1}
                THEN misled \cup {IF promised[t] = 0 THEN 0 ELSE 1} ELSE misled

\* Mutant: the milliseconds since updatedAt count as whole tokens.
RefilledInTokens(t, e) == Bucket(t).tokens + Bucket(t).idle * Whole >= Capacity

Refilled(t, e) == Filled(t, e) >= Capacity

\* The worker drops the buckets that are full.
Sweep ==
  \E e \in [Tenant -> Rounding] :
    /\ buckets' = [t \in Tenant |-> IF Refilled(t, e[t]) THEN Unknown ELSE buckets[t]]
    /\ owed' = [t \in Tenant |-> IF Refilled(t, e[t]) THEN Rounded(t) ELSE owed[t]]
    /\ UNCHANGED <<promised, misled>>

Tick ==
  /\ buckets' = [t \in Tenant |->
       IF buckets[t] = Unknown THEN Unknown
       ELSE [buckets[t] EXCEPT !.idle = Lesser(Enough, @ + 1)]]
  /\ owed' = [t \in Tenant |-> Less(owed[t], Inflow)]
  /\ promised' = [t \in Tenant |->
       IF promised[t] \in {Unknown, -1} THEN promised[t] ELSE promised[t] - 1]
  /\ UNCHANGED misled

\* A tenant is let through no more, over any time, than a burst and what the
\* time brought back, but for the rounding of each decision, though idle buckets
\* are forgotten; and one that waits a millisecond longer than it was told is
\* let through.
BudgetIsKept ==
  /\ \A t \in Tenant : owed[t] <= Capacity
  /\ 1 \notin misled

\* The wait a tenant is told is enough (rate-limit.ts: "rounded up so a caller
\* that obeys it succeeds rather than arriving a millisecond early").
ObeyedWaitSucceeds == misled = {}

=============================================================================
