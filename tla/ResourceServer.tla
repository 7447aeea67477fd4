----------------------------- MODULE ResourceServer -----------------------------
(***************************************************************************)
(* Bearer tokens of downstream clients: ResourceServerAuthenticator        *)
(* (packages/oauth/src/resource-server.ts), which keeps the signing keys   *)
(* of an issuer, and the issuer, which rotates them (conformance/harness/  *)
(* src/mock-identity-provider.ts).  One issuer: each has its own key set.  *)
(* Timers count down; the fetcher's deadline bounds a fetch.               *)
(***************************************************************************)
EXTENDS Integers, FiniteSets

CONSTANTS
  Visitor,  \* requests that present tokens
  MaxKeys,  \* bound: keys the issuer ever has
  Ttl,      \* jwksTtlMs
  Cooldown, \* jwksRefetchCooldownMs
  Latency,  \* the longest a fetch takes
  Nothing
ASSUME DurationsAssumption ==
  /\ Ttl \in Nat /\ Cooldown \in Nat /\ Latency \in Nat
  /\ Latency < Cooldown /\ Cooldown <= Ttl

Key == 1 .. MaxKeys
KeySet == [keys : SUBSET Key, ttl : 0 .. Ttl, cool : 0 .. Cooldown]
Fetch == [keys : SUBSET Key, left : 0 .. Latency]

ASSUME NothingAssumption ==
  /\ Nothing \notin Int /\ Nothing # "waiting"
  /\ Nothing \notin KeySet /\ Nothing \notin Fetch
ASSUME KeysAssumption == MaxKeys \in Nat \ {0}

VARIABLES
  published, \* the issuer's key
  jwks,      \* this.jwks: keys, time left, what is left of refetchedAt's cooldown
  fetch,     \* this.inFlight: what the issuer answered, time left
  shown,     \* the token a request presents
  ruling,    \* what verify() says of it
  forced,    \* history: time since an unknown key id forced a fetch
  hasty,     \* history: one was forced too soon
  out, calm, \* history: time since the rotation, and since that or a failed fetch
  wronged    \* history: what was wrongly refused or accepted

keyVars == <<published, jwks, fetch, shown, ruling, forced, hasty, out, calm, wronged>>

OutMax == Ttl + Latency
CalmMax == Cooldown + Latency + 1
Capped(n, most) == IF n < most THEN n ELSE most

\* What verify() looks at before it has a key, and after.
EarlyFaults == {"algorithm", "type", "issuer"}
LateFaults == {"lifetime", "audience", "scope", "subject"}
TokenSorts == {"good", "older", "anonymous", "invented", "foreign"} \cup EarlyFaults \cup LateFaults

Older == IF published > 1 THEN published - 1 ELSE published

\* issueToken.  Key id 0 is nobody's; key 0 is one that was never published.
IssueToken(kind) ==
  [kid |-> IF kind = "invented" THEN 0 ELSE IF kind = "anonymous" THEN Nothing
           ELSE IF kind = "older" THEN Older ELSE published,
   key |-> IF kind \in {"invented", "foreign"} THEN 0
           ELSE IF kind = "older" THEN Older ELSE published,
   fault |-> IF kind \in EarlyFaults \cup LateFaults THEN kind ELSE "none"]

Token == [kid : Key \cup {0, Nothing}, key : Key \cup {0},
          fault : {"none"} \cup EarlyFaults \cup LateFaults]

KeysTypeOK ==
  /\ published \in Key
  /\ jwks \in KeySet \cup {Nothing} /\ fetch \in Fetch \cup {Nothing}
  /\ shown \in [Visitor -> Token \cup {Nothing}]
  /\ ruling \in [Visitor -> {Nothing, "waiting", "accepted", "refused", "forbidden"}]
  /\ \A v \in Visitor : ruling[v] = "waiting" => fetch # Nothing /\ shown[v] \in Token
  /\ forced \in 0 .. Cooldown /\ hasty \in BOOLEAN
  /\ out \in 0 .. OutMax /\ calm \in 0 .. CalmMax

KeysInit ==
  /\ published = 1
  /\ jwks = Nothing /\ fetch = Nothing
  /\ shown = [v \in Visitor |-> Nothing]
  /\ ruling = [v \in Visitor |-> Nothing]
  /\ forced = Cooldown /\ hasty = FALSE
  /\ out = OutMax /\ calm = CalmMax
  /\ wronged = {}

\* Without a key id there is an answer only when one key fits.
SelectKey(keys, kid) ==
  IF kid = Nothing THEN IF Cardinality(keys) = 1 THEN keys ELSE {} ELSE keys \cap {kid}

\* verify() once there is a key: signature, lifetime, audience, scope, subject.
Judge(token, found) ==
  IF token.key \notin found THEN "refused"
  ELSE IF token.fault = "none" THEN "accepted"
  ELSE IF token.fault = "scope" THEN "forbidden" ELSE "refused"

Cached == jwks # Nothing /\ jwks.ttl > 0

\* The issuer's own key refused, or one it has retired accepted.  A refusal
\* while a fetch is under way, for somebody else, is excused.
Excused(token) == fetch # Nothing /\ Cached /\ SelectKey(jwks.keys, token.kid) = {}
Wrong(token, verdict) ==
  (IF verdict = "refused" /\ token.fault = "none" /\ token.key = published
        /\ token.kid # Nothing /\ calm >= CalmMax
   THEN {"locked out"} ELSE {}) \cup
  (IF verdict = "accepted" /\ token.key # published /\ out >= OutMax
   THEN {"outlived"} ELSE {})

Ruled(v, token, verdict) ==
  /\ ruling' = [ruling EXCEPT ![v] = verdict]
  /\ wronged' = IF Excused(token) THEN wronged ELSE wronged \cup Wrong(token, verdict)
  /\ UNCHANGED <<published, jwks, fetch, shown, forced, hasty, out, calm>>

Selected(token) == IF Cached THEN SelectKey(jwks.keys, token.kid) ELSE {}

\* verify() up to its first await, where it refuses or has a key at hand
VerifyAtOnce(v, token) ==
  \/ token.fault \in EarlyFaults /\ Ruled(v, token, "refused")
  \/ /\ token.fault \notin EarlyFaults /\ Selected(token) # {}
     /\ Ruled(v, token, Judge(token, Selected(token)))
  \/ /\ token.fault \notin EarlyFaults /\ Cached /\ Selected(token) = {}
     /\ jwks.cool > 0
     /\ Ruled(v, token, "refused")

\* fetchJwks: one request for a burst of misses
JoinOrFetch == IF fetch # Nothing THEN fetch ELSE [keys |-> {}, left |-> Latency]

\* ... and where it has to ask the issuer.
VerifyByFetch(v, token) ==
  /\ token.fault \notin EarlyFaults /\ Selected(token) = {}
  /\ Cached => jwks.cool = 0
  /\ jwks' = IF Cached THEN [jwks EXCEPT !.cool = Cooldown] ELSE jwks
  /\ fetch' = JoinOrFetch
  /\ shown' = [shown EXCEPT ![v] = token]
  /\ ruling' = [ruling EXCEPT ![v] = "waiting"]
  /\ IF Cached /\ fetch = Nothing
     THEN forced' = 0 /\ hasty' = (hasty \/ forced < Cooldown)
     ELSE UNCHANGED <<forced, hasty>>
  /\ UNCHANGED <<published, out, calm, wronged>>

Verify(v, token) == VerifyAtOnce(v, token) \/ VerifyByFetch(v, token)

\* route: the issuer serves /jwks.
ServeJwks ==
  /\ fetch # Nothing /\ fetch.keys = {}
  /\ fetch' = [fetch EXCEPT !.keys = {published}]
  /\ UNCHANGED <<published, jwks, shown, ruling, forced, hasty, out, calm, wronged>>

\* All who wait for the fetch go on.
Resume(verdict(_)) ==
  LET waiting == {v \in Visitor : ruling[v] = "waiting"}
  IN /\ ruling' = [v \in Visitor |-> IF v \in waiting THEN verdict(v) ELSE ruling[v]]
     /\ shown' = [v \in Visitor |-> Nothing]
     /\ fetch' = Nothing

\* Mutant: a key set that was just loaded may be refetched at once.
CoolAfterReload == 0

\* refetchedAt outlives the set.
CoolAfterLoad == IF jwks = Nothing THEN 0 ELSE jwks.cool

LoadJwks ==
  /\ fetch # Nothing /\ fetch.keys # {}
  /\ jwks' = [keys |-> fetch.keys, ttl |-> Ttl, cool |-> CoolAfterLoad]
  /\ LET verdict(v) == Judge(shown[v], SelectKey(fetch.keys, shown[v].kid))
         waiting == {v \in Visitor : ruling[v] = "waiting"}
     IN /\ Resume(verdict)
        /\ wronged' = wronged \cup UNION {Wrong(shown[v], verdict(v)) : v \in waiting}
  /\ UNCHANGED <<published, forced, hasty, out, calm>>

\* The discovery of the issuer, the request or what it answers fails.
LoadFails ==
  /\ fetch # Nothing
  /\ LET verdict(v) == "refused" IN Resume(verdict)
  /\ calm' = 0
  /\ UNCHANGED <<published, jwks, forced, hasty, out, wronged>>

RotateKey ==
  /\ published < MaxKeys
  /\ published' = published + 1
  /\ out' = 0 /\ calm' = 0
  /\ UNCHANGED <<jwks, fetch, shown, ruling, forced, hasty, wronged>>

KeysAge ==
  /\ fetch # Nothing => fetch.left > 0
  /\ fetch' = IF fetch = Nothing THEN Nothing ELSE [fetch EXCEPT !.left = @ - 1]
  /\ jwks' = IF jwks = Nothing THEN Nothing
             ELSE [jwks EXCEPT !.ttl = IF @ > 0 THEN @ - 1 ELSE 0,
                               !.cool = IF @ > 0 THEN @ - 1 ELSE 0]
  /\ forced' = Capped(forced + 1, Cooldown)
  /\ out' = Capped(out + 1, OutMax)
  /\ calm' = Capped(calm + 1, CalmMax)
  /\ UNCHANGED <<published, shown, ruling, hasty, wronged>>

\* While a key set is held, unknown key ids cost the issuer one fetch per
\* cooldown, however many requests name them and however sets are replaced or
\* expire (signingKey: "a stream of unknown key ids costs one fetch per
\* cooldown and is refused in between").
RefetchesAreSpaced == ~hasty

\* Yet a token that names the issuer's new key is refused for it no longer than
\* a cooldown and a fetch after the rotation, or after a fetch failed, other
\* than while somebody else's fetch is under way; and a retired key is accepted
\* no longer than the set is kept (signingKey: "so that
\* a rotation does not lock every client out until the cache expires").
RotationIsFollowed == wronged = {}

\* The two together: the bound on fetches does not keep a rotation from being
\* followed, and following it does not lift the bound (resource-server.ts
\* signingKey, fetchJwks).
KeysAreFollowed == RefetchesAreSpaced /\ RotationIsFollowed

=============================================================================
