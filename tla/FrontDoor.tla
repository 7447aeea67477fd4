------------------------------- MODULE FrontDoor -------------------------------
(***************************************************************************)
(* What a request passes before the gateway serves it (packages/gateway/   *)
(* src/gateway.ts, and requirePrincipal in routes.ts): authenticate(), by  *)
(* an API key of the configuration or by a token of the issuer, whose      *)
(* bearer gets rows of its own when it first comes, and the budget of its  *)
(* tenant.  Each statement on a row is a step.  Left out: Router, CORS,    *)
(* bodies and what the routes do (modules Onboarding, Catalogue, ...).     *)
(***************************************************************************)
EXTENDS RateLimiter, ResourceServer

CONSTANTS
  User, Role,
  ApiKeys,  \* config.apiKeys: [tenant, user, role]
  Claimed,  \* [tenant, user, role] of tokens; no tenant if there is no claim and no default
  DoorMixes \* [metered, brings, bears, does]: whether there is a limit, what each request
            \* presents, whom its tokens may name, and which events happen besides

Presented == {"key"} \cup TokenSorts
DoorEvents == {"tick", "age", "sweep", "rotate", "fault", "load fails", "restart", "role"}
ASSUME DoorMixesAssumption ==
  DoorMixes \subseteq [metered : BOOLEAN, brings : [Visitor -> SUBSET Presented],
                       bears : [Visitor -> SUBSET Claimed], does : SUBSET DoorEvents]
ASSUME MembersAssumption ==
  /\ ApiKeys \subseteq [tenant : Tenant, user : User, role : Role]
  /\ Claimed \subseteq [tenant : Tenant \cup {Unknown}, user : User, role : Role]

VARIABLES
  doorMix,
  tenants, users, memberships, \* rows: users are <<tenant, user>>
  door                         \* where each request is

rowVars == <<tenants, users, memberships>>
doorVars == <<limiterVars, keyVars, doorMix, rowVars, door>>

At(at, member) == [at |-> at, member |-> member, failed |-> FALSE]
Outside == At("outside", Unknown)
DoorAt == {"outside", "membership", "verify", "tenant", "newTenant", "user", "newUser",
           "upsert", "limit", "served"}

(***************************************************************************)
(* Rows                                                                    *)
(***************************************************************************)

\* users.id is the primary key, whatever the tenant; tenant_id refers to a row.
CanCreateUser(t, u) == t \in tenants /\ \A row \in users : row[2] # u
Over(given, rows) == [m \in DOMAIN given \cup DOMAIN rows |->
                        IF m \in DOMAIN given THEN given[m] ELSE rows[m]]
Upserted(t, u, role) == Over([m \in {<<t, u>>} |-> role], memberships)

Served == {v \in Visitor : door[v].at # "outside"}

Configured == [m \in {<<k.tenant, k.user>> : k \in ApiKeys} |->
                 (CHOOSE k \in ApiKeys : <<k.tenant, k.user>> = m).role]

\* ensurePrincipals, before the port is opened.
EnsurePrincipals ==
  /\ tenants' = tenants \cup {k.tenant : k \in ApiKeys}
  /\ users' = users \cup {<<k.tenant, k.user>> : k \in
                {l \in ApiKeys : \A row \in users : row[2] # l.user}}
  /\ memberships' = Over(Configured, memberships)

DoorInit ==
  /\ LimiterInit /\ KeysInit
  /\ tenants = {k.tenant : k \in ApiKeys}
  /\ users = {<<k.tenant, k.user>> : k \in ApiKeys}
  /\ memberships = Configured
  /\ door = [v \in Visitor |-> Outside]

DoorTypeOK ==
  /\ LimiterTypeOK /\ KeysTypeOK
  /\ tenants \subseteq Tenant /\ users \subseteq Tenant \X User
  /\ DOMAIN memberships \subseteq Tenant \X User
  /\ \A v \in Visitor : door[v].at \in DoorAt

(***************************************************************************)
(* authenticate                                                            *)
(***************************************************************************)

Go(v, at) == door' = [door EXCEPT ![v].at = at]
Away(v) == door' = [door EXCEPT ![v] = Outside]
Rests == UNCHANGED <<limiterVars, keyVars>>

PresentKey(v) ==
  /\ door[v].at = "outside" /\ "key" \in doorMix.brings[v]
  /\ \E k \in ApiKeys : door' = [door EXCEPT ![v] = At("membership", k)]
  /\ Rests /\ UNCHANGED rowVars

\* principalFor: the membership is the authority, the configuration if there is none.
PrincipalFor(v) ==
  LET k == door[v].member
      m == <<k.tenant, k.user>>
      role == IF m \in DOMAIN memberships THEN memberships[m] ELSE k.role
      member == [tenant |-> k.tenant, user |-> k.user, role |-> role]
  IN /\ door[v].at = "membership"
     /\ door' = [door EXCEPT ![v] = At("limit", member)]
     /\ Rests /\ UNCHANGED rowVars

PresentToken(v) ==
  /\ door[v].at = "outside"
  /\ \E kind \in doorMix.brings[v] \ {"key"} : Verify(v, IssueToken(kind))
  /\ \E m \in doorMix.bears[v] : door' = [door EXCEPT ![v] = At("verify", m)]
  /\ UNCHANGED <<limiterVars, rowVars>>

\* toChallenge, or on to the rows of a bearer who belongs to a tenant.
Verdict(v) ==
  /\ door[v].at = "verify" /\ ruling[v] \notin {Nothing, "waiting"}
  /\ IF ruling[v] = "accepted" /\ door[v].member.tenant # Unknown
     THEN Go(v, "tenant") ELSE Away(v)
  /\ ruling' = [ruling EXCEPT ![v] = Nothing]
  /\ UNCHANGED <<published, jwks, fetch, shown, forced, hasty, out, calm, wronged>>
  /\ UNCHANGED <<limiterVars, rowVars>>

(***************************************************************************)
(* provisionMember                                                         *)
(***************************************************************************)

LookTenant(v) ==
  /\ door[v].at = "tenant"
  /\ Go(v, IF door[v].member.tenant \in tenants THEN "user" ELSE "newTenant")
  /\ Rests /\ UNCHANGED rowVars

\* Mutant: an insert that fails ends the provisioning.
CreateTenantOrStop(v) ==
  /\ door[v].at = "newTenant"
  /\ tenants' = tenants \cup {door[v].member.tenant}
  /\ Go(v, IF door[v].member.tenant \in tenants THEN "limit" ELSE "user")
  /\ Rests /\ UNCHANGED <<users, memberships>>

\* The insert of a row that another request created meanwhile is ignored.
CreateTenant(v) ==
  /\ door[v].at = "newTenant"
  /\ tenants' = tenants \cup {door[v].member.tenant}
  /\ Go(v, "user")
  /\ Rests /\ UNCHANGED <<users, memberships>>

LookUser(v) ==
  LET m == door[v].member
  IN /\ door[v].at = "user"
     /\ Go(v, IF <<m.tenant, m.user>> \in users THEN "upsert" ELSE "newUser")
     /\ Rests /\ UNCHANGED rowVars

CreateUser(v) ==
  LET m == door[v].member
  IN /\ door[v].at = "newUser"
     /\ users' = IF CanCreateUser(m.tenant, m.user) THEN users \cup {<<m.tenant, m.user>>}
                 ELSE users
     /\ Go(v, "upsert")
     /\ Rests /\ UNCHANGED <<tenants, memberships>>

\* tenant_id refers to a row; a failure is only logged.
UpsertMembership(v) ==
  LET m == door[v].member
  IN /\ door[v].at = "upsert"
     /\ memberships' = IF m.tenant \in tenants THEN Upserted(m.tenant, m.user, m.role)
                       ELSE memberships
     /\ Go(v, "limit")
     /\ Rests /\ UNCHANGED <<tenants, users>>

\* A statement fails: an insert or the upsert is passed over, a read is answered
\* with a challenge or an error.
StatementFails(v) ==
  LET next == [newTenant |-> "user", newUser |-> "upsert", upsert |-> "limit"]
  IN /\ door[v].at \in {"membership", "tenant", "user"} \cup DOMAIN next
     /\ door' = IF door[v].at \in DOMAIN next
                THEN [door EXCEPT ![v] = [at |-> next[door[v].at], member |-> door[v].member,
                                          failed |-> TRUE]]
                ELSE [door EXCEPT ![v] = Outside]
     /\ Rests /\ UNCHANGED rowVars

(***************************************************************************)
(* requirePrincipal                                                        *)
(***************************************************************************)

\* The budget of the tenant, if there is one; over it the answer is a 429.
Charge(v) ==
  LET t == door[v].member.tenant
  IN /\ door[v].at = "limit"
     /\ \/ doorMix.metered /\ Admitted(t) /\ Go(v, "served")
        \/ doorMix.metered /\ TooMany(t) /\ Away(v)
        \/ ~doorMix.metered /\ UNCHANGED limiterVars /\ Go(v, "served")
     /\ UNCHANGED <<keyVars, rowVars>>

Answer(v) ==
  /\ door[v].at = "served"
  /\ Away(v)
  /\ Rests /\ UNCHANGED rowVars

RequestAtDoor(v) ==
  \/ PresentKey(v) \/ PrincipalFor(v) \/ PresentToken(v) \/ Verdict(v)
  \/ LookTenant(v) \/ CreateTenant(v) \/ LookUser(v) \/ CreateUser(v) \/ UpsertMembership(v)
  \/ Charge(v) \/ Answer(v)

(***************************************************************************)
(* What happens besides                                                    *)
(***************************************************************************)

\* Nobody is inside; what the process kept in memory is lost.
Restart ==
  /\ Served = {}
  /\ EnsurePrincipals
  /\ buckets' = [t \in Tenant |-> Unknown]
  /\ owed' = [t \in Tenant |-> 0] /\ promised' = [t \in Tenant |-> Unknown]
  /\ jwks' = Nothing /\ fetch' = Nothing
  /\ forced' = Cooldown
  /\ UNCHANGED <<misled, published, shown, ruling, hasty, out, calm, wronged, door>>

\* An administrator gives a member another role, in the database.
ChangeRole ==
  /\ \E m \in DOMAIN memberships, role \in Role :
       memberships' = [memberships EXCEPT ![m] = role]
  /\ Rests /\ UNCHANGED <<tenants, users, door>>

Timely ==
  \/ "tick" \in doorMix.does /\ Tick /\ UNCHANGED <<keyVars, rowVars, door>>
  \/ "age" \in doorMix.does /\ KeysAge /\ UNCHANGED <<limiterVars, rowVars, door>>
  \/ "sweep" \in doorMix.does /\ Sweep /\ UNCHANGED <<keyVars, rowVars, door>>

Issuing ==
  /\ \/ ServeJwks \/ LoadJwks
     \/ "load fails" \in doorMix.does /\ LoadFails
     \/ "rotate" \in doorMix.does /\ RotateKey
  /\ UNCHANGED <<limiterVars, rowVars, door>>

OnceAtDoor ==
  \E e \in doorMix.does \cap {"restart", "role", "fault"} :
    /\ doorMix' = [doorMix EXCEPT !.does = @ \ {e}]
    /\ \/ e = "restart" /\ Restart
       \/ e = "role" /\ ChangeRole
       \/ e = "fault" /\ \E v \in Visitor : StatementFails(v)

DoorNext ==
  \/ (Timely \/ Issuing \/ \E v \in Visitor : RequestAtDoor(v)) /\ UNCHANGED doorMix
  \/ OnceAtDoor

DoorSpec == doorMix \in DoorMixes /\ DoorInit /\ [][DoorNext]_doorVars

\* A bearer who is let in has a tenant and a membership, and a row as a user
\* too unless there is one in another tenant, whoever came at the same time
\* (provisionMember: "so a caller who authenticates does not then trip over a
\* missing row"), if its own statements did not fail.
ProvisionedWhenServed ==
  \A v \in Visitor : door[v].at \in {"limit", "served"} /\ ~door[v].failed =>
    LET m == door[v].member
    IN /\ m.tenant \in tenants
       /\ <<m.tenant, m.user>> \in DOMAIN memberships
       /\ \E t \in Tenant : <<t, m.user>> \in users

=============================================================================
