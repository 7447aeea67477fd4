---------------------------- MODULE Boundary_proofs ----------------------------
(***************************************************************************)
(* Who gets into the gateway, and what it sends out.                       *)
(*                                                                         *)
(* FrontDoor: the rows of whoever is let in, the keys that are followed    *)
(* and the budget of a tenant, for every set of visitors, tenants and      *)
(* users, and for all keys, claims and mixes of requests.                  *)
(* SafeFetch: where a chain of requests may go, for every set of hosts,    *)
(* policies and answers of name servers; and that an address leads where   *)
(* the IPv4 address written in it leads, for every address.                *)
(* ProofOfPossession: how the requests say whose they are, for every       *)
(* number of calls, and every sequence of overlaps, restarts and lost      *)
(* answers.                                                                *)
(***************************************************************************)
EXTENDS FrontDoor, SafeFetch, ProofOfPossession, TLAPS


(***************************************************************************)
(* The rows of who is let in                                               *)
(***************************************************************************)

MemberRow == [tenant : Tenant \cup {Unknown}, user : User, role : Role]
DoorMix == [metered : BOOLEAN, brings : [Visitor -> SUBSET Presented],
        bears : [Visitor -> SUBSET Claimed], does : SUBSET DoorEvents]
Place == [at : DoorAt, member : MemberRow \cup {Unknown}, failed : BOOLEAN]

RowsTypeOK ==
  /\ doorMix \in DoorMix
  /\ tenants \subseteq Tenant
  /\ users \subseteq Tenant \X User
  /\ DOMAIN memberships \subseteq Tenant \X User
  /\ memberships \in [DOMAIN memberships -> Role]
  /\ door \in [Visitor -> Place]

HasTenant(m) == m.tenant \in tenants
HasUser(m) == \E t \in Tenant : <<t, m.user>> \in users
HasMembership(m) == <<m.tenant, m.user>> \in DOMAIN memberships

KeysHaveRows == \A k \in ApiKeys : HasTenant(k) /\ HasUser(k) /\ HasMembership(k)

\* What each step of provisionMember leaves behind, if none of them failed.
Stands(v) ==
  /\ door[v].at # "outside" => door[v].member \in MemberRow
  /\ door[v].at = "membership" => door[v].member \in ApiKeys
  /\ door[v].at \notin {"outside", "verify"} => door[v].member.tenant \in Tenant
  /\ ~door[v].failed =>
       /\ door[v].at \in {"user", "newUser", "upsert", "limit", "served"} =>
            HasTenant(door[v].member)
       /\ door[v].at \in {"upsert", "limit", "served"} => HasUser(door[v].member)
       /\ door[v].at \in {"limit", "served"} => HasMembership(door[v].member)

RowsInv == RowsTypeOK /\ KeysHaveRows /\ \A v \in Visitor : Stands(v)

Grown == tenants \subseteq tenants' /\ users \subseteq users' /\ DOMAIN memberships \subseteq DOMAIN memberships'

\* Rows are only added, so one whom a step does not move stands as before.
LEMMA OthersStand ==
  ASSUME NEW v \in Visitor, Stands(v), Grown, door'[v] = door[v]
  PROVE  Stands(v)'
BY DEF Stands, Grown, HasTenant, HasUser, HasMembership

LEMMA KeysKeepRows ==
  ASSUME KeysHaveRows, Grown
  PROVE  KeysHaveRows'
BY DEF KeysHaveRows, Grown, HasTenant, HasUser, HasMembership

\* A step that leaves the rows alone and moves one visitor, who then stands.
LEMMA OneMoves ==
  ASSUME RowsInv, NEW v \in Visitor, NEW p \in Place,
         door' = [door EXCEPT ![v] = p], Stands(v)', Grown,
         tenants' \subseteq Tenant, users' \subseteq Tenant \X User,
         DOMAIN memberships' \subseteq Tenant \X User,
         memberships' \in [DOMAIN memberships' -> Role],
         doorMix' \in DoorMix
  PROVE  RowsInv'
<1>1. RowsTypeOK'  BY DEF RowsInv, RowsTypeOK
<1>2. KeysHaveRows'  BY KeysKeepRows DEF RowsInv
<1>3. ASSUME NEW w \in Visitor  PROVE Stands(w)'
  <2>1. CASE w = v  BY <2>1
  <2>2. CASE w # v
    <3>1. door'[w] = door[w]  BY <2>2 DEF RowsInv, RowsTypeOK
    <3> QED  BY <3>1, OthersStand DEF RowsInv
  <2> QED  BY <2>1, <2>2
<1> QED  BY <1>1, <1>2, <1>3 DEF RowsInv

LEMMA RowsStill ==
  ASSUME RowsInv, UNCHANGED rowVars  
  PROVE  /\ Grown /\ tenants' \subseteq Tenant /\ users' \subseteq Tenant \X User
         /\ DOMAIN memberships' \subseteq Tenant \X User
         /\ memberships' \in [DOMAIN memberships' -> Role]
BY DEF RowsInv, RowsTypeOK, rowVars, Grown

\* The configuration's rows, as ensurePrincipals writes them.
LEMMA KeyRows ==
  ASSUME NEW k \in ApiKeys, MembersAssumption
  PROVE  /\ k.tenant \in Tenant /\ k.user \in User /\ k.role \in Role
         /\ <<k.tenant, k.user>> \in Tenant \X User
         /\ k \in MemberRow
BY DEF MembersAssumption, MemberRow

LEMMA KeyRoles ==
  ASSUME NEW m \in {<<k.tenant, k.user>> : k \in ApiKeys}
  PROVE  (CHOOSE k \in ApiKeys : <<k.tenant, k.user>> = m).role \in Role
<1> DEFINE c == CHOOSE k \in ApiKeys : <<k.tenant, k.user>> = m
<1>1. \E k \in ApiKeys : <<k.tenant, k.user>> = m  OBVIOUS
<1>2. c \in ApiKeys  BY <1>1
<1> QED  BY <1>2, KeyRows, MembersAssumption

LEMMA RowsInit == doorMix \in DoorMixes /\ DoorInit => RowsInv
<1> SUFFICES ASSUME doorMix \in DoorMixes, DoorInit  PROVE RowsInv  OBVIOUS
<1>1. doorMix \in DoorMix  BY DoorMixesAssumption DEF DoorMix
<1>2. /\ tenants \subseteq Tenant /\ users \subseteq Tenant \X User
  BY KeyRows, MembersAssumption DEF DoorInit
<1>3. DOMAIN memberships = users /\ memberships \in [DOMAIN memberships -> Role]
  BY KeyRoles DEF DoorInit, Configured
<1>4. Outside \in Place  BY DEF Outside, Place, DoorAt, At
<1>5. door \in [Visitor -> Place]  BY <1>4 DEF DoorInit
<1>6. KeysHaveRows
  BY <1>3, KeyRows, MembersAssumption DEF DoorInit, KeysHaveRows, HasTenant, HasUser, HasMembership
<1>7. \A v \in Visitor : Stands(v)  BY DEF DoorInit, Stands, Outside, At
<1> QED  BY <1>1, <1>2, <1>3, <1>5, <1>6, <1>7 DEF RowsInv, RowsTypeOK

(***************************************************************************)
(* One lemma for each step of a request                                    *)
(***************************************************************************)

LEMMA OutsideStands ==
  ASSUME NEW v \in Visitor, door'[v] = Outside
  PROVE  Stands(v)'
BY DEF Stands, Outside, At

LEMMA OutsideIsPlace == Outside \in Place
BY DEF Outside, Place, DoorAt, At

\* Leaving, wherever one is.
LEMMA AwayKeeps ==
  ASSUME RowsInv, NEW v \in Visitor, door' = [door EXCEPT ![v] = Outside],
         UNCHANGED rowVars, doorMix' \in DoorMix
  PROVE  RowsInv'
<1>1. door'[v] = Outside  BY DEF RowsInv, RowsTypeOK
<1> QED  BY <1>1, OutsideStands, OutsideIsPlace, RowsStill, OneMoves

LEMMA PresentKeyKeeps ==
  ASSUME RowsInv, NEW v \in Visitor, PresentKey(v), doorMix' \in DoorMix
  PROVE  RowsInv'
<1>1. PICK k \in ApiKeys : door' = [door EXCEPT ![v] = At("membership", k)]
  BY DEF PresentKey
<1> DEFINE p == At("membership", k)
<1>2. door' = [door EXCEPT ![v] = p]  BY <1>1
<1>3. p \in Place  BY KeyRows, MembersAssumption DEF Place, DoorAt, At
<1>4. door'[v] = p  BY <1>2 DEF RowsInv, RowsTypeOK
<1>5. k \in MemberRow /\ k.tenant \in Tenant  BY KeyRows, MembersAssumption
<1>6. Stands(v)'  BY <1>4, <1>5 DEF Stands, At
<1>7. UNCHANGED rowVars  BY DEF PresentKey
<1> QED  BY <1>2, <1>3, <1>6, <1>7, RowsStill, OneMoves

LEMMA PrincipalForKeeps ==
  ASSUME RowsInv, NEW v \in Visitor, PrincipalFor(v), doorMix' \in DoorMix
  PROVE  RowsInv'
<1> DEFINE k == door[v].member
           m == <<k.tenant, k.user>>
           role == IF m \in DOMAIN memberships THEN memberships[m] ELSE k.role
           member == [tenant |-> k.tenant, user |-> k.user, role |-> role]
           p == At("limit", member)
<1>1. door[v] \in Place /\ door[v].at = "membership" /\ k \in ApiKeys /\ k \in MemberRow
  BY DEF RowsInv, RowsTypeOK, Stands, PrincipalFor
<1>2. role \in Role  BY <1>1, KeyRows, MembersAssumption DEF RowsInv, RowsTypeOK
<1>3. member \in MemberRow  BY <1>1, <1>2 DEF MemberRow
<1>4. p \in Place  BY <1>3 DEF Place, DoorAt, At
<1>5. door' = [door EXCEPT ![v] = p]  BY DEF PrincipalFor
<1>6. door'[v] = p  BY <1>5 DEF RowsInv, RowsTypeOK
<1>7. UNCHANGED rowVars  BY DEF PrincipalFor
<1>8. p.member.tenant = k.tenant /\ p.member.user = k.user  BY DEF At
<1>9. HasTenant(k) /\ HasUser(k) /\ HasMembership(k) /\ k.tenant \in Tenant
  BY <1>1, KeyRows, MembersAssumption DEF RowsInv, KeysHaveRows
<1>10. Stands(v)'
  BY <1>3, <1>6, <1>7, <1>8, <1>9 DEF Stands, rowVars, HasTenant, HasUser, HasMembership, At
<1> QED  BY <1>4, <1>5, <1>7, <1>10, RowsStill, OneMoves

LEMMA PresentTokenKeeps ==
  ASSUME RowsInv, NEW v \in Visitor, PresentToken(v), doorMix' \in DoorMix
  PROVE  RowsInv'
<1>1. PICK m \in doorMix.bears[v] : door' = [door EXCEPT ![v] = At("verify", m)]
  BY DEF PresentToken
<1> DEFINE p == At("verify", m)
<1>2. door' = [door EXCEPT ![v] = p]  BY <1>1
<1>3. m \in Claimed  BY <1>1 DEF RowsInv, RowsTypeOK, DoorMix
<1>4. m \in MemberRow  BY <1>3, MembersAssumption DEF MembersAssumption, MemberRow
<1>5. p \in Place  BY <1>4 DEF Place, DoorAt, At
<1>6. door'[v] = p  BY <1>2 DEF RowsInv, RowsTypeOK
<1>7. Stands(v)'  BY <1>4, <1>6 DEF Stands, At
<1>8. UNCHANGED rowVars  BY DEF PresentToken
<1> QED  BY <1>2, <1>5, <1>7, <1>8, RowsStill, OneMoves

\* A step of provisionMember or of the answer that only moves a visitor on.
Moved(p, at) == [p EXCEPT !.at = at]

LEMMA GoMoves ==
  ASSUME RowsInv, NEW v \in Visitor, NEW at \in DoorAt, Go(v, at)
  PROVE  /\ door' = [door EXCEPT ![v] = Moved(door[v], at)]
         /\ Moved(door[v], at) \in Place
         /\ door'[v] = Moved(door[v], at)
         /\ door'[v].at = at /\ door'[v].member = door[v].member /\ door'[v].failed = door[v].failed
BY DEF Go, Moved, RowsInv, RowsTypeOK, Place

LEMMA GoKeeps ==
  ASSUME RowsInv, NEW v \in Visitor, NEW at \in DoorAt, Go(v, at), Stands(v)', Grown,
         tenants' \subseteq Tenant, users' \subseteq Tenant \X User,
         DOMAIN memberships' \subseteq Tenant \X User,
         memberships' \in [DOMAIN memberships' -> Role],
         doorMix' \in DoorMix
  PROVE  RowsInv'
BY GoMoves, OneMoves

LEMMA VerdictKeeps ==
  ASSUME RowsInv, NEW v \in Visitor, Verdict(v), doorMix' \in DoorMix
  PROVE  RowsInv'
<1>1. UNCHANGED rowVars  BY DEF Verdict
<1>2. CASE ruling[v] = "accepted" /\ door[v].member.tenant # Unknown
  <2>1. Go(v, "tenant") /\ door[v].at = "verify"  BY <1>2 DEF Verdict
  <2>2. door[v].member \in MemberRow /\ door[v].member.tenant \in Tenant
    BY <1>2, <2>1 DEF RowsInv, Stands, MemberRow
  <2>3. "tenant" \in DoorAt  BY DEF DoorAt
  <2>4. door'[v].at = "tenant" /\ door'[v].member = door[v].member  BY <2>1, <2>3, GoMoves
  <2>5. Stands(v)'  BY <2>2, <2>4 DEF Stands
  <2> QED  BY <1>1, <2>1, <2>3, <2>5, RowsStill, GoKeeps
<1>3. CASE ~(ruling[v] = "accepted" /\ door[v].member.tenant # Unknown)
  <2>1. door' = [door EXCEPT ![v] = Outside]  BY <1>3 DEF Verdict, Away
  <2> QED  BY <1>1, <2>1, AwayKeeps
<1> QED  BY <1>2, <1>3

LEMMA LookTenantKeeps ==
  ASSUME RowsInv, NEW v \in Visitor, LookTenant(v), doorMix' \in DoorMix
  PROVE  RowsInv'
<1> DEFINE at == IF door[v].member.tenant \in tenants THEN "user" ELSE "newTenant"
<1>1. UNCHANGED rowVars /\ Go(v, at) /\ door[v].at = "tenant"  BY DEF LookTenant
<1>2. at \in DoorAt  BY DEF DoorAt
<1>3. door'[v].at = at /\ door'[v].member = door[v].member  BY <1>1, <1>2, GoMoves
<1>4. Stands(v)'  BY <1>1, <1>3 DEF Stands, RowsInv, HasTenant, rowVars
<1> QED  BY <1>1, <1>2, <1>4, RowsStill, GoKeeps

LEMMA CreateTenantKeeps ==
  ASSUME RowsInv, NEW v \in Visitor, CreateTenant(v), doorMix' \in DoorMix
  PROVE  RowsInv'
<1>1. Go(v, "user") /\ door[v].at = "newTenant" /\ UNCHANGED <<users, memberships>>
      /\ tenants' = tenants \cup {door[v].member.tenant}
  BY DEF CreateTenant
<1>2. "user" \in DoorAt  BY DEF DoorAt
<1>3. door'[v].at = "user" /\ door'[v].member = door[v].member  BY <1>1, <1>2, GoMoves
<1>4. door[v].member \in MemberRow /\ door[v].member.tenant \in Tenant  BY <1>1 DEF RowsInv, Stands
<1>5. Stands(v)'  BY <1>1, <1>3, <1>4 DEF Stands, HasTenant
<1>6. /\ Grown /\ tenants' \subseteq Tenant /\ users' \subseteq Tenant \X User
      /\ DOMAIN memberships' \subseteq Tenant \X User
      /\ memberships' \in [DOMAIN memberships' -> Role]
  BY <1>1, <1>4 DEF RowsInv, RowsTypeOK, Grown
<1> QED  BY <1>1, <1>2, <1>5, <1>6, GoKeeps

LEMMA LookUserKeeps ==
  ASSUME RowsInv, NEW v \in Visitor, LookUser(v), doorMix' \in DoorMix
  PROVE  RowsInv'
<1> DEFINE m == door[v].member
           at == IF <<m.tenant, m.user>> \in users THEN "upsert" ELSE "newUser"
<1>1. UNCHANGED rowVars /\ Go(v, at) /\ door[v].at = "user"  BY DEF LookUser
<1>2. at \in DoorAt  BY DEF DoorAt
<1>3. door'[v].at = at /\ door'[v].member = m /\ door'[v].failed = door[v].failed
  BY <1>1, <1>2, GoMoves
<1>4. m \in MemberRow /\ m.tenant \in Tenant /\ (~door[v].failed => HasTenant(m))
  BY <1>1 DEF RowsInv, Stands
<1>5. at = "upsert" => HasUser(m)  BY <1>4 DEF HasUser
<1>6. Stands(v)'  BY <1>1, <1>3, <1>4, <1>5 DEF Stands, HasTenant, HasUser, rowVars
<1> QED  BY <1>1, <1>2, <1>6, RowsStill, GoKeeps

LEMMA CreateUserKeeps ==
  ASSUME RowsInv, NEW v \in Visitor, CreateUser(v), doorMix' \in DoorMix
  PROVE  RowsInv'
<1> DEFINE m == door[v].member
<1>1. Go(v, "upsert") /\ door[v].at = "newUser" /\ UNCHANGED <<tenants, memberships>>
      /\ users' = IF CanCreateUser(m.tenant, m.user) THEN users \cup {<<m.tenant, m.user>>}
                  ELSE users
  BY DEF CreateUser
<1>2. "upsert" \in DoorAt  BY DEF DoorAt
<1>3. door'[v].at = "upsert" /\ door'[v].member = m /\ door'[v].failed = door[v].failed
  BY <1>1, <1>2, GoMoves
<1>4. m \in MemberRow /\ m.tenant \in Tenant /\ (~door[v].failed => HasTenant(m))
  BY <1>1 DEF RowsInv, Stands
<1>5. m.user \in User  BY <1>4 DEF MemberRow
<1>6. ~door[v].failed => HasUser(m)'
  <2>1. CASE CanCreateUser(m.tenant, m.user)
    <3>1. <<m.tenant, m.user>> \in users'  BY <1>1, <2>1
    <3>2. \E t \in Tenant : <<t, m.user>> \in users'  BY <3>1, <1>4
    <3>3. door'[v].member.user = m.user  BY <1>3
    <3> QED  BY <3>1, <3>2, <3>3, <1>3 DEF HasUser
  <2>2. CASE ~door[v].failed /\ ~CanCreateUser(m.tenant, m.user)
    <3>1. PICK row \in users : row[2] = m.user  BY <1>4, <2>2 DEF CanCreateUser, HasTenant
    <3>2. row = <<row[1], m.user>> /\ row[1] \in Tenant  BY <3>1 DEF RowsInv, RowsTypeOK
    <3>3. row \in users'  BY <1>1, <2>2, <3>1
    <3> QED  BY <3>2, <3>3, <1>3 DEF HasUser
  <2> QED  BY <2>1, <2>2
<1>7. /\ Grown /\ tenants' \subseteq Tenant /\ users' \subseteq Tenant \X User
      /\ DOMAIN memberships' \subseteq Tenant \X User
      /\ memberships' \in [DOMAIN memberships' -> Role]
  BY <1>1, <1>4, <1>5 DEF RowsInv, RowsTypeOK, Grown
<1>8. Stands(v)'  BY <1>1, <1>3, <1>4, <1>6 DEF Stands, HasTenant, HasUser
<1> QED  BY <1>1, <1>2, <1>7, <1>8, GoKeeps

LEMMA UpsertMembershipKeeps ==
  ASSUME RowsInv, NEW v \in Visitor, UpsertMembership(v), doorMix' \in DoorMix
  PROVE  RowsInv'
<1> DEFINE m == door[v].member
<1>1. Go(v, "limit") /\ door[v].at = "upsert" /\ UNCHANGED <<tenants, users>>
      /\ memberships' = IF m.tenant \in tenants THEN Upserted(m.tenant, m.user, m.role)
                        ELSE memberships
  BY DEF UpsertMembership
<1>2. "limit" \in DoorAt  BY DEF DoorAt
<1>3. door'[v].at = "limit" /\ door'[v].member = m /\ door'[v].failed = door[v].failed
  BY <1>1, <1>2, GoMoves
<1>4. m \in MemberRow /\ m.tenant \in Tenant /\ (~door[v].failed => HasTenant(m) /\ HasUser(m))
  BY <1>1 DEF RowsInv, Stands
<1>5. m.user \in User /\ m.role \in Role  BY <1>4 DEF MemberRow
<1>6. /\ DOMAIN memberships' = DOMAIN memberships \cup
                                 (IF m.tenant \in tenants THEN {<<m.tenant, m.user>>} ELSE {})
      /\ memberships' \in [DOMAIN memberships' -> Role]
  <2>1. CASE m.tenant \in tenants
    <3> DEFINE one == <<m.tenant, m.user>>
    <3>1. memberships' = [x \in {one} \cup DOMAIN memberships |->
                            IF x \in {one} THEN m.role ELSE memberships[x]]
      BY <1>1, <2>1 DEF Upserted, Over
    <3> QED  BY <2>1, <3>1, <1>5 DEF RowsInv, RowsTypeOK
  <2>2. CASE m.tenant \notin tenants
    BY <1>1, <2>2 DEF RowsInv, RowsTypeOK
  <2> QED  BY <2>1, <2>2
<1>7. /\ Grown /\ tenants' \subseteq Tenant /\ users' \subseteq Tenant \X User
      /\ DOMAIN memberships' \subseteq Tenant \X User
  BY <1>1, <1>4, <1>5, <1>6 DEF RowsInv, RowsTypeOK, Grown
<1>8. Stands(v)'
  BY <1>1, <1>3, <1>4, <1>6 DEF Stands, HasTenant, HasUser, HasMembership
<1> QED  BY <1>1, <1>2, <1>6, <1>7, <1>8, GoKeeps

LEMMA StatementFailsKeeps ==
  ASSUME RowsInv, NEW v \in Visitor, StatementFails(v), doorMix' \in DoorMix
  PROVE  RowsInv'
<1> DEFINE next == [newTenant |-> "user", newUser |-> "upsert", upsert |-> "limit"]
           p == [at |-> next[door[v].at], member |-> door[v].member, failed |-> TRUE]
<1>1. UNCHANGED rowVars  BY DEF StatementFails
<1>2. door[v] \in Place  BY DEF RowsInv, RowsTypeOK
<1>3. DOMAIN next = {"newTenant", "newUser", "upsert"}  OBVIOUS
<1>4. CASE door[v].at \in DOMAIN next
  <2>1. next[door[v].at] \in {"user", "upsert", "limit"}  BY <1>4
  <2>2. p \in Place  BY <1>2, <2>1 DEF Place, DoorAt
  <2>3. door' = [door EXCEPT ![v] = p]
    BY <1>4 DEF StatementFails
  <2>5. door'[v] = p  BY <2>3 DEF RowsInv, RowsTypeOK
  <2>6. door[v].member \in MemberRow /\ door[v].member.tenant \in Tenant
    BY <1>3, <1>4 DEF RowsInv, Stands
  <2>7. Stands(v)'  BY <2>1, <2>5, <2>6 DEF Stands
  <2> QED  BY <1>1, <2>2, <2>3, <2>7, RowsStill, OneMoves
<1>5. CASE door[v].at \notin DOMAIN next
  <2>1. door' = [door EXCEPT ![v] = Outside]  BY <1>5 DEF StatementFails
  <2> QED  BY <1>1, <2>1, AwayKeeps
<1> QED  BY <1>4, <1>5

LEMMA ChargeKeeps ==
  ASSUME RowsInv, NEW v \in Visitor, Charge(v), doorMix' \in DoorMix
  PROVE  RowsInv'
<1>1. UNCHANGED rowVars /\ door[v].at = "limit" /\ (Go(v, "served") \/ Away(v))
  BY DEF Charge
<1>2. CASE Go(v, "served")
  <2>1. "served" \in DoorAt  BY DEF DoorAt
  <2>2. door'[v].at = "served" /\ door'[v].member = door[v].member /\ door'[v].failed = door[v].failed
    BY <1>2, <2>1, GoMoves
  <2>3. Stands(v)'
    BY <1>1, <2>2 DEF RowsInv, Stands, HasTenant, HasUser, HasMembership, rowVars
  <2> QED  BY <1>1, <1>2, <2>1, <2>3, RowsStill, GoKeeps
<1>3. CASE Away(v)  BY <1>1, <1>3, AwayKeeps DEF Away
<1> QED  BY <1>1, <1>2, <1>3

LEMMA AnswerKeeps ==
  ASSUME RowsInv, NEW v \in Visitor, Answer(v), doorMix' \in DoorMix
  PROVE  RowsInv'
BY AwayKeeps DEF Answer, Away

(***************************************************************************)
(* What happens besides                                                    *)
(***************************************************************************)

LEMMA RestartKeeps ==
  ASSUME RowsInv, Restart, doorMix' \in DoorMix
  PROVE  RowsInv'
<1> DEFINE own == {<<k.tenant, k.user>> : k \in ApiKeys}
<1>1. /\ tenants' = tenants \cup {k.tenant : k \in ApiKeys}
      /\ users' = users \cup {<<k.tenant, k.user>> : k \in
                     {l \in ApiKeys : \A row \in users : row[2] # l.user}}
      /\ memberships' = Over(Configured, memberships)
      /\ door' = door
  BY DEF Restart, EnsurePrincipals
<1>2. tenants' \subseteq Tenant /\ users' \subseteq Tenant \X User
  BY <1>1, KeyRows, MembersAssumption DEF RowsInv, RowsTypeOK
<1>3. memberships' = [m \in own \cup DOMAIN memberships |->
                        IF m \in own THEN Configured[m] ELSE memberships[m]]
  BY <1>1 DEF Over, Configured
<1>4. own \subseteq Tenant \X User  BY KeyRows, MembersAssumption
<1>5. \A m \in own : Configured[m] \in Role  BY KeyRoles DEF Configured
<1>6. DOMAIN memberships' \subseteq Tenant \X User /\ memberships' \in [DOMAIN memberships' -> Role]
  BY <1>3, <1>4, <1>5 DEF RowsInv, RowsTypeOK
<1>7. Grown  BY <1>1, <1>3 DEF Grown
<1>8. RowsTypeOK'  BY <1>1, <1>2, <1>6 DEF RowsInv, RowsTypeOK
<1>9. KeysHaveRows'  BY <1>7, KeysKeepRows DEF RowsInv
<1>10. \A v \in Visitor : Stands(v)'  BY <1>1, <1>7, OthersStand DEF RowsInv
<1> QED  BY <1>8, <1>9, <1>10 DEF RowsInv

LEMMA NobodyMoves ==
  ASSUME RowsInv, UNCHANGED <<rowVars, door>>, doorMix' \in DoorMix
  PROVE  RowsInv'
<1>1. Grown /\ RowsTypeOK'  BY DEF Grown, RowsInv, RowsTypeOK, rowVars
<1>2. KeysHaveRows'  BY <1>1, KeysKeepRows DEF RowsInv
<1>3. \A v \in Visitor : Stands(v)'  BY <1>1, OthersStand DEF RowsInv
<1> QED  BY <1>1, <1>2, <1>3 DEF RowsInv

LEMMA ChangeRoleKeeps ==
  ASSUME RowsInv, ChangeRole, doorMix' \in DoorMix
  PROVE  RowsInv'
<1>1. PICK m \in DOMAIN memberships, role \in Role : memberships' = [memberships EXCEPT ![m] = role]
  BY DEF ChangeRole
<1>2. UNCHANGED <<tenants, users, door>>  BY DEF ChangeRole
<1>3. DOMAIN memberships' = DOMAIN memberships /\ memberships' \in [DOMAIN memberships' -> Role]
  BY <1>1 DEF RowsInv, RowsTypeOK
<1>4. Grown /\ RowsTypeOK'  BY <1>2, <1>3 DEF Grown, RowsInv, RowsTypeOK
<1>5. KeysHaveRows'  BY <1>4, KeysKeepRows DEF RowsInv
<1>6. \A v \in Visitor : Stands(v)'  BY <1>2, <1>4, OthersStand DEF RowsInv
<1> QED  BY <1>4, <1>5, <1>6 DEF RowsInv

LEMMA RowsNext == RowsInv /\ [DoorNext]_doorVars => RowsInv'
<1> SUFFICES ASSUME RowsInv, [DoorNext]_doorVars  PROVE RowsInv'  OBVIOUS
<1>1. CASE UNCHANGED doorVars
  <2>1. UNCHANGED <<rowVars, door>> /\ doorMix' \in DoorMix
    BY <1>1 DEF doorVars, RowsInv, RowsTypeOK
  <2> QED  BY <2>1, NobodyMoves
<1>2. CASE (Timely \/ Issuing) /\ UNCHANGED doorMix
  <2>1. UNCHANGED <<rowVars, door>>  BY <1>2 DEF Timely, Issuing
  <2>2. doorMix' \in DoorMix  BY <1>2 DEF RowsInv, RowsTypeOK
  <2> QED  BY <2>1, <2>2, NobodyMoves
<1>3. ASSUME NEW v \in Visitor, RequestAtDoor(v), UNCHANGED doorMix  PROVE RowsInv'
  <2>1. doorMix' \in DoorMix  BY <1>3 DEF RowsInv, RowsTypeOK
  <2> QED
    BY <1>3, <2>1, PresentKeyKeeps, PrincipalForKeeps, PresentTokenKeeps, VerdictKeeps,
       LookTenantKeeps, CreateTenantKeeps, LookUserKeeps, CreateUserKeeps,
       UpsertMembershipKeeps, ChargeKeeps, AnswerKeeps DEF RequestAtDoor
<1>4. CASE OnceAtDoor
  <2>1. doorMix' \in DoorMix
    <3>1. PICK e \in doorMix.does : doorMix' = [doorMix EXCEPT !.does = @ \ {e}]
      BY <1>4 DEF OnceAtDoor
    <3> QED  BY <3>1 DEF RowsInv, RowsTypeOK, DoorMix
  <2>2. Restart \/ ChangeRole \/ \E v \in Visitor : StatementFails(v)
    BY <1>4 DEF OnceAtDoor
  <2> QED  BY <2>1, <2>2, RestartKeeps, ChangeRoleKeeps, StatementFailsKeeps
<1> QED  BY <1>1, <1>2, <1>3, <1>4 DEF DoorNext

\* Who is let in has the rows it needs, whoever else comes at the same time
\* and whatever statements of others fail (provisionMember, ensurePrincipals).
THEOREM LetInWithRows == DoorSpec => []ProvisionedWhenServed
<1>1. RowsInv => ProvisionedWhenServed
  BY DEF RowsInv, Stands, ProvisionedWhenServed, HasTenant, HasUser, HasMembership
<1> QED  BY <1>1, RowsInit, RowsNext, PTL DEF DoorSpec

(***************************************************************************)
(* The issuer's keys                                                       *)
(***************************************************************************)

Rulings == {Nothing, "waiting", "accepted", "refused", "forbidden"}

\* A token signed with a key names that key, or none.
Honest(token) == token \in Token /\ (token.key = 0 \/ token.kid \in {token.key, Nothing})

KeysShape ==
  /\ published \in Key
  /\ jwks \in KeySet \cup {Nothing} /\ fetch \in Fetch \cup {Nothing}
  /\ shown \in [Visitor -> Token \cup {Nothing}]
  /\ ruling \in [Visitor -> Rulings]
  /\ \A v \in Visitor : ruling[v] = "waiting" => Honest(shown[v])
  /\ forced \in 0 .. Cooldown /\ hasty \in BOOLEAN
  /\ out \in 0 .. OutMax /\ calm \in 0 .. CalmMax

\* The cooldown that is left covers what is missing since the last forced fetch.
Spacing ==
  /\ jwks # Nothing => jwks.cool + forced >= Cooldown
  /\ jwks = Nothing => forced = Cooldown

\* What the issuer answered before it rotated its key has not long to go.
AnsweredInTime ==
  fetch # Nothing /\ fetch.keys # {} /\ fetch.keys # {published} =>
    out + fetch.left <= Latency /\ calm + fetch.left <= Latency

\* Neither has a key set that holds another key than the issuer's ...
Held ==
  jwks # Nothing /\ jwks.keys # {published} => out + jwks.ttl <= OutMax

\* ... nor the cooldown that keeps the gateway from asking for the new one.
Cooling ==
  jwks # Nothing /\ jwks.cool > 0 /\ published \notin jwks.keys /\ fetch = Nothing =>
    calm + jwks.cool <= Cooldown + Latency

KeysInv == KeysShape /\ Spacing /\ AnsweredInTime /\ Held /\ Cooling /\ KeysAreFollowed

LEMMA Durations ==
  /\ Ttl \in Nat /\ Cooldown \in Nat /\ Latency \in Nat /\ MaxKeys \in Nat
  /\ Latency < Cooldown /\ Cooldown <= Ttl
  /\ OutMax = Ttl + Latency /\ CalmMax = Cooldown + Latency + 1
  /\ Nothing \notin Int /\ Nothing \notin KeySet /\ Nothing \notin Fetch
BY DurationsAssumption, NothingAssumption, KeysAssumption DEF OutMax, CalmMax

LEMMA KeysAtFirst == KeysInit => KeysInv
<1> SUFFICES ASSUME KeysInit  PROVE KeysInv  OBVIOUS
<1>1. published \in Key  BY KeysAssumption DEF KeysInit, Key
<1>2. OutMax \in 0 .. OutMax /\ CalmMax \in 0 .. CalmMax /\ Cooldown \in 0 .. Cooldown
  BY Durations
<1>3. shown \in [Visitor -> Token \cup {Nothing}] /\ ruling \in [Visitor -> Rulings]
  BY DEF KeysInit, Rulings
<1>4. \A v \in Visitor : ruling[v] # "waiting"
  BY NothingAssumption DEF KeysInit
<1> QED
  BY <1>1, <1>2, <1>3, <1>4, Durations
  DEF KeysInit, KeysInv, KeysShape, Spacing, AnsweredInTime, Held, Cooling, KeysAreFollowed,
      RefetchesAreSpaced, RotationIsFollowed

LEMMA TokensAreHonest ==
  ASSUME KeysInv, NEW kind
  PROVE  Honest(IssueToken(kind))
<1>1. published \in Key /\ Older \in Key  BY KeysAssumption DEF KeysInv, KeysShape, Key, Older
<1>2. IssueToken(kind).kid \in Key \cup {0, Nothing}  BY <1>1 DEF IssueToken
<1>3. IssueToken(kind).key \in Key \cup {0}  BY <1>1 DEF IssueToken
<1>4. IssueToken(kind).fault \in {"none"} \cup EarlyFaults \cup LateFaults  BY DEF IssueToken
<1>5. IssueToken(kind) \in Token  BY <1>2, <1>3, <1>4 DEF IssueToken, Token
<1>6. IssueToken(kind).key = 0 \/ IssueToken(kind).kid \in {IssueToken(kind).key, Nothing}
  BY DEF IssueToken
<1> QED  BY <1>5, <1>6 DEF Honest

LEMMA FoundAreHeld ==
  ASSUME NEW keys, NEW kid
  PROVE  /\ SelectKey(keys, kid) \subseteq keys
         /\ kid # Nothing /\ kid \in keys => kid \in SelectKey(keys, kid)
BY DEF SelectKey

\* Keys among which an honest token is wrongly judged: not the issuer's alone.
LEMMA JudgedWrong ==
  ASSUME NEW token, Honest(token), published \in Key, NEW keys,
         NEW w \in Wrong(token, Judge(token, SelectKey(keys, token.kid)))
  PROVE  \/ published \notin keys /\ calm >= CalmMax
         \/ keys # {published} /\ keys # {} /\ out >= OutMax
<1> DEFINE found == SelectKey(keys, token.kid)
<1>1. CASE Judge(token, found) = "refused" /\ token.fault = "none" /\ token.key = published
           /\ token.kid # Nothing /\ calm >= CalmMax
  <2>1. token.kid = published  BY <1>1, KeysAssumption DEF Honest, Key
  <2>2. token.key \notin found  BY <1>1 DEF Judge
  <2> QED  BY <1>1, <2>1, <2>2, FoundAreHeld
<1>2. CASE Judge(token, found) = "accepted" /\ token.key # published /\ out >= OutMax
  <2>1. token.key \in found  BY <1>2 DEF Judge
  <2> QED  BY <1>2, <2>1, FoundAreHeld
<1> QED  BY <1>1, <1>2 DEF Wrong

LEMMA VerifyAtOnceKeeps ==
  ASSUME KeysInv, NEW v \in Visitor, NEW token, Honest(token), VerifyAtOnce(v, token)
  PROVE  KeysInv'
<1>1. UNCHANGED <<published, jwks, fetch, shown, forced, hasty, out, calm>>
  BY DEF VerifyAtOnce, Ruled
<1>2. PICK verdict \in {"accepted", "refused", "forbidden"} :
        Ruled(v, token, verdict)
  BY DEF VerifyAtOnce, Judge
<1>3. KeysShape'
  <2>1. ruling' = [ruling EXCEPT ![v] = verdict]  BY <1>2 DEF Ruled
  <2>2. ruling' \in [Visitor -> Rulings]  BY <2>1 DEF KeysInv, KeysShape, Rulings
  <2>3. \A x \in Visitor : ruling'[x] = "waiting" => Honest(shown'[x])
    BY <2>1, <1>1 DEF KeysInv, KeysShape
  <2> QED  BY <1>1, <2>2, <2>3 DEF KeysInv, KeysShape, Honest
<1>4. wronged' = {}
  <2>1. published \in Key  BY DEF KeysInv, KeysShape
  <2>2. CASE token.fault \in EarlyFaults /\ Ruled(v, token, "refused")
    BY <2>2 DEF KeysInv, KeysAreFollowed, RotationIsFollowed, Ruled, Wrong, EarlyFaults
  <2>3. CASE Selected(token) # {} /\ Ruled(v, token, Judge(token, Selected(token)))
    <3>1. Cached /\ Selected(token) = SelectKey(jwks.keys, token.kid)  BY <2>3 DEF Selected
    <3>2. jwks # Nothing /\ jwks \in KeySet /\ jwks.ttl > 0
      BY <3>1 DEF Cached, KeysInv, KeysShape
    <3>3. jwks.keys # {published} => out + jwks.ttl <= OutMax
      BY <3>2 DEF KeysInv, Held
    <3>4. ~(jwks.keys # {published} /\ out >= OutMax)
      BY <3>2, <3>3, Durations DEF KeysInv, KeysShape, KeySet
    <3>5. Wrong(token, Judge(token, Selected(token))) = {}
      <4> SUFFICES ASSUME NEW w \in Wrong(token, Judge(token, Selected(token)))  PROVE FALSE
        OBVIOUS
      <4>1. published \notin jwks.keys /\ calm >= CalmMax
        BY <2>1, <3>1, <3>4, JudgedWrong
      <4>2. Judge(token, Selected(token)) = "refused" /\ token.fault = "none"
            /\ token.key = published /\ token.kid # Nothing
        BY <3>4, <4>1, <3>1, FoundAreHeld DEF Wrong, Judge
      <4>3. token.kid = published  BY <2>1, <4>2, KeysAssumption DEF Honest, Key
      <4> QED  BY <2>3, <3>1, <4>1, <4>2, <4>3 DEF SelectKey
    <3> QED  BY <2>3, <3>5 DEF KeysInv, KeysAreFollowed, RotationIsFollowed, Ruled
  <2>4. CASE Cached /\ Selected(token) = {} /\ jwks.cool > 0 /\ Ruled(v, token, "refused")
    <3>1. CASE Excused(token)
      BY <2>4, <3>1 DEF KeysInv, KeysAreFollowed, RotationIsFollowed, Ruled
    <3>2. CASE ~Excused(token)
      <4>1. fetch = Nothing /\ SelectKey(jwks.keys, token.kid) = {}
        BY <2>4, <3>2 DEF Excused, Selected
      <4>2. Wrong(token, "refused") = {}
        <5> SUFFICES ASSUME NEW w \in Wrong(token, "refused")  PROVE FALSE
          OBVIOUS
        <5>1. token.key = published /\ token.kid # Nothing /\ calm >= CalmMax  BY DEF Wrong
        <5>2. token.kid = published  BY <2>1, <5>1, KeysAssumption DEF Honest, Key
        <5>3. published \notin jwks.keys  BY <4>1, <5>1, <5>2, FoundAreHeld
        <5>4. jwks \in KeySet /\ jwks # Nothing  BY <2>4 DEF Cached, KeysInv, KeysShape
        <5>5. calm + jwks.cool <= Cooldown + Latency
          BY <2>4, <4>1, <5>3, <5>4 DEF KeysInv, Cooling
        <5> QED  BY <2>4, <5>1, <5>4, <5>5, Durations DEF KeysInv, KeysShape, KeySet
      <4> QED  BY <2>4, <4>2 DEF KeysInv, KeysAreFollowed, RotationIsFollowed, Ruled
    <3> QED  BY <3>1, <3>2
  <2> QED  BY <2>2, <2>3, <2>4 DEF VerifyAtOnce
<1> QED
  BY <1>1, <1>3, <1>4
  DEF KeysInv, Spacing, AnsweredInTime, Held, Cooling, KeysAreFollowed, RefetchesAreSpaced,
      RotationIsFollowed

LEMMA VerifyByFetchKeeps ==
  ASSUME KeysInv, NEW v \in Visitor, NEW token, Honest(token), VerifyByFetch(v, token)
  PROVE  KeysInv'
<1>1. /\ jwks' = IF Cached THEN [jwks EXCEPT !.cool = Cooldown] ELSE jwks
      /\ fetch' = JoinOrFetch
      /\ shown' = [shown EXCEPT ![v] = token]
      /\ ruling' = [ruling EXCEPT ![v] = "waiting"]
      /\ UNCHANGED <<published, out, calm, wronged>>
      /\ Cached => jwks.cool = 0
  BY DEF VerifyByFetch
<1>2. fetch' \in Fetch /\ fetch' # Nothing
      /\ (fetch'.keys # {} => fetch' = fetch /\ fetch # Nothing)
  BY <1>1, Durations DEF JoinOrFetch, Fetch, KeysInv, KeysShape
<1>3. Cached => jwks \in KeySet /\ jwks # Nothing  BY DEF Cached, KeysInv, KeysShape
<1>4. jwks' \in KeySet \cup {Nothing}
      /\ (jwks' = Nothing <=> jwks = Nothing)
      /\ (jwks # Nothing => jwks'.keys = jwks.keys /\ jwks'.ttl = jwks.ttl)
  BY <1>1, <1>3, Durations DEF KeySet, KeysInv, KeysShape
<1>5. forced' \in 0 .. Cooldown
  BY Durations DEF VerifyByFetch, KeysInv, KeysShape
<1>6. KeysShape'
  <2>1. token \in Token  BY DEF Honest
  <2>2. /\ shown' \in [Visitor -> Token \cup {Nothing}] /\ ruling' \in [Visitor -> Rulings]
    BY <1>1, <2>1 DEF KeysInv, KeysShape, Rulings
  <2>3. \A x \in Visitor : ruling'[x] = "waiting" => Honest(shown'[x])
    BY <1>1 DEF KeysInv, KeysShape
  <2>4. hasty' \in BOOLEAN  BY DEF VerifyByFetch, KeysInv, KeysShape
  <2> QED  BY <1>1, <1>2, <1>4, <1>5, <2>2, <2>3, <2>4 DEF KeysInv, KeysShape, Honest
<1>7. Spacing' /\ hasty' = FALSE
  <2>1. CASE Cached /\ fetch = Nothing
    <3>1. forced' = 0 /\ hasty' = (hasty \/ forced < Cooldown) /\ jwks' = [jwks EXCEPT !.cool = Cooldown]
      BY <1>1, <2>1 DEF VerifyByFetch
    <3>2. jwks'.cool = Cooldown  BY <1>3, <2>1, <3>1 DEF KeySet
    <3>3. jwks.cool + forced >= Cooldown  BY <1>3, <2>1 DEF KeysInv, Spacing
    <3>4. ~(forced < Cooldown)
      BY <1>1, <1>3, <2>1, <3>3, Durations DEF KeysInv, KeysShape
    <3>5. hasty = FALSE  BY DEF KeysInv, KeysShape, KeysAreFollowed, RefetchesAreSpaced
    <3>6. hasty' = FALSE  BY <3>1, <3>4, <3>5
    <3>7. jwks'.cool + forced' >= Cooldown  BY <3>1, <3>2, Durations
    <3> QED  BY <1>3, <1>4, <2>1, <3>6, <3>7 DEF Spacing
  <2>2. CASE Cached /\ fetch # Nothing
    <3>1. UNCHANGED <<forced, hasty>> /\ jwks' = [jwks EXCEPT !.cool = Cooldown]
      BY <1>1, <2>2 DEF VerifyByFetch
    <3>2. jwks'.cool = Cooldown  BY <1>3, <2>2, <3>1 DEF KeySet
    <3> QED
      BY <1>3, <1>4, <2>2, <3>1, <3>2, Durations
      DEF Spacing, KeysInv, KeysShape, KeysAreFollowed, RefetchesAreSpaced
  <2>3. CASE ~Cached
    BY <1>1, <2>3 DEF VerifyByFetch, Spacing, KeysInv, KeysAreFollowed, RefetchesAreSpaced
  <2> QED  BY <2>1, <2>2, <2>3
<1>8. AnsweredInTime'  BY <1>1, <1>2 DEF KeysInv, AnsweredInTime
<1>9. Held'  BY <1>1, <1>4 DEF KeysInv, Held, OutMax
<1>10. Cooling'  BY <1>2 DEF Cooling
<1> QED
  BY <1>1, <1>6, <1>7, <1>8, <1>9, <1>10
  DEF KeysInv, KeysAreFollowed, RefetchesAreSpaced, RotationIsFollowed

LEMMA ServeJwksKeeps ==
  ASSUME KeysInv, ServeJwks
  PROVE  KeysInv'
<1>1. /\ fetch # Nothing /\ fetch \in Fetch /\ published \in Key
      /\ fetch' = [fetch EXCEPT !.keys = {published}]
      /\ UNCHANGED <<published, jwks, shown, ruling, forced, hasty, out, calm, wronged>>
  BY DEF ServeJwks, KeysInv, KeysShape
<1>2. fetch' \in Fetch /\ fetch' # Nothing /\ fetch'.keys = {published}
  BY <1>1, Durations DEF Fetch
<1>3. KeysShape'  BY <1>1, <1>2 DEF KeysInv, KeysShape, Honest
<1>4. AnsweredInTime'  BY <1>1, <1>2 DEF AnsweredInTime
<1>5. Cooling'  BY <1>2 DEF Cooling
<1> QED
  BY <1>1, <1>3, <1>4, <1>5
  DEF KeysInv, Spacing, Held, OutMax, KeysAreFollowed, RefetchesAreSpaced, RotationIsFollowed

\* Those who waited for a fetch have a ruling, and no token is shown any more.
LEMMA NobodyWaits ==
  ASSUME KeysInv, NEW verdict \in [Visitor -> Rulings \ {"waiting"}],
         ruling' = [v \in Visitor |-> IF ruling[v] = "waiting" THEN verdict[v] ELSE ruling[v]]
  PROVE  ruling' \in [Visitor -> Rulings] /\ \A v \in Visitor : ruling'[v] # "waiting"
BY DEF KeysInv, KeysShape

LEMMA LoadJwksKeeps ==
  ASSUME KeysInv, LoadJwks
  PROVE  KeysInv'
<1> DEFINE waiting == {v \in Visitor : ruling[v] = "waiting"}
           judged(v) == Judge(shown[v], SelectKey(fetch.keys, shown[v].kid))
           verdict == [v \in Visitor |-> judged(v)]
<1>1. /\ fetch # Nothing /\ fetch \in Fetch /\ fetch.keys # {} /\ published \in Key
      /\ jwks' = [keys |-> fetch.keys, ttl |-> Ttl, cool |-> CoolAfterLoad]
      /\ shown' = [v \in Visitor |-> Nothing]
      /\ fetch' = Nothing
      /\ wronged' = wronged \cup UNION {Wrong(shown[v], judged(v)) : v \in waiting}
      /\ UNCHANGED <<published, forced, hasty, out, calm>>
  BY DEF LoadJwks, Resume, KeysInv, KeysShape
<1>2. ruling' = [v \in Visitor |-> IF v \in waiting THEN judged(v) ELSE ruling[v]]
  BY DEF LoadJwks, Resume
<1>3. CoolAfterLoad \in 0 .. Cooldown
      /\ CoolAfterLoad + forced >= Cooldown
  BY Durations DEF CoolAfterLoad, KeysInv, KeysShape, Spacing, KeySet
<1>4. jwks' \in KeySet /\ jwks' # Nothing
  BY <1>1, <1>3, Durations DEF KeySet, Fetch
<1>5. KeysShape'
  <2>1. verdict \in [Visitor -> Rulings \ {"waiting"}]
    BY NothingAssumption DEF Judge, Rulings
  <2>2. ruling' = [v \in Visitor |-> IF ruling[v] = "waiting" THEN verdict[v] ELSE ruling[v]]
    BY <1>2
  <2>3. ruling' \in [Visitor -> Rulings] /\ \A v \in Visitor : ruling'[v] # "waiting"
    BY <2>1, <2>2, NobodyWaits
  <2> QED  BY <1>1, <1>4, <2>3 DEF KeysInv, KeysShape
<1>6. Spacing'  BY <1>1, <1>3, <1>4 DEF Spacing
<1>7. AnsweredInTime'  BY <1>1 DEF AnsweredInTime
<1>8. fetch.keys # {published} => out + fetch.left <= Latency /\ calm + fetch.left <= Latency
  BY <1>1 DEF KeysInv, AnsweredInTime
<1>9. fetch.left \in Nat  BY <1>1, Durations DEF Fetch
<1>10. out \in Nat /\ calm \in Nat  BY DEF KeysInv, KeysShape
<1>11. fetch.keys # {published} => out <= Latency /\ calm <= Latency
  BY <1>8, <1>9, <1>10, Durations
<1>12. Held'  BY <1>1, <1>10, <1>11, Durations DEF Held
<1>13. Cooling'
  <2>1. published \notin fetch.keys => fetch.keys # {published}  OBVIOUS
  <2> QED  BY <1>1, <1>3, <1>10, <1>11, <2>1, Durations DEF Cooling
<1>14. wronged' = {}
  <2>1. ASSUME NEW v \in waiting  PROVE Wrong(shown[v], judged(v)) = {}
    <3> SUFFICES ASSUME NEW w \in Wrong(shown[v], judged(v))  PROVE FALSE
      OBVIOUS
    <3>1. Honest(shown[v])  BY DEF KeysInv, KeysShape
    <3>2. \/ published \notin fetch.keys /\ calm >= CalmMax
          \/ fetch.keys # {published} /\ fetch.keys # {} /\ out >= OutMax
      BY <1>1, <3>1, JudgedWrong
    <3> QED  BY <1>10, <1>11, <3>2, Durations
  <2> QED  BY <1>1, <2>1 DEF KeysInv, KeysAreFollowed, RotationIsFollowed
<1> QED
  BY <1>1, <1>5, <1>6, <1>7, <1>12, <1>13, <1>14
  DEF KeysInv, KeysAreFollowed, RefetchesAreSpaced, RotationIsFollowed

LEMMA LoadFailsKeeps ==
  ASSUME KeysInv, LoadFails
  PROVE  KeysInv'
<1>1. /\ shown' = [v \in Visitor |-> Nothing] /\ fetch' = Nothing /\ calm' = 0
      /\ UNCHANGED <<published, jwks, forced, hasty, out, wronged>>
  BY DEF LoadFails, Resume
<1> DEFINE verdict == [v \in Visitor |-> "refused"]
<1>2. ruling' = [v \in Visitor |-> IF ruling[v] = "waiting" THEN verdict[v] ELSE ruling[v]]
  BY DEF LoadFails, Resume
<1>3. verdict \in [Visitor -> Rulings \ {"waiting"}]  BY DEF Rulings
<1>4. ruling' \in [Visitor -> Rulings] /\ \A v \in Visitor : ruling'[v] # "waiting"
  BY <1>2, <1>3, NobodyWaits
<1>5. calm' \in 0 .. CalmMax  BY <1>1, Durations
<1>6. KeysShape'  BY <1>1, <1>4, <1>5 DEF KeysInv, KeysShape
<1>7. Cooling'  BY <1>1, Durations DEF Cooling, KeysInv, KeysShape, KeySet
<1>8. AnsweredInTime'  BY <1>1 DEF AnsweredInTime
<1> QED
  BY <1>1, <1>6, <1>7, <1>8
  DEF KeysInv, Spacing, Held, OutMax, KeysAreFollowed, RefetchesAreSpaced, RotationIsFollowed

LEMMA RotateKeyKeeps ==
  ASSUME KeysInv, RotateKey
  PROVE  KeysInv'
<1>1. /\ published' = published + 1 /\ published < MaxKeys /\ out' = 0 /\ calm' = 0
      /\ UNCHANGED <<jwks, fetch, shown, ruling, forced, hasty, wronged>>
  BY DEF RotateKey
<1>2. published' \in Key  BY <1>1, Durations DEF KeysInv, KeysShape, Key
<1>3. KeysShape'  BY <1>1, <1>2, Durations DEF KeysInv, KeysShape, Honest
<1>4. AnsweredInTime' /\ Held' /\ Cooling'
  BY <1>1, Durations DEF AnsweredInTime, Held, Cooling, KeysInv, KeysShape, KeySet, Fetch, OutMax
<1> QED
  BY <1>1, <1>3, <1>4
  DEF KeysInv, Spacing, KeysAreFollowed, RefetchesAreSpaced, RotationIsFollowed

LEMMA KeysAgeKeeps ==
  ASSUME KeysInv, KeysAge
  PROVE  KeysInv'
<1>1. /\ forced' = Capped(forced + 1, Cooldown)
      /\ out' = Capped(out + 1, OutMax) /\ calm' = Capped(calm + 1, CalmMax)
      /\ UNCHANGED <<published, shown, ruling, hasty, wronged>>
  BY DEF KeysAge
<1>2. forced \in Nat /\ forced <= Cooldown /\ out \in Nat /\ out <= OutMax
      /\ calm \in Nat /\ calm <= CalmMax
  BY Durations DEF KeysInv, KeysShape
<1>3. /\ forced' \in 0 .. Cooldown /\ out' \in 0 .. OutMax /\ calm' \in 0 .. CalmMax
      /\ out' <= out + 1 /\ calm' <= calm + 1
      /\ (forced' = forced + 1 \/ forced' = Cooldown)
  BY <1>1, <1>2, Durations DEF Capped
<1>4. fetch = Nothing => fetch' = Nothing  BY DEF KeysAge
<1>5. fetch # Nothing => fetch' \in Fetch /\ fetch' # Nothing
                         /\ fetch'.keys = fetch.keys /\ fetch'.left = fetch.left - 1
  BY Durations DEF KeysAge, KeysInv, KeysShape, Fetch
<1>6. jwks = Nothing => jwks' = Nothing  BY DEF KeysAge
<1>7. jwks # Nothing =>
        /\ jwks' \in KeySet /\ jwks' # Nothing /\ jwks'.keys = jwks.keys
        /\ jwks'.ttl = IF jwks.ttl > 0 THEN jwks.ttl - 1 ELSE 0
        /\ jwks'.cool = IF jwks.cool > 0 THEN jwks.cool - 1 ELSE 0
  <2> SUFFICES ASSUME jwks # Nothing
               PROVE  /\ jwks' \in KeySet /\ jwks' # Nothing /\ jwks'.keys = jwks.keys
                      /\ jwks'.ttl = IF jwks.ttl > 0 THEN jwks.ttl - 1 ELSE 0
                      /\ jwks'.cool = IF jwks.cool > 0 THEN jwks.cool - 1 ELSE 0
    OBVIOUS
  <2>1. jwks \in KeySet  BY DEF KeysInv, KeysShape
  <2>2. jwks' = [jwks EXCEPT !.ttl = IF @ > 0 THEN @ - 1 ELSE 0,
                             !.cool = IF @ > 0 THEN @ - 1 ELSE 0]
    BY DEF KeysAge
  <2>3. /\ jwks'.keys = jwks.keys
        /\ jwks'.ttl = IF jwks.ttl > 0 THEN jwks.ttl - 1 ELSE 0
        /\ jwks'.cool = IF jwks.cool > 0 THEN jwks.cool - 1 ELSE 0
    BY <2>1, <2>2 DEF KeySet
  <2>4. jwks'.ttl \in 0 .. Ttl /\ jwks'.cool \in 0 .. Cooldown /\ jwks'.keys \in SUBSET Key
    BY <2>1, <2>3, Durations DEF KeySet
  <2>5. jwks' = [keys |-> jwks'.keys, ttl |-> jwks'.ttl, cool |-> jwks'.cool]
    BY <2>1, <2>2 DEF KeySet
  <2>6. jwks' \in KeySet  BY <2>4, <2>5 DEF KeySet
  <2> QED  BY <2>3, <2>6, Durations
<1>8. jwks \in KeySet \cup {Nothing} /\ fetch \in Fetch \cup {Nothing}
  BY DEF KeysInv, KeysShape
<1>9. KeysShape'  BY <1>1, <1>3, <1>4, <1>5, <1>6, <1>7, <1>8 DEF KeysInv, KeysShape, Honest
<1>10. Spacing'
  <2>1. CASE jwks = Nothing
    BY <1>3, <1>6, <2>1, Durations DEF KeysInv, Spacing
  <2>2. CASE jwks # Nothing
    <3>1. jwks.cool + forced >= Cooldown /\ jwks.cool \in 0 .. Cooldown
      BY <1>8, <2>2 DEF KeysInv, Spacing, KeySet
    <3>2. jwks'.cool + forced' >= Cooldown
      BY <1>2, <1>3, <1>7, <2>2, <3>1, Durations
    <3> QED  BY <1>7, <2>2, <3>2 DEF Spacing
  <2> QED  BY <2>1, <2>2
<1>11. AnsweredInTime'
  <2> SUFFICES ASSUME fetch' # Nothing, fetch'.keys # {}, fetch'.keys # {published'}
               PROVE  out' + fetch'.left <= Latency /\ calm' + fetch'.left <= Latency
    BY DEF AnsweredInTime
  <2>1. fetch # Nothing /\ fetch \in Fetch /\ fetch'.left = fetch.left - 1
        /\ fetch.keys # {} /\ fetch.keys # {published}
    BY <1>1, <1>4, <1>5, <1>8
  <2>2. out + fetch.left <= Latency /\ calm + fetch.left <= Latency
    BY <2>1 DEF KeysInv, AnsweredInTime
  <2> QED  BY <1>2, <1>3, <2>1, <2>2, Durations DEF Fetch
<1>12. Held'
  <2> SUFFICES ASSUME jwks' # Nothing, jwks'.keys # {published'}
               PROVE  out' + jwks'.ttl <= OutMax
    BY DEF Held, OutMax
  <2>1. jwks # Nothing /\ jwks \in KeySet /\ jwks.keys # {published}
    BY <1>1, <1>6, <1>7, <1>8
  <2>2. out + jwks.ttl <= OutMax  BY <2>1 DEF KeysInv, Held
  <2> QED  BY <1>2, <1>3, <1>7, <2>1, <2>2, Durations DEF KeySet
<1>13. Cooling'
  <2> SUFFICES ASSUME jwks' # Nothing, jwks'.cool > 0, published' \notin jwks'.keys, fetch' = Nothing
               PROVE  calm' + jwks'.cool <= Cooldown + Latency
    BY DEF Cooling
  <2>1. jwks # Nothing /\ jwks \in KeySet /\ published \notin jwks.keys
    BY <1>1, <1>6, <1>7, <1>8
  <2>2. fetch = Nothing  BY <1>5
  <2>3. jwks.cool > 0 /\ jwks'.cool = jwks.cool - 1  BY <1>7, <2>1, Durations DEF KeySet
  <2>4. calm + jwks.cool <= Cooldown + Latency
    BY <2>1, <2>2, <2>3 DEF KeysInv, Cooling
  <2> QED  BY <1>2, <1>3, <2>1, <2>3, <2>4, Durations DEF KeySet
<1> QED
  BY <1>1, <1>9, <1>10, <1>11, <1>12, <1>13
  DEF KeysInv, KeysAreFollowed, RefetchesAreSpaced, RotationIsFollowed

LEMMA VerdictKeepsKeys ==
  ASSUME KeysInv, NEW v \in Visitor, Verdict(v)
  PROVE  KeysInv'
<1>1. ruling' = [ruling EXCEPT ![v] = Nothing]
      /\ UNCHANGED <<published, jwks, fetch, shown, forced, hasty, out, calm, wronged>>
  BY DEF Verdict
<1>2. ruling' \in [Visitor -> Rulings] /\ \A x \in Visitor : ruling'[x] = "waiting" => ruling[x] = "waiting"
  BY <1>1, NothingAssumption DEF KeysInv, KeysShape, Rulings
<1>3. KeysShape'  BY <1>1, <1>2 DEF KeysInv, KeysShape, Honest
<1> QED
  BY <1>1, <1>3 DEF KeysInv, Spacing, AnsweredInTime, Held, Cooling, OutMax, KeysAreFollowed,
                    RefetchesAreSpaced, RotationIsFollowed

LEMMA RestartKeepsKeys ==
  ASSUME KeysInv, Restart
  PROVE  KeysInv'
<1>1. /\ jwks' = Nothing /\ fetch' = Nothing /\ forced' = Cooldown
      /\ UNCHANGED <<published, shown, ruling, hasty, out, calm, wronged>>
  BY DEF Restart
<1>2. KeysShape'  BY <1>1, Durations DEF KeysInv, KeysShape, Honest
<1> QED
  BY <1>1, <1>2 DEF KeysInv, Spacing, AnsweredInTime, Held, Cooling, OutMax, KeysAreFollowed,
                    RefetchesAreSpaced, RotationIsFollowed

LEMMA KeysRest == KeysInv /\ UNCHANGED keyVars => KeysInv'
BY DEF keyVars, KeysInv, KeysShape, Honest, Spacing, AnsweredInTime, Held, Cooling, OutMax,
       KeysAreFollowed, RefetchesAreSpaced, RotationIsFollowed

LEMMA KeysNext == KeysInv /\ [DoorNext]_doorVars => KeysInv'
<1> SUFFICES ASSUME KeysInv, [DoorNext]_doorVars  PROVE KeysInv'  OBVIOUS
<1>1. CASE UNCHANGED doorVars  BY <1>1, KeysRest DEF doorVars
<1>2. CASE Timely
  BY <1>2, KeysRest, KeysAgeKeeps DEF Timely
<1>3. CASE Issuing
  BY <1>3, ServeJwksKeeps, LoadJwksKeeps, LoadFailsKeeps, RotateKeyKeeps DEF Issuing
<1>4. ASSUME NEW v \in Visitor, RequestAtDoor(v)  PROVE KeysInv'
  <2>1. CASE PresentToken(v)
    <3>1. PICK kind : Verify(v, IssueToken(kind))  BY <2>1 DEF PresentToken
    <3> QED  BY <3>1, TokensAreHonest, VerifyAtOnceKeeps, VerifyByFetchKeeps DEF Verify
  <2>2. CASE Verdict(v)  BY <2>2, VerdictKeepsKeys
  <2>3. CASE ~PresentToken(v) /\ ~Verdict(v)
    <3>1. UNCHANGED keyVars
      BY <1>4, <2>3
      DEF RequestAtDoor, PresentKey, PrincipalFor, LookTenant, CreateTenant, LookUser,
          CreateUser, UpsertMembership, Charge, Answer, Rests
    <3> QED  BY <3>1, KeysRest
  <2> QED  BY <2>1, <2>2, <2>3
<1>5. CASE OnceAtDoor
  BY <1>5, RestartKeepsKeys, KeysRest DEF OnceAtDoor, ChangeRole, StatementFails, Rests
<1> QED  BY <1>1, <1>2, <1>3, <1>4, <1>5 DEF DoorNext

\* Unknown key ids cost the issuer one fetch per cooldown, and yet its new key
\* is refused no longer than a cooldown and a fetch, and a retired one accepted
\* no longer than a key set is kept, whatever the durations are
\* (ResourceServerAuthenticator.signingKey, fetchJwks).
THEOREM KeysFollowed == DoorSpec => []KeysAreFollowed
<1>1. DoorInit => KeysInv  BY KeysAtFirst DEF DoorInit
<1>2. KeysInv => KeysAreFollowed  BY DEF KeysInv
<1> QED  BY <1>1, <1>2, KeysNext, PTL DEF DoorSpec


(***************************************************************************)
(* The budget of a tenant                                                  *)
(***************************************************************************)

LEMMA RuleFacts ==
  /\ Inflow \in Nat /\ Inflow >= 1 /\ Whole \in Nat /\ Whole >= 1
  /\ Capacity \in Nat /\ Whole <= Capacity
  /\ Second \in Nat /\ Second >= 1 /\ Inflow * Second \in Nat /\ Inflow * Second >= 1
  /\ Error \in Nat /\ 2 * Error <= Inflow
  /\ Enough \in Nat /\ Enough = Capacity + Error + 1
  /\ Unknown \notin BucketState /\ Unknown \notin Int
<1>1. \A b, i \in Nat : b >= 1 /\ i >= 1 => b * i \in Nat /\ i <= b * i /\ b * i >= 1  OBVIOUS
<1>2. /\ Limit \in Nat /\ Limit >= 1 /\ Interval \in Nat /\ Interval >= 1
      /\ Burst \in Nat /\ Burst >= 1 /\ Second \in Nat /\ Second >= 1
      /\ Grain \in Nat /\ Grain >= 1 /\ Error \in Nat /\ 2 * Error <= Inflow
  BY RuleAssumption
<1>3. Inflow \in Nat /\ Inflow >= 1 /\ Whole \in Nat /\ Whole >= 1
  BY <1>1, <1>2 DEF Inflow, Whole
<1>4. Capacity \in Nat /\ Whole <= Capacity  BY <1>1, <1>2, <1>3 DEF Capacity
<1>5. Inflow * Second \in Nat /\ Inflow * Second >= 1  BY <1>1, <1>2, <1>3
<1> QED  BY <1>2, <1>3, <1>4, <1>5, UnknownAssumption DEF Enough

\* A quotient that is rounded up is enough.
LEMMA RoundedUp ==
  ASSUME NEW x \in Int, NEW d \in Nat, d >= 1
  PROVE  /\ ((x + d - 1) \div d) \in Int
         /\ ((x + d - 1) \div d) * d >= x
         /\ (((x + d - 1) \div d) - 1) * d < x
<1> DEFINE n == x + d - 1
           q == n \div d
           r == n % d
<1>1. n \in Int  OBVIOUS
<1>2. q \in Int /\ r \in 0 .. d - 1 /\ n = d * q + r  OBVIOUS
<1>3. d * q = q * d /\ (q - 1) * d = q * d - d  BY <1>2
<1>4. q * d \in Int  BY <1>2
<1> QED  BY <1>2, <1>3, <1>4

\* What a tenant is told to wait is enough but for the rounding, however limit,
\* interval and seconds divide, and no whole second more than would be enough
\* with the rounding against it (RateLimiter.check, retryAfterSeconds).
THEOREM WaitIsExact ==
  ASSUME NEW tokens \in Nat, tokens < Whole, NEW e \in Rounding
  PROVE  /\ RetryAfter(tokens, e) \in Nat \ {0}
         /\ tokens + (RetryAfter(tokens, e) * Second) * Inflow >= Whole - Error
         /\ \A w \in Nat \ {0} :
              tokens + (w * Second) * Inflow >= Whole + Error => RetryAfter(tokens, e) <= w
<1> DEFINE x == Whole - tokens + e
           d == Inflow * Second
           q == Wait(tokens, e)
           a == RetryAfter(tokens, e)
<1>1. /\ x \in Int /\ d \in Nat /\ d >= 1 /\ e \in Int
      /\ x >= Whole - tokens - Error /\ x <= Whole - tokens + Error
  BY RuleFacts DEF Rounding
<1>2. q = (x + d - 1) \div d  BY DEF Wait
<1>3. q \in Int /\ q * d >= x /\ (q - 1) * d < x
  <2> HIDE DEF x, d, q
  <2> QED  BY <1>1, <1>2, RoundedUp
<1>4. a = IF q < 1 THEN 1 ELSE q  BY DEF RetryAfter
<1>5. \A w \in Int : (w * Second) * Inflow = w * d  BY RuleFacts
<1> HIDE DEF x, d, q, a
<1>6. a \in Nat \ {0} /\ a >= q  BY <1>3, <1>4
<1>7. \A m, n \in Int, f \in Nat : m <= n => m * f <= n * f  OBVIOUS
<1>8. a * d >= q * d /\ a * d \in Int /\ q * d \in Int  BY <1>1, <1>3, <1>6, <1>7
<1>9. tokens + (a * Second) * Inflow >= Whole - Error
  BY <1>1, <1>3, <1>5, <1>6, <1>8, RuleFacts
<1>10. ASSUME NEW w \in Nat \ {0}, tokens + (w * Second) * Inflow >= Whole + Error  PROVE a <= w
  <2>1. ASSUME w <= q - 1  PROVE FALSE
    <3>1. w * d <= (q - 1) * d /\ w * d \in Int /\ (q - 1) * d \in Int  BY <1>1, <1>3, <1>7, <2>1
    <3>2. tokens + w * d >= Whole + Error  BY <1>5, <1>10
    <3> QED  BY <1>1, <1>3, <3>1, <3>2, RuleFacts
  <2> QED  BY <1>3, <1>4, <2>1
<1> QED  BY <1>6, <1>9, <1>10 DEF a

BudgetInv ==
  /\ LimiterTypeOK
  /\ \A t \in Tenant : owed[t] + Tokens(t, 0) <= Capacity
  /\ \A t \in Tenant : buckets[t] # Unknown /\ promised[t] # Unknown =>
       Filled(t, 0) + promised[t] * Inflow >= Whole - Error
  /\ 1 \notin misled

\* What is computed of a bucket is what it holds, but for the rounding.
LEMMA BucketTyped ==
  ASSUME LimiterTypeOK, NEW t \in Tenant
  PROVE  /\ Bucket(t) \in BucketState
         /\ Bucket(t).tokens \in 0 .. Capacity /\ Bucket(t).idle \in 0 .. Enough
         /\ Bucket(t).idle * Inflow \in Nat
         /\ Filled(t, 0) = Bucket(t).tokens + Bucket(t).idle * Inflow /\ Filled(t, 0) \in Nat
         /\ Tokens(t, 0) \in 0 .. Capacity
<1>1. Bucket(t) \in BucketState
  BY RuleFacts DEF LimiterTypeOK, Bucket, BucketState, Fresh
<1>2. Bucket(t).tokens \in 0 .. Capacity /\ Bucket(t).idle \in 0 .. Enough
  BY <1>1 DEF BucketState
<1>3. Bucket(t).idle * Inflow \in Nat  BY <1>2, RuleFacts
<1> QED  BY <1>1, <1>2, <1>3, RuleFacts DEF Tokens, Filled, Lesser

LEMMA Computed ==
  ASSUME LimiterTypeOK, NEW t \in Tenant, NEW e \in Rounding
  PROVE  /\ Filled(t, e) \in Nat
         /\ Filled(t, 0) - Error <= Filled(t, e) /\ Filled(t, e) <= Filled(t, 0) + Error
         /\ Tokens(t, e) \in 0 .. Capacity
         /\ Tokens(t, 0) - Error <= Tokens(t, e) /\ Tokens(t, e) <= Tokens(t, 0) + Error
         /\ Bucket(t).idle = 0 => Tokens(t, e) = Tokens(t, 0)
<1> DEFINE i == Bucket(t).idle
           k == Bucket(t).tokens
           m == i * Inflow
<1>1. k \in 0 .. Capacity /\ i \in 0 .. Enough /\ m \in Nat  BY BucketTyped
<1>2. Filled(t, e) = k + m + (IF i = 0 THEN 0 ELSE e) /\ Filled(t, 0) = k + m
  BY <1>1, RuleFacts DEF Filled
<1>3. i # 0 => m >= Inflow
  <2>1. \A a, f \in Nat : a >= 1 => a * f >= f  OBVIOUS
  <2> QED  BY <1>1, <2>1, RuleFacts
<1> HIDE DEF i, k, m
<1>4. e \in Int /\ -Error <= e /\ e <= Error  BY RuleFacts DEF Rounding
<1>5. Filled(t, e) \in Nat  BY <1>1, <1>2, <1>3, <1>4, RuleFacts
<1> QED  BY <1>1, <1>2, <1>4, <1>5, RuleFacts DEF Tokens, Lesser, i

LEMMA NoRounding == 0 \in Rounding
BY RuleFacts DEF Rounding

\* A bucket holds no more than its tenant is not owed, though computed in its favour.
LEMMA RoundedFits ==
  ASSUME BudgetInv, NEW t \in Tenant, NEW e \in Rounding
  PROVE  Rounded(t) \in Nat /\ Rounded(t) + Tokens(t, e) <= Capacity
<1>1. owed[t] \in Nat /\ owed[t] + Tokens(t, 0) <= Capacity /\ Tokens(t, 0) \in 0 .. Capacity
  BY BucketTyped DEF BudgetInv, LimiterTypeOK
<1>2. /\ Tokens(t, e) \in 0 .. Capacity /\ Tokens(t, e) <= Tokens(t, 0) + Error
      /\ Bucket(t).idle = 0 => Tokens(t, e) = Tokens(t, 0)
  BY Computed DEF BudgetInv
<1> QED  BY <1>1, <1>2, RuleFacts DEF Rounded, Less

LEMMA BudgetAtFirst == LimiterInit => BudgetInv
<1> SUFFICES ASSUME LimiterInit  PROVE BudgetInv  OBVIOUS
<1>1. LimiterTypeOK  BY DEF LimiterInit, LimiterTypeOK
<1>2. \A t \in Tenant : Tokens(t, 0) \in 0 .. Capacity  BY <1>1, BucketTyped
<1> QED  BY <1>1, <1>2, RuleFacts DEF LimiterInit, BudgetInv

\* check() writes what the bucket holds then.
LEMMA Rewritten ==
  ASSUME NEW t \in Tenant, NEW n \in 0 .. Capacity, LimiterTypeOK,
         buckets' = [buckets EXCEPT ![t] = [tokens |-> n, idle |-> 0]]
  PROVE  /\ buckets' \in [Tenant -> BucketState \cup {Unknown}]
         /\ Filled(t, 0)' = n /\ Tokens(t, 0)' = n
         /\ \A u \in Tenant : u # t => /\ buckets'[u] = buckets[u]
                                       /\ Filled(u, 0)' = Filled(u, 0)
                                       /\ Tokens(u, 0)' = Tokens(u, 0)
<1> DEFINE b == [tokens |-> n, idle |-> 0]
<1>1. b \in BucketState  BY RuleFacts DEF BucketState
<1>2. buckets' \in [Tenant -> BucketState \cup {Unknown}] /\ buckets'[t] = b
      /\ \A u \in Tenant : u # t => buckets'[u] = buckets[u]
  BY <1>1 DEF LimiterTypeOK
<1>3. Bucket(t)' = b  BY <1>1, <1>2, RuleFacts DEF Bucket
<1>4. n + 0 * Inflow + 0 = n  BY RuleFacts
<1>5. Filled(t, 0)' = n /\ Tokens(t, 0)' = n  BY <1>3, <1>4, RuleFacts DEF Filled, Tokens, Lesser
<1> QED  BY <1>2, <1>5 DEF Tokens, Filled, Bucket

LEMMA AdmittedKeeps ==
  ASSUME BudgetInv, NEW t \in Tenant, Admitted(t)
  PROVE  BudgetInv'
<1>0. PICK e \in Rounding :
        /\ Tokens(t, e) >= Whole
        /\ buckets' = [buckets EXCEPT ![t] = [tokens |-> Tokens(t, e) - Whole, idle |-> 0]]
        /\ owed' = [owed EXCEPT ![t] = Rounded(t) + Whole]
        /\ promised' = [promised EXCEPT ![t] = Unknown] /\ misled' = misled
  BY DEF Admitted
<1>1. LimiterTypeOK /\ Tokens(t, e) \in 0 .. Capacity
  BY Computed DEF BudgetInv
<1>2. Rounded(t) \in Nat /\ Rounded(t) + Tokens(t, e) <= Capacity  BY RoundedFits
<1>3. Tokens(t, e) - Whole \in 0 .. Capacity  BY <1>0, <1>1, RuleFacts
<1>4. /\ buckets' \in [Tenant -> BucketState \cup {Unknown}]
      /\ Tokens(t, 0)' = Tokens(t, e) - Whole
      /\ \A u \in Tenant : u # t => /\ buckets'[u] = buckets[u]
                                    /\ Filled(u, 0)' = Filled(u, 0)
                                    /\ Tokens(u, 0)' = Tokens(u, 0)
  BY <1>0, <1>1, <1>3, Rewritten
<1>5. LimiterTypeOK'  BY <1>0, <1>1, <1>2, <1>4, RuleFacts DEF LimiterTypeOK
<1>6. ASSUME NEW u \in Tenant
      PROVE  /\ owed'[u] + Tokens(u, 0)' <= Capacity
             /\ buckets'[u] # Unknown /\ promised'[u] # Unknown =>
                  Filled(u, 0)' + promised'[u] * Inflow >= Whole - Error
  <2>1. CASE u = t
    BY <1>0, <1>1, <1>2, <1>4, <2>1, RuleFacts DEF LimiterTypeOK
  <2>2. CASE u # t
    BY <1>0, <1>1, <1>4, <2>2 DEF BudgetInv, LimiterTypeOK
  <2> QED  BY <2>1, <2>2
<1> QED  BY <1>0, <1>5, <1>6 DEF BudgetInv

LEMMA TooManyKeeps ==
  ASSUME BudgetInv, NEW t \in Tenant, TooMany(t)
  PROVE  BudgetInv'
<1>0. PICK e \in Rounding, r \in Rounding :
        /\ Tokens(t, e) < Whole
        /\ buckets' = [buckets EXCEPT ![t] = [tokens |-> Tokens(t, e), idle |-> 0]]
        /\ owed' = [owed EXCEPT ![t] = Rounded(t)]
        /\ promised' = [promised EXCEPT ![t] = RetryAfter(Tokens(t, e), r) * Second]
        /\ misled' = IF promised[t] \in {0, -1} THEN misled \cup {IF promised[t] = 0 THEN 0 ELSE 1} ELSE misled
  BY DEF TooMany
<1>1. LimiterTypeOK /\ Tokens(t, e) \in 0 .. Capacity /\ Tokens(t, e) \in Nat
  BY Computed, RuleFacts DEF BudgetInv
<1>2. Rounded(t) \in Nat /\ Rounded(t) + Tokens(t, e) <= Capacity  BY RoundedFits
<1> DEFINE n == Tokens(t, e)
           w == RetryAfter(n, r) * Second
<1>3. /\ buckets' \in [Tenant -> BucketState \cup {Unknown}]
      /\ Filled(t, 0)' = n /\ Tokens(t, 0)' = n
      /\ \A u \in Tenant : u # t => /\ buckets'[u] = buckets[u]
                                    /\ Filled(u, 0)' = Filled(u, 0)
                                    /\ Tokens(u, 0)' = Tokens(u, 0)
  BY <1>0, <1>1, Rewritten
<1>4. w \in Nat /\ n + w * Inflow >= Whole - Error
  <2>1. RetryAfter(n, r) \in Nat /\ n + (RetryAfter(n, r) * Second) * Inflow >= Whole - Error
    BY <1>0, <1>1, WaitIsExact
  <2> QED  BY <2>1, RuleFacts
<1>5. promised[t] # -1
  <2> SUFFICES ASSUME promised[t] = -1  PROVE FALSE  OBVIOUS
  <2>1. promised[t] # Unknown  BY RuleFacts
  <2>2. CASE buckets[t] = Unknown
    <3>1. Bucket(t) = Fresh  BY <2>2 DEF Bucket
    <3>2. Tokens(t, 0) = Capacity /\ Tokens(t, e) = Tokens(t, 0)
      BY <1>1, <3>1, Computed, RuleFacts DEF Tokens, Filled, Fresh, Lesser
    <3> QED  BY <1>0, <3>2, RuleFacts
  <2>3. CASE buckets[t] # Unknown
    <3>1. Filled(t, 0) + (-1) * Inflow >= Whole - Error  BY <2>1, <2>3 DEF BudgetInv
    <3>2. Filled(t, 0) \in Nat /\ Filled(t, e) \in Nat /\ Filled(t, e) >= Filled(t, 0) - Error
      BY <1>1, BucketTyped, Computed
    <3>3. Filled(t, e) >= Whole  BY <3>1, <3>2, RuleFacts
    <3>4. Tokens(t, e) >= Whole  BY <3>2, <3>3, RuleFacts DEF Tokens, Lesser
    <3> QED  BY <1>0, <1>1, <3>4, RuleFacts
  <2> QED  BY <2>2, <2>3
<1> HIDE DEF n, w
<1>6. 1 \notin misled' /\ misled' \subseteq {0, 1}
  <2>1. 1 \notin misled /\ misled \subseteq {0, 1}  BY DEF LimiterTypeOK, BudgetInv
  <2>2. CASE promised[t] = 0
    <3>1. misled' = misled \cup {0}  BY <1>0, <2>2
    <3> QED  BY <2>1, <3>1
  <2>3. CASE promised[t] # 0
    BY <1>0, <1>5, <2>1, <2>3
  <2> QED  BY <2>2, <2>3
<1>7. LimiterTypeOK'
  <2>1. promised' \in [Tenant -> Nat \cup {-1, Unknown}]  BY <1>0, <1>1, <1>4 DEF LimiterTypeOK, n, w
  <2>2. owed' \in [Tenant -> Nat]  BY <1>0, <1>1, <1>2 DEF LimiterTypeOK
  <2> QED  BY <1>3, <1>6, <2>1, <2>2 DEF LimiterTypeOK
<1>8. ASSUME NEW u \in Tenant
      PROVE  /\ owed'[u] + Tokens(u, 0)' <= Capacity
             /\ buckets'[u] # Unknown /\ promised'[u] # Unknown =>
                  Filled(u, 0)' + promised'[u] * Inflow >= Whole - Error
  <2>1. CASE u = t
    <3>1. owed'[t] = Rounded(t) /\ promised'[t] = w
      BY <1>0, <1>1 DEF LimiterTypeOK, n, w
    <3> QED  BY <1>2, <1>3, <1>4, <2>1, <3>1 DEF n
  <2>2. CASE u # t
    BY <1>0, <1>1, <1>3, <2>2 DEF BudgetInv, LimiterTypeOK
  <2> QED  BY <2>1, <2>2
<1> QED  BY <1>6, <1>7, <1>8 DEF BudgetInv

\* A bucket that is dropped was full but for the rounding, as a new one is.
LEMMA SweepUnseen ==
  ASSUME LimiterTypeOK, NEW t \in Tenant, NEW e \in [Tenant -> Rounding],
         buckets' = [u \in Tenant |-> IF Refilled(u, e[u]) THEN Unknown ELSE buckets[u]]
  PROVE  /\ e[t] \in Rounding
         /\ Tokens(t, 0)' = IF Refilled(t, e[t]) THEN Tokens(t, e[t]) ELSE Tokens(t, 0)
         /\ ~Refilled(t, e[t]) => buckets'[t] = buckets[t] /\ Filled(t, 0)' = Filled(t, 0)
         /\ Refilled(t, e[t]) => buckets'[t] = Unknown
<1>0. e[t] \in Rounding  OBVIOUS
<1>1. CASE Refilled(t, e[t])
  <2>1. buckets'[t] = Unknown  BY <1>1
  <2>2. Bucket(t)' = Fresh  BY <2>1 DEF Bucket
  <2>3. Tokens(t, 0)' = Capacity  BY <2>2, RuleFacts DEF Tokens, Filled, Fresh, Lesser
  <2>4. Filled(t, e[t]) \in Nat /\ Filled(t, e[t]) >= Capacity
    BY <1>0, <1>1, Computed DEF Refilled
  <2>5. Tokens(t, e[t]) = Capacity  BY <2>4, RuleFacts DEF Tokens, Lesser
  <2> QED  BY <1>0, <1>1, <2>1, <2>3, <2>5
<1>2. CASE ~Refilled(t, e[t])
  <2>1. buckets'[t] = buckets[t]  BY <1>2
  <2> QED  BY <1>0, <1>2, <2>1 DEF Tokens, Filled, Bucket
<1> QED  BY <1>1, <1>2

LEMMA SweepKeeps ==
  ASSUME BudgetInv, Sweep
  PROVE  BudgetInv'
<1>1. PICK e \in [Tenant -> Rounding] :
        /\ buckets' = [t \in Tenant |-> IF Refilled(t, e[t]) THEN Unknown ELSE buckets[t]]
        /\ owed' = [t \in Tenant |-> IF Refilled(t, e[t]) THEN Rounded(t) ELSE owed[t]]
        /\ UNCHANGED <<promised, misled>>
  BY DEF Sweep
<1>2. ASSUME NEW t \in Tenant
      PROVE  /\ e[t] \in Rounding
             /\ Tokens(t, 0)' = IF Refilled(t, e[t]) THEN Tokens(t, e[t]) ELSE Tokens(t, 0)
             /\ ~Refilled(t, e[t]) => buckets'[t] = buckets[t] /\ Filled(t, 0)' = Filled(t, 0)
             /\ Refilled(t, e[t]) => buckets'[t] = Unknown
  BY <1>1, SweepUnseen DEF BudgetInv
<1>3. \A t \in Tenant : Rounded(t) \in Nat /\ Rounded(t) + Tokens(t, e[t]) <= Capacity
  BY <1>2, RoundedFits
<1>4. LimiterTypeOK'  BY <1>1, <1>3 DEF LimiterTypeOK, BudgetInv
<1>5. ASSUME NEW t \in Tenant
      PROVE  /\ owed'[t] + Tokens(t, 0)' <= Capacity
             /\ buckets'[t] # Unknown /\ promised'[t] # Unknown =>
                  Filled(t, 0)' + promised'[t] * Inflow >= Whole - Error
  <2>1. CASE Refilled(t, e[t])
    <3>1. owed'[t] = Rounded(t)  BY <1>1, <2>1
    <3> QED  BY <1>2, <1>3, <2>1, <3>1
  <2>2. CASE ~Refilled(t, e[t])
    <3>1. owed'[t] = owed[t] /\ promised'[t] = promised[t]  BY <1>1, <2>2
    <3> QED  BY <1>2, <2>2, <3>1 DEF BudgetInv
  <2> QED  BY <2>1, <2>2
<1> QED  BY <1>1, <1>4, <1>5 DEF BudgetInv

\* A millisecond makes every bucket older.
LEMMA TickAges ==
  ASSUME LimiterTypeOK, Tick, NEW t \in Tenant, buckets[t] # Unknown
  PROVE  /\ buckets'[t] \in BucketState
         /\ buckets'[t].tokens = buckets[t].tokens
         /\ buckets'[t].idle = Lesser(Enough, buckets[t].idle + 1)
<1>1. buckets[t] \in BucketState  BY DEF LimiterTypeOK
<1>2. buckets'[t] = [buckets[t] EXCEPT !.idle = Lesser(Enough, @ + 1)]  BY DEF Tick
<1>3. Lesser(Enough, buckets[t].idle + 1) \in 0 .. Enough
  BY <1>1, RuleFacts DEF BucketState, Lesser
<1> QED  BY <1>1, <1>2, <1>3 DEF BucketState

\* So it brings back a limit's share to each, up to the capacity.
LEMMA TickRefills ==
  ASSUME LimiterTypeOK, Tick, NEW t \in Tenant
  PROVE  /\ Tokens(t, 0)' = Lesser(Capacity, Tokens(t, 0) + Inflow)
         /\ buckets[t] = Unknown <=> buckets'[t] = Unknown
         /\ buckets[t] # Unknown =>
              \/ Filled(t, 0)' = Filled(t, 0) + Inflow
              \/ Filled(t, 0)' = Filled(t, 0) /\ Filled(t, 0) >= Capacity + Error + Inflow
<1>1. CASE buckets[t] = Unknown
  <2>1. buckets'[t] = Unknown  BY <1>1 DEF Tick
  <2>2. Bucket(t) = Fresh /\ Bucket(t)' = Fresh  BY <1>1, <2>1 DEF Bucket
  <2>3. Tokens(t, 0)' = Capacity /\ Tokens(t, 0) = Capacity
    BY <2>2, RuleFacts DEF Tokens, Filled, Fresh, Lesser
  <2> QED  BY <1>1, <2>1, <2>3, RuleFacts DEF Lesser
<1>2. CASE buckets[t] # Unknown
  <2>1. /\ buckets'[t] \in BucketState /\ buckets'[t].tokens = buckets[t].tokens
        /\ buckets'[t].idle = Lesser(Enough, buckets[t].idle + 1)
    BY <1>2, TickAges
  <2>2. Bucket(t) = buckets[t] /\ Bucket(t)' = buckets'[t] /\ buckets'[t] # Unknown
    BY <1>2, <2>1, RuleFacts DEF Bucket
  <2> DEFINE i == Bucket(t).idle
             k == Bucket(t).tokens
  <2>3. k \in 0 .. Capacity /\ i \in 0 .. Enough /\ Filled(t, 0) = k + i * Inflow /\ i * Inflow \in Nat
    BY BucketTyped
  <2>4. Filled(t, 0)' = k + Lesser(Enough, i + 1) * Inflow
    <3>1. Lesser(Enough, i + 1) \in Nat  BY <2>3, RuleFacts DEF Lesser
    <3>2. Lesser(Enough, i + 1) * Inflow \in Nat  BY <3>1, RuleFacts
    <3> QED  BY <2>1, <2>2, <2>3, <3>2 DEF Filled
  <2>5. Tokens(t, 0)' = Lesser(Capacity, Filled(t, 0)') /\ Tokens(t, 0) = Lesser(Capacity, Filled(t, 0))
    BY DEF Tokens
  <2> HIDE DEF i, k
  <2>6. CASE i < Enough
    <3>1. Lesser(Enough, i + 1) = i + 1  BY <2>3, <2>6, RuleFacts DEF Lesser
    <3>2. (i + 1) * Inflow = i * Inflow + Inflow  BY <2>3, RuleFacts
    <3>3. Filled(t, 0)' = Filled(t, 0) + Inflow  BY <2>3, <2>4, <3>1, <3>2, RuleFacts
    <3> QED  BY <1>2, <2>2, <2>3, <2>5, <3>3, RuleFacts DEF Lesser
  <2>7. CASE i = Enough
    <3>1. Lesser(Enough, i + 1) = i  BY <2>7, RuleFacts DEF Lesser
    <3>2. i * Inflow >= Capacity + Error + Inflow
      <4>1. \A c, d \in Nat : d >= 1 => c * d \in Nat /\ c * d >= c  OBVIOUS
      <4>2. (Capacity + Error) * Inflow >= Capacity + Error  BY <4>1, RuleFacts
      <4>3. (Capacity + Error + 1) * Inflow = (Capacity + Error) * Inflow + Inflow  BY RuleFacts
      <4>4. (Capacity + Error) * Inflow \in Nat  BY RuleFacts
      <4> QED  BY <2>7, <4>2, <4>3, <4>4, RuleFacts
    <3>3. Filled(t, 0)' = Filled(t, 0) /\ Filled(t, 0) >= Capacity + Error + Inflow
      BY <2>3, <2>4, <3>1, <3>2, RuleFacts
    <3> QED  BY <1>2, <2>2, <2>3, <2>5, <3>3, RuleFacts DEF Lesser
  <2> QED  BY <2>3, <2>6, <2>7, RuleFacts
<1> QED  BY <1>1, <1>2

LEMMA TickKeeps ==
  ASSUME BudgetInv, Tick
  PROVE  BudgetInv'
<1>1. /\ buckets' = [t \in Tenant |->
           IF buckets[t] = Unknown THEN Unknown
           ELSE [buckets[t] EXCEPT !.idle = Lesser(Enough, @ + 1)]]
      /\ owed' = [t \in Tenant |-> Less(owed[t], Inflow)]
      /\ promised' = [t \in Tenant |->
           IF promised[t] \in {Unknown, -1} THEN promised[t] ELSE promised[t] - 1]
      /\ misled' = misled
  BY DEF Tick
<1>2. LimiterTypeOK  BY DEF BudgetInv
<1>3. \A t \in Tenant : buckets[t] # Unknown => buckets'[t] \in BucketState
  BY <1>2, TickAges
<1>4. buckets' \in [Tenant -> BucketState \cup {Unknown}]
  <2>1. \A t \in Tenant : buckets'[t] \in BucketState \cup {Unknown}  BY <1>1, <1>3
  <2> QED  BY <1>1, <2>1
<1>5. LimiterTypeOK'
  <2>1. owed' \in [Tenant -> Nat]  BY <1>1, <1>2, RuleFacts DEF LimiterTypeOK, Less
  <2>2. promised' \in [Tenant -> Nat \cup {-1, Unknown}]
    <3>1. ASSUME NEW t \in Tenant
          PROVE  (IF promised[t] \in {Unknown, -1} THEN promised[t] ELSE promised[t] - 1)
                   \in Nat \cup {-1, Unknown}
      <4>1. promised[t] \in Nat \cup {-1, Unknown}  BY <1>2 DEF LimiterTypeOK
      <4> QED  BY <4>1
    <3> QED  BY <1>1, <3>1
  <2> QED  BY <1>1, <1>2, <1>4, <2>1, <2>2 DEF LimiterTypeOK
<1>7. ASSUME NEW t \in Tenant
      PROVE  /\ owed'[t] + Tokens(t, 0)' <= Capacity
             /\ buckets'[t] # Unknown /\ promised'[t] # Unknown =>
                  Filled(t, 0)' + promised'[t] * Inflow >= Whole - Error
  <2>1. /\ Tokens(t, 0)' = Lesser(Capacity, Tokens(t, 0) + Inflow)
        /\ buckets[t] = Unknown <=> buckets'[t] = Unknown
        /\ buckets[t] # Unknown =>
             \/ Filled(t, 0)' = Filled(t, 0) + Inflow
             \/ Filled(t, 0)' = Filled(t, 0) /\ Filled(t, 0) >= Capacity + Error + Inflow
    BY <1>2, TickRefills
  <2>2. /\ owed[t] \in Nat /\ promised[t] \in Nat \cup {-1, Unknown}
        /\ Tokens(t, 0) \in 0 .. Capacity /\ Filled(t, 0) \in Nat
    BY <1>2, BucketTyped DEF LimiterTypeOK
  <2>3. owed'[t] + Tokens(t, 0)' <= Capacity
    <3>1. owed[t] + Tokens(t, 0) <= Capacity  BY DEF BudgetInv
    <3>2. owed'[t] = Less(owed[t], Inflow)  BY <1>1
    <3> QED  BY <2>1, <2>2, <3>1, <3>2, RuleFacts DEF Less, Lesser
  <2>4. ASSUME buckets'[t] # Unknown, promised'[t] # Unknown
        PROVE  Filled(t, 0)' + promised'[t] * Inflow >= Whole - Error
    <3>0. promised'[t] = IF promised[t] \in {Unknown, -1} THEN promised[t] ELSE promised[t] - 1
      BY <1>1
    <3>1. /\ promised[t] # Unknown /\ buckets[t] # Unknown
          /\ promised[t] \in Nat \cup {-1} /\ promised'[t] \in Nat \cup {-1}
      BY <2>1, <2>2, <2>4, <3>0
    <3>2. Filled(t, 0) + promised[t] * Inflow >= Whole - Error  BY <3>1 DEF BudgetInv
    <3>3. \A m, n \in Int, f \in Nat : m <= n => m * f <= n * f  OBVIOUS
    <3>4. promised'[t] * Inflow \in Int /\ promised[t] * Inflow \in Int /\ promised'[t] * Inflow >= (-1) * Inflow
      BY <3>1, <3>3, RuleFacts
    <3>5. promised'[t] * Inflow >= promised[t] * Inflow - Inflow
      <4>1. (promised[t] - 1) * Inflow = promised[t] * Inflow - Inflow  BY <3>1, RuleFacts
      <4> QED  BY <3>0, <3>1, <3>4, <4>1, RuleFacts
    <3>6. CASE Filled(t, 0)' = Filled(t, 0) + Inflow
      BY <2>2, <3>2, <3>4, <3>5, <3>6, RuleFacts
    <3>7. CASE Filled(t, 0)' = Filled(t, 0) /\ Filled(t, 0) >= Capacity + Error + Inflow
      BY <2>2, <3>4, <3>7, RuleFacts
    <3> QED  BY <2>1, <3>1, <3>6, <3>7
  <2> QED  BY <2>3, <2>4
<1> QED  BY <1>1, <1>5, <1>7 DEF BudgetInv

LEMMA BudgetRests == BudgetInv /\ UNCHANGED limiterVars => BudgetInv'
BY DEF limiterVars, BudgetInv, LimiterTypeOK, Tokens, Filled, Bucket

LEMMA BudgetNext == RowsInv /\ BudgetInv /\ [DoorNext]_doorVars => BudgetInv'
<1> SUFFICES ASSUME RowsInv, BudgetInv, [DoorNext]_doorVars  PROVE BudgetInv'  OBVIOUS
<1>1. CASE UNCHANGED doorVars  BY <1>1, BudgetRests DEF doorVars
<1>2. CASE Timely  BY <1>2, BudgetRests, TickKeeps, SweepKeeps DEF Timely
<1>3. CASE Issuing  BY <1>3, BudgetRests DEF Issuing
<1>4. ASSUME NEW v \in Visitor, RequestAtDoor(v)  PROVE BudgetInv'
  <2>1. CASE Charge(v)
    <3>1. door[v].member.tenant \in Tenant  BY <2>1 DEF Charge, RowsInv, Stands
    <3> QED  BY <2>1, <3>1, AdmittedKeeps, TooManyKeeps, BudgetRests DEF Charge
  <2>2. CASE ~Charge(v)
    <3>1. UNCHANGED limiterVars
      BY <1>4, <2>2
      DEF RequestAtDoor, PresentKey, PrincipalFor, PresentToken, Verdict, LookTenant,
          CreateTenant, LookUser, CreateUser, UpsertMembership, Answer, Rests
    <3> QED  BY <3>1, BudgetRests
  <2> QED  BY <2>1, <2>2
<1>5. CASE OnceAtDoor
  <2>1. CASE Restart
    <3>1. /\ buckets' = [t \in Tenant |-> Unknown] /\ owed' = [t \in Tenant |-> 0]
          /\ promised' = [t \in Tenant |-> Unknown] /\ misled' = misled
      BY <2>1 DEF Restart
    <3>2. LimiterTypeOK'  BY <3>1 DEF LimiterTypeOK, BudgetInv
    <3>3. \A t \in Tenant : Tokens(t, 0)' = Capacity
      BY <3>1, RuleFacts DEF Tokens, Filled, Bucket, Fresh, Lesser
    <3> QED  BY <3>1, <3>2, <3>3, RuleFacts DEF BudgetInv
  <2>2. CASE ChangeRole \/ \E v \in Visitor : StatementFails(v)
    BY <2>2, BudgetRests DEF ChangeRole, StatementFails, Rests
  <2> QED  BY <1>5, <2>1, <2>2 DEF OnceAtDoor
<1> QED  BY <1>1, <1>2, <1>3, <1>4, <1>5 DEF DoorNext

\* No tenant is let through more than a burst and what the time brought back,
\* but for the rounding of each decision, and none is refused that waited a
\* millisecond longer than it was told, for every limit, interval, burst and
\* rounding (RateLimiter.check, sweep).
THEOREM BudgetKept == DoorSpec => []BudgetIsKept
<1>1. DoorInit => BudgetInv  BY BudgetAtFirst DEF DoorInit
<1>2. BudgetInv => BudgetIsKept
  <2> SUFFICES ASSUME BudgetInv  PROVE BudgetIsKept  OBVIOUS
  <2>1. ASSUME NEW t \in Tenant  PROVE owed[t] <= Capacity
    <3>1. Tokens(t, 0) \in 0 .. Capacity /\ owed[t] \in Nat /\ owed[t] + Tokens(t, 0) <= Capacity
      BY BucketTyped DEF BudgetInv, LimiterTypeOK
    <3> QED  BY <3>1, RuleFacts
  <2> QED  BY <2>1 DEF BudgetInv, BudgetIsKept
<1> QED  BY <1>1, <1>2, RowsInit, RowsNext, BudgetNext, PTL DEF DoorSpec

\* What a tenant's bucket holds moves as if it were never dropped, but for a
\* rounding.
LevelMoves(t) ==
  IF Tick THEN Tokens(t, 0)' = Lesser(Capacity, Tokens(t, 0) + Inflow)
  ELSE IF Restart THEN Tokens(t, 0)' = Capacity
  ELSE \E e \in Rounding :
         Tokens(t, 0)' = Tokens(t, 0) + e - (IF Admitted(t) THEN Whole ELSE 0)

\* A decision takes a token from one that is let through, and rounds.
LEMMA DecisionMoves ==
  ASSUME LimiterTypeOK, NEW t \in Tenant, NEW e \in Rounding, NEW k \in {0, Whole},
         Tokens(t, e) >= k,
         buckets' = [buckets EXCEPT ![t] = [tokens |-> Tokens(t, e) - k, idle |-> 0]]
  PROVE  /\ \E r \in Rounding : Tokens(t, 0)' = Tokens(t, 0) + r - k
         /\ \A u \in Tenant : u # t => Tokens(u, 0)' = Tokens(u, 0)
<1>1. /\ Tokens(t, e) \in 0 .. Capacity /\ Tokens(t, 0) \in 0 .. Capacity
      /\ Tokens(t, 0) - Error <= Tokens(t, e) /\ Tokens(t, e) <= Tokens(t, 0) + Error
  BY BucketTyped, Computed
<1>2. Tokens(t, e) - k \in 0 .. Capacity  BY <1>1, RuleFacts
<1>3. /\ Tokens(t, 0)' = Tokens(t, e) - k
      /\ \A u \in Tenant : u # t => Tokens(u, 0)' = Tokens(u, 0)
  BY <1>2, Rewritten
<1>4. Tokens(t, e) - Tokens(t, 0) \in Rounding  BY <1>1, RuleFacts DEF Rounding
<1>5. Tokens(t, 0)' = Tokens(t, 0) + (Tokens(t, e) - Tokens(t, 0)) - k  BY <1>1, <1>3, RuleFacts
<1> QED  BY <1>3, <1>4, <1>5

\* A decision about one tenant is about no other, and a refusal takes nothing.
LEMMA ChargeMoves ==
  ASSUME LimiterTypeOK, NEW t \in Tenant, NEW u \in Tenant, Admitted(u) \/ TooMany(u)
  PROVE  \E e \in Rounding :
           Tokens(t, 0)' = Tokens(t, 0) + e - (IF Admitted(t) THEN Whole ELSE 0)
<1>1. Tokens(t, 0) \in 0 .. Capacity  BY BucketTyped
<1>2. ASSUME NEW v \in Tenant, Admitted(v)
      PROVE  /\ \E r \in Rounding : Tokens(v, 0)' = Tokens(v, 0) + r - Whole
             /\ \A w \in Tenant : w # v => Tokens(w, 0)' = Tokens(w, 0)
  <2>1. PICK e \in Rounding :
          /\ Tokens(v, e) >= Whole
          /\ buckets' = [buckets EXCEPT ![v] = [tokens |-> Tokens(v, e) - Whole, idle |-> 0]]
    BY <1>2 DEF Admitted
  <2> QED  BY <2>1, DecisionMoves
<1>3. CASE Admitted(t)
  BY <1>2, <1>3
<1>4. CASE ~Admitted(t) /\ Admitted(u)
  <2>1. Tokens(t, 0)' = Tokens(t, 0)  BY <1>2, <1>4
  <2>2. Tokens(t, 0)' = Tokens(t, 0) + 0 - 0  BY <1>1, <2>1, RuleFacts
  <2> QED  BY <1>4, <2>2, NoRounding
<1>5. CASE ~Admitted(t) /\ TooMany(u)
  <2>1. PICK e \in Rounding : buckets' = [buckets EXCEPT ![u] = [tokens |-> Tokens(u, e), idle |-> 0]]
    BY <1>5 DEF TooMany
  <2>2. Tokens(u, e) \in 0 .. Capacity  BY Computed
  <2>3. Tokens(u, e) - 0 = Tokens(u, e) /\ Tokens(u, e) >= 0  BY <2>2, RuleFacts
  <2>4. /\ \E r \in Rounding : Tokens(u, 0)' = Tokens(u, 0) + r - 0
        /\ \A w \in Tenant : w # u => Tokens(w, 0)' = Tokens(w, 0)
    BY <2>1, <2>3, DecisionMoves
  <2>5. CASE t = u
    BY <1>5, <2>4, <2>5
  <2>6. CASE t # u
    <3>1. Tokens(t, 0)' = Tokens(t, 0) + 0 - 0  BY <1>1, <2>4, <2>6, RuleFacts
    <3> QED  BY <1>5, <3>1, NoRounding
  <2> QED  BY <2>5, <2>6
<1> QED  BY <1>3, <1>4, <1>5

\* A sweep takes from nobody what would be seen.
LEMMA SweepMoves ==
  ASSUME LimiterTypeOK, Sweep, NEW t \in Tenant
  PROVE  \E e \in Rounding : Tokens(t, 0)' = Tokens(t, 0) + e
<1>1. PICK e \in [Tenant -> Rounding] :
        buckets' = [u \in Tenant |-> IF Refilled(u, e[u]) THEN Unknown ELSE buckets[u]]
  BY DEF Sweep
<1>2. /\ e[t] \in Rounding
      /\ Tokens(t, 0)' = IF Refilled(t, e[t]) THEN Tokens(t, e[t]) ELSE Tokens(t, 0)
  BY <1>1, SweepUnseen
<1>3. /\ Tokens(t, e[t]) \in 0 .. Capacity /\ Tokens(t, 0) \in 0 .. Capacity
      /\ Tokens(t, 0) - Error <= Tokens(t, e[t]) /\ Tokens(t, e[t]) <= Tokens(t, 0) + Error
  BY <1>2, BucketTyped, Computed
<1>4. Tokens(t, 0)' - Tokens(t, 0) \in Rounding  BY <1>2, <1>3, RuleFacts DEF Rounding
<1>5. Tokens(t, 0)' = Tokens(t, 0) + (Tokens(t, 0)' - Tokens(t, 0))  BY <1>2, <1>3, RuleFacts
<1> QED  BY <1>4, <1>5

LEMMA LevelsMove ==
  ASSUME RowsInv, LimiterTypeOK, [DoorNext]_doorVars, NEW t \in Tenant
  PROVE  LevelMoves(t)
<1>0. Tokens(t, 0) \in 0 .. Capacity  BY BucketTyped
<1>1. CASE Tick
  BY <1>1, TickRefills DEF LevelMoves
<1>2. CASE ~Tick /\ Restart
  <2>1. buckets' = [u \in Tenant |-> Unknown]  BY <1>2 DEF Restart
  <2>2. Tokens(t, 0)' = Capacity  BY <2>1, RuleFacts DEF Tokens, Filled, Bucket, Fresh, Lesser
  <2> QED  BY <1>2, <2>2 DEF LevelMoves
<1>3. CASE ~Tick /\ ~Restart
  <2> DEFINE Moves == \E e \in Rounding :
                        Tokens(t, 0)' = Tokens(t, 0) + e - (IF Admitted(t) THEN Whole ELSE 0)
  <2> SUFFICES Moves  BY <1>3 DEF LevelMoves
  <2>0. CASE Admitted(t)
    BY <2>0, ChargeMoves
  <2>s. ASSUME ~Admitted(t), NEW e \in Rounding, Tokens(t, 0)' = Tokens(t, 0) + e  PROVE Moves
    <3>1. e \in Int  BY RuleFacts DEF Rounding
    <3>2. Tokens(t, 0)' = Tokens(t, 0) + e - 0  BY <1>0, <2>s, <3>1, RuleFacts
    <3> QED  BY <2>s, <3>2
  <2>1. CASE ~Admitted(t) /\ UNCHANGED limiterVars
    <3>1. Tokens(t, 0)' = Tokens(t, 0)  BY <2>1 DEF limiterVars, Tokens, Filled, Bucket
    <3>2. Tokens(t, 0)' = Tokens(t, 0) + 0  BY <1>0, <3>1, RuleFacts
    <3> QED  BY <2>s, <2>1, <3>2, NoRounding
  <2>2. CASE ~Admitted(t) /\ Timely
    <3>1. CASE Sweep
      <4>1. PICK e \in Rounding : Tokens(t, 0)' = Tokens(t, 0) + e  BY <3>1, SweepMoves
      <4> QED  BY <2>s, <2>2, <4>1
    <3> QED  BY <1>3, <2>1, <2>2, <3>1 DEF Timely
  <2>3. CASE ~Admitted(t) /\ Issuing
    BY <2>1, <2>3 DEF Issuing
  <2>4. ASSUME ~Admitted(t), NEW v \in Visitor, RequestAtDoor(v)  PROVE Moves
    <3>1. CASE Charge(v)
      <4>1. door[v].member.tenant \in Tenant  BY <3>1 DEF Charge, RowsInv, Stands
      <4>2. \/ Admitted(door[v].member.tenant) \/ TooMany(door[v].member.tenant)
            \/ UNCHANGED limiterVars
        BY <3>1 DEF Charge
      <4> QED  BY <2>1, <2>4, <4>1, <4>2, ChargeMoves
    <3>2. CASE ~Charge(v)
      <4>1. UNCHANGED limiterVars
        BY <2>4, <3>2
        DEF RequestAtDoor, PresentKey, PrincipalFor, PresentToken, Verdict, LookTenant,
            CreateTenant, LookUser, CreateUser, UpsertMembership, Answer, Rests
      <4> QED  BY <2>1, <2>4, <4>1
    <3> QED  BY <3>1, <3>2
  <2>5. CASE ~Admitted(t) /\ OnceAtDoor
    BY <1>3, <2>1, <2>5 DEF OnceAtDoor, ChangeRole, StatementFails, Rests
  <2>6. CASE ~Admitted(t) /\ UNCHANGED doorVars
    BY <2>1, <2>6 DEF doorVars
  <2> QED  BY <2>0, <2>2, <2>3, <2>4, <2>5, <2>6 DEF DoorNext
<1> QED  BY <1>1, <1>2, <1>3

\* The tenants' budgets are token buckets that time alone refills: a tenant has
\* one token less for each request let through and none for one refused, those
\* of others cost it nothing, and that the worker drops its bucket meanwhile is
\* not to be seen, but for the rounding of one computation (RateLimiter.check,
\* sweep).
THEOREM BucketsRefill == DoorSpec => [][\A t \in Tenant : LevelMoves(t)]_doorVars
<1>1. RowsInv /\ BudgetInv /\ [DoorNext]_doorVars => \A t \in Tenant : LevelMoves(t)
  BY LevelsMove DEF BudgetInv
<1>2. DoorInit => BudgetInv  BY BudgetAtFirst DEF DoorInit
<1> QED  BY <1>1, <1>2, RowsInit, RowsNext, BudgetNext, PTL DEF DoorSpec


(***************************************************************************)
(* The types of the front door                                             *)
(***************************************************************************)

\* Who waits for the issuer's keys is in verify(), and a fetch is under way.
Awaited == \A v \in Visitor : ruling[v] = "waiting" => door[v].at = "verify" /\ fetch # Nothing

\* The keys are as they were, and one whose token is not being verified moves.
LEMMA AwaitedElsewhere ==
  ASSUME Awaited, door \in [Visitor -> Place], UNCHANGED <<ruling, fetch>>,
         NEW v \in Visitor, door[v].at # "verify", NEW p, door' = [door EXCEPT ![v] = p]
  PROVE  Awaited'
BY DEF Awaited

\* Nobody was waiting, or nobody is any more.
LEMMA AwaitedByNobody ==
  ASSUME \A v \in Visitor : ruling'[v] # "waiting"
  PROVE  Awaited'
BY DEF Awaited

LEMMA VerifyAwaits ==
  ASSUME Awaited, KeysInv, door \in [Visitor -> Place], NEW v \in Visitor, NEW token,
         door[v].at = "outside", Verify(v, token),
         NEW m, door' = [door EXCEPT ![v] = At("verify", m)]
  PROVE  Awaited'
<1>1. door'[v].at = "verify" /\ \A w \in Visitor \ {v} : door'[w] = door[w]  BY DEF At
<1>2. CASE VerifyAtOnce(v, token)
  <2>1. PICK verdict \in {"accepted", "refused", "forbidden"} : Ruled(v, token, verdict)
    BY <1>2 DEF VerifyAtOnce, Judge
  <2>2. ruling' = [ruling EXCEPT ![v] = verdict] /\ fetch' = fetch  BY <2>1 DEF Ruled
  <2> QED  BY <1>1, <2>2 DEF Awaited, KeysInv, KeysShape
<1>3. CASE VerifyByFetch(v, token)
  <2>1. ruling' = [ruling EXCEPT ![v] = "waiting"] /\ fetch' = JoinOrFetch
    BY <1>3 DEF VerifyByFetch
  <2>2. fetch' # Nothing
    BY <2>1, Durations DEF JoinOrFetch, Fetch, KeysInv, KeysShape
  <2> QED  BY <1>1, <2>1, <2>2 DEF Awaited, KeysInv, KeysShape
<1> QED  BY <1>2, <1>3 DEF Verify

LEMMA IssuingAwaits ==
  ASSUME Awaited, KeysInv, UNCHANGED door, Issuing
  PROVE  Awaited'
<1>1. CASE ServeJwks
  <2>1. fetch' \in Fetch
    BY <1>1, Durations DEF ServeJwks, KeysInv, KeysShape, Fetch
  <2> QED  BY <1>1, <2>1, Durations DEF Awaited, ServeJwks
<1>2. CASE LoadJwks
  <2> DEFINE verdict == [v \in Visitor |-> Judge(shown[v], SelectKey(fetch.keys, shown[v].kid))]
  <2>1. ruling' = [v \in Visitor |-> IF ruling[v] = "waiting" THEN verdict[v] ELSE ruling[v]]
    BY <1>2 DEF LoadJwks, Resume
  <2>2. verdict \in [Visitor -> Rulings \ {"waiting"}]
    BY NothingAssumption DEF Judge, Rulings
  <2> QED  BY <2>1, <2>2, NobodyWaits, AwaitedByNobody
<1>3. CASE LoadFails
  <2> DEFINE verdict == [v \in Visitor |-> "refused"]
  <2>1. ruling' = [v \in Visitor |-> IF ruling[v] = "waiting" THEN verdict[v] ELSE ruling[v]]
    BY <1>3 DEF LoadFails, Resume
  <2>2. verdict \in [Visitor -> Rulings \ {"waiting"}]  BY DEF Rulings
  <2> QED  BY <2>1, <2>2, NobodyWaits, AwaitedByNobody
<1>4. CASE RotateKey  BY <1>4 DEF Awaited, RotateKey
<1> QED  BY <1>1, <1>2, <1>3, <1>4 DEF Issuing

LEMMA AgeAwaits ==
  ASSUME Awaited, KeysInv, UNCHANGED door, KeysAge
  PROVE  Awaited'
<1>1. fetch # Nothing => fetch' \in Fetch
  BY Durations DEF KeysAge, KeysInv, KeysShape, Fetch
<1> QED  BY <1>1, Durations DEF Awaited, KeysAge

LEMMA AwaitedInit == DoorInit => Awaited
BY NothingAssumption DEF DoorInit, KeysInit, Awaited

LEMMA AwaitedNext == RowsInv /\ KeysInv /\ Awaited /\ [DoorNext]_doorVars => Awaited'
<1> SUFFICES ASSUME RowsInv, KeysInv, Awaited, [DoorNext]_doorVars  PROVE Awaited'  OBVIOUS
<1> USE DEF At
<1>0. door \in [Visitor -> Place]  BY DEF RowsInv, RowsTypeOK
<1>1. CASE UNCHANGED doorVars  BY <1>1 DEF doorVars, keyVars, Awaited
<1>2. CASE Timely
  <2>1. CASE KeysAge /\ UNCHANGED door  BY <2>1, AgeAwaits
  <2>2. CASE UNCHANGED <<keyVars, door>>  BY <2>2 DEF keyVars, Awaited
  <2> QED  BY <1>2, <2>1, <2>2 DEF Timely
<1>3. CASE Issuing  BY <1>3, IssuingAwaits DEF Issuing
<1>4. ASSUME NEW v \in Visitor, RequestAtDoor(v)  PROVE Awaited'
  <2>1. CASE PresentToken(v)
    <3>1. PICK kind : Verify(v, IssueToken(kind))  BY <2>1 DEF PresentToken
    <3>2. PICK m : door' = [door EXCEPT ![v] = At("verify", m)]  BY <2>1 DEF PresentToken
    <3> QED  BY <1>0, <2>1, <3>1, <3>2, VerifyAwaits DEF PresentToken
  <2>2. CASE Verdict(v)
    <3>1. ruling' = [ruling EXCEPT ![v] = Nothing] /\ fetch' = fetch  BY <2>2 DEF Verdict
    <3>2. \A w \in Visitor \ {v} : door'[w] = door[w]
      BY <1>0, <2>2 DEF Verdict, Go, Away
    <3> QED  BY <3>1, <3>2, NothingAssumption DEF Awaited, KeysInv, KeysShape
  <2>3. CASE ~PresentToken(v) /\ ~Verdict(v)
    <3>1. UNCHANGED keyVars /\ door[v].at # "verify"
      BY <1>4, <2>3
      DEF RequestAtDoor, PresentKey, PrincipalFor, LookTenant, CreateTenant, LookUser,
          CreateUser, UpsertMembership, Charge, Answer, Rests
    <3>2. \A w \in Visitor \ {v} : door'[w] = door[w]
      BY <1>0, <1>4, <2>3
      DEF RequestAtDoor, PresentKey, PrincipalFor, LookTenant, CreateTenant, LookUser,
          CreateUser, UpsertMembership, Charge, Answer, Go, Away
    <3> QED  BY <3>1, <3>2 DEF keyVars, Awaited
  <2> QED  BY <2>1, <2>2, <2>3
<1>5. CASE OnceAtDoor
  <2>1. CASE Restart
    <3>1. \A v \in Visitor : door[v].at = "outside"  BY <2>1 DEF Restart, Served
    <3> QED  BY <2>1, <3>1 DEF Restart, Awaited
  <2>2. CASE ChangeRole  BY <2>2 DEF ChangeRole, Rests, keyVars, Awaited
  <2>3. ASSUME NEW v \in Visitor, StatementFails(v)  PROVE Awaited'
    <3>1. door[v].at # "verify" /\ UNCHANGED keyVars
      BY <2>3 DEF StatementFails, Rests
    <3>2. \A w \in Visitor \ {v} : door'[w] = door[w]  BY <1>0, <2>3 DEF StatementFails
    <3> QED  BY <3>1, <3>2 DEF keyVars, Awaited
  <2> QED  BY <1>5, <2>1, <2>2, <2>3 DEF OnceAtDoor
<1> QED  BY <1>1, <1>2, <1>3, <1>4, <1>5 DEF DoorNext

\* All that holds at the door.
DoorInv == RowsInv /\ KeysInv /\ BudgetInv /\ Awaited

LEMMA DoorAtFirst == doorMix \in DoorMixes /\ DoorInit => DoorInv
BY RowsInit, KeysAtFirst, BudgetAtFirst, AwaitedInit DEF DoorInit, DoorInv

LEMMA DoorKept == DoorInv /\ [DoorNext]_doorVars => DoorInv'
BY RowsNext, KeysNext, BudgetNext, AwaitedNext DEF DoorInv

LEMMA DoorIsTyped == DoorInv => DoorTypeOK
<1> SUFFICES ASSUME DoorInv  PROVE DoorTypeOK  OBVIOUS
<1>1. LimiterTypeOK  BY DEF DoorInv, BudgetInv
<1>3. KeysTypeOK
  BY DEF DoorInv, KeysInv, KeysShape, Awaited, Honest, Rulings, KeysTypeOK
<1>2. \A v \in Visitor : door[v].at \in DoorAt  BY DEF DoorInv, RowsInv, RowsTypeOK, Place
<1> QED  BY <1>1, <1>2, <1>3 DEF DoorInv, RowsInv, RowsTypeOK, DoorTypeOK

-----------------------------------------------------------------------------
Octet == 0 .. 255

Address4 == {<<a, b, c, d>> : a, b, c, d \in Octet}

\* The octets of two groups are those they were put together from.
LEMMA GroupsSplit ==
  ASSUME NEW a \in Octet, NEW b \in Octet
  PROVE  (a * 256 + b) \div 256 = a /\ (a * 256 + b) % 256 = b
BY DEF Octet

LEMMA Spelled ==
  ASSUME NEW o \in Address4, NEW g \in Spellings(o), ~Zero(g, 1, 7)
  PROVE  HeldIpv4(g) = {o}
<1>1. PICK a, b, c, d \in Octet : o = <<a, b, c, d>>
  BY DEF Address4
<1>2. /\ (a * 256 + b) \div 256 = a /\ (a * 256 + b) % 256 = b
      /\ (c * 256 + d) \div 256 = c /\ (c * 256 + d) % 256 = d
  BY GroupsSplit
<1> DEFINE high == a * 256 + b
           low == c * 256 + d
<1>3. /\ high \div 256 = a /\ high % 256 = b /\ low \div 256 = c /\ low % 256 = d
      /\ high \in Nat /\ low \in Nat
  BY <1>2 DEF Octet
<1>4. \/ g = <<0, 0, 0, 0, 0, 65535, high, low>>
      \/ g = <<0, 0, 0, 0, 0, 0, high, low>>
      \/ g = <<100, 65435, 0, 0, 0, 0, high, low>>
      \/ g = <<8194, high, low, 0, 0, 0, 0, 1>>
  BY <1>1 DEF Spellings
<1> HIDE DEF high, low
<1>5. CASE g = <<0, 0, 0, 0, 0, 65535, high, low>>
  <2>1. Zero(g, 1, 5) /\ g[6] = 65535 /\ EmbeddedIpv4(g, 7) = o
    BY <1>1, <1>3, <1>5 DEF Zero, EmbeddedIpv4
  <2> QED BY <2>1 DEF HeldIpv4
<1>6. CASE g = <<100, 65435, 0, 0, 0, 0, high, low>>
  <2>1. /\ ~Zero(g, 1, 5) /\ g[1] = 100 /\ g[2] = 65435 /\ Zero(g, 3, 6)
        /\ EmbeddedIpv4(g, 7) = o
    BY <1>1, <1>3, <1>6 DEF Zero, EmbeddedIpv4
  <2> QED BY <2>1 DEF HeldIpv4
<1>7. CASE g = <<8194, high, low, 0, 0, 0, 0, 1>>
  <2>1. /\ ~Zero(g, 1, 5) /\ ~Zero(g, 1, 6) /\ g[1] = 8194
        /\ EmbeddedIpv4(g, 2) = o
    BY <1>1, <1>3, <1>7 DEF Zero, EmbeddedIpv4
  <2> QED BY <2>1 DEF HeldIpv4
<1>8. CASE g = <<0, 0, 0, 0, 0, 0, high, low>>
  <2>1. /\ g[1] = 0 /\ g[6] = 0 /\ Zero(g, 1, 6) /\ g[7] # 0
        /\ EmbeddedIpv4(g, 7) = o
    BY <1>1, <1>3, <1>8 DEF Zero, EmbeddedIpv4
  <2> QED BY <2>1 DEF HeldIpv4
<1> QED BY <1>4, <1>5, <1>6, <1>7, <1>8

\* An IPv4 address in any spelling leads where the address itself leads; only
\* ::0.0.c.d is left out, among which :: and ::1 are something else.
THEOREM SpellingsAgree ==
  ASSUME NEW o \in Address4, NEW g \in Spellings(o), ~Zero(g, 1, 7)
  PROVE  ClassifyAddress(g) = ClassifyAddress(o)
<1>1. PICK a, b, c, d \in Octet : o = <<a, b, c, d>>
  BY DEF Address4
<1> DEFINE high == a * 256 + b
           low == c * 256 + d
<1>2. \/ g = <<0, 0, 0, 0, 0, 65535, high, low>>
      \/ g = <<0, 0, 0, 0, 0, 0, high, low>>
      \/ g = <<100, 65435, 0, 0, 0, 0, high, low>>
      \/ g = <<8194, high, low, 0, 0, 0, 0, 1>>
  BY <1>1 DEF Spellings
<1> HIDE DEF high, low
<1>3. Len(g) = 8 /\ Len(o) = 4 /\ g[1] # 64768
  BY <1>1, <1>2
<1>4. g \notin METADATA_ADDRESSES
  BY <1>3 DEF METADATA_ADDRESSES
<1>5. HeldIpv4(g) = {o}
  BY Spelled
<1>6. ClassifyIpv6(g) = ClassifyIpv4(o)
  BY <1>4, <1>5 DEF ClassifyIpv6
<1> QED BY <1>3, <1>6 DEF ClassifyAddress

LEMMA MetadataClassified ==
  ASSUME NEW a \in MetadataServers
  PROVE  ClassifyAddress(a) = "CLOUD_METADATA"
<1>1. CASE a \in METADATA_ADDRESSES
  BY <1>1 DEF METADATA_ADDRESSES, ClassifyAddress, ClassifyIpv4, ClassifyIpv6
<1>2. ASSUME NEW o \in METADATA_ADDRESSES, Len(o) = 4, a \in Spellings(o)
      PROVE  ClassifyAddress(a) = "CLOUD_METADATA"
  <2>1. o \in {<<169, 254, 169, 254>>, <<169, 254, 170, 2>>, <<100, 100, 100, 200>>}
    BY <1>2 DEF METADATA_ADDRESSES
  <2>2. o \in Address4
    <3>1. {169, 254, 170, 2, 100, 200} \subseteq Octet
      BY DEF Octet
    <3> QED BY <2>1, <3>1 DEF Address4
  <2>3. o[1] * 256 + o[2] # 0 
    BY <2>1
  <2>4. ~Zero(a, 1, 7)
    BY <1>2, <2>3 DEF Spellings, Zero
  <2>5. ClassifyAddress(o) = "CLOUD_METADATA"
    BY <1>2 DEF ClassifyAddress, ClassifyIpv4
  <2> QED BY <1>2, <2>2, <2>4, <2>5, SpellingsAgree
<1> QED BY <1>1, <1>2, MetadataAssumption DEF MetadataAssumption

-----------------------------------------------------------------------------
\* A chain under way was asked of one origin.  As long as it has credentials it
\* has not left that origin, and so no other was sent them.
Contained ==
  /\ chain.at = "begin" => trusted = {} /\ sent = 0
  /\ chain.at \in {"ready", "asked"} =>
       /\ chain.credentials => trusted \subseteq {chain.url}
       /\ chain.hop <= policy.maxRedirects
       /\ sent = IF chain.at = "asked" THEN chain.hop + 1 ELSE chain.hop
       /\ chain.method = "POST" => chain.hop = 0

FInv == ChainTypeOK /\ Contained /\ ChainIsContained

LEMMA Permitted ==
  ASSUME NEW url, NEW a \in Targets(url)
  PROVE  a \notin MetadataServers
<1>1. AddressPermitted(a, url.host)
  BY DEF Targets
<1>2. ClassifyAddress(a) # "CLOUD_METADATA"
  BY <1>1 DEF AddressPermitted, DispositionAllowed
<1> QED BY <1>2, MetadataClassified

LEMMA FetchInductive == FInv /\ [FetchNext]_fetchVars => FInv'
<1> SUFFICES ASSUME FInv, [FetchNext]_fetchVars PROVE FInv'
  OBVIOUS
<1> USE DEF FInv, Contained, ChainIsContained, CredentialsStayHome, HopsAreCounted,
            NeverReplayed, MetadataIsOutOfReach, ChainTypeOK
<1>1. policy.maxRedirects \in Nat
  BY PoliciesAssumption
<1>2. CASE Ask
  BY <1>1, <1>2 DEF Ask, Underway
<1>3. CASE RequestOnce
  <2>1. chain.at = "ready" /\ chain \in Underway
    BY <1>3 DEF RequestOnce
  <2>2. /\ chain' = [chain EXCEPT !.at = "asked"] /\ chain' \in Underway
        /\ chain'.at = "asked" /\ sent' = sent + 1 /\ UNCHANGED policy
        /\ UNCHANGED <<chain.url, chain.credentials, chain.hop, chain.method>>
    BY <1>3, <2>1 DEF RequestOnce, Underway
  <2>3. MetadataIsOutOfReach'
    <3>1. PICK a \in Targets(chain.url) : reached' = reached \cup {<<chain.url.host, a>>}
      BY <1>3 DEF RequestOnce
    <3> QED BY <3>1, Permitted
  <2>4. /\ trusted' = IF chain.credentials THEN trusted \cup {chain.url} ELSE trusted
        /\ chain.url \in Url
    BY <1>3, <2>1 DEF RequestOnce, Underway
  <2>5. CredentialsStayHome' /\ trusted' \subseteq Url
    BY <2>1, <2>4
  <2> QED BY <1>1, <2>1, <2>2, <2>3, <2>4, <2>5 DEF Underway
<1>4. CASE NotReached \/ Answered
  BY <1>4 DEF NotReached, Answered, End
<1>5. CASE Redirected
  <2>0. /\ chain.at = "asked" /\ Redirectable
        /\ UNCHANGED <<policy, trusted, reached, sent>>
    BY <1>5 DEF Redirected
  <2>1. chain \in Underway
    BY <2>0
  <2>2. CASE End
    BY <2>0, <2>2 DEF End
  <2>3. ASSUME NEW next \in Url, HopsLeft,
               chain' = [chain EXCEPT !.at = "ready", !.url = next, !.hop = @ + 1,
                                      !.credentials = KeepsCredentials(next)]
        PROVE  FInv'
    <3>1. /\ chain' \in Underway /\ chain'.at = "ready" /\ chain'.url = next
          /\ chain'.hop = chain.hop + 1 /\ chain'.credentials = KeepsCredentials(next)
          /\ chain'.method = chain.method
      BY <2>0, <2>1, <2>3 DEF Underway, KeepsCredentials
    <3>2. chain'.hop <= policy.maxRedirects /\ chain.method # "POST"
      BY <1>1, <2>0, <2>1, <2>3, <3>1 DEF HopsLeft, Underway, Redirectable
    <3> QED BY <2>0, <2>1, <3>1, <3>2 DEF Underway, KeepsCredentials
  <2> QED BY <1>5, <2>2, <2>3 DEF Redirected
<1>6. CASE UNCHANGED fetchVars
  BY <1>6 DEF fetchVars
<1> QED BY <1>2, <1>3, <1>4, <1>5, <1>6 DEF FetchNext

LEMMA FetchInitially == ChainInit => FInv
<1> SUFFICES ASSUME ChainInit PROVE FInv
  OBVIOUS
<1>1. policy.maxRedirects \in Nat
  BY PoliciesAssumption DEF ChainInit
<1> QED
  BY <1>1 DEF ChainInit, FInv, Contained, ChainIsContained, CredentialsStayHome,
     HopsAreCounted, NeverReplayed, MetadataIsOutOfReach, ChainTypeOK

\* Through any redirects, name servers and policies: the credentials of a
\* request stay with the origin it was made to, the chain is no longer than
\* the policy says, a POST is sent once, and no metadata server is reached.
THEOREM Containment == FetchSpec => []ChainIsContained
<1>1. FInv => ChainIsContained
  BY DEF FInv
<1> QED BY <1>1, FetchInitially, FetchInductive, PTL DEF FetchSpec

(***************************************************************************)
(* Proofs and assertions: types.                                           *)
(***************************************************************************)

\* A call is disturbed with those it overlaps; nothing else of it changes.
LEMMA DisturbingCalls ==
  ASSUME NEW C, NEW calls \in [Call -> CallRecord]
  PROVE  /\ Disturbing(C, calls) \in [Call -> CallRecord]
         /\ \A c \in Call :
              /\ Disturbing(C, calls)[c].disturbed <=> (calls[c].disturbed \/ c \in C)
              /\ Disturbing(C, calls)[c].at = calls[c].at
              /\ Disturbing(C, calls)[c].retried = calls[c].retried
              /\ Disturbing(C, calls)[c].key = calls[c].key
              /\ Disturbing(C, calls)[c].token = calls[c].token
              /\ Disturbing(C, calls)[c].nonce = calls[c].nonce
              /\ Disturbing(C, calls)[c].proof = calls[c].proof
              /\ Disturbing(C, calls)[c].assertion = calls[c].assertion
              /\ Disturbing(C, calls)[c].answer = calls[c].answer
              /\ Disturbing(C, calls)[c].issued = calls[c].issued
<1> DEFINE after == Disturbing(C, calls)
<1>1. \A c \in Call : after[c] = IF c \in C THEN [calls[c] EXCEPT !.disturbed = TRUE]
                                 ELSE calls[c]
  BY DEF Disturbing
<1>2. \A c \in Call : after[c] \in CallRecord
  <2> SUFFICES ASSUME NEW c \in Call PROVE after[c] \in CallRecord
    OBVIOUS
  <2>1. calls[c] \in CallRecord
    OBVIOUS
  <2> QED BY <1>1, <2>1 DEF CallRecord
<1>3. after \in [Call -> CallRecord]
  <2>1. after = [c \in Call |-> after[c]]
    BY DEF Disturbing
  <2> QED BY <1>2, <2>1
<1> HIDE DEF after
<1>4. ASSUME NEW c \in Call
      PROVE  /\ after[c].disturbed <=> (calls[c].disturbed \/ c \in C)
             /\ after[c].at = calls[c].at /\ after[c].retried = calls[c].retried
             /\ after[c].key = calls[c].key /\ after[c].token = calls[c].token
             /\ after[c].nonce = calls[c].nonce /\ after[c].proof = calls[c].proof
             /\ after[c].assertion = calls[c].assertion
             /\ after[c].answer = calls[c].answer /\ after[c].issued = calls[c].issued
  <2>1. calls[c] \in CallRecord
    OBVIOUS
  <2>2. CASE c \in C
    BY <1>1, <2>1, <2>2 DEF CallRecord
  <2>3. CASE c \notin C
    BY <1>1, <2>3
  <2> QED BY <2>2, <2>3
<1> QED BY <1>3, <1>4 DEF after

\* Nothing refers to a key, an id or a nonce that was not made.
Bounded ==
  \A c \in Call : /\ call[c].proof <= made.ids /\ call[c].assertion <= made.ids
                  /\ call[c].key <= made.keys

LEMMA ProofTypeInit == ProofInit => ProofTypeOK
<1> SUFFICES ASSUME ProofInit PROVE ProofTypeOK
  OBVIOUS
<1>1. NewCall \in CallRecord
  BY DEF NewCall, CallRecord, CallAt, HowAnswered
<1>2. call \in [Call -> CallRecord]
  BY <1>1 DEF ProofInit
<1>3. proofMix \in ProofMixSet
  BY ProofMixesAssumption DEF ProofInit
<1>4. /\ made \in [keys : Nat, ids : Nat, nonces : Nat]
      /\ key \in 0 .. made.keys /\ bound \in 0 .. made.keys
  BY DEF ProofInit
<1> QED BY <1>2, <1>3, <1>4 DEF ProofInit, ProofTypeOK

\* Of a step: what it hands out, and its record of one call.
LEMMA ProofTypeStep ==
  ASSUME ProofTypeOK, proofMix' = proofMix,
         made' \in [keys : Nat, ids : Nat, nonces : Nat],
         made'.keys >= made.keys, made'.ids >= made.ids,
         key' = key \/ key' \in 0 .. made'.keys, bound' \in {bound, 0} \/ bound' \in 0 .. made'.keys,
         granted' \in BOOLEAN, replayed' \in BOOLEAN,
         nonceOf' \in [Endpoint -> Nat], issuedNonces' \in [Endpoint -> Nat],
         call' \in [Call -> CallRecord],
         seenProofIds' \cup seenAssertionIds' \subseteq idsShown', idsShown' \subseteq 1 .. made'.ids
  PROVE  ProofTypeOK'
<1>1. made \in [keys : Nat, ids : Nat, nonces : Nat]
  BY DEF ProofTypeOK
<1>2. key' \in 0 .. made'.keys /\ bound' \in 0 .. made'.keys
  BY <1>1 DEF ProofTypeOK
<1> QED BY <1>2 DEF ProofTypeOK

LEMMA SeenLater ==
  ASSUME ProofTypeOK, made' \in [keys : Nat, ids : Nat, nonces : Nat], made'.ids >= made.ids
  PROVE  /\ seenProofIds \cup seenAssertionIds \subseteq idsShown
         /\ idsShown \subseteq 1 .. made'.ids
<1>1. made \in [keys : Nat, ids : Nat, nonces : Nat]
  BY DEF ProofTypeOK
<1>2. 1 .. made.ids \subseteq 1 .. made'.ids
  BY <1>1
<1> QED BY <1>2 DEF ProofTypeOK

LEMMA ProofTypeNext == ASSUME ProofTypeOK, Bounded, [ProofNext]_proofVars PROVE ProofTypeOK'
<1> USE DEF serverVars
<1>a. /\ made \in [keys : Nat, ids : Nat, nonces : Nat]
      /\ key \in 0 .. made.keys /\ bound \in 0 .. made.keys
      /\ key \in Nat /\ bound \in Nat
      /\ granted \in BOOLEAN /\ replayed \in BOOLEAN
      /\ nonceOf \in [Endpoint -> Nat] /\ issuedNonces \in [Endpoint -> Nat]
      /\ \A e \in Endpoint : nonceOf[e] \in Nat /\ issuedNonces[e] \in Nat
      /\ \A c \in Call : EndpointOf(c) \in Endpoint
      /\ call \in [Call -> CallRecord]
      /\ \A c \in Call : call[c] \in CallRecord
      /\ seenProofIds \cup seenAssertionIds \subseteq idsShown
      /\ idsShown \subseteq 1 .. made.ids
  BY DEF ProofTypeOK, EndpointOf, Endpoint
<1>b. ASSUME NEW c \in Call, NEW r \in CallRecord PROVE [call EXCEPT ![c] = r] \in [Call -> CallRecord]
  BY <1>a
<1>1. ASSUME NEW c \in Call, LookForKey(c) PROVE ProofTypeOK'
  <2>1. call' \in [Call -> CallRecord]
    BY <1>1, <1>a DEF LookForKey, CallRecord, CallAt
  <2> QED BY <1>1, <1>a, <2>1, ProofTypeStep DEF LookForKey
<1>2. ASSUME NEW c \in Call, StoreKey(c) PROVE ProofTypeOK'
  <2>1. [call EXCEPT ![c].at = "done"] \in [Call -> CallRecord]
    BY <1>a DEF CallRecord, CallAt
  <2>2. call' \in [Call -> CallRecord]
    <3> DEFINE calls == [call EXCEPT ![c].at = "done"]
               told  == {d \in Call : Active(d)}
    <3>1. calls \in [Call -> CallRecord]
      BY <2>1
    <3>2. call' = Disturbing(told, calls)
      BY <1>2 DEF StoreKey
    <3> HIDE DEF calls, told
    <3>3. Disturbing(told, calls) \in [Call -> CallRecord]
      BY <3>1, DisturbingCalls
    <3> QED BY <3>2, <3>3
  <2>3. /\ made' \in [keys : Nat, ids : Nat, nonces : Nat] /\ made'.ids = made.ids
        /\ made'.keys = made.keys + 1 /\ key' \in 0 .. made'.keys
    BY <1>2, <1>a DEF StoreKey
  <2>4. UNCHANGED <<proofMix, bound, granted, nonceOf, serverVars>>
    BY <1>2 DEF StoreKey
  <2> QED BY <1>a, <2>2, <2>3, <2>4, ProofTypeStep
<1>3. ASSUME NEW c \in Call, NEW r \in CallRecord, Begin(c, r)
      PROVE  call' \in [Call -> CallRecord]
  BY <1>3, <1>b, DisturbingCalls DEF Begin
<1>4. ASSUME NEW c \in Call, BeginToken(c) PROVE ProofTypeOK'
  <2> DEFINE k == IF proofMix.does[c] = "revoke" THEN 0 ELSE key
             n == IF k = 0 THEN 0 ELSE nonceOf["token"]
             r == [NewCall EXCEPT !.at = "build", !.key = k, !.nonce = n]
  <2>1. k \in Nat /\ n \in Nat
    BY <1>a DEF Endpoint
  <2>2. Begin(c, r)
    BY <1>4 DEF BeginToken
  <2> HIDE DEF k, n
  <2>3. r \in CallRecord
    BY <2>1 DEF NewCall, CallRecord, CallAt, HowAnswered
  <2>4. call' \in [Call -> CallRecord]
    BY <1>3, <2>2, <2>3
  <2> QED BY <1>4, <1>a, <2>4, ProofTypeStep DEF BeginToken
<1>5. ASSUME NEW c \in Call, BeginPost(c) PROVE ProofTypeOK'
  <2>1. [NewCall EXCEPT !.at = "build"] \in CallRecord
    BY DEF NewCall, CallRecord, CallAt, HowAnswered
  <2>2. call' \in [Call -> CallRecord]
    BY <1>3, <1>5, <2>1 DEF BeginPost
  <2> QED BY <1>5, <1>a, <2>2, ProofTypeStep DEF BeginPost
<1>6. ASSUME NEW c \in Call, BuildToken(c) PROVE ProofTypeOK'
  <2>1. made' \in [keys : Nat, ids : Nat, nonces : Nat] /\ made'.ids = made.ids + 2 /\ made'.keys = made.keys
    BY <1>6, <1>a DEF BuildToken
  <2> DEFINE a == Assertion(c)
             p == IF call[c].key = 0 THEN 0 ELSE made.ids + 2
  <2>2. a \in Nat /\ p \in Nat
    BY <1>a DEF Assertion
  <2>3. call' = [call EXCEPT ![c].at = "sent", ![c].assertion = a, ![c].proof = p]
    BY <1>6 DEF BuildToken
  <2> HIDE DEF a, p
  <2>4. call' \in [Call -> CallRecord]
    <3>1. [call[c] EXCEPT !.at = "sent", !.assertion = a, !.proof = p] \in CallRecord
      BY <1>a, <2>2 DEF CallRecord, CallAt
    <3>2. call' = [call EXCEPT ![c] = [call[c] EXCEPT !.at = "sent", !.assertion = a, !.proof = p]]
      BY <1>a, <2>3
    <3> QED BY <1>b, <3>1, <3>2
  <2>5. UNCHANGED <<proofMix, key, bound, granted, nonceOf, serverVars>>
    BY <1>6 DEF BuildToken
  <2> QED BY <1>a, <2>1, <2>4, <2>5, ProofTypeStep, SeenLater
<1>7. ASSUME NEW c \in Call, Unsupported(c) PROVE ProofTypeOK'
  <2>1. call' \in [Call -> CallRecord]
    <3>1. call[c] \in CallRecord
      BY <1>a
    <3>2. [call[c] EXCEPT !.at = "failed", !.disturbed = TRUE] \in CallRecord
      BY <3>1 DEF CallRecord, CallAt
    <3>3. call' = [call EXCEPT ![c] = [call[c] EXCEPT !.at = "failed", !.disturbed = TRUE]]
      BY <1>7 DEF Unsupported
    <3> QED BY <1>b, <3>2, <3>3
  <2> QED BY <1>7, <1>a, <2>1, ProofTypeStep DEF Unsupported
<1>17. ASSUME NEW c \in Call, ReadForHeaders(c) PROVE ProofTypeOK'
  <2> DEFINE k == IF bound = 0 THEN 0 ELSE key
  <2>1. k \in Nat
    BY <1>a
  <2>2. call' = [call EXCEPT ![c].at = "headers", ![c].key = k]
    BY <1>17 DEF ReadForHeaders
  <2> HIDE DEF k
  <2>3. call' \in [Call -> CallRecord]
    <3>1. [call[c] EXCEPT !.at = "headers", !.key = k] \in CallRecord
      BY <1>a, <2>1 DEF CallRecord, CallAt
    <3>2. call' = [call EXCEPT ![c] = [call[c] EXCEPT !.at = "headers", !.key = k]]
      BY <1>a, <2>2
    <3> QED BY <1>b, <3>1, <3>2
  <2> QED BY <1>17, <1>a, <2>3, ProofTypeStep DEF ReadForHeaders
<1>8. ASSUME NEW c \in Call, BuildPost(c) PROVE ProofTypeOK'
  <2>1. made' \in [keys : Nat, ids : Nat, nonces : Nat] /\ made'.ids = made.ids + 1 /\ made'.keys = made.keys
    BY <1>8, <1>a DEF BuildPost
  <2> DEFINE n == IF call[c].key # 0 THEN NonceOfPost(c) ELSE 0
             p == IF call[c].key # 0 THEN made.ids + 1 ELSE 0
  <2>2. n \in Nat /\ p \in Nat
    BY <1>a DEF NonceOfPost, Endpoint
  <2>3. call' = [call EXCEPT ![c] = [call[c] EXCEPT !.at = "sent", !.token = bound, !.nonce = n, !.proof = p]]
    BY <1>8 DEF BuildPost
  <2> HIDE DEF n, p
  <2>4. call' \in [Call -> CallRecord]
    <3>0. call[c] \in CallRecord /\ bound \in Nat
      BY <1>a
    <3>1. [call[c] EXCEPT !.at = "sent", !.token = bound] \in CallRecord
      BY <3>0 DEF CallRecord, CallAt
    <3>2. PICK y \in CallRecord : y = [call[c] EXCEPT !.at = "sent", !.token = bound]
      BY <3>1
    <3>3. [y EXCEPT !.nonce = n, !.proof = p] \in CallRecord
      BY <2>2 DEF CallRecord
    <3>4. [y EXCEPT !.nonce = n, !.proof = p]
            = [call[c] EXCEPT !.at = "sent", !.token = bound, !.nonce = n, !.proof = p]
      BY <3>0, <3>2 DEF CallRecord
    <3> QED BY <1>b, <2>3, <3>3, <3>4
  <2>5. UNCHANGED <<proofMix, key, bound, granted, nonceOf, serverVars>>
    BY <1>8 DEF BuildPost
  <2> QED BY <1>a, <2>1, <2>4, <2>5, ProofTypeStep, SeenLater
<1>c. ASSUME NEW c \in Call, NEW what \in {"nonce", "renewed"}, HandOut(c, what)
      PROVE  /\ made' \in [keys : Nat, ids : Nat, nonces : Nat] /\ made'.ids = made.ids
             /\ made'.keys = made.keys
             /\ issuedNonces' \in [Endpoint -> Nat] /\ call' \in [Call -> CallRecord]
  <2> DEFINE n == made.nonces + 1
  <2>1. n \in Nat
    BY <1>a
  <2>2. /\ issuedNonces' = [issuedNonces EXCEPT ![EndpointOf(c)] = n]
        /\ made' = [made EXCEPT !.nonces = n]
        /\ call' = [call EXCEPT ![c].at = "answered", ![c].answer = what, ![c].issued = n]
    BY <1>c DEF HandOut
  <2> HIDE DEF n
  <2>3. [call[c] EXCEPT !.at = "answered", !.answer = what, !.issued = n] \in CallRecord
    <3>1. call[c] \in CallRecord /\ what \in HowAnswered
      BY <1>a DEF HowAnswered
    <3>2. [call[c] EXCEPT !.at = "answered", !.answer = what] \in CallRecord
      BY <3>1 DEF CallRecord, CallAt
    <3>3. PICK y \in CallRecord : y = [call[c] EXCEPT !.at = "answered", !.answer = what]
      BY <3>2
    <3>4. [y EXCEPT !.issued = n] \in CallRecord
      BY <2>1 DEF CallRecord
    <3>5. [y EXCEPT !.issued = n] = [call[c] EXCEPT !.at = "answered", !.answer = what, !.issued = n]
      BY <3>1, <3>3 DEF CallRecord
    <3> QED BY <3>4, <3>5
  <2>4. call' = [call EXCEPT ![c] = [call[c] EXCEPT !.at = "answered", !.answer = what, !.issued = n]]
    BY <1>a, <2>2
  <2>5. call' \in [Call -> CallRecord]
    BY <1>b, <2>3, <2>4
  <2>6. issuedNonces' \in [Endpoint -> Nat]
    BY <1>a, <2>1, <2>2
  <2> QED BY <1>a, <2>1, <2>2, <2>5, <2>6
<1>d. ASSUME NEW c \in Call, NEW what \in {"ok", "invalid"}, Reply(c, what)
      PROVE  call' \in [Call -> CallRecord]
  <2>1. [call[c] EXCEPT !.at = "answered", !.answer = what] \in CallRecord
    BY <1>a DEF CallRecord, CallAt, HowAnswered
  <2>2. call' = [call EXCEPT ![c] = [call[c] EXCEPT !.at = "answered", !.answer = what]]
    BY <1>a, <1>d DEF Reply
  <2> QED BY <1>b, <2>1, <2>2
<1>f. ASSUME NEW c \in Call, Shows(c)
      PROVE  /\ idsShown \subseteq idsShown' /\ idsShown' \subseteq 1 .. made.ids
             /\ call[c].assertion # 0 => call[c].assertion \in idsShown'
             /\ call[c].proof # 0 => call[c].proof \in idsShown'
             /\ replayed' \in BOOLEAN
  <2>1. call[c].assertion \in Nat /\ call[c].proof \in Nat
    BY <1>a DEF CallRecord
  <2>2. call[c].assertion <= made.ids /\ call[c].proof <= made.ids
    BY DEF Bounded
  <2>3. Ids(c) \subseteq 1 .. made.ids
    BY <1>a, <2>1, <2>2 DEF Ids
  <2>4. idsShown' = idsShown \cup Ids(c) /\ replayed' = (replayed \/ Ids(c) \cap idsShown # {})
    BY <1>f DEF Shows
  <2> QED BY <1>a, <2>3, <2>4 DEF Ids
<1>9. ASSUME NEW c \in Call, AtTokenEndpoint(c) PROVE ProofTypeOK'
  <2>0. UNCHANGED <<proofMix, key, bound, granted, nonceOf>> /\ Shows(c)
    BY <1>9 DEF AtTokenEndpoint
  <2>f. /\ idsShown \subseteq idsShown' /\ idsShown' \subseteq 1 .. made.ids
        /\ call[c].assertion # 0 => call[c].assertion \in idsShown'
        /\ call[c].proof # 0 => call[c].proof \in idsShown'
        /\ replayed' \in BOOLEAN
    BY <1>f, <2>0
  <2>1. CASE AssertionSeen(c) /\ Reply(c, "invalid")
             /\ UNCHANGED <<issuedNonces, made, seenProofIds, seenAssertionIds>>
    <3>1. seenProofIds' \cup seenAssertionIds' \subseteq idsShown'
      BY <1>a, <2>1, <2>f
    <3> QED BY <1>a, <1>d, <2>0, <2>1, <2>f, <3>1, ProofTypeStep
  <2>2. CASE ~AssertionSeen(c) /\ Authenticated(c)
    <3>1. seenAssertionIds' \subseteq idsShown'
      BY <1>a, <2>2, <2>f DEF Authenticated
    <3>2. ASSUME UNCHANGED seenProofIds PROVE seenProofIds' \cup seenAssertionIds' \subseteq idsShown'
      BY <1>a, <2>f, <3>1, <3>2
    <3>4. CASE proofMix.dpop
      <4>1. CheckProof(c)
        BY <1>9, <2>2, <3>4 DEF AtTokenEndpoint
      <4>2. CASE AskNonce(c)
        <5>1. HandOut(c, "nonce") /\ UNCHANGED seenProofIds
          BY <4>2 DEF AskNonce
        <5> QED BY <1>a, <1>c, <2>0, <2>f, <3>2, <5>1, ProofTypeStep
      <4>3. CASE AcceptProof(c)
        <5>1. call[c].proof # 0 /\ seenProofIds' = seenProofIds \cup {call[c].proof}
          BY <4>3 DEF AcceptProof
        <5>2. seenProofIds' \cup seenAssertionIds' \subseteq idsShown'
          BY <1>a, <2>f, <3>1, <5>1
        <5>3. CASE Reply(c, "ok") /\ UNCHANGED <<issuedNonces, made>>
          BY <1>a, <1>d, <2>0, <2>f, <5>2, <5>3, ProofTypeStep
        <5>4. CASE HandOut(c, "renewed")
          BY <1>a, <1>c, <2>0, <2>f, <5>2, <5>4, ProofTypeStep
        <5> QED BY <4>3, <5>3, <5>4 DEF AcceptProof
      <4>4. CASE RejectProof(c)
        <5>1. Reply(c, "invalid") /\ UNCHANGED <<issuedNonces, made, seenProofIds>>
          BY <4>4 DEF RejectProof
        <5> QED BY <1>a, <1>d, <2>0, <2>f, <3>2, <5>1, ProofTypeStep
      <4> QED BY <4>1, <4>2, <4>3, <4>4 DEF CheckProof
    <3>5. CASE ~proofMix.dpop
      <4>1. Reply(c, "ok") /\ UNCHANGED <<issuedNonces, made, seenProofIds>>
        BY <1>9, <2>2, <3>5 DEF AtTokenEndpoint
      <4> QED BY <1>a, <1>d, <2>0, <2>f, <3>2, <4>1, ProofTypeStep
    <3> QED BY <3>4, <3>5
  <2> QED BY <1>9, <2>1, <2>2 DEF AtTokenEndpoint
<1>10. ASSUME NEW c \in Call, AtRevocationEndpoint(c) PROVE ProofTypeOK'
  <2>1. /\ UNCHANGED <<proofMix, key, bound, granted, nonceOf, made,
                       issuedNonces, seenProofIds, seenAssertionIds>>
        /\ Shows(c) /\ Reply(c, "ok")
    BY <1>10 DEF AtRevocationEndpoint
  <2>2. idsShown \subseteq idsShown' /\ idsShown' \subseteq 1 .. made.ids /\ replayed' \in BOOLEAN
    BY <1>f, <2>1
  <2>3. seenProofIds' \cup seenAssertionIds' \subseteq idsShown'
    BY <1>a, <2>1, <2>2
  <2> QED BY <1>a, <1>d, <2>1, <2>2, <2>3, ProofTypeStep
<1>11. ASSUME NEW c \in Call, AtMcpServer(c) PROVE ProofTypeOK'
  <2>1. UNCHANGED <<proofMix, key, bound, granted, nonceOf, seenAssertionIds, seenProofIds>> /\ Shows(c)
    BY <1>11 DEF AtMcpServer, AskNonce
  <2>4. idsShown \subseteq idsShown' /\ idsShown' \subseteq 1 .. made.ids /\ replayed' \in BOOLEAN
    BY <1>f, <2>1
  <2>5. seenProofIds' \cup seenAssertionIds' \subseteq idsShown'
    BY <1>a, <2>1, <2>4
  <2>2. CASE HandOut(c, "nonce")
    BY <1>a, <1>c, <2>1, <2>2, <2>4, <2>5, ProofTypeStep
  <2>3. CASE /\ Reply(c, "ok") \/ Reply(c, "invalid")
             /\ UNCHANGED <<issuedNonces, made>>
    BY <1>a, <1>d, <2>1, <2>3, <2>4, <2>5, ProofTypeStep
  <2> QED BY <1>11, <2>2, <2>3 DEF AtMcpServer, AskNonce
<1>12. ASSUME NEW c \in Call, EchoNonce(c) PROVE ProofTypeOK'
  <2>1. call[c].issued \in Nat
    BY <1>a DEF CallRecord
  <2>2. call' \in [Call -> CallRecord]
    BY <1>12, <1>a, <2>1 DEF EchoNonce, CallRecord, CallAt
  <2>3. nonceOf' \in [Endpoint -> Nat]
    BY <1>12, <1>a, <2>1 DEF EchoNonce
  <2> QED BY <1>12, <1>a, <2>2, <2>3, ProofTypeStep DEF EchoNonce
<1>13. ASSUME NEW c \in Call, Succeed(c) PROVE ProofTypeOK'
  <2>1. call' \in [Call -> CallRecord]
    BY <1>13, <1>a DEF Succeed, CallRecord, CallAt
  <2>3. nonceOf' \in [Endpoint -> Nat]
    <3>1. call[c].issued \in Nat
      BY <1>a DEF CallRecord
    <3> QED BY <1>13, <1>a, <3>1 DEF Succeed
  <2>2. bound' \in 0 .. made.keys /\ granted' \in BOOLEAN
    <3>1. call[c].key \in Nat
      BY <1>a DEF CallRecord
    <3>2. call[c].key \in 0 .. made.keys /\ 0 \in 0 .. made.keys
      BY <1>a, <3>1 DEF Bounded
    <3> QED BY <1>13, <1>a, <3>2 DEF Succeed
  <2> QED BY <1>13, <1>a, <2>1, <2>2, <2>3, ProofTypeStep DEF Succeed
<1>14. ASSUME NEW c \in Call, RefuseCall(c) PROVE ProofTypeOK'
  <2>1. call' \in [Call -> CallRecord]
    BY <1>14, <1>a DEF RefuseCall, CallRecord, CallAt
  <2> QED BY <1>14, <1>a, <2>1, ProofTypeStep DEF RefuseCall
<1>15. ASSUME ProofMishap PROVE ProofTypeOK'
  <2>1. PICK m \in proofMix.mishaps :
          /\ proofMix' = [proofMix EXCEPT !.mishaps = @ \ {m}]
          /\ \/ \E e \in Endpoint :
                  /\ issuedNonces' = [issuedNonces EXCEPT ![e] = 0]
                  /\ call' = Disturbing(Peers(e), call)
             \/ \E c \in Call :
                  /\ call' = [call EXCEPT ![c].at = "failed", ![c].disturbed = TRUE]
                  /\ UNCHANGED issuedNonces
    BY <1>15 DEF ProofMishap
  <2>2. UNCHANGED <<key, bound, granted, nonceOf, made, seenProofIds, seenAssertionIds,
                    idsShown, replayed>>
    BY <1>15 DEF ProofMishap
  <2>3. proofMix' \in ProofMixSet
    BY <2>1 DEF ProofTypeOK, ProofMixSet
  <2>4. issuedNonces' \in [Endpoint -> Nat]
    <3>1. ASSUME NEW e \in Endpoint, issuedNonces' = [issuedNonces EXCEPT ![e] = 0]
          PROVE  issuedNonces' \in [Endpoint -> Nat]
      BY <1>a, <3>1
    <3> QED BY <1>a, <2>1, <3>1
  <2>5. call' \in [Call -> CallRecord]
    <3>1. ASSUME NEW c \in Call, call' = [call EXCEPT ![c].at = "failed", ![c].disturbed = TRUE]
          PROVE  call' \in [Call -> CallRecord]
      <4>1. call[c] \in CallRecord
        BY <1>a
      <4>2. [call[c] EXCEPT !.at = "failed", !.disturbed = TRUE] \in CallRecord
        BY <4>1 DEF CallRecord, CallAt
      <4>3. call' = [call EXCEPT ![c] = [call[c] EXCEPT !.at = "failed", !.disturbed = TRUE]]
        BY <3>1
      <4> QED BY <1>b, <4>2, <4>3
    <3>2. ASSUME NEW e \in Endpoint, call' = Disturbing(Peers(e), call)
          PROVE  call' \in [Call -> CallRecord]
      BY <1>a, <3>2, DisturbingCalls
    <3> QED BY <2>1, <3>1, <3>2
  <2> QED BY <2>2, <2>3, <2>4, <2>5 DEF ProofTypeOK
<1>16. ASSUME UNCHANGED proofVars PROVE ProofTypeOK'
  BY <1>16 DEF proofVars, ProofTypeOK
<1> QED
  BY <1>1, <1>2, <1>4, <1>5, <1>6, <1>7, <1>8, <1>9, <1>10, <1>11, <1>12, <1>13, <1>14,
     <1>15, <1>16, <1>17 DEF ProofNext

(***************************************************************************)
(* No id is shown to a server twice.                                       *)
(***************************************************************************)

\* What is on its way was shown to no server, and two requests carry two ids.
Unseen ==
  /\ ~replayed
  /\ \A c \in Call : proofMix.does[c] = "mcp" => call[c].assertion = 0
  /\ \A c \in Call : call[c].at = "sent" =>
       call[c].assertion \notin idsShown /\ call[c].proof \notin idsShown
  /\ \A c, d \in Call :
       call[c].at = "sent" /\ call[d].at = "sent" /\ c # d => Ids(c) \cap Ids(d) = {}

FreshInv == ProofTypeOK /\ Bounded /\ Unseen

LEMMA FreshInit == ProofInit => Bounded /\ Unseen
BY DEF ProofInit, Bounded, Unseen, NewCall

\* A step that makes no id and shows none to a server.
LEMMA FreshQuietly ==
  ASSUME FreshInv,
         made'.ids >= made.ids, made'.keys >= made.keys, made' \in [keys : Nat, ids : Nat, nonces : Nat],
         UNCHANGED <<idsShown, replayed>>, proofMix'.does = proofMix.does,
         \A c \in Call : /\ call'[c].proof \in {call[c].proof, 0}
                         /\ call'[c].assertion \in {call[c].assertion, 0}
                         /\ call'[c].key = call[c].key \/ (call'[c].key \in Nat /\ call'[c].key <= made.keys)
                         /\ call'[c].at = "sent" => call[c].at = "sent"
  PROVE  Bounded' /\ Unseen'
<1>1. /\ made \in [keys : Nat, ids : Nat, nonces : Nat]
      /\ \A c \in Call : call[c] \in CallRecord
      /\ \A c \in Call : call[c].proof \in Nat /\ call[c].assertion \in Nat /\ call[c].key \in Nat
      /\ 0 \notin idsShown
  BY DEF FreshInv, ProofTypeOK, CallRecord
<1>2. Bounded'
  BY <1>1 DEF FreshInv, Bounded
<1>3. Unseen'
  <2>1. ~replayed'
    BY DEF FreshInv, Unseen
  <2>2. ASSUME NEW c \in Call, call'[c].at = "sent"
        PROVE  call'[c].assertion \notin idsShown /\ call'[c].proof \notin idsShown
    BY <1>1, <2>2 DEF FreshInv, Unseen
  <2>3. ASSUME NEW c \in Call, NEW d \in Call, call'[c].at = "sent", call'[d].at = "sent", c # d
        PROVE  (Ids(c) \cap Ids(d) = {})'
    <3>1. Ids(c) \cap Ids(d) = {}
      BY <2>3 DEF FreshInv, Unseen
    <3>2. Ids(c)' \subseteq Ids(c) /\ Ids(d)' \subseteq Ids(d)
      BY DEF Ids
    <3> QED BY <3>1, <3>2
  <2>4. \A d \in Call : proofMix'.does[d] = "mcp" => call'[d].assertion = 0
    BY DEF FreshInv, Unseen
  <2> QED BY <2>1, <2>2, <2>3, <2>4 DEF Unseen
<1> QED BY <1>2, <1>3

\* A request leaves with ids made for it.
LEMMA FreshRequest ==
  ASSUME FreshInv, NEW c \in Call,
         made' \in [keys : Nat, ids : Nat, nonces : Nat],
         made'.ids >= made.ids, made'.keys = made.keys,
         UNCHANGED <<idsShown, replayed>>, proofMix'.does = proofMix.does,
         call'[c].proof = 0 \/ call'[c].proof \in (made.ids + 1) .. made'.ids,
         \/ call'[c].assertion = 0
         \/ proofMix.does[c] # "mcp" /\ call'[c].assertion \in (made.ids + 1) .. made'.ids,
         call'[c].key \in Nat, call'[c].key <= made.keys,
         \A d \in Call \ {c} : call'[d] = call[d]
  PROVE  Bounded' /\ Unseen'
<1>1. /\ made \in [keys : Nat, ids : Nat, nonces : Nat]
      /\ \A d \in Call : call[d] \in CallRecord
      /\ \A d \in Call : call[d].proof \in Nat /\ call[d].assertion \in Nat /\ call[d].key \in Nat
      /\ idsShown \subseteq 1 .. made.ids
  BY DEF FreshInv, ProofTypeOK, CallRecord
<1>2. \A d \in Call : call[d].proof <= made.ids /\ call[d].assertion <= made.ids /\ call[d].key <= made.keys
  BY DEF FreshInv, Bounded
<1>3. /\ call'[c].proof \in Nat /\ call'[c].proof <= made'.ids
      /\ call'[c].assertion \in Nat /\ call'[c].assertion <= made'.ids
  BY <1>1
<1>4. call'[c].assertion = 0 \/ call'[c].assertion > made.ids
  BY <1>1
<1>5. call'[c].proof = 0 \/ call'[c].proof > made.ids
  BY <1>1
<1>6. Bounded'
  BY <1>1, <1>2, <1>3 DEF Bounded
<1>7. ASSUME NEW d \in Call, call'[d].at = "sent"
      PROVE  call'[d].assertion \notin idsShown /\ call'[d].proof \notin idsShown
  <2>1. CASE d = c
    BY <1>1, <1>3, <1>4, <1>5, <2>1
  <2>2. CASE d # c
    BY <1>7, <2>2 DEF FreshInv, Unseen
  <2> QED BY <2>1, <2>2
<1>8. ASSUME NEW d \in Call, d # c PROVE (Ids(d) \cap Ids(c) = {})' /\ Ids(d)' = Ids(d)
  <2>1. call'[d] = call[d]
    BY <1>8
  <2>2. \A i \in Ids(d)' : i \in Nat /\ i <= made.ids
    BY <1>1, <1>2, <2>1 DEF Ids
  <2>3. \A i \in Ids(c)' : i \in Nat /\ i > made.ids
    BY <1>3, <1>4, <1>5 DEF Ids
  <2>4. Ids(d)' \cap Ids(c)' = {}
    BY <1>1, <2>2, <2>3
  <2> QED BY <2>1, <2>4 DEF Ids
<1>10. ASSUME NEW d \in Call, NEW b \in Call, call'[d].at = "sent", call'[b].at = "sent", d # b
       PROVE  (Ids(d) \cap Ids(b) = {})'
  <2>1. CASE d # c /\ b # c
    <3>1. Ids(d) \cap Ids(b) = {}
      BY <1>10, <2>1 DEF FreshInv, Unseen
    <3> QED BY <1>8, <2>1, <3>1
  <2>2. CASE d = c
    BY <1>8, <1>10, <2>2
  <2>3. CASE b = c
    BY <1>8, <1>10, <2>3
  <2> QED BY <2>1, <2>2, <2>3
<1>9. \A d \in Call : proofMix'.does[d] = "mcp" => call'[d].assertion = 0
  BY DEF FreshInv, Unseen
<1>11. ~replayed' /\ idsShown' = idsShown
  BY DEF FreshInv, Unseen
<1> QED BY <1>6, <1>7, <1>9, <1>10, <1>11 DEF Unseen

\* A server is shown the ids of a request it answers, and none was shown before.
LEMMA FreshAnswer ==
  ASSUME FreshInv, NEW c \in Call, call[c].at = "sent", Shows(c),
         made' \in [keys : Nat, ids : Nat, nonces : Nat],
         made'.ids = made.ids, made'.keys = made.keys, proofMix'.does = proofMix.does,
         call'[c].proof = call[c].proof, call'[c].assertion = call[c].assertion,
         call'[c].key = call[c].key, call'[c].at # "sent",
         \A d \in Call \ {c} : call'[d] = call[d]
  PROVE  Bounded' /\ Unseen'
<1>1. Bounded'
  BY DEF FreshInv, Bounded
<1>5. Ids(c) \cap idsShown = {}
  BY DEF FreshInv, Unseen, Ids
<1>6. ~replayed' /\ idsShown' = idsShown \cup Ids(c)
  BY <1>5 DEF Shows, FreshInv, Unseen
<1>7. \A d \in Call \ {c} : Ids(d)' = Ids(d)
  BY DEF Ids
<1>8. 0 \notin Ids(c)
  BY DEF Ids
<1>2. ASSUME NEW d \in Call, call'[d].at = "sent"
      PROVE  call'[d].assertion \notin idsShown' /\ call'[d].proof \notin idsShown'
  <2>1. d # c /\ call'[d] = call[d] /\ call[d].at = "sent"
    BY <1>2
  <2>2. /\ Ids(c) \cap Ids(d) = {}
        /\ call[d].assertion \notin idsShown /\ call[d].proof \notin idsShown
    BY <2>1 DEF FreshInv, Unseen
  <2>3. call[d].assertion \in Ids(d) \cup {0} /\ call[d].proof \in Ids(d) \cup {0}
    BY DEF Ids
  <2> QED BY <1>6, <1>8, <2>1, <2>2, <2>3
<1>3. ASSUME NEW d \in Call, NEW b \in Call, call'[d].at = "sent", call'[b].at = "sent", d # b
      PROVE  (Ids(d) \cap Ids(b) = {})'
  <2>1. d # c /\ b # c
    BY <1>3
  <2>2. Ids(d) \cap Ids(b) = {}
    BY <1>3, <2>1 DEF FreshInv, Unseen
  <2> QED BY <1>7, <2>1, <2>2
<1>4. \A d \in Call : proofMix'.does[d] = "mcp" => call'[d].assertion = 0
  BY DEF FreshInv, Unseen
<1> QED BY <1>1, <1>2, <1>3, <1>4, <1>6 DEF Unseen

LEMMA FreshNext == FreshInv /\ [ProofNext]_proofVars => FreshInv'
<1> SUFFICES ASSUME FreshInv, [ProofNext]_proofVars PROVE FreshInv'
  OBVIOUS
<1> USE DEF serverVars
<1>t. ProofTypeOK'
  BY ProofTypeNext DEF FreshInv
<1>a. /\ made \in [keys : Nat, ids : Nat, nonces : Nat] /\ made' \in [keys : Nat, ids : Nat, nonces : Nat]
      /\ key \in Nat /\ key <= made.keys /\ call \in [Call -> CallRecord]
      /\ \A c \in Call : call[c] \in CallRecord
      /\ \A c \in Call : call[c].key \in Nat /\ call[c].proof \in Nat
  BY <1>t DEF FreshInv, ProofTypeOK, CallRecord
<1> SUFFICES Bounded' /\ Unseen'
  BY <1>t DEF FreshInv
<1>b. ASSUME NEW c \in Call, NEW r \in CallRecord, Begin(c, r),
             r.proof = 0, r.assertion = 0, r.key <= made.keys, r.at = "build",
             UNCHANGED <<proofMix, made, idsShown, replayed>>
      PROVE  Bounded' /\ Unseen'
  <2> DEFINE calls == [call EXCEPT ![c] = r]
  <2>1. calls \in [Call -> CallRecord]
    BY <1>a
  <2>2. \A d \in Call : /\ call'[d].proof = calls[d].proof /\ call'[d].key = calls[d].key
                        /\ call'[d].assertion = calls[d].assertion /\ call'[d].at = calls[d].at
    <3> DEFINE C == IF Peers(EndpointOf(c)) # {} THEN Peers(EndpointOf(c)) \cup {c}
                    ELSE IF Untold(EndpointOf(c)) THEN {c} ELSE {}
    <3>1. call' = Disturbing(C, calls)
      BY <1>b DEF Begin
    <3> HIDE DEF C, calls
    <3> QED BY <2>1, <3>1, DisturbingCalls
  <2>3. r.key \in Nat
    BY DEF CallRecord
  <2> QED BY <1>a, <1>b, <2>2, <2>3, FreshQuietly
<1>1. ASSUME NEW c \in Call, LookForKey(c) PROVE Bounded' /\ Unseen'
  BY <1>1, <1>a, FreshQuietly DEF LookForKey, CallRecord
<1>2. ASSUME NEW c \in Call, StoreKey(c) PROVE Bounded' /\ Unseen'
  <2>1. [call EXCEPT ![c].at = "done"] \in [Call -> CallRecord]
    BY <1>a DEF CallRecord, CallAt
  <2>2. \A d \in Call : /\ call'[d].proof = call[d].proof /\ call'[d].key = call[d].key
                        /\ call'[d].assertion = call[d].assertion
                        /\ call'[d].at = "sent" => call[d].at = "sent"
    <3> DEFINE calls == [call EXCEPT ![c].at = "done"]
               C == {d \in Call : Active(d)}
    <3>1. call' = Disturbing(C, calls)
      BY <1>2 DEF StoreKey
    <3>2. \A d \in Call : /\ calls[d].proof = call[d].proof /\ calls[d].key = call[d].key
                          /\ calls[d].assertion = call[d].assertion
                          /\ calls[d].at = "sent" => call[d].at = "sent"
      BY <1>a DEF CallRecord
    <3>3. calls \in [Call -> CallRecord]
      BY <2>1
    <3> HIDE DEF C, calls
    <3> QED BY <3>1, <3>2, <3>3, DisturbingCalls
  <2>3. made'.ids = made.ids /\ made'.keys = made.keys + 1
    BY <1>2, <1>a DEF StoreKey
  <2>4. UNCHANGED <<proofMix, idsShown, replayed>>
    BY <1>2 DEF StoreKey
  <2> QED BY <1>a, <2>2, <2>3, <2>4, FreshQuietly
<1>4. ASSUME NEW c \in Call, BeginToken(c) PROVE Bounded' /\ Unseen'
  <2> DEFINE k == IF proofMix.does[c] = "revoke" THEN 0 ELSE key
             n == IF k = 0 THEN 0 ELSE nonceOf["token"]
             r == [NewCall EXCEPT !.at = "build", !.key = k, !.nonce = n]
  <2>1. k \in Nat /\ n \in Nat /\ k <= made.keys
    BY <1>a DEF FreshInv, ProofTypeOK, Endpoint
  <2>2. Begin(c, r) /\ UNCHANGED <<proofMix, made, idsShown, replayed>>
    BY <1>4 DEF BeginToken
  <2> HIDE DEF k, n
  <2>3. r \in CallRecord /\ r.proof = 0 /\ r.assertion = 0 /\ r.key = k /\ r.at = "build"
    BY <2>1 DEF NewCall, CallRecord, CallAt, HowAnswered
  <2> HIDE DEF r
  <2> QED BY <1>b, <2>1, <2>2, <2>3
<1>5. ASSUME NEW c \in Call, BeginPost(c) PROVE Bounded' /\ Unseen'
  <2> DEFINE r == [NewCall EXCEPT !.at = "build"]
  <2>1. r \in CallRecord /\ r.proof = 0 /\ r.assertion = 0 /\ r.key = 0 /\ r.at = "build"
    BY DEF NewCall, CallRecord, CallAt, HowAnswered
  <2>2. Begin(c, r) /\ UNCHANGED <<proofMix, made, idsShown, replayed>>
    BY <1>5 DEF BeginPost
  <2> HIDE DEF r
  <2> QED BY <1>a, <1>b, <2>1, <2>2
<1>6. ASSUME NEW c \in Call, BuildToken(c) PROVE Bounded' /\ Unseen'
  <2>1. made'.ids = made.ids + 2 /\ made'.keys = made.keys
    BY <1>6, <1>a DEF BuildToken
  <2>2. proofMix.does[c] # "mcp" /\ UNCHANGED <<proofMix, idsShown, replayed>>
    BY <1>6 DEF BuildToken, CallIs, TokenKinds
  <2>3. /\ call'[c].proof = IF call[c].key = 0 THEN 0 ELSE made.ids + 2
        /\ call'[c].assertion = IF proofMix.method = "private_key_jwt" THEN made.ids + 1 ELSE 0
        /\ call'[c].key = call[c].key
        /\ \A d \in Call \ {c} : call'[d] = call[d]
    BY <1>6, <1>a DEF BuildToken, Assertion, CallRecord
  <2>4. call'[c].key <= made.keys
    BY <2>3 DEF FreshInv, Bounded
  <2>5. call'[c].proof = 0 \/ call'[c].proof \in (made.ids + 1) .. made'.ids
    BY <1>a, <2>1, <2>3
  <2>6. call'[c].assertion = 0 \/ call'[c].assertion \in (made.ids + 1) .. made'.ids
    BY <1>a, <2>1, <2>3
  <2> QED BY <1>a, <2>1, <2>2, <2>3, <2>4, <2>5, <2>6, FreshRequest
<1>7. ASSUME NEW c \in Call, Unsupported(c) PROVE Bounded' /\ Unseen'
  BY <1>7, <1>a, FreshQuietly DEF Unsupported, CallRecord
<1>17. ASSUME NEW c \in Call, ReadForHeaders(c) PROVE Bounded' /\ Unseen'
  <2>1. call'[c].key \in Nat /\ call'[c].key <= made.keys
    BY <1>17, <1>a DEF ReadForHeaders, CallRecord
  <2>2. /\ call'[c].proof = call[c].proof /\ call'[c].assertion = call[c].assertion
        /\ call'[c].at = "headers"
        /\ \A d \in Call \ {c} : call'[d] = call[d]
    BY <1>17, <1>a DEF ReadForHeaders, CallRecord
  <2>3. UNCHANGED <<proofMix, made, idsShown, replayed>>
    BY <1>17 DEF ReadForHeaders
  <2> QED BY <1>a, <2>1, <2>2, <2>3, FreshQuietly
<1>8. ASSUME NEW c \in Call, BuildPost(c) PROVE Bounded' /\ Unseen'
  <2>1. made'.ids = made.ids + 1 /\ made'.keys = made.keys
    BY <1>8, <1>a DEF BuildPost
  <2>2. proofMix.does[c] = "mcp" /\ UNCHANGED <<proofMix, idsShown, replayed>>
    BY <1>8 DEF BuildPost, CallIs
  <2>3. /\ call'[c].proof = IF call[c].key # 0 THEN made.ids + 1 ELSE 0
        /\ call'[c].assertion = call[c].assertion
        /\ call'[c].key = call[c].key
        /\ \A d \in Call \ {c} : call'[d] = call[d]
    BY <1>8, <1>a DEF BuildPost, CallRecord
  <2>4. call'[c].assertion = 0
    BY <2>2, <2>3 DEF FreshInv, Unseen
  <2>5. call'[c].proof = 0 \/ call'[c].proof \in (made.ids + 1) .. made'.ids
    BY <1>a, <2>1, <2>3
  <2>6. call'[c].key \in Nat /\ call'[c].key <= made.keys
    BY <1>a, <2>3 DEF FreshInv, Bounded
  <2> QED BY <1>a, <2>1, <2>2, <2>3, <2>4, <2>5, <2>6, FreshRequest
<1>c. ASSUME NEW c \in Call, NEW what \in {"nonce", "renewed"}, HandOut(c, what)
      PROVE  /\ made'.ids = made.ids /\ made'.keys = made.keys
             /\ call'[c].proof = call[c].proof /\ call'[c].assertion = call[c].assertion
             /\ call'[c].key = call[c].key /\ call'[c].at # "sent"
             /\ \A d \in Call \ {c} : call'[d] = call[d]
  BY <1>a, <1>c DEF HandOut, CallRecord
<1>d. ASSUME NEW c \in Call, NEW what \in {"ok", "invalid"}, Reply(c, what)
      PROVE  /\ call'[c].proof = call[c].proof /\ call'[c].assertion = call[c].assertion
             /\ call'[c].key = call[c].key /\ call'[c].at # "sent"
             /\ \A d \in Call \ {c} : call'[d] = call[d]
  BY <1>a, <1>d DEF Reply, CallRecord
<1>9. ASSUME NEW c \in Call, AtTokenEndpoint(c) PROVE Bounded' /\ Unseen'
  <2>1. UNCHANGED proofMix /\ call[c].at = "sent" /\ Shows(c)
    BY <1>9 DEF AtTokenEndpoint, CallIs
  <2>2. CASE HandOut(c, "nonce") \/ HandOut(c, "renewed")
    BY <1>a, <1>c, <2>1, <2>2, FreshAnswer
  <2>3. CASE (Reply(c, "ok") \/ Reply(c, "invalid")) /\ UNCHANGED made
    BY <1>a, <1>d, <2>1, <2>3, FreshAnswer
  <2> QED BY <1>9, <2>2, <2>3 DEF AtTokenEndpoint, CheckProof, AskNonce, AcceptProof, RejectProof
<1>10. ASSUME NEW c \in Call, AtRevocationEndpoint(c) PROVE Bounded' /\ Unseen'
  <2>1. call[c].at = "sent" /\ Reply(c, "ok") /\ UNCHANGED <<proofMix, made>> /\ Shows(c)
    BY <1>10 DEF AtRevocationEndpoint, CallIs
  <2> QED BY <1>a, <1>d, <2>1, FreshAnswer
<1>11. ASSUME NEW c \in Call, AtMcpServer(c) PROVE Bounded' /\ Unseen'
  <2>1. UNCHANGED proofMix /\ call[c].at = "sent" /\ Shows(c)
    BY <1>11 DEF AtMcpServer, CallIs
  <2>2. CASE HandOut(c, "nonce")
    BY <1>a, <1>c, <2>1, <2>2, FreshAnswer
  <2>3. CASE (Reply(c, "ok") \/ Reply(c, "invalid")) /\ UNCHANGED made
    BY <1>a, <1>d, <2>1, <2>3, FreshAnswer
  <2> QED BY <1>11, <2>2, <2>3 DEF AtMcpServer, AskNonce
<1>12. ASSUME NEW c \in Call, EchoNonce(c) PROVE Bounded' /\ Unseen'
  BY <1>12, <1>a, FreshQuietly DEF EchoNonce, CallRecord
<1>13. ASSUME NEW c \in Call, Succeed(c) PROVE Bounded' /\ Unseen'
  BY <1>13, <1>a, FreshQuietly DEF Succeed, CallRecord
<1>14. ASSUME NEW c \in Call, RefuseCall(c) PROVE Bounded' /\ Unseen'
  BY <1>14, <1>a, FreshQuietly DEF RefuseCall, CallRecord
<1>15. ASSUME ProofMishap PROVE Bounded' /\ Unseen'
  <2>1. UNCHANGED <<made, idsShown, replayed>>
    BY <1>15 DEF ProofMishap
  <2>2. proofMix'.does = proofMix.does
    BY <1>15 DEF ProofMishap, FreshInv, ProofTypeOK, ProofMixSet
  <2>3. CASE \E e \in Endpoint : call' = Disturbing(Peers(e), call)
    <3>1. \A d \in Call : /\ call'[d].proof = call[d].proof /\ call'[d].key = call[d].key
                          /\ call'[d].assertion = call[d].assertion /\ call'[d].at = call[d].at
      BY <1>a, <2>3, DisturbingCalls
    <3> QED BY <1>a, <2>1, <2>2, <3>1, FreshQuietly
  <2>4. CASE \E c \in Call : call' = [call EXCEPT ![c].at = "failed", ![c].disturbed = TRUE]
    <3>1. \A d \in Call : /\ call'[d].proof = call[d].proof /\ call'[d].key = call[d].key
                          /\ call'[d].assertion = call[d].assertion
                          /\ call'[d].at = "sent" => call[d].at = "sent"
      BY <1>a, <2>4 DEF CallRecord
    <3> QED BY <1>a, <2>1, <2>2, <3>1, FreshQuietly
  <2> QED BY <1>15, <2>3, <2>4 DEF ProofMishap
<1>16. ASSUME UNCHANGED proofVars PROVE Bounded' /\ Unseen'
  BY <1>16 DEF proofVars, FreshInv, Bounded, Unseen, Ids
<1> QED
  BY <1>1, <1>2, <1>4, <1>5, <1>6, <1>7, <1>8, <1>9, <1>10, <1>11, <1>12, <1>13, <1>14,
     <1>15, <1>16, <1>17 DEF ProofNext

(***************************************************************************)
(* An undisturbed request is let through.                                  *)
(***************************************************************************)

Clear(c) == Active(c) /\ ~call[c].disturbed

Alone(c) == \A d \in Call : Active(d) /\ EndpointOf(d) = EndpointOf(c) => d = c

\* It carries what it needs ...
Equipped(c) ==
  /\ proofMix.dpop /\ proofMix.does[c] \in {"exchange", "refresh"} =>
       call[c].key # 0 /\ (call[c].at = "sent" => call[c].proof # 0)
  /\ call[c].at \in {"build", "sent"} /\ proofMix.does[c] \in TokenKinds /\ call[c].key # 0 =>
       call[c].nonce = nonceOf["token"]
  /\ call[c].at = "sent" /\ proofMix.does[c] = "mcp" /\ call[c].key # 0 =>
       call[c].nonce = nonceOf["mcp"]

\* ... and what its server waits for is known, or is in the answer under way.
Heard(c) ==
  /\ call[c].retried => issuedNonces[EndpointOf(c)] # 0
  /\ call[c].at # "answered" => ~Untold(EndpointOf(c))
  /\ call[c].at = "answered" /\ call[c].answer = "nonce" =>
       /\ ~call[c].retried
       /\ call[c].issued # 0 /\ call[c].issued = issuedNonces[EndpointOf(c)]
  /\ call[c].at = "answered" /\ call[c].answer = "renewed" =>
       call[c].issued # 0 /\ call[c].issued = issuedNonces[EndpointOf(c)]
  /\ call[c].at = "answered" /\ call[c].answer = "invalid" =>
       proofMix.does[c] = "mcp" /\ call[c].token # call[c].key

Forgiven(c) ==
  call[c].at = "failed" =>
    call[c].disturbed \/ (proofMix.does[c] = "mcp" /\ call[c].token # call[c].key)

LetThrough(c) == (Clear(c) => Alone(c) /\ Equipped(c) /\ Heard(c)) /\ Forgiven(c)
Understood == \A c \in Call : LetThrough(c)

LEMMA Endpoints == \A c \in Call : EndpointOf(c) \in Endpoint
BY DEF EndpointOf, Endpoint

\* A step elsewhere.
LEMMA Unaffected ==
  ASSUME NEW c \in Call, LetThrough(c),
         call'[c].at = call[c].at, call'[c].retried = call[c].retried,
         call'[c].key = call[c].key, call'[c].token = call[c].token,
         call'[c].nonce = call[c].nonce, call'[c].proof = call[c].proof,
         call'[c].answer = call[c].answer, call'[c].issued = call[c].issued,
         call[c].disturbed => call'[c].disturbed,
         proofMix'.does = proofMix.does, proofMix'.dpop = proofMix.dpop,
         nonceOf'[EndpointOf(c)] = nonceOf[EndpointOf(c)],
         issuedNonces'[EndpointOf(c)] = issuedNonces[EndpointOf(c)],
         \A d \in Call : EndpointOf(d) = EndpointOf(c) /\ call'[d].at \in {"build", "headers", "sent", "answered"}
                           => Active(d)
  PROVE  LetThrough(c)'
<1>1. \A d \in Call : EndpointOf(d)' = EndpointOf(d)
  BY DEF EndpointOf
<1>2. Forgiven(c)'
  BY DEF LetThrough, Forgiven
<1>3. ASSUME Clear(c)' PROVE Clear(c)
  BY <1>3 DEF Clear, Active
<1>4. ASSUME Clear(c)' PROVE Alone(c)'
  BY <1>1, <1>3, <1>4 DEF LetThrough, Alone, Active
<1>5. ASSUME Clear(c)' PROVE Equipped(c)'
  <2>1. Equipped(c)
    BY <1>3, <1>5 DEF LetThrough
  <2>2. /\ proofMix.does[c] \in TokenKinds => EndpointOf(c) = "token"
        /\ proofMix.does[c] = "mcp" => EndpointOf(c) = "mcp"
    BY DEF EndpointOf, TokenKinds
  <2> QED BY <2>1, <2>2 DEF Equipped, TokenKinds
<1>6. ASSUME Clear(c)' PROVE Heard(c)'
  <2>1. Heard(c)
    BY <1>3, <1>6 DEF LetThrough
  <2> QED BY <1>1, <2>1 DEF Heard, Untold
<1> QED BY <1>2, <1>4, <1>5, <1>6 DEF LetThrough

\* A step of a request under way: whatever it does at its endpoint, it is there
\* with disturbed ones only.
LEMMA OneActs ==
  ASSUME Understood, NEW c \in Call, Active(c),
         proofMix'.does = proofMix.does, proofMix'.dpop = proofMix.dpop,
         \A d \in Call \ {c} : call'[d] = call[d],
         \A e \in Endpoint \ {EndpointOf(c)} : nonceOf'[e] = nonceOf[e] /\ issuedNonces'[e] = issuedNonces[e],
         call'[c].disturbed = call[c].disturbed \/ ~Active(c)',
         Clear(c) /\ Clear(c)' => Equipped(c)' /\ Heard(c)',
         Forgiven(c)'
  PROVE  Understood'
<1>1. \A d \in Call : EndpointOf(d)' = EndpointOf(d)
  BY DEF EndpointOf
<1>2. LetThrough(c)'
  <2>1. ASSUME Clear(c)' PROVE Alone(c)' /\ Equipped(c)' /\ Heard(c)'
    <3>1. Clear(c)
      BY <2>1 DEF Clear
    <3>2. Alone(c)
      BY <3>1 DEF Understood, LetThrough
    <3>3. Alone(c)'
      BY <1>1, <3>2 DEF Alone, Active
    <3> QED BY <2>1, <3>1, <3>3
  <2> QED BY <2>1 DEF LetThrough
<1>3. ASSUME NEW d \in Call, d # c PROVE LetThrough(d)'
  <2>1. call'[d] = call[d] /\ LetThrough(d)
    BY <1>3 DEF Understood
  <2>2. CASE Clear(d)
    <3>1. EndpointOf(d) # EndpointOf(c)
      BY <1>3, <2>1, <2>2 DEF LetThrough, Alone
    <3>2. /\ nonceOf'[EndpointOf(d)] = nonceOf[EndpointOf(d)]
          /\ issuedNonces'[EndpointOf(d)] = issuedNonces[EndpointOf(d)]
      BY <3>1, Endpoints
    <3>3. ASSUME NEW b \in Call, EndpointOf(b) = EndpointOf(d),
                 call'[b].at \in {"build", "headers", "sent", "answered"}
          PROVE  Active(b)
      BY <3>1, <3>3 DEF Active
    <3> QED BY <2>1, <3>2, <3>3, Unaffected
  <2>3. CASE ~Clear(d)
    BY <2>1, <2>3 DEF LetThrough, Clear, Active, Forgiven
  <2> QED BY <2>2, <2>3
<1> QED BY <1>2, <1>3 DEF Understood

LEMMA ClearInit == ProofInit => Understood
<1> SUFFICES ASSUME ProofInit, NEW c \in Call PROVE LetThrough(c)
  BY DEF Understood
<1>1. call[c].at = "new"
  BY DEF ProofInit, NewCall
<1> QED BY <1>1 DEF LetThrough, Clear, Active, Forgiven

\* What a request carries to the token endpoint fits.
LEMMA FitsToken ==
  ASSUME FreshInv, NEW c \in Call, Clear(c), LetThrough(c),
         CallIs(c, {"exchange", "refresh"}, "sent"), proofMix.dpop,
         ~(proofMix.nonces /\ issuedNonces["token"] = 0)
  PROVE  NonceFits(c) /\ call[c].proof # 0 /\ call[c].proof \notin seenProofIds
<1>1. EndpointOf(c) = "token" /\ proofMix.does[c] \in TokenKinds /\ call[c].at = "sent"
  BY DEF CallIs, EndpointOf, TokenKinds
<1>2. call[c].key # 0 /\ call[c].proof # 0 /\ call[c].nonce = nonceOf["token"]
  BY <1>1 DEF LetThrough, Equipped, CallIs
<1>3. ~Untold("token")
  BY <1>1 DEF LetThrough, Heard
<1>4. call[c].proof \notin seenProofIds
  BY <1>1 DEF FreshInv, Unseen, ProofTypeOK
<1> QED BY <1>1, <1>2, <1>3, <1>4 DEF NonceFits, Untold

LEMMA FitsMcp ==
  ASSUME NEW c \in Call, Clear(c), LetThrough(c), CallIs(c, {"mcp"}, "sent"), call[c].key # 0,
         ~(proofMix.nonces /\ issuedNonces["mcp"] = 0)
  PROVE  NonceFits(c)
<1>1. EndpointOf(c) = "mcp" /\ call[c].at = "sent" /\ proofMix.does[c] = "mcp"
  BY DEF CallIs, EndpointOf
<1>2. call[c].nonce = nonceOf["mcp"] /\ ~Untold("mcp")
  BY <1>1 DEF LetThrough, Equipped, Heard
<1> QED BY <1>1, <1>2 DEF NonceFits, Untold

\* A request begins: with others it is disturbed, and disturbs them.
LEMMA BeginClear ==
  ASSUME FreshInv, Understood, NEW c \in Call, NEW r \in CallRecord, Begin(c, r),
         call[c].at = "new", r.at = "build", ~r.retried, r.key = 0 \/ r.nonce = nonceOf["token"],
         proofMix.dpop /\ proofMix.does[c] \in {"exchange", "refresh"} => r.key # 0,
         UNCHANGED <<proofMix, nonceOf, issuedNonces>>
  PROVE  Understood'
<1> DEFINE calls == [call EXCEPT ![c] = r]
           C == IF Peers(EndpointOf(c)) # {} THEN Peers(EndpointOf(c)) \cup {c}
                ELSE IF Untold(EndpointOf(c)) THEN {c} ELSE {}
<1>1. call \in [Call -> CallRecord] /\ calls \in [Call -> CallRecord]
  BY DEF FreshInv, ProofTypeOK
<1>2. call' = Disturbing(C, calls)
  BY DEF Begin
<1>3. calls[c] = r /\ \A d \in Call \ {c} : calls[d] = call[d]
  BY <1>1
<1>4. \A d \in Call : EndpointOf(d)' = EndpointOf(d)
  BY DEF EndpointOf
<1> HIDE DEF C, calls
<1>5. \A d \in Call : /\ call'[d].at = calls[d].at /\ call'[d].retried = calls[d].retried
                      /\ call'[d].key = calls[d].key /\ call'[d].token = calls[d].token
                      /\ call'[d].nonce = calls[d].nonce /\ call'[d].proof = calls[d].proof
                      /\ call'[d].answer = calls[d].answer /\ call'[d].issued = calls[d].issued
                      /\ call'[d].disturbed <=> (calls[d].disturbed \/ d \in C)
  BY <1>1, <1>2, DisturbingCalls
<1>6. LetThrough(c)'
  <2>1. call'[c].at = "build" /\ ~call'[c].retried /\ call'[c].key = r.key /\ call'[c].nonce = r.nonce
    BY <1>3, <1>5
  <2>2. Forgiven(c)'
    BY <2>1 DEF Forgiven
  <2>3. ASSUME Clear(c)' PROVE Alone(c)' /\ Equipped(c)' /\ Heard(c)'
    <3>1. c \notin C
      BY <1>5, <2>3 DEF Clear
    <3>2. Peers(EndpointOf(c)) = {} /\ ~Untold(EndpointOf(c))
      BY <3>1 DEF C
    <3>3. Alone(c)'
      BY <1>3, <1>4, <1>5, <3>2 DEF Alone, Active, Peers
    <3>4. Equipped(c)'
      BY <2>1 DEF Equipped
    <3>5. Heard(c)'
      BY <1>4, <2>1, <3>2 DEF Heard, Untold
    <3> QED BY <3>3, <3>4, <3>5
  <2> QED BY <2>2, <2>3 DEF LetThrough
<1>7. ASSUME NEW d \in Call, d # c PROVE LetThrough(d)'
  <2>0. LetThrough(d)
    BY DEF Understood
  <2>1. /\ call'[d].at = call[d].at /\ call'[d].retried = call[d].retried
        /\ call'[d].key = call[d].key /\ call'[d].token = call[d].token
        /\ call'[d].nonce = call[d].nonce /\ call'[d].proof = call[d].proof
        /\ call'[d].answer = call[d].answer /\ call'[d].issued = call[d].issued
        /\ call'[d].disturbed <=> (call[d].disturbed \/ d \in C)
    BY <1>3, <1>5, <1>7
  <2>2. CASE Active(d) /\ EndpointOf(d) = EndpointOf(c)
    <3>1. d \in C
      BY <2>2 DEF C, Peers
    <3> QED BY <2>1, <3>1 DEF LetThrough, Clear, Forgiven
  <2>3. CASE EndpointOf(d) # EndpointOf(c)
    <3>1. \A b \in Call : EndpointOf(b) = EndpointOf(d) /\ call'[b].at \in {"build", "headers", "sent", "answered"}
                            => Active(b)
      BY <1>3, <1>5, <2>3 DEF Active
    <3> QED BY <2>0, <2>1, <3>1, Unaffected
  <2>4. CASE ~Active(d)
    BY <2>0, <2>1, <2>4 DEF LetThrough, Clear, Active, Forgiven
  <2> QED BY <2>2, <2>3, <2>4
<1> QED BY <1>6, <1>7 DEF Understood

\* A step that leaves the calls it finds alone, or disturbs them: those at E.
LeavesAlone(E) ==
  \A c \in Call :
    \/ /\ call[c].at \in {"new", "making"}
       /\ call'[c].at \in {"making", "done"}
    \/ /\ call'[c].at = call[c].at /\ call'[c].retried = call[c].retried
       /\ call'[c].key = call[c].key /\ call'[c].token = call[c].token
       /\ call'[c].nonce = call[c].nonce /\ call'[c].proof = call[c].proof
       /\ call'[c].answer = call[c].answer /\ call'[c].issued = call[c].issued
       /\ call[c].disturbed => call'[c].disturbed
       /\ Active(c) /\ EndpointOf(c) \in E => call'[c].disturbed

LEMMA OnlyDisturbs ==
  ASSUME Understood, NEW E, LeavesAlone(E),
         proofMix'.does = proofMix.does, proofMix'.dpop = proofMix.dpop, UNCHANGED nonceOf,
         \A e \in Endpoint \ E : issuedNonces'[e] = issuedNonces[e]
  PROVE  Understood'
<1> SUFFICES ASSUME NEW c \in Call PROVE LetThrough(c)'
  BY DEF Understood
<1>0. LetThrough(c)
  BY DEF Understood
<1>1. CASE call'[c].at \in {"making", "done"}
  BY <1>1 DEF LetThrough, Clear, Active, Forgiven
<1>2. CASE call'[c].at \notin {"making", "done"}
  <2>1. /\ call'[c].at = call[c].at /\ call'[c].retried = call[c].retried
        /\ call'[c].key = call[c].key /\ call'[c].token = call[c].token
        /\ call'[c].nonce = call[c].nonce /\ call'[c].proof = call[c].proof
        /\ call'[c].answer = call[c].answer /\ call'[c].issued = call[c].issued
        /\ call[c].disturbed => call'[c].disturbed
        /\ Active(c) /\ EndpointOf(c) \in E => call'[c].disturbed
    BY <1>2 DEF LeavesAlone
  <2>2. CASE EndpointOf(c) \in E
    BY <1>0, <2>1, <2>2 DEF LetThrough, Clear, Active, Forgiven
  <2>3. CASE EndpointOf(c) \notin E
    <3>1. \A b \in Call : call'[b].at \in {"build", "headers", "sent", "answered"} => Active(b)
      BY DEF Active, LeavesAlone
    <3>2. issuedNonces'[EndpointOf(c)] = issuedNonces[EndpointOf(c)]
      BY <2>3, Endpoints
    <3> QED BY <1>0, <2>1, <3>1, <3>2, Unaffected
  <2> QED BY <2>2, <2>3
<1> QED BY <1>1, <1>2

LEMMA ClearNext == FreshInv /\ Understood /\ [ProofNext]_proofVars => Understood'
<1> SUFFICES ASSUME FreshInv, Understood, [ProofNext]_proofVars PROVE Understood'
  OBVIOUS
<1> USE DEF serverVars
<1>a. /\ call \in [Call -> CallRecord] /\ issuedNonces \in [Endpoint -> Nat] /\ nonceOf \in [Endpoint -> Nat]
      /\ \A c \in Call : call[c] \in CallRecord /\ EndpointOf(c) \in Endpoint
      /\ made \in [keys : Nat, ids : Nat, nonces : Nat] /\ key \in Nat
  BY Endpoints DEF FreshInv, ProofTypeOK
<1>b. \A c \in Call : LetThrough(c)
  BY DEF Understood
<1>e. \A c \in Call : EndpointOf(c)' = IF proofMix'.does[c] = "mcp" THEN "mcp" ELSE "token"
  BY DEF EndpointOf
<1>1. ASSUME NEW c \in Call, LookForKey(c) PROVE Understood'
  <2>1. /\ call[c].at = "new" /\ call'[c].at \in {"making", "done"}
        /\ \A d \in Call \ {c} : call'[d] = call[d]
        /\ UNCHANGED <<proofMix, nonceOf, issuedNonces>>
    BY <1>1, <1>a DEF LookForKey, CallIs, CallRecord
  <2>2. LeavesAlone({})
    BY <2>1 DEF LeavesAlone
  <2> QED BY <2>1, <2>2, OnlyDisturbs
<1>2. ASSUME NEW c \in Call, StoreKey(c) PROVE Understood'
  <2> DEFINE calls == [call EXCEPT ![c].at = "done"]
             C == {d \in Call : Active(d)}
  <2>1. call' = Disturbing(C, calls) /\ call[c].at = "making" /\ UNCHANGED <<proofMix, nonceOf, issuedNonces>>
    BY <1>2 DEF StoreKey, CallIs
  <2>2. calls \in [Call -> CallRecord]
    BY <1>a DEF CallRecord, CallAt
  <2>3. calls[c].at = "done" /\ \A d \in Call \ {c} : calls[d] = call[d]
    BY <1>a DEF CallRecord
  <2> HIDE DEF C, calls
  <2>4. /\ call'[c].at = "done"
        /\ \A d \in Call \ {c} :
             /\ call'[d].at = call[d].at /\ call'[d].retried = call[d].retried
             /\ call'[d].key = call[d].key /\ call'[d].token = call[d].token
             /\ call'[d].nonce = call[d].nonce /\ call'[d].proof = call[d].proof
             /\ call'[d].answer = call[d].answer /\ call'[d].issued = call[d].issued
             /\ call[d].disturbed => call'[d].disturbed
    BY <2>1, <2>2, <2>3, DisturbingCalls
  <2>5. LeavesAlone({})
    BY <2>1, <2>4 DEF LeavesAlone
  <2> QED BY <2>1, <2>5, OnlyDisturbs
<1>4. ASSUME NEW c \in Call, BeginToken(c) PROVE Understood'
  <2> DEFINE k == IF proofMix.does[c] = "revoke" THEN 0 ELSE key
             n == IF k = 0 THEN 0 ELSE nonceOf["token"]
             r == [NewCall EXCEPT !.at = "build", !.key = k, !.nonce = n]
  <2>1. k \in Nat /\ n \in Nat /\ (k = 0 \/ n = nonceOf["token"])
    BY <1>a DEF Endpoint
  <2>2. /\ Begin(c, r) /\ call[c].at = "new" /\ UNCHANGED <<proofMix, nonceOf, issuedNonces>>
        /\ proofMix.dpop => key # 0
    BY <1>4 DEF BeginToken, CallIs
  <2>3. proofMix.dpop /\ proofMix.does[c] \in {"exchange", "refresh"} => k # 0
    BY <2>2
  <2> HIDE DEF k, n
  <2>4. r \in CallRecord /\ r.at = "build" /\ ~r.retried /\ r.key = k /\ r.nonce = n
    BY <2>1 DEF NewCall, CallRecord, CallAt, HowAnswered
  <2> HIDE DEF r
  <2> QED BY <2>1, <2>2, <2>3, <2>4, BeginClear
<1>5. ASSUME NEW c \in Call, BeginPost(c) PROVE Understood'
  <2> DEFINE r == [NewCall EXCEPT !.at = "build"]
  <2>1. r \in CallRecord /\ r.at = "build" /\ ~r.retried /\ r.key = 0
    BY DEF NewCall, CallRecord, CallAt, HowAnswered
  <2>2. /\ Begin(c, r) /\ call[c].at = "new" /\ UNCHANGED <<proofMix, nonceOf, issuedNonces>>
        /\ proofMix.does[c] = "mcp"
    BY <1>5 DEF BeginPost, CallIs
  <2> HIDE DEF r
  <2> QED BY <2>1, <2>2, BeginClear
<1>6. ASSUME NEW c \in Call, BuildToken(c) PROVE Understood'
  <2>1. /\ Active(c) /\ UNCHANGED <<proofMix, nonceOf, issuedNonces>> /\ call[c].at = "build"
        /\ \A d \in Call \ {c} : call'[d] = call[d]
        /\ proofMix.does[c] \in TokenKinds
    BY <1>6, <1>a DEF BuildToken, CallIs, Active
  <2>2. /\ call'[c].at = "sent" /\ call'[c].disturbed = call[c].disturbed
        /\ call'[c].retried = call[c].retried /\ call'[c].key = call[c].key
        /\ call'[c].nonce = call[c].nonce
        /\ call'[c].proof = IF call[c].key = 0 THEN 0 ELSE made.ids + 2
    BY <1>6, <1>a DEF BuildToken, CallRecord
  <2>3. ASSUME Clear(c) PROVE Equipped(c)'
    <3>1. Equipped(c)
      BY <1>b, <2>3 DEF LetThrough
    <3>2. made.ids + 2 # 0
      BY <1>a
    <3> QED BY <2>1, <2>2, <3>1, <3>2 DEF Equipped, TokenKinds
  <2>4. ASSUME Clear(c) PROVE Heard(c)'
    BY <1>b, <1>e, <2>1, <2>2, <2>4 DEF LetThrough, Heard, Untold, EndpointOf
  <2>5. Forgiven(c)'
    BY <2>2 DEF Forgiven
  <2> QED BY <2>1, <2>2, <2>3, <2>4, <2>5, OneActs
<1>7. ASSUME NEW c \in Call, Unsupported(c) PROVE Understood'
  <2>1. /\ Active(c) /\ UNCHANGED <<proofMix, nonceOf, issuedNonces>>
        /\ \A d \in Call \ {c} : call'[d] = call[d]
        /\ call'[c].at = "failed" /\ call'[c].disturbed
    BY <1>7, <1>a DEF Unsupported, CallIs, Active, CallRecord
  <2> QED BY <2>1, OneActs DEF Clear, Active, Forgiven
<1>17. ASSUME NEW c \in Call, ReadForHeaders(c) PROVE Understood'
  <2>1. /\ Active(c) /\ UNCHANGED <<proofMix, nonceOf, issuedNonces>> /\ call[c].at = "build"
        /\ \A d \in Call \ {c} : call'[d] = call[d]
        /\ proofMix.does[c] = "mcp"
    BY <1>17, <1>a DEF ReadForHeaders, CallIs, Active
  <2>2. /\ call'[c].at = "headers" /\ call'[c].disturbed = call[c].disturbed
        /\ call'[c].retried = call[c].retried
    BY <1>17, <1>a DEF ReadForHeaders, CallRecord
  <2>3. Equipped(c)'
    BY <2>1, <2>2 DEF Equipped, TokenKinds
  <2>4. ASSUME Clear(c) PROVE Heard(c)'
    BY <1>b, <1>e, <2>1, <2>2, <2>4 DEF LetThrough, Heard, Untold, EndpointOf
  <2>5. Forgiven(c)'
    BY <2>2 DEF Forgiven
  <2> QED BY <2>1, <2>2, <2>3, <2>4, <2>5, OneActs
<1>8. ASSUME NEW c \in Call, BuildPost(c) PROVE Understood'
  <2>1. /\ Active(c) /\ UNCHANGED <<proofMix, nonceOf, issuedNonces>> /\ call[c].at = "headers"
        /\ \A d \in Call \ {c} : call'[d] = call[d]
        /\ proofMix.does[c] = "mcp"
    BY <1>8, <1>a DEF BuildPost, CallIs, Active
  <2>2. /\ call'[c].at = "sent" /\ call'[c].disturbed = call[c].disturbed
        /\ call'[c].retried = call[c].retried /\ call'[c].key = call[c].key
        /\ call[c].key # 0 => call'[c].nonce = nonceOf["mcp"]
    BY <1>8, <1>a DEF BuildPost, NonceOfPost, CallRecord
  <2>3. Equipped(c)'
    BY <2>1, <2>2 DEF Equipped, TokenKinds
  <2>4. ASSUME Clear(c) PROVE Heard(c)'
    BY <1>b, <1>e, <2>1, <2>2, <2>4 DEF LetThrough, Heard, Untold, EndpointOf
  <2>5. Forgiven(c)'
    BY <2>2 DEF Forgiven
  <2> QED BY <2>1, <2>2, <2>3, <2>4, <2>5, OneActs
<1>c. ASSUME NEW c \in Call, NEW what \in {"nonce", "renewed"}, HandOut(c, what), call[c].at = "sent",
             UNCHANGED <<proofMix, nonceOf>>,
             what = "nonce" => issuedNonces[EndpointOf(c)] = 0
      PROVE  Understood'
  <2> DEFINE n == made.nonces + 1
  <2>1. /\ call'[c].at = "answered" /\ call'[c].answer = what /\ call'[c].issued = n
        /\ call'[c].disturbed = call[c].disturbed /\ call'[c].retried = call[c].retried
        /\ call'[c].key = call[c].key
        /\ \A d \in Call \ {c} : call'[d] = call[d]
    BY <1>a, <1>c DEF HandOut, CallRecord
  <2>2. /\ issuedNonces'[EndpointOf(c)] = n
        /\ \A e \in Endpoint \ {EndpointOf(c)} : issuedNonces'[e] = issuedNonces[e]
    BY <1>a, <1>c DEF HandOut
  <2>3. n # 0
    BY <1>a
  <2> HIDE DEF n
  <2>4. EndpointOf(c)' = EndpointOf(c)
    BY <1>c DEF EndpointOf
  <2>5. ASSUME Clear(c) PROVE Equipped(c)' /\ Heard(c)'
    <3>1. what = "nonce" => ~call[c].retried
      BY <1>b, <1>c, <2>5 DEF LetThrough, Heard
    <3>2. Heard(c)'
      BY <2>1, <2>2, <2>3, <2>4, <3>1 DEF Heard
    <3>3. Equipped(c)'
      BY <1>b, <1>c, <2>1, <2>5 DEF LetThrough, Equipped
    <3> QED BY <3>2, <3>3
  <2>6. Active(c) /\ Forgiven(c)'
    BY <1>c, <2>1 DEF Active, Forgiven
  <2> QED BY <1>c, <2>1, <2>2, <2>5, <2>6, OneActs
<1>d. ASSUME NEW c \in Call, NEW what \in {"ok", "invalid"}, Reply(c, what), call[c].at = "sent",
             UNCHANGED <<proofMix, nonceOf, issuedNonces>>,
             Clear(c) /\ what = "invalid" => proofMix.does[c] = "mcp" /\ call[c].token # call[c].key
      PROVE  Understood'
  <2>1. /\ call'[c].at = "answered" /\ call'[c].answer = what
        /\ call'[c].disturbed = call[c].disturbed /\ call'[c].retried = call[c].retried
        /\ call'[c].key = call[c].key /\ call'[c].token = call[c].token
        /\ \A d \in Call \ {c} : call'[d] = call[d]
    BY <1>a, <1>d DEF Reply, CallRecord
  <2>2. EndpointOf(c)' = EndpointOf(c)
    BY <1>d DEF EndpointOf
  <2>3. ASSUME Clear(c) PROVE Equipped(c)' /\ Heard(c)'
    <3>1. Heard(c)'
      BY <1>b, <1>d, <2>1, <2>2, <2>3 DEF LetThrough, Heard
    <3>2. Equipped(c)'
      BY <1>b, <1>d, <2>1, <2>3 DEF LetThrough, Equipped
    <3> QED BY <3>1, <3>2
  <2>4. Active(c) /\ Forgiven(c)'
    BY <1>d, <2>1 DEF Active, Forgiven
  <2> QED BY <1>d, <2>1, <2>3, <2>4, OneActs
<1>9. ASSUME NEW c \in Call, AtTokenEndpoint(c) PROVE Understood'
  <2>1. /\ CallIs(c, {"exchange", "refresh"}, "sent") /\ call[c].at = "sent"
        /\ EndpointOf(c) = "token" /\ UNCHANGED <<proofMix, nonceOf>>
    BY <1>9 DEF AtTokenEndpoint, CallIs, EndpointOf
  <2>2. ~AssertionSeen(c)
    BY <2>1 DEF FreshInv, Unseen, AssertionSeen, ProofTypeOK
  <2>3. CASE proofMix.dpop
    <3>1. CheckProof(c)
      BY <1>9, <2>2, <2>3 DEF AtTokenEndpoint
    <3>2. CASE AskNonce(c)
      BY <1>c, <2>1, <3>2 DEF AskNonce
    <3>3. CASE AcceptProof(c)
      <4>1. CASE Reply(c, "ok") /\ UNCHANGED <<issuedNonces, made>>
        BY <1>d, <2>1, <4>1
      <4>2. CASE HandOut(c, "renewed")
        BY <1>c, <2>1, <4>2
      <4> QED BY <3>3, <4>1, <4>2 DEF AcceptProof
    <3>4. CASE RejectProof(c)
      <4>1. ~(proofMix.nonces /\ issuedNonces["token"] = 0) /\ Reply(c, "invalid") /\ UNCHANGED issuedNonces
        BY <3>4 DEF RejectProof
      <4>2. ~Clear(c)
        BY <1>b, <2>1, <2>3, <3>4, <4>1, FitsToken DEF RejectProof
      <4> QED BY <1>d, <2>1, <4>1, <4>2
    <3> QED BY <3>1, <3>2, <3>3, <3>4 DEF CheckProof
  <2>4. CASE ~proofMix.dpop
    <3>1. Reply(c, "ok") /\ UNCHANGED issuedNonces
      BY <1>9, <2>2, <2>4 DEF AtTokenEndpoint
    <3> QED BY <1>d, <2>1, <3>1
  <2> QED BY <2>3, <2>4
<1>10. ASSUME NEW c \in Call, AtRevocationEndpoint(c) PROVE Understood'
  <2>1. call[c].at = "sent" /\ Reply(c, "ok") /\ UNCHANGED <<proofMix, nonceOf, issuedNonces>>
    BY <1>10 DEF AtRevocationEndpoint, CallIs
  <2> QED BY <1>d, <2>1
<1>11. ASSUME NEW c \in Call, AtMcpServer(c) PROVE Understood'
  <2>1. /\ CallIs(c, {"mcp"}, "sent") /\ call[c].at = "sent" /\ proofMix.does[c] = "mcp"
        /\ EndpointOf(c) = "mcp" /\ UNCHANGED <<proofMix, nonceOf>>
    BY <1>11 DEF AtMcpServer, CallIs, EndpointOf
  <2>2. CASE AskNonce(c)
    BY <1>c, <2>1, <2>2 DEF AskNonce
  <2>3. CASE /\ call[c].token = 0 \/ ~(proofMix.nonces /\ issuedNonces["mcp"] = 0)
             /\ Reply(c, IF call[c].token = 0 \/ (NonceFits(c) /\ call[c].key = call[c].token)
                         THEN "ok" ELSE "invalid")
             /\ UNCHANGED <<issuedNonces, made, seenProofIds>>
    <3>1. CASE call[c].token = 0 \/ (NonceFits(c) /\ call[c].key = call[c].token)
      BY <1>d, <2>1, <2>3, <3>1
    <3>2. CASE ~(call[c].token = 0 \/ (NonceFits(c) /\ call[c].key = call[c].token))
      <4>1. Clear(c) => call[c].token # call[c].key
        <5> SUFFICES ASSUME Clear(c), call[c].token = call[c].key PROVE FALSE
          OBVIOUS
        <5>1. call[c].key # 0
          BY <3>2
        <5> QED BY <1>b, <2>1, <2>3, <3>2, <5>1, FitsMcp
      <4> QED BY <1>d, <2>1, <2>3, <3>2, <4>1
    <3> QED BY <3>1, <3>2
  <2> QED BY <1>11, <2>2, <2>3 DEF AtMcpServer
<1>12. ASSUME NEW c \in Call, EchoNonce(c) PROVE Understood'
  <2>1. /\ Active(c) /\ UNCHANGED <<proofMix, issuedNonces>> /\ call[c].at = "answered"
        /\ call[c].answer = "nonce"
        /\ \A d \in Call \ {c} : call'[d] = call[d]
        /\ \A e \in Endpoint \ {EndpointOf(c)} : nonceOf'[e] = nonceOf[e]
        /\ nonceOf'[EndpointOf(c)] = call[c].issued
    BY <1>12, <1>a DEF EchoNonce, Active
  <2>2. /\ call'[c].at = "build" /\ call'[c].disturbed = call[c].disturbed
        /\ call'[c].key = call[c].key /\ call'[c].nonce = call[c].issued
    BY <1>12, <1>a DEF EchoNonce, CallRecord
  <2>3. EndpointOf(c)' = EndpointOf(c)
    BY <2>1 DEF EndpointOf
  <2>4. ASSUME Clear(c) PROVE Equipped(c)' /\ Heard(c)'
    <3>1. call[c].issued # 0 /\ call[c].issued = issuedNonces[EndpointOf(c)]
      BY <1>b, <2>1, <2>4 DEF LetThrough, Heard
    <3>2. Heard(c)'
      BY <2>1, <2>2, <2>3, <3>1 DEF Heard, Untold
    <3>3. proofMix.does[c] \in TokenKinds => EndpointOf(c) = "token"
      BY DEF EndpointOf, TokenKinds
    <3>4. Equipped(c)'
      BY <1>b, <2>1, <2>2, <2>4, <3>3 DEF LetThrough, Equipped
    <3> QED BY <3>2, <3>4
  <2>5. Forgiven(c)'
    BY <2>2 DEF Forgiven
  <2> QED BY <2>1, <2>2, <2>4, <2>5, OneActs
<1>13. ASSUME NEW c \in Call, Succeed(c) PROVE Understood'
  <2>1. /\ Active(c) /\ UNCHANGED <<proofMix, issuedNonces>>
        /\ \A d \in Call \ {c} : call'[d] = call[d]
        /\ call'[c].at = "done"
        /\ \A e \in Endpoint \ {EndpointOf(c)} : nonceOf'[e] = nonceOf[e]
    BY <1>13, <1>a DEF Succeed, Active, CallRecord
  <2> QED BY <2>1, OneActs DEF Clear, Active, Forgiven
<1>14. ASSUME NEW c \in Call, RefuseCall(c) PROVE Understood'
  <2>1. /\ Active(c) /\ UNCHANGED <<proofMix, nonceOf, issuedNonces>>
        /\ \A d \in Call \ {c} : call'[d] = call[d]
        /\ call'[c].at = "failed" /\ call'[c].disturbed = call[c].disturbed
        /\ call'[c].key = call[c].key /\ call'[c].token = call[c].token
    BY <1>14, <1>a DEF RefuseCall, Active, CallRecord
  <2>2. Clear(c) => proofMix.does[c] = "mcp" /\ call[c].token # call[c].key
    BY <1>14, <1>b DEF RefuseCall, LetThrough, Heard
  <2>3. Forgiven(c)'
    BY <2>1, <2>2 DEF Forgiven, Clear
  <2> QED BY <2>1, <2>3, OneActs DEF Clear, Active
<1>15. ASSUME ProofMishap PROVE Understood'
  <2>1. UNCHANGED nonceOf /\ proofMix'.does = proofMix.does /\ proofMix'.dpop = proofMix.dpop
    BY <1>15 DEF ProofMishap, FreshInv, ProofTypeOK, ProofMixSet
  <2>2. ASSUME NEW e \in Endpoint, issuedNonces' = [issuedNonces EXCEPT ![e] = 0],
               call' = Disturbing(Peers(e), call)
        PROVE  Understood'
    <3>1. \A d \in Call :
             /\ call'[d].at = call[d].at /\ call'[d].retried = call[d].retried
             /\ call'[d].key = call[d].key /\ call'[d].token = call[d].token
             /\ call'[d].nonce = call[d].nonce /\ call'[d].proof = call[d].proof
             /\ call'[d].answer = call[d].answer /\ call'[d].issued = call[d].issued
             /\ call'[d].disturbed <=> (call[d].disturbed \/ d \in Peers(e))
      BY <1>a, <2>2, DisturbingCalls
    <3>2. \A f \in Endpoint \ {e} : issuedNonces'[f] = issuedNonces[f]
      BY <1>a, <2>2
    <3>3. \A d \in Call : Active(d) /\ EndpointOf(d) \in {e} => call'[d].disturbed
      BY <3>1 DEF Peers
    <3>4. LeavesAlone({e})
      BY <3>1, <3>3 DEF LeavesAlone
    <3> QED BY <2>1, <3>2, <3>4, OnlyDisturbs
  <2>3. ASSUME NEW c \in Call, call[c].at = "answered", UNCHANGED issuedNonces,
               call' = [call EXCEPT ![c].at = "failed", ![c].disturbed = TRUE]
        PROVE  Understood'
    <3>1. /\ \A d \in Call \ {c} : call'[d] = call[d]
          /\ call'[c].at = "failed" /\ call'[c].disturbed /\ Active(c)
      BY <1>a, <2>3 DEF CallRecord, Active
    <3> QED BY <2>1, <2>3, <3>1, OneActs DEF Clear, Active, Forgiven
  <2> QED BY <1>15, <2>2, <2>3 DEF ProofMishap
<1>16. ASSUME UNCHANGED proofVars PROVE Understood'
  BY <1>16 DEF proofVars, Understood, LetThrough, Clear, Active, Alone, Equipped, Heard, Forgiven, EndpointOf, Untold
<1> QED
  BY <1>1, <1>2, <1>4, <1>5, <1>6, <1>7, <1>8, <1>9, <1>10, <1>11, <1>12, <1>13, <1>14,
     <1>15, <1>16, <1>17 DEF ProofNext

\* Every variable of the proofs and assertions has its type.
THEOREM ProofsTyped == ProofSpec => []ProofTypeOK
<1> DEFINE Inv == FreshInv
<1>1. ProofInit => Inv
  BY ProofTypeInit, FreshInit DEF FreshInv
<1>2. Inv /\ [ProofNext]_proofVars => Inv'
  BY FreshNext
<1>3. Inv => ProofTypeOK
  BY DEF FreshInv
<1> QED BY <1>1, <1>2, <1>3, PTL DEF ProofSpec

\* No server is shown an id that it or another was shown before, and a request
\* that nothing disturbs is let through after at most one round trip for a nonce.
THEOREM NothingIsReplayed == ProofSpec => []ProofsAreFresh
<1> DEFINE Inv == FreshInv /\ Understood
<1>1. ProofInit => Inv
  BY ProofTypeInit, FreshInit, ClearInit DEF FreshInv
<1>2. Inv /\ [ProofNext]_proofVars => Inv'
  BY FreshNext, ClearNext
<1>3. Inv => ProofsAreFresh
  BY DEF FreshInv, Unseen, Understood, LetThrough, Forgiven, ProofsAreFresh
<1> QED BY <1>1, <1>2, <1>3, PTL DEF ProofSpec

=============================================================================
