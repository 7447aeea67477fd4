------------------------------- MODULE MCRequests -------------------------------
(* The way of a request through the gateway: who sends it (FrontDoor), what   *)
(* serves it (GatewayHandler, as in MCServing), the requests it makes the     *)
(* gateway send (SafeFetch) and how those say whose they are                  *)
(* (ProofOfPossession).  A behaviour runs one of them, the others rest.       *)
EXTENDS MCServing, FrontDoor, SafeFetch, ProofOfPossession

CONSTANTS v1, v2, k1, k2, k3, k4

VARIABLE part
allVars == <<part, vars, doorVars, fetchVars, proofVars>>

\* The catalogue: nobody does anything.
MCRestful == With({}, {}, {})
MCHandlerMix == MCMix \cup {MCRestful}
MCHandlerWorkloads == {m.does : m \in MCHandlerMix}

\* The front door: two tenants, one with an API key.
Member(t, u, r) == [tenant |-> t, user |-> u, role |-> r]
MCApiKeys == {Member("t1", "u0", "owner")}
MCClaimed == {Member("t2", "u1", "member"), Member("t2", "u2", "member"),
              Member("t1", "u1", "owner"), Member(Unknown, "u1", "member")}
AtDoor(limited, one, other, x, y, events) ==
  [metered |-> limited, brings |-> (v1 :> one) @@ (v2 :> other),
   bears |-> (v1 :> x) @@ (v2 :> y), does |-> events]
QuietDoor == AtDoor(FALSE, {}, {}, {}, {}, {})
Guest == {Member("t2", "u1", "member")}
MCDoorMixes == {
  QuietDoor,
  AtDoor(FALSE, {"good", "older"}, {"invented"}, Guest, Guest, {"age", "rotate", "load fails"}),
  AtDoor(TRUE, {"key"}, {}, {}, {}, {"tick", "sweep", "restart"}),
  AtDoor(FALSE, {"good"}, {"good"}, Guest, MCClaimed, {"fault"}),
  AtDoor(FALSE, {"key", "good"}, {}, Guest, {}, {"role", "restart"}),
  AtDoor(FALSE, TokenSorts, {"good"}, {Member(Unknown, "u1", "member")}, Guest, {})
}

\* Outbound requests: a public name that may rebind to a private address, a name
\* of the intranet, and the metadata server spelled in NAT64.
MCLiteral == ("local" :> <<127, 0, 0, 1>>)
             @@ ("nat64" :> <<100, 65435, 0, 0, 0, 0, 43518, 43518>>)
MCResolves == ("api" :> {{<<93, 184, 216, 34>>}, {<<10, 0, 0, 1>>}}) @@
              ("intranet" :> {{<<172, 31, 0, 1>>, <<169, 254, 169, 254>>}})
SsrfPolicy(http, private, opted, listed) ==
  [allowHttp |-> http, allowLoopback |-> FALSE, allowPrivateNetworks |-> private,
   allowedHosts |-> opted, hostAllowlist |-> listed, maxRedirects |-> 2]
StrictPolicy == SsrfPolicy(FALSE, FALSE, {}, {})
MCPolicies == {StrictPolicy, SsrfPolicy(TRUE, TRUE, {}, {}),
               SsrfPolicy(FALSE, FALSE, {"nat64", "intranet", "local"}, {}),
               SsrfPolicy(TRUE, FALSE, {}, {"api", "nat64"})}
MCMetadataServers == {<<169, 254, 169, 254>>, <<100, 65435, 0, 0, 0, 0, 43518, 43518>>}

\* Proofs: what each of four calls is.
Proving(m, bindsTokens, asksNonces, a, b, c, d, faults) ==
  [method |-> m, supported |-> IF m = "none" THEN {} ELSE {"private_key_jwt", "none"},
   dpop |-> bindsTokens, nonces |-> asksNonces,
   does |-> (k1 :> a) @@ (k2 :> b) @@ (k3 :> c) @@ (k4 :> d), mishaps |-> faults]
QuietProof == Proving("none", FALSE, FALSE, "none", "none", "none", "none", {})
MCProofMixes == {
  QuietProof,
  Proving("private_key_jwt", TRUE, TRUE, "prepare", "exchange", "refresh", "mcp",
          {"restart token", "restart mcp", "lost"}),
  Proving("private_key_jwt", TRUE, TRUE, "prepare", "exchange", "refresh", "refresh",
          {"restart token", "lost"}),
  Proving("none", TRUE, TRUE, "prepare", "exchange", "mcp", "mcp", {"restart mcp", "lost"}),
  Proving("none", TRUE, FALSE, "prepare", "prepare", "exchange", "mcp", {}),
  Proving("client_secret_basic", TRUE, FALSE, "prepare", "exchange", "none", "none", {}),
  Proving("private_key_jwt", FALSE, FALSE, "prepare", "exchange", "revoke", "mcp", {})
}

Parts == {"catalogue", "door", "fetch", "proof"}

RequestsInit ==
  /\ part \in Parts
  /\ HandlerInit /\ ChainInit /\ ProofInit
  /\ doorMix \in DoorMixes /\ DoorInit
  /\ (part = "catalogue") <=> ~(does = MCRestful.does /\ asks = MCRestful.asks)
  /\ (part = "door") <=> (doorMix # QuietDoor)
  /\ (part # "fetch") => (policy = StrictPolicy)
  /\ (part = "proof") <=> (proofMix # QuietProof)

RequestsNext ==
  \/ /\ part = "catalogue" /\ Next
     /\ UNCHANGED <<part, doorVars, fetchVars, proofVars>>
  \/ /\ part = "door" /\ DoorNext
     /\ UNCHANGED <<part, vars, fetchVars, proofVars>>
  \/ /\ part = "fetch" /\ FetchNext
     /\ UNCHANGED <<part, vars, doorVars, proofVars>>
  \/ /\ part = "proof" /\ ProofNext
     /\ UNCHANGED <<part, vars, doorVars, fetchVars>>

RequestsSpec == RequestsInit /\ [][RequestsNext]_allVars /\ CatalogueFairness

\* Every variable has its type, in each of the four.
RequestsTypeOK == HandlerTypeOK /\ DoorTypeOK /\ ChainTypeOK /\ ProofTypeOK
=============================================================================
