------------------------- MODULE AuthorizationServer -------------------------
(***************************************************************************)
(* The authorization server as the gateway meets it, after the mock server *)
(* the conformance harness runs against                                    *)
(* (conformance/harness/src/mock-authorization-server.ts): registration,   *)
(* the authorization endpoint and the token endpoint.  Every option of its *)
(* constructor that decides which client gets through is a field of        *)
(* Feature; scopes, DPoP, PKCE and the refresh of a grant are left out,    *)
(* but for whether a grant comes with what it takes to refresh it.         *)
(***************************************************************************)
EXTENDS Naturals, FiniteSets, Sequences

CONSTANTS
  Issuer,     \* the authorization servers
  Feature     \* what each advertises, and what it does

Method == {"private_key_jwt", "client_secret_basic", "client_secret_post", "none"}

\* A client identity: one made in the developer portal, the metadata document
\* published at an address of the gateway, or a registration, by number.
ClientOf == {"PRECONFIGURED", "CIMD", "DYNAMIC"} \X Nat

ASSUME FeatureAssumption ==
  /\ Feature \in [Issuer ->
       [cimd : BOOLEAN, dcr : BOOLEAN, reaches : BOOLEAN,
        methods : SUBSET Method, dishonoured : SUBSET Method,
        refusesDocument : BOOLEAN, renews : BOOLEAN]]
  /\ \A i \in Issuer : Feature[i].methods # {}

VARIABLES
  clients,    \* per server: the clients that registered, with the method granted
  home,       \* the address of the gateway: where its document and callback live
  lapsed      \* the registrations whose client secret ran out

asVars == <<clients, home, lapsed>>

ServerInit ==
  /\ clients = [i \in Issuer |-> {}]
  /\ home = 1
  /\ lapsed = {}

NeedsSecret(method) == method \in {"client_secret_basic", "client_secret_post"}

(* What the server knows of a client: a metadata document is fetched when  *)
(* it is first named, and must be where the gateway lives now.             *)
Known(i, client) ==
  CASE client[1] = "PRECONFIGURED" -> TRUE
    [] client[1] = "CIMD" -> Feature[i].cimd /\ Feature[i].reaches /\ client[2] = home
    [] OTHER -> \E c \in clients[i] : c.client = client

(* The authorization endpoint hands out a code to a client it knows, for a *)
(* redirect URI that client registered.                                    *)
Authorizes(i, client, redirect) ==
  /\ Known(i, client)
  /\ client[1] = "DYNAMIC" =>
       \E c \in clients[i] : c.client = client /\ c.home = redirect

(* Registration grants the method asked for if the server has it, and      *)
(* another of its own if it has not.                                       *)
GrantedMethod(i, requested) ==
  IF requested \in Feature[i].methods THEN requested
  ELSE CHOOSE m \in Feature[i].methods : TRUE

RegisterAt(i, n, method) ==
  clients' = [clients EXCEPT ![i] = @ \cup
    {[client |-> <<"DYNAMIC", n>>, method |-> GrantedMethod(i, method), home |-> home]}]

(* Which clients the token endpoint authenticates.  dishonoured stands for *)
(* a method that is advertised, and then refused.                          *)
Authenticates(i, client, method) ==
  /\ Known(i, client)
  /\ client \notin lapsed
  /\ method \notin Feature[i].dishonoured

(* The answer of the token endpoint to a code presented by a client.       *)
TokenAnswer(i, client, method, code) ==
  IF ~Authenticates(i, client, method) THEN "invalid_client"
  ELSE IF Feature[i].refusesDocument /\ client[1] = "CIMD" THEN "invalid_request"
  ELSE IF code.issuer # i \/ code.client # client THEN "invalid_grant" ELSE "ok"

(* The secrets of a server's registrations run out.                        *)
Lapse(i) ==
  /\ lapsed' = lapsed \cup
       {c.client : c \in {d \in clients[i] : NeedsSecret(d.method)}}
  /\ UNCHANGED <<clients, home>>
=============================================================================
