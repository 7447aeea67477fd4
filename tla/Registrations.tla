---------------------------- MODULE Registrations ----------------------------
(***************************************************************************)
(* Which client the gateway presents to an authorization server:           *)
(* packages/oauth/src/registration.ts, the table its strategies keep, and  *)
(* the part of token-manager.ts that decides whether a refused client may  *)
(* be replaced.                                                            *)
(***************************************************************************)
EXTENDS AuthorizationServer, SequencesExt

CONSTANTS None, MaxRows

VARIABLES
  registrations,  \* oauth_client_registrations: the rows, in order of creation
  preconfigured   \* per server: the operator's client, 0 when there is none

regVars == <<registrations, preconfigured>>

Row ==
  [issuer : Issuer, type : {"PRECONFIGURED", "CIMD", "DYNAMIC"}, client : ClientOf,
   method : Method, home : Nat, status : {"ACTIVE", "INVALID", "REFUSED"}]

RegistrationsInit ==
  /\ registrations = <<>>
  /\ preconfigured = [i \in Issuer |-> 0]

Rows(i) == {r \in DOMAIN registrations : registrations[r].issuer = i}

(* findActive: whichever ACTIVE row of the server the database returns;    *)
(* nothing orders them and nothing keeps them from being several.          *)
FindActive(i) ==
  LET active == {r \in Rows(i) : registrations[r].status = "ACTIVE"}
  IN  IF active = {} THEN {None} ELSE active

Preference == <<"private_key_jwt", "client_secret_basic", "client_secret_post", "none">>
MostPreferred(methods) ==
  Preference[Min({k \in DOMAIN Preference : Preference[k] \in methods})]

(* The most preferred of the acceptable methods that the server advertises;*)
(* one it advertises when none of them is acceptable.                      *)
PickAuthMethod(supported, acceptable) ==
  IF supported = {} THEN MostPreferred(acceptable)
  ELSE IF supported \cap acceptable # {} THEN MostPreferred(supported \cap acceptable)
  ELSE CHOOSE m \in supported : TRUE

RefusedBefore(i) ==
  \E r \in Rows(i) :
    registrations[r].type = "CIMD" /\ registrations[r].status = "REFUSED"

Supports(type, i) ==
  CASE type = "PRECONFIGURED" -> preconfigured[i] # 0
    [] type = "CIMD" -> Feature[i].cimd /\ ~RefusedBefore(i) /\ Feature[i].reaches
    [] type = "DYNAMIC" -> Feature[i].dcr
    [] OTHER -> TRUE

(* RegistrationSelector: the first strategy that supports the server.      *)
Strategies == <<"PRECONFIGURED", "CIMD", "DYNAMIC", "USER_SUPPLIED">>
Strategy(i) == Strategies[Min({k \in DOMAIN Strategies : Supports(Strategies[k], i)})]

\* Mutant: a client is reused wherever it was registered to come back to.
MadeByAnyGateway(r) == registrations[r].home # 0

MadeByThisGateway(r) == registrations[r].home = home

(* Whether a strategy takes the row it found as its client.                *)
Reusable(type, i, r) ==
  /\ r # None
  /\ registrations[r].type = type
  /\ CASE type = "PRECONFIGURED" -> registrations[r].client[2] = preconfigured[i]
       [] type = "CIMD" -> registrations[r].client[2] = home /\ MadeByThisGateway(r)
       [] OTHER -> registrations[r].client \notin lapsed /\ MadeByThisGateway(r)

(* A row of its own kind that a strategy cannot take is retired; a row of  *)
(* another kind is left, and a second ACTIVE one is made beside it.        *)
Retirable(type, r) == r # None /\ registrations[r].type = type
Retire(r) == registrations' = [registrations EXCEPT ![r].status = "INVALID"]

Refuse(r) == registrations' = [registrations EXCEPT ![r].status = "REFUSED"]

AddRow(i, type, client, method) ==
  /\ Len(registrations) < MaxRows
  /\ registrations' = Append(registrations,
       [issuer |-> i, type |-> type, client |-> client, method |-> method,
        home |-> home, status |-> "ACTIVE"])

(* The new row of a strategy.  A dynamic one is registered at the server   *)
(* first, with the most preferred of its methods that is not to be avoided.*)
Adopt(type, i, avoid) ==
  LET n == Len(registrations) + 1
      requested == PickAuthMethod(Feature[i].methods \ avoid, Method \ avoid)
      document  == PickAuthMethod(Feature[i].methods \cup {"none"},
                                  {"private_key_jwt", "none"})
  IN  CASE type = "PRECONFIGURED" ->
             /\ AddRow(i, type, <<type, preconfigured[i]>>, "client_secret_basic")
             /\ UNCHANGED clients
        [] type = "CIMD" ->
             /\ AddRow(i, type, <<type, home>>, document)
             /\ UNCHANGED clients
        [] OTHER ->
             /\ AddRow(i, type, <<type, n>>, GrantedMethod(i, requested))
             /\ RegisterAt(i, n, requested)

(* Whether another client could help after a refusal, and which methods it *)
(* must then avoid; None when the failure is not about the client.         *)
MethodsToAvoid(row, answer) ==
  CASE row.type = "DYNAMIC" /\ answer = "invalid_client" -> {row.method}
    [] row.type = "CIMD" /\ answer \in
             {"invalid_client", "invalid_request", "unauthorized_client"} -> {}
    [] OTHER -> None

(* The operator enters a client made in the server's portal, or another.   *)
Configure(i) ==
  /\ preconfigured' = [preconfigured EXCEPT ![i] = @ + 1]
  /\ UNCHANGED registrations
=============================================================================
