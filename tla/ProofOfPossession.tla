--------------------------- MODULE ProofOfPossession ---------------------------
(***************************************************************************)
(* How the gateway proves to an authorization server and to an MCP server  *)
(* who it is: client assertions and DPoP proofs, made for one request each *)
(* (packages/oauth/src/token-client.ts, dpop.ts, client-assertion.ts), the *)
(* nonce a server may ask for (also post() in packages/mcp-client/src/     *)
(* streamable-http.ts), and the key of a connection (token-manager.ts).    *)
(* The servers are those of conformance/harness/src.  Left out: what is    *)
(* granted (module TokenManager), the claims but jti, nonce and the key.   *)
(***************************************************************************)
EXTENDS Integers

CONSTANTS
  Call,      \* requests the gateway makes, each once
  ProofMixes \* [method, dpop, nonces, does, mishaps]: how the client authenticates,
             \* what the servers ask for, what each call is, which faults there are

CallKinds == {"prepare", "exchange", "refresh", "revoke", "mcp", "none"}
AuthMethods == {"none", "client_secret_post", "client_secret_basic", "private_key_jwt"}
ProofMixSet == [method : AuthMethods, supported : SUBSET AuthMethods, dpop : BOOLEAN,
                nonces : BOOLEAN, does : [Call -> CallKinds],
                mishaps : SUBSET {"restart token", "restart mcp", "lost"}]
ASSUME ProofMixesAssumption == ProofMixes \subseteq ProofMixSet

VARIABLES
  proofMix,
  key,       \* dpopKeyReference of the connection, 0 if it has none
  bound,     \* the stored access token: the key it is bound to, 0 if to none
  granted,   \* there is a token
  nonceOf,   \* this.tokenNonces and this.resourceNonces
  made,      \* keys and ids made so far
  call,      \* where each call is
  issuedNonces, \* of the servers: the one it waits for, 0 before it asks for one
  seenProofIds, seenAssertionIds, \* of the authorization server
  idsShown,     \* history: ids of proofs and assertions that some server was shown
  replayed   \* history: one was shown again, to that server or another

proofVars == <<proofMix, key, bound, granted, nonceOf, made, call, issuedNonces,
               seenProofIds, seenAssertionIds, idsShown, replayed>>
serverVars == <<issuedNonces, seenProofIds, seenAssertionIds, idsShown, replayed>>

Endpoint == {"token", "mcp"}

NewCall == [at |-> "new", retried |-> FALSE, key |-> 0, token |-> 0, nonce |-> 0, proof |-> 0, assertion |-> 0,
        answer |-> "none", issued |-> 0, disturbed |-> FALSE]

ProofInit ==
  /\ proofMix \in ProofMixes
  /\ key = 0 /\ bound = 0 /\ granted = FALSE
  /\ nonceOf = [e \in Endpoint |-> 0]
  /\ made = [keys |-> 0, ids |-> 0, nonces |-> 0]
  /\ call = [c \in Call |-> NewCall]
  /\ issuedNonces = [e \in Endpoint |-> 0]
  /\ seenProofIds = {} /\ seenAssertionIds = {} /\ idsShown = {} /\ replayed = FALSE

CallAt == {"new", "making", "build", "headers", "sent", "answered", "done", "failed"}
HowAnswered == {"none", "nonce", "ok", "renewed", "invalid"}
CallRecord == [at : CallAt, retried : BOOLEAN, key : Nat, token : Nat, nonce : Nat,
               proof : Nat, assertion : Nat, answer : HowAnswered,
               issued : Nat, disturbed : BOOLEAN]
ProofTypeOK ==
  /\ proofMix \in ProofMixSet
  /\ made \in [keys : Nat, ids : Nat, nonces : Nat]
  /\ key \in 0 .. made.keys /\ bound \in 0 .. made.keys /\ granted \in BOOLEAN
  /\ nonceOf \in [Endpoint -> Nat] /\ issuedNonces \in [Endpoint -> Nat]
  /\ call \in [Call -> CallRecord]
  /\ seenProofIds \cup seenAssertionIds \subseteq idsShown /\ idsShown \subseteq 1 .. made.ids
  /\ replayed \in BOOLEAN

CallIs(c, kinds, at) == proofMix.does[c] \in kinds /\ call[c].at = at
TokenKinds == {"exchange", "refresh", "revoke"}
EndpointOf(c) == IF proofMix.does[c] = "mcp" THEN "mcp" ELSE "token"
Active(c) == call[c].at \in {"build", "headers", "sent", "answered"}

\* History: a call is disturbed when another to its endpoint is under way.
Peers(e) == {c \in Call : Active(c) /\ EndpointOf(c) = e}
Disturbing(C, calls) ==
  [c \in Call |-> IF c \in C THEN [calls[c] EXCEPT !.disturbed = TRUE] ELSE calls[c]]

(***************************************************************************)
(* ensureDpopKey                                                           *)
(***************************************************************************)

\* It reads the connection, and makes a key if there is none ...
LookForKey(c) ==
  /\ CallIs(c, {"prepare"}, "new")
  /\ call' = [call EXCEPT ![c].at = IF proofMix.dpop /\ key = 0 THEN "making" ELSE "done"]
  /\ UNCHANGED <<proofMix, key, bound, granted, nonceOf, made, serverVars>>

\* ... and refers the connection to it, whatever it refers to by then.
StoreKey(c) ==
  /\ CallIs(c, {"prepare"}, "making")
  /\ made' = [made EXCEPT !.keys = @ + 1]
  /\ key' = made.keys + 1
  /\ call' = Disturbing({d \in Call : Active(d)}, [call EXCEPT ![c].at = "done"])
  /\ UNCHANGED <<proofMix, bound, granted, nonceOf, serverVars>>

(***************************************************************************)
(* The requests                                                            *)
(***************************************************************************)

\* A nonce is handed out once.  The answer that brought it was lost, or answered
\* a second attempt, whose answer is not read for a nonce.
Untold(e) == issuedNonces[e] # 0 /\ nonceOf[e] # issuedNonces[e]

Begin(c, record) ==
  call' = Disturbing(IF Peers(EndpointOf(c)) # {} THEN Peers(EndpointOf(c)) \cup {c}
                     ELSE IF Untold(EndpointOf(c)) THEN {c} ELSE {},
                     [call EXCEPT ![c] = record])

\* exchangeCode, refresh, revoke: revoke sends no proof.
BeginToken(c) ==
  LET k == IF proofMix.does[c] = "revoke" THEN 0 ELSE key
  IN /\ CallIs(c, TokenKinds, "new")
     /\ proofMix.dpop => key # 0
     /\ proofMix.does[c] # "exchange" => granted
     /\ Begin(c, [NewCall EXCEPT !.at = "build", !.key = k,
                             !.nonce = IF k = 0 THEN 0 ELSE nonceOf["token"]])
     /\ UNCHANGED <<proofMix, key, bound, granted, nonceOf, made, serverVars>>

BeginPost(c) ==
  /\ CallIs(c, {"mcp"}, "new") /\ granted
  /\ Begin(c, [NewCall EXCEPT !.at = "build"])
  /\ UNCHANGED <<proofMix, key, bound, granted, nonceOf, made, serverVars>>

MethodSupported == proofMix.supported = {} \/ proofMix.method \in proofMix.supported

\* Mutant: the body of the first attempt serves for the second.
AssertionOfBody(c) ==
  IF proofMix.method # "private_key_jwt" THEN 0
  ELSE IF call[c].assertion # 0 THEN call[c].assertion ELSE made.ids + 1

\* applyClientAuthentication, for every attempt
Assertion(c) == IF proofMix.method = "private_key_jwt" THEN made.ids + 1 ELSE 0

BuildToken(c) ==
  /\ CallIs(c, TokenKinds, "build") /\ MethodSupported
  /\ call' = [call EXCEPT ![c].at = "sent", ![c].assertion = Assertion(c),
                          ![c].proof = IF call[c].key = 0 THEN 0 ELSE made.ids + 2]
  /\ made' = [made EXCEPT !.ids = @ + 2]
  /\ UNCHANGED <<proofMix, key, bound, granted, nonceOf, serverVars>>

\* assertMethodSupported
Unsupported(c) ==
  /\ CallIs(c, TokenKinds, "build") /\ ~MethodSupported
  /\ call' = [call EXCEPT ![c].at = "failed", ![c].disturbed = TRUE]
  /\ UNCHANGED <<proofMix, key, bound, granted, nonceOf, made, serverVars>>

\* buildHeaders takes the nonce that is known now.
NonceOfPost(c) == nonceOf["mcp"]

\* authorizationHeaders reads the connection: how its token is presented, and
\* the key a bound one is presented with ...
ReadForHeaders(c) ==
  /\ CallIs(c, {"mcp"}, "build")
  /\ call' = [call EXCEPT ![c].at = "headers", ![c].key = IF bound = 0 THEN 0 ELSE key]
  /\ UNCHANGED <<proofMix, key, bound, granted, nonceOf, made, serverVars>>

\* ... and getValidAccessToken reads it again, for the token.
BuildPost(c) ==
  LET proves == call[c].key # 0
  IN /\ CallIs(c, {"mcp"}, "headers")
     /\ call' = [call EXCEPT ![c] = [@ EXCEPT !.at = "sent", !.token = bound,
                                              !.nonce = IF proves THEN NonceOfPost(c) ELSE 0,
                                              !.proof = IF proves THEN made.ids + 1 ELSE 0]]
     /\ made' = [made EXCEPT !.ids = @ + 1]
     /\ UNCHANGED <<proofMix, key, bound, granted, nonceOf, serverVars>>

(***************************************************************************)
(* The servers                                                             *)
(***************************************************************************)

Reply(c, what) == call' = [call EXCEPT ![c].at = "answered", ![c].answer = what]

\* History, of every server: what a request shows it.
Ids(c) == {call[c].proof, call[c].assertion} \ {0}
Shows(c) ==
  /\ idsShown' = idsShown \cup Ids(c)
  /\ replayed' = (replayed \/ Ids(c) \cap idsShown # {})

\* An answer with the nonce that is waited for from now on.
HandOut(c, what) ==
  LET n == made.nonces + 1
  IN /\ issuedNonces' = [issuedNonces EXCEPT ![EndpointOf(c)] = n]
     /\ made' = [made EXCEPT !.nonces = n]
     /\ call' = [call EXCEPT ![c].at = "answered", ![c].answer = what, ![c].issued = n]

AskNonce(c) ==
  /\ proofMix.nonces /\ issuedNonces[EndpointOf(c)] = 0
  /\ HandOut(c, "nonce")
  /\ UNCHANGED seenProofIds

NonceFits(c) ==
  /\ proofMix.nonces => issuedNonces[EndpointOf(c)] # 0
  /\ issuedNonces[EndpointOf(c)] # 0 => call[c].nonce = issuedNonces[EndpointOf(c)]

\* verifyAssertion
AssertionSeen(c) == call[c].assertion \in seenAssertionIds
Authenticated(c) ==
  seenAssertionIds' = IF call[c].assertion = 0 THEN seenAssertionIds
                      ELSE seenAssertionIds \cup {call[c].assertion}

\* checkProof of the authorization server.  Another server than the harness's may
\* hand out its next nonce with the tokens.
AcceptProof(c) ==
  /\ NonceFits(c) /\ call[c].proof \notin seenProofIds \cup {0}
  /\ seenProofIds' = seenProofIds \cup {call[c].proof}
  /\ \/ Reply(c, "ok") /\ UNCHANGED <<issuedNonces, made>>
     \/ proofMix.nonces /\ HandOut(c, "renewed")
RejectProof(c) ==
  /\ ~(proofMix.nonces /\ issuedNonces["token"] = 0)
  /\ ~NonceFits(c) \/ call[c].proof \in seenProofIds \cup {0}
  /\ Reply(c, "invalid")
  /\ UNCHANGED <<issuedNonces, made, seenProofIds>>
CheckProof(c) == AskNonce(c) \/ AcceptProof(c) \/ RejectProof(c)

\* handleToken; handleRevoke asks for nothing.
AtTokenEndpoint(c) ==
  /\ CallIs(c, {"exchange", "refresh"}, "sent") /\ Shows(c)
  /\ \/ /\ AssertionSeen(c) /\ Reply(c, "invalid")
        /\ UNCHANGED <<issuedNonces, made, seenProofIds, seenAssertionIds>>
     \/ /\ ~AssertionSeen(c) /\ Authenticated(c)
        /\ IF proofMix.dpop THEN CheckProof(c)
           ELSE Reply(c, "ok") /\ UNCHANGED <<issuedNonces, made, seenProofIds>>
  /\ UNCHANGED <<proofMix, key, bound, granted, nonceOf>>

AtRevocationEndpoint(c) ==
  /\ CallIs(c, {"revoke"}, "sent") /\ Shows(c)
  /\ Reply(c, "ok")
  /\ UNCHANGED <<proofMix, key, bound, granted, nonceOf, made,
                 issuedNonces, seenProofIds, seenAssertionIds>>

\* checkProof of the MCP server, which keeps no ids
AtMcpServer(c) ==
  /\ CallIs(c, {"mcp"}, "sent") /\ Shows(c)
  /\ \/ call[c].token # 0 /\ AskNonce(c)
     \/ /\ call[c].token = 0 \/ ~(proofMix.nonces /\ issuedNonces["mcp"] = 0)
        /\ Reply(c, IF call[c].token = 0 \/ (NonceFits(c) /\ call[c].key = call[c].token)
                    THEN "ok" ELSE "invalid")
        /\ UNCHANGED <<issuedNonces, made, seenProofIds>>
  /\ UNCHANGED <<proofMix, key, bound, granted, nonceOf, seenAssertionIds>>

(***************************************************************************)
(* What the gateway makes of the answers                                   *)
(***************************************************************************)

\* The nonce is kept for the endpoint, and the request made again, once.
EchoNonce(c) ==
  /\ call[c].at = "answered" /\ call[c].answer = "nonce" /\ ~call[c].retried
  /\ nonceOf' = [nonceOf EXCEPT ![EndpointOf(c)] = call[c].issued]
  /\ call' = [call EXCEPT ![c].at = "build", ![c].retried = TRUE, ![c].nonce = call[c].issued]
  /\ UNCHANGED <<proofMix, key, bound, granted, made, serverVars>>

\* The tokens replace those of the connection, bound to the key of the proof; a
\* nonce that came with them is kept.
Succeed(c) ==
  /\ call[c].at = "answered" /\ call[c].answer \in {"ok", "renewed"}
  /\ nonceOf' = IF call[c].answer = "renewed"
                THEN [nonceOf EXCEPT ![EndpointOf(c)] = call[c].issued] ELSE nonceOf
  /\ call' = [call EXCEPT ![c].at = "done"]
  /\ IF proofMix.does[c] \in {"exchange", "refresh"}
     THEN granted' = TRUE /\ bound' = (IF proofMix.dpop THEN call[c].key ELSE 0)
     ELSE UNCHANGED <<granted, bound>>
  /\ UNCHANGED <<proofMix, key, made, serverVars>>

RefuseCall(c) ==
  /\ call[c].at = "answered"
  /\ call[c].answer = "invalid" \/ (call[c].answer = "nonce" /\ call[c].retried)
  /\ call' = [call EXCEPT ![c].at = "failed"]
  /\ UNCHANGED <<proofMix, key, bound, granted, nonceOf, made, serverVars>>

\* A server that restarts has forgotten its nonce; an answer is lost.
ProofMishap ==
  \E m \in proofMix.mishaps :
    /\ proofMix' = [proofMix EXCEPT !.mishaps = @ \ {m}]
    /\ \/ \E e \in Endpoint :
            /\ m = IF e = "token" THEN "restart token" ELSE "restart mcp"
            /\ issuedNonces' = [issuedNonces EXCEPT ![e] = 0]
            /\ call' = Disturbing(Peers(e), call)
       \/ \E c \in Call :
            /\ m = "lost" /\ call[c].at = "answered"
            /\ call' = [call EXCEPT ![c].at = "failed", ![c].disturbed = TRUE]
            /\ UNCHANGED issuedNonces
    /\ UNCHANGED <<key, bound, granted, nonceOf, made, seenProofIds, seenAssertionIds,
                   idsShown, replayed>>

ProofNext ==
  \/ \E c \in Call :
       \/ LookForKey(c) \/ StoreKey(c) \/ BeginToken(c) \/ BeginPost(c)
       \/ BuildToken(c) \/ Unsupported(c) \/ ReadForHeaders(c) \/ BuildPost(c)
       \/ AtTokenEndpoint(c) \/ AtRevocationEndpoint(c) \/ AtMcpServer(c) \/ EchoNonce(c) \/ Succeed(c) \/ RefuseCall(c)
  \/ ProofMishap

ProofSpec == ProofInit /\ [][ProofNext]_proofVars

\* A proof or an assertion is shown to one server, and to it once, through
\* retries and calls that overlap: at the token endpoint, at the revocation
\* endpoint, and at the MCP server alike.  A request that nothing interferes with is let through after the
\* one round trip that hands out the nonce (token-client.ts: reusing an
\* assertion "would turn the prescribed nonce round trip into a failure"),
\* unless the token is bound to a key that was replaced, or the server waits for
\* a nonce it handed out in an answer nobody read.
ProofsAreFresh ==
  /\ ~replayed
  /\ \A c \in Call :
       call[c].at = "failed" =>
         call[c].disturbed \/ (proofMix.does[c] = "mcp" /\ call[c].token # call[c].key)

=============================================================================
