------------------------------- MODULE SafeFetch -------------------------------
(***************************************************************************)
(* One outbound request of the gateway (packages/security/src/             *)
(* safe-fetch.ts): the far end chooses by its redirects where the next     *)
(* request of the chain goes, and whoever runs its name servers chooses    *)
(* the address, each time anew.  Left out: paths, the other headers,       *)
(* media types, sizes and the reading of the body.                         *)
(***************************************************************************)
EXTENDS IpRules

CONSTANTS
  Host,     \* names, and literal addresses
  Literal,  \* [hosts that are literals -> address]
  Resolves, \* [the other hosts -> the sets of addresses their name may resolve to]
  Policies, \* SsrfPolicy: what an operator may have configured
  MetadataServers \* addresses that lead to the metadata of a cloud

Names == Host \ DOMAIN Literal
ASSUME PoliciesAssumption ==
  \A p \in Policies :
    /\ {p.allowHttp, p.allowLoopback, p.allowPrivateNetworks} \subseteq BOOLEAN
    /\ p.allowedHosts \subseteq Host /\ p.hostAllowlist \subseteq Host
    /\ p.maxRedirects \in Nat

\* The IPv4 address of a metadata service, alone or within an IPv6 address.
MetadataAssumption ==
  \A a \in MetadataServers :
    \/ a \in METADATA_ADDRESSES
    \/ \E o \in METADATA_ADDRESSES : Len(o) = 4 /\ a \in Spellings(o)
ASSUME MetadataAssumption

Url == [scheme : {"http", "https"}, host : Host] \* an origin: the path is left out

VARIABLES
  policy,
  chain,   \* the request: where it is, method, followRedirects, current, hop,
           \* and whether credentials are among the headers
  trusted, \* history: origins that were sent the credentials
  reached, \* history: <<host, address>> connected to
  sent     \* history: requests on the wire

fetchVars == <<policy, chain, trusted, reached, sent>>

Underway == [at : {"ready", "asked"}, url : Url, method : {"GET", "HEAD", "POST"},
             follow : BOOLEAN, hop : Nat, credentials : BOOLEAN]

ChainTypeOK ==
  /\ policy \in Policies
  /\ chain \in Underway \cup {[at |-> "begin"], [at |-> "done"]}
  /\ trusted \subseteq Url
  /\ sent \in Nat

ChainInit ==
  /\ policy \in Policies
  /\ chain = [at |-> "begin"]
  /\ trusted = {} /\ reached = {} /\ sent = 0

End == chain' = [at |-> "done"]

\* request()
Ask ==
  /\ chain.at = "begin"
  /\ \E url \in Url, method \in {"GET", "HEAD", "POST"}, follow \in BOOLEAN :
       chain' = [at |-> "ready", url |-> url, method |-> method,
                 follow |-> follow, hop |-> 0, credentials |-> TRUE]
  /\ UNCHANGED <<policy, trusted, reached, sent>>

DispositionAllowed(d) ==
  \/ d = "PUBLIC"
  \/ d = "LOOPBACK" /\ policy.allowLoopback
  \/ d = "PRIVATE" /\ policy.allowPrivateNetworks

AddressPermitted(a, host) ==
  IF host \in policy.allowedHosts THEN ClassifyAddress(a) # "CLOUD_METADATA"
  ELSE DispositionAllowed(ClassifyAddress(a))

\* Addresses a request may connect to now; none where it is refused.
Targets(url) ==
  LET answers == IF url.host \in Names THEN Resolves[url.host] ELSE {{Literal[url.host]}}
  IN IF \/ url.scheme = "http" /\ ~policy.allowHttp
        \/ policy.hostAllowlist # {} /\ url.host \notin policy.hostAllowlist
     THEN {}
     ELSE {a \in UNION answers : AddressPermitted(a, url.host)}

\* requestOnce; the name is looked up when the connection is made.
RequestOnce ==
  /\ chain.at = "ready"
  /\ \E a \in Targets(chain.url) : reached' = reached \cup {<<chain.url.host, a>>}
  /\ chain' = [chain EXCEPT !.at = "asked"]
  /\ trusted' = IF chain.credentials THEN trusted \cup {chain.url} ELSE trusted
  /\ sent' = sent + 1
  /\ UNCHANGED policy

\* Refused by the policy, or nobody answers in time.
NotReached ==
  /\ chain.at = "ready"
  /\ End
  /\ UNCHANGED <<policy, trusted, reached, sent>>

\* A response that is no redirect, or is not to be followed.
Answered ==
  /\ chain.at = "asked"
  /\ End
  /\ UNCHANGED <<policy, trusted, reached, sent>>

Redirectable == chain.follow /\ chain.method \in {"GET", "HEAD"}

\* Mutant: each hop starts from the headers the caller gave.
CredentialsOfCaller(next) == next = chain.url

\* withoutCredentials at the boundary of an origin
KeepsCredentials(next) == chain.credentials /\ next = chain.url

HopsLeft == chain.hop < policy.maxRedirects

Redirected ==
  /\ chain.at = "asked" /\ Redirectable
  /\ \/ ~HopsLeft /\ End
     \/ HopsLeft /\ \E next \in Url :
          chain' = [chain EXCEPT !.at = "ready", !.url = next, !.hop = @ + 1,
                                 !.credentials = KeepsCredentials(next)]
  /\ UNCHANGED <<policy, trusted, reached, sent>>

FetchNext == Ask \/ RequestOnce \/ NotReached \/ Answered \/ Redirected

FetchSpec == ChainInit /\ [][FetchNext]_fetchVars

CredentialsStayHome == \A origin, other \in trusted : origin = other
HopsAreCounted == sent <= policy.maxRedirects + 1
NeverReplayed == chain.at \in {"ready", "asked"} /\ chain.method = "POST" => chain.hop = 0
MetadataIsOutOfReach == \A r \in reached : r[2] \notin MetadataServers

\* Through any chain of redirects the credentials of a request go to the origin
\* it was made to and to no other, not even after a detour (safe-fetch.ts:
\* "must never reach another"); a chain ends, a POST is not sent again, and
\* none comes to a cloud's metadata, in whatever spelling of its address, by
\* whatever answer of a name server and though an operator opted the host in.
ChainIsContained ==
  CredentialsStayHome /\ HopsAreCounted /\ NeverReplayed /\ MetadataIsOutOfReach

=============================================================================
