------------------------------ MODULE Onboarding ------------------------------
(***************************************************************************)
(* From the URL of an MCP server to a connection that serves it:           *)
(* createConnection, prepareAuthorization and startAuthorization of        *)
(* packages/federation/src/connection-service.ts, the discovery of         *)
(* packages/oauth/src/discovery.ts, and the callback, exchangeCode of      *)
(* packages/oauth/src/token-manager.ts, with the import of a list of URLs. *)
(*                                                                         *)
(* A request of the gateway is a process: each await that reads or writes  *)
(* what another request may write is a step.  What a request knows is      *)
(* either what it read (seen, issuer, reg) or what it was given.  The sync *)
(* of a catalogue is here for the status it writes: its tools, the refresh *)
(* of a grant and its disconnection are modelled elsewhere (Catalogue,     *)
(* GrantLifecycle).                                                        *)
(***************************************************************************)
EXTENDS Registrations

CONSTANTS
  Url,          \* the MCP servers, by canonical URL
  Protected,    \* those that demand authorization
  Alias,        \* the aliases, in the order defaultAliasFor tries them
  Name,         \* those, and the names users ask for
  Actor,        \* the requests the gateway handles at a time
  MaxTxn        \* bound: authorizations one connection is waiting for

NoServer == "no row"

ASSUME OnboardingAssumption ==
  /\ IsFiniteSet(Url) /\ Protected \subseteq Url
  /\ Alias \in Seq(Name)
  /\ IsFiniteSet(Actor)
  /\ MaxTxn \in Nat \ {0}
  /\ None \notin Url \cup Issuer \cup Name
  /\ NoServer \notin Issuer \cup {None}

VARIABLES
  lists,         \* the authorization servers each resource names, in order
  servers,       \* mcp_servers: the selected server of each URL that has a row
  connections,   \* the rows, in order of creation
  transactions,  \* oauth_transactions that are PENDING
  req            \* what each request is doing

onVars == <<lists, servers, connections, transactions, req>>

Idle ==
  [pc |-> "idle", url |-> None, queue |-> <<>>, name |-> None,
   found |-> None, conn |-> 0, seen |-> None, issuer |-> None, reg |-> None,
   type |-> None, code |-> None, answer |-> None]

OnboardingInit ==
  /\ servers = [u \in Url |-> NoServer]
  /\ connections = <<>>
  /\ transactions = {}
  /\ req = [a \in Actor |-> Idle]

At(a, pc) == req[a].pc = pc
Goto(a, pc) == req' = [req EXCEPT ![a].pc = pc]
Conn == DOMAIN connections
ConnectionsOf(u) == {c \in Conn : connections[c].url = u}
Serves == {"CONNECTED", "CONNECTED_NON_REFRESHABLE"}
Serving(u) == \E c \in ConnectionsOf(u) : connections[c].status \in Serves

(* A request ends; an import goes on with the next URL of its list.        *)
End(a) ==
  req' = [req EXCEPT ![a] =
    IF req[a].queue = <<>> THEN Idle
    ELSE LET next == Head(req[a].queue)
         IN  [Idle EXCEPT !.pc = "find", !.url = next.url, !.name = next.name,
                          !.queue = Tail(req[a].queue)]]

----------------------------------------------------------------------------
(* createConnection *)

(* POST /api/v1/connections is an import of one; an item asks for an alias.*)
Import(a, items) ==
  /\ At(a, "idle") /\ items # <<>>
  /\ req' = [req EXCEPT ![a] =
       [Idle EXCEPT !.pc = "find", !.url = items[1].url, !.name = items[1].name,
                    !.queue = Tail(items)]]
  /\ UNCHANGED <<lists, servers, connections, transactions, asVars, regVars>>

(* A server row that has a connection answers the request with it.         *)
FindServer(a) ==
  /\ At(a, "find")
  /\ IF servers[req[a].url] # NoServer /\ ConnectionsOf(req[a].url) # {}
     THEN End(a)
     ELSE req' = [req EXCEPT ![a].pc = "probe",
                             ![a].found = servers[req[a].url]]
  /\ UNCHANGED <<lists, servers, connections, transactions, asVars, regVars>>

(* Mutant: the row is only written when the request found one.             *)
InsertNoServer(a) ==
  /\ At(a, "probe")
  /\ Goto(a, "alias")
  /\ UNCHANGED <<lists, servers, connections, transactions, asVars, regVars>>

(* The probe tells whether authorization is needed.  The server's row is   *)
(* made unless the request found one; the URL is unique, and the second of *)
(* two inserts throws.                                                     *)
InsertServer(a) ==
  LET u == req[a].url IN
  /\ At(a, "probe")
  /\ IF req[a].found = NoServer /\ servers[u] # NoServer
     THEN End(a) /\ UNCHANGED servers
     ELSE /\ servers' = [servers EXCEPT ![u] = IF @ = NoServer THEN None ELSE @]
          /\ Goto(a, "alias")
  /\ UNCHANGED <<lists, connections, transactions, asVars, regVars>>

(* The alias asked for, if it is free, or else the first free of the names *)
(* derived from the URL; they are never all taken in the code.             *)
ChooseAlias(a) ==
  LET taken == {connections[c].alias : c \in Conn}
      free  == {k \in DOMAIN Alias : Alias[k] \notin taken}
      asked == req[a].name # None /\ req[a].name \notin taken
  IN  /\ At(a, "alias") /\ (asked \/ free # {})
      /\ req' = [req EXCEPT ![a].pc = "insert",
           ![a].name = IF asked THEN @ ELSE Alias[Min(free)]]
      /\ UNCHANGED <<lists, servers, connections, transactions, asVars, regVars>>

Snapshot(c) ==
  [issuer |-> connections[c].issuer, reg |-> connections[c].reg,
   version |-> connections[c].version,
   selected |-> servers[connections[c].url]]

(* Aliases are unique: the insert of one that was taken meanwhile throws,  *)
(* and leaves the server's row behind without a connection.                *)
InsertConnection(a) ==
  LET u == req[a].url
      c == Len(connections) + 1
      protected == u \in Protected
      row == [url |-> u, alias |-> req[a].name, issuer |-> None, reg |-> None,
              grant |-> None, version |-> 1,
              status |-> IF protected THEN "AUTHORIZATION_REQUIRED" ELSE "CONNECTED"]
  IN  /\ At(a, "insert")
      /\ IF \E d \in Conn : connections[d].alias = req[a].name
         THEN End(a) /\ UNCHANGED connections
         ELSE /\ connections' = Append(connections, row)
              /\ IF protected
                 THEN req' = [req EXCEPT ![a].pc = "discover", ![a].conn = c,
                        ![a].seen = [issuer |-> None, reg |-> None, version |-> 1,
                                     selected |-> IF req[a].found = NoServer
                                                  THEN None ELSE req[a].found]]
                 ELSE req' = [req EXCEPT ![a].pc = "sync", ![a].conn = c,
                                         ![a].answer = "CONNECTED"]
      /\ UNCHANGED <<lists, servers, transactions, asVars, regVars>>

----------------------------------------------------------------------------
(* prepareAuthorization *)

StartAuthorization(a, c) ==
  /\ At(a, "idle") /\ c \in Conn
  /\ req' = [req EXCEPT ![a] =
       [Idle EXCEPT !.pc = "discover", !.url = connections[c].url, !.conn = c,
                    !.seen = Snapshot(c)]]
  /\ UNCHANGED <<lists, servers, connections, transactions, asVars, regVars>>

(* The resource names its authorization servers: the one selected before is*)
(* kept while it is still named.  Its metadata is fetched, or cached.      *)
Discover(a) ==
  LET named  == lists[req[a].url]
      seen   == req[a].seen
      issuer == IF seen.selected \in Range(named) THEN seen.selected ELSE named[1]
  IN  /\ At(a, "discover")
      /\ req' = [req EXCEPT ![a].issuer = issuer,
           ![a].pc = IF seen.issuer \in {None, issuer} THEN "select" ELSE "clear"]
      /\ UNCHANGED <<lists, servers, connections, transactions, asVars, regVars>>

(* Mutant: the client goes and the grant stays.                            *)
ClearClient(a) ==
  /\ At(a, "clear")
  /\ connections' = [connections EXCEPT ![req[a].conn].reg = None]
  /\ Goto(a, "select")
  /\ UNCHANGED <<lists, servers, transactions, asVars, regVars>>

(* "Credentials are bound to the issuer": a grant of another server goes.  *)
ClearGrant(a) ==
  /\ At(a, "clear")
  /\ connections' =
       [connections EXCEPT ![req[a].conn].grant = None,
                           ![req[a].conn].reg = None,
                           ![req[a].conn].version = req[a].seen.version + 1]
  /\ Goto(a, "select")
  /\ UNCHANGED <<lists, servers, transactions, asVars, regVars>>

SelectServer(a) ==
  /\ At(a, "select")
  /\ servers' = [servers EXCEPT ![req[a].url] = req[a].issuer]
  /\ Goto(a, "choose")
  /\ UNCHANGED <<lists, connections, transactions, asVars, regVars>>

ChooseStrategy(a) ==
  /\ At(a, "choose")
  /\ req' = [req EXCEPT ![a].pc = "client", ![a].type = Strategy(req[a].issuer)]
  /\ UNCHANGED <<lists, servers, connections, transactions, asVars, regVars>>

(* The row the strategy finds is taken as it is, or one of its own kind is *)
(* made; the last strategy asks the user for a client instead.             *)
FindClient(a) ==
  LET type == req[a].type IN
  /\ At(a, "client")
  /\ \E r \in FindActive(req[a].issuer) :
       req' = [req EXCEPT ![a].reg = r, ![a].pc =
         IF Reusable(type, req[a].issuer, r) THEN "bind"
         ELSE IF type = "USER_SUPPLIED" THEN "needed"
         ELSE IF Retirable(type, r) THEN "retire" ELSE "adopt"]
  /\ UNCHANGED <<lists, servers, connections, transactions, asVars, regVars>>

(* Retired whatever became of it since it was found.                       *)
RetireClient(a) ==
  /\ At(a, "retire")
  /\ Retire(req[a].reg)
  /\ Goto(a, "adopt")
  /\ UNCHANGED <<lists, servers, connections, transactions, preconfigured, asVars>>

AdoptClient(a) ==
  /\ At(a, "adopt")
  /\ Adopt(req[a].type, req[a].issuer, {})
  /\ req' = [req EXCEPT ![a].pc = "bind", ![a].reg = Len(registrations) + 1]
  /\ UNCHANGED <<lists, servers, connections, transactions,
                 preconfigured, home, lapsed>>

NeedCredentials(a) ==
  /\ At(a, "needed")
  /\ connections' = [connections EXCEPT ![req[a].conn].issuer = req[a].issuer,
                       ![req[a].conn].status = "CLIENT_CREDENTIALS_REQUIRED"]
  /\ End(a)
  /\ UNCHANGED <<lists, servers, transactions, asVars, regVars>>

BindClient(a) ==
  /\ At(a, "bind")
  /\ connections' = [connections EXCEPT ![req[a].conn].issuer = req[a].issuer,
                       ![req[a].conn].reg = req[a].reg,
                       ![req[a].conn].status = "AUTHORIZATION_REQUIRED"]
  /\ Goto(a, "transaction")
  /\ UNCHANGED <<lists, servers, transactions, asVars, regVars>>

Waiting(c) == {t \in transactions : t.conn = c}

(* The transaction records the server, the user is sent there as the       *)
(* client of this request; the connection may have another by then.        *)
OpenTransaction(a) ==
  LET c     == req[a].conn
      fresh == {n \in 1..MaxTxn : \A t \in Waiting(c) : t.nth # n}
  IN  /\ At(a, "transaction") /\ fresh # {}
      /\ transactions' = transactions \cup
           {[conn |-> c, nth |-> Min(fresh), issuer |-> req[a].issuer, home |-> home,
             client |-> registrations[req[a].reg].client]}
      /\ End(a)
      /\ UNCHANGED <<lists, servers, connections, asVars, regVars>>

----------------------------------------------------------------------------
(* The user, and the callback: exchangeCode *)

(* A transaction runs out before the user comes back with a code.          *)
Expire(t) ==
  /\ t \in transactions
  /\ transactions' = transactions \ {t}
  /\ UNCHANGED <<lists, servers, connections, req, asVars, regVars>>

\* The user can come back with a code.
Approvable(t) == t.home = home /\ Authorizes(t.issuer, t.client, t.home)

(* The user approves and comes back.  The response names the server of the *)
(* transaction; the transaction is consumed, and the connection read: its  *)
(* client is the one presented.                                            *)
Callback(a, t) ==
  /\ At(a, "idle") /\ t \in transactions /\ Approvable(t)
  /\ transactions' = transactions \ {t}
  /\ req' = [req EXCEPT ![a] =
       [Idle EXCEPT !.pc = "present", !.conn = t.conn, !.seen = Snapshot(t.conn),
                    !.url = connections[t.conn].url, !.code = t]]
  /\ UNCHANGED <<lists, servers, connections, asVars, regVars>>

(* The client of the connection, not that of the transaction, goes to the  *)
(* server of the connection.  A method the server does not advertise is    *)
(* refused before anything is sent.                                        *)
PresentCode(a) ==
  LET seen == req[a].seen
      row  == registrations[seen.reg]
  IN  /\ At(a, "present")
      /\ IF seen.reg = None \/ row.method \notin Feature[seen.issuer].methods
         THEN End(a)
         ELSE LET answer == TokenAnswer(seen.issuer, row.client, row.method, req[a].code)
              IN  CASE answer = "ok" -> Goto(a, "store")
                    [] answer # "ok" /\ MethodsToAvoid(row, answer) # None
                         /\ Feature[seen.issuer].dcr ->
                         req' = [req EXCEPT ![a].pc = "refuse", ![a].answer = answer]
                    [] OTHER -> End(a)
      /\ UNCHANGED <<lists, servers, connections, transactions, asVars, regVars>>

\* The status of a connection by the grant it holds.
Held(i) == IF i # None /\ ~Feature[i].renews THEN "CONNECTED_NON_REFRESHABLE" ELSE "CONNECTED"

(* persistTokens: a compare-and-swap whose outcome is not looked at.       *)
StoreGrant(a) ==
  LET c == req[a].conn
      seen == req[a].seen
  IN  /\ At(a, "store")
      /\ connections' =
           IF connections[c].version # seen.version THEN connections
           ELSE [connections EXCEPT ![c].version = seen.version + 1,
                   ![c].grant = seen.issuer, ![c].status = Held(seen.issuer)]
      /\ Goto(a, "activate")
      /\ UNCHANGED <<lists, servers, transactions, asVars, regVars>>

----------------------------------------------------------------------------
(* reregisterAfterRejection *)

RefuseClient(a) ==
  /\ At(a, "refuse")
  /\ Refuse(req[a].seen.reg)
  /\ Goto(a, "replace")
  /\ UNCHANGED <<lists, servers, connections, transactions, preconfigured, asVars>>

ReplaceClient(a) ==
  LET seen == req[a].seen IN
  /\ At(a, "replace")
  /\ Adopt("DYNAMIC", seen.issuer, MethodsToAvoid(registrations[seen.reg], req[a].answer))
  /\ req' = [req EXCEPT ![a].pc = "rebind", ![a].reg = Len(registrations) + 1]
  /\ UNCHANGED <<lists, servers, connections, transactions,
                 preconfigured, home, lapsed>>

Rebind(a) ==
  /\ At(a, "rebind")
  /\ connections' = [connections EXCEPT ![req[a].conn].reg = req[a].reg]
  /\ End(a)
  /\ UNCHANGED <<lists, servers, transactions, asVars, regVars>>

----------------------------------------------------------------------------
(* syncCatalogue: the connection is contacted, and its status written from *)
(* the answer, whatever the row says by then.                              *)

SetStatus(c, status) == connections' = [connections EXCEPT ![c].status = status]

(* The callback goes on with the connection as it is now.                  *)
Activate(a) ==
  /\ At(a, "activate")
  /\ req' = [req EXCEPT ![a].pc = "sync", ![a].answer = connections[req[a].conn].status]
  /\ UNCHANGED <<lists, servers, connections, transactions, asVars, regVars>>

\* A request that begins with a connection, and the status it read.
Takes(a, c, pc, status) ==
  /\ At(a, "idle") /\ c \in Conn
  /\ req' = [req EXCEPT ![a] = [Idle EXCEPT !.pc = pc, !.url = connections[c].url,
                                             !.conn = c, !.answer = status]]
  /\ UNCHANGED <<lists, servers, connections, transactions, asVars, regVars>>

(* The route of a user who wants the catalogue again; a rename syncs alike.*)
Refresh(a, c) == c \in Conn /\ Takes(a, c, "sync", connections[c].status)

Usable(row) ==
  row.issuer # None /\ row.grant # None /\ row.status \notin {"REAUTH_REQUIRED", "DISABLED"}

(* What the upstream is sent, and makes of it: nothing when the connection *)
(* names no authorization server, and authorizationHeaders throws where it *)
(* may not be used.                                                        *)
Contacted(c, before) ==
  LET row == connections[c] IN
  IF row.url \notin Protected \/ Usable(row)
  THEN IF before = "CONNECTED_NON_REFRESHABLE" THEN before ELSE "CONNECTED"
  ELSE IF row.issuer # None /\ row.status # "DISABLED" THEN "REAUTH_REQUIRED" ELSE "DEGRADED"

(* A connection without a token is marked at once.                         *)
Contact(a) ==
  LET c == req[a].conn
      outcome == Contacted(c, req[a].answer)
  IN  /\ At(a, "sync")
      /\ req' = [req EXCEPT ![a].pc = "synced", ![a].answer = outcome]
      /\ IF outcome = "REAUTH_REQUIRED" THEN SetStatus(c, outcome) ELSE UNCHANGED connections
      /\ UNCHANGED <<lists, servers, transactions, asVars, regVars>>

WriteStatus(a) ==
  /\ At(a, "synced")
  /\ SetStatus(req[a].conn, req[a].answer)
  /\ End(a)
  /\ UNCHANGED <<lists, servers, transactions, asVars, regVars>>

(* setEnabled: what the connection was is re-derived from what it holds.   *)
Disable(c) ==
  /\ c \in Conn /\ SetStatus(c, "DISABLED")
  /\ UNCHANGED <<lists, servers, transactions, req, asVars, regVars>>

Enable(a, c) ==
  /\ c \in Conn /\ connections[c].status = "DISABLED"
  /\ Takes(a, c, "enable", Held(connections[c].grant))

WriteEnabled(a) ==
  /\ At(a, "enable")
  /\ SetStatus(req[a].conn, req[a].answer)
  /\ Goto(a, "sync")
  /\ UNCHANGED <<lists, servers, transactions, asVars, regVars>>

----------------------------------------------------------------------------
(* What goes wrong *)

\* The steps that talk to another server.
Outbound == {"probe", "discover", "present"}
\* A registration that fails ends the request; its row may be retired by then.
Registering(a) == req[a].pc \in {"adopt", "replace"} /\ req[a].type \in {None, "DYNAMIC"}

(* A request to another server fails; a failed item of an import does not  *)
(* stop the others.                                                        *)
Mishap(a) ==
  /\ req[a].pc \in Outbound \/ Registering(a)
  /\ End(a)
  /\ UNCHANGED <<lists, servers, connections, transactions, asVars, regVars>>

(* An upstream that cannot be reached.                                     *)
ContactFails(a) ==
  /\ At(a, "sync")
  /\ req' = [req EXCEPT ![a].pc = "synced", ![a].answer = "DEGRADED"]
  /\ UNCHANGED <<lists, servers, connections, transactions, asVars, regVars>>

(* The gateway restarts, perhaps with another GATEWAY_BASE_URL.            *)
Restart(address) ==
  /\ req' = [a \in Actor |-> Idle]
  /\ home' = address
  /\ UNCHANGED <<lists, servers, connections, transactions,
                 clients, lapsed, regVars>>

(* The resource names another authorization server.                        *)
Move(u, named) ==
  /\ lists[u] # named
  /\ lists' = [lists EXCEPT ![u] = named]
  /\ UNCHANGED <<servers, connections, transactions, req, asVars, regVars>>

RequestStep(a) ==
  \/ FindServer(a) \/ InsertServer(a) \/ ChooseAlias(a) \/ InsertConnection(a)
  \/ Discover(a) \/ ClearGrant(a) \/ SelectServer(a)
  \/ ChooseStrategy(a) \/ FindClient(a) \/ RetireClient(a) \/ AdoptClient(a)
  \/ NeedCredentials(a)
  \/ BindClient(a) \/ OpenTransaction(a) \/ PresentCode(a) \/ StoreGrant(a)
  \/ RefuseClient(a) \/ ReplaceClient(a) \/ Rebind(a)
  \/ Activate(a) \/ Contact(a) \/ WriteStatus(a) \/ WriteEnabled(a)

----------------------------------------------------------------------------
Snapshots ==
  [issuer : Issuer \cup {None}, reg : Nat \cup {None}, version : Nat,
   selected : Issuer \cup {None}]

Steps == {"idle", "find", "probe", "alias", "insert", "discover",
          "clear", "select", "choose", "client", "retire", "adopt", "needed", "bind",
          "transaction", "present", "store", "refuse", "replace", "rebind",
          "activate", "sync", "synced", "enable"}

Statuses == {"AUTHORIZATION_REQUIRED", "CLIENT_CREDENTIALS_REQUIRED", "CONNECTED",
             "CONNECTED_NON_REFRESHABLE", "DEGRADED", "REAUTH_REQUIRED", "DISABLED"}

(* The rows refer to rows that exist, and a request to a connection.       *)
OnboardingTypeOK ==
  /\ servers \in [Url -> Issuer \cup {None, NoServer}]
  /\ \A c \in Conn :
       /\ connections[c] \in
            [url : Url, alias : Name, issuer : Issuer \cup {None},
             reg : DOMAIN registrations \cup {None}, grant : Issuer \cup {None},
             version : Nat, status : Statuses]
       /\ servers[connections[c].url] # NoServer
  /\ \A r \in DOMAIN registrations : registrations[r] \in Row
  /\ \A t \in transactions :
       t \in [conn : Conn, nth : 1..MaxTxn, issuer : Issuer, home : Nat,
              client : ClientOf]
  /\ \A a \in Actor :
       /\ req[a].pc \in Steps
       /\ req[a].conn \in Conn \cup {0}
       /\ req[a].seen \in Snapshots \cup {None}
       /\ req[a].pc \in {"refuse", "store"} => req[a].seen.reg \in DOMAIN registrations

Preparing == {"discover", "clear", "select", "choose", "client", "retire", "adopt",
              "needed", "bind", "transaction"}
Exchanging == {"present", "store", "refuse", "replace", "rebind"}

\* A request that authorizes a connection.
Authorizing(a, c) == req[a].conn = c /\ req[a].pc \in Preparing \cup Exchanging

(* The grant a connection holds was issued by the server it names, and its *)
(* client was registered there.                                            *)
Consistent(c) ==
  /\ connections[c].grant # None => connections[c].grant = connections[c].issuer
  /\ connections[c].reg # None =>
       registrations[connections[c].reg].issuer = connections[c].issuer

(* "Credentials are bound to the issuer: if the resource moved to another  *)
(* authorization server the old grant must not be reused"                  *)
(* (connection-service.ts:292).                                            *)
GrantOfItsServer ==
  \A c \in Conn :
    connections[c].grant # None => connections[c].grant = connections[c].issuer
=============================================================================
