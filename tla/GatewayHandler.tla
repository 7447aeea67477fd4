----------------------------- MODULE GatewayHandler -----------------------------
(***************************************************************************)
(* Requests of downstream clients served from the catalogue                *)
(* (packages/federation/src/gateway-handler.ts): a paged listing, a tool   *)
(* call, the reading of a resource, the getting of a prompt, each over     *)
(* several statements and awaits while the catalogue is rewritten.         *)
(*                                                                         *)
(* All clients may see all connections.  Left out: results, progress, log  *)
(* levels, metering (module RateLimiter), audit; an insufficient scope is  *)
(* in GrantLifecycle, the opening of a session in UpstreamSessions.        *)
(***************************************************************************)
EXTENDS Catalogue, Pagination

CONSTANTS
  Request,
  PageSize,
  Mix        \* [does, asks]: a workload with what each request may be

Lists == {"tools", "resources", "prompts"}
Kinds == Lists \cup {"call", "read", "prompt"}
ASSUME MixAssumption ==
  Mix \subseteq [does : Workloads, asks : [Request -> SUBSET Kinds]]
ASSUME PageSizeAssumption == PageSize \in Nat \ {0}

VARIABLES
  asks,  \* the other half of the workload
  req    \* where each request is, and what it has read

vars == <<catalogueVars, asks, req>>

RequestAt == {"idle", "connections", "rows", "found", "confirm", "upstream",
              "byAlias", "routed", "done"}

\* row: the tool found; usable: connections read; due: what ought to serve it;
\* steady: names on every page so far; lost, risked: what went wrong at its end.
Blank == [at |-> "idle", kind |-> None, row |-> None, cursor |-> NoCursor, usable |-> {},
          delivered |-> {}, steady |-> {}, uri |-> None, due |-> None, target |-> None,
          listed |-> None, confirmed |-> FALSE, lost |-> {}, risked |-> FALSE]
Done(kind) == [Blank EXCEPT !.at = "done", !.kind = kind]

HandlerInit ==
  /\ Init
  /\ asks \in {m.asks : m \in {n \in Mix : n.does = does}}
  /\ req = [r \in Request |-> Blank]

NotFound == <<>>   \* where no alias leads

\* Names are of tools or of entries; an entry is due from, or served by, a
\* connection.
Source == Conn \X Upstream
RequestRecord ==
  [at : RequestAt, kind : Kinds \cup {None}, row : ToolRow \cup {None},
   cursor : ToolName \cup Uri \cup {NoCursor}, usable : SUBSET Conn,
   delivered : SUBSET (ToolName \cup Uri), steady : SUBSET (ToolName \cup Uri),
   uri : Uri \cup {None}, due : Source \cup {None}, target : Source \cup {NotFound, None},
   listed : (SUBSET RiskLevels) \cup {None}, confirmed : BOOLEAN,
   lost : SUBSET (ToolName \cup Uri \cup Source), risked : BOOLEAN]

HandlerTypeOK == TypeOK /\ req \in [Request -> RequestRecord]

\* A request is of one of the kinds its workload allows.
Is(r, kind, at) ==
  /\ req[r].at = at
  /\ IF at = "idle" THEN kind \in asks[r] ELSE req[r].kind = kind

Now(r, record) == req' = [req EXCEPT ![r] = record] /\ UNCHANGED <<catalogueVars, asks>>

\* visibleConnections and requireVisibleConnection.
Visible(c) == conn[c].exists /\ conn[c].status # "DISABLED"

(***************************************************************************)
(* tools/list, resources/list and prompts/list                             *)
(***************************************************************************)

\* Each page reads the connections, then the rows.
ListConnections(r) ==
  /\ \E kind \in Lists :
       /\ Is(r, kind, "idle") \/ Is(r, kind, "connections")
       /\ Now(r, [req[r] EXCEPT !.at = "rows", !.kind = kind,
                                !.usable = {c \in Conn : Visible(c)}])

ListedTools(r) ==
  {<<t.gw, t.conn>> : t \in {s \in tools : s.enabled /\ s.conn \in req[r].usable}}
ListedResources(r) == {<<e.uri, e.conn>> : e \in {s \in resources : s.conn \in req[r].usable}}
ListedPrompts(r) == {<<e.uri, e.conn>> : e \in {s \in prompts : s.conn \in req[r].usable}}

ListPage(r, listing) ==
  LET page == Paginate(listing, req[r].cursor, PageSize)
      names == {t[1] : t \in listing}
      delivered == req[r].delivered \cup {t[1] : t \in page.items}
      steady == IF req[r].cursor = NoCursor THEN names ELSE req[r].steady \cap names
  IN /\ req[r].at = "rows"
     /\ IF page.next = NoCursor
        THEN Now(r, [Done(req[r].kind) EXCEPT !.lost = steady \ delivered])
        ELSE Now(r, [req[r] EXCEPT !.at = "connections", !.cursor = page.next,
                                   !.delivered = delivered, !.steady = steady])

ListRows(r) ==
  \/ req[r].kind = "tools" /\ ListPage(r, ListedTools(r))
  \/ req[r].kind = "resources" /\ ListPage(r, ListedResources(r))
  \/ req[r].kind = "prompts" /\ ListPage(r, ListedPrompts(r))

(***************************************************************************)
(* tools/call                                                              *)
(***************************************************************************)

\* What the last sync found the tool to be.
RiskListed(t) == {q.risk : q \in {s \in ToolsIn(synced[t.conn]) : s.up = t.up}}

\* A name nobody has ends the call.
FindTool(r) ==
  /\ Is(r, "call", "idle")
  /\ \E t \in tools :
       Now(r, [Blank EXCEPT !.at = "found", !.kind = "call", !.row = t, !.listed = RiskListed(t)])

\* The connection is looked up and policy decides, from the row found before.
Decide(r) ==
  /\ Is(r, "call", "found")
  /\ \E mayWrite, argsFit \in BOOLEAN :
       LET t == req[r].row
           decision == EvaluateToolCall(t, FALSE, mayWrite, argsFit)
       IN IF ~Visible(t.conn) \/ decision \in {"DENY", "INVALID_ARGUMENTS"}
          THEN Now(r, Done(req[r].kind))
          ELSE Now(r, [req[r] EXCEPT !.at = IF decision = "ALLOW" THEN "upstream" ELSE "confirm"])

\* The user accepts; or declines, or the client cannot ask or does not answer.
Confirm(r) ==
  /\ Is(r, "call", "confirm")
  /\ \/ Now(r, [req[r] EXCEPT !.at = "upstream", !.confirmed = TRUE])
     \/ Now(r, Done(req[r].kind))

\* The server executes the tool, or it is not reached.
CallTool(r) ==
  LET unasked == ~req[r].confirmed /\ req[r].listed \cap ConfirmationRiskLevels # {}
  IN /\ Is(r, "call", "upstream")
     /\ \/ Now(r, [Done(req[r].kind) EXCEPT !.risked = unasked])
        \/ Now(r, Done(req[r].kind))

(***************************************************************************)
(* resources/read, subscribe, unsubscribe, and completion of a template;   *)
(* prompts/get and completion of a prompt                                  *)
(***************************************************************************)

\* The client names a resource the last sync listed, which no other connection
\* has a row for.  The row found decides, or if there is none the alias.
FindResource(r) ==
  /\ Is(r, "read", "idle")
  /\ \E c \in Conn : \E e \in synced[c].resources :
       LET uri == GatewayUri(conn[c].alias, e.up)
           found == {f \in resources : f.uri = uri}
           known == [Blank EXCEPT !.kind = "read", !.uri = uri, !.due = <<c, e.up>>]
       IN /\ Visible(c)
          /\ found \subseteq Of(resources, c)
          /\ IF found = {}
             THEN Now(r, [known EXCEPT !.at = "byAlias"])
             ELSE \E f \in found :
                    Now(r, [known EXCEPT !.at = "routed", !.target = <<f.conn, f.up>>])

\* Mutant: only of connections that are well.
NamedAndWell(alias) ==
  {c \in Conn : conn[c].exists /\ conn[c].status = "CONNECTED" /\ conn[c].alias = alias}

\* findByAlias
Named(alias) == {c \in Conn : conn[c].exists /\ conn[c].alias = alias}

\* History: the connection whose resource was asked for still has the alias.
StillNamed(r) ==
  LET owner == req[r].due[1]
  IN conn[owner].exists /\ conn[owner].alias = SplitUri(req[r].uri).alias

RouteByAlias(r) ==
  LET split == SplitUri(req[r].uri)
      named == Named(split.alias)
      due == IF StillNamed(r) THEN req[r].due ELSE None
  IN /\ Is(r, "read", "byAlias")
     /\ IF named = {}
        THEN Now(r, [req[r] EXCEPT !.at = "routed", !.due = due, !.target = NotFound])
        ELSE \E c \in named :
               Now(r, [req[r] EXCEPT !.at = "routed", !.due = due, !.target = <<c, split.up>>])

\* No alias leads to a prompt.
FindPrompt(r) ==
  /\ Is(r, "prompt", "idle")
  /\ \E c \in Conn : \E e \in synced[c].prompts :
       LET found == {f \in prompts : f.uri = GatewayUri(conn[c].alias, e.up)}
       IN IF found = {} THEN Now(r, Done("prompt"))
          ELSE \E f \in found :
                 Now(r, [Blank EXCEPT !.at = "routed", !.kind = "prompt",
                                       !.target = <<f.conn, f.up>>])

\* The connection it was routed to serves it, if it is there to be seen.
Serve(r) ==
  LET served == req[r].target # NotFound /\ Visible(req[r].target[1])
      stillDue == req[r].due # None /\ StillNamed(r) /\ Visible(req[r].due[1])
  IN /\ Is(r, "read", "routed") \/ Is(r, "prompt", "routed")
     /\ Now(r, [Done(req[r].kind) EXCEPT !.lost = IF stillDue /\ ~(served /\ req[r].target = req[r].due)
                                     THEN {req[r].due} ELSE {}])

(***************************************************************************)
(* Specification                                                           *)
(***************************************************************************)

RequestStep(r) ==
  \/ ListConnections(r) \/ ListRows(r)
  \/ FindTool(r) \/ Decide(r) \/ Confirm(r) \/ CallTool(r)
  \/ FindResource(r) \/ RouteByAlias(r) \/ FindPrompt(r) \/ Serve(r)

Next ==
  \/ CatalogueNext /\ UNCHANGED <<asks, req>>
  \/ \E r \in Request : RequestStep(r)

Spec == HandlerInit /\ [][Next]_vars /\ CatalogueFairness

(***************************************************************************)
(* Properties                                                              *)
(***************************************************************************)

\* A client that turns the pages of tools/list receives every name that was
\* listed as long as it did, whatever a sync, a rename or a connection coming
\* and going changed between two pages (pagination.ts: "instead of silently
\* skipping or repeating entries").
WalkMissesNothing == \A r \in Request : req[r].kind \in Lists => req[r].lost = {}

\* A resource of a connection that is there all the time is served by it, also
\* while a sync has taken its row away and not put it back (sql-store.ts
\* resources.sync, routeByAlias).  Where a connection took over an alias whose
\* former holder has not been synced since, the rows of both name it, and the
\* property says nothing (see FindResource).
ReadableWhileRewritten == \A r \in Request : req[r].kind = "read" => req[r].lost = {}

\* A tool that the last sync found destructive or financial is not executed
\* unconfirmed (docs/architecture/threat-model.md:155).
DestructiveIsConfirmed == \A r \in Request : ~req[r].risked

=============================================================================
