------------------------------- MODULE Catalogue -------------------------------
(***************************************************************************)
(* The catalogue of tools, resources and prompts: how ConnectionService    *)
(* (packages/federation/src/connection-service.ts) rediscovers what a      *)
(* server offers and writes it row by row (packages/storage/src/           *)
(* sql-store.ts), what renaming, disabling and disconnecting do to it, and *)
(* the rediscovery a list_changed notification asks for (scheduleResync in *)
(* gateway-handler.ts).                                                    *)
(*                                                                         *)
(* A step is a statement, or what runs between two awaits.  The lock of a  *)
(* connection's catalogue is taken not to lapse under its holder (module   *)
(* LeaseLock says when it does).  Left out: descriptions and other columns *)
(* nobody decides by, detectTransport, audit, notifications to clients.    *)
(***************************************************************************)
EXTENDS Naming, Policy

CONSTANTS
  Conn,       \* connections of a tenant, numbers
  Actor,      \* operations of users and of the worker
  Offer,      \* [Conn -> Seq of what its server offers, one edition after another]
  FirstAlias, \* [Conn -> alias]
  NewAlias,   \* aliases a user may ask for
  Workloads,  \* each a function from actors to the <<operation, connection>>
              \* pairs they are used for, with the faults and changes of a
              \* server that go with it; a behaviour has one of them
  None

ASSUME ConnAssumption == Conn \subseteq Nat /\ IsFiniteSet(Conn)
ASSUME ActorAssumption == Actor \cap Conn = {} /\ None \notin Actor \cup Conn
\* A tool as a server lists it (see Policy), and all it lists at a time.
ToolOffer == [up : Upstream, schema : Nat, words : SUBSET RiskLevels, readVerb : BOOLEAN,
              hints : SUBSET Hints]
Entries == {ups \in SUBSET Upstream : IsFiniteSet(ups)}
Editions == [tools : Seq(ToolOffer), resources : Entries, prompts : Entries]
ASSUME OfferAssumption == \A c \in Conn : Offer[c] \in Seq(Editions) /\ Offer[c] # <<>>

\* The shapes of names (see Naming).  Aliases are unique from the start.
Alias == Nat \X Nat
ToolName == Nat \X Nat \X Nat \X Nat \X Nat
Uri == Nat \X Nat \X Nat
ASSUME AliasAssumption ==
  /\ FirstAlias \in [Conn -> Alias] /\ NewAlias \subseteq Alias
  /\ \A c, d \in Conn : FirstAlias[c] = FirstAlias[d] => c = d

Operations == {"sync", "rename", "disable", "enable", "toggle", "disconnect", "crash", "change"}
ASSUME WorkloadsAssumption ==
  Workloads \subseteq [Actor -> SUBSET (Operations \X Conn)]

VARIABLES
  conn,       \* rows of upstream_connections
  tools,      \* rows of discovered_tools
  resources,  \* rows of discovered_resources
  prompts,    \* rows of discovered_prompts
  writer,     \* who holds the lock catalogue-sync:<connection>
  resync,     \* this.resyncing
  pc, loc,    \* where each process is, and the locals it carries over awaits
  edition,    \* what each server offers at present
  announced,  \* a list_changed is on its way
  does,       \* the workload
  synced,     \* history: what the last complete sync stored
  torn,       \* history: the last to take the lock failed, or was interfered with
  unseen      \* history: a list_changed was handled and no resync began since

rows == <<conn, tools, resources, prompts>>
histories == <<synced, torn, unseen>>
catalogueVars == <<rows, writer, resync, pc, loc, edition, announced, does, histories>>

\* Process c, a connection, is the loop of scheduleResync for it.
Process == Actor \cup Conn

Statuses == {"CONNECTED", "DEGRADED", "DISABLED"}
PC == {"idle", "acquire", "list", "lock", "tools", "resources", "prompts", "success",
       "failure", "rename", "withdraw", "again", "looped", "leave"}

(***************************************************************************)
(* What a sync makes of what the server lists                              *)
(***************************************************************************)

\* The names of the tools kept, each told apart from those before it.
ToolNames(alias, kept) ==
  LET names[i \in 0..Len(kept)] ==
        IF i = 0 THEN <<>>
        ELSE Append(names[i - 1],
                    GatewayToolName(alias, kept[i].up,
                                    {names[i - 1][j] : j \in 1..(i - 1)}))
  IN names[Len(kept)]

ToolRecords(c, alias, list) ==
  LET kept == FirstOfEach(list)
      names == ToolNames(alias, kept)
  IN [i \in DOMAIN kept |->
        [conn |-> c, up |-> kept[i].up, gw |-> names[i],
         schema |-> kept[i].schema, risk |-> ClassifyTool(kept[i]),
         enabled |-> ShouldExposeTool(kept[i])]]

EntryRecords(c, alias, ups) ==
  {[conn |-> c, up |-> u, uri |-> GatewayUri(alias, u)] : u \in ups}

Of(table, c) == {r \in table : r.conn = c}

\* What syncTools compares, and a client of a tool can tell.
Identity(r) == [up |-> r.up, gw |-> r.gw, schema |-> r.schema]

\* All a sync is to store, from the editions its lists were of.
Wanted(c, alias, t, r, q) ==
  [tools |-> ToolRecords(c, alias, Offer[c][t].tools),
   resources |-> EntryRecords(c, alias, Offer[c][r].resources),
   prompts |-> EntryRecords(c, alias, Offer[c][q].prompts)]

ToolsIn(want) == {want.tools[i] : i \in DOMAIN want.tools}

First(c) == Wanted(c, FirstAlias[c], 1, 1, 1)

(***************************************************************************)
(* State                                                                   *)
(***************************************************************************)

Rest == [conn |-> None, alias |-> None, from |-> 0, want |-> None, left |-> <<>>, entries |-> {},
         seen |-> {}, tables |-> <<>>]

Init ==
  /\ conn = [c \in Conn |-> [exists |-> TRUE, alias |-> FirstAlias[c], status |-> "CONNECTED"]]
  /\ tools = UNION {ToolsIn(First(c)) : c \in Conn}
  /\ resources = UNION {First(c).resources : c \in Conn}
  /\ prompts = UNION {First(c).prompts : c \in Conn}
  /\ writer = [c \in Conn |-> None]
  /\ resync = [c \in Conn |-> "none"]
  /\ pc = [p \in Process |-> "idle"]
  /\ loc = [p \in Process |-> Rest]
  /\ edition = [c \in Conn |-> 1]
  /\ announced = [c \in Conn |-> FALSE]
  /\ does \in Workloads
  /\ synced = [c \in Conn |-> First(c)]
  /\ torn = [c \in Conn |-> FALSE]
  /\ unseen = [c \in Conn |-> FALSE]

ToolRow == [conn : Conn, up : Upstream, gw : ToolName, schema : Nat, risk : RiskLevels,
            enabled : BOOLEAN]
EntryRow == [conn : Conn, up : Upstream, uri : Uri]
WantedRows == [tools : Seq(ToolRow), resources : SUBSET EntryRow, prompts : SUBSET EntryRow]
Locals == [conn : Conn \cup {None}, alias : Alias \cup {None}, from : Nat,
           want : WantedRows \cup {None},
           left : Seq(ToolRow), entries : SUBSET EntryRow, seen : SUBSET ToolRow,
           tables : Seq({"tools", "resources", "prompts"})]

TypeOK ==
  /\ conn \in [Conn -> [exists : BOOLEAN, alias : Alias, status : Statuses]]
  /\ tools \subseteq ToolRow /\ resources \cup prompts \subseteq EntryRow
  /\ loc \in [Process -> Locals] /\ does \in Workloads
  /\ synced \in [Conn -> WantedRows]
  /\ writer \in [Conn -> Process \cup {None}]
  /\ resync \in [Conn -> {"none", "busy", "repeat", "leaving"}]
  /\ pc \in [Process -> PC]
  /\ edition \in [Conn -> Nat]
  /\ announced \in [Conn -> BOOLEAN] /\ torn \in [Conn -> BOOLEAN]
  /\ unseen \in [Conn -> BOOLEAN]

Goto(p, s) == pc' = [pc EXCEPT ![p] = s]

\* A loop goes on to its condition, a user's operation has ended.
Finish(p) ==
  /\ Goto(p, IF p \in Conn THEN "looped" ELSE "idle")
  /\ loc' = [loc EXCEPT ![p] = Rest]

MayDo(a, op, c) == pc[a] = "idle" /\ <<op, c>> \in does[a] /\ conn[c].exists

\* An update of a deleted row throws.
SetStatus(c, s) == conn' = IF conn[c].exists THEN [conn EXCEPT ![c].status = s] ELSE conn

(***************************************************************************)
(* syncCatalogue                                                           *)
(***************************************************************************)

\* With the connection as it was read, whatever becomes of its row.
SyncWith(p, c, alias) ==
  /\ Goto(p, "acquire")
  /\ loc' = [loc EXCEPT ![p] = [Rest EXCEPT !.conn = c, !.alias = alias]]

Refresh(a, c) ==
  /\ MayDo(a, "sync", c)
  /\ SyncWith(a, c, conn[c].alias)
  /\ UNCHANGED <<rows, writer, resync, edition, announced, does, histories>>

Acquired(p) ==
  /\ pc[p] = "acquire"
  /\ Goto(p, "list")
  /\ loc' = [loc EXCEPT ![p].from = edition[loc[p].conn]]
  /\ UNCHANGED <<rows, writer, resync, edition, announced, does, histories>>

\* The lists are requested at once and answered one by one: each is of some
\* edition the server offered meanwhile.
Listed(p) ==
  LET c == loc[p].conn
      meanwhile == loc[p].from..edition[c]
  IN /\ pc[p] = "list"
     /\ Goto(p, "lock")
     /\ \E t, r, q \in meanwhile :
          loc' = [loc EXCEPT ![p].want = Wanted(c, loc[p].alias, t, r, q)]
     /\ UNCHANGED <<rows, writer, resync, edition, announced, does, histories>>

\* The server cannot be reached, or does not answer.
Unlisted(p) ==
  /\ pc[p] \in {"acquire", "list"}
  /\ Goto(p, "failure")
  /\ UNCHANGED <<rows, writer, resync, loc, edition, announced, does, histories>>

\* Mutant: nothing keeps writers apart ("only ever a rewrite of the same").
MayWriteAnyway(c) == c \in Conn

MayWrite(c) == writer[c] = None

\* withLock, then the rows syncTools starts from.
Lock(p) ==
  LET c == loc[p].conn
  IN /\ pc[p] = "lock"
     /\ MayWrite(c)
     /\ writer' = [writer EXCEPT ![c] = p]
     /\ Goto(p, "tools")
     /\ loc' = [loc EXCEPT ![p].left = loc[p].want.tools, ![p].seen = Of(tools, c)]
     /\ torn' = [torn EXCEPT ![c] = FALSE]
     /\ UNCHANGED <<rows, resync, edition, announced, does, synced, unseen>>

GiveUp(p) ==
  /\ pc[p] = "lock"
  /\ ~MayWrite(loc[p].conn)
  /\ Goto(p, "failure")
  /\ UNCHANGED <<rows, writer, resync, loc, edition, announced, does, histories>>

\* A statement of the critical section throws: the lock is released.
Abort(p) ==
  /\ writer' = [writer EXCEPT ![loc[p].conn] = None]
  /\ torn' = [torn EXCEPT ![loc[p].conn] = TRUE]
  /\ Goto(p, "failure")
  /\ UNCHANGED <<rows, loc, synced, unseen>>

\* A foreign key or the unique index of the table refuses it.
Refused(table, c, u) == ~conn[c].exists \/ \E r \in Of(table, c) : r.up = u

\* One round of the loop of syncTools: insert, update or touch.  An update
\* leaves `enabled` as it was.
WriteTool(p) ==
  LET c == loc[p].conn
      new == Head(loc[p].left)
      previous == {r \in loc[p].seen : r.up = new.up}
      changed == {r \in Of(tools, c) : r.up = new.up /\ \E q \in previous : Identity(q) # Identity(new)}
  IN /\ pc[p] = "tools" /\ loc[p].left # <<>>
     /\ IF previous = {} /\ Refused(tools, c, new.up)
        THEN Abort(p)
        ELSE /\ tools' = IF previous = {} THEN tools \cup {new}
                         ELSE (tools \ changed)
                                \cup {[new EXCEPT !.enabled = r.enabled] : r \in changed}
             /\ loc' = [loc EXCEPT ![p].left = Tail(loc[p].left),
                                   ![p].seen = loc[p].seen \ previous]
             /\ UNCHANGED <<conn, resources, prompts, writer, pc, histories>>
     /\ UNCHANGED <<resync, edition, announced, does>>

\* What the server lists no more, then on to the resources.
DeleteStale(p) ==
  LET stale == loc[p].seen
      one == CHOOSE r \in stale : TRUE
  IN /\ pc[p] = "tools" /\ loc[p].left = <<>>
     /\ IF stale # {}
        THEN /\ tools' = {r \in tools : ~(r.conn = one.conn /\ r.up = one.up)}
             /\ loc' = [loc EXCEPT ![p].seen = stale \ {one}]
             /\ UNCHANGED <<conn, resources, prompts, pc>>
        ELSE /\ resources' = resources \ Of(resources, loc[p].conn)
             /\ loc' = [loc EXCEPT ![p].entries = loc[p].want.resources]
             /\ Goto(p, "resources")
             /\ UNCHANGED <<conn, tools, prompts>>
     /\ UNCHANGED <<writer, resync, edition, announced, does, histories>>

\* An entry to insert next; their order is nobody's concern.
NextEntry(p) == CHOOSE r \in loc[p].entries : TRUE

\* resources.sync after its delete; then prompts.sync up to its own.
WriteResource(p) ==
  LET c == loc[p].conn
      new == NextEntry(p)
  IN /\ pc[p] = "resources"
     /\ \/ /\ loc[p].entries # {} /\ Refused(resources, c, new.up)
           /\ Abort(p)
        \/ /\ loc[p].entries # {} /\ ~Refused(resources, c, new.up)
           /\ resources' = resources \cup {new}
           /\ loc' = [loc EXCEPT ![p].entries = loc[p].entries \ {new}]
           /\ UNCHANGED <<conn, tools, prompts, writer, pc, histories>>
        \/ /\ loc[p].entries = {}
           /\ prompts' = prompts \ Of(prompts, c)
           /\ loc' = [loc EXCEPT ![p].entries = loc[p].want.prompts]
           /\ Goto(p, "prompts")
           /\ UNCHANGED <<conn, tools, resources, writer, histories>>
     /\ UNCHANGED <<resync, edition, announced, does>>

\* prompts.sync after its delete; then the lock is released.
WritePrompt(p) ==
  LET c == loc[p].conn
      new == NextEntry(p)
  IN /\ pc[p] = "prompts"
     /\ \/ /\ loc[p].entries # {} /\ Refused(prompts, c, new.up)
           /\ Abort(p)
        \/ /\ loc[p].entries # {} /\ ~Refused(prompts, c, new.up)
           /\ prompts' = prompts \cup {new}
           /\ loc' = [loc EXCEPT ![p].entries = loc[p].entries \ {new}]
           /\ UNCHANGED <<conn, tools, resources, writer, pc, histories>>
        \/ /\ loc[p].entries = {}
           /\ writer' = [writer EXCEPT ![c] = None]
           /\ synced' = [synced EXCEPT ![c] = loc[p].want]
           /\ Goto(p, "success")
           /\ UNCHANGED <<rows, loc, torn, unseen>>
     /\ UNCHANGED <<resync, edition, announced, does>>

\* The connection is up again; or the catch clause says it is not.
RecordOutcome(p) ==
  /\ \/ pc[p] = "success" /\ SetStatus(loc[p].conn, "CONNECTED")
     \/ pc[p] = "failure" /\ SetStatus(loc[p].conn, "DEGRADED")
  /\ Finish(p)
  /\ UNCHANGED <<tools, resources, prompts, writer, resync, edition, announced, does, histories>>

(***************************************************************************)
(* Other operations on a connection                                        *)
(***************************************************************************)

\* The aliases in use are read first, and the column is unique.
Rename(a, c, alias) ==
  /\ MayDo(a, "rename", c)
  /\ \A d \in Conn \ {c} : conn[d].exists => conn[d].alias # alias
  /\ Goto(a, "rename")
  /\ loc' = [loc EXCEPT ![a] = [Rest EXCEPT !.conn = c, !.alias = alias]]
  /\ UNCHANGED <<rows, writer, resync, edition, announced, does, histories>>

SetAlias(a) ==
  LET c == loc[a].conn
      taken == \E d \in Conn \ {c} : conn[d].exists /\ conn[d].alias = loc[a].alias
  IN /\ pc[a] = "rename"
     /\ IF conn[c].exists /\ ~taken
        THEN conn' = [conn EXCEPT ![c].alias = loc[a].alias] /\ SyncWith(a, c, loc[a].alias)
        ELSE UNCHANGED conn /\ Finish(a)
     /\ UNCHANGED <<tools, resources, prompts, writer, resync, edition, announced, does, histories>>

Disable(a, c) ==
  /\ MayDo(a, "disable", c) /\ conn[c].status # "DISABLED"
  /\ SetStatus(c, "DISABLED")
  /\ UNCHANGED <<tools, resources, prompts, writer, resync, pc, loc, edition, announced,
                 does, histories>>

Enable(a, c) ==
  /\ MayDo(a, "enable", c) /\ conn[c].status = "DISABLED"
  /\ SetStatus(c, "CONNECTED")
  /\ SyncWith(a, c, conn[c].alias)
  /\ UNCHANGED <<tools, resources, prompts, writer, resync, edition, announced, does, histories>>

SetToolEnabled(a, r) ==
  /\ MayDo(a, "toggle", r.conn)
  /\ tools' = (tools \ {r}) \cup {[r EXCEPT !.enabled = ~r.enabled]}
  /\ UNCHANGED <<conn, resources, prompts, writer, resync, pc, loc, edition, announced,
                 does, histories>>

\* The grant is revoked and the sessions are released, before anything goes.
Disconnect(a, c) ==
  /\ MayDo(a, "disconnect", c)
  /\ Goto(a, "withdraw")
  /\ loc' = [loc EXCEPT ![a] = [Rest EXCEPT !.conn = c,
                                         !.tables = <<"tools", "resources", "prompts">>]]
  /\ UNCHANGED <<rows, writer, resync, edition, announced, does, histories>>

\* Table by table without the lock; the row of the connection takes with it
\* what a sync has put there since.
Withdraw(a) ==
  LET c == loc[a].conn
      drops(table) == loc[a].tables = <<>> \/ Head(loc[a].tables) = table
      Without(name, table) == IF drops(name) THEN table \ Of(table, c) ELSE table
  IN /\ pc[a] = "withdraw"
     /\ tools' = Without("tools", tools)
     /\ resources' = Without("resources", resources)
     /\ prompts' = Without("prompts", prompts)
     /\ torn' = [torn EXCEPT ![c] = TRUE]
     /\ IF loc[a].tables = <<>>
        THEN conn' = [conn EXCEPT ![c].exists = FALSE] /\ Finish(a)
        ELSE loc' = [loc EXCEPT ![a].tables = Tail(loc[a].tables)] /\ UNCHANGED <<conn, pc>>
     /\ UNCHANGED <<writer, resync, edition, announced, does, synced, unseen>>

\* The process of an operation dies; the lock it holds expires.
Crash(a) ==
  /\ \E c \in Conn : <<"crash", c>> \in does[a]
  /\ pc[a] # "idle"
  /\ pc' = [pc EXCEPT ![a] = "idle"]
  /\ loc' = [loc EXCEPT ![a] = Rest]
  /\ writer' = [c \in Conn |-> IF writer[c] = a THEN None ELSE writer[c]]
  /\ torn' = [c \in Conn |-> torn[c] \/ writer[c] = a]
  /\ UNCHANGED <<rows, resync, edition, announced, does, synced, unseen>>

(***************************************************************************)
(* list_changed                                                            *)
(***************************************************************************)

\* External: the server changes what it offers and says so.
Change(c) ==
  /\ \E a \in Actor : <<"change", c>> \in does[a]
  /\ edition[c] < Len(Offer[c])
  /\ edition' = [edition EXCEPT ![c] = @ + 1]
  /\ announced' = [announced EXCEPT ![c] = TRUE]
  /\ UNCHANGED <<rows, writer, resync, pc, loc, does, histories>>

\* Mutant: a change announced during a rediscovery is taken to be seen by it.
RequestedOnce(state) == IF state = "none" THEN "busy" ELSE state

\* What a request to rediscover does to the loop of a connection.
Requested(state) == IF state = "none" THEN "busy" ELSE "repeat"

\* scheduleResync.  One that meets a loop past its last look at `repeat` is
\* lost on it: the history takes no note of that.
ScheduleResync(c) ==
  /\ announced[c]
  /\ announced' = [announced EXCEPT ![c] = FALSE]
  /\ resync' = [resync EXCEPT ![c] = IF @ = "leaving" THEN @ ELSE Requested(@)]
  /\ pc' = IF resync[c] = "none" THEN [pc EXCEPT ![c] = "again"] ELSE pc
  /\ unseen' = [unseen EXCEPT ![c] = resync[c] # "leaving"]
  /\ UNCHANGED <<rows, writer, loc, edition, does, synced, torn>>

\* resyncCatalogue reads the row, unless the connection is gone.
BeginResync(c) ==
  /\ pc[c] = "again"
  /\ unseen' = [unseen EXCEPT ![c] = FALSE]
  /\ IF conn[c].exists THEN SyncWith(c, c, conn[c].alias) ELSE Finish(c)
  /\ UNCHANGED <<rows, writer, resync, edition, announced, does, synced, torn>>

\* while (state.repeat)
RepeatResync(c) ==
  /\ pc[c] = "looped"
  /\ IF resync[c] = "repeat"
     THEN resync' = [resync EXCEPT ![c] = "busy"] /\ Goto(c, "again")
     ELSE resync' = [resync EXCEPT ![c] = "leaving"] /\ Goto(c, "leave")
  /\ UNCHANGED <<rows, writer, loc, edition, announced, does, histories>>

\* finally
EndResync(c) ==
  /\ pc[c] = "leave"
  /\ Goto(c, "idle")
  /\ resync' = [resync EXCEPT ![c] = "none"]
  /\ UNCHANGED <<rows, writer, loc, edition, announced, does, histories>>

(***************************************************************************)
(* Specification                                                           *)
(***************************************************************************)

SyncStep(p) ==
  \/ Acquired(p) \/ Listed(p) \/ Unlisted(p) \/ Lock(p) \/ GiveUp(p)
  \/ WriteTool(p) \/ DeleteStale(p) \/ WriteResource(p) \/ WritePrompt(p)
  \/ RecordOutcome(p)

LoopStep(c) == BeginResync(c) \/ RepeatResync(c) \/ EndResync(c)

OperationStep(a) ==
  \/ \E c \in Conn : Refresh(a, c) \/ Disable(a, c) \/ Enable(a, c) \/ Disconnect(a, c)
  \/ \E c \in Conn, alias \in NewAlias : Rename(a, c, alias)
  \/ \E r \in tools : SetToolEnabled(a, r)
  \/ SetAlias(a) \/ Withdraw(a) \/ Crash(a)

CatalogueNext ==
  \/ \E p \in Process : SyncStep(p)
  \/ \E a \in Actor : OperationStep(a)
  \/ \E c \in Conn : Change(c) \/ ScheduleResync(c) \/ LoopStep(c)

\* A server may keep a sync waiting for ever: the GET of a legacy transport has no
\* deadline (legacy-sse.ts:113), and an answer that trickles outlives any.
AwaitsServer(c) == pc[c] \in {"acquire", "list"}

\* Statements come back, and who waits for the lock gets it or gives up; a
\* notification may stay under way for ever.
LoopRuns(c) == pc[c] # "idle" /\ ~AwaitsServer(c) /\ (SyncStep(c) \/ LoopStep(c))
CatalogueFairness == \A c \in Conn : WF_catalogueVars(LoopRuns(c))

(***************************************************************************)
(* Properties                                                              *)
(***************************************************************************)

\* Unless the last writer failed, died or met a disconnection, the tables hold
\* what that one sync listed: syncs that race (the worker's, a user's, the one a
\* list_changed asked for) never mix, and one that completes repairs what others
\* have left (syncCatalogue, its lock).
StoredIsOneSync ==
  \A c \in Conn : writer[c] = None /\ ~torn[c] =>
    /\ {Identity(r) : r \in Of(tools, c)} = {Identity(r) : r \in ToolsIn(synced[c])}
    /\ Of(resources, c) = synced[c].resources
    /\ Of(prompts, c) = synced[c].prompts

\* A change announced while a rediscovery runs is followed by one that begins
\* later (scheduleResync: "one more run is queued rather than dropped"), unless
\* the one that runs awaits its server for ever.
ChangeIsSynced == \A c \in Conn : unseen[c] ~> (~unseen[c] \/ []AwaitsServer(c))

=============================================================================
