---------------------------- MODULE MCOnboarding ----------------------------
(***************************************************************************)
(* Onboarding and the migration CLI together, on small workloads.  A mix   *)
(* says which URLs a user keeps trying to connect, which events may happen *)
(* besides, each once, and how many requests the gateway handles at a time.*)
(***************************************************************************)
EXTENDS Migration, TLC

CONSTANT Mixes

(* Lists of servers are not empty.                                         *)
ASSUME MixesAssumption ==
  \A m \in Mixes :
    /\ m = [lists |-> m.lists, together |-> m.together, wants |-> m.wants,
            does |-> m.does, name |-> m.name]
    /\ m.lists \in [Url -> Seq(Issuer) \ {<<>>}] /\ m.together \in Nat
    /\ m.wants \subseteq Url /\ m.name \in Name
    /\ \A e \in m.does :
         /\ e[1] = "move" => e[2] \in Url /\ e[3] \in Seq(Issuer) \ {<<>>}
         /\ e[1] = "create" => e[2] \in Url
         /\ e[1] = "restart" => e[2] \in Nat
         /\ e[1] \in {"lapse", "configure"} => e[2] \in Issuer

VARIABLES
  mix,
  served,     \* history: the URLs the gateway could serve, needing no grant or holding one
  tried,      \* history: those whose catalogue it was asked for
  moved,      \* history: those that came to name other authorization servers
  shared,     \* history: the connections that two requests authorize, until none does
  crossed     \* history: those that were shared when their URL had moved

history == <<served, tried, moved, shared, crossed>>
vars == <<mix, lists, servers, connections, transactions, req, clients,
          home, lapsed, registrations, preconfigured, files, backups, torn, cli, died,
          served, tried, moved, shared, crossed>>

Init ==
  /\ mix \in Mixes
  /\ lists = mix.lists
  /\ ServerInit /\ RegistrationsInit /\ OnboardingInit /\ MigrationInit
  /\ served = {} /\ tried = {} /\ moved = {} /\ shared = {} /\ crossed = {}

\* What a connection must hold for its upstream to be served.
Equipped(c) == connections[c].url \notin Protected \/ connections[c].grant # None
Authorized(c) == \E a \in Actor : Authorizing(a, c)
Together(c) == \E a, b \in Actor : a # b /\ Authorizing(a, c) /\ Authorizing(b, c)

(* What is remembered of every step.                                       *)
Remember ==
  /\ served' = served \cup {connections'[c].url : c \in {d \in Conn' : Equipped(d)'}}
  /\ tried' = tried \cup {req'[a].url : a \in {b \in Actor : At(b, "sync")'}}
  /\ moved' = moved \cup {u \in Url : lists'[u] # lists[u]}
  /\ shared' = {c \in Conn' : Together(c)' \/ (c \in shared /\ Authorized(c)')}
  /\ crossed' = crossed \cup {c \in shared' : connections'[c].url \in moved'}

Busy(a) == ~At(a, "idle")
Free(a) ==
  /\ ~Busy(a)
  /\ \A b \in Actor : b < a => Busy(b)
  /\ Cardinality({b \in Actor : Busy(b)}) < mix.together
Alone(c) == \A a \in Actor : Busy(a) => req[a].conn # c

(* A user who does not give up: asks for the connection until there is one,*)
(* authorizes it until it serves, and leaves what leads nowhere.           *)
Asks(a) ==
  \E u \in mix.wants :
    /\ ConnectionsOf(u) = {}
    /\ \A b \in Actor : req[b].url # u
    /\ Import(a, <<[url |-> u, name |-> mix.name]>>)
Authorizable(c) ==
  /\ connections[c].url \in mix.wants
  /\ connections[c].status \notin Serves /\ Waiting(c) = {} /\ Alone(c)
  /\ connections[c].status = "CLIENT_CREDENTIALS_REQUIRED" =>
       preconfigured[connections[c].issuer] # 0
UserStep ==
  \/ \E a \in Actor : Free(a) /\ Asks(a)
  \/ \E a \in Actor, c \in Conn : Free(a) /\ Authorizable(c) /\ StartAuthorization(a, c)
  \/ \E a \in Actor, t \in transactions : Free(a) /\ Callback(a, t)
  \/ \E t \in transactions : ~Approvable(t) /\ Expire(t)

Progress ==
  /\ UNCHANGED mix
  /\ \/ (UserStep \/ \E a \in Actor : RequestStep(a)) /\ UNCHANGED migrationVars
     \/ CommandStep /\ UNCHANGED <<onVars, asVars, regVars>>
     \/ \E i \in Issuer : <<"operator", i>> \in mix.does /\ preconfigured[i] = 0
          /\ Configure(i) /\ UNCHANGED <<onVars, asVars, migrationVars>>
  /\ Remember

Happens(e) ==
  CASE e[1] = "start"     -> \E a \in Actor : Free(a) /\ StartAuthorization(a, e[2])
    [] e[1] = "create"    -> \E a \in Actor : Free(a)
                               /\ Import(a, <<[url |-> e[2], name |-> mix.name]>>)
    [] e[1] = "refresh"   -> \E a \in Actor : Free(a) /\ Refresh(a, e[2])
    [] e[1] = "disable"   -> Disable(e[2])
    [] e[1] = "enable"    -> \E a \in Actor : Free(a) /\ Enable(a, e[2])
    [] e[1] = "move"      -> Move(e[2], e[3])
    [] e[1] = "restart"   -> Restart(e[2])
    [] e[1] = "lapse"     -> Lapse(e[2]) /\ UNCHANGED <<onVars, regVars>>
    [] e[1] = "configure" -> Configure(e[2]) /\ UNCHANGED <<onVars, asVars>>
    [] e[1] = "mishap"    -> \E a \in Actor : Mishap(a) \/ ContactFails(a)
    [] e[1] = "expire"    -> \E t \in transactions : Expire(t)
    [] OTHER              -> FALSE

Commands(e) ==
  CASE e[1] = "install"  -> InstallCommand
    [] e[1] = "prune"    -> PruneCommand
    [] e[1] = "rollback" -> RollbackCommand(Len(backups))
    [] e[1] = "die"      -> Die \/ ForgetDies
    [] OTHER             -> FALSE

Event ==
  \E e \in mix.does :
    /\ mix' = [mix EXCEPT !.does = @ \ {e}]
    /\ \/ Happens(e) /\ UNCHANGED migrationVars
       \/ Commands(e) /\ UNCHANGED <<onVars, asVars, regVars>>
       \/ e[1] = "import" /\ \E a \in Actor : Free(a) /\ ImportCommand(a)
  /\ Remember

Next == Progress \/ Event

(* Whoever has begun goes on: the gateway handles its requests, a command  *)
(* runs to its end, the user comes back, the operator does as asked.       *)
Spec == Init /\ [][Next]_vars /\ WF_vars(Progress)

(* Every variable has its type, in the gateway and in the command line.    *)
TypeOK ==
  /\ OnboardingTypeOK /\ MigrationTypeOK
  /\ served \subseteq Url /\ tried \subseteq Url /\ moved \subseteq Url
  /\ shared \subseteq Conn /\ crossed \subseteq Conn

(* Connection, client and grant move together to another server, though a  *)
(* request changes them one statement at a time, and other requests of the *)
(* same and of other connections come between: what a connection holds is  *)
(* of the server it names, a client is presented only to the server it was *)
(* registered at, and the user is sent nowhere as the client of another.   *)
(* Where a resource has moved the gateway keeps this only while one request*)
(* at a time authorizes the connection: where two did it does not          *)
(* (GrantOfItsServer), and a crossed connection is left out.               *)
ClientsStayHome ==
  /\ \A c \in Conn \ crossed :
       /\ Consistent(c)
       /\ \A a \in Actor :
            At(a, "present") /\ req[a].conn = c /\ req[a].seen.reg # None =>
              registrations[req[a].seen.reg].issuer = req[a].seen.issuer
  /\ \A a \in Actor :
       At(a, "transaction") => registrations[req[a].reg].issuer = req[a].issuer

(* "Only servers the gateway is actually serving are removed, so a         *)
(* connection that never finished its authorization keeps working the way  *)
(* it did before" (plan.ts:139).                                           *)
PrunedWasServed == Pruned \subseteq served

(* What prune removes was served, or the gateway was asked for its         *)
(* catalogue: an authorization that is pending, or was never asked for, is *)
(* never enough, however requests, failures and commands interleave.       *)
PrunedWasAskedFor == Pruned \subseteq served \cup tried

(* A user who keeps trying ends with a connection that serves the URL: an  *)
(* alias taken meanwhile, a server row without a connection, a client the  *)
(* server refuses, a secret that ran out, a restart at another address or  *)
(* a resource that moved to another server each cost a retry, not more.    *)
ConnectsInTheEnd == <>[](\A u \in mix.wants : Serving(u))

----------------------------------------------------------------------------
MCUrl == {"u1", "u2", "u3"}
MCAlias == <<"u", "u-2", "u-3">>
MCFeature ==
  [i \in Issuer |->
    [cimd |-> i = "documents", dcr |-> i \in {"documents", "expiring", "other"},
     reaches |-> TRUE,
     methods |-> IF i = "other" THEN {"none"}
                 ELSE {"private_key_jwt", "client_secret_basic"},
     dishonoured |-> IF i = "expiring" THEN {"private_key_jwt"} ELSE {},
     refusesDocument |-> i = "documents",
     renews |-> i # "portal"]]
MCSpelling == {"u1", "u1/", "u3", "u3/", "gateway", "stdio"}
MCCanonical == [s \in MCSpelling |->
  CASE s \in {"u1", "u1/"} -> "u1" [] s \in {"u3", "u3/"} -> "u3"
    [] s = "gateway" -> Gateway [] OTHER -> None]
MCServed0 == [f \in File |->
  CASE f = "cursor" -> [mine |-> "u1/", local |-> "stdio"]
    [] f = "codex" -> [one |-> "u1", two |-> "u3"]
    [] f = "vscode" -> Unreadable
    [] OTHER -> Absent]

MCLists(i) == [u \in MCUrl |-> <<i>>]
Mix(i, together, wants, does) ==
  [lists |-> MCLists(i), together |-> together, wants |-> wants, does |-> does,
   name |-> "mine"]
\* A catalogue asked for before the connection is authorized.
MCAskedFor ==
  {Mix("other", 1, {"u1"}, {<<"import", 1>>, <<"mishap", 1>>, <<"refresh", 1>>, <<"prune", 1>>})}
\* A resource that moves while two requests at a time authorize it.
MCOverlap ==
  {Mix("other", 2, {"u1"}, {<<"move", "u1", <<"expiring">>>>, <<"start", 1>>, <<"start", 1, 2>>})}
MCMixes ==
  { \* two users, two URLs at one server that refuses documents
    Mix("documents", 2, {"u1", "u2"}, {<<"mishap", 1>>}),
    \* the same URL asked for twice, with failures
    Mix("other", 2, {"u1"}, {<<"create", "u1">>, <<"mishap", 1>>, <<"mishap", 2>>}),
    \* an impatient user
    Mix("expiring", 2, {"u1"}, {<<"start", 1>>, <<"lapse", "expiring">>, <<"expire", 1>>}),
    \* the gateway moves
    Mix("documents", 1, {"u1"}, {<<"restart", 2>>, <<"restart", 1>>}),
    \* no client without the operator
    Mix("portal", 2, {"u1"}, {<<"operator", "portal">>, <<"start", 1>>, <<"configure", "portal">>}),
    \* taken out of service, put back, and asked for again
    Mix("other", 2, {"u1"}, {<<"disable", 1>>, <<"enable", 1>>, <<"refresh", 1>>,
                             <<"mishap", 1>>}),
    Mix("portal", 1, {"u1"}, {<<"operator", "portal">>, <<"disable", 1>>, <<"enable", 1>>}),
    \* the resource moves
    Mix("other", 1, {"u1"}, {<<"move", "u1", <<"expiring">>>>, <<"start", 1>>,
                             <<"move", "u1", <<"other", "expiring">>>>}),
    \* the CLI
    Mix("other", 1, {"u1"}, {<<"import", 1>>, <<"install", 1>>, <<"install", 2>>,
       <<"prune", 1>>, <<"rollback", 1>>, <<"rollback", 2>>, <<"die", 1>>}),
    \* pruned while a connection is pending, or refused
    Mix("other", 1, {"u1"}, {<<"import", 1>>, <<"mishap", 1>>, <<"prune", 1>>})
  } \cup MCAskedFor \cup MCOverlap
=============================================================================
