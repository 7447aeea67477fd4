--------------------------- MODULE UpstreamSessions ---------------------------
(***************************************************************************)
(* UpstreamSessionManager (packages/federation/src/upstream-sessions.ts):  *)
(* the live MCP client sessions of one process, one per connection and     *)
(* downstream session, opened on demand and released by whoever takes the  *)
(* connection or the downstream session away.                              *)
(*                                                                         *)
(* JavaScript runs one step at a time; an action is what happens between   *)
(* two awaits.  The promise of an attempt settles and its finally() runs   *)
(* in microtasks, with the step before them.  Left out: the rows of        *)
(* upstream_sessions (written, never read), lastUsed (any session may be   *)
(* idle when the sweep looks at it) and the traffic of the sessions.       *)
(***************************************************************************)
CONSTANTS
  Key,         \* pairs of a connection and a downstream session
  Scope,       \* sets of keys: of a connection, of a downstream session, all
  Attempt,     \* tokens of attempts to open; also names the session it opens
  Releaser,    \* calls that release sessions
  Undefined    \* no attempt, no session, no key

ASSUME ScopeAssumption == Scope \subseteq SUBSET Key
ASSUME UndefinedAssumption == Undefined \notin Attempt

VARIABLES
  openings,    \* openings[k]: the attempt registered under k
  entries,     \* entries[k]: the session recorded as live under k
  stage,       \* stage[a]: "unused", "connecting" (initialize), "persisting",
               \* "open"; "rejected" (open() awaits close()); "closed" (from
               \* when close() is called); "lost" (open() threw and left the
               \* session as it is)
  keyOf,       \* keyOf[a]: the key a was started for
  dropped,     \* history, dropped[a]: a's token was dropped by a release
               \* "connecting" or "persisting"; "no" when it was not
  todo,        \* todo[r]: what is left of r's copy of the entries
  awaiting     \* awaiting[r]: r awaits the close() of a session

mapVars == <<openings, entries>>
attemptVars == <<stage, keyOf, dropped>>
releaseVars == <<todo, awaiting>>
sessionVars == <<mapVars, attemptVars, releaseVars>>

Stage == {"unused", "connecting", "persisting", "open", "rejected", "closed", "lost"}

SessionsTypeOK ==
  /\ openings \in [Key -> Attempt \cup {Undefined}]
  /\ entries \in [Key -> Attempt \cup {Undefined}]
  /\ stage \in [Attempt -> Stage]
  /\ keyOf \in [Attempt -> Key \cup {Undefined}]
  /\ dropped \in [Attempt -> {"no", "connecting", "persisting"}]
  /\ todo \in [Releaser -> SUBSET Attempt]
  /\ awaiting \in [Releaser -> BOOLEAN]

SessionsInit ==
  /\ openings = [k \in Key |-> Undefined]
  /\ entries = [k \in Key |-> Undefined]
  /\ stage = [a \in Attempt |-> "unused"]
  /\ keyOf = [a \in Attempt |-> Undefined]
  /\ dropped = [a \in Attempt |-> "no"]
  /\ todo = [r \in Releaser |-> {}]
  /\ awaiting = [r \in Releaser |-> FALSE]

(***************************************************************************)
(* acquire and open                                                        *)
(***************************************************************************)

\* Neither a live session nor an attempt to share: start one.
Acquire(k, a) ==
  /\ entries[k] = Undefined
  /\ openings[k] = Undefined
  /\ stage[a] = "unused"
  /\ openings' = [openings EXCEPT ![k] = a]
  /\ stage' = [stage EXCEPT ![a] = "connecting"]
  /\ keyOf' = [keyOf EXCEPT ![a] = k]
  /\ UNCHANGED <<entries, dropped, releaseVars>>

\* Mutant of Settle: it takes away whatever is registered by now.
SettleAny(a) == openings' = [openings EXCEPT ![keyOf[a]] = Undefined]

\* The finally() of acquire: only the attempt's own registration goes.
Settle(a) ==
  openings' = [openings EXCEPT ![keyOf[a]] = IF @ = a THEN Undefined ELSE @]

\* Mutant of TokenKept: some attempt is registered, this one or another.
SomeTokenKept(a) == openings[keyOf[a]] # Undefined

TokenKept(a) == openings[keyOf[a]] = a

\* initialize() succeeded and the token is still there.
Connected(a) ==
  /\ stage[a] = "connecting"
  /\ TokenKept(a)
  /\ stage' = [stage EXCEPT ![a] = "persisting"]
  /\ UNCHANGED <<mapVars, keyOf, dropped, releaseVars>>

\* Mutant of ConnectRejected: the failure is a state nobody expects.
ConnectBroken(a) ==
  /\ stage[a] = "connecting"
  /\ stage' = [stage EXCEPT ![a] = "failed"]
  /\ UNCHANGED <<mapVars, keyOf, dropped, releaseVars>>

\* It failed, or the attempt was released meanwhile: the client is closed.
ConnectRejected(a) ==
  /\ stage[a] = "connecting"
  /\ stage' = [stage EXCEPT ![a] = "rejected"]
  /\ UNCHANGED <<mapVars, keyOf, dropped, releaseVars>>

\* That close() has ended and open() throws.
AttemptClosed(a) ==
  /\ stage[a] = "rejected"
  /\ stage' = [stage EXCEPT ![a] = "closed"]
  /\ Settle(a)
  /\ UNCHANGED <<entries, keyOf, dropped, releaseVars>>

\* The row is written and the session recorded, over whatever is there.
Persisted(a) ==
  /\ stage[a] = "persisting"
  /\ entries' = [entries EXCEPT ![keyOf[a]] = a]
  /\ stage' = [stage EXCEPT ![a] = "open"]
  /\ Settle(a)
  /\ UNCHANGED <<keyOf, dropped, releaseVars>>

\* The store failed: open() throws and leaves the client as it is.
PersistFails(a) ==
  /\ stage[a] = "persisting"
  /\ stage' = [stage EXCEPT ![a] = "lost"]
  /\ Settle(a)
  /\ UNCHANGED <<entries, keyOf, dropped, releaseVars>>

(***************************************************************************)
(* release, releaseDownstream, releaseConnection, closeAll, sweep          *)
(***************************************************************************)

CancelOpenings(S) ==
  LET cancelled == {openings[k] : k \in S} \ {Undefined} IN
  /\ openings' = [k \in Key |-> IF k \in S THEN Undefined ELSE openings[k]]
  /\ dropped' = [a \in Attempt |->
                   IF a \in cancelled /\ stage[a] \in {"connecting", "persisting"}
                   THEN stage[a] ELSE dropped[a]]

\* Mutant of CloseNext: the session is closed before it leaves the map.
CloseFirst(r, left) ==
  \/ /\ left = {}
     /\ todo' = [todo EXCEPT ![r] = {}]
     /\ awaiting' = [awaiting EXCEPT ![r] = FALSE]
     /\ UNCHANGED <<entries, stage>>
  \/ \E a \in left :
       /\ stage' = [stage EXCEPT ![a] = "closed"]
       /\ todo' = [todo EXCEPT ![r] = left \ {a}]
       /\ awaiting' = [awaiting EXCEPT ![r] = TRUE]
       /\ UNCHANGED entries

\* One turn of the loop, up to the await: the key is deleted, whatever it
\* names by now, and the session of the copy is closed.
CloseNext(r, left) ==
  \/ /\ left = {}
     /\ todo' = [todo EXCEPT ![r] = {}]
     /\ awaiting' = [awaiting EXCEPT ![r] = FALSE]
     /\ UNCHANGED <<entries, stage>>
  \/ \E a \in left :
       /\ entries' = [entries EXCEPT ![keyOf[a]] = Undefined]
       /\ stage' = [stage EXCEPT ![a] = "closed"]
       /\ todo' = [todo EXCEPT ![r] = left \ {a}]
       /\ awaiting' = [awaiting EXCEPT ![r] = TRUE]

\* The openings of the scope are cancelled, its entries copied, and the loop
\* over the copy begins.
Release(r, S) ==
  /\ ~awaiting[r]
  /\ CancelOpenings(S)
  /\ CloseNext(r, {entries[k] : k \in S} \ {Undefined})
  /\ UNCHANGED keyOf

\* The sweep cancels nothing, and passes over entries that are not idle.
Sweep(r, idle) ==
  /\ ~awaiting[r]
  /\ idle # {}
  /\ idle \subseteq {entries[k] : k \in Key} \ {Undefined}
  /\ CloseNext(r, idle)
  /\ UNCHANGED <<openings, keyOf, dropped>>

\* The await of a close() ends, well or not: the next turn of the loop.
CloseEnds(r) ==
  /\ awaiting[r]
  /\ CloseNext(r, todo[r])
  /\ UNCHANGED <<openings, keyOf, dropped>>

SessionsNext ==
  \/ \E a \in Attempt :
       \/ \E k \in Key : Acquire(k, a)
       \/ Connected(a) \/ ConnectRejected(a) \/ AttemptClosed(a)
       \/ Persisted(a) \/ PersistFails(a)
  \/ \E r \in Releaser :
       \/ \E S \in Scope : Release(r, S)
       \/ \E idle \in SUBSET Attempt : Sweep(r, idle)
       \/ CloseEnds(r)

SessionsSpec == SessionsInit /\ [][SessionsNext]_sessionVars

-----------------------------------------------------------------------------
(***************************************************************************)
(* Properties                                                              *)
(***************************************************************************)

\* acquire never answers with a session that somebody is closing or has
\* closed: whoever closes one has taken it from the map in the same step,
\* and none is put back, however releases, sweeps and attempts interleave.
HandsOutOpen ==
  \A k \in Key : entries[k] # Undefined => stage[entries[k]] = "open"

\* Concurrent callers share one attempt (upstream-sessions.ts:93-98): per key
\* at most one is under way that nobody released, the finally() of an older
\* attempt does not take the registration of its successor away, and every
\* attempt registered is one still under way.
SharedAttempt ==
  /\ \A k \in Key : openings[k] # Undefined =>
       /\ keyOf[openings[k]] = k
       /\ stage[openings[k]] \in {"connecting", "rejected", "persisting"}
  /\ \A a \in Attempt : stage[a] \in {"connecting", "persisting"} /\ dropped[a] = "no" =>
       openings[keyOf[a]] = a

\* An attempt released before its initialize() returned is closed and never
\* recorded (upstream-sessions.ts:183-191), even when the key has a newer
\* attempt by then.
ReleasedWhileConnecting ==
  \A a \in Attempt : dropped[a] = "connecting" => stage[a] \notin {"persisting", "open"}

=============================================================================
