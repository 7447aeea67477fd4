-------------------------- MODULE DownstreamSession --------------------------
(***************************************************************************)
(* One DownstreamSession (packages/mcp-server/src/session.ts) and the      *)
(* paths of NorthboundMcpServer (northbound-server.ts) that use it: the    *)
(* client's GET streams and the streams that answer its POSTs, the history *)
(* a stream is resumed from, the requests the gateway sends to the client, *)
(* cancellation, and the three ways a session is closed.                   *)
(*                                                                         *)
(* JavaScript runs one step at a time; an action is what happens between   *)
(* two awaits.  A message is its event id: history holds consecutive ids,  *)
(* the last HistoryLimit of them.  A stream is open for as long as the     *)
(* server believes it is.  Left out: batches (a POST here carries one      *)
(* message), what is written without an id (answers, progress, comments),  *)
(* the ids of client requests (taken to be distinct, as JSON-RPC has it),  *)
(* checks that change nothing (origin, credential, version, malformed) and *)
(* lastSeenAt: any session may be idle when the sweep looks at it.         *)
(***************************************************************************)
EXTENDS Integers

CONSTANTS
  MaxStreams,    \* bound: responses opened as event streams, to GETs and POSTs
  Post,          \* POSTs that carry a request
  HistoryLimit,  \* HISTORY_LIMIT
  MaxEvents,     \* bound: messages a session sends
  None           \* undefined

ASSUME LimitAssumption == HistoryLimit \in Nat \ {0}
ASSUME BoundAssumption == MaxEvents \in Nat /\ MaxStreams \in Nat
ASSUME NoneAssumption == None \notin Nat

VARIABLES
  listed,        \* the session is in the server's map
  ready,         \* initialize was answered: the client knows the session id
  closed,        \* closedFlag
  opened,        \* streams opened so far; they are numbered in that order
  live,          \* the streams that are not isClosed
  streams,       \* the standalone streams
  requestStreams,
  nextEventId,
  delivered,     \* the ids whose entry is marked delivered
  written,       \* history, written[s]: the ids written to s
  from,          \* history, from[s]: the Last-Event-ID s was opened with
  since,         \* history, since[s]: the next event id when s was opened
  pending,       \* server requests with a timer, by the id of their event
  waiting,       \* history: server requests whose promise is not settled
  pc,            \* pc[p]: "new", "resolved" (awaits notification handlers),
                 \* "running" (awaits onRequest), "confirming" (onRequest
                 \* awaits the client) or "done"
  answerOn,      \* answerOn[p]: the stream that answers p
  asks,          \* asks[p]: the server request p's handler awaits
  inFlight,      \* the POSTs with a controller in inFlight
  aborted,       \* the POSTs whose controller has aborted
  late           \* history: the POSTs executed when the session was closed

lifeVars == <<listed, ready, closed>>
streamVars == <<opened, live, streams, requestStreams, from, since>>
messageVars == <<nextEventId, delivered, written>>
askVars == <<pending, waiting>>
postVars == <<pc, answerOn, asks, inFlight, aborted, late>>
vars == <<lifeVars, streamVars, messageVars, askVars, postVars>>

Stream == 1 .. MaxStreams
Event == 1 .. nextEventId - 1

\* The ids still in history.
Retained == {e \in Event : e >= nextEventId - HistoryLimit}

TypeOK ==
  /\ listed \in BOOLEAN /\ ready \in BOOLEAN /\ closed \in BOOLEAN
  /\ opened \in 0 .. MaxStreams
  /\ live \subseteq 1 .. opened
  /\ streams \subseteq 1 .. opened
  /\ requestStreams \subseteq 1 .. opened
  /\ from \in [Stream -> Nat \cup {None}]
  /\ since \in [Stream -> Nat]
  /\ nextEventId \in Nat \ {0}
  /\ delivered \subseteq Event
  /\ written \in [Stream -> SUBSET Event]
  /\ pending \subseteq Event
  /\ waiting \subseteq Event
  /\ pc \in [Post -> {"new", "resolved", "running", "confirming", "done"}]
  /\ answerOn \in [Post -> 1 .. opened \cup {None}]
  /\ asks \in [Post -> Event \cup {None}]
  /\ inFlight \subseteq Post
  /\ aborted \subseteq Post
  /\ late \subseteq Post

\* handleInitialize has put the session in the map and awaits onInitialize.
Init ==
  /\ listed = TRUE
  /\ ready = FALSE
  /\ closed = FALSE
  /\ opened = 0
  /\ live = {}
  /\ streams = {}
  /\ requestStreams = {}
  /\ from = [s \in Stream |-> None]
  /\ since = [s \in Stream |-> 0]
  /\ nextEventId = 1
  /\ delivered = {}
  /\ written = [s \in Stream |-> {}]
  /\ pending = {}
  /\ waiting = {}
  /\ pc = [p \in Post |-> "new"]
  /\ answerOn = [p \in Post |-> None]
  /\ asks = [p \in Post |-> None]
  /\ inFlight = {}
  /\ aborted = {}
  /\ late = {}

(***************************************************************************)
(* The session's own operations                                            *)
(***************************************************************************)

\* Mutant of Newest: the stream that has been open the longest.
Oldest(S) == CHOOSE s \in S : \A u \in S : s <= u

Newest(S) == CHOOSE s \in S : \A u \in S : u <= s

LiveStreams == streams \cap live
LiveRequestStreams == requestStreams \cap live
HasStream == LiveStreams \cup LiveRequestStreams # {}

\* Mutant of DeliverTo: the entry is marked before it is known where to.
DeliverAnywhere(S) ==
  /\ nextEventId' = nextEventId + 1
  /\ delivered' = delivered \cup {nextEventId}
  /\ IF S = {} THEN UNCHANGED written
     ELSE written' = [written EXCEPT ![Newest(S)] = @ \cup {nextEventId}]

\* Mutant of DeliverTo: the id is used again.
DeliverUncounted(S) ==
  /\ UNCHANGED nextEventId
  /\ IF S = {}
     THEN UNCHANGED <<delivered, written>>
     ELSE /\ delivered' = delivered \cup {nextEventId}
          /\ written' = [written EXCEPT ![Newest(S)] = @ \cup {nextEventId}]

\* The message enters history and goes to exactly one of the streams S, the
\* newest, or to none when there is none.
DeliverTo(S) ==
  /\ nextEventId' = nextEventId + 1
  /\ IF S = {}
     THEN UNCHANGED <<delivered, written>>
     ELSE /\ delivered' = delivered \cup {nextEventId}
          /\ written' = [written EXCEPT ![Newest(S)] = @ \cup {nextEventId}]

\* Mutant of SendRequest: nobody looks for a stream first.
SendBlindly ==
  /\ pending' = pending \cup {nextEventId}
  /\ waiting' = waiting \cup {nextEventId}
  /\ DeliverTo(IF LiveRequestStreams # {} THEN LiveRequestStreams ELSE LiveStreams)

\* sendRequest, when a stream is open: a timer, a promise, and the message on
\* the stream of a POST rather than on a standalone one.
SendRequest ==
  /\ HasStream
  /\ pending' = pending \cup {nextEventId}
  /\ waiting' = waiting \cup {nextEventId}
  /\ DeliverTo(IF LiveRequestStreams # {} THEN LiveRequestStreams ELSE LiveStreams)

\* Mutant of Due: the first message the client missed is taken for seen.
DueBeyond(n) ==
  IF n = None THEN Retained \ delivered ELSE {e \in Retained : e > n + 1}

\* What attachStream replays.
Due(n) ==
  IF n = None THEN Retained \ delivered ELSE {e \in Retained : e > n}

\* Mutant of Replay: what was replayed is not marked.
ReplayUnmarked(s, E) ==
  /\ written' = [written EXCEPT ![s] = @ \cup E]
  /\ UNCHANGED delivered

Replay(s, E) ==
  /\ written' = [written EXCEPT ![s] = @ \cup E]
  /\ delivered' = delivered \cup E

\* Mutant of AbortAll: the map is cleared first.
AbortNone ==
  /\ inFlight' = {}
  /\ UNCHANGED aborted

AbortAll ==
  /\ aborted' = aborted \cup inFlight
  /\ inFlight' = {}

\* Mutant of RejectAll: the timers go, the promises stay.
RejectNone ==
  /\ pending' = {}
  /\ UNCHANGED waiting

RejectAll ==
  /\ waiting' = waiting \ pending
  /\ pending' = {}

\* close(), for all it does to a session, closed before or not.
Close ==
  /\ closed' = TRUE
  /\ AbortAll
  /\ RejectAll
  /\ live' = live \ (streams \cup requestStreams)
  /\ streams' = {}
  /\ requestStreams' = {}
  /\ UNCHANGED <<ready, opened, from, since, messageVars, pc, answerOn, asks, late>>

(***************************************************************************)
(* initialize                                                              *)
(***************************************************************************)

Initialized ==
  /\ ~ready /\ listed
  /\ ready' = TRUE
  /\ UNCHANGED <<listed, closed>>
  /\ UNCHANGED <<streamVars, messageVars, askVars, postVars>>

\* onInitialize failed: the session leaves the map; nobody closes it.
InitializeFails ==
  /\ ~ready /\ listed
  /\ listed' = FALSE
  /\ UNCHANGED <<ready, closed>>
  /\ UNCHANGED <<streamVars, messageVars, askVars, postVars>>

(***************************************************************************)
(* What the client sends                                                   *)
(***************************************************************************)

\* resolveSession.
Resolve == ready /\ listed /\ ~closed /\ UNCHANGED lifeVars

\* openEventStream: the response s of a GET or POST becomes a stream.
Open(s) ==
  /\ s = opened + 1
  /\ opened' = s
  /\ live' = live \cup {s}
  /\ since' = [since EXCEPT ![s] = nextEventId]

\* A client resumes from an id it has read on some stream, or from 0.
LastEventIds == {None, 0} \cup UNION {written[s] : s \in Stream}

\* handleGet: the stream is attached and what is due written to it.
OpenStream(s, n) ==
  /\ Resolve
  /\ Open(s)
  /\ streams' = streams \cup {s}
  /\ from' = [from EXCEPT ![s] = n]
  /\ Replay(s, Due(n))
  /\ UNCHANGED <<requestStreams, nextEventId, askVars, postVars>>

\* The server sees the response of s close: isClosed from now on; a GET's
\* stream is detached, a POST's aborts what it was to answer.
HangUp(s) ==
  /\ s \in live
  /\ live' = live \ {s}
  /\ streams' = streams \ {s}
  /\ aborted' = aborted \cup {p \in Post : answerOn[p] = s}
  /\ UNCHANGED <<lifeVars, opened, requestStreams, from, since, messageVars, askVars>>
  /\ UNCHANGED <<pc, answerOn, asks, inFlight, late>>

\* handlePost up to the await of the notification handlers.
PostResolved(p) ==
  /\ pc[p] = "new"
  /\ Resolve
  /\ pc' = [pc EXCEPT ![p] = "resolved"]
  /\ UNCHANGED <<streamVars, messageVars, askVars, answerOn, asks, inFlight, aborted, late>>

\* beginRequest; whether the session is closed by now is not asked.
Begin(p) ==
  /\ pc[p] = "resolved"
  /\ pc' = [pc EXCEPT ![p] = "running"]
  /\ inFlight' = inFlight \cup {p}
  /\ late' = IF closed THEN late \cup {p} ELSE late
  /\ UNCHANGED <<lifeVars, from, streams, messageVars, askVars, asks, aborted>>

ExecutePlain(p) ==
  /\ Begin(p)
  /\ UNCHANGED <<opened, live, since, requestStreams, answerOn>>

\* respondViaStream
ExecuteOnStream(p, s) ==
  /\ Begin(p)
  /\ Open(s)
  /\ requestStreams' = requestStreams \cup {s}
  /\ answerOn' = [answerOn EXCEPT ![p] = s]

\* onRequest has ended, well or not: endRequest, endRequestStream, end().
Answered(p) ==
  /\ pc[p] = "running"
  /\ pc' = [pc EXCEPT ![p] = "done"]
  /\ inFlight' = inFlight \ {p}
  /\ requestStreams' = requestStreams \ {answerOn[p]}
  /\ live' = live \ {answerOn[p]}
  /\ UNCHANGED <<lifeVars, opened, streams, from, since, messageVars, askVars>>
  /\ UNCHANGED <<answerOn, asks, aborted, late>>

\* notifications/cancelled for a request in flight.
Cancelled(p) ==
  /\ Resolve
  /\ p \in inFlight
  /\ inFlight' = inFlight \ {p}
  /\ aborted' = aborted \cup {p}
  /\ UNCHANGED <<streamVars, messageVars, askVars, pc, answerOn, asks, late>>

\* resolveResponse: the client answers what it read on some stream.
ClientAnswers(e) ==
  /\ Resolve
  /\ e \in pending
  /\ \E s \in Stream : e \in written[s]
  /\ pending' = pending \ {e}
  /\ waiting' = waiting \ {e}
  /\ UNCHANGED <<streamVars, messageVars, postVars>>

(***************************************************************************)
(* What the gateway sends                                                  *)
(***************************************************************************)

\* sendNotification, by the handler for a session of the map, closed or not,
\* or by a request that still runs.
Notify ==
  /\ nextEventId <= MaxEvents
  /\ listed \/ \E p \in Post : pc[p] = "running" /\ answerOn[p] = None
  /\ DeliverTo(LiveStreams)
  /\ UNCHANGED <<lifeVars, streamVars, askVars, postVars>>

\* routeUpstreamRequest: an upstream asks the client something.
RouteUpstreamRequest ==
  /\ nextEventId <= MaxEvents
  /\ listed
  /\ SendRequest
  /\ UNCHANGED <<lifeVars, streamVars, postVars>>

\* GatewayMcpHandler.confirm, in a tool call.
Confirm(p) ==
  /\ nextEventId <= MaxEvents
  /\ pc[p] = "running"
  /\ asks[p] = None
  /\ SendRequest
  /\ asks' = [asks EXCEPT ![p] = nextEventId]
  /\ pc' = [pc EXCEPT ![p] = "confirming"]
  /\ UNCHANGED <<lifeVars, streamVars, answerOn, inFlight, aborted, late>>

\* The promise of sendRequest has settled.
Confirmed(p) ==
  /\ pc[p] = "confirming"
  /\ asks[p] \notin waiting
  /\ pc' = [pc EXCEPT ![p] = "running"]
  /\ UNCHANGED <<lifeVars, streamVars, messageVars, askVars>>
  /\ UNCHANGED <<answerOn, asks, inFlight, aborted, late>>

\* The timer of a server request.
TimeOut(e) ==
  /\ e \in pending
  /\ pending' = pending \ {e}
  /\ waiting' = waiting \ {e}
  /\ UNCHANGED <<lifeVars, streamVars, messageVars, postVars>>

(***************************************************************************)
(* How a session ends                                                      *)
(***************************************************************************)

\* handleDelete; onSessionClosed follows.
Delete ==
  /\ ready /\ listed /\ ~closed
  /\ Close
  /\ listed' = FALSE

\* sweep() comes to this session in its copy of the map, which may be older
\* than the session's end: it is closed and deleted, again if need be.
SweepCloses ==
  /\ Close
  /\ listed' = FALSE

\* closeAll() comes to this session, which stays in the map while the loop
\* awaits onSessionClosed.
CloseAll ==
  /\ listed /\ ~closed
  /\ Close
  /\ UNCHANGED listed

\* The loop has ended: clear().
Clear ==
  /\ listed /\ closed
  /\ listed' = FALSE
  /\ UNCHANGED <<ready, closed, streamVars, messageVars, askVars, postVars>>

Execute(p) == ExecutePlain(p) \/ \E s \in Stream : ExecuteOnStream(p, s)

Next ==
  \/ Initialized \/ InitializeFails
  \/ \E s \in Stream :
       \/ \E n \in LastEventIds : OpenStream(s, n)
       \/ HangUp(s)
  \/ \E p \in Post :
       \/ PostResolved(p) \/ Execute(p) \/ Answered(p) \/ Cancelled(p)
       \/ Confirm(p) \/ Confirmed(p)
  \/ \E e \in Event : ClientAnswers(e) \/ TimeOut(e)
  \/ Notify \/ RouteUpstreamRequest
  \/ Delete \/ SweepCloses \/ CloseAll \/ Clear

\* Timers fire, and what awaited a promise goes on when it has settled.  Of the
\* upstream nothing is assumed: a handler may never end.
Fairness ==
  /\ \A p \in Post : WF_vars(Confirmed(p))
  /\ \A e \in 1 .. MaxEvents : WF_vars(TimeOut(e))

Spec == Init /\ [][Next]_vars /\ Fairness

-----------------------------------------------------------------------------
(***************************************************************************)
(* Properties                                                              *)
(***************************************************************************)

\* A message marked delivered was written to a stream (session.ts:53-54): what
\* was sent while nothing was open still waits for the next stream.
NothingLost == \A e \in delivered : \E s \in Stream : e \in written[s]

\* "writes it to exactly one stream" (session.ts:173-179): a message is on a
\* second, newer stream only because the client resumed that one from before
\* the message.
OneStream ==
  \A s, u \in Stream : \A e \in written[s] \cap written[u] :
    s < u => from[u] # None /\ from[u] < e

\* A client that reconnected reads the new stream (session.ts:160-164): what is
\* sent after a standalone stream was opened is on it, on a newer one, or on
\* the stream of a POST, never only on an older one.
NewestReads ==
  \A s \in LiveStreams : \A e \in Event : e >= since[s] =>
    \E u \in Stream : /\ u >= s \/ \E p \in Post : answerOn[p] = u
                      /\ e \in written[u]

\* With a standalone stream open, a message of the history waits undelivered
\* only when every such stream was resumed from the message or beyond it.
WithheldOnlyByResume ==
  \A s \in streams : \A e \in Retained \ delivered : from[s] # None /\ e <= from[s]

\* A request to the client whose caller still waits has its timer, and is on a
\* stream where the client can have read it (session.ts:199-232): nobody waits
\* for ever, or for an answer to what was never asked.
AskedAndTimed ==
  \A e \in waiting : e \in pending /\ \E s \in Stream : e \in written[s]

\* A request that runs and was not aborted can be cancelled by its id, and when
\* the session is closed it is one that began afterwards: no closing and
\* no client that hangs up leaves a call behind that nobody can stop.
StillCancellable ==
  \A p \in Post : pc[p] \in {"running", "confirming"} /\ p \notin aborted =>
    p \in inFlight /\ (closed => p \in late)

\* A call that awaits the client goes on (session.ts:219-232), whoever settles
\* what it asked, the client, the timer or one of the ways to close a session,
\* and whatever closes, hangs up or cancels meanwhile.
AskerGoesOn == \A p \in Post : pc[p] = "confirming" ~> pc[p] = "running"

=============================================================================
