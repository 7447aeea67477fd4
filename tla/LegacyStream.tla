---------------------------- MODULE LegacyStream ----------------------------
(***************************************************************************)
(* One UpstreamMcpConnection over the 2024-11-05 HTTP+SSE transport:       *)
(* requests are posted to an endpoint that the server announces on an      *)
(* event stream, and the answers come back on that stream.                 *)
(*                                                                         *)
(* send() makes the promise of the answer, with its timer and its entry in *)
(* pending, before it awaits the POST; only when the POST has returned     *)
(* does anybody await that promise.  A promise rejected before that is an  *)
(* unhandled rejection, which ends a Node process that installs no handler *)
(* for it, as the gateway installs none.                                   *)
(*                                                                         *)
(* Left out: message bodies, server requests and notifications.            *)
(***************************************************************************)
EXTENDS Naturals, FiniteSets

CONSTANTS Calls,       \* requests made on the connection, each once
          MaxStreams   \* bound: event streams opened, one at least

VARIABLES
  transport,   \* this.transport: the number of the stream opened for it, 0 for null
  opened,      \* event streams opened so far
  connecting,  \* openTransport under way, shared by its callers
  sse,         \* [1..MaxStreams -> state of the event stream]
  call,        \* [Calls -> state of the request]
  via,         \* [Calls -> the transport ensureTransport gave it, 0 for none]
  pending,     \* the calls with an entry in their transport's pending, and its timer
  posted,      \* [Calls -> state of the POST]
  resolved,    \* calls whose answer was dispatched to the entry
  unobserved,  \* a promise was rejected that nobody awaited
  released     \* close() was called

vars == <<transport, opened, connecting, sse, call, via, pending, posted, resolved,
          unobserved, released>>

Streams == 1..MaxStreams
Ended == {"done", "failed"}

TypeOK ==
  /\ transport \in 0..MaxStreams /\ opened \in 0..MaxStreams
  /\ connecting \in BOOLEAN
  /\ sse \in [Streams -> {"none", "asked", "headers", "open", "ended", "leaked"}]
  /\ call \in [Calls -> {"idle", "connect", "post", "await"} \cup Ended]
  /\ via \in [Calls -> 0..MaxStreams]
  /\ pending \subseteq Calls /\ resolved \subseteq Calls
  /\ posted \in [Calls -> {"no", "wire", "got", "answered", "refused"}]
  /\ unobserved \in BOOLEAN /\ released \in BOOLEAN

Init ==
  /\ transport = 0 /\ opened = 0 /\ connecting = FALSE
  /\ sse = [s \in Streams |-> "none"]
  /\ call = [c \in Calls |-> "idle"]
  /\ via = [c \in Calls |-> 0]
  /\ pending = {} /\ resolved = {}
  /\ posted = [c \in Calls |-> "no"]
  /\ unobserved = FALSE /\ released = FALSE

(***************************************************************************)
(* Opening the stream.                                                     *)
(***************************************************************************)

\* openTransport is under way, and its callers share it.
Connecting == connecting

\* ensureTransport: the transport in use, the one that is connecting, or a
\* new one, whose stream is asked for.
Start(c) ==
  /\ call[c] = "idle"
  /\ call' = [call EXCEPT ![c] = "connect"]
  /\ via' = [via EXCEPT ![c] = transport]
  /\ IF transport # 0 \/ Connecting
     THEN UNCHANGED <<opened, connecting, sse>>
     ELSE /\ opened < MaxStreams
          /\ opened' = opened + 1
          /\ connecting' = TRUE
          /\ sse' = [sse EXCEPT ![opened + 1] = "asked"]
  /\ UNCHANGED <<transport, pending, posted, resolved, unobserved, released>>

\* Those who await connect().
Connectors == {c \in Calls : call[c] = "connect" /\ via[c] = 0}
ConnectorsFail == [c \in Calls |-> IF c \in Connectors THEN "failed" ELSE call[c]]

\* The server answers the GET with a stream.
StreamHeaders ==
  /\ connecting /\ sse[opened] = "asked"
  /\ sse' = [sse EXCEPT ![opened] = "headers"]
  /\ UNCHANGED <<transport, opened, connecting, call, via, pending, posted, resolved,
                 unobserved, released>>

\* The endpoint event: connect() resolves and the transport is in use.
Announced ==
  /\ connecting /\ sse[opened] = "headers"
  /\ sse' = [sse EXCEPT ![opened] = "open"]
  /\ transport' = opened /\ connecting' = FALSE
  /\ via' = [c \in Calls |-> IF c \in Connectors THEN opened ELSE via[c]]
  /\ UNCHANGED <<opened, call, pending, posted, resolved, unobserved, released>>

\* Refused, broken, or ended before the endpoint event.
ConnectFails ==
  /\ connecting /\ sse[opened] \in {"asked", "headers"}
  /\ sse' = [sse EXCEPT ![opened] = "ended"]
  /\ connecting' = FALSE
  /\ call' = ConnectorsFail
  /\ UNCHANGED <<transport, opened, via, pending, posted, resolved, unobserved, released>>

\* "Server never announced a message endpoint": connect() rejects, and the
\* stream goes on being read by nobody's transport.
NeverAnnounced ==
  /\ connecting /\ sse[opened] = "headers"
  /\ sse' = [sse EXCEPT ![opened] = "leaked"]
  /\ connecting' = FALSE
  /\ call' = ConnectorsFail
  /\ UNCHANGED <<transport, opened, via, pending, posted, resolved, unobserved, released>>

(***************************************************************************)
(* Requests.                                                               *)
(***************************************************************************)

\* send() after connect(): the entry and its timer, then the POST, on a
\* transport closed meanwhile as well.
Register(c) ==
  /\ call[c] = "connect" /\ via[c] # 0
  /\ call' = [call EXCEPT ![c] = "post"]
  /\ pending' = pending \cup {c}
  /\ posted' = [posted EXCEPT ![c] = "wire"]
  /\ UNCHANGED <<transport, opened, connecting, sse, via, resolved, unobserved, released>>

\* The server takes the message, or refuses it: it does not hold the session
\* of a stream that ended.
PostArrives(c) ==
  /\ posted[c] = "wire"
  /\ posted' = [posted EXCEPT ![c] = IF sse[via[c]] = "open" THEN "got" ELSE "refused"]
  /\ UNCHANGED <<transport, opened, connecting, sse, call, via, pending, resolved,
                 unobserved, released>>

\* dispatch: the answer, carried by the stream, settles the entry.  It may
\* come before the POST has returned.
Answer(c) ==
  /\ posted[c] = "got" /\ sse[via[c]] = "open"
  /\ posted' = [posted EXCEPT ![c] = "answered"]
  /\ IF c \in pending
     THEN /\ pending' = pending \ {c} /\ resolved' = resolved \cup {c}
          /\ call' = [call EXCEPT ![c] = IF @ = "await" THEN "done" ELSE @]
     ELSE UNCHANGED <<pending, resolved, call>>
  /\ UNCHANGED <<transport, opened, connecting, sse, via, unobserved, released>>

\* The POST has returned: the caller awaits its answer, which may be there.
PostReturns(c) ==
  /\ call[c] = "post" /\ posted[c] \in {"got", "answered"}
  /\ call' = [call EXCEPT ![c] = IF c \in resolved THEN "done"
                                 ELSE IF c \in pending THEN "await" ELSE "failed"]
  /\ UNCHANGED <<transport, opened, connecting, sse, via, pending, posted, resolved,
                 unobserved, released>>

\* postMessage throws: refused, or lost on its way there or back.  The entry
\* and its timer stay.
PostThrows(c) ==
  /\ call[c] = "post"
  /\ call' = [call EXCEPT ![c] = "failed"]
  /\ posted' = [posted EXCEPT ![c] = IF @ = "wire" THEN "refused" ELSE @]
  /\ UNCHANGED <<transport, opened, connecting, sse, via, pending, resolved, unobserved,
                 released>>

\* Rejecting the promises of a set of entries ends the calls that await them.
Rejected(gone) == [c \in Calls |-> IF c \in gone /\ call[c] = "await" THEN "failed" ELSE call[c]]

\* The promise of an entry nobody awaits: the POST is under way or threw.
Unawaited(gone) == \E c \in gone : call[c] # "await"

Times(c) ==
  /\ c \in pending
  /\ pending' = pending \ {c}
  /\ call' = Rejected({c})
  /\ unobserved' = (unobserved \/ Unawaited({c}))
  /\ UNCHANGED <<transport, opened, connecting, sse, via, posted, resolved, released>>

(***************************************************************************)
(* The stream ends, and close().                                           *)
(***************************************************************************)

EntriesOf(s) == {c \in pending : via[c] = s}

\* The body of the stream ends: failPending.  The transport stays in use.
StreamEnds(s) ==
  /\ sse[s] = "open"
  /\ sse' = [sse EXCEPT ![s] = "ended"]
  /\ pending' = pending \ EntriesOf(s)
  /\ call' = Rejected(EntriesOf(s))
  /\ unobserved' = (unobserved \/ Unawaited(EntriesOf(s)))
  /\ UNCHANGED <<transport, opened, connecting, via, posted, resolved, released>>

\* close() once the transport is in use; while it connects, it waits for it.
Close ==
  /\ ~released /\ ~connecting
  /\ released' = TRUE
  /\ transport' = 0
  /\ IF transport = 0 THEN UNCHANGED <<sse, pending, call, unobserved>>
     ELSE /\ sse' = [sse EXCEPT ![transport] = "ended"]
          /\ pending' = pending \ EntriesOf(transport)
          /\ call' = Rejected(EntriesOf(transport))
          /\ unobserved' = (unobserved \/ Unawaited(EntriesOf(transport)))
  /\ UNCHANGED <<opened, connecting, via, posted, resolved>>

Next ==
  \/ \E c \in Calls : Start(c) \/ Register(c) \/ PostArrives(c) \/ Answer(c)
                        \/ PostReturns(c) \/ PostThrows(c) \/ Times(c)
  \/ StreamHeaders \/ Announced \/ ConnectFails \/ NeverAnnounced
  \/ \E s \in Streams : StreamEnds(s)
  \/ Close

\* The timer of the endpoint fires, which is set once the GET has been answered,
\* a POST returns or fails, the timer of an entry fires.  The GET itself has no
\* timeout (timeoutMs: 0): the server need never answer it.
Fairness ==
  /\ WF_vars(connecting /\ sse[opened] = "headers" /\ (Announced \/ NeverAnnounced \/ ConnectFails))
  /\ \A c \in Calls : WF_vars(Register(c)) /\ WF_vars(PostReturns(c) \/ PostThrows(c))
                      /\ WF_vars(Times(c))

Spec == Init /\ [][Next]_vars /\ Fairness

(***************************************************************************)
(* Properties.                                                             *)
(***************************************************************************)

\* The GET for the stream has not been answered.
GetUnanswered == connecting /\ sse[opened] = "asked"

\* Every request ends, none waits for an answer on a stream that ended, on a
\* transport that was closed, or of a server that never answers, but those that
\* connect to a server which leaves the GET unanswered from some time on.
LegacyCallsEnd ==
  \A c \in Calls : call[c] # "idle" ~>
    call[c] \in Ended \/ [](call[c] = "connect" /\ GetUnanswered)

\* Callers that race for a transport share it: no second stream is asked for
\* or open beside the one in use.
OneStreamInUse == Cardinality({s \in Streams : sse[s] \in {"asked", "headers", "open"}}) <= 1

\* No upstream takes the gateway down: no promise is rejected that nobody awaits.
GatewayStaysUp == ~unobserved
=============================================================================
