--------------------------- MODULE UpstreamClient ---------------------------
(***************************************************************************)
(* One UpstreamMcpConnection over the Streamable HTTP transport: requests  *)
(* in flight while the server forgets the session, the replacement of that *)
(* session which all callers share (recreateSession), the server's event   *)
(* stream and its retries, and close().                                    *)
(*                                                                         *)
(* A transport is numbered in the order of creation.  A transport is       *)
(* initialized at most once, so the session the server issues on it bears  *)
(* its number.  The server is the one of the conformance harness: it       *)
(* refuses an unknown session with 404, or with 400 after a restart, and   *)
(* answers a tool call on an event stream whose headers it sends at once.  *)
(*                                                                         *)
(* Left out: message bodies, event ids, paging, capabilities other than    *)
(* whether they are known.  Timeouts, network failures and cancellation by *)
(* the downstream client are one choice (Lose).                            *)
(***************************************************************************)
EXTENDS Naturals, FiniteSets

CONSTANTS Calls,          \* messages sent on the connection, each once
          MaxTransports,  \* bound: transports opened
          MaxLosses       \* bound: times the server forgets its sessions

ASSUME BoundsAssumption == MaxTransports \in Nat \ {0} /\ MaxLosses \in Nat

VARIABLES
  transport,  \* this.transport: its number, 0 for null
  made,       \* transports opened so far
  holds,      \* transports whose session is not null
  closed,     \* transports closed
  stream,     \* [Transports -> state of the server stream]
  ready,      \* initializeResult is not null
  renewal,    \* initialize() under way, by the owner or by recreateSession
  call,       \* [Calls -> the message, its kind and where it is]
  live,       \* sessions the server holds
  restarted,  \* the server words its refusals as a 400
  losses,     \* times the server forgot its sessions
  ran,        \* [Calls -> times the server executed it]
  released,   \* close() was called by the session manager
  late        \* history: a refusal was read so late that another session was in use

vars == <<transport, made, holds, closed, stream, ready, renewal, call, live,
          restarted, losses, ran, released, late>>

Transports == 1..MaxTransports
OnTheWire == {"wire", "ok", "head", "nonce", "404", "400"}   \* in inFlight
Ended == {"done", "failed"}
\* A request that may be replayed, a tool call, a notification.
Kinds == {"idempotent", "tool", "note"}

At(at, k) == [at |-> at, kind |-> k, t |-> 0, sid |-> 0, again |-> FALSE, nonced |-> FALSE]
Over(c, at) == At(at, call[c].kind)
NoRenewal == [at |-> "none", t |-> 0, first |-> FALSE]

TypeOK ==
  /\ transport \in 0..MaxTransports /\ made \in 0..MaxTransports
  /\ holds \subseteq 1..made /\ closed \subseteq 1..made /\ live \subseteq 1..made
  /\ stream \in [Transports -> {"none", "open", "retry"}]
  /\ ready \in BOOLEAN /\ restarted \in BOOLEAN /\ released \in BOOLEAN /\ late \in BOOLEAN
  /\ renewal \in [at: {"none", "closing", "initialize", "answered", "notify", "stream"},
                  t: 0..MaxTransports, first: BOOLEAN]
  /\ call \in [Calls -> [at: {"idle", "headers", "body", "waiting", "streaming"} \cup OnTheWire \cup Ended,
                         t: 0..MaxTransports, sid: 0..MaxTransports,
                         kind: Kinds, again: BOOLEAN, nonced: BOOLEAN]]
  /\ losses \in 0..MaxLosses
  /\ ran \in [Calls -> Nat]

\* The session manager has made the connection and awaits initialize().
Init ==
  /\ transport = 1 /\ made = 1
  /\ holds = {} /\ closed = {} /\ live = {}
  /\ stream = [t \in Transports |-> "none"]
  /\ ready = FALSE
  /\ renewal = [at |-> "initialize", t |-> 1, first |-> TRUE]
  /\ call \in [Calls -> {At("idle", k) : k \in Kinds}]
  /\ restarted = FALSE /\ losses = 0
  /\ ran = [c \in Calls |-> 0]
  /\ released = FALSE /\ late = FALSE

(***************************************************************************)
(* The server.                                                             *)
(***************************************************************************)

\* expireSessions() and restart() of the harness's server.  Its event streams
\* may survive the sessions or be cut with them.
Forget ==
  /\ losses < MaxLosses /\ live # {}
  /\ losses' = losses + 1
  /\ live' = {}
  /\ restarted' \in {restarted, TRUE}
  /\ \/ UNCHANGED stream
     \/ stream' = [t \in Transports |-> IF stream[t] = "open" THEN "retry" ELSE stream[t]]
  /\ UNCHANGED <<transport, made, holds, closed, ready, renewal, call, ran, released, late>>

\* Mutant of Refusal: a server with a word of its own for it.
RefusalGone == "410"

Refusal == IF restarted THEN "400" ELSE "404"

Executed(c) == [ran EXCEPT ![c] = @ + 1]

\* A request reaches the server; the answer is on its way back, the headers
\* of its stream for a tool call.
Serve(c) ==
  /\ call[c].at = "wire"
  /\ \/ /\ call[c].sid \in live
        /\ ran' = Executed(c)
        /\ call' = [call EXCEPT ![c].at = IF call[c].kind # "tool" THEN "ok" ELSE "head"]
     \/ /\ call[c].sid \notin live
        /\ call' = [call EXCEPT ![c].at = Refusal]
        /\ UNCHANGED ran
  /\ UNCHANGED <<transport, made, holds, closed, stream, ready, renewal, live,
                 restarted, losses, released, late>>

\* 401 with the DPoP nonce the server wants echoed, whatever the session.
HandOutNonce(c) ==
  /\ call[c].at = "wire"
  /\ call' = [call EXCEPT ![c].at = "nonce"]
  /\ UNCHANGED <<transport, made, holds, closed, stream, ready, renewal, live, restarted,
                 losses, ran, released, late>>

\* The server executes the request and loses the session before it answers.
ServeThenForget(c) ==
  /\ call[c].at = "wire" /\ call[c].sid \in live
  /\ losses < MaxLosses
  /\ losses' = losses + 1
  /\ ran' = Executed(c)
  /\ call' = [call EXCEPT ![c].at = Refusal]
  /\ live' = live \ {call[c].sid}
  /\ UNCHANGED <<transport, made, holds, closed, stream, ready, renewal, restarted,
                 released, late>>

\* A DELETE arrives or does not.
Deleted(sessions) == {live, live \ sessions}

\* What a GET on a live session gets, and one on a session the server forgot.
Granted(t) == IF t \in live THEN "open" ELSE "none"

(***************************************************************************)
(* Requests.                                                               *)
(***************************************************************************)

\* ensureTransport: the transport in use, or one opened for the purpose.
Start(c) ==
  /\ call[c].at = "idle" /\ ~renewal.first
  /\ transport = 0 => made < MaxTransports
  /\ LET t == IF transport = 0 THEN made + 1 ELSE transport IN
       /\ transport' = t
       /\ made' = IF transport = 0 THEN t ELSE made
       /\ call' = [call EXCEPT ![c].at = "headers", ![c].t = t]
  /\ UNCHANGED <<holds, closed, stream, ready, renewal, live, restarted, losses,
                 ran, released, late>>

\* post() after buildHeaders: the session id is read here, and a transport
\* closed meanwhile aborts the request.
Send(c) ==
  /\ call[c].at = "headers"
  /\ call' = [call EXCEPT ![c] =
       IF call[c].t \in closed THEN Over(c, "failed")
       ELSE [@ EXCEPT !.at = "wire", !.sid = IF call[c].t \in holds THEN call[c].t ELSE 0]]
  /\ UNCHANGED <<transport, made, holds, closed, stream, ready, renewal, live,
                 restarted, losses, ran, released, late>>

\* The request times out, the network fails or the downstream client cancels.
Lose(c) ==
  /\ call[c].at \in OnTheWire
  /\ call' = [call EXCEPT ![c] = Over(c, "failed")]
  /\ UNCHANGED <<transport, made, holds, closed, stream, ready, renewal, live,
                 restarted, losses, ran, released, late>>

\* An answer that needs no new session, or a 400 whose text cannot be read or
\* does not say that the session is unknown.
Receive(c) ==
  /\ \E got \in {
       [of |-> "ok",    then |-> Over(c, "done")],
       [of |-> "head",  then |-> [call[c] EXCEPT !.at = "streaming"]],
       [of |-> "nonce", then |-> IF call[c].nonced THEN Over(c, "failed")
                                 ELSE [call[c] EXCEPT !.at = "headers", !.nonced = TRUE]],
       [of |-> "400",   then |-> IF call[c].t \in holds THEN [call[c] EXCEPT !.at = "body"]
                                 ELSE Over(c, "failed")],
       [of |-> "body",  then |-> Over(c, "failed")]} \cup
       (IF call[c].t \in holds THEN {} ELSE {[of |-> "404", then |-> Over(c, "failed")]}) :
         /\ call[c].at = got.of
         /\ call' = [call EXCEPT ![c] = got.then]
  /\ UNCHANGED <<transport, made, holds, closed, stream, ready, renewal, live,
                 restarted, losses, ran, released, late>>

\* readResponseFromStream: the stream carries the answer, or ends without it.
StreamEnds(c) ==
  /\ call[c].at = "streaming"
  /\ \E at \in Ended : call' = [call EXCEPT ![c] = Over(c, at)]
  /\ UNCHANGED <<transport, made, holds, closed, stream, ready, renewal, live,
                 restarted, losses, ran, released, late>>

\* Closing a transport aborts what is in its inFlight: requests whose
\* headers have not come back.
Aborted(f, t) ==
  [c \in Calls |-> IF f[c].t = t /\ f[c].at \in OnTheWire
                   THEN Over(c, "failed") ELSE f[c]]

\* Mutant of StreamsWithout: the stream of a closed transport is left open.
StreamsWithoutNone(t) == stream

\* serverStream.abort(): a closed transport has no stream and retries none.
StreamsWithout(t) == [u \in Transports |-> IF u = t THEN "none" ELSE stream[u]]

\* Mutant of Shared: each caller makes a renewal of its own.
SharedNever == FALSE

\* recreating is set: somebody's renewal is under way.
Shared == renewal.at # "none"

\* The server has disowned the session: the caller joins the renewal under
\* way or begins one, which closes the transport in use, whichever it is.
\* A caller that was already replayed gives up, and so does a notification.
Expired(c) ==
  /\ \/ call[c].at = "404" /\ call[c].t \in holds
     \/ call[c].at = "body"
  /\ holds' = holds \ {call[c].t}
  /\ IF call[c].again \/ call[c].kind = "note" THEN
          /\ call' = [call EXCEPT ![c] = Over(c, "failed")]
          /\ UNCHANGED <<transport, made, closed, stream, ready, renewal, late>>
     ELSE LET waiting == [call EXCEPT ![c].at = "waiting"] IN
          IF Shared THEN
               /\ call' = waiting
               /\ UNCHANGED <<transport, made, closed, stream, ready, renewal, late>>
          ELSE /\ late' = (late \/ released \/ (renewal.at = "none" /\ transport # call[c].sid))
               /\ call' = IF transport = 0 THEN waiting ELSE Aborted(waiting, transport)
               /\ closed' = closed \cup ({transport} \ {0})
               /\ stream' = StreamsWithout(transport)
               /\ IF transport \in holds'
                  THEN /\ renewal' = [at |-> "closing", t |-> transport, first |-> FALSE]
                       /\ UNCHANGED <<transport, made, ready>>
                  ELSE /\ made < MaxTransports
                       /\ made' = made + 1 /\ transport' = made + 1 /\ ready' = FALSE
                       /\ renewal' = [at |-> "initialize", t |-> made + 1, first |-> FALSE]
  /\ UNCHANGED <<live, restarted, losses, ran, released>>

(***************************************************************************)
(* recreateSession and initialize.                                         *)
(***************************************************************************)

\* A renewal that failed fails whoever awaits it.  The owner of a failed first
\* initialize closes the connection; its transport holds no session.
\* Mutant of WaitersFail: nobody hears of the failure.
WaitersForgotten == call

WaitersFail == [c \in Calls |-> IF call[c].at = "waiting" THEN Over(c, "failed") ELSE call[c]]

\* The DELETE of a session that was live after all has been answered, or not.
RenewalClosed ==
  /\ renewal.at = "closing" /\ made < MaxTransports
  /\ live' \in Deleted({renewal.t})
  /\ holds' = holds \ {renewal.t}
  /\ made' = made + 1 /\ transport' = made + 1 /\ ready' = FALSE
  /\ renewal' = [renewal EXCEPT !.at = "initialize", !.t = made + 1]
  /\ UNCHANGED <<closed, stream, call, restarted, losses, ran, released, late>>

\* The server answers initialize with a session of its own.
ServeInitialize ==
  /\ renewal.at = "initialize"
  /\ live' = live \cup {renewal.t}
  /\ restarted' = FALSE
  /\ renewal' = [renewal EXCEPT !.at = "answered"]
  /\ UNCHANGED <<transport, made, holds, closed, stream, ready, call, losses, ran, released, late>>

Initialized ==
  /\ renewal.at = "answered"
  /\ holds' = holds \cup {renewal.t}
  /\ ready' = TRUE
  /\ renewal' = [renewal EXCEPT !.at = "notify"]
  /\ UNCHANGED <<transport, made, closed, stream, call, live, restarted, losses, ran, released, late>>

\* notifications/initialized is accepted.
Notified ==
  /\ renewal.at = "notify" /\ renewal.t \in live
  /\ renewal' = [renewal EXCEPT !.at = "stream"]
  /\ UNCHANGED <<transport, made, holds, closed, stream, ready, call, live, restarted,
                 losses, ran, released, late>>

\* The notification was refused because the server lost the session again, or
\* it was lost; elsewhere a failure leaves the session where it is.
HeldAfterFailure ==
  IF renewal.at = "notify" /\ renewal.t \notin live THEN {holds, holds \ {renewal.t}} ELSE {holds}

\* initialize() throws: no answer, the session is refused already, or there are
\* no headers for the GET of the server stream, which is outside its try.
RenewalFails ==
  /\ renewal.at \in {"initialize", "answered", "notify", "stream"}
  /\ renewal' = NoRenewal
  /\ call' = WaitersFail
  /\ IF renewal.first
     THEN /\ released' = TRUE /\ transport' = 0 /\ closed' = closed \cup {renewal.t}
          /\ live' \in Deleted(holds)
          /\ holds' = {} /\ ready' = FALSE
     ELSE /\ holds' \in HeldAfterFailure
          /\ UNCHANGED <<released, transport, closed, live, ready>>
  /\ UNCHANGED <<made, stream, restarted, losses, ran, late>>

\* Mutant of StreamAnswers: a closed transport opens its stream all the same.
StreamAnswersClosed(t) == {"none", "retry", Granted(t)}

\* What the GET for the server's stream comes back with: a stream, a failure
\* worth a retry, or 405 or 404, of a server that gives none or does not hold
\* the session.  A retry for which no headers can be built is the last.
StreamAnswers(t) ==
  IF t \in closed THEN {"none"} ELSE {"none", "retry", Granted(t)}

\* Mutant of Resumed: whatever was refused is sent again.
ResumedAll == {c \in Calls : call[c].at = "waiting"}

\* Those whom the renewal lets send again.
Resumed == {c \in Calls : call[c].at = "waiting" /\ call[c].kind = "idempotent"}

\* initialize() returns once the GET has been answered; those who waited for
\* the renewal go on: an idempotent request is sent again, another is not.
RenewalDone ==
  /\ renewal.at = "stream"
  /\ \E s \in StreamAnswers(renewal.t) : stream' = [stream EXCEPT ![renewal.t] = s]
  /\ renewal' = NoRenewal
  /\ LET t == IF transport = 0 /\ Resumed # {} THEN made + 1 ELSE transport
     IN /\ t <= MaxTransports
        /\ transport' = t
        /\ made' = IF t > made THEN t ELSE made
        /\ call' = [c \in Calls |->
             IF c \in Resumed THEN [call[c] EXCEPT !.at = "headers", !.t = t, !.again = TRUE,
                                                   !.nonced = FALSE]
             ELSE IF call[c].at = "waiting" THEN Over(c, "failed")
             ELSE call[c]]
  /\ UNCHANGED <<holds, closed, ready, live, restarted, losses, ran, released, late>>

(***************************************************************************)
(* The server stream, and close().                                         *)
(***************************************************************************)

StreamDrops(t) ==
  /\ stream[t] = "open"
  /\ stream' = [stream EXCEPT ![t] = "retry"]
  /\ UNCHANGED <<transport, made, holds, closed, ready, renewal, call, live, restarted,
                 losses, ran, released, late>>

StreamRetries(t) ==
  /\ stream[t] = "retry"
  /\ \E s \in StreamAnswers(t) : stream' = [stream EXCEPT ![t] = s]
  /\ UNCHANGED <<transport, made, holds, closed, ready, renewal, call, live, restarted,
                 losses, ran, released, late>>

\* close(), by the session manager.  The DELETE may not arrive.  An
\* initialize() on this transport is aborted, a GET for the stream as well.
Close ==
  /\ ~released /\ ~renewal.first
  /\ released' = TRUE
  /\ transport' = 0 /\ ready' = FALSE
  /\ closed' = closed \cup ({transport} \ {0})
  /\ holds' = holds \ {transport}
  /\ live' \in Deleted(holds \cap {transport})
  /\ stream' = StreamsWithout(transport)
  /\ LET dies == renewal.at \in {"initialize", "answered", "notify"}
         f == IF dies THEN WaitersFail ELSE call
     IN /\ renewal' = IF dies THEN NoRenewal ELSE renewal
        /\ call' = Aborted(f, transport)
        /\ late' = (late \/ renewal.at = "closing")
  /\ UNCHANGED <<made, restarted, losses, ran>>

Next ==
  \/ Forget
  \/ \E c \in Calls : Start(c) \/ Send(c) \/ Serve(c) \/ HandOutNonce(c)
                        \/ ServeThenForget(c)
                        \/ Lose(c) \/ Receive(c) \/ StreamEnds(c) \/ Expired(c)
  \/ RenewalClosed \/ ServeInitialize \/ Initialized \/ Notified \/ RenewalFails \/ RenewalDone
  \/ \E t \in Transports : StreamDrops(t) \/ StreamRetries(t)
  \/ Close

\* The headers of an answer come or the socket's inactivity timer fires, and
\* handlers of answers run.  Nothing ends an answer that trickles in on an event
\* stream, whether to a call or to initialize, nor a GET for the server stream
\* (timeoutMs: 0) but the close of its transport: no fairness for those.
Fairness ==
  /\ \A c \in Calls : WF_vars(Send(c)) /\ WF_vars(Serve(c) \/ Lose(c))
                      /\ WF_vars(Receive(c)) /\ WF_vars(Expired(c))
  /\ WF_vars(RenewalClosed)
  /\ WF_vars(renewal.at # "answered" /\ (ServeInitialize \/ Notified \/ RenewalFails))
  /\ WF_vars(renewal.t \in closed /\ RenewalDone)

Spec == Init /\ [][Next]_vars /\ Fairness

(***************************************************************************)
(* Properties.                                                             *)
(***************************************************************************)

\* A request that may change something upstream is executed once at most,
\* whatever is lost, refused, renewed or sent again; a replay happens once.
ReplaysAreIdempotent == \A c \in Calls : ran[c] <= IF call[c].kind = "idempotent" THEN 2 ELSE 1

\* A burst of refusals costs one renewal: a session that serves is not torn
\* down for a refusal that concerned the one before it, but by a caller that
\* was still reading the body of its refusal (late).
OneRenewalPerLoss == ~late /\ ~released => made <= 1 + losses

\* Server streams live on the transport in use and on none that was closed:
\* no retry timer of a replaced transport opens a second one.
StreamOnTransportInUse == \A t \in Transports : stream[t] # "none" => t = transport /\ t \notin closed

Quiet == renewal.at = "none" /\ \A c \in Calls : call[c].at \in {"idle"} \cup Ended

\* Once the session manager has closed the connection and its requests have
\* ended, no session and no stream is held, unless a caller late with its
\* refusal renewed the session of a closed connection.
ReleasedHoldsNothing ==
  released /\ Quiet /\ ~late => holds = {} /\ \A t \in Transports : stream[t] = "none"

\* At the mercy of the server: it answers on an event stream that it keeps
\* open, or it so answers the initialize of the renewal the call waits for, or
\* leaves the GET of that renewal unanswered.
AtTheServersMercy(c) ==
  \/ call[c].at = "streaming"
  \/ call[c].at = "waiting" /\ \/ renewal.at = "answered"
                               \/ renewal.at = "stream" /\ renewal.t \notin closed

\* Every request ends, with its answer or an error, or is at the server's mercy
\* from some time on, unless the bound on transports keeps it from being renewed.
EveryCallEnds ==
  \A c \in Calls : call[c].at # "idle" ~>
    \/ call[c].at \in Ended \/ made = MaxTransports
    \/ []AtTheServersMercy(c)

=============================================================================
