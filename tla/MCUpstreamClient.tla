-------------------------- MODULE MCUpstreamClient --------------------------
(***************************************************************************)
(* One UpstreamMcpConnection, over the transport its server was found to   *)
(* speak: the Streamable HTTP client or the HTTP+SSE one.  transportKind   *)
(* is options.transportKind, fixed when the connection is made.            *)
(***************************************************************************)
EXTENDS UpstreamClient

CONSTANT MaxStreams   \* bound: event streams opened over HTTP+SSE

ASSUME StreamsAssumption == MaxStreams \in Nat \ {0}

VARIABLES transportKind,
  lTransport, opened, connecting, sse, lCall, via, pending, posted, resolved,
  unobserved, lReleased

Legacy == INSTANCE LegacyStream
            WITH transport <- lTransport, call <- lCall, released <- lReleased

legacyVars == <<lTransport, opened, connecting, sse, lCall, via, pending, posted,
                resolved, unobserved, lReleased>>
connectionVars == <<transportKind, vars, legacyVars>>

\* No connection over Streamable HTTP was made.
Unused ==
  /\ transport = 0 /\ made = 0
  /\ holds = {} /\ closed = {} /\ live = {}
  /\ stream = [t \in Transports |-> "none"]
  /\ ready = FALSE /\ restarted = FALSE /\ released = FALSE /\ late = FALSE
  /\ renewal = NoRenewal
  /\ call = [c \in Calls |-> At("idle", "note")]
  /\ losses = 0 /\ ran = [c \in Calls |-> 0]

ConnectionInit ==
  /\ \/ transportKind = "STREAMABLE_HTTP" /\ Init
     \/ transportKind = "HTTP_SSE" /\ Unused
  /\ Legacy!Init

ConnectionNext ==
  /\ UNCHANGED transportKind
  /\ \/ /\ transportKind = "STREAMABLE_HTTP"
        /\ Next
        /\ UNCHANGED legacyVars
     \/ /\ transportKind = "HTTP_SSE"
        /\ Legacy!Next
        /\ UNCHANGED vars

\* Of the client that is not in use, no action with fairness is ever enabled.
ConnectionSpec ==
  ConnectionInit /\ [][ConnectionNext]_connectionVars /\ Fairness /\ Legacy!Fairness

\* Each variable of the two clients has its type.
ConnectionTypeOK == TypeOK /\ Legacy!TypeOK

\* There is one server stream, that of the transport in use (openServerStream,
\* its retry timer and close), and callers that race for a legacy transport
\* share its stream (ensureTransport).
OneServerStream == StreamOnTransportInUse /\ Legacy!OneStreamInUse

\* Every message sent over Streamable HTTP and every request sent over HTTP+SSE
\* ends, answered or failed, or waits for ever on a server that nothing times:
\* for the headers of a GET or on an event stream that goes on without end.
EveryMessageEnds == EveryCallEnds /\ Legacy!LegacyCallsEnd
=============================================================================
