-------------------------- MODULE UpstreamClient_proofs --------------------------
(***************************************************************************)
(* Theorems about the two clients a connection may use, UpstreamClient and *)
(* LegacyStream, and about MCUpstreamClient, which composes them: for      *)
(* every set of messages, any number of transports and event streams and   *)
(* any number of times the server forgets its sessions.                    *)
(***************************************************************************)
EXTENDS MCUpstreamClient, TLAPS, FiniteSetTheorems

Places == {"idle", "headers", "body", "waiting", "streaming"} \cup OnTheWire \cup Ended
Message == [at : Places, t : Nat, sid : Nat, kind : Kinds, again : BOOLEAN, nonced : BOOLEAN]
Renewal == [at : {"none", "closing", "initialize", "answered", "notify", "stream"},
            t : 0 .. MaxTransports, first : BOOLEAN]

LEMMA Bound == MaxTransports \in Nat /\ MaxTransports >= 1 /\ MaxLosses \in Nat
BY BoundsAssumption

LEMMA Wider ==
  ASSUME NEW a \in Nat, NEW b \in Nat, a <= b, NEW S, S \subseteq 1 .. a
  PROVE  S \subseteq 1 .. b
BY SMT

(***************************************************************************)
(* Transports, their streams and the renewal                               *)
(***************************************************************************)

\* What is numbered has been made.
Numbered ==
  /\ made \in 0 .. MaxTransports /\ transport \in 0 .. made
  /\ holds \subseteq 1 .. made /\ closed \subseteq 1 .. made /\ live \subseteq 1 .. made
  /\ stream \in [Transports -> {"none", "open", "retry"}]
  /\ ready \in BOOLEAN /\ restarted \in BOOLEAN /\ released \in BOOLEAN /\ late \in BOOLEAN
  /\ renewal \in Renewal
  /\ renewal.at # "none" => renewal.t \in 1 .. made
  /\ losses \in 0 .. MaxLosses

\* The transport a renewal initializes is in use until it is closed, and while
\* the old one is being closed nothing has a stream.
Renewing ==
  /\ renewal.at \in {"initialize", "answered", "notify", "stream"} /\ renewal.t \notin closed =>
       renewal.t = transport
  /\ renewal.at \in {"closing", "initialize", "answered", "notify", "stream"} =>
       \A t \in Transports : stream[t] = "none"

\* recreateSession leaves this.transport as it is until the old one is closed.
InUse == renewal.at # "closing" => transport \notin closed

StreamInv == Numbered /\ Renewing /\ InUse /\ StreamOnTransportInUse

streamVars == <<transport, made, holds, closed, stream, ready, renewal, live, restarted,
                losses, released, late>>

LEMMA StreamAtFirst == Init => StreamInv
<1> SUFFICES ASSUME Init  PROVE StreamInv  OBVIOUS
<1>1. renewal = [at |-> "initialize", t |-> 1, first |-> TRUE] /\ renewal \in Renewal
  BY Bound DEF Init, Renewal
<1>2. stream \in [Transports -> {"none", "open", "retry"}] /\ \A t \in Transports : stream[t] = "none"
  BY DEF Init
<1>3. made = 1 /\ transport = 1 /\ holds = {} /\ closed = {} /\ live = {} /\ losses = 0
      /\ ready \in BOOLEAN /\ restarted \in BOOLEAN /\ released \in BOOLEAN /\ late \in BOOLEAN
  BY DEF Init
<1>4. 1 \in 0 .. MaxTransports /\ 1 \in 0 .. 1 /\ 1 \in 1 .. 1 /\ 0 \in 0 .. MaxLosses  BY Bound
<1>5. made \in 0 .. MaxTransports /\ transport \in 0 .. made /\ losses \in 0 .. MaxLosses
      /\ renewal.t \in 1 .. made
  BY <1>1, <1>3, <1>4
<1>6. Numbered  BY <1>1, <1>2, <1>3, <1>5 DEF Numbered
<1> QED  BY <1>1, <1>2, <1>3, <1>6 DEF Init, StreamInv, Renewing, InUse, StreamOnTransportInUse

LEMMA StreamRests == StreamInv /\ UNCHANGED streamVars => StreamInv'
BY DEF StreamInv, Numbered, Renewing, InUse, StreamOnTransportInUse, streamVars

LEMMA Without ==
  ASSUME StreamInv
  PROVE  /\ StreamsWithout(transport) \in [Transports -> {"none", "open", "retry"}]
         /\ \A t \in Transports : StreamsWithout(transport)[t] = "none"
BY DEF StreamsWithout, StreamInv, Numbered, StreamOnTransportInUse

LEMMA ForgetKeepsStream == StreamInv /\ Forget => StreamInv'
<1> SUFFICES ASSUME StreamInv, Forget  PROVE StreamInv'  OBVIOUS
<1>1. UNCHANGED <<transport, made, holds, closed, ready, renewal, released, late>>
      /\ losses < MaxLosses /\ losses' = losses + 1 /\ live' = {} /\ restarted' \in BOOLEAN
  BY DEF Forget, StreamInv, Numbered
<1>2. stream' \in [Transports -> {"none", "open", "retry"}]
      /\ \A t \in Transports : stream[t] = "none" => stream'[t] = "none"
  BY DEF Forget, StreamInv, Numbered
<1>3. losses' \in 0 .. MaxLosses  BY <1>1, Bound DEF StreamInv, Numbered
<1>4. Numbered'  BY <1>1, <1>2, <1>3 DEF StreamInv, Numbered
<1> QED
  BY <1>1, <1>2, <1>4 DEF StreamInv, Renewing, InUse, StreamOnTransportInUse

LEMMA ServeThenForgetKeepsStream ==
  ASSUME StreamInv, NEW c \in Calls, ServeThenForget(c)
  PROVE  StreamInv'
<1>1. UNCHANGED <<transport, made, holds, closed, stream, ready, renewal, restarted, released, late>>
      /\ losses < MaxLosses /\ losses' = losses + 1 /\ live' \subseteq live
  BY DEF ServeThenForget
<1>2. losses' \in 0 .. MaxLosses  BY <1>1, Bound DEF StreamInv, Numbered
<1> QED
  BY <1>1, <1>2 DEF StreamInv, Numbered, Renewing, InUse, StreamOnTransportInUse

\* A transport that is opened has the next number.
LEMMA StartKeepsStream ==
  ASSUME StreamInv, NEW c \in Calls, Start(c)
  PROVE  StreamInv'
<1>1. UNCHANGED <<holds, closed, stream, ready, renewal, live, restarted, losses, released, late>>
      /\ (transport = 0 => made < MaxTransports)
      /\ transport' = (IF transport = 0 THEN made + 1 ELSE transport)
      /\ made' = (IF transport = 0 THEN made + 1 ELSE made)
  BY DEF Start
<1>2. CASE transport # 0
  BY <1>1, <1>2 DEF StreamInv, Numbered, Renewing, InUse, StreamOnTransportInUse
<1>3. CASE transport = 0
  <2>1. made \in Nat /\ made' = made + 1 /\ transport' = made + 1 /\ made' \in 0 .. MaxTransports
    BY <1>1, <1>3, Bound DEF StreamInv, Numbered
  <2>2. Numbered'  BY <1>1, <2>1, Bound DEF StreamInv, Numbered
  <2>3. \A t \in Transports : stream[t] = "none"
    BY <1>3, Bound DEF StreamInv, StreamOnTransportInUse, Transports
  <2>4. transport' \notin closed  BY <2>1 DEF StreamInv, Numbered
  <2>5. Renewing'
    <3>1. renewal.at \in {"initialize", "answered", "notify", "stream"} => renewal.t \in closed
      BY <1>3, Bound DEF StreamInv, Numbered, Renewing
    <3> QED  BY <1>1, <2>3, <3>1 DEF Renewing
  <2> QED  BY <1>1, <2>2, <2>3, <2>4, <2>5 DEF StreamInv, InUse, StreamOnTransportInUse
<1> QED  BY <1>2, <1>3

LEMMA ExpiredKeepsStream ==
  ASSUME StreamInv, NEW c \in Calls, Expired(c)
  PROVE  StreamInv'
<1>1. holds' \subseteq holds /\ UNCHANGED <<live, restarted, losses, released>>  BY DEF Expired
<1>2. CASE UNCHANGED <<transport, made, closed, stream, ready, renewal, late>>
  BY <1>1, <1>2 DEF StreamInv, Numbered, Renewing, InUse, StreamOnTransportInUse
<1>3. CASE ~UNCHANGED <<transport, made, closed, stream, ready, renewal, late>>
  <2>1. /\ renewal.at = "none"
        /\ late' = (late \/ released \/ (renewal.at = "none" /\ transport # call[c].sid))
        /\ closed' = closed \cup ({transport} \ {0})
        /\ stream' = StreamsWithout(transport)
        /\ IF transport \in holds'
           THEN /\ renewal' = [at |-> "closing", t |-> transport, first |-> FALSE]
                /\ UNCHANGED <<transport, made, ready>>
           ELSE /\ made < MaxTransports
                /\ made' = made + 1 /\ transport' = made + 1 /\ ready' = FALSE
                /\ renewal' = [at |-> "initialize", t |-> made + 1, first |-> FALSE]
    BY <1>3 DEF Expired, Shared
  <2>2. stream' \in [Transports -> {"none", "open", "retry"}] /\ \A t \in Transports : stream'[t] = "none"
    BY <2>1, Without
  <2>3. late' \in BOOLEAN  BY <2>1
  <2>4. CASE transport \in holds'
    <3>1. transport \in 1 .. made /\ UNCHANGED <<transport, made, ready>>
          /\ renewal' = [at |-> "closing", t |-> transport, first |-> FALSE]
      BY <1>1, <2>1, <2>4 DEF StreamInv, Numbered
    <3>2. renewal' \in Renewal  BY <3>1, Bound DEF Renewal, StreamInv, Numbered
    <3>3. Numbered'  BY <1>1, <2>1, <2>2, <2>3, <3>1, <3>2 DEF StreamInv, Numbered
    <3> QED  BY <2>2, <3>1, <3>3 DEF StreamInv, Renewing, InUse, StreamOnTransportInUse
  <2>5. CASE transport \notin holds'
    <3>1. made' = made + 1 /\ transport' = made + 1 /\ ready' = FALSE /\ made < MaxTransports
          /\ renewal' = [at |-> "initialize", t |-> made + 1, first |-> FALSE]
      BY <2>1, <2>5
    <3>2. made \in Nat /\ made' \in 0 .. MaxTransports  BY <3>1, Bound DEF StreamInv, Numbered
    <3>3. renewal' \in Renewal  BY <3>1, <3>2, Bound DEF Renewal
    <3>4. closed' \subseteq 1 .. made
      <4>1. transport = 0 \/ transport \in 1 .. made  BY <3>2 DEF StreamInv, Numbered
      <4>2. {transport} \ {0} \subseteq 1 .. made  BY <4>1
      <4> QED  BY <2>1, <4>2 DEF StreamInv, Numbered
    <3>5. made' \in Nat /\ made <= made' /\ made' \in 1 .. made'  BY <3>1, <3>2
    <3>6. closed' \subseteq 1 .. made' /\ holds' \subseteq 1 .. made' /\ live' \subseteq 1 .. made'
      <4>1. closed' \subseteq 1 .. made'  BY <3>2, <3>4, <3>5, Wider
      <4>2. holds \subseteq 1 .. made'  BY <3>2, <3>5, Wider DEF StreamInv, Numbered
      <4>3. live \subseteq 1 .. made'  BY <3>2, <3>5, Wider DEF StreamInv, Numbered
      <4> QED  BY <1>1, <4>1, <4>2, <4>3
    <3>7. transport' \in 0 .. made' /\ renewal'.t \in 1 .. made'  BY <3>1, <3>2, <3>5
    <3>8. Numbered'  BY <1>1, <2>2, <2>3, <3>1, <3>2, <3>3, <3>6, <3>7 DEF StreamInv, Numbered
    <3>9. transport' \notin closed'  BY <3>1, <3>2, <3>4
    <3> QED  BY <2>2, <3>1, <3>8, <3>9 DEF StreamInv, Renewing, InUse, StreamOnTransportInUse
  <2> QED  BY <2>4, <2>5
<1> QED  BY <1>2, <1>3

LEMMA RenewalClosedKeepsStream == StreamInv /\ RenewalClosed => StreamInv'
<1> SUFFICES ASSUME StreamInv, RenewalClosed  PROVE StreamInv'  OBVIOUS
<1>1. /\ renewal.at = "closing" /\ made < MaxTransports
      /\ live' \subseteq live /\ holds' \subseteq holds
      /\ made' = made + 1 /\ transport' = made + 1 /\ ready' = FALSE
      /\ renewal' = [renewal EXCEPT !.at = "initialize", !.t = made + 1]
      /\ UNCHANGED <<closed, stream, restarted, losses, released, late>>
  BY DEF RenewalClosed, Deleted
<1>2. made \in Nat /\ made' \in 0 .. MaxTransports  BY <1>1, Bound DEF StreamInv, Numbered
<1>3. renewal' \in Renewal /\ renewal'.at = "initialize" /\ renewal'.t = made + 1
  BY <1>1, <1>2, Bound DEF StreamInv, Numbered, Renewal
<1>4. made' \in Nat /\ made <= made' /\ made' \in 1 .. made' /\ transport' \in 0 .. made'
  BY <1>1, <1>2
<1>5. holds \subseteq 1 .. made' /\ closed \subseteq 1 .. made' /\ live \subseteq 1 .. made'
  <2>1. holds \subseteq 1 .. made'  BY <1>2, <1>4, Wider DEF StreamInv, Numbered
  <2>2. closed \subseteq 1 .. made'  BY <1>2, <1>4, Wider DEF StreamInv, Numbered
  <2>3. live \subseteq 1 .. made'  BY <1>2, <1>4, Wider DEF StreamInv, Numbered
  <2> QED  BY <2>1, <2>2, <2>3
<1>6. Numbered'  BY <1>1, <1>2, <1>3, <1>4, <1>5 DEF StreamInv, Numbered
<1>7. transport' \notin closed'  BY <1>1, <1>2 DEF StreamInv, Numbered
<1>8. \A t \in Transports : stream'[t] = "none"  BY <1>1 DEF StreamInv, Renewing
<1> QED  BY <1>1, <1>3, <1>6, <1>7, <1>8 DEF StreamInv, Renewing, InUse, StreamOnTransportInUse

\* The steps of initialize() that only move it on.
LEMMA InitializeKeepsStream == StreamInv /\ (ServeInitialize \/ Initialized \/ Notified) => StreamInv'
<1> SUFFICES ASSUME StreamInv, ServeInitialize \/ Initialized \/ Notified  PROVE StreamInv'
  OBVIOUS
<1>1. /\ UNCHANGED <<transport, made, closed, stream, losses, released, late>>
      /\ renewal.at \in {"initialize", "answered", "notify"}
      /\ ready' \in BOOLEAN /\ restarted' \in BOOLEAN
      /\ live' \subseteq live \cup {renewal.t} /\ holds' \subseteq holds \cup {renewal.t}
  BY DEF ServeInitialize, Initialized, Notified, StreamInv, Numbered
<1>2. renewal' \in Renewal /\ renewal'.at \in {"answered", "notify", "stream"} /\ renewal'.t = renewal.t
  BY DEF ServeInitialize, Initialized, Notified, StreamInv, Numbered, Renewal
<1>3. Numbered'  BY <1>1, <1>2 DEF StreamInv, Numbered
<1> QED  BY <1>1, <1>2, <1>3 DEF StreamInv, Renewing, InUse, StreamOnTransportInUse

LEMMA NoRenewalTyped == NoRenewal \in Renewal /\ NoRenewal.at = "none"
BY Bound DEF NoRenewal, Renewal

LEMMA RenewalFailsKeepsStream == StreamInv /\ RenewalFails => StreamInv'
<1> SUFFICES ASSUME StreamInv, RenewalFails  PROVE StreamInv'  OBVIOUS
<1>1. /\ renewal.at \in {"initialize", "answered", "notify", "stream"} /\ renewal' = NoRenewal
      /\ UNCHANGED <<made, stream, restarted, losses, late>>
      /\ holds' \subseteq holds /\ ready' \in {ready, FALSE}
  BY DEF RenewalFails, HeldAfterFailure
<1>2. \A t \in Transports : stream'[t] = "none"  BY <1>1 DEF StreamInv, Renewing
<1>3. CASE renewal.first
  <2>1. released' = TRUE /\ transport' = 0 /\ closed' = closed \cup {renewal.t}
    BY <1>3 DEF RenewalFails
  <2>2. live' \subseteq live  BY <1>3 DEF RenewalFails, Deleted
  <2>3. renewal.t \in 1 .. made /\ made \in Nat /\ closed \subseteq 1 .. made
    BY <1>1, Bound DEF StreamInv, Numbered
  <2>4. {renewal.t} \subseteq 1 .. made  BY <2>3
  <2>5. closed' \subseteq 1 .. made  BY <2>1, <2>3, <2>4
  <2>6. transport' \in 0 .. made  BY <2>1, <2>3
  <2>7. closed' \subseteq 1 .. made /\ transport' \in 0 .. made  BY <2>5, <2>6
  <2>8. holds' \subseteq 1 .. made /\ live' \subseteq 1 .. made
    BY <1>1, <2>2 DEF StreamInv, Numbered
  <2>9. released' \in BOOLEAN /\ renewal' \in Renewal /\ renewal'.at = "none"
    BY <1>1, <2>1, NoRenewalTyped
  <2>10. Numbered'  BY <1>1, <2>7, <2>8, <2>9 DEF StreamInv, Numbered
  <2>11. transport' \notin closed'  BY <1>1, <2>1 DEF StreamInv, Numbered
  <2> QED
    BY <1>1, <1>2, <2>10, <2>11, NoRenewalTyped
    DEF StreamInv, Renewing, InUse, StreamOnTransportInUse
<1>4. CASE ~renewal.first
  <2>1. UNCHANGED <<released, transport, closed, live>>  BY <1>4 DEF RenewalFails
  <2>2. Numbered'  BY <1>1, <2>1, NoRenewalTyped DEF StreamInv, Numbered
  <2> QED
    BY <1>1, <1>2, <2>1, <2>2, NoRenewalTyped
    DEF StreamInv, Renewing, InUse, StreamOnTransportInUse
<1> QED  BY <1>3, <1>4

LEMMA AnswersTyped ==
  ASSUME NEW t, NEW s \in StreamAnswers(t)
  PROVE  s \in {"none", "open", "retry"} /\ (t \in closed => s = "none")
BY DEF StreamAnswers, Granted

LEMMA RenewalDoneKeepsStream == StreamInv /\ RenewalDone => StreamInv'
<1> SUFFICES ASSUME StreamInv, RenewalDone  PROVE StreamInv'  OBVIOUS
<1> DEFINE t == IF transport = 0 /\ Resumed # {} THEN made + 1 ELSE transport
<1>1. /\ renewal.at = "stream" /\ renewal' = NoRenewal
      /\ t <= MaxTransports /\ transport' = t /\ made' = IF t > made THEN t ELSE made
      /\ UNCHANGED <<holds, closed, ready, live, restarted, losses, released, late>>
  BY DEF RenewalDone
<1>2. PICK s \in StreamAnswers(renewal.t) : stream' = [stream EXCEPT ![renewal.t] = s]
  BY DEF RenewalDone
<1>3. s \in {"none", "open", "retry"} /\ (renewal.t \in closed => s = "none")
  BY AnswersTyped
<1>4. made \in Nat /\ transport \in 0 .. made /\ renewal.t \in Transports
  BY <1>1, Bound DEF StreamInv, Numbered, Transports
<1>5. /\ stream' \in [Transports -> {"none", "open", "retry"}]
      /\ stream'[renewal.t] = s /\ \A u \in Transports : u # renewal.t => stream'[u] = "none"
  BY <1>1, <1>2, <1>3, <1>4 DEF StreamInv, Numbered, Renewing
<1>6. \/ transport' = transport /\ made' = made
      \/ transport = 0 /\ transport' = made + 1 /\ made' = made + 1 /\ made + 1 <= MaxTransports
  BY <1>1, <1>4
<1>7. transport' \notin closed  
  BY <1>1, <1>4, <1>6 DEF StreamInv, Numbered, InUse
<1>8. Numbered'
  BY <1>1, <1>4, <1>5, <1>6, NoRenewalTyped, Bound DEF StreamInv, Numbered
<1>9. StreamOnTransportInUse'
  <2>1. renewal.t \notin closed => transport' = renewal.t
    BY <1>1, <1>4, <1>6, Bound DEF StreamInv, Renewing, Transports
  <2> QED  BY <1>1, <1>3, <1>5, <2>1 DEF StreamOnTransportInUse
<1> QED  BY <1>1, <1>7, <1>8, <1>9, NoRenewalTyped DEF StreamInv, Renewing, InUse

LEMMA StreamMovesKeep ==
  ASSUME StreamInv, NEW t \in Transports, StreamDrops(t) \/ StreamRetries(t)
  PROVE  StreamInv'
<1>1. /\ stream[t] # "none"
      /\ UNCHANGED <<transport, made, holds, closed, ready, renewal, live, restarted, losses,
                     released, late>>
  BY DEF StreamDrops, StreamRetries
<1>2. PICK s \in {"none", "open", "retry"} : stream' = [stream EXCEPT ![t] = s]
  BY AnswersTyped DEF StreamDrops, StreamRetries
<1>3. /\ stream' \in [Transports -> {"none", "open", "retry"}]
      /\ \A u \in Transports : u # t => stream'[u] = stream[u]
  BY <1>2 DEF StreamInv, Numbered
<1>4. t = transport /\ t \notin closed  BY <1>1 DEF StreamInv, StreamOnTransportInUse
<1>5. renewal.at = "none"  BY <1>1 DEF StreamInv, Renewing, Numbered, Renewal
<1>6. Numbered'  BY <1>1, <1>3 DEF StreamInv, Numbered
<1> QED
  BY <1>1, <1>3, <1>4, <1>5, <1>6 DEF StreamInv, Renewing, InUse, StreamOnTransportInUse

LEMMA CloseKeepsStream == StreamInv /\ Close => StreamInv'
<1> SUFFICES ASSUME StreamInv, Close  PROVE StreamInv'  OBVIOUS
<1>1. /\ released' = TRUE /\ transport' = 0 /\ ready' = FALSE
      /\ closed' = closed \cup ({transport} \ {0})
      /\ holds' \subseteq holds /\ live' \subseteq live
      /\ stream' = StreamsWithout(transport)
      /\ renewal' \in {NoRenewal, renewal}
      /\ late' = (late \/ renewal.at = "closing")
      /\ UNCHANGED <<made, restarted, losses>>
  BY DEF Close, Deleted
<1>2. stream' \in [Transports -> {"none", "open", "retry"}] /\ \A t \in Transports : stream'[t] = "none"
  BY <1>1, Without
<1>3. closed' \subseteq 1 .. made /\ late' \in BOOLEAN
  <2>1. transport = 0 \/ transport \in 1 .. made  BY Bound DEF StreamInv, Numbered
  <2>2. {transport} \ {0} \subseteq 1 .. made  BY <2>1
  <2>3. late' \in BOOLEAN  BY <1>1
  <2> QED  BY <1>1, <2>2, <2>3 DEF StreamInv, Numbered
<1>4. renewal' \in Renewal /\ (renewal'.at # "none" => renewal'.t \in 1 .. made)
  BY <1>1, NoRenewalTyped DEF StreamInv, Numbered
<1>5. transport' \in 0 .. made  BY <1>1, Bound DEF StreamInv, Numbered
<1>6. Numbered'  BY <1>1, <1>2, <1>3, <1>4, <1>5 DEF StreamInv, Numbered
<1>7. Renewing'
  <2>1. ASSUME renewal'.at \in {"initialize", "answered", "notify", "stream"}  PROVE renewal'.t \in closed'
    <3>1. renewal' = renewal  BY <1>1, <2>1, NoRenewalTyped
    <3>2. renewal.t \in closed \/ renewal.t = transport  BY <2>1, <3>1 DEF StreamInv, Renewing
    <3>3. renewal.t \in 1 .. made  BY <2>1, <3>1 DEF StreamInv, Numbered
    <3>4. renewal.t # 0  BY <3>3 DEF StreamInv, Numbered
    <3> QED  BY <1>1, <3>1, <3>2, <3>4
  <2> QED  BY <1>2, <2>1 DEF Renewing
<1>8. 0 \notin closed'  BY <1>3 DEF StreamInv, Numbered
<1> QED  BY <1>1, <1>2, <1>6, <1>7, <1>8 DEF StreamInv, InUse, StreamOnTransportInUse

LEMMA StreamNext == StreamInv /\ [Next]_vars => StreamInv'
<1> SUFFICES ASSUME StreamInv, [Next]_vars  PROVE StreamInv'  OBVIOUS
<1>1. CASE UNCHANGED vars  BY <1>1, StreamRests DEF vars, streamVars
<1>2. ASSUME NEW c \in Calls,
             \/ Start(c) \/ Send(c) \/ Serve(c) \/ HandOutNonce(c) \/ ServeThenForget(c)
             \/ Lose(c) \/ Receive(c) \/ StreamEnds(c) \/ Expired(c)
      PROVE  StreamInv'
  <2>1. CASE Send(c) \/ Serve(c) \/ HandOutNonce(c) \/ Lose(c) \/ Receive(c) \/ StreamEnds(c)
    <3>1. UNCHANGED streamVars
      BY <2>1 DEF Send, Serve, HandOutNonce, Lose, Receive, StreamEnds, streamVars
    <3> QED  BY <3>1, StreamRests
  <2> QED
    BY <1>2, <2>1, StartKeepsStream, ServeThenForgetKeepsStream, ExpiredKeepsStream
<1>3. CASE Next /\ ~\E c \in Calls :
             \/ Start(c) \/ Send(c) \/ Serve(c) \/ HandOutNonce(c) \/ ServeThenForget(c)
             \/ Lose(c) \/ Receive(c) \/ StreamEnds(c) \/ Expired(c)
  BY <1>3, ForgetKeepsStream, RenewalClosedKeepsStream, InitializeKeepsStream,
     RenewalFailsKeepsStream, RenewalDoneKeepsStream, StreamMovesKeep, CloseKeepsStream DEF Next
<1> QED  BY <1>1, <1>2, <1>3

\* One server stream, that of the transport in use: no retry timer and no GET
\* that was under way gives a replaced or closed transport another, for any
\* number of transports (openServerStream, recreateSession, close).
THEOREM OneStreamServes == Spec => []StreamOnTransportInUse
<1>1. StreamInv => StreamOnTransportInUse  BY DEF StreamInv
<1> QED  BY <1>1, StreamAtFirst, StreamNext, PTL DEF Spec

(***************************************************************************)
(* Requests and what the server has executed                               *)
(***************************************************************************)

\* How often the server may have executed a message that is where r says.
Fits(r, n) ==
  /\ r.again => r.kind = "idempotent" /\ r.at # "waiting"
  /\ n <= IF r.kind = "idempotent" THEN 2 ELSE 1
  /\ r.at \in {"idle", "headers", "wire", "nonce"} => n <= IF r.again THEN 1 ELSE 0
  /\ r.at \notin Ended => n <= IF r.again THEN 2 ELSE 1

ReplayInv ==
  /\ call \in [Calls -> Message] /\ ran \in [Calls -> Nat]
  /\ \A c \in Calls : Fits(call[c], ran[c])

LEMMA ReplayAtFirst == Init => ReplayInv
<1> SUFFICES ASSUME Init  PROVE ReplayInv  OBVIOUS
<1>1. PICK f \in [Calls -> {At("idle", k) : k \in Kinds}] : call = f  BY DEF Init
<1>2. \A c \in Calls : \E k \in Kinds :
        call[c] = [at |-> "idle", kind |-> k, t |-> 0, sid |-> 0, again |-> FALSE, nonced |-> FALSE]
  BY <1>1 DEF At
<1>3. \A c \in Calls : call[c] \in Message /\ call[c].at = "idle" /\ ~call[c].again
  <2>1. TAKE c \in Calls
  <2>2. PICK k \in Kinds : call[c] = [at |-> "idle", kind |-> k, t |-> 0, sid |-> 0,
                                    again |-> FALSE, nonced |-> FALSE]
    BY <1>2
  <2> QED  BY <2>2 DEF Message, Places
<1>4. call = [c \in Calls |-> call[c]]  BY <1>1
<1>5. call \in [Calls -> Message]
  <2>1. [c \in Calls |-> call[c]] \in [Calls -> Message]  BY <1>3
  <2> QED  BY <1>4, <2>1, Zenon
<1>6. ran \in [Calls -> Nat] /\ \A c \in Calls : ran[c] = 0  BY DEF Init
<1> QED  BY <1>3, <1>6, <1>5 DEF ReplayInv, Fits, Ended

\* An ended message fits whatever was executed before.
LEMMA OverFits ==
  ASSUME ReplayInv, NEW c \in Calls, NEW at \in Ended
  PROVE  Over(c, at) \in Message /\ Fits(Over(c, at), ran[c])
<1>1. call[c] \in Message /\ Fits(call[c], ran[c])  BY DEF ReplayInv
<1>2. Over(c, at) = [at |-> at, kind |-> call[c].kind, t |-> 0, sid |-> 0, again |-> FALSE,
                     nonced |-> FALSE]
  BY DEF Over, At
<1>3. call[c].kind \in Kinds  BY <1>1 DEF Message
<1>4. Over(c, at) \in Message  BY <1>2, <1>3 DEF Message, Places
<1> QED  BY <1>1, <1>2, <1>4 DEF Fits, Ended

\* One message moves.
LEMMA OneMoves ==
  ASSUME ReplayInv, NEW c \in Calls, NEW r \in Message, NEW n \in Nat, Fits(r, n),
         call' = [call EXCEPT ![c] = r], ran' = [ran EXCEPT ![c] = n]
  PROVE  ReplayInv'
<1>1. call' \in [Calls -> Message] /\ ran' \in [Calls -> Nat]  BY DEF ReplayInv
<1>2. \A d \in Calls : Fits(call'[d], ran'[d])
  <2>1. TAKE d \in Calls
  <2>2. CASE d = c  BY <2>2 DEF ReplayInv
  <2>3. CASE d # c  BY <2>3 DEF ReplayInv
  <2> QED  BY <2>2, <2>3
<1> QED  BY <1>1, <1>2 DEF ReplayInv

\* Several move at once, and nothing is executed.
LEMMA ManyMove ==
  ASSUME ReplayInv, NEW f \in [Calls -> Message], call' = f, ran' = ran,
         \A c \in Calls : Fits(f[c], ran[c])
  PROVE  ReplayInv'
BY DEF ReplayInv

LEMMA StillRan == ASSUME ReplayInv, NEW c \in Calls
                  PROVE  ran = [ran EXCEPT ![c] = ran[c]] /\ ran[c] \in Nat
                         /\ call[c] \in Message /\ Fits(call[c], ran[c])
BY DEF ReplayInv

LEMMA StartFits == ASSUME ReplayInv, StreamInv, NEW c \in Calls, Start(c)  PROVE ReplayInv'
<1> DEFINE t == IF transport = 0 THEN made + 1 ELSE transport
<1> DEFINE r == [call[c] EXCEPT !.at = "headers", !.t = t]
<1>1. call[c].at = "idle" /\ call' = [call EXCEPT ![c] = r] /\ ran' = ran
  BY StillRan DEF Start, ReplayInv
<1>2. t \in Nat  BY Bound DEF StreamInv, Numbered
<1>3. r \in Message /\ r.at = "headers" /\ r.again = call[c].again /\ r.kind = call[c].kind
  BY <1>2, StillRan DEF Message, Places
<1> HIDE DEF r
<1>4. Fits(r, ran[c])  BY <1>1, <1>3, StillRan DEF Fits, Ended
<1> QED  BY <1>1, <1>3, <1>4, OneMoves, StillRan

LEMMA SendFits == ASSUME ReplayInv, NEW c \in Calls, Send(c)  PROVE ReplayInv'
<1> DEFINE r == [call[c] EXCEPT !.at = "wire", !.sid = IF call[c].t \in holds THEN call[c].t ELSE 0]
<1>1. call[c].at = "headers" /\ ran' = ran
      /\ call' \in {[call EXCEPT ![c] = Over(c, "failed")], [call EXCEPT ![c] = r]}
  BY StillRan DEF Send, ReplayInv
<1>2. r \in Message /\ r.at = "wire" /\ r.again = call[c].again /\ r.kind = call[c].kind
  BY StillRan DEF Message, Places, OnTheWire
<1> HIDE DEF r
<1>3. Fits(r, ran[c])  BY <1>1, <1>2, StillRan DEF Fits, Ended
<1>4. "failed" \in Ended  BY DEF Ended
<1> QED  BY <1>1, <1>2, <1>3, <1>4, OneMoves, OverFits, StillRan

\* Mutants aside, the server refuses with 404 or with 400.
LEMMA Refusals == Refusal \in {"400", "404"}
BY DEF Refusal

\* The server executes what is on the wire, or refuses it.
LEMMA ServedFits ==
  ASSUME ReplayInv, NEW c \in Calls, Serve(c) \/ ServeThenForget(c)
  PROVE  ReplayInv'
<1>1. PICK at \in {"ok", "head", "400", "404"} : call' = [call EXCEPT ![c].at = at]
  BY Refusals DEF Serve, ServeThenForget
<1>2. call[c].at = "wire"  BY DEF Serve, ServeThenForget
<1>3. ran' = ran \/ ran' = [ran EXCEPT ![c] = ran[c] + 1]
  BY DEF Serve, ServeThenForget, Executed
<1>4. PICK n \in {ran[c], ran[c] + 1} : ran' = [ran EXCEPT ![c] = n]
  BY <1>3, StillRan
<1> DEFINE r == [call[c] EXCEPT !.at = at]
<1>5. r \in Message /\ r.at = at /\ r.again = call[c].again /\ r.kind = call[c].kind
      /\ call' = [call EXCEPT ![c] = r]
  BY <1>1, StillRan DEF Message, Places, OnTheWire, ReplayInv
<1> HIDE DEF r
<1>6. n \in Nat  BY StillRan
<1>7. ran[c] <= (IF call[c].again THEN 1 ELSE 0) /\ (call[c].again => call[c].kind = "idempotent")
  BY <1>2, StillRan DEF Fits
<1>8. Fits(r, n)  BY <1>2, <1>4, <1>5, <1>6, <1>7, StillRan DEF Fits, Ended, Message
<1> QED  BY <1>4, <1>5, <1>6, <1>8, OneMoves

LEMMA NonceFits == ASSUME ReplayInv, NEW c \in Calls, HandOutNonce(c)  PROVE ReplayInv'
<1> DEFINE r == [call[c] EXCEPT !.at = "nonce"]
<1>1. call[c].at = "wire" /\ ran' = ran /\ call' = [call EXCEPT ![c] = r]
  BY DEF HandOutNonce, ReplayInv
<1>2. r \in Message /\ r.at = "nonce" /\ r.again = call[c].again /\ r.kind = call[c].kind
  BY StillRan DEF Message, Places, OnTheWire
<1> HIDE DEF r
<1>3. Fits(r, ran[c])  BY <1>1, <1>2, StillRan DEF Fits, Ended
<1> QED  BY <1>1, <1>2, <1>3, OneMoves, StillRan

LEMMA LoseFits == ASSUME ReplayInv, NEW c \in Calls, Lose(c) \/ StreamEnds(c)  PROVE ReplayInv'
<1>1. PICK at \in Ended : call' = [call EXCEPT ![c] = Over(c, at)]
  BY DEF Lose, StreamEnds, Ended
<1>2. ran' = ran  BY DEF Lose, StreamEnds
<1> QED  BY <1>1, <1>2, OverFits, OneMoves, StillRan

LEMMA ReceiveFits == ASSUME ReplayInv, NEW c \in Calls, Receive(c)  PROVE ReplayInv'
<1> DEFINE streaming == [call[c] EXCEPT !.at = "streaming"]
           nonced == [call[c] EXCEPT !.at = "headers", !.nonced = TRUE]
           body == [call[c] EXCEPT !.at = "body"]
<1>1. ran' = ran
      /\ \/ \E at \in Ended : call' = [call EXCEPT ![c] = Over(c, at)]
         \/ call[c].at = "head" /\ call' = [call EXCEPT ![c] = streaming]
         \/ call[c].at = "nonce" /\ call' = [call EXCEPT ![c] = nonced]
         \/ call[c].at = "400" /\ call' = [call EXCEPT ![c] = body]
  <2>1. "done" \in Ended /\ "failed" \in Ended  BY DEF Ended
  <2>2. PICK got \in {
           [of |-> "ok", then |-> Over(c, "done")],
           [of |-> "head", then |-> streaming],
           [of |-> "nonce", then |-> IF call[c].nonced THEN Over(c, "failed") ELSE nonced],
           [of |-> "400", then |-> IF call[c].t \in holds THEN body ELSE Over(c, "failed")],
           [of |-> "body", then |-> Over(c, "failed")],
           [of |-> "404", then |-> Over(c, "failed")]} :
          call[c].at = got.of /\ call' = [call EXCEPT ![c] = got.then]
    BY Zenon DEF Receive
  <2>3. ran' = ran  BY DEF Receive
  <2> HIDE DEF streaming, nonced, body
  <2>4. \/ got.then = Over(c, "done") \/ got.then = Over(c, "failed")
        \/ got.of = "head" /\ got.then = streaming
        \/ got.of = "nonce" /\ got.then = nonced
        \/ got.of = "400" /\ got.then = body
    BY <2>2
  <2> QED  BY <2>1, <2>2, <2>3, <2>4
<1>2. streaming \in Message /\ streaming.at = "streaming" /\ streaming.again = call[c].again
      /\ streaming.kind = call[c].kind
  BY StillRan DEF Message, Places
<1>3. nonced \in Message /\ nonced.at = "headers" /\ nonced.again = call[c].again
      /\ nonced.kind = call[c].kind
  BY StillRan DEF Message, Places
<1>4. body \in Message /\ body.at = "body" /\ body.again = call[c].again /\ body.kind = call[c].kind
  BY StillRan DEF Message, Places
<1> HIDE DEF streaming, nonced, body
<1>5. call[c].at = "head" => Fits(streaming, ran[c])  BY <1>2, StillRan DEF Fits, Ended
<1>6. call[c].at = "nonce" => Fits(nonced, ran[c])  BY <1>3, StillRan DEF Fits, Ended
<1>7. call[c].at = "400" => Fits(body, ran[c])  BY <1>4, StillRan DEF Fits, Ended
<1> QED  BY <1>1, <1>2, <1>3, <1>4, <1>5, <1>6, <1>7, OverFits, OneMoves, StillRan

\* A message that waits for the renewal was not sent again before.
LEMMA WaitingFits ==
  ASSUME ReplayInv, NEW c \in Calls, call[c].at \in {"404", "body"}, ~call[c].again
  PROVE  /\ [call EXCEPT ![c].at = "waiting"] \in [Calls -> Message]
         /\ \A d \in Calls : Fits([call EXCEPT ![c].at = "waiting"][d], ran[d])
<1> DEFINE r == [call[c] EXCEPT !.at = "waiting"]
<1>1. r \in Message /\ r.at = "waiting" /\ r.again = call[c].again /\ r.kind = call[c].kind
  BY StillRan DEF Message, Places
<1>2. [call EXCEPT ![c].at = "waiting"] = [call EXCEPT ![c] = r]  BY DEF ReplayInv
<1> HIDE DEF r
<1>3. Fits(r, ran[c])  BY <1>1, StillRan DEF Fits, Ended
<1>4. [call EXCEPT ![c] = r] \in [Calls -> Message]  BY <1>1 DEF ReplayInv
<1>5. \A d \in Calls : Fits([call EXCEPT ![c] = r][d], ran[d])
  <2>1. TAKE d \in Calls
  <2>2. CASE d = c  BY <1>3, <2>2 DEF ReplayInv
  <2>3. CASE d # c  BY <2>3 DEF ReplayInv
  <2> QED  BY <2>2, <2>3
<1> QED  BY <1>2, <1>4, <1>5

\* Closing a transport fails its requests, and whatever fails fits.
LEMMA AbortedFits ==
  ASSUME ReplayInv, NEW f \in [Calls -> Message], NEW t, \A c \in Calls : Fits(f[c], ran[c])
  PROVE  /\ Aborted(f, t) \in [Calls -> Message]
         /\ \A c \in Calls : Fits(Aborted(f, t)[c], ran[c])
<1>1. "failed" \in Ended  BY DEF Ended
<1>2. \A c \in Calls : Over(c, "failed") \in Message /\ Fits(Over(c, "failed"), ran[c])
  BY <1>1, OverFits
<1>3. \A c \in Calls : Aborted(f, t)[c] \in {Over(c, "failed"), f[c]}  BY DEF Aborted
<1>4. \A c \in Calls : Aborted(f, t)[c] \in Message /\ Fits(Aborted(f, t)[c], ran[c])
  BY <1>2, <1>3
<1> QED  BY <1>4 DEF Aborted

LEMMA ExpiredFits == ASSUME ReplayInv, NEW c \in Calls, Expired(c)  PROVE ReplayInv'
<1>1. ran' = ran /\ call[c].at \in {"404", "body"}  BY DEF Expired
<1>2. CASE call[c].again \/ call[c].kind = "note"
  <2>1. call' = [call EXCEPT ![c] = Over(c, "failed")]  BY <1>2 DEF Expired
  <2>2. "failed" \in Ended  BY DEF Ended
  <2> QED  BY <1>1, <2>1, <2>2, OverFits, OneMoves, StillRan
<1>3. CASE ~(call[c].again \/ call[c].kind = "note")
  <2> DEFINE waiting == [call EXCEPT ![c].at = "waiting"]
  <2>1. call' = waiting \/ call' = Aborted(waiting, transport)  BY <1>3 DEF Expired
  <2>2. waiting \in [Calls -> Message] /\ \A d \in Calls : Fits(waiting[d], ran[d])
    BY <1>1, <1>3, WaitingFits
  <2> HIDE DEF waiting
  <2>3. Aborted(waiting, transport) \in [Calls -> Message]
        /\ \A d \in Calls : Fits(Aborted(waiting, transport)[d], ran[d])
    BY <2>2, AbortedFits
  <2> QED  BY <1>1, <2>1, <2>2, <2>3, ManyMove
<1> QED  BY <1>2, <1>3

LEMMA WaitersFit ==
  ASSUME ReplayInv
  PROVE  /\ WaitersFail \in [Calls -> Message]
         /\ \A c \in Calls : Fits(WaitersFail[c], ran[c])
<1>1. "failed" \in Ended  BY DEF Ended
<1>2. \A c \in Calls : Over(c, "failed") \in Message /\ Fits(Over(c, "failed"), ran[c])
  BY <1>1, OverFits
<1>3. \A c \in Calls : WaitersFail[c] \in {Over(c, "failed"), call[c]}  BY DEF WaitersFail
<1>4. \A c \in Calls : WaitersFail[c] \in Message /\ Fits(WaitersFail[c], ran[c])
  BY <1>2, <1>3 DEF ReplayInv
<1> QED  BY <1>4 DEF WaitersFail

LEMMA RenewalFailsFits == ReplayInv /\ RenewalFails => ReplayInv'
BY WaitersFit, ManyMove DEF RenewalFails

LEMMA CloseFits == ReplayInv /\ Close => ReplayInv'
<1> SUFFICES ASSUME ReplayInv, Close  PROVE ReplayInv'  OBVIOUS
<1>1. ran' = ran /\ (call' = Aborted(WaitersFail, transport) \/ call' = Aborted(call, transport))
  BY DEF Close
<1>2. call \in [Calls -> Message] /\ \A c \in Calls : Fits(call[c], ran[c])  BY DEF ReplayInv
<1>3. Aborted(call, transport) \in [Calls -> Message]
      /\ \A c \in Calls : Fits(Aborted(call, transport)[c], ran[c])
  BY <1>2, AbortedFits
<1>4. Aborted(WaitersFail, transport) \in [Calls -> Message]
      /\ \A c \in Calls : Fits(Aborted(WaitersFail, transport)[c], ran[c])
  BY WaitersFit, AbortedFits
<1> QED  BY <1>1, <1>3, <1>4, ManyMove

LEMMA RenewalDoneFits == ReplayInv /\ StreamInv /\ RenewalDone => ReplayInv'
<1> SUFFICES ASSUME ReplayInv, StreamInv, RenewalDone  PROVE ReplayInv'  OBVIOUS
<1> DEFINE t == IF transport = 0 /\ Resumed # {} THEN made + 1 ELSE transport
           r(c) == [call[c] EXCEPT !.at = "headers", !.t = t, !.again = TRUE, !.nonced = FALSE]
           f == [c \in Calls |-> IF c \in Resumed THEN r(c)
                                 ELSE IF call[c].at = "waiting" THEN Over(c, "failed") ELSE call[c]]
<1>1. ran' = ran /\ call' = f  BY DEF RenewalDone
<1>2. t \in Nat  BY Bound DEF StreamInv, Numbered
<1>3. ASSUME NEW c \in Calls  PROVE f[c] \in Message /\ Fits(f[c], ran[c])
  <2>1. CASE c \in Resumed
    <3>1. call[c].at = "waiting" /\ call[c].kind = "idempotent"  BY <2>1 DEF Resumed
    <3>2. r(c) \in Message /\ r(c).at = "headers" /\ r(c).again = TRUE /\ r(c).kind = "idempotent"
      BY <1>2, <3>1, StillRan DEF Message, Places
    <3>3. f[c] = r(c)  BY <2>1
    <3> HIDE DEF r, f
    <3>4. Fits(r(c), ran[c])  BY <3>1, <3>2, StillRan DEF Fits, Ended
    <3> QED  BY <3>2, <3>3, <3>4
  <2>2. CASE c \notin Resumed
    <3>1. f[c] \in {Over(c, "failed"), call[c]}  BY <2>2
    <3>2. "failed" \in Ended  BY DEF Ended
    <3> HIDE DEF f
    <3> QED  BY <3>1, <3>2, OverFits, StillRan
  <2> QED  BY <2>1, <2>2
<1>4. f \in [Calls -> Message]  BY <1>3
<1> HIDE DEF f
<1> QED  BY <1>1, <1>3, <1>4, ManyMove

LEMMA ReplayNext == ReplayInv /\ StreamInv /\ [Next]_vars => ReplayInv'
<1> SUFFICES ASSUME ReplayInv, StreamInv, [Next]_vars  PROVE ReplayInv'  OBVIOUS
<1>1. ASSUME UNCHANGED <<call, ran>>  PROVE ReplayInv'  BY <1>1 DEF ReplayInv
<1>2. CASE UNCHANGED vars  BY <1>1, <1>2 DEF vars
<1>3. CASE Forget \/ RenewalClosed \/ ServeInitialize \/ Initialized \/ Notified
  BY <1>1, <1>3 DEF Forget, RenewalClosed, ServeInitialize, Initialized, Notified
<1>4. CASE \E t \in Transports : StreamDrops(t) \/ StreamRetries(t)
  BY <1>1, <1>4 DEF StreamDrops, StreamRetries
<1>5. CASE \E c \in Calls : \/ Start(c) \/ Send(c) \/ Serve(c) \/ HandOutNonce(c)
                            \/ ServeThenForget(c) \/ Lose(c) \/ Receive(c) \/ StreamEnds(c)
                            \/ Expired(c)
  BY <1>5, StartFits, SendFits, ServedFits, NonceFits, LoseFits, ReceiveFits, ExpiredFits
<1>6. CASE RenewalFails \/ RenewalDone \/ Close
  BY <1>6, RenewalFailsFits, RenewalDoneFits, CloseFits
<1> QED  BY <1>2, <1>3, <1>4, <1>5, <1>6 DEF Next

\* A tool call and a notification reach the server once at most and a request
\* that may be repeated twice, however many sessions are lost and renewed and
\* whatever is answered late (request in connection.ts, post in
\* streamable-http.ts).
THEOREM SentOnceOrTwice == Spec => []ReplaysAreIdempotent
<1>1. Init => StreamInv /\ ReplayInv  BY StreamAtFirst, ReplayAtFirst
<1>2. (StreamInv /\ ReplayInv) /\ [Next]_vars => (StreamInv /\ ReplayInv)'
  BY StreamNext, ReplayNext
<1>3. StreamInv /\ ReplayInv => ReplaysAreIdempotent
  BY DEF ReplayInv, Fits, ReplaysAreIdempotent
<1> QED  BY <1>1, <1>2, <1>3, PTL DEF Spec


(***************************************************************************)
(* Renewals and losses                                                     *)
(***************************************************************************)

\* The server has disowned the session that such a message names.
Disowned == {"404", "400", "body"}

\* A message names transports that were opened and sessions they held.
Addressed == \A c \in Calls : call[c].t \in 0 .. made /\ call[c].sid \in 0 .. made

\* What a step may do to a message: it moves to the transport in use, takes up
\* a session some transport holds, or is disowned with the session it names.
Moved(c) ==
  /\ call'[c].t \in {0, call[c].t, transport'}
  /\ call'[c].sid \in {0, call[c].sid} \cup holds
  /\ call'[c].at \in Disowned =>
       call'[c].sid = call[c].sid /\ (call[c].at \in Disowned \/ call[c].sid \notin live')

LEMMA OverMoves == ASSUME NEW c, NEW at \in Ended, call'[c] = Over(c, at)  PROVE Moved(c)
<1>1. call'[c].t = 0 /\ call'[c].sid = 0 /\ call'[c].at = at  BY DEF Over, At
<1> QED  BY <1>1 DEF Moved, Disowned, Ended

LEMMA StaysMoved == ASSUME NEW c, call'[c] = call[c]  PROVE Moved(c)
BY DEF Moved

\* Only the message c moves, to r.
LEMMA OneMoved ==
  ASSUME ReplayInv, NEW c \in Calls, NEW r, call' = [call EXCEPT ![c] = r],
         r.t \in {0, call[c].t, transport'}, r.sid \in {0, call[c].sid} \cup holds,
         r.at \in Disowned =>
           r.sid = call[c].sid /\ (call[c].at \in Disowned \/ call[c].sid \notin live')
  PROVE  \A d \in Calls : Moved(d)
<1>1. call'[c] = r /\ \A d \in Calls : d # c => call'[d] = call[d]  BY DEF ReplayInv
<1>2. Moved(c)  BY <1>1 DEF Moved
<1> QED  BY <1>1, <1>2, StaysMoved

LEMMA CallMoves ==
  ASSUME ReplayInv, NEW c \in Calls,
         \/ Start(c) \/ Send(c) \/ Serve(c) \/ HandOutNonce(c) \/ ServeThenForget(c)
         \/ Lose(c) \/ Receive(c) \/ StreamEnds(c) \/ Expired(c)
  PROVE  \A d \in Calls : Moved(d)
<1>1. ASSUME NEW at \in Ended, call' = [call EXCEPT ![c] = Over(c, at)]
      PROVE  \A d \in Calls : Moved(d)
  <2>1. call'[c] = Over(c, at) /\ \A d \in Calls : d # c => call'[d] = call[d]
    BY <1>1 DEF ReplayInv
  <2> QED  BY <2>1, OverMoves, StaysMoved
<1>2. "done" \in Ended /\ "failed" \in Ended  BY DEF Ended
<1>3. call[c] \in Message  BY DEF ReplayInv
<1>4. CASE Start(c)
  <2> DEFINE r == [call[c] EXCEPT !.at = "headers", !.t = transport']
  <2>1. call' = [call EXCEPT ![c] = r]  BY <1>4, StillRan DEF Start, ReplayInv
  <2>2. r.at = "headers" /\ r.t = transport' /\ r.sid = call[c].sid  BY <1>3 DEF Message
  <2> HIDE DEF r
  <2> QED  BY <2>1, <2>2, OneMoved DEF Disowned
<1>5. CASE Send(c)
  <2> DEFINE r == [call[c] EXCEPT !.at = "wire", !.sid = IF call[c].t \in holds THEN call[c].t ELSE 0]
  <2>1. call' = [call EXCEPT ![c] = Over(c, "failed")] \/ call' = [call EXCEPT ![c] = r]
    BY <1>5 DEF Send, ReplayInv
  <2>2. r.at = "wire" /\ r.t = call[c].t /\ r.sid \in {0} \cup holds  BY <1>3 DEF Message
  <2> HIDE DEF r
  <2>3. CASE call' = [call EXCEPT ![c] = r]  BY <2>2, <2>3, OneMoved DEF Disowned
  <2> QED  BY <1>1, <1>2, <2>1, <2>3
<1>6. CASE Serve(c) \/ ServeThenForget(c)
  <2>1. PICK at \in {"ok", "head", "400", "404"} :
          /\ call' = [call EXCEPT ![c].at = at]
          /\ at \in {"400", "404"} => call[c].sid \notin live'
    BY <1>6, Refusals DEF Serve, ServeThenForget
  <2> DEFINE r == [call[c] EXCEPT !.at = at]
  <2>2. call' = [call EXCEPT ![c] = r]  BY <2>1 DEF ReplayInv
  <2>3. r.at = at /\ r.t = call[c].t /\ r.sid = call[c].sid  BY <1>3 DEF Message
  <2> HIDE DEF r
  <2>4. r.at \in Disowned => call[c].sid \notin live'  BY <2>1, <2>3 DEF Disowned
  <2> QED  BY <2>2, <2>3, <2>4, OneMoved
<1>7. CASE HandOutNonce(c)
  <2> DEFINE r == [call[c] EXCEPT !.at = "nonce"]
  <2>1. call' = [call EXCEPT ![c] = r]  BY <1>7 DEF HandOutNonce, ReplayInv
  <2>2. r.at = "nonce" /\ r.t = call[c].t /\ r.sid = call[c].sid  BY <1>3 DEF Message
  <2> HIDE DEF r
  <2> QED  BY <2>1, <2>2, OneMoved DEF Disowned
<1>8. CASE Lose(c) \/ StreamEnds(c)
  <2>1. PICK at \in Ended : call' = [call EXCEPT ![c] = Over(c, at)]
    BY <1>8 DEF Lose, StreamEnds, Ended
  <2> QED  BY <1>1, <2>1
<1>9. CASE Receive(c)
  <2> DEFINE streaming == [call[c] EXCEPT !.at = "streaming"]
             nonced == [call[c] EXCEPT !.at = "headers", !.nonced = TRUE]
             body == [call[c] EXCEPT !.at = "body"]
  <2>1. PICK got \in {
           [of |-> "ok", then |-> Over(c, "done")],
           [of |-> "head", then |-> streaming],
           [of |-> "nonce", then |-> IF call[c].nonced THEN Over(c, "failed") ELSE nonced],
           [of |-> "400", then |-> IF call[c].t \in holds THEN body ELSE Over(c, "failed")],
           [of |-> "body", then |-> Over(c, "failed")],
           [of |-> "404", then |-> Over(c, "failed")]} :
          call[c].at = got.of /\ call' = [call EXCEPT ![c] = got.then]
    BY <1>9, Zenon DEF Receive
  <2>2. streaming.at = "streaming" /\ nonced.at = "headers" /\ body.at = "body"
        /\ \A r \in {streaming, nonced, body} : r.t = call[c].t /\ r.sid = call[c].sid
    BY <1>3 DEF Message
  <2> HIDE DEF streaming, nonced, body
  <2>3. \/ got.then = Over(c, "done") \/ got.then = Over(c, "failed")
        \/ got.then \in {streaming, nonced}
        \/ got.of = "400" /\ got.then = body
    BY <2>1
  <2>4. CASE got.then \in {streaming, nonced} \/ (got.of = "400" /\ got.then = body)
    <3>1. got.then.at \in Disowned => call[c].at \in Disowned
      BY <2>1, <2>2, <2>4 DEF Disowned
    <3>2. got.then.t = call[c].t /\ got.then.sid = call[c].sid  BY <2>2, <2>4
    <3> QED  BY <2>1, <3>1, <3>2, OneMoved
  <2> QED  BY <1>1, <1>2, <2>1, <2>3, <2>4
<1>10. CASE Expired(c)
  <2>1. CASE call' = [call EXCEPT ![c] = Over(c, "failed")]  BY <1>1, <1>2, <2>1
  <2>2. CASE call' # [call EXCEPT ![c] = Over(c, "failed")]
    <3> DEFINE r == [call[c] EXCEPT !.at = "waiting"]
               waiting == [call EXCEPT ![c] = r]
    <3>1. waiting = [call EXCEPT ![c].at = "waiting"]  BY DEF ReplayInv
    <3>2. call' = waiting \/ call' = Aborted(waiting, transport)
      BY <1>10, <2>2, <3>1 DEF Expired
    <3>3. r.at = "waiting" /\ r.t = call[c].t /\ r.sid = call[c].sid  BY <1>3 DEF Message
    <3> HIDE DEF r
    <3>4. waiting[c] = r /\ \A d \in Calls : d # c => waiting[d] = call[d]  BY DEF ReplayInv
    <3> HIDE DEF waiting
    <3>5. \A d \in Calls : call'[d] \in {waiting[d], Over(d, "failed")}
      BY <3>2 DEF Aborted
    <3>6. \A d \in Calls : call'[d] = call[d] \/ call'[d] = Over(d, "failed") \/ (d = c /\ call'[d] = r)
      BY <3>4, <3>5
    <3>7. call'[c] = r => Moved(c)  BY <3>3 DEF Moved, Disowned
    <3> QED  BY <1>2, <3>6, <3>7, OverMoves, StaysMoved
  <2> QED  BY <2>1, <2>2
<1> QED  BY <1>4, <1>5, <1>6, <1>7, <1>8, <1>9, <1>10

LEMMA AllMove == ReplayInv /\ [Next]_vars => \A c \in Calls : Moved(c)
<1> SUFFICES ASSUME ReplayInv, [Next]_vars  PROVE \A c \in Calls : Moved(c)  OBVIOUS
<1>1. "failed" \in Ended  BY DEF Ended
<1>2. CASE call' = call  BY <1>2, StaysMoved
<1>3. CASE \E c \in Calls : \/ Start(c) \/ Send(c) \/ Serve(c) \/ HandOutNonce(c)
                            \/ ServeThenForget(c) \/ Lose(c) \/ Receive(c) \/ StreamEnds(c)
                            \/ Expired(c)
  BY <1>3, CallMoves
<1>4. CASE RenewalFails \/ Close
  <2>1. call' \in {WaitersFail, Aborted(WaitersFail, transport), Aborted(call, transport)}
    BY <1>4 DEF RenewalFails, Close
  <2>2. \A c \in Calls : WaitersFail[c] \in {call[c], Over(c, "failed")}  BY DEF WaitersFail
  <2>3. \A c \in Calls : call'[c] \in {call[c], WaitersFail[c], Over(c, "failed")}
    BY <2>1 DEF Aborted
  <2> QED  BY <1>1, <2>2, <2>3, OverMoves, StaysMoved
<1>5. CASE RenewalDone
  <2> DEFINE r(c) == [call[c] EXCEPT !.at = "headers", !.t = transport', !.again = TRUE,
                                     !.nonced = FALSE]
  <2>1. \A c \in Calls : call'[c] \in {call[c], Over(c, "failed"), r(c)}
    BY <1>5 DEF RenewalDone
  <2>2. ASSUME NEW c \in Calls, call'[c] = r(c)  PROVE Moved(c)
    <3>1. call[c] \in Message  BY DEF ReplayInv
    <3>2. r(c).at = "headers" /\ r(c).t = transport' /\ r(c).sid = call[c].sid
      BY <3>1 DEF Message
    <3> QED  BY <2>2, <3>2 DEF Moved, Disowned
  <2> HIDE DEF r
  <2> QED  BY <1>1, <2>1, <2>2, OverMoves, StaysMoved
<1> QED
  BY <1>2, <1>3, <1>4, <1>5
  DEF Next, vars, Forget, RenewalClosed, ServeInitialize, Initialized, Notified, StreamDrops,
      StreamRetries

\* Until close() the transport in use is the newest one, which alone has a
\* session, and no message names that session before the server has issued it,
\* nor is disowned with it while the server holds it.
Unreleased ==
  ~released =>
    /\ transport = made /\ made # 0 /\ holds \subseteq {made}
    /\ renewal.at # "none" => renewal.t = made
    /\ renewal.at = "initialize" =>
         made \notin holds /\ made \notin live /\ \A c \in Calls : call[c].sid # made
    /\ \A c \in Calls : call[c].at \in Disowned /\ call[c].sid = made => made \notin live

\* The server has issued a session on the newest transport.
Issued ==
  \/ made \in holds \/ renewal.at \in {"answered", "notify", "stream"}
  \/ \E c \in Calls : call[c].sid = made

\* A transport is opened for a session that was lost, which the server holds
\* no more while the one it was lost on is being closed or is still the newest.
WithinLosses ==
  ~released /\ ~late =>
    /\ made <= 1 + losses
    /\ renewal.at = "closing" => made <= losses
    /\ made \notin live /\ Issued => made <= losses

\* close() leaves no session and no stream, and a renewal it does not abort has
\* lost its transport.
GivenUp ==
  released /\ ~late =>
    /\ holds = {} /\ \A t \in Transports : stream[t] = "none"
    /\ renewal.at = "none" \/ (renewal.at = "stream" /\ renewal.t \in closed)

LossInv == Addressed /\ Unreleased /\ WithinLosses /\ GivenUp

LEMMA LossAtFirst == Init => LossInv
<1> SUFFICES ASSUME Init  PROVE LossInv  OBVIOUS
<1>1. \A c \in Calls : call[c].t = 0 /\ call[c].sid = 0 /\ call[c].at = "idle"
  <2>1. PICK f \in [Calls -> {At("idle", k) : k \in Kinds}] : call = f  BY DEF Init
  <2> QED  BY <2>1 DEF At
<1>2. transport = 1 /\ made = 1 /\ holds = {} /\ live = {} /\ losses = 0 /\ released = FALSE
      /\ renewal.at = "initialize" /\ renewal.t = 1
  BY DEF Init
<1> QED  BY <1>1, <1>2 DEF LossInv, Addressed, Unreleased, WithinLosses, Issued, GivenUp, Disowned

LEMMA TransportsOnlyGrow == StreamInv /\ [Next]_vars => made' \in {made, made + 1} /\ made <= made'
<1> SUFFICES ASSUME StreamInv, [Next]_vars  PROVE made' \in {made, made + 1} /\ made <= made'
  OBVIOUS
<1>1. made \in Nat /\ transport \in 0 .. made  BY Bound DEF StreamInv, Numbered
<1> SUFFICES made' \in {made, made + 1}  BY <1>1
<1>2. CASE UNCHANGED vars \/ Forget \/ Close  BY <1>2 DEF vars, Forget, Close
<1>3. CASE RenewalClosed \/ ServeInitialize \/ Initialized \/ Notified \/ RenewalFails
  BY <1>3 DEF RenewalClosed, ServeInitialize, Initialized, Notified, RenewalFails
<1>4. CASE RenewalDone
  <2>1. PICK t \in {transport, made + 1} : made' = (IF t > made THEN t ELSE made)
    BY <1>4 DEF RenewalDone
  <2> QED  BY <1>1, <2>1
<1>5. CASE \E t \in Transports : StreamDrops(t) \/ StreamRetries(t)
  BY <1>5 DEF StreamDrops, StreamRetries
<1>6. ASSUME NEW c \in Calls,
             \/ Start(c) \/ Send(c) \/ Serve(c) \/ HandOutNonce(c) \/ ServeThenForget(c)
             \/ Lose(c) \/ Receive(c) \/ StreamEnds(c) \/ Expired(c)
      PROVE  made' \in {made, made + 1}
  <2>1. CASE Expired(c)  BY <2>1 DEF Expired
  <2>2. CASE Start(c)  BY <2>2 DEF Start
  <2> QED
    BY <1>6, <2>1, <2>2
    DEF Send, Serve, HandOutNonce, ServeThenForget, Lose, Receive, StreamEnds
<1> QED  BY <1>2, <1>3, <1>4, <1>5, <1>6 DEF Next

LEMMA AddressedKept ==
  ASSUME StreamInv, StreamInv', Addressed, made <= made', \A c \in Calls : Moved(c)
  PROVE  Addressed'
<1>1. made \in Nat /\ made' \in Nat /\ transport' \in 0 .. made' /\ 0 \in 0 .. made
      /\ \A n \in holds : n \in 0 .. made
  BY Bound DEF StreamInv, Numbered
<1>2. ASSUME NEW c \in Calls  PROVE call'[c].t \in 0 .. made' /\ call'[c].sid \in 0 .. made'
  <2>1. call[c].t \in 0 .. made /\ call[c].sid \in 0 .. made  BY DEF Addressed
  <2>2. call'[c].t \in {0, call[c].t, transport'} /\ call'[c].sid \in {0, call[c].sid} \cup holds
    BY DEF Moved
  <2>3. call'[c].sid \in 0 .. made  BY <1>1, <2>1, <2>2
  <2> QED  BY <1>1, <2>1, <2>2, <2>3
<1> QED  BY <1>2 DEF Addressed

\* Messages come to name the newest session, or to be disowned with it, only
\* when it was issued, and while the server does not hold it.
LEMMA NamedBefore ==
  ASSUME StreamInv, LossInv, ~released, \A c \in Calls : Moved(c)
  PROVE  /\ \A c \in Calls : call'[c].sid = made => call[c].sid = made \/ made \in holds
         /\ \A c \in Calls : call'[c].at \in Disowned /\ call'[c].sid = made /\ live' \subseteq live
                               => made \notin live'
<1>1. made # 0  BY DEF LossInv, Unreleased
<1>2. \A c \in Calls : call'[c].sid \in {0, call[c].sid} \cup holds  BY DEF Moved
<1>3. holds \subseteq {made}  BY DEF LossInv, Unreleased
<1>4. ASSUME NEW c \in Calls, call'[c].at \in Disowned, call'[c].sid = made, live' \subseteq live
      PROVE  made \notin live'
  <2>1. call[c].sid = made /\ (call[c].at \in Disowned \/ made \notin live')  BY <1>4 DEF Moved
  <2> QED  BY <1>4, <2>1 DEF LossInv, Unreleased
<1> QED  BY <1>1, <1>2, <1>3, <1>4

\* A session the server drops is a loss.
LEMMA QuietStep ==
  ASSUME StreamInv, StreamInv', LossInv, \A c \in Calls : Moved(c), made <= made',
         UNCHANGED <<transport, made, holds, closed, renewal, released, late>>,
         \/ live' = live /\ losses' = losses
         \/ live' \subseteq live /\ losses' = losses + 1,
         \A t \in Transports : stream[t] = "none" => stream'[t] = "none"
  PROVE  LossInv'
<1>1. Addressed'  BY AddressedKept DEF LossInv
<1>2. made \in Nat /\ losses \in Nat  BY Bound DEF StreamInv, Numbered
<1>3. live' \subseteq live  OBVIOUS
<1>4. Unreleased'
  <2> SUFFICES ASSUME ~released  PROVE Unreleased'  BY DEF Unreleased
  <2>1. /\ \A c \in Calls : call'[c].sid = made => call[c].sid = made \/ made \in holds
        /\ \A c \in Calls : call'[c].at \in Disowned /\ call'[c].sid = made => made \notin live'
    BY <1>3, NamedBefore
  <2> QED  BY <1>3, <2>1 DEF LossInv, Unreleased
<1>5. WithinLosses'
  <2> SUFFICES ASSUME ~released, ~late  PROVE WithinLosses'  BY DEF WithinLosses
  <2>1. \A c \in Calls : call'[c].sid = made => call[c].sid = made \/ made \in holds
    BY NamedBefore
  <2>2. Issued' => Issued  BY <2>1 DEF Issued
  <2> QED  BY <1>2, <2>2 DEF LossInv, WithinLosses
<1>6. GivenUp'  BY DEF LossInv, GivenUp
<1> QED  BY <1>1, <1>4, <1>5, <1>6 DEF LossInv

LEMMA StartWithin ==
  ASSUME StreamInv, StreamInv', LossInv, \A c \in Calls : Moved(c), made <= made',
         NEW d \in Calls, Start(d)
  PROVE  LossInv'
<1>1. UNCHANGED <<holds, closed, stream, renewal, live, losses, released, late>>
      /\ (transport # 0 => UNCHANGED <<transport, made>>)
  BY DEF Start
<1>2. CASE ~released
  <2>1. transport # 0  BY <1>2 DEF LossInv, Unreleased
  <2> QED  BY <1>1, <2>1, QuietStep
<1>3. CASE released
  <2>1. Addressed'  BY AddressedKept DEF LossInv
  <2>2. Unreleased' /\ WithinLosses' /\ GivenUp'
    BY <1>1, <1>3 DEF LossInv, Unreleased, WithinLosses, GivenUp
  <2> QED  BY <2>1, <2>2 DEF LossInv
<1> QED  BY <1>2, <1>3

\* A transport just opened has no session that any message could name.
LEMMA FreshTransport ==
  ASSUME StreamInv, LossInv, \A c \in Calls : Moved(c), made' = made + 1,
         NEW S, S \subseteq 1 .. made
  PROVE  made' \notin S /\ \A c \in Calls : call'[c].sid # made'
<1>1. made \in Nat /\ 0 \in 0 .. made /\ \A n \in holds : n \in 0 .. made
  BY Bound DEF StreamInv, Numbered
<1>2. made' \notin 1 .. made /\ made' \notin 0 .. made  BY <1>1
<1>3. \A c \in Calls : call'[c].sid \in {0, call[c].sid} \cup holds /\ call[c].sid \in 0 .. made
  BY DEF Moved, LossInv, Addressed
<1>4. \A c \in Calls : call'[c].sid \in 0 .. made  BY <1>1, <1>3
<1> QED  BY <1>2, <1>4

\* A renewal by the caller whose session is lost is within the losses, and one
\* by a caller that names another session is late.
LEMMA ExpiredWithin ==
  ASSUME StreamInv, StreamInv', LossInv, \A c \in Calls : Moved(c), made <= made',
         NEW d \in Calls, Expired(d)
  PROVE  LossInv'
<1>1. Addressed'  BY AddressedKept DEF LossInv
<1>2. /\ holds' = holds \ {call[d].t} /\ UNCHANGED <<live, losses, released>>
      /\ call[d].at \in Disowned /\ (call[d].at = "body" \/ call[d].t \in holds)
  BY DEF Expired, Disowned
<1>3. made \in Nat /\ losses \in Nat /\ made \in 0 .. made  BY Bound DEF StreamInv, Numbered
<1>4. CASE UNCHANGED <<transport, made, closed, stream, renewal, late>>
  <2>1. Unreleased'
    <3> SUFFICES ASSUME ~released  PROVE Unreleased'  BY <1>2 DEF Unreleased
    <3>1. /\ \A c \in Calls : call'[c].sid = made => call[c].sid = made \/ made \in holds
          /\ \A c \in Calls : call'[c].at \in Disowned /\ call'[c].sid = made => made \notin live'
      BY <1>2, NamedBefore
    <3> QED  BY <1>2, <1>4, <3>1 DEF LossInv, Unreleased
  <2>2. WithinLosses'
    <3> SUFFICES ASSUME ~released, ~late  PROVE WithinLosses'  BY <1>2, <1>4 DEF WithinLosses
    <3>1. \A c \in Calls : call'[c].sid = made => call[c].sid = made \/ made \in holds
      BY NamedBefore
    <3>2. Issued' => Issued  BY <1>2, <1>4, <3>1 DEF Issued
    <3> QED  BY <1>2, <1>3, <1>4, <3>2 DEF LossInv, WithinLosses
  <2>3. GivenUp'  BY <1>2, <1>4 DEF LossInv, GivenUp
  <2> QED  BY <1>1, <2>1, <2>2, <2>3 DEF LossInv
<1>5. CASE ~UNCHANGED <<transport, made, closed, stream, renewal, late>>
  <2>1. /\ renewal.at = "none"
        /\ late' = (late \/ released \/ (renewal.at = "none" /\ transport # call[d].sid))
        /\ IF transport \in holds'
           THEN /\ renewal' = [at |-> "closing", t |-> transport, first |-> FALSE]
                /\ UNCHANGED <<transport, made>>
           ELSE /\ made' = made + 1 /\ transport' = made + 1
                /\ renewal' = [at |-> "initialize", t |-> made + 1, first |-> FALSE]
    BY <1>5 DEF Expired, Shared
  <2>2. GivenUp'  BY <1>2, <2>1 DEF GivenUp
  <2>3. ~released /\ ~late' => made <= losses
    <3> SUFFICES ASSUME ~released, ~late'  PROVE made <= losses  OBVIOUS
    <3>1. ~late /\ call[d].sid = made  BY <2>1 DEF LossInv, Unreleased
    <3>2. Issued /\ made \notin live  BY <1>2, <3>1 DEF Issued, LossInv, Unreleased
    <3> QED  BY <3>1, <3>2 DEF LossInv, WithinLosses
  <2>4. CASE transport \in holds'
    <3>1. renewal'.at = "closing" /\ renewal'.t = transport /\ UNCHANGED <<transport, made>>
      BY <2>1, <2>4
    <3>2. Unreleased'
      <4> SUFFICES ASSUME ~released  PROVE Unreleased'  BY <1>2 DEF Unreleased
      <4>1. /\ \A c \in Calls : call'[c].sid = made => call[c].sid = made \/ made \in holds
            /\ \A c \in Calls : call'[c].at \in Disowned /\ call'[c].sid = made => made \notin live'
        BY <1>2, NamedBefore
      <4> QED  BY <1>2, <3>1, <4>1 DEF LossInv, Unreleased
    <3>3. WithinLosses'  BY <1>2, <1>3, <2>3, <3>1 DEF WithinLosses
    <3> QED  BY <1>1, <2>2, <3>2, <3>3 DEF LossInv
  <2>5. CASE transport \notin holds'
    <3>1. renewal'.at = "initialize" /\ renewal'.t = made' /\ made' = made + 1 /\ transport' = made'
      BY <2>1, <2>5
    <3>2. made' \notin live' /\ made' \notin holds' /\ \A c \in Calls : call'[c].sid # made'
      BY <1>2, <3>1, FreshTransport DEF StreamInv, Numbered
    <3>3. Unreleased'
      <4> SUFFICES ASSUME ~released  PROVE Unreleased'  BY <1>2 DEF Unreleased
      <4>1. holds' = {}  BY <1>2, <2>5 DEF LossInv, Unreleased
      <4>2. made' # 0  BY <1>3, <3>1
      <4> QED  BY <3>1, <3>2, <4>1, <4>2 DEF Unreleased
    <3>4. WithinLosses'
      <4>1. ~Issued'  BY <3>1, <3>2 DEF Issued
      <4> QED  BY <1>2, <1>3, <2>3, <3>1, <4>1 DEF WithinLosses
    <3> QED  BY <1>1, <2>2, <3>3, <3>4 DEF LossInv
  <2> QED  BY <2>4, <2>5
<1> QED  BY <1>4, <1>5

\* The old session is closed for the new one: the server holds no session and
\* no message names one on the transport that is opened.
LEMMA RenewalClosedWithin ==
  ASSUME StreamInv, StreamInv', LossInv, \A c \in Calls : Moved(c), made <= made', RenewalClosed
  PROVE  LossInv'
<1>1. /\ renewal.at = "closing" /\ live' \subseteq live /\ holds' = holds \ {renewal.t}
      /\ made' = made + 1 /\ transport' = made' /\ renewal'.at = "initialize" /\ renewal'.t = made'
      /\ UNCHANGED <<losses, released, late>>
  BY DEF RenewalClosed, Deleted, StreamInv, Numbered, Renewal
<1>2. Addressed'  BY AddressedKept DEF LossInv
<1>3. made \in Nat /\ losses \in Nat  BY Bound DEF StreamInv, Numbered
<1>4. made' \notin live' /\ \A c \in Calls : call'[c].sid # made'
  BY <1>1, FreshTransport DEF StreamInv, Numbered
<1>5. Unreleased'
  <2> SUFFICES ASSUME ~released  PROVE Unreleased'  BY <1>1 DEF Unreleased
  <2>1. holds' = {}  BY <1>1 DEF LossInv, Unreleased
  <2>2. made' # 0  BY <1>1, <1>3
  <2> QED  BY <1>1, <1>4, <2>1, <2>2 DEF Unreleased
<1>6. WithinLosses'
  <2> SUFFICES ASSUME ~released, ~late  PROVE WithinLosses'  BY <1>1 DEF WithinLosses
  <2>1. made' \notin holds'  BY <1>1, <1>5 DEF Unreleased
  <2>2. ~Issued'  BY <1>1, <1>4, <2>1 DEF Issued
  <2> QED  BY <1>1, <1>3, <2>2 DEF LossInv, WithinLosses
<1>7. GivenUp'  BY <1>1 DEF LossInv, GivenUp
<1> QED  BY <1>2, <1>5, <1>6, <1>7 DEF LossInv

LEMMA InitializeWithin ==
  ASSUME StreamInv, StreamInv', LossInv, \A c \in Calls : Moved(c), made <= made',
         ServeInitialize \/ Initialized \/ Notified
  PROVE  LossInv'
<1>1. /\ renewal.at \in {"initialize", "answered", "notify"}
      /\ renewal'.at \in {"answered", "notify", "stream"} /\ renewal'.t = renewal.t
      /\ UNCHANGED <<transport, made, losses, released, late>>
      /\ holds' \subseteq holds \cup {renewal.t}
      /\ live' = live \/ (renewal.at = "initialize" /\ live' = live \cup {renewal.t})
  BY DEF ServeInitialize, Initialized, Notified, StreamInv, Numbered, Renewal
<1>2. Addressed'  BY AddressedKept DEF LossInv
<1>3. released => late  BY <1>1 DEF LossInv, GivenUp
<1>4. Unreleased'
  <2> SUFFICES ASSUME ~released  PROVE Unreleased'  BY <1>1 DEF Unreleased
  <2>1. renewal.t = made  BY <1>1 DEF LossInv, Unreleased
  <2>2. \A c \in Calls : call'[c].sid = made => call[c].sid = made \/ made \in holds
    BY NamedBefore
  <2>3. CASE renewal.at = "initialize"
    <3>1. \A c \in Calls : call'[c].sid # made'  BY <1>1, <2>2, <2>3 DEF LossInv, Unreleased
    <3> QED  BY <1>1, <2>1, <3>1 DEF LossInv, Unreleased
  <2>4. CASE renewal.at # "initialize"
    <3>1. \A c \in Calls : call'[c].at \in Disowned /\ call'[c].sid = made => made \notin live'
      BY <1>1, <2>4, NamedBefore
    <3> QED  BY <1>1, <2>1, <3>1 DEF LossInv, Unreleased
  <2> QED  BY <2>3, <2>4
<1>5. WithinLosses'
  <2> SUFFICES ASSUME ~released, ~late  PROVE WithinLosses'  BY <1>1 DEF WithinLosses
  <2>1. renewal.t = made  BY <1>1 DEF LossInv, Unreleased
  <2>2. made \notin live' => renewal.at # "initialize" /\ made \notin live
    <3>1. renewal.at = "initialize" => ServeInitialize  BY DEF Initialized, Notified
    <3>2. renewal.at = "initialize" => made \in live'  BY <2>1, <3>1 DEF ServeInitialize
    <3> QED  BY <1>1, <3>2
  <2>3. made \notin live' => Issued  BY <1>1, <2>2 DEF Issued
  <2> QED  BY <1>1, <2>2, <2>3 DEF LossInv, WithinLosses
<1>6. GivenUp'  BY <1>1, <1>3 DEF GivenUp
<1> QED  BY <1>2, <1>4, <1>5, <1>6 DEF LossInv

LEMMA RenewalFailsWithin ==
  ASSUME StreamInv, StreamInv', LossInv, \A c \in Calls : Moved(c), made <= made', RenewalFails
  PROVE  LossInv'
<1>1. /\ renewal.at \in {"initialize", "answered", "notify", "stream"} /\ renewal'.at = "none"
      /\ UNCHANGED <<made, stream, losses, late>>
  BY NoRenewalTyped DEF RenewalFails
<1>2. Addressed'  BY AddressedKept DEF LossInv
<1>4. CASE renewal.first
  <2>1. released' /\ holds' = {}  BY <1>4 DEF RenewalFails
  <2>2. \A t \in Transports : stream'[t] = "none"  BY <1>1 DEF StreamInv, Renewing
  <2>3. Unreleased' /\ WithinLosses' /\ GivenUp'
    BY <1>1, <2>1, <2>2 DEF Unreleased, WithinLosses, GivenUp
  <2> QED  BY <1>2, <2>3 DEF LossInv
<1>5. CASE ~renewal.first
  <2>1. UNCHANGED <<released, transport, live>> /\ holds' \subseteq holds
    BY <1>5 DEF RenewalFails, HeldAfterFailure
  <2>2. Unreleased'
    <3> SUFFICES ASSUME ~released  PROVE Unreleased'  BY <2>1 DEF Unreleased
    <3>1. \A c \in Calls : call'[c].at \in Disowned /\ call'[c].sid = made => made \notin live'
      BY <2>1, NamedBefore
    <3> QED  BY <1>1, <2>1, <3>1 DEF LossInv, Unreleased
  <2>3. WithinLosses'
    <3> SUFFICES ASSUME ~released, ~late  PROVE WithinLosses'  BY <1>1, <2>1 DEF WithinLosses
    <3>1. \A c \in Calls : call'[c].sid = made => call[c].sid = made \/ made \in holds
      BY NamedBefore
    <3>2. Issued' => Issued  BY <1>1, <2>1, <3>1 DEF Issued
    <3> QED  BY <1>1, <2>1, <3>2 DEF LossInv, WithinLosses
  <2>4. GivenUp'  BY <1>1, <2>1 DEF LossInv, GivenUp
  <2> QED  BY <1>2, <2>2, <2>3, <2>4 DEF LossInv
<1> QED  BY <1>4, <1>5

\* The stream of a transport that is still in use is asked for; of one that was
\* closed meanwhile it is not.
LEMMA RenewalDoneWithin ==
  ASSUME StreamInv, StreamInv', LossInv, \A c \in Calls : Moved(c), made <= made', RenewalDone
  PROVE  LossInv'
<1>1. renewal.at = "stream" /\ renewal'.at = "none"
      /\ UNCHANGED <<holds, closed, live, losses, released, late>>
      /\ (transport # 0 => transport' = transport)
  BY NoRenewalTyped DEF RenewalDone
<1>2. PICK s \in StreamAnswers(renewal.t) : stream' = [stream EXCEPT ![renewal.t] = s]
  BY DEF RenewalDone
<1>3. Addressed'  BY AddressedKept DEF LossInv
<1>4. made \in Nat /\ transport \in 0 .. made  BY Bound DEF StreamInv, Numbered
<1>5. ~released => UNCHANGED <<transport, made>>
  <2> SUFFICES ASSUME ~released  PROVE UNCHANGED <<transport, made>>  OBVIOUS
  <2>1. transport # 0 /\ transport = made  BY DEF LossInv, Unreleased
  <2>2. transport' = transport /\ made' = (IF transport' > made THEN transport' ELSE made)
    BY <2>1 DEF RenewalDone
  <2> QED  BY <1>4, <2>1, <2>2
<1>6. Unreleased'
  <2> SUFFICES ASSUME ~released  PROVE Unreleased'  BY <1>1 DEF Unreleased
  <2>1. \A c \in Calls : call'[c].at \in Disowned /\ call'[c].sid = made => made \notin live'
    BY <1>1, NamedBefore
  <2> QED  BY <1>1, <1>5, <2>1 DEF LossInv, Unreleased
<1>7. WithinLosses'
  <2> SUFFICES ASSUME ~released, ~late  PROVE WithinLosses'  BY <1>1 DEF WithinLosses
  <2>1. Issued  BY <1>1 DEF Issued
  <2> QED  BY <1>1, <1>5, <2>1 DEF LossInv, WithinLosses
<1>8. GivenUp'
  <2> SUFFICES ASSUME released, ~late  PROVE GivenUp'  BY <1>1 DEF GivenUp
  <2>1. renewal.t \in closed  BY <1>1 DEF LossInv, GivenUp
  <2>2. s = "none"  BY <2>1, AnswersTyped
  <2>3. \A t \in Transports : stream'[t] = "none"
    BY <1>2, <2>2 DEF LossInv, GivenUp, StreamInv, Numbered
  <2> QED  BY <1>1, <2>3 DEF LossInv, GivenUp
<1> QED  BY <1>3, <1>6, <1>7, <1>8 DEF LossInv

LEMMA CloseWithin ==
  ASSUME StreamInv, StreamInv', LossInv, \A c \in Calls : Moved(c), made <= made', Close
  PROVE  LossInv'
<1>1. /\ ~released /\ released' /\ closed' = closed \cup ({transport} \ {0})
      /\ holds' = holds \ {transport} /\ stream' = StreamsWithout(transport)
      /\ renewal' = (IF renewal.at \in {"initialize", "answered", "notify"} THEN NoRenewal ELSE renewal)
      /\ late' = (late \/ renewal.at = "closing")
  BY DEF Close
<1>2. Addressed'  BY AddressedKept DEF LossInv
<1>3. Unreleased' /\ WithinLosses'  BY <1>1 DEF Unreleased, WithinLosses
<1>4. GivenUp'
  <2> SUFFICES ASSUME ~late'  PROVE GivenUp'  BY DEF GivenUp
  <2>1. holds' = {}  BY <1>1 DEF LossInv, Unreleased
  <2>2. \A t \in Transports : stream'[t] = "none"  BY <1>1, Without
  <2>3. renewal.at # "closing" /\ renewal.at \in
          {"none", "closing", "initialize", "answered", "notify", "stream"}
    BY <1>1 DEF StreamInv, Numbered, Renewal
  <2>4. renewal.at = "stream" => renewal.t \in closed'
    BY <1>1 DEF LossInv, Unreleased
  <2> QED  BY <1>1, <2>1, <2>2, <2>3, <2>4, NoRenewalTyped DEF GivenUp
<1> QED  BY <1>2, <1>3, <1>4 DEF LossInv

LEMMA LossNext == StreamInv /\ ReplayInv /\ LossInv /\ [Next]_vars => LossInv'
<1> SUFFICES ASSUME StreamInv, ReplayInv, LossInv, [Next]_vars  PROVE LossInv'  OBVIOUS
<1>1. StreamInv' /\ made <= made' /\ \A c \in Calls : Moved(c)
  BY StreamNext, TransportsOnlyGrow, AllMove
<1>2. CASE UNCHANGED vars  BY <1>1, <1>2, QuietStep DEF vars
<1>3. CASE Forget  
  <2>1. \A t \in Transports : stream[t] = "none" => stream'[t] = "none"
    BY <1>3 DEF Forget
  <2> QED  BY <1>1, <1>3, <2>1, QuietStep DEF Forget
<1>4. ASSUME NEW c \in Calls,
             \/ Start(c) \/ Send(c) \/ Serve(c) \/ HandOutNonce(c) \/ ServeThenForget(c)
             \/ Lose(c) \/ Receive(c) \/ StreamEnds(c) \/ Expired(c)
      PROVE  LossInv'
  <2>1. CASE Send(c) \/ Serve(c) \/ HandOutNonce(c) \/ Lose(c) \/ Receive(c) \/ StreamEnds(c)
    <3>1. UNCHANGED streamVars
      BY <2>1 DEF Send, Serve, HandOutNonce, Lose, Receive, StreamEnds, streamVars
    <3> QED  BY <1>1, <3>1, QuietStep DEF streamVars
  <2>2. CASE ServeThenForget(c)
    <3>1. live' \subseteq live /\ losses' = losses + 1
          /\ UNCHANGED <<transport, made, holds, closed, stream, renewal, released, late>>
      BY <2>2 DEF ServeThenForget
    <3> QED  BY <1>1, <3>1, QuietStep
  <2> QED  BY <1>1, <1>4, <2>1, <2>2, StartWithin, ExpiredWithin
<1>5. ASSUME NEW t \in Transports, StreamDrops(t) \/ StreamRetries(t)  PROVE LossInv'
  <2>1. stream[t] # "none" /\ \A u \in Transports : u # t => stream'[u] = stream[u]
    BY <1>5 DEF StreamDrops, StreamRetries, StreamInv, Numbered
  <2>2. UNCHANGED <<transport, made, holds, closed, renewal, released, late, live, losses>>
    BY <1>5 DEF StreamDrops, StreamRetries
  <2> QED  BY <1>1, <2>1, <2>2, QuietStep
<1>6. CASE RenewalClosed \/ ServeInitialize \/ Initialized \/ Notified \/ RenewalFails \/ RenewalDone
           \/ Close
  BY <1>1, <1>6, RenewalClosedWithin, InitializeWithin, RenewalFailsWithin, RenewalDoneWithin,
     CloseWithin
<1> QED  BY <1>2, <1>3, <1>4, <1>5, <1>6 DEF Next

\* What the theorems below rest on.
ClientInv == StreamInv /\ ReplayInv /\ LossInv

LEMMA ClientInvariant == (Init => ClientInv) /\ (ClientInv /\ [Next]_vars => ClientInv')
BY StreamAtFirst, ReplayAtFirst, LossAtFirst, StreamNext, ReplayNext, LossNext DEF ClientInv

LEMMA ClientTyped == ClientInv => TypeOK
<1> SUFFICES ASSUME ClientInv  PROVE TypeOK  OBVIOUS
<1>1. made \in 0 .. MaxTransports /\ transport \in 0 .. made  BY DEF ClientInv, StreamInv, Numbered
<1>2. \A n \in 0 .. made : n \in 0 .. MaxTransports  BY <1>1, Bound
<1>3. ASSUME NEW c \in Calls
      PROVE  call[c] \in [at : Places, t : 0 .. MaxTransports, sid : 0 .. MaxTransports,
                          kind : Kinds, again : BOOLEAN, nonced : BOOLEAN]
  <2>1. call[c] \in Message  BY DEF ClientInv, ReplayInv
  <2>2. call[c].t \in 0 .. MaxTransports /\ call[c].sid \in 0 .. MaxTransports
    BY <1>2 DEF ClientInv, LossInv, Addressed
  <2> QED  BY <2>1, <2>2 DEF Message
<1>4. call = [c \in Calls |-> call[c]]  BY DEF ClientInv, ReplayInv
<1>5. call \in [Calls -> [at : Places, t : 0 .. MaxTransports, sid : 0 .. MaxTransports,
                          kind : Kinds, again : BOOLEAN, nonced : BOOLEAN]]
  BY <1>3, <1>4
<1>6. Places = {"idle", "headers", "body", "waiting", "streaming"} \cup OnTheWire \cup Ended
  BY DEF Places
<1>7. renewal \in [at: {"none", "closing", "initialize", "answered", "notify", "stream"},
                   t: 0..MaxTransports, first: BOOLEAN]
  BY DEF ClientInv, StreamInv, Numbered, Renewal
<1> QED
  BY <1>1, <1>2, <1>5, <1>6, <1>7 DEF TypeOK, ClientInv, StreamInv, Numbered, ReplayInv

LEMMA ClientWithin == ClientInv => OneRenewalPerLoss /\ ReleasedHoldsNothing
BY DEF ClientInv, LossInv, WithinLosses, OneRenewalPerLoss, GivenUp, ReleasedHoldsNothing

\* Each variable of the client has its type.
THEOREM TypeCorrect == Spec => []TypeOK
BY ClientInvariant, ClientTyped, PTL DEF Spec

\* A renewal costs one loss: a session that serves is not torn down by refusals
\* that concern the one before it, whatever number of callers met them in
\* whatever order, unless one was late (recreateSession in connection.ts).
THEOREM RenewedOncePerLoss == Spec => []OneRenewalPerLoss
BY ClientInvariant, ClientWithin, PTL DEF Spec

\* A closed connection whose requests have ended keeps no session and no
\* stream, whatever it was doing when it was closed (close in connection.ts and
\* streamable-http.ts), unless a late caller renewed its session.
THEOREM ReleaseLetsGo == Spec => []ReleasedHoldsNothing
BY ClientInvariant, ClientWithin, PTL DEF Spec

(***************************************************************************)
(* A session that serves stays in use                                      *)
(***************************************************************************)

\* A transport whose session the server holds is closed, or another taken into
\* use instead, by close(), by an owner whose first initialize failed, or by a
\* late caller.
LiveSessionsStay ==
  (\E t \in live : t \in closed' \ closed \/ (t = transport /\ transport' # t)) => released' \/ late'

\* A message names the session of its transport from when it is sent until its
\* refusal has been read.
Sent == OnTheWire \cup {"body"}
NamesItsOwn(m) == m.at \in Sent => m.sid \in {0, m.t}
OwnSessions == \A c \in Calls : NamesItsOwn(call[c])

\* So a session is told to end (DELETE) only for a caller whose message names
\* another, and which is late.
ClosingIsLate == renewal.at = "closing" => late

LEMMA OverNamesNone == \A c, at : at \in Ended => NamesItsOwn(Over(c, at))
BY DEF NamesItsOwn, Over, At, Sent, OnTheWire, Ended

\* Only the message c moves, to r.
LEMMA OneNames ==
  ASSUME ReplayInv, OwnSessions, NEW c \in Calls, NEW r, call' = [call EXCEPT ![c] = r],
         \/ NamesItsOwn(r)
         \/ call[c].at \in Sent /\ r.sid = call[c].sid /\ r.t = call[c].t
  PROVE  OwnSessions'
<1>1. call'[c] = r /\ \A d \in Calls : d # c => call'[d] = call[d]  BY DEF ReplayInv
<1>2. NamesItsOwn(r)  BY DEF OwnSessions, NamesItsOwn
<1>3. \A d \in Calls : NamesItsOwn(call'[d])  BY <1>1, <1>2 DEF OwnSessions
<1> QED  BY <1>3 DEF OwnSessions, NamesItsOwn

LEMMA CallNames ==
  ASSUME ReplayInv, OwnSessions, NEW c \in Calls,
         \/ Start(c) \/ Send(c) \/ Serve(c) \/ HandOutNonce(c) \/ ServeThenForget(c)
         \/ Lose(c) \/ Receive(c) \/ StreamEnds(c) \/ Expired(c)
  PROVE  OwnSessions'
<1>1. ASSUME NEW at \in Ended, call' = [call EXCEPT ![c] = Over(c, at)]  PROVE OwnSessions'
  BY <1>1, OverNamesNone, OneNames
<1>2. "done" \in Ended /\ "failed" \in Ended  BY DEF Ended
<1>3. call[c] \in Message  BY DEF ReplayInv
<1>4. CASE Start(c)
  <2> DEFINE r == [call[c] EXCEPT !.at = "headers", !.t = transport']
  <2>1. call' = [call EXCEPT ![c] = r]  BY <1>4 DEF Start, ReplayInv
  <2>2. r.at = "headers"  BY <1>3 DEF Message
  <2> HIDE DEF r
  <2>3. NamesItsOwn(r)  BY <2>2 DEF NamesItsOwn, Sent, OnTheWire
  <2> QED  BY <2>1, <2>3, OneNames
<1>5. CASE Send(c)
  <2> DEFINE r == [call[c] EXCEPT !.at = "wire", !.sid = IF call[c].t \in holds THEN call[c].t ELSE 0]
  <2>1. call' = [call EXCEPT ![c] = Over(c, "failed")] \/ call' = [call EXCEPT ![c] = r]
    BY <1>5 DEF Send, ReplayInv
  <2>2. r.t = call[c].t /\ r.sid \in {0, call[c].t}  BY <1>3 DEF Message
  <2> HIDE DEF r
  <2>3. NamesItsOwn(r)  BY <2>2 DEF NamesItsOwn
  <2> QED  BY <1>1, <1>2, <2>1, <2>3, OneNames
<1>6. CASE Serve(c) \/ ServeThenForget(c) \/ HandOutNonce(c)
  <2>1. call[c].at = "wire" /\ \E at : call' = [call EXCEPT ![c].at = at]
    BY <1>6 DEF Serve, ServeThenForget, HandOutNonce
  <2>2. PICK at : call' = [call EXCEPT ![c].at = at]  BY <2>1
  <2> DEFINE r == [call[c] EXCEPT !.at = at]
  <2>3. call' = [call EXCEPT ![c] = r]  BY <2>2 DEF ReplayInv
  <2>4. r.t = call[c].t /\ r.sid = call[c].sid  BY <1>3 DEF Message
  <2> HIDE DEF r
  <2> QED  BY <2>1, <2>3, <2>4, OneNames DEF Sent, OnTheWire
<1>7. CASE Lose(c) \/ StreamEnds(c)
  <2>1. PICK at \in Ended : call' = [call EXCEPT ![c] = Over(c, at)]
    BY <1>7 DEF Lose, StreamEnds, Ended
  <2> QED  BY <1>1, <2>1
<1>8. CASE Receive(c)
  <2> DEFINE streaming == [call[c] EXCEPT !.at = "streaming"]
             nonced == [call[c] EXCEPT !.at = "headers", !.nonced = TRUE]
             body == [call[c] EXCEPT !.at = "body"]
  <2>1. PICK got \in {
           [of |-> "ok", then |-> Over(c, "done")],
           [of |-> "head", then |-> streaming],
           [of |-> "nonce", then |-> IF call[c].nonced THEN Over(c, "failed") ELSE nonced],
           [of |-> "400", then |-> IF call[c].t \in holds THEN body ELSE Over(c, "failed")],
           [of |-> "body", then |-> Over(c, "failed")],
           [of |-> "404", then |-> Over(c, "failed")]} :
          call[c].at = got.of /\ call' = [call EXCEPT ![c] = got.then]
    BY <1>8, Zenon DEF Receive
  <2>2. \A r \in {streaming, nonced, body} : r.t = call[c].t /\ r.sid = call[c].sid
    BY <1>3 DEF Message
  <2> HIDE DEF streaming, nonced, body
  <2>3. \/ got.then = Over(c, "done") \/ got.then = Over(c, "failed")
        \/ got.then \in {streaming, nonced, body}
    BY <2>1
  <2>4. call[c].at \in Sent  BY <2>1 DEF Sent, OnTheWire
  <2>5. CASE got.then \in {streaming, nonced, body}
    BY <2>1, <2>2, <2>4, <2>5, OneNames
  <2> QED  BY <1>1, <1>2, <2>1, <2>3, <2>5
<1>9. CASE Expired(c)
  <2>1. CASE call' = [call EXCEPT ![c] = Over(c, "failed")]  BY <1>1, <1>2, <2>1
  <2>2. CASE call' # [call EXCEPT ![c] = Over(c, "failed")]
    <3> DEFINE r == [call[c] EXCEPT !.at = "waiting"]
               waiting == [call EXCEPT ![c] = r]
    <3>1. waiting = [call EXCEPT ![c].at = "waiting"]  BY DEF ReplayInv
    <3>2. call' = waiting \/ call' = Aborted(waiting, transport)
      BY <1>9, <2>2, <3>1 DEF Expired
    <3>3. r.at = "waiting"  BY <1>3 DEF Message
    <3> HIDE DEF r
    <3>4. waiting[c] = r /\ \A d \in Calls : d # c => waiting[d] = call[d]  BY DEF ReplayInv
    <3> HIDE DEF waiting
    <3>5. \A d \in Calls : call'[d] \in {waiting[d], Over(d, "failed")}
      BY <3>2 DEF Aborted
    <3>6. \A d \in Calls : call'[d] = call[d] \/ call'[d] = Over(d, "failed") \/ (d = c /\ call'[d] = r)
      BY <3>4, <3>5
    <3>7. NamesItsOwn(r)  BY <3>3 DEF NamesItsOwn, Sent, OnTheWire
    <3>8. \A d \in Calls : NamesItsOwn(call'[d])
      BY <1>2, <3>6, <3>7, OverNamesNone DEF OwnSessions
    <3> QED  BY <3>8 DEF OwnSessions, NamesItsOwn
  <2> QED  BY <2>1, <2>2
<1> QED  BY <1>4, <1>5, <1>6, <1>7, <1>8, <1>9

LEMMA AllName == ReplayInv /\ OwnSessions /\ [Next]_vars => OwnSessions'
<1> SUFFICES ASSUME ReplayInv, OwnSessions, [Next]_vars  PROVE OwnSessions'  OBVIOUS
<1>1. "failed" \in Ended  BY DEF Ended
<1>2. CASE call' = call  BY <1>2 DEF OwnSessions, NamesItsOwn
<1>3. CASE \E c \in Calls : \/ Start(c) \/ Send(c) \/ Serve(c) \/ HandOutNonce(c)
                            \/ ServeThenForget(c) \/ Lose(c) \/ Receive(c) \/ StreamEnds(c)
                            \/ Expired(c)
  BY <1>3, CallNames
<1>4. CASE RenewalFails \/ Close
  <2>1. call' \in {WaitersFail, Aborted(WaitersFail, transport), Aborted(call, transport)}
    BY <1>4 DEF RenewalFails, Close
  <2>2. \A c \in Calls : WaitersFail[c] \in {call[c], Over(c, "failed")}  BY DEF WaitersFail
  <2>3. \A c \in Calls : call'[c] \in {call[c], WaitersFail[c], Over(c, "failed")}
    BY <2>1 DEF Aborted
  <2>4. \A c \in Calls : NamesItsOwn(call'[c])
    BY <1>1, <2>2, <2>3, OverNamesNone DEF OwnSessions
  <2> QED  BY <2>4 DEF OwnSessions, NamesItsOwn
<1>5. CASE RenewalDone
  <2> DEFINE r(c) == [call[c] EXCEPT !.at = "headers", !.t = transport', !.again = TRUE,
                                     !.nonced = FALSE]
  <2>1. \A c \in Calls : call'[c] \in {call[c], Over(c, "failed"), r(c)}
    BY <1>5 DEF RenewalDone
  <2>2. ASSUME NEW c \in Calls, call'[c] = r(c)  PROVE NamesItsOwn(call'[c])
    <3>1. call[c] \in Message  BY DEF ReplayInv
    <3>2. r(c).at = "headers"  BY <3>1 DEF Message
    <3> QED  BY <2>2, <3>2 DEF NamesItsOwn, Sent, OnTheWire
  <2> HIDE DEF r
  <2>3. \A c \in Calls : NamesItsOwn(call'[c])
    BY <1>1, <2>1, <2>2, OverNamesNone DEF OwnSessions
  <2> QED  BY <2>3 DEF OwnSessions, NamesItsOwn
<1> QED
  BY <1>2, <1>3, <1>4, <1>5
  DEF Next, vars, Forget, RenewalClosed, ServeInitialize, Initialized, Notified, StreamDrops,
      StreamRetries

\* What a renewal that a refusal begins says of the session it ends.
LEMMA ExpiredIsLate ==
  ASSUME ClientInv, OwnSessions, NEW c \in Calls, Expired(c)
  PROVE  /\ renewal'.at = "closing" => renewal.at = "closing" \/ late'
         /\ late => late'
         /\ LiveSessionsStay
<1>1. call[c].at \in Disowned /\ call[c].at \in Sent
  BY DEF Expired, Disowned, Sent, OnTheWire
<1>2. call[c].sid \in {0, call[c].t}
  BY <1>1 DEF OwnSessions, NamesItsOwn
<1>3. CASE UNCHANGED <<transport, closed, renewal, late>>
  BY <1>3 DEF LiveSessionsStay
<1>4. CASE /\ late' = (late \/ released \/ (renewal.at = "none" /\ transport # call[c].sid))
           /\ closed' = closed \cup ({transport} \ {0})
           /\ renewal.at = "none"
           /\ IF transport \in holds'
              THEN renewal'.at = "closing" /\ transport' = transport
              ELSE renewal'.at = "initialize"
           /\ holds' = holds \ {call[c].t}
           /\ released' = released
  <2>1. ASSUME ~late'
        PROVE  transport = made /\ made \notin live /\ transport \notin holds'
    <3>1. ~released /\ transport = call[c].sid
      BY <1>4, <2>1
    <3>2. transport = made /\ made # 0
      BY <3>1 DEF ClientInv, LossInv, Unreleased
    <3>3. made \notin live
      BY <1>1, <3>1, <3>2 DEF ClientInv, LossInv, Unreleased
    <3>4. call[c].t = transport
      BY <1>2, <3>1, <3>2
    <3> QED  BY <1>4, <3>2, <3>3, <3>4
  <2>2. \A t \in live : t \in closed' \ closed \/ (t = transport /\ transport' # t) => t = transport
    BY <1>4
  <2>3. LiveSessionsStay
    BY <2>1, <2>2 DEF LiveSessionsStay
  <2> QED  BY <1>4, <2>1, <2>3
<1>5. \/ UNCHANGED <<transport, closed, renewal, late>>
      \/ /\ late' = (late \/ released \/ (renewal.at = "none" /\ transport # call[c].sid))
         /\ closed' = closed \cup ({transport} \ {0})
         /\ renewal.at = "none"
         /\ IF transport \in holds'
            THEN renewal'.at = "closing" /\ transport' = transport
            ELSE renewal'.at = "initialize"
         /\ holds' = holds \ {call[c].t}
         /\ released' = released
  BY DEF Expired, Shared
<1> QED  BY <1>3, <1>4, <1>5

LEMMA StayStep ==
  ASSUME ClientInv, OwnSessions, ClosingIsLate, [Next]_vars
  PROVE  ClosingIsLate' /\ LiveSessionsStay
<1>0. 0 \notin live
  BY Bound DEF ClientInv, StreamInv, Numbered
<1>1. CASE UNCHANGED <<transport, closed, renewal, late>>
  BY <1>1 DEF ClosingIsLate, LiveSessionsStay
<1>2. ASSUME NEW c \in Calls, Expired(c)  PROVE ClosingIsLate' /\ LiveSessionsStay
  BY <1>2, ExpiredIsLate DEF ClosingIsLate
<1>3. ASSUME NEW c \in Calls,
             \/ Start(c) \/ Send(c) \/ Serve(c) \/ HandOutNonce(c) \/ ServeThenForget(c)
             \/ Lose(c) \/ Receive(c) \/ StreamEnds(c)
      PROVE  ClosingIsLate' /\ LiveSessionsStay
  <2>1. CASE Start(c)
    <3>1. UNCHANGED <<closed, renewal, late>> /\ (transport # 0 => transport' = transport)
      BY <2>1 DEF Start
    <3> QED  BY <1>0, <3>1 DEF ClosingIsLate, LiveSessionsStay
  <2> QED
    BY <1>1, <1>3, <2>1 DEF Send, Serve, HandOutNonce, ServeThenForget, Lose, Receive, StreamEnds
<1>4. CASE RenewalClosed
  <2>1. renewal.at = "closing" /\ renewal' = [renewal EXCEPT !.at = "initialize", !.t = made + 1]
        /\ closed' = closed /\ late' = late
    BY <1>4 DEF RenewalClosed
  <2>2. renewal'.at = "initialize"
    <3>1. renewal \in Renewal  BY DEF ClientInv, StreamInv, Numbered
    <3> QED  BY <2>1, <3>1 DEF Renewal
  <2> QED  BY <2>1, <2>2 DEF ClosingIsLate, LiveSessionsStay
<1>5. CASE ServeInitialize \/ Initialized \/ Notified
  <2>1. UNCHANGED <<transport, closed, late>>
        /\ \E at \in {"answered", "notify", "stream"} : renewal' = [renewal EXCEPT !.at = at]
    BY <1>5 DEF ServeInitialize, Initialized, Notified
  <2>2. renewal'.at # "closing"
    <3>1. renewal \in Renewal  BY DEF ClientInv, StreamInv, Numbered
    <3> QED  BY <2>1, <3>1 DEF Renewal
  <2> QED  BY <2>1, <2>2 DEF ClosingIsLate, LiveSessionsStay
<1>6. CASE RenewalFails
  <2>1. renewal'.at = "none" /\ (released' \/ UNCHANGED <<transport, closed>>)
    BY <1>6, NoRenewalTyped DEF RenewalFails
  <2> QED  BY <2>1 DEF ClosingIsLate, LiveSessionsStay
<1>7. CASE RenewalDone
  <2>1. renewal'.at = "none" /\ closed' = closed /\ (transport # 0 => transport' = transport)
    BY <1>7, NoRenewalTyped DEF RenewalDone
  <2> QED  BY <1>0, <2>1 DEF ClosingIsLate, LiveSessionsStay
<1>8. CASE Close
  <2>1. released'  BY <1>8 DEF Close
  <2>2. renewal'.at = "closing" => late'
    BY <1>8, NoRenewalTyped DEF Close
  <2> QED  BY <2>1, <2>2 DEF ClosingIsLate, LiveSessionsStay
<1> QED
  BY <1>1, <1>2, <1>3, <1>4, <1>5, <1>6, <1>7, <1>8
  DEF Next, vars, Forget, StreamDrops, StreamRetries

\* A session that the server holds is not taken from its callers by a renewal:
\* whoever was refused and begins one closes the transport of the session that
\* was refused, which the server has lost, unless the caller was late
\* (recreateSession in connection.ts).
THEOREM ServingSessionsStay == Spec => [][LiveSessionsStay]_vars
<1>1. Init => OwnSessions /\ ClosingIsLate
  <2> SUFFICES ASSUME Init  PROVE OwnSessions /\ ClosingIsLate  OBVIOUS
  <2>1. \A c \in Calls : call[c].at = "idle"
    <3>1. PICK f \in [Calls -> {At("idle", k) : k \in Kinds}] : call = f  BY DEF Init
    <3> QED  BY <3>1 DEF At
  <2>2. renewal.at = "initialize"  BY DEF Init
  <2> QED  BY <2>1, <2>2 DEF OwnSessions, NamesItsOwn, Sent, OnTheWire, ClosingIsLate
<1>2. /\ ClientInv /\ OwnSessions /\ ClosingIsLate /\ [Next]_vars
         => OwnSessions' /\ ClosingIsLate' /\ LiveSessionsStay
  BY AllName, StayStep DEF ClientInv
<1> QED  BY <1>1, <1>2, ClientInvariant, PTL DEF Spec

(***************************************************************************)
(* The HTTP+SSE client                                                     *)
(***************************************************************************)

Attached == {"asked", "headers", "open"}

\* The event stream that is attached is the one being connected, or else the
\* one of the transport in use.
LegacyInv ==
  /\ Legacy!TypeOK
  /\ lTransport <= opened
  /\ connecting => lTransport = 0 /\ opened # 0 /\ sse[opened] \in {"asked", "headers"}
  /\ \A s \in Legacy!Streams : sse[s] \in Attached =>
       s = IF connecting THEN opened ELSE lTransport

LEMMA LegacyBound == MaxStreams \in Nat
BY StreamsAssumption

LEMMA LegacyAtFirst == Legacy!Init => LegacyInv
<1> SUFFICES ASSUME Legacy!Init  PROVE LegacyInv  OBVIOUS
<1>1. /\ lTransport = 0 /\ opened = 0 /\ connecting = FALSE /\ pending = {} /\ resolved = {}
      /\ unobserved = FALSE /\ lReleased = FALSE
      /\ sse = [s \in Legacy!Streams |-> "none"] /\ via = [c \in Calls |-> 0]
      /\ lCall = [c \in Calls |-> "idle"] /\ posted = [c \in Calls |-> "no"]
  BY DEF Legacy!Init
<1>2. /\ sse \in [Legacy!Streams -> {"none", "asked", "headers", "open", "ended", "leaked"}]
      /\ via \in [Calls -> 0 .. MaxStreams]
      /\ posted \in [Calls -> {"no", "wire", "got", "answered", "refused"}]
      /\ lCall \in [Calls -> {"idle", "connect", "post", "await"} \cup Legacy!Ended]
  BY <1>1, LegacyBound
<1>3. lTransport \in 0 .. MaxStreams /\ opened \in 0 .. MaxStreams
  <2>1. 0 \in 0 .. MaxStreams  BY LegacyBound
  <2> QED  BY <1>1, <2>1, Zenon
<1>4. connecting \in BOOLEAN /\ unobserved \in BOOLEAN /\ lReleased \in BOOLEAN  BY <1>1
<1>5. pending \subseteq Calls /\ resolved \subseteq Calls  BY <1>1
<1>6. Legacy!TypeOK  BY <1>2, <1>3, <1>4, <1>5, Zenon DEF Legacy!TypeOK
<1> QED  BY <1>1, <1>6 DEF LegacyInv, Attached

\* Messages move, streams and transports stay.
LEMMA LegacyCallMoves ==
  ASSUME LegacyInv, NEW c \in Calls,
         \/ Legacy!Register(c) \/ Legacy!PostArrives(c) \/ Legacy!Answer(c)
         \/ Legacy!PostReturns(c) \/ Legacy!PostThrows(c) \/ Legacy!Times(c)
  PROVE  LegacyInv'
<1>1. UNCHANGED <<lTransport, opened, connecting, sse, via, lReleased>>
  BY DEF Legacy!Register, Legacy!PostArrives, Legacy!Answer, Legacy!PostReturns,
         Legacy!PostThrows, Legacy!Times
<1>2. lCall' \in [Calls -> {"idle", "connect", "post", "await"} \cup Legacy!Ended]
  BY DEF Legacy!Register, Legacy!PostArrives, Legacy!Answer, Legacy!PostReturns,
         Legacy!PostThrows, Legacy!Times, Legacy!Rejected, LegacyInv, Legacy!TypeOK, Legacy!Ended
<1>3. pending' \subseteq Calls /\ resolved' \subseteq Calls /\ unobserved' \in BOOLEAN
  <2>1. pending \subseteq Calls /\ resolved \subseteq Calls /\ unobserved \in BOOLEAN
    BY DEF LegacyInv, Legacy!TypeOK
  <2>2. /\ pending' \in {pending, pending \cup {c}, pending \ {c}}
        /\ resolved' \in {resolved, resolved \cup {c}}
        /\ unobserved' = unobserved \/ unobserved' = (unobserved \/ Legacy!Unawaited({c}))
    BY DEF Legacy!Register, Legacy!PostArrives, Legacy!Answer, Legacy!PostReturns,
           Legacy!PostThrows, Legacy!Times
  <2>3. unobserved' \in BOOLEAN  BY <2>1, <2>2 DEF Legacy!Unawaited
  <2> QED  BY <2>1, <2>2, <2>3
<1>4. posted' \in [Calls -> {"no", "wire", "got", "answered", "refused"}]
  BY DEF Legacy!Register, Legacy!PostArrives, Legacy!Answer, Legacy!PostReturns,
         Legacy!PostThrows, Legacy!Times, LegacyInv, Legacy!TypeOK
<1>5. Legacy!TypeOK'  BY <1>1, <1>2, <1>3, <1>4 DEF LegacyInv, Legacy!TypeOK
<1> QED  BY <1>1, <1>5 DEF LegacyInv

\* A caller asks for a stream when none is attached, and otherwise shares.
LEMMA LegacyStarts ==
  ASSUME LegacyInv, NEW c \in Calls, Legacy!Start(c)
  PROVE  LegacyInv'
<1>1. UNCHANGED <<lTransport, pending, posted, resolved, unobserved, lReleased>>
      /\ lCall' = [lCall EXCEPT ![c] = "connect"] /\ via' = [via EXCEPT ![c] = lTransport]
  BY DEF Legacy!Start
<1>2. lCall' \in [Calls -> {"idle", "connect", "post", "await"} \cup Legacy!Ended]
      /\ via' \in [Calls -> 0 .. MaxStreams]
  BY <1>1 DEF LegacyInv, Legacy!TypeOK
<1>3. CASE lTransport # 0 \/ connecting
  <2>1. UNCHANGED <<opened, connecting, sse>>  BY <1>3 DEF Legacy!Start, Legacy!Connecting
  <2>2. Legacy!TypeOK'  BY <1>1, <1>2, <2>1 DEF LegacyInv, Legacy!TypeOK
  <2> QED  BY <1>1, <2>1, <2>2 DEF LegacyInv
<1>4. CASE lTransport = 0 /\ ~connecting
  <2>1. opened < MaxStreams /\ opened' = opened + 1 /\ connecting' = TRUE
        /\ sse' = [sse EXCEPT ![opened + 1] = "asked"]
    BY <1>4 DEF Legacy!Start, Legacy!Connecting
  <2>2. opened' \in Legacy!Streams /\ opened' \in 0 .. MaxStreams /\ opened' # 0 /\ 0 <= opened'
    BY <2>1, LegacyBound DEF LegacyInv, Legacy!TypeOK, Legacy!Streams
  <2>3. \A s \in Legacy!Streams : sse[s] \notin Attached
    BY <1>4, LegacyBound DEF LegacyInv, Legacy!Streams
  <2>4. sse' \in [Legacy!Streams -> {"none", "asked", "headers", "open", "ended", "leaked"}]
        /\ sse'[opened'] = "asked"
        /\ \A s \in Legacy!Streams : sse'[s] \in Attached => s = opened'
    BY <2>1, <2>2, <2>3 DEF LegacyInv, Legacy!TypeOK
  <2>5. Legacy!TypeOK'  BY <1>1, <1>2, <2>1, <2>2, <2>4 DEF LegacyInv, Legacy!TypeOK
  <2> QED  BY <1>1, <1>4, <2>1, <2>2, <2>4, <2>5 DEF LegacyInv
<1> QED  BY <1>3, <1>4

\* The stream that is being connected opens, or is given up.
LEMMA LegacyConnects ==
  ASSUME LegacyInv,
         Legacy!StreamHeaders \/ Legacy!Announced \/ Legacy!ConnectFails \/ Legacy!NeverAnnounced
  PROVE  LegacyInv'
<1>1. connecting /\ opened \in Legacy!Streams /\ lTransport = 0
      /\ sse \in [Legacy!Streams -> {"none", "asked", "headers", "open", "ended", "leaked"}]
      /\ \A s \in Legacy!Streams : sse[s] \in Attached => s = opened
  BY LegacyBound
  DEF Legacy!StreamHeaders, Legacy!Announced, Legacy!ConnectFails, Legacy!NeverAnnounced,
      LegacyInv, Legacy!TypeOK, Legacy!Streams
<1>2. UNCHANGED <<opened, pending, posted, resolved, unobserved, lReleased>>
  BY DEF Legacy!StreamHeaders, Legacy!Announced, Legacy!ConnectFails, Legacy!NeverAnnounced
<1>3. lCall' \in [Calls -> {"idle", "connect", "post", "await"} \cup Legacy!Ended]
  BY DEF Legacy!StreamHeaders, Legacy!Announced, Legacy!ConnectFails, Legacy!NeverAnnounced,
         Legacy!ConnectorsFail, LegacyInv, Legacy!TypeOK, Legacy!Ended
<1>4. via' \in [Calls -> 0 .. MaxStreams]
  BY <1>1
  DEF Legacy!StreamHeaders, Legacy!Announced, Legacy!ConnectFails, Legacy!NeverAnnounced,
      LegacyInv, Legacy!TypeOK
<1>5. PICK st \in {"headers", "open", "ended", "leaked"} :
        /\ sse' = [sse EXCEPT ![opened] = st]
        /\ st = "headers" => connecting' /\ lTransport' = 0
        /\ st = "open" => ~connecting' /\ lTransport' = opened
        /\ st \in {"ended", "leaked"} => ~connecting' /\ lTransport' = 0
        /\ connecting' \in BOOLEAN
  BY <1>1
  DEF Legacy!StreamHeaders, Legacy!Announced, Legacy!ConnectFails, Legacy!NeverAnnounced
<1>6. sse' \in [Legacy!Streams -> {"none", "asked", "headers", "open", "ended", "leaked"}]
      /\ sse'[opened] = st
      /\ \A s \in Legacy!Streams : s # opened => sse'[s] \notin Attached
  BY <1>1, <1>5
<1>7. lTransport' \in {0, opened} /\ opened \in 0 .. MaxStreams /\ opened # 0
  BY <1>1, <1>5, LegacyBound DEF LegacyInv, Legacy!TypeOK, Legacy!Streams
<1>8. Legacy!TypeOK'
  BY <1>2, <1>3, <1>4, <1>5, <1>6, <1>7, LegacyBound DEF LegacyInv, Legacy!TypeOK
<1>9. \A s \in Legacy!Streams : sse'[s] \in Attached =>
        s = IF connecting' THEN opened ELSE lTransport'
  BY <1>5, <1>6 DEF Attached
<1>10. lTransport' <= opened  BY <1>7
<1> QED  BY <1>2, <1>5, <1>6, <1>7, <1>8, <1>9, <1>10 DEF LegacyInv

\* A stream ends, or close() ends the one in use.
LEMMA LegacyEnds ==
  ASSUME LegacyInv, Legacy!Close \/ \E s \in Legacy!Streams : Legacy!StreamEnds(s)
  PROVE  LegacyInv'
<1>1. UNCHANGED <<opened, connecting, via, posted, resolved>>
      /\ lTransport' \in {lTransport, 0} /\ lReleased' \in BOOLEAN
  BY DEF Legacy!Close, Legacy!StreamEnds, LegacyInv, Legacy!TypeOK
<1>2. pending' \subseteq Calls /\ unobserved' \in BOOLEAN
  BY DEF Legacy!Close, Legacy!StreamEnds, Legacy!Unawaited, LegacyInv, Legacy!TypeOK
<1>3. lCall' \in [Calls -> {"idle", "connect", "post", "await"} \cup Legacy!Ended]
  BY DEF Legacy!Close, Legacy!StreamEnds, Legacy!Rejected, LegacyInv, Legacy!TypeOK, Legacy!Ended
<1>4. \/ sse' = sse /\ lTransport = 0
      \/ \E s \in Legacy!Streams : sse' = [sse EXCEPT ![s] = "ended"]
           /\ (lTransport' = lTransport \/ s = lTransport) /\ ~(connecting /\ s = opened)
  BY LegacyBound DEF Legacy!Close, Legacy!StreamEnds, LegacyInv, Legacy!TypeOK, Legacy!Streams
<1>5. /\ sse' \in [Legacy!Streams -> {"none", "asked", "headers", "open", "ended", "leaked"}]
      /\ \A s \in Legacy!Streams : sse'[s] \in Attached =>
           sse[s] \in Attached /\ (lTransport' = lTransport \/ s # lTransport)
      /\ connecting => sse'[opened] = sse[opened]
  BY <1>4, LegacyBound DEF LegacyInv, Legacy!TypeOK, Legacy!Streams, Attached
<1>6. Legacy!TypeOK'
  BY <1>1, <1>2, <1>3, <1>5, LegacyBound DEF LegacyInv, Legacy!TypeOK
<1>7. lTransport' <= opened  BY <1>1 DEF LegacyInv, Legacy!TypeOK
<1>8. connecting => lTransport = 0 /\ lTransport' = 0 /\ opened # 0 /\ sse'[opened] \in {"asked", "headers"}
  BY <1>1, <1>5 DEF LegacyInv
<1>9. \A s \in Legacy!Streams : sse'[s] \in Attached => s = IF connecting THEN opened ELSE lTransport'
  BY <1>5, <1>8 DEF LegacyInv
<1> QED  BY <1>1, <1>6, <1>7, <1>8, <1>9 DEF LegacyInv

LEMMA LegacyNext == LegacyInv /\ [Legacy!Next]_legacyVars => LegacyInv'
<1> SUFFICES ASSUME LegacyInv, [Legacy!Next]_legacyVars  PROVE LegacyInv'  OBVIOUS
<1>1. CASE UNCHANGED legacyVars  BY <1>1 DEF legacyVars, LegacyInv, Legacy!TypeOK
<1> QED
  BY <1>1, LegacyCallMoves, LegacyStarts, LegacyConnects, LegacyEnds DEF Legacy!Next

LEMMA OneAttached == LegacyInv => Legacy!OneStreamInUse
<1> SUFFICES ASSUME LegacyInv  PROVE Legacy!OneStreamInUse  OBVIOUS
<1> DEFINE used == {s \in Legacy!Streams : sse[s] \in {"asked", "headers", "open"}}
           one == IF connecting THEN opened ELSE lTransport
<1>1. used \subseteq {one}  BY DEF LegacyInv, Attached
<1>2. IsFiniteSet({one}) /\ Cardinality({one}) = 1  BY FS_Singleton
<1>3. IsFiniteSet(used) /\ Cardinality(used) <= Cardinality({one})
  BY <1>1, <1>2, FS_Subset
<1>4. Cardinality(used) <= 1  BY <1>2, <1>3
<1> QED
  BY <1>4 DEF Legacy!OneStreamInUse, Cardinality, IsFiniteSet, Legacy!Cardinality, Legacy!IsFiniteSet

(***************************************************************************)
(* A connection over either transport                                      *)
(***************************************************************************)

\* The client that is not in use stays as it was made.
ConnectionInv ==
  /\ \/ transportKind = "STREAMABLE_HTTP" /\ ClientInv
     \/ transportKind = "HTTP_SSE" /\ Unused
  /\ LegacyInv

LEMMA ConnectionInvariant ==
  /\ ConnectionInit => ConnectionInv
  /\ ConnectionInv /\ [ConnectionNext]_connectionVars => ConnectionInv'
<1>1. ConnectionInit => ConnectionInv
  BY ClientInvariant, LegacyAtFirst DEF ConnectionInit, ConnectionInv
<1>2. ConnectionInv /\ [ConnectionNext]_connectionVars => ConnectionInv'
  <2> SUFFICES ASSUME ConnectionInv, [ConnectionNext]_connectionVars  PROVE ConnectionInv'
    OBVIOUS
  <2>1. UNCHANGED transportKind /\ [Legacy!Next]_legacyVars
        /\ (transportKind = "STREAMABLE_HTTP" => [Next]_vars)
        /\ (transportKind # "STREAMABLE_HTTP" => UNCHANGED vars)
    BY DEF ConnectionNext, connectionVars, ConnectionInv
  <2>2. LegacyInv'  BY <2>1, LegacyNext DEF ConnectionInv
  <2>3. CASE transportKind = "STREAMABLE_HTTP"
    BY <2>1, <2>2, <2>3, ClientInvariant DEF ConnectionInv
  <2>4. CASE transportKind # "STREAMABLE_HTTP"
    <3>1. Unused'  BY <2>1, <2>4 DEF ConnectionInv, Unused, vars
    <3> QED  BY <2>1, <2>2, <2>4, <3>1 DEF ConnectionInv
  <2> QED  BY <2>3, <2>4
<1> QED  BY <1>1, <1>2

LEMMA UnusedHolds ==
  Unused => TypeOK /\ ReplaysAreIdempotent /\ OneRenewalPerLoss /\ StreamOnTransportInUse
            /\ ReleasedHoldsNothing
<1> SUFFICES ASSUME Unused
             PROVE  TypeOK /\ ReplaysAreIdempotent /\ OneRenewalPerLoss /\ StreamOnTransportInUse
                    /\ ReleasedHoldsNothing
  OBVIOUS
<1>1. \A c \in Calls : call[c] = [at |-> "idle", kind |-> "note", t |-> 0, sid |-> 0,
                                  again |-> FALSE, nonced |-> FALSE]
  BY DEF Unused, At
<1>2. call \in [Calls -> [at: {"idle", "headers", "body", "waiting", "streaming"} \cup OnTheWire \cup Ended,
                          t: 0..MaxTransports, sid: 0..MaxTransports,
                          kind: Kinds, again: BOOLEAN, nonced: BOOLEAN]]
  <2>1. 0 \in 0 .. MaxTransports /\ "note" \in Kinds /\ "idle" \in Places
    BY Bound DEF Kinds, Places
  <2>2. \A c \in Calls : call[c] \in [at : Places, t : 0 .. MaxTransports, sid : 0 .. MaxTransports,
                                     kind : Kinds, again : BOOLEAN, nonced : BOOLEAN]
    <3> TAKE c \in Calls
    <3>1. call[c] = [at |-> "idle", kind |-> "note", t |-> 0, sid |-> 0, again |-> FALSE,
                     nonced |-> FALSE]
      BY <1>1
    <3>2. call[c] \in Message  BY <2>1, <3>1 DEF Message
    <3>3. call[c].t \in 0 .. MaxTransports /\ call[c].sid \in 0 .. MaxTransports  BY <2>1, <3>1
    <3> QED  BY <3>2, <3>3 DEF Message
  <2>3. call = [c \in Calls |-> call[c]]  BY DEF Unused
  <2> QED  BY <2>2, <2>3 DEF Places
<1>3. TypeOK
  <2>1. renewal \in [at: {"none", "closing", "initialize", "answered", "notify", "stream"},
                    t: 0..MaxTransports, first: BOOLEAN]
    BY Bound DEF Unused, NoRenewal
  <2>2. stream \in [Transports -> {"none", "open", "retry"}] /\ ran \in [Calls -> Nat]
    BY DEF Unused
  <2>3. transport \in 0..MaxTransports /\ made \in 0..MaxTransports /\ losses \in 0..MaxLosses
        /\ holds \subseteq 1..made /\ closed \subseteq 1..made /\ live \subseteq 1..made
        /\ ready \in BOOLEAN /\ restarted \in BOOLEAN /\ released \in BOOLEAN /\ late \in BOOLEAN
    <3>1. 0 \in 0 .. MaxTransports /\ 0 \in 0 .. MaxLosses  BY Bound
    <3>2. transport = 0 /\ made = 0 /\ losses = 0 /\ holds = {} /\ closed = {} /\ live = {}
      BY DEF Unused
    <3>3. ready \in BOOLEAN /\ restarted \in BOOLEAN /\ released \in BOOLEAN /\ late \in BOOLEAN
      BY DEF Unused
    <3> QED  BY <3>1, <3>2, <3>3, Zenon
  <2> QED  BY <1>2, <2>1, <2>2, <2>3 DEF TypeOK
<1>4. ReplaysAreIdempotent
  BY <1>1 DEF Unused, ReplaysAreIdempotent
<1> QED
  BY <1>3, <1>4, Bound
  DEF Unused, OneRenewalPerLoss, StreamOnTransportInUse, ReleasedHoldsNothing

LEMMA ConnectionServes ==
  ConnectionInv => /\ ConnectionTypeOK /\ OneServerStream
                   /\ ReplaysAreIdempotent /\ OneRenewalPerLoss /\ ReleasedHoldsNothing
<1> SUFFICES ASSUME ConnectionInv
             PROVE  /\ ConnectionTypeOK /\ OneServerStream
                    /\ ReplaysAreIdempotent /\ OneRenewalPerLoss /\ ReleasedHoldsNothing
  OBVIOUS
<1>1. Legacy!TypeOK /\ Legacy!OneStreamInUse
  BY OneAttached DEF ConnectionInv, LegacyInv
<1>2. TypeOK /\ ReplaysAreIdempotent /\ OneRenewalPerLoss /\ StreamOnTransportInUse
      /\ ReleasedHoldsNothing
  <2>1. ClientInv => ReplaysAreIdempotent /\ StreamOnTransportInUse
    BY DEF ClientInv, StreamInv, ReplayInv, Fits, ReplaysAreIdempotent
  <2> QED  BY <2>1, ClientTyped, ClientWithin, UnusedHolds DEF ConnectionInv
<1> QED  BY <1>1, <1>2 DEF ConnectionTypeOK, OneServerStream

\* Each variable of the two clients has its type.
THEOREM ConnectionTyped == ConnectionSpec => []ConnectionTypeOK
BY ConnectionInvariant, ConnectionServes, PTL DEF ConnectionSpec

\* Callers that race for a legacy transport share one event stream
\* (ensureTransport in connection.ts), and over Streamable HTTP the one server
\* stream is that of the transport in use, for any number of either.
THEOREM OneStreamPerConnection == ConnectionSpec => []OneServerStream
BY ConnectionInvariant, ConnectionServes, PTL DEF ConnectionSpec

\* A connection over whichever transport repeats no call that may have changed
\* something, renews once per loss and lets go of what it held.
THEOREM ConnectionKeepsItsWord ==
  ConnectionSpec => [](ReplaysAreIdempotent /\ OneRenewalPerLoss /\ ReleasedHoldsNothing)
BY ConnectionInvariant, ConnectionServes, PTL DEF ConnectionSpec

=============================================================================
