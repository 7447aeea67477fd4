----------------------- MODULE DownstreamSession_proofs -----------------------
(***************************************************************************)
(* The invariants of DownstreamSession for every number of streams,        *)
(* messages and POSTs and every length of the history.                     *)
(*                                                                         *)
(* What a stream carries is marked delivered and what is marked was        *)
(* carried; a stream not opened yet carries nothing; standalone streams    *)
(* are live, and are not those that answer POSTs.  With this Bookkeeping the properties  *)
(* about messages are inductive; those about requests are so by themselves.*)
(***************************************************************************)
EXTENDS DownstreamSession, TLAPS, WellFoundedInduction

Bookkeeping ==
  /\ \A s \in Stream : written[s] \subseteq delivered
  /\ \A s \in Stream : s > opened => written[s] = {}
  /\ streams \subseteq live
  /\ \A p \in Post : answerOn[p] \notin streams
  /\ \A s \in requestStreams : \E p \in Post : answerOn[p] = s
  /\ \A p \in Post : answerOn[p] # None => pc[p] \in {"running", "confirming", "done"}

Messages ==
  NothingLost /\ OneStream /\ NewestReads /\ WithheldOnlyByResume /\ Bookkeeping

IInv == TypeOK /\ Messages /\ AskedAndTimed /\ StillCancellable

-----------------------------------------------------------------------------
\* Of any streams there is a newest.
LEMMA NewestIsOne ==
  ASSUME NEW S \in SUBSET Stream, S # {}
  PROVE  Newest(S) \in S /\ \A u \in S : u <= Newest(S)
<1> DEFINE Left == {MaxStreams - s : s \in S}
<1>1. \A s \in S : s \in Int /\ MaxStreams - s \in Nat
  BY BoundAssumption DEF Stream
<1>2. Left \subseteq Nat /\ Left # {}
  BY <1>1
<1>3. \E m \in Left : \A k \in Left : ~ (k < m)
  <2>1. \E m \in Left : \A k \in Left : ~ (<<k, m>> \in OpToRel(<, Nat))
    BY <1>2, NatLessThanWellFounded, WFMin, Zenon
  <2>2. \A j, k \in Nat : j < k => <<j, k>> \in OpToRel(<, Nat)
    BY Zenon DEF OpToRel
  <2> QED
    BY <1>2, <2>1, <2>2, Zenon
<1>4. PICK m \in Left : \A k \in Left : ~ (k < m)
  BY <1>3
<1>5. PICK w \in S : m = MaxStreams - w
  OBVIOUS
<1>6. ASSUME NEW u \in S
      PROVE  u <= w
  <2>1. MaxStreams - u \in Left
    OBVIOUS
  <2>2. ~ (MaxStreams - u < MaxStreams - w)
    BY <1>4, <1>5, <2>1
  <2> QED
    BY <1>1, <2>2, BoundAssumption
<1> QED
  BY <1>6 DEF Newest

\* What DeliverTo does to the messages: the new one, and no other, is written
\* to the newest of S, and to no other stream.
LEMMA DeliveredToOne ==
  ASSUME TypeOK, NEW S \in SUBSET Stream, DeliverTo(S)
  PROVE  /\ nextEventId' = nextEventId + 1
         /\ S = {} => UNCHANGED <<delivered, written>>
         /\ S # {} => \E w \in S :
              /\ \A u \in S : u <= w
              /\ delivered' = delivered \cup {nextEventId}
              /\ written' = [written EXCEPT ![w] = @ \cup {nextEventId}]
BY NewestIsOne DEF DeliverTo

\* DeliverTo keeps the types of what it changes.
LEMMA DeliveryTyped ==
  ASSUME TypeOK, NEW S \in SUBSET Stream, DeliverTo(S)
  PROVE  /\ nextEventId' \in Nat \ {0}
         /\ Event' = Event \cup {nextEventId}
         /\ delivered' \subseteq Event'
         /\ written' \in [Stream -> SUBSET Event']
<1>1. nextEventId' = nextEventId + 1 /\ nextEventId \in Nat \ {0}
  BY DeliveredToOne DEF TypeOK
<1>2. Event' = Event \cup {nextEventId}
  BY <1>1 DEF Event
<1>3. CASE S = {}
  BY <1>1, <1>2, <1>3, DeliveredToOne DEF TypeOK
<1>4. CASE S # {}
  <2>1. PICK w \in S : /\ delivered' = delivered \cup {nextEventId}
                       /\ written' = [written EXCEPT ![w] = @ \cup {nextEventId}]
    BY <1>4, DeliveredToOne
  <2> QED
    BY <1>1, <1>2, <2>1 DEF TypeOK
<1> QED
  BY <1>3, <1>4

\* The streams a message may go to are streams.
LEMMA TargetsAreStreams ==
  ASSUME TypeOK
  PROVE  /\ LiveStreams \in SUBSET Stream
         /\ LiveRequestStreams \in SUBSET Stream
<1>1. 1 .. opened \subseteq Stream
  BY BoundAssumption DEF TypeOK, Stream
<1> QED
  BY <1>1 DEF TypeOK, LiveStreams, LiveRequestStreams

-----------------------------------------------------------------------------
\* A stream that opens is the next one.
LEMMA OpenedTyped ==
  ASSUME TypeOK, NEW s \in Stream, Open(s)
  PROVE  /\ opened' \in 0 .. MaxStreams
         /\ live' \subseteq 1 .. opened'
         /\ streams \cup {s} \subseteq 1 .. opened'
         /\ answerOn \in [Post -> 1 .. opened' \cup {None}]
         /\ requestStreams \cup {s} \subseteq 1 .. opened'
         /\ since' \in [Stream -> Nat]
<1>1. s = opened + 1 /\ opened' = s /\ live' = live \cup {s} /\ s \in 1 .. MaxStreams
  BY DEF Open, Stream
<1>2. 1 .. opened' = (1 .. opened) \cup {s}
  BY <1>1 DEF TypeOK
<1> QED
  BY <1>1, <1>2, BoundAssumption DEF TypeOK, Open

\* sendRequest keeps the types.
LEMMA RequestTyped ==
  ASSUME TypeOK, SendRequest
  PROVE  /\ nextEventId' \in Nat \ {0}
         /\ Event' = Event \cup {nextEventId}
         /\ delivered' \subseteq Event'
         /\ written' \in [Stream -> SUBSET Event']
         /\ pending' \subseteq Event'
         /\ waiting' \subseteq Event'
<1> DEFINE S == IF LiveRequestStreams # {} THEN LiveRequestStreams ELSE LiveStreams
<1>1. S \in SUBSET Stream
  BY TargetsAreStreams
<1>2. DeliverTo(S)
  BY DEF SendRequest
<1> HIDE DEF S
<1>3. /\ nextEventId' \in Nat \ {0}
      /\ Event' = Event \cup {nextEventId}
      /\ delivered' \subseteq Event'
      /\ written' \in [Stream -> SUBSET Event']
  BY <1>1, <1>2, DeliveryTyped
<1> QED
  BY <1>3 DEF SendRequest, TypeOK

\* Every step keeps the types.
LEMMA TypeStep == TypeOK /\ [Next]_vars => TypeOK'
<1> SUFFICES ASSUME TypeOK, [Next]_vars PROVE TypeOK'
  OBVIOUS
<1> USE DEF lifeVars, streamVars, messageVars, askVars, postVars
<1>1. CASE Close /\ listed' \in BOOLEAN
  BY <1>1 DEF TypeOK, Close, AbortAll, RejectAll, Event, messageVars
<1>2. CASE Initialized \/ InitializeFails \/ Clear
  BY <1>2 DEF TypeOK, Initialized, InitializeFails, Clear, Event
<1>3. ASSUME NEW s \in Stream, NEW n \in LastEventIds, OpenStream(s, n)
      PROVE  TypeOK'
  <2>1. n \in Nat \cup {None}
    BY DEF TypeOK, LastEventIds, Event
  <2>2. Due(n) \subseteq Event
    BY DEF Due, Retained
  <2>3. Event' = Event
    BY <1>3 DEF OpenStream, Event
  <2>4. delivered' \subseteq Event /\ written' \in [Stream -> SUBSET Event]
    BY <1>3, <2>2 DEF OpenStream, Replay, TypeOK
  <2>5. /\ opened' \in 0 .. MaxStreams
        /\ live' \subseteq 1 .. opened'
        /\ streams' \subseteq 1 .. opened'
        /\ requestStreams' \subseteq 1 .. opened'
        /\ answerOn' \in [Post -> 1 .. opened' \cup {None}]
        /\ since' \in [Stream -> Nat]
    BY <1>3, OpenedTyped DEF OpenStream
  <2> QED
    BY <1>3, <2>1, <2>3, <2>4, <2>5 DEF TypeOK, OpenStream, Resolve
<1>4. ASSUME NEW s \in Stream, HangUp(s)
      PROVE  TypeOK'
  BY <1>4 DEF TypeOK, HangUp, Event
<1>5. ASSUME NEW p \in Post, PostResolved(p) \/ Answered(p) \/ Cancelled(p) \/ Confirmed(p)
      PROVE  TypeOK'
  BY <1>5 DEF TypeOK, PostResolved, Answered, Cancelled, Confirmed, Resolve, Event
<1>6. ASSUME NEW p \in Post, ExecutePlain(p)
      PROVE  TypeOK'
  BY <1>6 DEF TypeOK, ExecutePlain, Begin, Event
<1>7. ASSUME NEW p \in Post, NEW s \in Stream, ExecuteOnStream(p, s)
      PROVE  TypeOK'
  <2>1. /\ opened' \in 0 .. MaxStreams
        /\ live' \subseteq 1 .. opened'
        /\ streams' \subseteq 1 .. opened'
        /\ requestStreams' \subseteq 1 .. opened'
        /\ since' \in [Stream -> Nat]
    BY <1>7, OpenedTyped DEF ExecuteOnStream, Begin
  <2>2. s \in 1 .. opened'
    BY <1>7, BoundAssumption DEF ExecuteOnStream, Open, Stream
  <2>3. answerOn' \in [Post -> 1 .. opened' \cup {None}]
    BY <1>7, <2>2, OpenedTyped DEF ExecuteOnStream
  <2> QED
    BY <1>7, <2>1, <2>3 DEF TypeOK, ExecuteOnStream, Begin, Event
<1>8. ASSUME NEW p \in Post, Confirm(p)
      PROVE  TypeOK'
  BY <1>8, RequestTyped DEF TypeOK, Confirm
<1>9. ASSUME NEW e \in Event, ClientAnswers(e) \/ TimeOut(e)
      PROVE  TypeOK'
  BY <1>9 DEF TypeOK, ClientAnswers, TimeOut, Resolve, Event
<1>10. CASE Notify
  BY <1>10, DeliveryTyped, TargetsAreStreams DEF TypeOK, Notify
<1>11. CASE RouteUpstreamRequest
  BY <1>11, RequestTyped DEF TypeOK, RouteUpstreamRequest
<1>12. CASE UNCHANGED vars
  BY <1>12 DEF TypeOK, vars, Event
<1> QED
  BY <1>1, <1>2, <1>3, <1>4, <1>5, <1>6, <1>7, <1>8, <1>9, <1>10, <1>11, <1>12
  DEF Next, Execute, Delete, SweepCloses, CloseAll, TypeOK

-----------------------------------------------------------------------------
\* Nothing is sent, and streams only go away.
LEMMA QuietStep ==
  ASSUME TypeOK, Messages,
         UNCHANGED <<opened, from, since, nextEventId, delivered, written, answerOn>>,
         streams' \subseteq streams, streams' \subseteq live',
         requestStreams' \subseteq requestStreams,
         \A p \in Post : pc[p] \in {"running", "confirming", "done"} =>
                           pc'[p] \in {"running", "confirming", "done"}
  PROVE  Messages'
<1> USE DEF Messages
<1>1. Event' = Event /\ Retained' = Retained
  BY DEF Event, Retained
<1>2. NothingLost' /\ OneStream'
  BY DEF NothingLost, OneStream
<1>3. NewestReads'
  BY <1>1 DEF NewestReads, LiveStreams, Bookkeeping
<1>4. WithheldOnlyByResume'
  BY <1>1 DEF WithheldOnlyByResume
<1>5. Bookkeeping'
  BY DEF Bookkeeping
<1> QED
  BY <1>2, <1>3, <1>4, <1>5

\* A message is sent to the newest standalone stream, or to one that answers
\* a POST.
LEMMA DeliveryStep ==
  ASSUME TypeOK, Messages, NEW S \in SUBSET Stream, DeliverTo(S),
         S = LiveStreams \/ (S # {} /\ S \subseteq requestStreams),
         UNCHANGED <<streamVars, answerOn>>,
         \A p \in Post : pc[p] \in {"running", "confirming", "done"} =>
                           pc'[p] \in {"running", "confirming", "done"}
  PROVE  Messages'
<1> USE DEF Messages, streamVars
<1>1. /\ nextEventId' = nextEventId + 1
      /\ nextEventId \in Nat \ {0}
      /\ Event' = Event \cup {nextEventId}
      /\ nextEventId \notin Event
  BY DeliveryTyped, DeliveredToOne DEF TypeOK, Event
<1>2. Retained' \subseteq Retained \cup {nextEventId}
  BY <1>1, LimitAssumption DEF Retained, Event
<1>3. LiveStreams = streams
  BY DEF Bookkeeping, LiveStreams
<1>4. CASE S = {}
  <2>1. UNCHANGED <<delivered, written>> /\ streams = {}
    BY <1>3, <1>4, DeliveredToOne
  <2>2. NothingLost' /\ OneStream'
    BY <2>1 DEF NothingLost, OneStream
  <2>3. NewestReads' /\ WithheldOnlyByResume'
    BY <2>1 DEF NewestReads, LiveStreams, WithheldOnlyByResume
  <2>4. Bookkeeping'
    BY <2>1 DEF Bookkeeping
  <2> QED
    BY <2>2, <2>3, <2>4
<1>5. CASE S # {}
  <2>1. PICK w \in S : /\ \A u \in S : u <= w
                       /\ delivered' = delivered \cup {nextEventId}
                       /\ written' = [written EXCEPT ![w] = @ \cup {nextEventId}]
    BY <1>5, DeliveredToOne
  <2>2. \A s \in Stream :
          written'[s] = IF s = w THEN written[s] \cup {nextEventId} ELSE written[s]
    BY <2>1 DEF TypeOK
  <2>3. \A s \in Stream : nextEventId \notin written[s]
    BY <1>1 DEF TypeOK
  <2>4. w \in 1 .. opened
    BY DEF TypeOK, LiveStreams
  <2>5. NothingLost'
    BY <2>1, <2>2 DEF NothingLost
  <2>6. OneStream'
    <3> SUFFICES ASSUME NEW s \in Stream, NEW u \in Stream, s < u,
                        NEW e \in written'[s] \cap written'[u]
                 PROVE  from[u] # None /\ from[u] < e
      BY DEF OneStream
    <3>1. s # u
      BY DEF Stream
    <3>2. e \in written[s] \cap written[u]
      BY <2>2, <2>3, <3>1
    <3> QED
      BY <3>2 DEF OneStream
  <2>7. NewestReads'
    <3> SUFFICES ASSUME NEW s \in LiveStreams, NEW e \in Event', e >= since[s]
                 PROVE  \E u \in Stream : /\ u >= s \/ \E p \in Post : answerOn[p] = u
                                          /\ e \in written'[u]
      BY DEF NewestReads, LiveStreams
    <3>1. CASE e \in Event
      BY <2>2, <3>1 DEF NewestReads
    <3>2. CASE e = nextEventId
      <4>1. w \in Stream /\ e \in written'[w]
        BY <2>2, <3>2
      <4>2. w >= s \/ \E p \in Post : answerOn[p] = w
        BY <2>1, <2>4, TargetsAreStreams DEF Bookkeeping, Stream
      <4> QED
        BY <4>1, <4>2
    <3> QED
      BY <1>1, <3>1, <3>2
  <2>8. WithheldOnlyByResume'
    BY <1>2, <2>1 DEF WithheldOnlyByResume
  <2>9. Bookkeeping'
    <3>1. \A s \in Stream : s > opened => s # w
      BY <2>4, BoundAssumption DEF TypeOK, Stream
    <3> QED
      BY <2>1, <2>2, <3>1 DEF Bookkeeping
  <2> QED
    BY <2>5, <2>6, <2>7, <2>8, <2>9
<1> QED
  BY <1>4, <1>5

\* sendRequest is one such delivery.
LEMMA RequestStep ==
  ASSUME TypeOK, Messages, SendRequest, UNCHANGED <<streamVars, answerOn>>,
         \A p \in Post : pc[p] \in {"running", "confirming", "done"} =>
                           pc'[p] \in {"running", "confirming", "done"}
  PROVE  Messages'
<1> DEFINE S == IF LiveRequestStreams # {} THEN LiveRequestStreams ELSE LiveStreams
<1>1. S \in SUBSET Stream
  BY TargetsAreStreams
<1>2. DeliverTo(S)
  BY DEF SendRequest
<1>3. S = LiveStreams \/ (S # {} /\ S \subseteq requestStreams)
  BY DEF LiveRequestStreams
<1> HIDE DEF S
<1> QED
  BY <1>1, <1>2, <1>3, DeliveryStep

\* A client opens a stream: what is due is written to it.
LEMMA ResumeStep ==
  ASSUME TypeOK, Messages, NEW s \in Stream, NEW n \in LastEventIds, OpenStream(s, n)
  PROVE  Messages'
<1> USE DEF Messages
<1>1. /\ s = opened + 1
      /\ opened' = s
      /\ live' = live \cup {s}
      /\ streams' = streams \cup {s}
      /\ since' = [since EXCEPT ![s] = nextEventId]
      /\ from' = [from EXCEPT ![s] = n]
      /\ written' = [written EXCEPT ![s] = @ \cup Due(n)]
      /\ delivered' = delivered \cup Due(n)
      /\ UNCHANGED <<requestStreams, nextEventId, pc, answerOn>>
  BY DEF OpenStream, Open, Replay, postVars
<1>2. Event' = Event /\ Retained' = Retained
  BY <1>1 DEF Event, Retained
<1>3. written[s] = {}
  BY <1>1 DEF Bookkeeping, TypeOK, Stream
<1>4. /\ written'[s] = Due(n) /\ from'[s] = n /\ since'[s] = nextEventId
      /\ \A u \in Stream : u # s =>
           written'[u] = written[u] /\ from'[u] = from[u] /\ since'[u] = since[u]
  BY <1>1, <1>3 DEF TypeOK
<1>5. \A u \in 1 .. opened : u \in Stream /\ u # s
  BY <1>1, BoundAssumption DEF TypeOK, Stream
<1>6. NothingLost'
  BY <1>1, <1>3, <1>4 DEF NothingLost
<1>7. OneStream'
  <2> SUFFICES ASSUME NEW v \in Stream, NEW u \in Stream, v < u,
                      NEW e \in written'[v] \cap written'[u]
               PROVE  from'[u] # None /\ from'[u] < e
    BY DEF OneStream
  <2>1. CASE u = s
    <3>1. e \in written[v] /\ e \in Due(n) /\ from'[u] = n
      BY <1>4, <2>1 DEF Stream
    <3>2. e \in delivered
      BY <3>1 DEF Bookkeeping
    <3> QED
      BY <3>1, <3>2 DEF Due
  <2>2. CASE v = s
    <3>1. u > opened
      BY <1>1, <2>2 DEF TypeOK, Stream
    <3>2. written'[u] = {}
      BY <1>4, <2>2, <3>1 DEF Bookkeeping, Stream
    <3> QED
      BY <3>2
  <2>3. CASE u # s /\ v # s
    BY <1>4, <2>3 DEF OneStream
  <2> QED
    BY <2>1, <2>2, <2>3
<1>8. NewestReads'
  <2> SUFFICES ASSUME NEW v \in LiveStreams', NEW e \in Event, e >= since'[v]
               PROVE  \E u \in Stream : /\ u >= v \/ \E p \in Post : answerOn[p] = u
                                        /\ e \in written'[u]
    BY <1>1, <1>2 DEF NewestReads
  <2>1. CASE v = s
    BY <1>4, <2>1 DEF Event, TypeOK
  <2>2. CASE v # s
    <3>1. v \in LiveStreams /\ e >= since[v]
      BY <1>1, <1>4, <1>5, <2>2 DEF LiveStreams, TypeOK
    <3>2. PICK u \in Stream : /\ u >= v \/ \E p \in Post : answerOn[p] = u
                              /\ e \in written[u]
      BY <3>1 DEF NewestReads
    <3>3. e \in written'[u]
      BY <1>3, <1>4, <3>2
    <3> QED
      BY <3>2, <3>3
  <2> QED
    BY <2>1, <2>2
<1>9. WithheldOnlyByResume'
  <2> SUFFICES ASSUME NEW v \in streams', NEW e \in Retained \ delivered'
               PROVE  from'[v] # None /\ e <= from'[v]
    BY <1>2 DEF WithheldOnlyByResume
  <2>1. CASE v = s
    <3>1. e \notin Due(n) /\ e \notin delivered /\ e \in Nat /\ from'[v] = n
      BY <1>1, <1>4, <2>1 DEF Retained, Event
    <3>2. n \in Nat \cup {None}
      BY DEF LastEventIds, TypeOK, Event
    <3> QED
      BY <3>1, <3>2 DEF Due
  <2>2. CASE v # s
    <3>1. v \in streams /\ from'[v] = from[v]
      BY <1>1, <1>4, <1>5, <2>2 DEF TypeOK
    <3> QED
      BY <1>1, <3>1 DEF WithheldOnlyByResume
  <2> QED
    BY <2>1, <2>2
<1>10. Bookkeeping'
  <2>1. \A u \in Stream : u > opened' => written'[u] = {}
    BY <1>1, <1>4 DEF Bookkeeping, TypeOK, Stream
  <2>2. \A p \in Post : answerOn'[p] \notin streams'
    BY <1>1, <1>5, NoneAssumption DEF Bookkeeping, TypeOK, Stream
  <2> QED
    BY <1>1, <1>4, <2>1, <2>2 DEF Bookkeeping
<1> QED
  BY <1>6, <1>7, <1>8, <1>9, <1>10

\* A POST is answered on a stream of its own.
LEMMA AnswerStep ==
  ASSUME TypeOK, Messages, NEW p \in Post, NEW s \in Stream, ExecuteOnStream(p, s)
  PROVE  Messages'
<1> USE DEF Messages
<1>1. /\ s = opened + 1
      /\ opened' = s
      /\ live' = live \cup {s}
      /\ since' = [since EXCEPT ![s] = nextEventId]
      /\ requestStreams' = requestStreams \cup {s}
      /\ answerOn' = [answerOn EXCEPT ![p] = s]
      /\ pc[p] = "resolved"
      /\ pc' = [pc EXCEPT ![p] = "running"]
      /\ UNCHANGED <<streams, from, nextEventId, delivered, written>>
  BY DEF ExecuteOnStream, Begin, Open, messageVars
<1>2. Event' = Event /\ Retained' = Retained
  BY <1>1 DEF Event, Retained
<1>3. \A u \in 1 .. opened : u \in Stream /\ u # s
  BY <1>1, BoundAssumption DEF TypeOK, Stream
<1>4. answerOn[p] = None
  BY <1>1 DEF Bookkeeping
<1>5. NothingLost' /\ OneStream'
  BY <1>1 DEF NothingLost, OneStream
<1>6. NewestReads'
  <2> SUFFICES ASSUME NEW v \in LiveStreams', NEW e \in Event, e >= since'[v]
               PROVE  \E u \in Stream : /\ u >= v \/ \E q \in Post : answerOn'[q] = u
                                        /\ e \in written[u]
    BY <1>1, <1>2 DEF NewestReads
  <2>1. v \in LiveStreams /\ since'[v] = since[v]
    BY <1>1, <1>3 DEF LiveStreams, TypeOK
  <2>2. PICK u \in Stream : /\ u >= v \/ \E q \in Post : answerOn[q] = u
                            /\ e \in written[u]
    BY <2>1 DEF NewestReads
  <2>3. ASSUME NEW q \in Post, answerOn[q] = u
        PROVE  answerOn'[q] = u
    BY <1>1, <1>4, <2>3, NoneAssumption DEF TypeOK, Stream
  <2> QED
    BY <2>2, <2>3
<1>7. WithheldOnlyByResume'
  BY <1>1, <1>2 DEF WithheldOnlyByResume
<1>8. Bookkeeping'
  <2>1. \A u \in Stream : u > opened' => written'[u] = {}
    BY <1>1 DEF Bookkeeping, TypeOK, Stream
  <2>2. s \notin streams
    BY <1>3 DEF TypeOK
  <2>3. \A q \in Post : answerOn'[q] = IF q = p THEN s ELSE answerOn[q]
    BY <1>1 DEF TypeOK
  <2>4. \A u \in requestStreams' : \E q \in Post : answerOn'[q] = u
    BY <1>1, <1>4, <2>3, NoneAssumption DEF Bookkeeping, TypeOK
  <2> QED
    BY <1>1, <2>1, <2>2, <2>3, <2>4 DEF Bookkeeping, TypeOK
<1> QED
  BY <1>5, <1>6, <1>7, <1>8

\* Every step keeps what is said of the messages.
LEMMA MessageStep == TypeOK /\ Messages /\ [Next]_vars => Messages'
<1> SUFFICES ASSUME TypeOK, Messages, [Next]_vars PROVE Messages'
  OBVIOUS
<1> USE DEF lifeVars, streamVars, messageVars, askVars, postVars
<1>0. streams \subseteq live /\ \A p \in Post : answerOn[p] \notin streams
  BY DEF Messages, Bookkeeping
<1>1. CASE Close
  BY <1>1, QuietStep DEF Close, AbortAll, RejectAll
<1>2. CASE Initialized \/ InitializeFails \/ Clear
  BY <1>0, <1>2, QuietStep DEF Initialized, InitializeFails, Clear
<1>3. ASSUME NEW s \in Stream, NEW n \in LastEventIds, OpenStream(s, n)
      PROVE  Messages'
  BY <1>3, ResumeStep
<1>4. ASSUME NEW s \in Stream, HangUp(s)
      PROVE  Messages'
  BY <1>0, <1>4, QuietStep DEF HangUp
<1>5. ASSUME NEW p \in Post, PostResolved(p) \/ Confirmed(p) \/ ExecutePlain(p)
      PROVE  Messages'
  <2>1. \A q \in Post : pc[q] \in {"running", "confirming", "done"} =>
                          pc'[q] \in {"running", "confirming", "done"}
    BY <1>5 DEF TypeOK, PostResolved, Confirmed, ExecutePlain, Begin
  <2> QED
    BY <1>0, <1>5, <2>1, QuietStep
    DEF PostResolved, Confirmed, ExecutePlain, Begin, Resolve
<1>6. ASSUME NEW p \in Post, Answered(p)
      PROVE  Messages'
  <2>1. \A q \in Post : pc[q] \in {"running", "confirming", "done"} =>
                          pc'[q] \in {"running", "confirming", "done"}
    BY <1>6 DEF TypeOK, Answered
  <2> QED
    BY <1>0, <1>6, <2>1, QuietStep DEF Answered
<1>7. ASSUME NEW p \in Post, Cancelled(p)
      PROVE  Messages'
  BY <1>0, <1>7, QuietStep DEF Cancelled, Resolve
<1>8. ASSUME NEW p \in Post, NEW s \in Stream, ExecuteOnStream(p, s)
      PROVE  Messages'
  BY <1>8, AnswerStep
<1>9. ASSUME NEW p \in Post, Confirm(p)
      PROVE  Messages'
  <2>1. \A q \in Post : pc[q] \in {"running", "confirming", "done"} =>
                          pc'[q] \in {"running", "confirming", "done"}
    BY <1>9 DEF TypeOK, Confirm
  <2> QED
    BY <1>9, <2>1, RequestStep DEF Confirm
<1>10. ASSUME NEW e \in Event, ClientAnswers(e) \/ TimeOut(e)
      PROVE  Messages'
  BY <1>0, <1>10, QuietStep DEF ClientAnswers, TimeOut, Resolve
<1>11. CASE Notify
  BY <1>11, DeliveryStep, TargetsAreStreams DEF Notify
<1>12. CASE RouteUpstreamRequest
  BY <1>12, RequestStep DEF RouteUpstreamRequest
<1>13. CASE UNCHANGED vars
  BY <1>0, <1>13, QuietStep DEF vars
<1> QED
  BY <1>1, <1>2, <1>3, <1>4, <1>5, <1>6, <1>7, <1>8, <1>9, <1>10, <1>11, <1>12, <1>13
  DEF Next, Execute, Delete, SweepCloses, CloseAll

-----------------------------------------------------------------------------
\* sendRequest puts the message on a stream, since there is one.
LEMMA RequestWritten ==
  ASSUME TypeOK, SendRequest
  PROVE  /\ pending' = pending \cup {nextEventId}
         /\ waiting' = waiting \cup {nextEventId}
         /\ \E w \in Stream : written' = [written EXCEPT ![w] = @ \cup {nextEventId}]
<1> DEFINE S == IF LiveRequestStreams # {} THEN LiveRequestStreams ELSE LiveStreams
<1>1. S \in SUBSET Stream /\ S # {}
  BY TargetsAreStreams DEF SendRequest, HasStream
<1>2. DeliverTo(S)
  BY DEF SendRequest
<1> HIDE DEF S
<1> QED
  BY <1>1, <1>2, DeliveredToOne DEF SendRequest

\* Every step keeps who waits for the client apart from who nobody answers.
LEMMA AskStep == TypeOK /\ AskedAndTimed /\ [Next]_vars => AskedAndTimed'
<1> SUFFICES ASSUME TypeOK, AskedAndTimed, [Next]_vars PROVE AskedAndTimed'
  OBVIOUS
<1> USE DEF lifeVars, streamVars, messageVars, askVars, postVars, AskedAndTimed
<1>1. CASE Close
  BY <1>1 DEF Close, RejectAll
<1>2. CASE UNCHANGED <<written, askVars>>
  BY <1>2
<1>3. ASSUME NEW s \in Stream, NEW n \in LastEventIds, OpenStream(s, n)
      PROVE  AskedAndTimed'
  BY <1>3 DEF OpenStream, Replay, TypeOK
<1>4. CASE SendRequest
  <2>1. PICK w \in Stream : written' = [written EXCEPT ![w] = @ \cup {nextEventId}]
    BY <1>4, RequestWritten
  <2> QED
    BY <1>4, <2>1, RequestWritten DEF TypeOK
<1>5. ASSUME NEW e \in Event, ClientAnswers(e) \/ TimeOut(e)
      PROVE  AskedAndTimed'
  BY <1>5 DEF ClientAnswers, TimeOut
<1>6. CASE Notify
  <2>1. UNCHANGED askVars
    BY <1>6 DEF Notify
  <2>2. \A s \in Stream : written[s] \subseteq written'[s]
    <3>1. CASE LiveStreams = {}
      BY <1>6, <3>1, DeliveredToOne, TargetsAreStreams DEF Notify
    <3>2. CASE LiveStreams # {}
      <4>1. PICK w \in LiveStreams : written' = [written EXCEPT ![w] = @ \cup {nextEventId}]
        BY <1>6, <3>2, DeliveredToOne, TargetsAreStreams DEF Notify
      <4> QED
        BY <4>1 DEF TypeOK
    <3> QED
      BY <3>1, <3>2
  <2> QED
    BY <2>1, <2>2
<1> QED
  BY <1>1, <1>2, <1>3, <1>4, <1>5, <1>6
  DEF Next, vars, Initialized, InitializeFails, HangUp, PostResolved, Execute,
      ExecutePlain, ExecuteOnStream, Begin, Answered, Cancelled, Confirm, Confirmed,
      RouteUpstreamRequest, Delete, SweepCloses, CloseAll, Clear

\* Every step keeps a running request within reach of whoever stops it.
LEMMA CancelStep == TypeOK /\ StillCancellable /\ [Next]_vars => StillCancellable'
<1> SUFFICES ASSUME TypeOK, StillCancellable, [Next]_vars PROVE StillCancellable'
  OBVIOUS
<1> USE DEF lifeVars, streamVars, messageVars, askVars, postVars, StillCancellable
<1>1. CASE Close
  BY <1>1 DEF Close, AbortAll
<1>2. CASE UNCHANGED <<closed, postVars>>
  BY <1>2
<1>3. ASSUME NEW s \in Stream, HangUp(s)
      PROVE  StillCancellable'
  BY <1>3 DEF HangUp
<1>4. ASSUME NEW p \in Post, PostResolved(p) \/ Answered(p) \/ Cancelled(p)
      PROVE  StillCancellable'
  BY <1>4 DEF PostResolved, Answered, Cancelled, Resolve, TypeOK
<1>5. ASSUME NEW p \in Post, Begin(p)
      PROVE  StillCancellable'
  BY <1>5 DEF Begin, TypeOK
<1>6. ASSUME NEW p \in Post, Confirm(p) \/ Confirmed(p)
      PROVE  StillCancellable'
  BY <1>6 DEF Confirm, Confirmed, TypeOK
<1> QED
  BY <1>1, <1>2, <1>3, <1>4, <1>5, <1>6
  DEF Next, vars, Initialized, InitializeFails, OpenStream, Execute, ExecutePlain,
      ExecuteOnStream, ClientAnswers, TimeOut, Resolve, Notify, RouteUpstreamRequest,
      Delete, SweepCloses, CloseAll, Clear

-----------------------------------------------------------------------------
\* The initial state satisfies the invariant.
LEMMA InitHolds == Init => IInv
<1> SUFFICES ASSUME Init PROVE IInv
  OBVIOUS
<1>1. TypeOK
  <2>0. listed \in BOOLEAN /\ ready \in BOOLEAN /\ closed \in BOOLEAN
    BY DEF Init
  <2>1. /\ opened \in 0 .. MaxStreams
        /\ live \subseteq 1 .. opened
        /\ streams \subseteq 1 .. opened
        /\ requestStreams \subseteq 1 .. opened
        /\ from \in [Stream -> Nat \cup {None}]
        /\ since \in [Stream -> Nat]
    BY BoundAssumption DEF Init
  <2>2. /\ nextEventId \in Nat \ {0}
        /\ delivered \subseteq Event
        /\ written \in [Stream -> SUBSET Event]
        /\ pending \subseteq Event
        /\ waiting \subseteq Event
    BY DEF Init
  <2>3. /\ pc \in [Post -> {"new", "resolved", "running", "confirming", "done"}]
        /\ answerOn \in [Post -> 1 .. opened \cup {None}]
        /\ asks \in [Post -> Event \cup {None}]
        /\ inFlight \subseteq Post
        /\ aborted \subseteq Post
        /\ late \subseteq Post
    BY DEF Init
  <2> QED
    BY <2>0, <2>1, <2>2, <2>3 DEF TypeOK
<1>2. Messages
  BY DEF Init, Messages, NothingLost, OneStream, NewestReads, LiveStreams,
         WithheldOnlyByResume, Bookkeeping
<1>3. AskedAndTimed /\ StillCancellable
  BY DEF Init, AskedAndTimed, StillCancellable
<1> QED
  BY <1>1, <1>2, <1>3 DEF IInv

\* The invariant holds in every state the specification reaches.
LEMMA Invariant == Spec => []IInv
<1>1. IInv /\ [Next]_vars => IInv'
  BY TypeStep, MessageStep, AskStep, CancelStep DEF IInv
<1> QED
  BY InitHolds, <1>1, PTL DEF Spec

\* The variables have their types, whatever the bounds.
THEOREM TypeCorrect == Spec => []TypeOK
<1>1. IInv => TypeOK
  BY DEF IInv
<1> QED
  BY Invariant, <1>1, PTL

\* What is marked delivered was carried by a stream.
THEOREM KeptUntilCarried == Spec => []NothingLost
<1>1. IInv => NothingLost
  BY DEF IInv, Messages
<1> QED
  BY Invariant, <1>1, PTL

\* A message is on two streams only at the wish of the client.
THEOREM CarriedOnce == Spec => []OneStream
<1>1. IInv => OneStream
  BY DEF IInv, Messages
<1> QED
  BY Invariant, <1>1, PTL

\* What is sent after a stream was opened is never on older ones only.
THEOREM NewestCarries == Spec => []NewestReads
<1>1. IInv => NewestReads
  BY DEF IInv, Messages
<1> QED
  BY Invariant, <1>1, PTL

\* A message waits beside an open stream only when that was resumed past it.
THEOREM WithheldBelowResume == Spec => []WithheldOnlyByResume
<1>1. IInv => WithheldOnlyByResume
  BY DEF IInv, Messages
<1> QED
  BY Invariant, <1>1, PTL

\* Whoever waits for the client has a timer, and the client was asked.
THEOREM AskedAndAwaited == Spec => []AskedAndTimed
<1>1. IInv => AskedAndTimed
  BY DEF IInv
<1> QED
  BY Invariant, <1>1, PTL

\* A running request is aborted or within reach of a cancellation.
THEOREM WithinReach == Spec => []StillCancellable
<1>1. IInv => StillCancellable
  BY DEF IInv
<1> QED
  BY Invariant, <1>1, PTL


-----------------------------------------------------------------------------
(***************************************************************************)
(* What a Last-Event-ID says                                               *)
(***************************************************************************)

\* Whatever a stream carries comes after all it has carried.
IdsAscend == \A s \in Stream : \A e \in written'[s] \ written[s] : \A d \in written[s] : d < e

\* A stream carries nothing its client had when it was opened.
NoneTwice ==
  \A s \in Stream : from[s] # None => from[s] < nextEventId /\ \A e \in written[s] : from[s] < e

\* What a step may make of what streams carry: nothing, the next message on some
\* stream, or what a new one is opened with.
CarriesOn(s) ==
  /\ written' = [written EXCEPT ![s] = @ \cup {nextEventId}]
  /\ nextEventId' = nextEventId + 1
  /\ from' = from
Resumes(s, n) ==
  /\ s = opened + 1
  /\ from' = [from EXCEPT ![s] = n]
  /\ written' = [written EXCEPT ![s] = @ \cup Due(n)]
  /\ nextEventId' = nextEventId
CarriesNone ==
  written' = written /\ from' = from /\ (nextEventId' = nextEventId \/ nextEventId' = nextEventId + 1)
StreamsMove ==
  \/ CarriesNone
  \/ \E s \in Stream : CarriesOn(s)
  \/ \E s \in Stream, n \in LastEventIds : Resumes(s, n)

LEMMA DeliveryMoves ==
  ASSUME TypeOK, NEW S \in SUBSET Stream, DeliverTo(S), from' = from
  PROVE  StreamsMove
BY DeliveredToOne DEF StreamsMove, CarriesNone, CarriesOn

LEMMA StepMoves == TypeOK /\ [Next]_vars => StreamsMove
<1> SUFFICES ASSUME TypeOK, [Next]_vars PROVE StreamsMove
  OBVIOUS
<1> USE DEF lifeVars, streamVars, messageVars, askVars, postVars
<1>1. CASE UNCHANGED <<written, from, nextEventId>>
  BY <1>1 DEF StreamsMove, CarriesNone
<1>2. ASSUME NEW s \in Stream, NEW n \in LastEventIds, OpenStream(s, n)
      PROVE  StreamsMove
  BY <1>2 DEF OpenStream, Open, Replay, Resumes, StreamsMove
<1>3. CASE Notify
  BY <1>3, DeliveryMoves, TargetsAreStreams DEF Notify
<1>4. CASE SendRequest /\ from' = from
  <2> DEFINE S == IF LiveRequestStreams # {} THEN LiveRequestStreams ELSE LiveStreams
  <2>1. S \in SUBSET Stream
    BY TargetsAreStreams
  <2>2. DeliverTo(S)
    BY <1>4 DEF SendRequest
  <2> HIDE DEF S
  <2> QED BY <1>4, <2>1, <2>2, DeliveryMoves
<1>5. ASSUME NEW p \in Post, Confirm(p)
      PROVE  StreamsMove
  BY <1>4, <1>5 DEF Confirm
<1>6. CASE RouteUpstreamRequest
  BY <1>4, <1>6 DEF RouteUpstreamRequest
<1>7. CASE Close
  BY <1>1, <1>7 DEF Close
<1>8. ASSUME NEW p \in Post,
             PostResolved(p) \/ Execute(p) \/ Answered(p) \/ Cancelled(p) \/ Confirmed(p)
      PROVE  StreamsMove
  BY <1>1, <1>8
  DEF PostResolved, Execute, ExecutePlain, ExecuteOnStream, Begin, Answered, Cancelled,
      Confirmed, Resolve
<1>9. CASE \/ Initialized \/ InitializeFails \/ Clear \/ UNCHANGED vars
           \/ \E s \in Stream : HangUp(s)
           \/ \E e \in Event : ClientAnswers(e) \/ TimeOut(e)
  BY <1>1, <1>9 DEF Initialized, InitializeFails, Clear, HangUp, ClientAnswers, TimeOut, Resolve, vars
<1> QED
  BY <1>2, <1>3, <1>5, <1>6, <1>7, <1>8, <1>9 DEF Next, Delete, SweepCloses, CloseAll

LEMMA ResumesInOrder == IInv /\ NoneTwice /\ StreamsMove => IdsAscend /\ NoneTwice'
<1> SUFFICES ASSUME IInv, NoneTwice, StreamsMove PROVE IdsAscend /\ NoneTwice'
  OBVIOUS
<1>1. /\ nextEventId \in Nat /\ opened \in Nat
      /\ written \in [Stream -> SUBSET Event] /\ from \in [Stream -> Nat \cup {None}]
      /\ \A s \in Stream : s > opened => written[s] = {}
  BY DEF IInv, TypeOK, Messages, Bookkeeping
<1>2. \A e \in Event : e \in Nat /\ e < nextEventId
  BY <1>1 DEF Event
<1>3. CASE CarriesNone
  BY <1>1, <1>3 DEF CarriesNone, IdsAscend, NoneTwice
<1>4. ASSUME NEW s \in Stream, CarriesOn(s) PROVE IdsAscend /\ NoneTwice'
  <2>1. \A u \in Stream : written'[u] = written[u] \cup (IF u = s THEN {nextEventId} ELSE {})
    BY <1>1, <1>4 DEF CarriesOn
  <2>2. IdsAscend
    BY <1>1, <1>2, <2>1 DEF IdsAscend
  <2>3. NoneTwice'
    BY <1>1, <1>4, <2>1 DEF NoneTwice, CarriesOn
  <2> QED BY <2>2, <2>3
<1>5. ASSUME NEW s \in Stream, NEW n \in LastEventIds, Resumes(s, n) PROVE IdsAscend /\ NoneTwice'
  <2>1. s > opened /\ written[s] = {}
    BY <1>1, <1>5 DEF Resumes, Stream
  <2>2. \A u \in Stream : /\ written'[u] = (IF u = s THEN Due(n) ELSE written[u])
                          /\ from'[u] = (IF u = s THEN n ELSE from[u])
    BY <1>1, <1>5, <2>1 DEF Resumes
  <2>3. IdsAscend
    BY <2>1, <2>2 DEF IdsAscend
  <2>4. n # None => n < nextEventId
    <3>1. n # None => n = 0 \/ n \in Event
      BY <1>1 DEF LastEventIds
    <3>2. 0 < nextEventId
      BY DEF IInv, TypeOK
    <3> QED BY <1>2, <3>1, <3>2
  <2>5. n # None => \A e \in Due(n) : n < e
    <3>1. n # None => n \in Nat
      BY <1>1, <1>2 DEF LastEventIds
    <3> QED BY <1>2, <3>1 DEF Due, Retained
  <2>6. nextEventId' = nextEventId
    BY <1>5 DEF Resumes
  <2> QED BY <2>2, <2>3, <2>4, <2>5, <2>6 DEF NoneTwice
<1> QED BY <1>3, <1>4, <1>5 DEF StreamsMove

LEMMA NoneTwiceHolds == Spec => [](IInv /\ NoneTwice)
<1>1. Init => NoneTwice
  BY DEF Init, NoneTwice
<1>2. IInv /\ NoneTwice /\ [Next]_vars => NoneTwice'
  BY StepMoves, ResumesInOrder DEF IInv
<1> QED BY <1>1, <1>2, Invariant, PTL DEF Spec

\* The last id a client has read on a stream stands for all it has read there:
\* ids ascend on every stream, those written when it was resumed included, so
\* what follows the id is what the client missed (attachStream, deliver).
THEOREM LastIdStandsForAll == Spec => [][IdsAscend]_vars
<1>1. IInv /\ NoneTwice /\ [Next]_vars => IdsAscend
  BY StepMoves, ResumesInOrder DEF IInv
<1> QED BY <1>1, NoneTwiceHolds, PTL DEF Spec

\* A client that resumes is not given on that stream, then or later, what is not
\* after the id it resumed from: it acts on no message twice (attachStream).
THEOREM ResumedWithoutRepeats == Spec => []NoneTwice
<1>1. IInv /\ NoneTwice => NoneTwice
  OBVIOUS
<1> QED BY <1>1, NoneTwiceHolds, PTL
=============================================================================
