----------------------- MODULE UpstreamSessions_proofs -----------------------
(***************************************************************************)
(* The invariants of UpstreamSessions for every set of keys, attempts and  *)
(* releasers.  They are inductive together with what Bookkeeping adds: an  *)
(* entry and a registration stand under their own key, a copy of the       *)
(* entries holds nothing but sessions that were open, and a token still    *)
(* registered was never dropped.                                           *)
(***************************************************************************)
EXTENDS UpstreamSessions, TLAPS

Bookkeeping ==
  /\ \A k \in Key : entries[k] # Undefined => keyOf[entries[k]] = k
  /\ \A k \in Key : openings[k] # Undefined => dropped[openings[k]] = "no"
  /\ \A a \in Attempt : stage[a] # "unused" => keyOf[a] \in Key
  /\ \A a \in Attempt : stage[a] = "unused" => dropped[a] = "no"
  /\ \A r \in Releaser : \A a \in todo[r] : stage[a] \in {"open", "closed"}

IInv ==
  SessionsTypeOK /\ HandsOutOpen /\ SharedAttempt /\ ReleasedWhileConnecting /\ Bookkeeping

\* One turn of a release loop, whatever copy it works on, keeps the entries
\* apart from the sessions it closes.
LEMMA CloseNextKeeps ==
  ASSUME IInv, NEW r \in Releaser, NEW left \in SUBSET Attempt,
         \A a \in left : stage[a] \in {"open", "closed"},
         CloseNext(r, left), keyOf' = keyOf
  PROVE  /\ entries' \in [Key -> Attempt \cup {Undefined}]
         /\ stage' \in [Attempt -> Stage]
         /\ todo' \in [Releaser -> SUBSET Attempt]
         /\ awaiting' \in [Releaser -> BOOLEAN]
         /\ HandsOutOpen'
         /\ \A k \in Key : entries'[k] # Undefined => keyOf'[entries'[k]] = k
         /\ \A q \in Releaser : \A a \in todo'[q] : stage'[a] \in {"open", "closed"}
         /\ \A a \in Attempt : \/ stage'[a] = stage[a]
                               \/ stage[a] \in {"open", "closed"} /\ stage'[a] = "closed"
<1> USE UndefinedAssumption DEF IInv, SessionsTypeOK, HandsOutOpen, Bookkeeping, Stage
<1>1. CASE /\ left = {}
           /\ todo' = [todo EXCEPT ![r] = {}]
           /\ awaiting' = [awaiting EXCEPT ![r] = FALSE]
           /\ UNCHANGED <<entries, stage>>
  BY <1>1
<1>2. ASSUME NEW a \in left,
             entries' = [entries EXCEPT ![keyOf[a]] = Undefined],
             stage' = [stage EXCEPT ![a] = "closed"],
             todo' = [todo EXCEPT ![r] = left \ {a}],
             awaiting' = [awaiting EXCEPT ![r] = TRUE]
      PROVE  /\ entries' \in [Key -> Attempt \cup {Undefined}]
             /\ stage' \in [Attempt -> Stage]
             /\ todo' \in [Releaser -> SUBSET Attempt]
             /\ awaiting' \in [Releaser -> BOOLEAN]
             /\ HandsOutOpen'
             /\ \A k \in Key : entries'[k] # Undefined => keyOf'[entries'[k]] = k
             /\ \A q \in Releaser : \A b \in todo'[q] : stage'[b] \in {"open", "closed"}
             /\ \A b \in Attempt : \/ stage'[b] = stage[b]
                                   \/ stage[b] \in {"open", "closed"} /\ stage'[b] = "closed"
  <2>1. a \in Attempt /\ keyOf[a] \in Key
    BY <1>2
  <2>2. entries' \in [Key -> Attempt \cup {Undefined}] /\ stage' \in [Attempt -> Stage]
    BY <1>2, <2>1
  <2>3. todo' \in [Releaser -> SUBSET Attempt] /\ awaiting' \in [Releaser -> BOOLEAN]
    BY <1>2
  <2>4. \A k \in Key : entries'[k] # Undefined => entries'[k] = entries[k] /\ entries[k] # a
    BY <1>2, <2>1
  <2>5. HandsOutOpen' /\ \A k \in Key : entries'[k] # Undefined => keyOf'[entries'[k]] = k
    BY <1>2, <2>1, <2>4
  <2>6. \A q \in Releaser : \A b \in todo'[q] : stage'[b] \in {"open", "closed"}
    BY <1>2, <2>1
  <2>7. \A b \in Attempt : \/ stage'[b] = stage[b]
                           \/ stage[b] \in {"open", "closed"} /\ stage'[b] = "closed"
    BY <1>2, <2>1
  <2> QED BY <2>2, <2>3, <2>5, <2>6, <2>7
<1> QED BY <1>1, <1>2 DEF CloseNext

LEMMA Initially == SessionsInit => IInv
BY UndefinedAssumption DEF SessionsInit, IInv, SessionsTypeOK, Stage, HandsOutOpen, SharedAttempt,
   ReleasedWhileConnecting, Bookkeeping

LEMMA Inductive == IInv /\ [SessionsNext]_sessionVars => IInv'
<1> SUFFICES ASSUME IInv, [SessionsNext]_sessionVars PROVE IInv'
  OBVIOUS
<1> USE UndefinedAssumption DEF IInv, SessionsTypeOK, Stage
<1>1. ASSUME NEW k \in Key, NEW a \in Attempt, Acquire(k, a) PROVE IInv'
  BY <1>1 DEF Acquire, HandsOutOpen, SharedAttempt, ReleasedWhileConnecting,
     Bookkeeping, releaseVars
<1>2. ASSUME NEW a \in Attempt, Connected(a) PROVE IInv'
  BY <1>2 DEF Connected, TokenKept, HandsOutOpen, SharedAttempt,
     ReleasedWhileConnecting, Bookkeeping, mapVars, releaseVars
<1>3. ASSUME NEW a \in Attempt, ConnectRejected(a) PROVE IInv'
  BY <1>3 DEF ConnectRejected, HandsOutOpen, SharedAttempt,
     ReleasedWhileConnecting, Bookkeeping, mapVars, releaseVars
<1>4. ASSUME NEW a \in Attempt, AttemptClosed(a) PROVE IInv'
  BY <1>4 DEF AttemptClosed, Settle, HandsOutOpen, SharedAttempt,
     ReleasedWhileConnecting, Bookkeeping, releaseVars
<1>5. ASSUME NEW a \in Attempt, Persisted(a) PROVE IInv'
  BY <1>5 DEF Persisted, Settle, HandsOutOpen, SharedAttempt,
     ReleasedWhileConnecting, Bookkeeping, releaseVars
<1>6. ASSUME NEW a \in Attempt, PersistFails(a) PROVE IInv'
  BY <1>6 DEF PersistFails, Settle, HandsOutOpen, SharedAttempt,
     ReleasedWhileConnecting, Bookkeeping, releaseVars
<1>7. ASSUME NEW r \in Releaser, NEW S \in Scope, Release(r, S) PROVE IInv'
  <2> DEFINE copy == {entries[k] : k \in S} \ {Undefined}
  <2>1. S \subseteq Key
    BY ScopeAssumption
  <2>2. copy \in SUBSET Attempt /\ \A a \in copy : stage[a] \in {"open", "closed"}
    BY <2>1 DEF HandsOutOpen
  <2>3. CloseNext(r, copy) /\ keyOf' = keyOf
    BY <1>7 DEF Release
  <2> HIDE DEF copy
  <2>4. /\ entries' \in [Key -> Attempt \cup {Undefined}]
        /\ stage' \in [Attempt -> Stage]
        /\ todo' \in [Releaser -> SUBSET Attempt]
        /\ awaiting' \in [Releaser -> BOOLEAN]
        /\ HandsOutOpen'
        /\ \A k \in Key : entries'[k] # Undefined => keyOf'[entries'[k]] = k
        /\ \A q \in Releaser : \A a \in todo'[q] : stage'[a] \in {"open", "closed"}
        /\ \A a \in Attempt : \/ stage'[a] = stage[a]
                              \/ stage[a] \in {"open", "closed"} /\ stage'[a] = "closed"
    BY <2>2, <2>3, CloseNextKeeps
  <2>5. /\ openings' = [k \in Key |-> IF k \in S THEN Undefined ELSE openings[k]]
        /\ dropped' = [a \in Attempt |->
              IF a \in {openings[k] : k \in S} \ {Undefined}
                   /\ stage[a] \in {"connecting", "persisting"}
              THEN stage[a] ELSE dropped[a]]
    BY <1>7 DEF Release, CancelOpenings
  <2>6. SessionsTypeOK'
    BY <2>3, <2>4, <2>5
  <2>7. \A k \in Key : openings'[k] # Undefined => openings'[k] = openings[k] /\ k \notin S
    BY <2>5
  <2>8. \A a \in Attempt : a \in {openings[k] : k \in S} => keyOf[a] \in S
    BY <2>1 DEF SharedAttempt
  <2>9. SharedAttempt'
    <3>1. ASSUME NEW k \in Key, openings'[k] # Undefined
          PROVE  /\ keyOf'[openings'[k]] = k
                 /\ stage'[openings'[k]] \in {"connecting", "rejected", "persisting"}
      BY <3>1, <2>3, <2>4, <2>7 DEF SharedAttempt
    <3>2. ASSUME NEW a \in Attempt, stage'[a] \in {"connecting", "persisting"},
                 dropped'[a] = "no"
          PROVE  openings'[keyOf'[a]] = a
      <4>1. stage[a] = stage'[a] /\ keyOf[a] \in Key /\ keyOf' = keyOf
        BY <3>2, <2>3, <2>4 DEF Bookkeeping
      <4>2. a \notin {openings[k] : k \in S} /\ dropped[a] = "no"
        BY <3>2, <2>5, <4>1
      <4>3. openings[keyOf[a]] = a
        BY <3>2, <4>1, <4>2 DEF SharedAttempt
      <4> QED BY <2>5, <4>1, <4>2, <4>3
    <3> QED BY <3>1, <3>2 DEF SharedAttempt
  <2>10. ReleasedWhileConnecting'
    BY <2>4, <2>5 DEF ReleasedWhileConnecting
  <2>11. \A k \in Key : openings'[k] # Undefined => dropped'[openings'[k]] = "no"
    <3> SUFFICES ASSUME NEW k \in Key, openings'[k] # Undefined
                 PROVE  dropped'[openings'[k]] = "no"
      OBVIOUS
    <3>1. openings'[k] = openings[k] /\ k \notin S /\ openings[k] \in Attempt
      BY <2>7
    <3>2. keyOf[openings[k]] = k /\ dropped[openings[k]] = "no"
      BY <3>1 DEF SharedAttempt, Bookkeeping
    <3>3. openings[k] \notin {openings[j] : j \in S}
      BY <2>8, <3>1, <3>2
    <3> QED BY <2>5, <3>1, <3>2, <3>3
  <2>12. Bookkeeping'
    <3>1. \A a \in Attempt : stage'[a] # "unused" => keyOf'[a] \in Key
      BY <2>3, <2>4 DEF Bookkeeping
    <3>2. \A a \in Attempt : stage'[a] = "unused" => dropped'[a] = "no"
      BY <2>4, <2>5 DEF Bookkeeping
    <3> QED BY <2>4, <2>11, <3>1, <3>2 DEF Bookkeeping
  <2> QED BY <2>4, <2>6, <2>9, <2>10, <2>12
<1>8. ASSUME NEW r \in Releaser, NEW left \in SUBSET Attempt,
             \A a \in left : stage[a] \in {"open", "closed"},
             CloseNext(r, left), UNCHANGED <<openings, keyOf, dropped>>
      PROVE  IInv'
  <2>1. /\ entries' \in [Key -> Attempt \cup {Undefined}]
        /\ stage' \in [Attempt -> Stage]
        /\ todo' \in [Releaser -> SUBSET Attempt]
        /\ awaiting' \in [Releaser -> BOOLEAN]
        /\ HandsOutOpen'
        /\ \A k \in Key : entries'[k] # Undefined => keyOf'[entries'[k]] = k
        /\ \A q \in Releaser : \A a \in todo'[q] : stage'[a] \in {"open", "closed"}
        /\ \A a \in Attempt : \/ stage'[a] = stage[a]
                              \/ stage[a] \in {"open", "closed"} /\ stage'[a] = "closed"
    BY <1>8, CloseNextKeeps
  <2>2. SharedAttempt' /\ ReleasedWhileConnecting'
    BY <1>8, <2>1 DEF SharedAttempt, ReleasedWhileConnecting
  <2> QED BY <1>8, <2>1, <2>2 DEF Bookkeeping
<1>9. ASSUME NEW r \in Releaser, NEW idle \in SUBSET Attempt, Sweep(r, idle) PROVE IInv'
  BY <1>8, <1>9 DEF Sweep, HandsOutOpen
<1>10. ASSUME NEW r \in Releaser, CloseEnds(r) PROVE IInv'
  BY <1>8, <1>10 DEF CloseEnds, Bookkeeping
<1>11. CASE UNCHANGED sessionVars
  BY <1>11 DEF sessionVars, mapVars, attemptVars, releaseVars, HandsOutOpen, SharedAttempt,
     ReleasedWhileConnecting, Bookkeeping
<1> QED
  BY <1>1, <1>2, <1>3, <1>4, <1>5, <1>6, <1>7, <1>9, <1>10, <1>11 DEF SessionsNext

LEMMA Invariant == SessionsSpec => []IInv
BY Initially, Inductive, PTL DEF SessionsSpec

\* The maps and the attempts always have the values they are declared to have.
THEOREM TypeCorrect == SessionsSpec => []SessionsTypeOK
BY Invariant, PTL DEF IInv

\* Nobody is handed a session that is closed or about to be.
THEOREM OpenHandedOut == SessionsSpec => []HandsOutOpen
BY Invariant, PTL DEF IInv

\* Concurrent callers share one attempt, and only its own finally() ends it.
THEOREM AttemptShared == SessionsSpec => []SharedAttempt
BY Invariant, PTL DEF IInv

\* A session released before it was connected is never recorded.
THEOREM ReleaseHolds == SessionsSpec => []ReleasedWhileConnecting
BY Invariant, PTL DEF IInv


-----------------------------------------------------------------------------
(***************************************************************************)
(* How a live session leaves the map                                       *)
(***************************************************************************)

\* Beside an attempt that callers share only a session can stand that was
\* released while it was persisted, and recorded all the same.
Meeting ==
  \A k \in Key : openings[k] # Undefined /\ entries[k] # Undefined => dropped[entries[k]] = "persisting"

\* The session under k gives way to another, one of the two released too late.
Overtaken(k) ==
  /\ entries'[k] # Undefined
  /\ "persisting" \in {dropped[entries[k]], dropped[entries'[k]]}

\* A loop that closes what it once found under k deletes the key.
DeletedWithAnother(k) ==
  /\ entries'[k] = Undefined
  /\ \E r \in Releaser : awaiting[r] /\ \E a \in todo[r] : a # entries[k] /\ keyOf[a] = k

LeavesTheMap(k) ==
  entries[k] # Undefined /\ entries'[k] # entries[k] =>
    stage'[entries[k]] = "closed" \/ Overtaken(k) \/ DeletedWithAnother(k)

MapInv == IInv /\ Meeting

\* A turn of a loop takes away the key of the session it closes, and no more.
LEMMA CloseNextTakes ==
  ASSUME IInv, NEW r \in Releaser, NEW left \in SUBSET Attempt,
         \A a \in left : stage[a] \in {"open", "closed"}, CloseNext(r, left)
  PROVE  /\ \A k \in Key : entries'[k] # Undefined => entries'[k] = entries[k]
         /\ \A k \in Key : entries'[k] # entries[k] =>
              \E a \in left : keyOf[a] = k /\ stage'[a] = "closed" /\ entries'[k] = Undefined
<1> USE DEF IInv, SessionsTypeOK, Bookkeeping
<1>1. CASE UNCHANGED <<entries, stage>>
  BY <1>1
<1>2. ASSUME NEW a \in left, entries' = [entries EXCEPT ![keyOf[a]] = Undefined],
             stage' = [stage EXCEPT ![a] = "closed"]
      PROVE  /\ \A k \in Key : entries'[k] # Undefined => entries'[k] = entries[k]
             /\ \A k \in Key : entries'[k] # entries[k] =>
                  \E b \in left : keyOf[b] = k /\ stage'[b] = "closed" /\ entries'[k] = Undefined
  BY <1>2
<1> QED BY <1>1, <1>2 DEF CloseNext

LEMMA MapStep ==
  ASSUME MapInv, [SessionsNext]_sessionVars
  PROVE  Meeting' /\ \A k \in Key : LeavesTheMap(k)
<1> USE UndefinedAssumption DEF MapInv, IInv, SessionsTypeOK
<1>1. ASSUME NEW k \in Key, NEW a \in Attempt, Acquire(k, a)
      PROVE  Meeting' /\ \A l \in Key : LeavesTheMap(l)
  BY <1>1 DEF Acquire, Meeting, LeavesTheMap
<1>2. ASSUME NEW a \in Attempt, Connected(a) \/ ConnectRejected(a)
      PROVE  Meeting' /\ \A l \in Key : LeavesTheMap(l)
  BY <1>2 DEF Connected, ConnectRejected, mapVars, Meeting, LeavesTheMap
<1>3. ASSUME NEW a \in Attempt, AttemptClosed(a) \/ PersistFails(a)
      PROVE  Meeting' /\ \A l \in Key : LeavesTheMap(l)
  BY <1>3 DEF AttemptClosed, PersistFails, Settle, Bookkeeping, Meeting, LeavesTheMap
<1>4. ASSUME NEW a \in Attempt, Persisted(a)
      PROVE  Meeting' /\ \A l \in Key : LeavesTheMap(l)
  <2> DEFINE key == keyOf[a]
  <2>1. /\ stage[a] = "persisting" /\ key \in Key /\ dropped' = dropped
        /\ entries' = [entries EXCEPT ![key] = a]
        /\ openings' = [openings EXCEPT ![key] = IF @ = a THEN Undefined ELSE @]
    BY <1>4 DEF Persisted, Settle, Bookkeeping
  <2>2. dropped[a] = "no" => openings[key] = a
    BY <2>1 DEF SharedAttempt
  <2>3. dropped[a] \in {"no", "persisting"}
    BY <2>1 DEF ReleasedWhileConnecting
  <2>4. Meeting'
    BY <2>1, <2>2, <2>3 DEF Meeting
  <2>5. ASSUME NEW l \in Key, entries[l] # Undefined, entries'[l] # entries[l]
        PROVE  Overtaken(l)
    <3>1. l = key /\ entries'[l] = a
      BY <2>1, <2>5
    <3>2. dropped[a] = "persisting" \/ dropped[entries[l]] = "persisting"
      BY <2>2, <2>3, <2>5, <3>1 DEF Meeting
    <3> QED BY <3>1, <3>2 DEF Overtaken
  <2> QED BY <2>4, <2>5 DEF LeavesTheMap
<1>5. ASSUME NEW r \in Releaser, NEW left \in SUBSET Attempt, CloseNext(r, left),
             \A a \in left : stage[a] \in {"open", "closed"},
             \A k \in Key : openings'[k] # Undefined => openings'[k] = openings[k],
             \A k \in Key : entries[k] # Undefined => dropped'[entries[k]] = dropped[entries[k]]
      PROVE  Meeting'
  <2>1. \A k \in Key : entries'[k] # Undefined => entries'[k] = entries[k]
    BY <1>5, CloseNextTakes
  <2> QED BY <1>5, <2>1 DEF Meeting
<1>6. ASSUME NEW r \in Releaser, NEW left \in SUBSET Attempt, CloseNext(r, left),
             \A a \in left : \E k \in Key : entries[k] = a
      PROVE  \A l \in Key : LeavesTheMap(l)
  <2>1. \A a \in left : stage[a] = "open" /\ entries[keyOf[a]] = a
    BY <1>6 DEF HandsOutOpen, Bookkeeping
  <2>2. \A k \in Key : entries'[k] # entries[k] =>
          \E a \in left : keyOf[a] = k /\ stage'[a] = "closed" /\ entries'[k] = Undefined
    BY <1>6, <2>1, CloseNextTakes
  <2> QED BY <2>1, <2>2 DEF LeavesTheMap
<1>7. ASSUME NEW r \in Releaser, NEW S \in Scope, Release(r, S)
      PROVE  Meeting' /\ \A l \in Key : LeavesTheMap(l)
  <2> DEFINE copy == {entries[k] : k \in S} \ {Undefined}
  <2>1. S \subseteq Key
    BY ScopeAssumption
  <2>2. copy \in SUBSET Attempt /\ CloseNext(r, copy)
    BY <1>7, <2>1 DEF Release
  <2>3. (\A a \in copy : \E k \in Key : entries[k] = a) /\ \A a \in copy : stage[a] = "open"
    BY <2>1 DEF HandsOutOpen
  <2>4. \A k \in Key : openings'[k] # Undefined => openings'[k] = openings[k]
    BY <1>7 DEF Release, CancelOpenings
  <2>5. \A k \in Key : entries[k] # Undefined => dropped'[entries[k]] = dropped[entries[k]]
    BY <1>7 DEF Release, CancelOpenings, HandsOutOpen
  <2> HIDE DEF copy
  <2> QED BY <1>5, <1>6, <2>2, <2>3, <2>4, <2>5
<1>8. ASSUME NEW r \in Releaser, NEW idle \in SUBSET Attempt, Sweep(r, idle)
      PROVE  Meeting' /\ \A l \in Key : LeavesTheMap(l)
  <2>1. /\ CloseNext(r, idle) /\ UNCHANGED <<openings, dropped>>
        /\ \A a \in idle : \E k \in Key : entries[k] = a
    BY <1>8 DEF Sweep
  <2>2. \A a \in idle : stage[a] = "open"
    BY <2>1 DEF HandsOutOpen
  <2> QED BY <1>5, <1>6, <2>1, <2>2
<1>9. ASSUME NEW r \in Releaser, CloseEnds(r)
      PROVE  Meeting' /\ \A l \in Key : LeavesTheMap(l)
  <2>1. awaiting[r] /\ CloseNext(r, todo[r]) /\ UNCHANGED <<openings, dropped>>
    BY <1>9 DEF CloseEnds
  <2>2. todo[r] \in SUBSET Attempt /\ \A a \in todo[r] : stage[a] \in {"open", "closed"}
    BY DEF Bookkeeping
  <2>3. \A k \in Key : entries'[k] # entries[k] =>
          \E a \in todo[r] : keyOf[a] = k /\ stage'[a] = "closed" /\ entries'[k] = Undefined
    BY <2>1, <2>2, CloseNextTakes
  <2>4. \A l \in Key : LeavesTheMap(l)
    BY <2>1, <2>3 DEF LeavesTheMap, DeletedWithAnother
  <2> QED BY <1>5, <2>1, <2>2, <2>4
<1>10. CASE UNCHANGED sessionVars
  BY <1>10 DEF sessionVars, mapVars, attemptVars, Meeting, LeavesTheMap
<1> QED
  BY <1>1, <1>2, <1>3, <1>4, <1>7, <1>8, <1>9, <1>10 DEF SessionsNext

\* A live session is taken from the map in the step that closes it, but for two
\* ways of losing it open, and no third: an attempt released while its row was
\* being written is recorded over it, or is what it is recorded over
\* (upstream-sessions.ts:193-194); or a release that awaited a close() goes on
\* with a copy in which its key still named another (upstream-sessions.ts:241-245, 254-258).
THEOREM LostInTwoWays == SessionsSpec => [][\A k \in Key : LeavesTheMap(k)]_sessionVars
<1>1. SessionsInit => MapInv
  BY Initially DEF MapInv, SessionsInit, Meeting
<1>2. MapInv /\ [SessionsNext]_sessionVars => MapInv' /\ [\A k \in Key : LeavesTheMap(k)]_sessionVars
  BY Inductive, MapStep DEF MapInv
<1> QED BY <1>1, <1>2, PTL DEF SessionsSpec
=============================================================================
