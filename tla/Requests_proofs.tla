---------------------------- MODULE Requests_proofs ----------------------------
(***************************************************************************)
(* The catalogue of the gateway's connections, and the requests served     *)
(* from it while it is rewritten: for every set of connections and actors, *)
(* whatever their servers offer and in however many editions, and for all  *)
(* requests, sizes of a page and policies.                                 *)
(*                                                                         *)
(* A sync reads a list, gives its tools names, waits for the lock, puts    *)
(* the rows of one table after another, and may fail or crash between any  *)
(* two.  CatalogueInv says what there is in between: what the writer is    *)
(* done with, what it found and has not looked at, and that nobody else    *)
(* writes.  RequestsInv says what a request that has read some of that     *)
(* still asks for.                                                         *)
(***************************************************************************)
EXTENDS MCRequests, Boundary_proofs, SequenceTheorems, FiniteSetTheorems, FunctionTheorems,
        WellFoundedInduction, TLAPS

(***************************************************************************)
(* Counting.  The library's induction theorems take an operator; these     *)
(* say the same of sets.                                                   *)
(***************************************************************************)

\* The least of a set of naturals: what holds below it, and fails at it.
LEMMA LeastOf ==
  ASSUME NEW T \in SUBSET Nat, T # {}
  PROVE  \E x \in T : \A y \in T : x <= y
<1>1. PICK x \in T : \A y \in T : ~(<<y, x>> \in OpToRel(<, Nat))
  BY NatLessThanWellFounded, WFMin
<1>2. \A y \in T : ~(y < x)
  BY <1>1 DEF OpToRel
<1> QED BY <1>2

\* Ranks that differ, from 1 to the number of those ranked, are all taken.
LEMMA EveryRank ==
  ASSUME NEW S, IsFiniteSet(S), NEW rank \in [S -> 1 .. Cardinality(S)],
         \A i, j \in S : rank[i] = rank[j] => i = j
  PROVE  \A k \in 1 .. Cardinality(S) : \E i \in S : rank[i] = k
<1> DEFINE T == 1 .. Cardinality(S)
<1>1. Cardinality(S) \in Nat
  BY FS_CardinalityType
<1>2. IsFiniteSet(T) /\ Cardinality(T) = Cardinality(S)
  BY <1>1, FS_Interval
<1>3. rank \in Injection(S, T)
  BY Fun_IsInj
<1>4. rank \in Surjection(S, T)
  BY <1>2, <1>3, FS_Injection
<1> QED BY <1>4, Fun_SurjectionProperties

(***************************************************************************)
(* Names                                                                   *)
(***************************************************************************)

\* The tools a sync keeps are of the list, each upstream name once.
LEMMA FirstOfEachOnce ==
  ASSUME NEW S, NEW list \in Seq(S)
  PROVE  /\ FirstOfEach(list) \in Seq(S)
         /\ \A k, l \in DOMAIN FirstOfEach(list) :
              FirstOfEach(list)[k].up = FirstOfEach(list)[l].up => k = l
<1> DEFINE first == {i \in DOMAIN list : \A j \in 1..(i - 1) : list[j].up # list[i].up}
           below(i) == {j \in first : j <= i}
           rank == [i \in first |-> Cardinality(below(i))]
           n == Cardinality(first)
           at(k) == CHOOSE i \in first : Cardinality(below(i)) = k
<1>1. /\ first \subseteq 1 .. Len(list) /\ Len(list) \in Nat
      /\ \A i \in first : i \in Nat /\ list[i] \in S
  OBVIOUS
<1>2. IsFiniteSet(first) /\ n \in Nat
  <2>1. IsFiniteSet(1 .. Len(list))
    BY <1>1, FS_Interval
  <2> QED BY <1>1, <2>1, FS_Subset, FS_CardinalityType
<1>3. \A i, j \in first : list[i].up = list[j].up => i = j
  <2> SUFFICES ASSUME NEW i \in first, NEW j \in first, list[i].up = list[j].up, i # j PROVE FALSE
    OBVIOUS
  <2>1. CASE i < j
    BY <1>1, <2>1
  <2>2. CASE j < i
    BY <1>1, <2>2
  <2> QED BY <1>1, <2>1, <2>2
<1> HIDE DEF first
<1>4. ASSUME NEW i \in first
      PROVE  IsFiniteSet(below(i)) /\ Cardinality(below(i)) \in 1 .. n
  <2>1. IsFiniteSet(below(i)) /\ Cardinality(below(i)) <= n /\ Cardinality(below(i)) \in Nat
    BY <1>2, FS_Subset, FS_CardinalityType
  <2>2. i \in below(i)
    BY <1>1
  <2>3. Cardinality(below(i)) # 0
    BY <2>1, <2>2, FS_EmptySet
  <2> QED BY <1>2, <2>1, <2>3
<1>5. \A i, j \in first : rank[i] = rank[j] => i = j
  <2>1. ASSUME NEW i \in first, NEW j \in first, i < j PROVE Cardinality(below(i)) # Cardinality(below(j))
    <3>0. i \in Nat /\ j \in Nat /\ \A x \in first : x \in Nat
      BY <1>1
    <3>1. \A x \in first : x <= i => x <= j
      BY <2>1, <3>0
    <3>2. ~(j <= i) /\ j <= j
      BY <2>1, <3>0
    <3>3. below(i) \subseteq below(j) /\ j \notin below(i) /\ j \in below(j)
      BY <3>1, <3>2
    <3>4. below(i) # below(j)
      BY <3>3
    <3> HIDE DEF below
    <3> QED BY <1>4, <3>3, <3>4, FS_Subset
  <2> HIDE DEF below
  <2>2. ASSUME NEW i \in first, NEW j \in first, rank[i] = rank[j], i # j PROVE FALSE
    <3>1. i < j \/ j < i
      BY <1>1, <2>2
    <3> QED BY <2>1, <2>2, <3>1
  <2> QED BY <2>2
<1>6. rank \in [first -> 1 .. n]
  BY <1>4
<1>7. \A k \in 1 .. n : at(k) \in first /\ Cardinality(below(at(k))) = k
  <2> SUFFICES ASSUME NEW k \in 1 .. n PROVE at(k) \in first /\ Cardinality(below(at(k))) = k
    OBVIOUS
  <2>0. \A l \in 1 .. n : \E i \in first : rank[i] = l
    <3> HIDE DEF rank
    <3> QED BY <1>2, <1>5, <1>6, EveryRank
  <2>1. PICK i \in first : rank[i] = k
    BY <2>0
  <2> HIDE DEF below
  <2> QED BY <2>1
<1>8. FirstOfEach(list) = [k \in 1 .. n |-> list[at(k)]]
  BY DEF FirstOfEach, first
<1> HIDE DEF at, below, n
<1>9. \A k \in 1 .. n : list[at(k)] \in S
  BY <1>1, <1>7
<1>10. FirstOfEach(list) \in Seq(S)
  BY <1>2, <1>8, <1>9
<1>11. \A k, l \in 1 .. n : list[at(k)].up = list[at(l)].up => k = l
  BY <1>3, <1>7
<1> QED BY <1>8, <1>10, <1>11

\* However many names are taken, a tool gets one that is not.
LEMMA NameIsFree ==
  ASSUME NEW alias \in Alias, NEW u \in Upstream, NEW taken, IsFiniteSet(taken)
  PROVE  GatewayToolName(alias, u, taken) \in ToolName \ taken
<1> DEFINE n == Cardinality(taken)
           base == alias \o <<Segment[u], 0, 0>>
           suffixed(a) == alias \o <<Segment[u], u, a>>
           free == {a \in 0 .. n : suffixed(a) \notin taken}
<1>1. PICK a, b \in Nat : alias = <<a, b>>
  BY DEF Alias
<1>2. Segment[u] \in Nat /\ u \in Nat
  BY SegmentAssumption, UpstreamAssumption
<1>3. base = <<a, b, Segment[u], 0, 0>> /\ \A t \in Nat : suffixed(t) = <<a, b, Segment[u], u, t>>
  <2>1. ASSUME NEW s \in Nat, NEW d \in Nat, NEW t \in Nat
        PROVE  <<a, b>> \o <<s, d, t>> = <<a, b, s, d, t>>
    <3> DEFINE x == <<a, b>>
               y == <<s, d, t>>
               z == <<a, b, s, d, t>>
    <3>1. x \in Seq(Nat) /\ y \in Seq(Nat) /\ z \in Seq(Nat) /\ Len(x) = 2 /\ Len(y) = 3 /\ Len(z) = 5
      OBVIOUS
    <3>2. x \o y \in Seq(Nat) /\ Len(x \o y) = 5
      BY <3>1
    <3>3. \A i \in 1 .. 5 : (x \o y)[i] = z[i]
      <4> SUFFICES ASSUME NEW i \in 1 .. 5 PROVE (x \o y)[i] = z[i]
        OBVIOUS
      <4>1. (x \o y)[i] = IF i <= 2 THEN x[i] ELSE y[i - 2]
        BY <3>1, ConcatProperties
      <4>2. CASE i = 1  BY <4>1, <4>2
      <4>3. CASE i = 2  BY <4>1, <4>3
      <4>4. CASE i = 3  BY <4>1, <4>4
      <4>5. CASE i = 4  BY <4>1, <4>5
      <4>6. CASE i = 5  BY <4>1, <4>6
      <4> QED BY <4>2, <4>3, <4>4, <4>5, <4>6
    <3> HIDE DEF x, y, z
    <3>4. x \o y = z
      BY <3>1, <3>2, <3>3, SeqEqual
    <3> QED BY <3>4 DEF x, y, z
  <2> QED BY <1>1, <1>2, <2>1
<1>4. base \in ToolName /\ \A t \in Nat : suffixed(t) \in ToolName
  BY <1>1, <1>2, <1>3 DEF ToolName
<1>5. n \in Nat
  BY FS_CardinalityType
<1> HIDE DEF base, suffixed, n
<1>6. free # {}
  <2> SUFFICES ASSUME \A t \in 0 .. n : suffixed(t) \in taken PROVE FALSE
    OBVIOUS
  <2> DEFINE f == [t \in 0 .. n |-> suffixed(t)]
  <2>1. f \in [0 .. n -> taken]
    OBVIOUS
  <2>2. IsFiniteSet(0 .. n) /\ Cardinality(0 .. n) = n + 1
    BY <1>5, FS_Interval
  <2>3. Cardinality(taken) < Cardinality(0 .. n)
    BY <1>5, <2>2 DEF n
  <2>4. PICK x, y \in 0 .. n : x # y /\ f[x] = f[y]
    <3> HIDE DEF f
    <3> QED BY <2>1, <2>2, <2>3, FS_PigeonHole
  <2>5. suffixed(x) = suffixed(y)
    BY <2>4
  <2> QED BY <1>3, <1>5, <2>4, <2>5
<1>7. Smallest(free) \in free
  <2>0. free \in SUBSET Nat
    BY <1>5
  <2>1. PICK x \in free : \A y \in free : x <= y
    <3> HIDE DEF free
    <3> QED BY <1>6, <2>0, LeastOf
  <2> QED BY <2>1 DEF Smallest
<1>8. GatewayToolName(alias, u, taken) = IF base \notin taken THEN base ELSE suffixed(Smallest(free))
  BY DEF GatewayToolName, base, suffixed, n
<1> QED BY <1>4, <1>5, <1>7, <1>8

\* The loop that names the tools of a list: the names given so far are as many
\* as the tools passed, and no two are the same.
ToldApart(names) ==
  /\ names \in Seq(ToolName)
  /\ \A k, l \in 1 .. Len(names) : names[k] = names[l] => k = l

\* However many tools a server lists and whatever their names are cut to, no two
\* of them are given the same name (syncTools, gatewayToolName).
THEOREM ToolNamesDiffer ==
  ASSUME NEW alias \in Alias, NEW S, \A x \in S : x.up \in Upstream, NEW kept \in Seq(S)
  PROVE  /\ ToldApart(ToolNames(alias, kept))
         /\ Len(ToolNames(alias, kept)) = Len(kept)
<1> DEFINE n == Len(kept)
           next(before, i) == Append(before, GatewayToolName(alias, kept[i].up,
                                                             {before[j] : j \in 1 .. (i - 1)}))
           Loop(f, m) == f = [i \in 0 .. m |-> IF i = 0 THEN <<>> ELSE next(f[i - 1], i)]
           names == CHOOSE f : Loop(f, n)
           good(x, i) == ToldApart(x) /\ Len(x) = i
<1>1. n \in Nat /\ \A i \in 1 .. n : kept[i].up \in Upstream
  OBVIOUS
<1>2. ToolNames(alias, kept) = names[n]
  BY DEF ToolNames
<1> HIDE DEF n
<1>3. good(<<>>, 0)
  BY DEF ToldApart
<1>4. ASSUME NEW before, NEW i \in 1 .. n, good(before, i - 1) PROVE good(next(before, i), i)
  <2> DEFINE taken == {before[j] : j \in 1 .. (i - 1)}
             name == GatewayToolName(alias, kept[i].up, taken)
  <2>1. i \in Nat /\ i - 1 \in Nat /\ before \in Seq(ToolName) /\ Len(before) = i - 1
    BY <1>1, <1>4 DEF ToldApart
  <2>2. IsFiniteSet(taken)
    <3>1. IsFiniteSet(1 .. (i - 1))
      BY <2>1, FS_Interval
    <3> DEFINE at == [j \in 1 .. (i - 1) |-> before[j]]
    <3>3. at \in Surjection(1 .. (i - 1), taken)
      BY Fun_IsSurj
    <3> HIDE DEF at, taken
    <3> QED BY <3>1, <3>3, FS_Surjection
  <2>3. name \in ToolName \ taken
    <3> HIDE DEF taken
    <3> QED BY <1>1, <2>2, NameIsFree
  <2>4. \A j \in 1 .. (i - 1) : before[j] \in taken
    OBVIOUS
  <2> HIDE DEF name, taken
  <2>5. next(before, i) = Append(before, name)
    BY DEF name, taken
  <2>6. \A k, l \in 1 .. (i - 1) : before[k] = before[l] => k = l
    BY <1>4, <2>1 DEF ToldApart
  <2> DEFINE after == Append(before, name)
  <2>7. /\ after \in Seq(ToolName) /\ Len(after) = i /\ after[i] = name
        /\ \A k \in 1 .. (i - 1) : after[k] = before[k]
    BY <2>1, <2>3
  <2>8. \A k \in 1 .. i : k = i \/ k \in 1 .. (i - 1)
    BY <2>1
  <2>9. \A k \in 1 .. (i - 1) : after[k] # after[i]
    BY <2>3, <2>4, <2>7
  <2> HIDE DEF after
  <2>10. \A k, l \in 1 .. i : after[k] = after[l] => k = l
    BY <2>6, <2>7, <2>8, <2>9
  <2>11. good(after, i)
    BY <2>7, <2>10 DEF ToldApart
  <2> QED BY <2>5, <2>11 DEF after
<1> HIDE DEF next, good
<1>5. \A m \in 0 .. n : \E f : Loop(f, m) /\ \A i \in 0 .. m : good(f[i], i)
  <2> DEFINE Has(m) == \E f : Loop(f, m) /\ \A i \in 0 .. m : good(f[i], i)
             missing == {m \in 0 .. n : ~Has(m)}
  <2> SUFFICES ASSUME missing # {} PROVE FALSE
    OBVIOUS
  <2>1. missing \in SUBSET Nat
    BY <1>1
  <2>2. PICK m \in missing : \A k \in missing : m <= k
    <3> HIDE DEF missing
    <3> QED BY <2>1, LeastOf
  <2>3. CASE m = 0
    <3> DEFINE f == [i \in 0 .. 0 |-> <<>>]
    <3>1. 0 .. 0 = {0} /\ \A i \in 0 .. 0 : i = 0
      OBVIOUS
    <3>2. Loop(f, 0)
      BY <3>1
    <3>3. \A i \in 0 .. 0 : good(f[i], i)
      BY <1>3, <3>1
    <3>4. Has(0)
      <4> HIDE DEF f
      <4> QED BY <3>2, <3>3
    <3> QED BY <2>2, <2>3, <3>4
  <2>4. CASE m # 0
    <3>1. m \in 1 .. n /\ m - 1 \in 0 .. n
      BY <1>1, <2>2, <2>4
    <3>2. Has(m - 1)
      <4>0. ~(m <= m - 1)
        BY <1>1, <3>1
      <4>1. m - 1 \notin missing
        <5> HIDE DEF missing
        <5> QED BY <2>2, <4>0
      <4>2. \A x \in 0 .. n : x \in missing \/ Has(x)
        <5> HIDE DEF Has
        <5> QED OBVIOUS
      <4> HIDE DEF Has, missing
      <4> QED BY <3>1, <4>1, <4>2
    <3>3. PICK g : Loop(g, m - 1) /\ \A i \in 0 .. (m - 1) : good(g[i], i)
      BY <3>2
    <3> DEFINE f == [i \in 0 .. m |-> IF i < m THEN g[i] ELSE next(g[m - 1], m)]
    <3>4. \A i \in 0 .. (m - 1) : f[i] = g[i] /\ i \in 0 .. m
      BY <1>1, <3>1
    <3>5. f[m] = next(f[m - 1], m)
      BY <1>1, <3>1
    <3>6. \A i \in 0 .. (m - 1) : f[i] = IF i = 0 THEN <<>> ELSE next(f[i - 1], i)
      <4> SUFFICES ASSUME NEW i \in 0 .. (m - 1)
                   PROVE  f[i] = IF i = 0 THEN <<>> ELSE next(f[i - 1], i)
        OBVIOUS
      <4>1. f[i] = g[i] /\ (i # 0 => i - 1 \in 0 .. (m - 1))
        BY <1>1, <3>1, <3>4
      <4>2. g[i] = IF i = 0 THEN <<>> ELSE next(g[i - 1], i)
        BY <3>3
      <4>3. i # 0 => f[i - 1] = g[i - 1]
        BY <3>4, <4>1
      <4> HIDE DEF f
      <4> QED BY <4>1, <4>2, <4>3
    <3>7. \A i \in 0 .. m : f[i] = IF i = 0 THEN <<>> ELSE next(f[i - 1], i)
      <4>1. \A i \in 0 .. m : i \in 0 .. (m - 1) \/ (i = m /\ i # 0)
        BY <1>1, <3>1
      <4> HIDE DEF f
      <4> QED BY <3>5, <3>6, <4>1
    <3>8. Loop(f, m)
      <4>1. f = [i \in 0 .. m |-> f[i]]
        OBVIOUS
      <4> HIDE DEF f
      <4> QED BY <3>7, <4>1
    <3>9. \A i \in 0 .. m : good(f[i], i)
      <4>1. \A i \in 0 .. m : i \in 0 .. (m - 1) \/ i = m
        BY <1>1, <3>1
      <4>2. m - 1 \in 0 .. (m - 1) /\ good(f[m - 1], m - 1)
        BY <1>1, <3>1, <3>3, <3>4
      <4>3. good(f[m], m)
        <5> HIDE DEF f
        <5> QED BY <1>4, <3>1, <3>5, <4>2
      <4> HIDE DEF f
      <4> QED BY <3>3, <3>4, <4>1, <4>3
    <3>10. Has(m)
      <4> HIDE DEF f
      <4> QED BY <3>8, <3>9
    <3> QED BY <2>2, <3>10
  <2> QED BY <2>3, <2>4
<1>6. n \in 0 .. n
  BY <1>1
<1>7. PICK f : Loop(f, n) /\ \A i \in 0 .. n : good(f[i], i)
  BY <1>5, <1>6
<1>8. Loop(names, n)
  <2> HIDE DEF Loop
  <2> QED BY <1>7
<1>9. \A i \in 0 .. n : names[i] = f[i]
  <2> DEFINE other == {i \in 0 .. n : names[i] # f[i]}
  <2> SUFFICES ASSUME other # {} PROVE FALSE
    OBVIOUS
  <2>1. other \in SUBSET Nat
    BY <1>1
  <2>2. PICK m \in other : \A k \in other : m <= k
    <3> HIDE DEF other
    <3> QED BY <2>1, LeastOf
  <2> HIDE DEF names
  <2>3. \A g : Loop(g, n) => \A i \in 0 .. n : g[i] = IF i = 0 THEN <<>> ELSE next(g[i - 1], i)
    OBVIOUS
  <2>4. m \in 0 .. n /\ (m # 0 => m - 1 \in 0 .. n /\ m - 1 \notin other)
    BY <1>1, <2>2
  <2>5. m # 0 => names[m - 1] = f[m - 1]
    BY <2>4
  <2>6. names[m] # f[m]
    BY <2>2
  <2> HIDE DEF Loop, other
  <2> QED BY <1>7, <1>8, <2>3, <2>4, <2>5, <2>6
<1> QED BY <1>2, <1>6, <1>7, <1>9 DEF good, n

(***************************************************************************)
(* What a sync is to store                                                 *)
(***************************************************************************)

\* What a tool is classified as, and whether it is shown.
LEMMA RisksAreLevels ==
  ASSUME NEW tool
  PROVE  ClassifyTool(tool) \in RiskLevels /\ ShouldExposeTool(tool) \in BOOLEAN
<1> DEFINE matching == {i \in DOMAIN Patterns : /\ Patterns[i] \in tool.words
                                                /\ ~(Patterns[i] = "WRITE" /\ tool.readVerb)}
           first == CHOOSE i \in matching : \A j \in matching : i <= j
<1>1. DOMAIN Patterns = 1 .. 6
  BY DEF Patterns
<1>2. matching # {} => first \in matching
  <2> SUFFICES ASSUME matching # {} PROVE first \in matching
    OBVIOUS
  <2>1. matching \in SUBSET Nat
    BY <1>1
  <2>2. \E i \in matching : \A j \in matching : i <= j
    <3> HIDE DEF matching
    <3> QED BY <2>1, LeastOf
  <2> HIDE DEF matching
  <2> QED BY <2>2
<1>3. matching # {} => Patterns[first] \in RiskLevels
  BY <1>2 DEF RiskLevels
<1>4. /\ Patterns[1] = "DESTRUCTIVE" /\ Patterns[4] = "EXTERNAL_COMMUNICATION"
      /\ Patterns[6] = "READ_ONLY"
  BY DEF Patterns
<1>5. {"DESTRUCTIVE", "EXTERNAL_COMMUNICATION", "READ_ONLY", "UNKNOWN"} \subseteq RiskLevels
  <2>1. Patterns[1] \in RiskLevels /\ Patterns[4] \in RiskLevels /\ Patterns[6] \in RiskLevels
    BY <1>1 DEF RiskLevels
  <2> QED BY <1>4, <2>1 DEF RiskLevels
<1> HIDE DEF matching, first
<1>6. ClassifyTool(tool) =
        IF "destructive" \in tool.hints THEN "DESTRUCTIVE"
        ELSE IF "readOnly" \in tool.hints THEN "READ_ONLY"
        ELSE IF matching = {} THEN "UNKNOWN"
        ELSE IF Patterns[first] = "WRITE" /\ "openWorld" \in tool.hints
             THEN "EXTERNAL_COMMUNICATION"
        ELSE Patterns[first]
  BY DEF ClassifyTool, matching, first
<1> QED BY <1>3, <1>5, <1>6 DEF ShouldExposeTool

\* The gateway's address of an entry, and what it is taken apart to.
LEMMA UriProperties ==
  ASSUME NEW alias \in Alias, NEW u \in Upstream
  PROVE  /\ GatewayUri(alias, u) = <<alias[1], alias[2], u>>
         /\ GatewayUri(alias, u) \in Uri
         /\ SplitUri(GatewayUri(alias, u)) = [alias |-> alias, up |-> u]
<1>1. PICK a, b \in Nat : alias = <<a, b>>
  BY DEF Alias
<1>2. u \in Nat
  BY UpstreamAssumption
<1> DEFINE x == <<a, b>>
           y == <<a, b, u>>
<1>3. /\ x \in Seq(Nat) /\ Len(x) = 2 /\ x[1] = a /\ x[2] = b
      /\ y \in Seq(Nat) /\ Len(y) = 3 /\ y[1] = a /\ y[2] = b /\ y[3] = u
  BY <1>2
<1> HIDE DEF x, y
<1>4. Append(x, u) = y
  <2>1. /\ Append(x, u) \in Seq(Nat) /\ Len(Append(x, u)) = 3
        /\ Append(x, u)[1] = a /\ Append(x, u)[2] = b /\ Append(x, u)[3] = u
    <3>0. x \in Seq(Nat) /\ u \in Nat
      BY <1>2, <1>3
    <3>1. \A i \in 1 .. Len(x) : Append(x, u)[i] = x[i]
      BY <3>0, AppendProperties
    <3>2. Append(x, u) \in Seq(Nat) /\ Len(Append(x, u)) = Len(x) + 1 /\ Append(x, u)[Len(x) + 1] = u
      BY <3>0, AppendProperties
    <3>3. 1 \in 1 .. Len(x) /\ 2 \in 1 .. Len(x) /\ Len(x) + 1 = 3
      BY <1>3
    <3> QED BY <1>3, <3>1, <3>2, <3>3
  <2>2. \A i \in 1 .. 3 : Append(x, u)[i] = y[i]
    BY <1>3, <2>1
  <2> QED BY <1>3, <2>1, <2>2, SeqEqual
<1>5. SubSeq(y, 1, 2) = x
  <2>1. /\ SubSeq(y, 1, 2) \in Seq(Nat) /\ Len(SubSeq(y, 1, 2)) = 2
        /\ SubSeq(y, 1, 2)[1] = a /\ SubSeq(y, 1, 2)[2] = b
    BY <1>3, SubSeqProperties
  <2>2. \A i \in 1 .. 2 : SubSeq(y, 1, 2)[i] = x[i]
    BY <1>3, <2>1
  <2> QED BY <1>3, <2>1, <2>2, SeqEqual
<1>6. alias = x /\ GatewayUri(alias, u) = y
  BY <1>1, <1>4 DEF GatewayUri, x
<1>7. y = <<alias[1], alias[2], u>>
  BY <1>3, <1>6 DEF y
<1>8. y \in Uri
  BY <1>2 DEF y, Uri
<1> QED BY <1>3, <1>5, <1>6, <1>7, <1>8 DEF SplitUri

\* A list of tools to store names no upstream tool twice, and gives no two of
\* its tools the same name.
Listing(want, c) ==
  /\ want \in WantedRows
  /\ \A i \in DOMAIN want.tools : want.tools[i].conn = c
  /\ \A i, j \in DOMAIN want.tools : want.tools[i].up = want.tools[j].up => i = j
  /\ \A i, j \in DOMAIN want.tools : want.tools[i].gw = want.tools[j].gw => i = j
  /\ \A r \in want.resources \cup want.prompts :
       r.conn = c /\ \E alias \in Alias : r.uri = GatewayUri(alias, r.up)

\* The rows made of a list of tools are of its connection, and differ in the
\* name of their tool and in their own.
LEMMA ToolRecordsList ==
  ASSUME NEW c \in Conn, NEW alias \in Alias, NEW list \in Seq(ToolOffer)
  PROVE  LET rs == ToolRecords(c, alias, list)
         IN /\ rs \in Seq(ToolRow)
            /\ \A i \in DOMAIN rs : rs[i].conn = c
            /\ \A i, j \in DOMAIN rs : rs[i].up = rs[j].up => i = j
            /\ \A i, j \in DOMAIN rs : rs[i].gw = rs[j].gw => i = j
<1> DEFINE kept == FirstOfEach(list)
           names == ToolNames(alias, kept)
           rs == ToolRecords(c, alias, list)
           row(i) == [conn |-> c, up |-> kept[i].up, gw |-> names[i], schema |-> kept[i].schema,
                      risk |-> ClassifyTool(kept[i]), enabled |-> ShouldExposeTool(kept[i])]
<1>1. kept \in Seq(ToolOffer) /\ \A k, l \in DOMAIN kept : kept[k].up = kept[l].up => k = l
  BY FirstOfEachOnce
<1>2. rs = [i \in DOMAIN kept |-> row(i)]
  BY DEF ToolRecords
<1> HIDE DEF kept, rs
<1>3. ToldApart(names) /\ Len(names) = Len(kept)
  <2>1. \A x \in ToolOffer : x.up \in Upstream
    BY DEF ToolOffer
  <2> HIDE DEF names
  <2> QED BY <1>1, <2>1, ToolNamesDiffer DEF names
<1> HIDE DEF names
<1>4. DOMAIN kept = 1 .. Len(kept) /\ Len(kept) \in Nat
  BY <1>1
<1>5. \A i \in DOMAIN kept : names[i] \in ToolName
  BY <1>3, <1>4 DEF ToldApart
<1>7. \A i \in DOMAIN kept : row(i) \in ToolRow
  <2> SUFFICES ASSUME NEW i \in DOMAIN kept PROVE row(i) \in ToolRow
    OBVIOUS
  <2>1. kept[i] \in ToolOffer
    BY <1>1, <1>4
  <2>2. kept[i].up \in Upstream /\ kept[i].schema \in Nat
    BY <2>1 DEF ToolOffer
  <2>3. ClassifyTool(kept[i]) \in RiskLevels /\ ShouldExposeTool(kept[i]) \in BOOLEAN
    BY RisksAreLevels
  <2> QED BY <1>5, <2>2, <2>3 DEF ToolRow
<1>8. rs \in Seq(ToolRow) /\ DOMAIN rs = DOMAIN kept
  <2> HIDE DEF row
  <2> QED BY <1>2, <1>4, <1>7
<1>9. \A i \in DOMAIN kept : rs[i].conn = c /\ rs[i].up = kept[i].up /\ rs[i].gw = names[i]
  BY <1>2
<1>10. \A i, j \in DOMAIN kept : names[i] = names[j] => i = j
  BY <1>3, <1>4 DEF ToldApart
<1> HIDE DEF row
<1>11. /\ \A i \in DOMAIN rs : rs[i].conn = c
       /\ \A i, j \in DOMAIN rs : rs[i].up = rs[j].up => i = j
       /\ \A i, j \in DOMAIN rs : rs[i].gw = rs[j].gw => i = j
  BY <1>1, <1>8, <1>9, <1>10
<1> QED BY <1>8, <1>11 DEF rs

\* What a sync makes of an edition of the server.
LEMMA WantedIsListing ==
  ASSUME NEW c \in Conn, NEW alias \in Alias,
         NEW t \in 1 .. Len(Offer[c]), NEW r \in 1 .. Len(Offer[c]), NEW q \in 1 .. Len(Offer[c])
  PROVE  Listing(Wanted(c, alias, t, r, q), c)
<1> DEFINE W == Wanted(c, alias, t, r, q)
           T == ToolRecords(c, alias, Offer[c][t].tools)
           entry(u) == [conn |-> c, up |-> u, uri |-> GatewayUri(alias, u)]
<1>1. /\ Offer[c][t] \in Editions /\ Offer[c][r] \in Editions /\ Offer[c][q] \in Editions
  BY OfferAssumption
<1>2. /\ Offer[c][t].tools \in Seq(ToolOffer)
      /\ Offer[c][r].resources \subseteq Upstream /\ Offer[c][q].prompts \subseteq Upstream
  BY <1>1 DEF Editions, Entries
<1>3. /\ W.tools = T
      /\ W.resources = {entry(u) : u \in Offer[c][r].resources}
      /\ W.prompts = {entry(u) : u \in Offer[c][q].prompts}
      /\ W = [tools |-> W.tools, resources |-> W.resources, prompts |-> W.prompts]
  BY DEF Wanted, EntryRecords
<1>4. \A u \in Upstream : /\ entry(u) \in EntryRow /\ entry(u).conn = c
                          /\ entry(u).uri = GatewayUri(alias, entry(u).up)
  <2> SUFFICES ASSUME NEW u \in Upstream PROVE entry(u) \in EntryRow
    OBVIOUS
  <2> QED BY UriProperties DEF EntryRow
<1>5. /\ T \in Seq(ToolRow)
      /\ \A i \in DOMAIN T : T[i].conn = c
      /\ \A i, j \in DOMAIN T : T[i].up = T[j].up => i = j
      /\ \A i, j \in DOMAIN T : T[i].gw = T[j].gw => i = j
  <2> HIDE DEF T
  <2> QED BY <1>2, ToolRecordsList DEF T
<1> HIDE DEF T, W, entry
<1>6. W.resources \subseteq EntryRow /\ W.prompts \subseteq EntryRow
  BY <1>2, <1>3, <1>4
<1>7. W \in WantedRows
  BY <1>3, <1>5, <1>6 DEF WantedRows
<1>8. \A x \in W.resources \cup W.prompts :
        x.conn = c /\ \E a \in Alias : x.uri = GatewayUri(a, x.up)
  BY <1>2, <1>3, <1>4
<1> QED BY <1>3, <1>5, <1>7, <1>8 DEF Listing, W

(***************************************************************************)
(* The inductive invariant of the catalogue                                *)
(***************************************************************************)

\* A process that holds the lock of a catalogue and rewrites it.
Writing(p) == pc[p] \in {"tools", "resources", "prompts"}
\* Rows, up to whether they are enabled.
RowIds(S) == {Identity(r) : r \in S}

\* What a process carries, where it is.
Carries(p) ==
  /\ pc[p] \in PC \ {"idle", "again", "looped", "leave"} => loc[p].conn \in Conn
  /\ pc[p] \in {"acquire", "list", "rename"} => loc[p].alias \in Alias
  /\ pc[p] = "list" => loc[p].from \in 1 .. edition[loc[p].conn]

\* What it is to store is a list.
Wants(p) == pc[p] = "lock" \/ Writing(p) => Listing(loc[p].want, loc[p].conn)

\* Of the tools a sync is to store, those it is done with.
Passed(p) == Len(loc[p].want.tools) - Len(loc[p].left)
DoneWith(p) == {loc[p].want.tools[i] : i \in 1 .. Passed(p)}

\* What is left to do is of what is wanted, and of its connection.
Left(p) ==
  /\ pc[p] = "tools" =>
       /\ Passed(p) >= 0
       /\ \A i \in 1 .. Len(loc[p].left) : loc[p].left[i] = loc[p].want.tools[Passed(p) + i]
       /\ \A r \in loc[p].seen : r.conn = loc[p].conn
  /\ pc[p] = "resources" => loc[p].entries \subseteq loc[p].want.resources
  /\ pc[p] = "prompts" => loc[p].entries \subseteq loc[p].want.prompts

UnderWayWell(p) == Carries(p) /\ Wants(p) /\ Left(p)

\* The lock of a connection's catalogue is held by who writes it.
Exclusive ==
  /\ \A c \in Conn : writer[c] # None => Writing(writer[c]) /\ loc[writer[c]].conn = c
  /\ \A p \in Process : Writing(p) => writer[loc[p].conn] = p

\* What is stored, and what was, came from lists.
Sourced ==
  /\ \A c \in Conn : edition[c] \in 1 .. Len(Offer[c])
  /\ \A c \in Conn : Listing(synced[c], c)
  /\ \A r \in resources \cup prompts : \E alias \in Alias : r.uri = GatewayUri(alias, r.up)
  /\ \A c \in Conn : resync[c] = "none" => pc[c] = "idle"

\* Where every process is, and who writes.
Moving ==
  /\ TypeOK
  /\ \A p \in Process : UnderWayWell(p)
  /\ Exclusive
  /\ Sourced

\* The tables between what the writer found and what it is to leave there.
ToolsUnderWay(p, c) ==
  /\ RowIds(Of(tools, c)) \subseteq RowIds(DoneWith(p)) \cup RowIds(loc[p].seen)
  /\ RowIds(DoneWith(p)) \subseteq RowIds(Of(tools, c))
  /\ loc[p].left # <<>> => RowIds(loc[p].seen) \subseteq RowIds(Of(tools, c))
  /\ \A q \in loc[p].seen, r \in DoneWith(p) : q.up # r.up

\* ... of the tools first, then of the resources, then of the prompts.
UnderWay(p, c) ==
  /\ pc[p] = "tools" => ToolsUnderWay(p, c)
  /\ pc[p] \in {"resources", "prompts"} => RowIds(Of(tools, c)) = RowIds(ToolsIn(loc[p].want))
  /\ pc[p] = "resources" => Of(resources, c) = loc[p].want.resources \ loc[p].entries
  /\ pc[p] = "prompts" => /\ Of(resources, c) = loc[p].want.resources
                          /\ Of(prompts, c) = loc[p].want.prompts \ loc[p].entries

\* That is so of every catalogue that has been whole.
Intact == \A p \in Process : Writing(p) /\ ~torn[loc[p].conn] => UnderWay(p, loc[p].conn)

\* What is stored of c is what the last sync of it read.
Stored(c) ==
  /\ RowIds(Of(tools, c)) = RowIds(ToolsIn(synced[c]))
  /\ Of(resources, c) = synced[c].resources
  /\ Of(prompts, c) = synced[c].prompts

AllStored == \A c \in Conn : writer[c] = None /\ ~torn[c] => Stored(c)

(***************************************************************************)
(* Every step keeps to that                                                *)
(***************************************************************************)

\* A step in which process p moves, and no other.
Moves(p) == \A q \in Process \ {p} : pc'[q] = pc[q] /\ loc'[q] = loc[q]

LEMMA NobodyIsNone == None \notin Process /\ Actor \cap Conn = {} /\ Conn \subseteq Process
BY ActorAssumption DEF Process

LEMMA RestTyped == Rest \in Locals
BY DEF Rest, Locals

LEMMA GotoProperties ==
  ASSUME TypeOK, NEW p \in Process, NEW s \in PC, Goto(p, s)
  PROVE  /\ pc' \in [Process -> PC] /\ pc'[p] = s
         /\ \A q \in Process \ {p} : pc'[q] = pc[q]
BY DEF TypeOK, Goto

LEMMA LocalsProperties ==
  ASSUME TypeOK, NEW p \in Process, NEW l \in Locals, loc' = [loc EXCEPT ![p] = l]
  PROVE  /\ loc' \in [Process -> Locals] /\ loc'[p] = l
         /\ \A q \in Process \ {p} : loc'[q] = loc[q]
BY DEF TypeOK

LEMMA PlacesTyped ==
  /\ PC = {"idle", "acquire", "list", "lock", "tools", "resources", "prompts", "success",
           "failure", "rename", "withdraw", "again", "looped", "leave"}
  /\ \A p \in Process : Writing(p) <=> pc[p] = "tools" \/ pc[p] = "resources" \/ pc[p] = "prompts"
BY DEF PC, Writing

\* A sync goes to wait for a session.
LEMMA SyncWithProperties ==
  ASSUME TypeOK, NEW p \in Process, NEW c \in Conn, NEW alias \in Alias, SyncWith(p, c, alias)
  PROVE  /\ pc' \in [Process -> PC] /\ pc'[p] = "acquire" /\ Moves(p)
         /\ loc' \in [Process -> Locals] /\ loc'[p].conn = c /\ loc'[p].alias = alias
<1> DEFINE l == [Rest EXCEPT !.conn = c, !.alias = alias]
<1>1. l \in Locals /\ l.conn = c /\ l.alias = alias
  <2> DEFINE m == [Rest EXCEPT !.conn = c]
  <2>1. m \in Locals /\ m.conn = c
    BY RestTyped DEF Locals
  <2>2. l = [m EXCEPT !.alias = alias]
    OBVIOUS
  <2> HIDE DEF m, l
  <2> QED BY <2>1, <2>2 DEF Locals
<1>2. Goto(p, "acquire") /\ loc' = [loc EXCEPT ![p] = l] /\ "acquire" \in PC
  BY DEF SyncWith, PC
<1> HIDE DEF l
<1> QED BY <1>1, <1>2, GotoProperties, LocalsProperties DEF Moves

\* An operation of an actor is done, and it may do the next.
LEMMA FinishProperties ==
  ASSUME TypeOK, NEW p \in Process, Finish(p)
  PROVE  /\ pc' \in [Process -> PC] /\ pc'[p] = (IF p \in Conn THEN "looped" ELSE "idle")
         /\ loc' \in [Process -> Locals] /\ loc'[p] = Rest /\ Moves(p)
<1> DEFINE s == IF p \in Conn THEN "looped" ELSE "idle"
<1>1. Goto(p, s) /\ loc' = [loc EXCEPT ![p] = Rest] /\ s \in PC
  BY DEF Finish, PC
<1> HIDE DEF s
<1>2. pc'[p] = s /\ pc' \in [Process -> PC] /\ \A q \in Process \ {p} : pc'[q] = pc[q]
  BY <1>1, GotoProperties
<1>3. loc' \in [Process -> Locals] /\ loc'[p] = Rest /\ \A q \in Process \ {p} : loc'[q] = loc[q]
  BY <1>1, LocalsProperties, RestTyped
<1> QED BY <1>2, <1>3 DEF Moves, s

\* The status of a connection is of those there are.
LEMMA SetStatusProperties ==
  ASSUME TypeOK, NEW c \in Conn, NEW s \in Statuses, SetStatus(c, s)
  PROVE  /\ conn' \in [Conn -> [exists : BOOLEAN, alias : Alias, status : Statuses]]
         /\ \A d \in Conn : conn'[d].exists = conn[d].exists /\ conn'[d].alias = conn[d].alias
BY DEF TypeOK, SetStatus

\* Who does not move is where it was.
LEMMA OthersWell ==
  ASSUME Moving, NEW p, Moves(p), p \in Process => UnderWayWell(p)',
         \A c \in Conn : edition'[c] \in Nat /\ edition[c] <= edition'[c]
  PROVE  \A q \in Process : UnderWayWell(q)'
<1> SUFFICES ASSUME NEW q \in Process, q # p PROVE UnderWayWell(q)'
  OBVIOUS
<1>1. pc'[q] = pc[q] /\ loc'[q] = loc[q]
  BY DEF Moves
<1>2. Carries(q) /\ Wants(q) /\ Left(q)
  BY DEF Moving, UnderWayWell
<1>3. Carries(q)'
  <2>1. CASE pc[q] = "list"
    <3>1. loc[q].conn \in Conn /\ loc[q].from \in 1 .. edition[loc[q].conn]
      BY <1>2, <2>1 DEF Carries, PC
    <3>2. edition[loc[q].conn] \in Nat
      BY <3>1 DEF Moving, TypeOK
    <3>3. loc[q].from \in 1 .. edition'[loc[q].conn]
      BY <3>1, <3>2
    <3> QED BY <1>1, <1>2, <2>1, <3>3 DEF Carries
  <2>2. CASE pc[q] # "list"
    BY <1>1, <1>2, <2>2 DEF Carries
  <2> QED BY <2>1, <2>2
<1>4. Wants(q)'
  BY <1>1, <1>2 DEF Wants, Writing
<1>5. Left(q)'
  <2>1. Passed(q)' = Passed(q)
    BY <1>1 DEF Passed
  <2> QED BY <1>1, <1>2, <2>1 DEF Left
<1> QED BY <1>3, <1>4, <1>5 DEF UnderWayWell

\* A step that neither takes nor releases a lock.
LEMMA LocksKept ==
  ASSUME TypeOK, Exclusive, NEW p, Moves(p), writer' = writer,
         p \in Process => /\ Writing(p)' <=> Writing(p)
                          /\ Writing(p) => loc'[p].conn = loc[p].conn
  PROVE  Exclusive'
<1>1. \A q \in Process : /\ Writing(q)' <=> Writing(q)
                         /\ Writing(q) => loc'[q].conn = loc[q].conn
  <2> SUFFICES ASSUME NEW q \in Process, q # p
               PROVE  (Writing(q)' <=> Writing(q)) /\ loc'[q].conn = loc[q].conn
    OBVIOUS
  <2> QED BY DEF Moves, Writing
<1>2. \A c \in Conn : writer[c] # None => writer[c] \in Process
  BY DEF TypeOK
<1> QED BY <1>1, <1>2 DEF Exclusive

\* A loop that runs is known to run.
LEMMA LoopsKept ==
  ASSUME Moving, NEW p, Moves(p), p \in Conn => pc[p] # "idle", resync' = resync
  PROVE  \A c \in Conn : resync'[c] = "none" => pc'[c] = "idle"
<1> SUFFICES ASSUME NEW c \in Conn, resync[c] = "none" PROVE pc'[c] = "idle"
  OBVIOUS
<1>1. pc[c] = "idle" /\ c \in Process
  BY NobodyIsNone DEF Moving, Sourced
<1> QED BY <1>1 DEF Moves

\* Where nothing is stored, sources stay.
LEMMA SourcesKept ==
  ASSUME Moving, NEW p, Moves(p), p \in Conn => pc[p] # "idle", resync' = resync,
         edition' = edition, synced' = synced,
         resources' \subseteq resources, prompts' \subseteq prompts
  PROVE  Sourced'
BY LoopsKept DEF Moving, Sourced

\* A sync begins, whoever asks for it.
LEMMA SyncBegins ==
  ASSUME Moving, NEW p \in Process, ~Writing(p), NEW c \in Conn, NEW alias \in Alias,
         SyncWith(p, c, alias), writer' = writer, edition' = edition
  PROVE  /\ pc' \in [Process -> PC] /\ loc' \in [Process -> Locals] /\ Moves(p) /\ ~Writing(p)'
         /\ \A q \in Process : UnderWayWell(q)'
         /\ Exclusive'
<1>1. TypeOK /\ Exclusive /\ \A d \in Conn : edition[d] \in Nat
  BY DEF Moving, TypeOK
<1>2. /\ pc' \in [Process -> PC] /\ pc'[p] = "acquire" /\ Moves(p)
      /\ loc' \in [Process -> Locals] /\ loc'[p].conn = c /\ loc'[p].alias = alias
  BY <1>1, SyncWithProperties
<1>3. ~Writing(p)' /\ UnderWayWell(p)'
  BY <1>2 DEF Writing, UnderWayWell, Carries, Wants, Left
<1>4. \A q \in Process : UnderWayWell(q)'
  BY <1>1, <1>2, <1>3, OthersWell
<1>5. Exclusive'
  BY <1>1, <1>2, <1>3, LocksKept
<1> QED BY <1>2, <1>3, <1>4, <1>5

\* An operation ends.
LEMMA Ends ==
  ASSUME Moving, NEW p \in Process, ~Writing(p), Finish(p), writer' = writer, edition' = edition
  PROVE  /\ pc' \in [Process -> PC] /\ loc' \in [Process -> Locals] /\ Moves(p) /\ ~Writing(p)'
         /\ \A q \in Process : UnderWayWell(q)'
         /\ Exclusive'
<1>1. TypeOK /\ Exclusive /\ \A d \in Conn : edition[d] \in Nat
  BY DEF Moving, TypeOK
<1>2. /\ pc' \in [Process -> PC] /\ pc'[p] \in {"looped", "idle"} /\ Moves(p)
      /\ loc' \in [Process -> Locals]
  BY <1>1, FinishProperties
<1>3. ~Writing(p)' /\ UnderWayWell(p)'
  BY <1>2 DEF Writing, UnderWayWell, Carries, Wants, Left, PC
<1>4. \A q \in Process : UnderWayWell(q)'
  BY <1>1, <1>2, <1>3, OthersWell
<1>5. Exclusive'
  BY <1>1, <1>2, <1>3, LocksKept
<1> QED BY <1>2, <1>3, <1>4, <1>5

\* A process goes on to a statement that carries no more than the connection.
LEMMA GoesOn ==
  ASSUME Moving, NEW p \in Process, ~Writing(p), NEW s \in {"failure", "looped", "again", "leave", "idle"},
         s = "failure" => loc[p].conn \in Conn,
         Goto(p, s), loc' = loc, writer' = writer, edition' = edition
  PROVE  /\ pc' \in [Process -> PC] /\ loc' \in [Process -> Locals] /\ Moves(p) /\ ~Writing(p)'
         /\ \A q \in Process : UnderWayWell(q)'
         /\ Exclusive'
<1>1. TypeOK /\ Exclusive /\ \A d \in Conn : edition[d] \in Nat
  BY DEF Moving, TypeOK
<1>2. pc' \in [Process -> PC] /\ pc'[p] = s /\ Moves(p) /\ loc' \in [Process -> Locals]
  <2>1. s \in PC
    BY DEF PC
  <2> QED BY <1>1, <2>1, GotoProperties DEF Moves, TypeOK
<1>3. ~Writing(p)' /\ UnderWayWell(p)'
  BY <1>2 DEF Writing, UnderWayWell, Carries, Wants, Left, PC
<1>4. \A q \in Process : UnderWayWell(q)'
  BY <1>1, <1>2, <1>3, OthersWell
<1>5. Exclusive'
  BY <1>1, <1>2, <1>3, LocksKept
<1> QED BY <1>2, <1>3, <1>4, <1>5

\* One lemma for each step: it keeps Moving.
LEMMA RefreshMoves ==
  ASSUME Moving, NEW a \in Actor, NEW c \in Conn, Refresh(a, c)
  PROVE  Moving'
<1>1. a \in Process /\ a \notin Conn /\ ~Writing(a)
  BY NobodyIsNone DEF Process, Refresh, MayDo, Writing
<1>2. conn[c].alias \in Alias
  BY DEF Moving, TypeOK
<1>3. SyncWith(a, c, conn[c].alias) /\ UNCHANGED <<rows, writer, resync, edition, announced, does, histories>>
  BY DEF Refresh
<1>4. /\ pc' \in [Process -> PC] /\ loc' \in [Process -> Locals] /\ Moves(a)
      /\ (\A q \in Process : UnderWayWell(q)') /\ Exclusive'
  BY <1>1, <1>2, <1>3, SyncBegins DEF rows
<1>5. TypeOK'
  BY <1>3, <1>4 DEF Moving, TypeOK, rows, histories
<1>6. Sourced'
  BY <1>1, <1>3, <1>4, SourcesKept DEF rows, histories
<1> QED BY <1>4, <1>5, <1>6 DEF Moving

LEMMA AcquiredMoves ==
  ASSUME Moving, NEW p \in Process, Acquired(p)
  PROVE  Moving'
<1> DEFINE c == loc[p].conn
           l == [loc[p] EXCEPT !.from = edition[c]]
<1>1. pc[p] = "acquire" /\ ~Writing(p) /\ c \in Conn /\ loc[p].alias \in Alias /\ loc[p] \in Locals
  BY DEF Acquired, Writing, Moving, UnderWayWell, Carries, TypeOK, PC
<1>2. TypeOK /\ Exclusive /\ edition[c] \in Nat /\ edition[c] >= 1
  BY <1>1 DEF Moving, TypeOK, Sourced
<1>3. l \in Locals /\ l.conn = c /\ l.from = edition[c] /\ l.alias = loc[p].alias
  BY <1>1, <1>2 DEF Locals
<1>4. /\ Goto(p, "list") /\ "list" \in PC /\ loc' = [loc EXCEPT ![p] = l]
      /\ UNCHANGED <<rows, writer, resync, edition, announced, does, histories>>
  BY DEF Acquired, PC
<1> HIDE DEF l
<1>5. /\ pc' \in [Process -> PC] /\ pc'[p] = "list" /\ loc' \in [Process -> Locals] /\ loc'[p] = l
      /\ Moves(p)
  BY <1>2, <1>3, <1>4, GotoProperties, LocalsProperties DEF Moves
<1>6. ~Writing(p)' /\ UnderWayWell(p)'
  BY <1>1, <1>2, <1>3, <1>4, <1>5 DEF Writing, UnderWayWell, Carries, Wants, Left
<1>7. \A q \in Process : UnderWayWell(q)'
  <2>1. \A d \in Conn : edition'[d] \in Nat /\ edition[d] <= edition'[d]
    BY <1>2, <1>4 DEF TypeOK
  <2> QED BY <1>5, <1>6, <2>1, OthersWell
<1>8. Exclusive'
  BY <1>1, <1>2, <1>4, <1>5, <1>6, LocksKept
<1>9. TypeOK'
  BY <1>2, <1>4, <1>5 DEF TypeOK, rows, histories
<1>10. Sourced'
  BY <1>1, <1>4, <1>5, SourcesKept DEF rows, histories
<1> QED BY <1>7, <1>8, <1>9, <1>10 DEF Moving

LEMMA ListedMoves ==
  ASSUME Moving, NEW p \in Process, Listed(p)
  PROVE  Moving'
<1> DEFINE c == loc[p].conn
           W(t, r, q) == Wanted(c, loc[p].alias, t, r, q)
<1>1. /\ pc[p] = "list" /\ ~Writing(p) /\ c \in Conn /\ loc[p].alias \in Alias /\ loc[p] \in Locals
      /\ loc[p].from \in 1 .. edition[c]
  BY DEF Listed, Writing, Moving, UnderWayWell, Carries, TypeOK, PC
<1>2. TypeOK /\ Exclusive /\ edition[c] \in 1 .. Len(Offer[c]) /\ Len(Offer[c]) \in Nat
  BY <1>1, OfferAssumption DEF Moving, TypeOK, Sourced
<1>3. PICK t, r, q \in loc[p].from .. edition[c] : loc' = [loc EXCEPT ![p].want = W(t, r, q)]
  BY DEF Listed
<1>4. t \in 1 .. Len(Offer[c]) /\ r \in 1 .. Len(Offer[c]) /\ q \in 1 .. Len(Offer[c])
  BY <1>1, <1>2
<1> DEFINE w == W(t, r, q)
           l == [loc[p] EXCEPT !.want = w]
<1>5. Listing(w, c)
  <2> HIDE DEF c
  <2> QED BY <1>1, <1>4, WantedIsListing
<1> HIDE DEF w
<1>6. w \in WantedRows
  BY <1>5 DEF Listing
<1>7. l \in Locals /\ l.conn = c /\ l.want = w
  BY <1>1, <1>6 DEF Locals
<1>8. /\ Goto(p, "lock") /\ "lock" \in PC /\ loc' = [loc EXCEPT ![p] = l]
      /\ UNCHANGED <<rows, writer, resync, edition, announced, does, histories>>
  BY <1>3 DEF Listed, PC, w
<1> HIDE DEF l
<1>9. /\ pc' \in [Process -> PC] /\ pc'[p] = "lock" /\ loc' \in [Process -> Locals] /\ loc'[p] = l
      /\ Moves(p)
  BY <1>2, <1>7, <1>8, GotoProperties, LocalsProperties DEF Moves
<1>10. ~Writing(p)' /\ UnderWayWell(p)'
  BY <1>1, <1>5, <1>7, <1>9 DEF Writing, UnderWayWell, Carries, Wants, Left
<1>11. \A s \in Process : UnderWayWell(s)'
  <2>1. \A d \in Conn : edition'[d] \in Nat /\ edition[d] <= edition'[d]
    BY <1>2, <1>8 DEF TypeOK
  <2> QED BY <1>9, <1>10, <2>1, OthersWell
<1>12. Exclusive'
  BY <1>1, <1>2, <1>8, <1>9, <1>10, LocksKept
<1>13. TypeOK'
  BY <1>2, <1>8, <1>9 DEF TypeOK, rows, histories
<1>14. Sourced'
  BY <1>1, <1>8, <1>9, SourcesKept DEF rows, histories
<1> QED BY <1>11, <1>12, <1>13, <1>14 DEF Moving

LEMMA FailureMoves ==
  ASSUME Moving, NEW p \in Process, Unlisted(p) \/ GiveUp(p)
  PROVE  Moving'
<1>1. pc[p] \in {"acquire", "list", "lock"} /\ ~Writing(p)
  BY DEF Unlisted, GiveUp, Writing
<1>2. loc[p].conn \in Conn
  BY <1>1 DEF Moving, UnderWayWell, Carries, PC
<1>3. Goto(p, "failure") /\ UNCHANGED <<rows, writer, resync, loc, edition, announced, does, histories>>
  BY DEF Unlisted, GiveUp
<1>4. /\ pc' \in [Process -> PC] /\ loc' \in [Process -> Locals] /\ Moves(p)
      /\ (\A q \in Process : UnderWayWell(q)') /\ Exclusive'
  BY <1>1, <1>2, <1>3, GoesOn
<1>5. TypeOK'
  BY <1>3, <1>4 DEF Moving, TypeOK, rows, histories
<1>6. Sourced'
  BY <1>1, <1>3, <1>4, SourcesKept DEF rows, histories
<1> QED BY <1>4, <1>5, <1>6 DEF Moving

LEMMA LockMoves ==
  ASSUME Moving, NEW p \in Process, Lock(p)
  PROVE  Moving'
<1> DEFINE c == loc[p].conn
           l == [loc[p] EXCEPT !.left = loc[p].want.tools, !.seen = Of(tools, c)]
<1>1. pc[p] = "lock" /\ ~Writing(p) /\ c \in Conn /\ loc[p] \in Locals /\ writer[c] = None
  BY DEF Lock, MayWrite, Writing, Moving, UnderWayWell, Carries, TypeOK, PC
<1>2. TypeOK /\ Exclusive /\ Listing(loc[p].want, c)
  BY <1>1 DEF Moving, UnderWayWell, Wants
<1>3. loc[p].want.tools \in Seq(ToolRow) /\ Of(tools, c) \subseteq ToolRow
      /\ \A r \in Of(tools, c) : r.conn = c
  BY <1>2 DEF Listing, WantedRows, TypeOK, Of
<1>4. /\ l \in Locals /\ l.conn = c /\ l.want = loc[p].want /\ l.left = loc[p].want.tools
      /\ l.seen = Of(tools, c)
  <2> DEFINE m == [loc[p] EXCEPT !.left = loc[p].want.tools]
  <2>1. m \in Locals /\ m.conn = c /\ m.want = loc[p].want /\ m.left = loc[p].want.tools
    BY <1>1, <1>3 DEF Locals
  <2>2. l = [m EXCEPT !.seen = Of(tools, c)]
    OBVIOUS
  <2> HIDE DEF m, l
  <2> QED BY <1>3, <2>1, <2>2 DEF Locals
<1>5. /\ Goto(p, "tools") /\ "tools" \in PC /\ loc' = [loc EXCEPT ![p] = l]
      /\ writer' = [writer EXCEPT ![c] = p] /\ torn' = [torn EXCEPT ![c] = FALSE]
      /\ UNCHANGED <<rows, resync, edition, announced, does, synced, unseen>>
  BY DEF Lock, PC
<1> HIDE DEF l
<1>6. /\ pc' \in [Process -> PC] /\ pc'[p] = "tools" /\ loc' \in [Process -> Locals] /\ loc'[p] = l
      /\ Moves(p)
  BY <1>2, <1>4, <1>5, GotoProperties, LocalsProperties DEF Moves
<1>7. Len(loc[p].want.tools) \in Nat
  BY <1>3
<1>8. Passed(p)' = 0
  BY <1>4, <1>6, <1>7 DEF Passed
<1>9. Writing(p)' /\ UnderWayWell(p)'
  <2>1. Carries(p)'
    BY <1>1, <1>4, <1>6 DEF Carries
  <2>2. Wants(p)' /\ Writing(p)'
    BY <1>2, <1>4, <1>6 DEF Wants, Writing
  <2>3. Left(p)'
    BY <1>3, <1>4, <1>6, <1>7, <1>8 DEF Left
  <2> QED BY <2>1, <2>2, <2>3 DEF UnderWayWell
<1>10. \A q \in Process : UnderWayWell(q)'
  <2>1. \A d \in Conn : edition'[d] \in Nat /\ edition[d] <= edition'[d]
    BY <1>2, <1>5 DEF TypeOK
  <2> QED BY <1>6, <1>9, <2>1, OthersWell
<1>11. Exclusive'
  <2>1. ASSUME NEW q \in Process, q # p, Writing(q)'
        PROVE  writer'[loc'[q].conn] = q
    <3>1. Writing(q) /\ loc'[q] = loc[q]
      BY <1>6, <2>1 DEF Moves, Writing
    <3>2. writer[loc[q].conn] = q /\ q # None
      BY <1>2, <3>1, NobodyIsNone DEF Exclusive
    <3> QED BY <1>1, <1>2, <1>5, <3>1, <3>2 DEF TypeOK
  <2>2. writer'[loc'[p].conn] = p
    BY <1>1, <1>2, <1>4, <1>5, <1>6 DEF TypeOK
  <2>3. ASSUME NEW d \in Conn, writer'[d] # None
        PROVE  pc'[writer'[d]] \in {"tools", "resources", "prompts"} /\ loc'[writer'[d]].conn = d
    <3>1. CASE d = c
      BY <1>1, <1>2, <1>4, <1>5, <1>6, <1>9, <3>1 DEF TypeOK, Writing
    <3>2. CASE d # c
      <4>1. writer'[d] = writer[d] /\ writer[d] \in Process /\ writer[d] # p
        BY <1>1, <1>2, <1>5, <2>3, <3>2 DEF TypeOK, Exclusive
      <4> QED BY <1>2, <1>6, <2>3, <4>1 DEF Exclusive, Moves, Writing
    <3> QED BY <3>1, <3>2
  <2> QED BY <2>1, <2>2, <2>3 DEF Exclusive, Writing
<1>12. TypeOK'
  BY <1>1, <1>2, <1>5, <1>6 DEF TypeOK, rows
<1>13. Sourced'
  BY <1>1, <1>5, <1>6, SourcesKept DEF rows
<1> QED BY <1>10, <1>11, <1>12, <1>13 DEF Moving

\* The lock is released.
LEMMA LockReleased ==
  ASSUME Moving, NEW p \in Process, Writing(p), Moves(p), ~Writing(p)',
         writer' = [writer EXCEPT ![loc[p].conn] = None]
  PROVE  Exclusive'
<1> DEFINE c == loc[p].conn
<1>1. TypeOK /\ Exclusive /\ c \in Conn /\ writer[c] = p
  BY DEF Moving, UnderWayWell, Carries, Writing, PC, Exclusive
<1>2. ASSUME NEW q \in Process, Writing(q)' PROVE writer'[loc'[q].conn] = q
  <2>1. q # p /\ Writing(q) /\ loc'[q] = loc[q]
    BY <1>2 DEF Moves, Writing
  <2>2. writer[loc[q].conn] = q
    BY <1>1, <2>1 DEF Exclusive
  <2> QED BY <1>1, <2>1, <2>2 DEF TypeOK
<1>3. ASSUME NEW d \in Conn, writer'[d] # None
      PROVE  pc'[writer'[d]] \in {"tools", "resources", "prompts"} /\ loc'[writer'[d]].conn = d
  <2>1. d # c /\ writer'[d] = writer[d] /\ writer[d] \in Process /\ writer[d] # p
    BY <1>1, <1>3 DEF TypeOK, Exclusive
  <2> QED BY <1>1, <1>3, <2>1 DEF Exclusive, Moves, Writing
<1> QED BY <1>2, <1>3 DEF Exclusive, Writing

LEMMA AbortMoves ==
  ASSUME Moving, NEW p \in Process, Writing(p), Abort(p), UNCHANGED <<resync, edition, announced, does>>
  PROVE  Moving'
<1>1. TypeOK /\ loc[p].conn \in Conn /\ pc[p] # "idle"
  BY DEF Moving, UnderWayWell, Carries, Writing, PC
<1>2. /\ writer' = [writer EXCEPT ![loc[p].conn] = None]
      /\ torn' = [torn EXCEPT ![loc[p].conn] = TRUE]
      /\ Goto(p, "failure") /\ "failure" \in PC
      /\ UNCHANGED <<rows, loc, synced, unseen>>
  BY DEF Abort, PC
<1>3. pc' \in [Process -> PC] /\ pc'[p] = "failure" /\ Moves(p) /\ loc' = loc
  BY <1>1, <1>2, GotoProperties DEF Moves
<1>4. ~Writing(p)' /\ UnderWayWell(p)'
  BY <1>1, <1>3 DEF Writing, UnderWayWell, Carries, Wants, Left
<1>5. \A q \in Process : UnderWayWell(q)'
  <2>1. \A d \in Conn : edition'[d] \in Nat /\ edition[d] <= edition'[d]
    BY <1>1 DEF TypeOK
  <2> QED BY <1>3, <1>4, <2>1, OthersWell
<1>6. Exclusive'
  BY <1>2, <1>3, <1>4, LockReleased
<1>7. TypeOK'
  BY <1>1, <1>2, <1>3 DEF TypeOK, rows
<1>8. Sourced'
  BY <1>1, <1>2, <1>3, SourcesKept DEF rows
<1> QED BY <1>5, <1>6, <1>7, <1>8 DEF Moving

\* What one round of the loop of syncTools does, where it does not fail.
ToolWritten(p) ==
  LET c == loc[p].conn
      new == Head(loc[p].left)
      previous == {r \in loc[p].seen : r.up = new.up}
      changed == {r \in Of(tools, c) : r.up = new.up /\ \E q \in previous : Identity(q) # Identity(new)}
  IN /\ pc[p] = "tools" /\ loc[p].left # <<>>
     /\ tools' = IF previous = {} THEN tools \cup {new}
                 ELSE (tools \ changed) \cup {[new EXCEPT !.enabled = r.enabled] : r \in changed}
     /\ loc' = [loc EXCEPT ![p].left = Tail(loc[p].left), ![p].seen = loc[p].seen \ previous]
     /\ UNCHANGED <<conn, resources, prompts, writer, pc, histories, resync, edition, announced, does>>

LEMMA WriteToolEither ==
  ASSUME NEW p, WriteTool(p)
  PROVE  \/ Writing(p) /\ Abort(p) /\ UNCHANGED <<resync, edition, announced, does>>
         \/ ToolWritten(p)
BY DEF WriteTool, ToolWritten, Writing

\* What that leaves the process with.
LEMMA ToolWrittenLocals ==
  ASSUME Moving, NEW p \in Process, ToolWritten(p)
  PROVE  LET new == Head(loc[p].left)
         IN /\ loc[p].conn \in Conn /\ Listing(loc[p].want, loc[p].conn) /\ loc[p].left # <<>>
            /\ new \in ToolRow /\ new.conn = loc[p].conn
            /\ Passed(p) + 1 \in 1 .. Len(loc[p].want.tools) /\ Passed(p) \in Nat
            /\ new = loc[p].want.tools[Passed(p) + 1]
            /\ loc' \in [Process -> Locals] /\ Moves(p) /\ pc'[p] = "tools"
            /\ loc'[p].conn = loc[p].conn /\ loc'[p].want = loc[p].want
            /\ loc'[p].left = Tail(loc[p].left)
            /\ loc'[p].seen = {q \in loc[p].seen : q.up # new.up}
            /\ Passed(p)' = Passed(p) + 1
            /\ Left(p)'
<1> DEFINE c == loc[p].conn
           new == Head(loc[p].left)
           seen == {q \in loc[p].seen : q.up # new.up}
           l == [loc[p] EXCEPT !.left = Tail(loc[p].left), !.seen = seen]
<1>1. pc[p] = "tools" /\ loc[p].left # <<>> /\ c \in Conn /\ loc[p] \in Locals /\ Left(p)
      /\ Listing(loc[p].want, c) /\ TypeOK
  BY DEF ToolWritten, Moving, UnderWayWell, Carries, Wants, TypeOK, PC, Writing
<1>2. /\ loc[p].left \in Seq(ToolRow) /\ loc[p].seen \subseteq ToolRow
      /\ loc[p].want.tools \in Seq(ToolRow)
  BY <1>1 DEF Locals, Listing, WantedRows
<1> DEFINE s == loc[p].left
           w == loc[p].want.tools
<1>3. /\ Len(s) \in Nat \ {0} /\ Len(w) \in Nat /\ Passed(p) >= 0 /\ Passed(p) = Len(w) - Len(s)
      /\ \A i \in 1 .. Len(s) : s[i] = w[Passed(p) + i]
      /\ \A r \in loc[p].seen : r.conn = c
  <2>1. /\ Passed(p) >= 0 /\ \A i \in 1 .. Len(s) : s[i] = w[Passed(p) + i]
        /\ \A r \in loc[p].seen : r.conn = c
    BY <1>1 DEF Left
  <2>2. Passed(p) = Len(w) - Len(s)
    BY DEF Passed
  <2>3. s \in Seq(ToolRow) /\ s # <<>> /\ w \in Seq(ToolRow)
    BY <1>1, <1>2
  <2> HIDE DEF s, w
  <2>4. Len(s) \in Nat \ {0} /\ Len(w) \in Nat
    BY <2>3
  <2> QED BY <2>1, <2>2, <2>4
<1>4. /\ new = s[1] /\ new \in ToolRow /\ Tail(s) \in Seq(ToolRow) /\ Len(Tail(s)) = Len(s) - 1
      /\ \A i \in 1 .. Len(Tail(s)) : Tail(s)[i] = s[i + 1]
  BY <1>1, <1>2
<1> HIDE DEF s, w
<1>5. /\ Passed(p) \in Nat /\ Passed(p) + 1 \in 1 .. Len(w) /\ new = w[Passed(p) + 1]
  <2>1. 1 \in 1 .. Len(s)
    BY <1>3
  <2> QED BY <1>3, <1>4, <2>1
<1>6. new.conn = c
  <2>1. Passed(p) + 1 \in DOMAIN w
    BY <1>2, <1>5 DEF w
  <2> QED BY <1>1, <1>5, <2>1 DEF Listing, w
<1>7. loc' = [loc EXCEPT ![p] = l]
  <2>1. loc[p].seen \ {r \in loc[p].seen : r.up = new.up} = seen
    OBVIOUS
  <2>2. loc' = [loc EXCEPT ![p].left = Tail(loc[p].left),
                           ![p].seen = loc[p].seen \ {r \in loc[p].seen : r.up = new.up}]
    BY DEF ToolWritten
  <2> HIDE DEF seen
  <2> QED BY <1>1, <2>1, <2>2 DEF TypeOK
<1>8. l \in Locals /\ l.conn = c /\ l.want = loc[p].want /\ l.left = Tail(s) /\ l.seen = seen
  <2> DEFINE m == [loc[p] EXCEPT !.left = Tail(s)]
  <2>1. m \in Locals /\ m.conn = c /\ m.want = loc[p].want /\ m.left = Tail(s)
    BY <1>1, <1>4 DEF Locals
  <2>2. l = [m EXCEPT !.seen = seen]
    BY DEF s
  <2>3. seen \subseteq ToolRow
    BY <1>2
  <2> HIDE DEF m, l, seen
  <2> QED BY <2>1, <2>2, <2>3 DEF Locals
<1> HIDE DEF l
<1>9. pc' = pc /\ loc' \in [Process -> Locals] /\ loc'[p] = l /\ Moves(p)
  BY <1>1, <1>7, <1>8, LocalsProperties DEF Moves, ToolWritten
<1>10. Passed(p)' = Passed(p) + 1
  <2>1. Passed(p)' = Len(loc'[p].want.tools) - Len(loc'[p].left)
    BY DEF Passed
  <2>2. loc'[p].want.tools = w /\ loc'[p].left = Tail(s)
    BY <1>8, <1>9 DEF w
  <2> QED BY <1>3, <1>4, <2>1, <2>2
<1>11. Left(p)'
  <2>1. \A i \in 1 .. Len(Tail(s)) : Tail(s)[i] = w[Passed(p) + 1 + i]
    <3> SUFFICES ASSUME NEW i \in 1 .. Len(Tail(s)) PROVE Tail(s)[i] = w[Passed(p) + 1 + i]
      OBVIOUS
    <3>1. i + 1 \in 1 .. Len(s) /\ Passed(p) + (i + 1) = Passed(p) + 1 + i
      BY <1>3, <1>4, <1>5
    <3>2. s[i + 1] = w[Passed(p) + (i + 1)]
      BY <1>3, <3>1
    <3> QED BY <1>4, <3>1, <3>2
  <2>2. \A r \in seen : r.conn = c
    BY <1>3
  <2> HIDE DEF seen
  <2>3. loc'[p].left = Tail(s) /\ loc'[p].want.tools = w /\ loc'[p].seen = seen /\ loc'[p].conn = c
    BY <1>8, <1>9 DEF w
  <2>4. pc'[p] = "tools" /\ Passed(p)' >= 0
    BY <1>1, <1>5, <1>9, <1>10
  <2> HIDE DEF seen, c
  <2> QED BY <1>10, <2>1, <2>2, <2>3, <2>4 DEF Left
<1> QED BY <1>1, <1>4, <1>5, <1>6, <1>8, <1>9, <1>10, <1>11 DEF s, w

LEMMA WriteToolMoves ==
  ASSUME Moving, NEW p \in Process, ToolWritten(p)
  PROVE  Moving'
<1> DEFINE c == loc[p].conn
           new == Head(loc[p].left)
<1>1. /\ c \in Conn /\ Listing(loc[p].want, c) /\ new \in ToolRow
      /\ loc' \in [Process -> Locals] /\ Moves(p) /\ pc'[p] = "tools"
      /\ loc'[p].conn = c /\ loc'[p].want = loc[p].want /\ Left(p)'
  BY ToolWrittenLocals
<1>2. /\ TypeOK /\ Exclusive /\ pc[p] = "tools"
      /\ UNCHANGED <<conn, resources, prompts, writer, pc, histories, resync, edition, announced, does>>
  BY DEF Moving, ToolWritten
<1>3. tools' \subseteq ToolRow
  <2> DEFINE previous == {r \in loc[p].seen : r.up = new.up}
             changed  == {r \in Of(tools, c) : r.up = new.up /\ \E q \in previous : Identity(q) # Identity(new)}
             again    == {[new EXCEPT !.enabled = r.enabled] : r \in changed}
  <2>1. \A r \in ToolRow : [new EXCEPT !.enabled = r.enabled] \in ToolRow
    BY <1>1 DEF ToolRow
  <2>2. tools \subseteq ToolRow
    BY <1>2 DEF TypeOK
  <2>3. changed \subseteq ToolRow
    BY <2>2 DEF Of
  <2>4. again \subseteq ToolRow
    BY <2>1, <2>3
  <2>5. tools' = tools \cup {new} \/ tools' = (tools \ changed) \cup again
    BY DEF ToolWritten
  <2> HIDE DEF changed, again
  <2> QED BY <1>1, <2>2, <2>4, <2>5
<1>4. Writing(p)' /\ UnderWayWell(p)'
  BY <1>1 DEF Writing, UnderWayWell, Carries, Wants
<1>5. \A q \in Process : UnderWayWell(q)'
  <2>1. \A d \in Conn : edition'[d] \in Nat /\ edition[d] <= edition'[d]
    BY <1>2 DEF TypeOK
  <2> QED BY <1>1, <1>4, <2>1, OthersWell
<1>6. Exclusive'
  BY <1>1, <1>2, <1>4, LocksKept DEF Writing
<1>7. TypeOK'
  BY <1>1, <1>2, <1>3 DEF TypeOK, histories
<1>8. Sourced'
  BY <1>1, <1>2, SourcesKept DEF histories
<1> QED BY <1>5, <1>6, <1>7, <1>8 DEF Moving

\* What a tool the server lists no more does to the rows, and to the process.
StaleDeleted(p) ==
  LET one == CHOOSE r \in loc[p].seen : TRUE
  IN /\ pc[p] = "tools" /\ loc[p].left = <<>> /\ loc[p].seen # {}
     /\ tools' = {r \in tools : ~(r.conn = one.conn /\ r.up = one.up)}
     /\ loc' = [loc EXCEPT ![p] = [loc[p] EXCEPT !.seen = loc[p].seen \ {one}]]
     /\ UNCHANGED <<conn, resources, prompts, pc, writer, resync, edition, announced, does, histories>>

ToolsWritten(p) ==
  /\ pc[p] = "tools" /\ loc[p].left = <<>> /\ loc[p].seen = {}
  /\ resources' = resources \ Of(resources, loc[p].conn)
  /\ loc' = [loc EXCEPT ![p] = [loc[p] EXCEPT !.entries = loc[p].want.resources]]
  /\ Goto(p, "resources")
  /\ UNCHANGED <<conn, tools, prompts, writer, resync, edition, announced, does, histories>>

LEMMA DeleteStaleEither ==
  ASSUME TypeOK, NEW p \in Process, DeleteStale(p)
  PROVE  StaleDeleted(p) \/ ToolsWritten(p)
<1>1. CASE loc[p].seen # {}
  BY <1>1 DEF DeleteStale, StaleDeleted, TypeOK
<1>2. CASE loc[p].seen = {}
  BY <1>2 DEF DeleteStale, ToolsWritten, TypeOK
<1> QED BY <1>1, <1>2

\* What the rewriting of the entries does: a row put in, or the next table begun.
EntryWritten(p) ==
  /\ pc[p] \in {"resources", "prompts"} /\ loc[p].entries # {}
  /\ loc' = [loc EXCEPT ![p] = [loc[p] EXCEPT !.entries = loc[p].entries \ {NextEntry(p)}]]
  /\ IF pc[p] = "resources"
     THEN resources' = resources \cup {NextEntry(p)} /\ prompts' = prompts
     ELSE prompts' = prompts \cup {NextEntry(p)} /\ resources' = resources
  /\ UNCHANGED <<conn, tools, writer, pc, histories, resync, edition, announced, does>>

\* One table is done, and the next begun.
ResourcesWritten(p) ==
  /\ pc[p] = "resources" /\ loc[p].entries = {}
  /\ prompts' = prompts \ Of(prompts, loc[p].conn)
  /\ loc' = [loc EXCEPT ![p] = [loc[p] EXCEPT !.entries = loc[p].want.prompts]]
  /\ Goto(p, "prompts")
  /\ UNCHANGED <<conn, tools, resources, writer, histories, resync, edition, announced, does>>

PromptsWritten(p) ==
  /\ pc[p] = "prompts" /\ loc[p].entries = {}
  /\ writer' = [writer EXCEPT ![loc[p].conn] = None]
  /\ synced' = [synced EXCEPT ![loc[p].conn] = loc[p].want]
  /\ Goto(p, "success")
  /\ UNCHANGED <<rows, loc, torn, unseen, resync, edition, announced, does>>

\* A statement of a writer fails.
Aborted(p) == Writing(p) /\ Abort(p) /\ UNCHANGED <<resync, edition, announced, does>>

LEMMA WriteEntryEither ==
  ASSUME TypeOK, NEW p \in Process, WriteResource(p) \/ WritePrompt(p)
  PROVE  Aborted(p) \/ EntryWritten(p) \/ ResourcesWritten(p) \/ PromptsWritten(p)
<1>1. CASE WriteResource(p)
  BY <1>1 DEF WriteResource, Aborted, Writing, EntryWritten, ResourcesWritten, TypeOK, histories
<1>2. CASE WritePrompt(p)
  BY <1>2 DEF WritePrompt, Aborted, Writing, EntryWritten, PromptsWritten, TypeOK, histories
<1> QED BY <1>1, <1>2

\* A writer goes on writing: what it is to write stays, what is left shrinks.
LEMMA WriterMoves ==
  ASSUME Moving, NEW p \in Process, NEW l \in Locals, loc' = [loc EXCEPT ![p] = l],
         pc' \in [Process -> PC], Writing(p), Writing(p)', \A q \in Process \ {p} : pc'[q] = pc[q],
         l.conn = loc[p].conn, l.want = loc[p].want, Left(p)',
         tools' \subseteq ToolRow, (resources \cup prompts)' \subseteq EntryRow,
         \A r \in (resources \cup prompts)' : \E alias \in Alias : r.uri = GatewayUri(alias, r.up),
         UNCHANGED <<conn, writer, histories, resync, edition, announced, does>>
  PROVE  Moving' /\ Moves(p) /\ loc'[p] = l
<1>1. TypeOK /\ Exclusive /\ loc[p].conn \in Conn /\ Listing(loc[p].want, loc[p].conn)
  BY DEF Moving, UnderWayWell, Carries, Wants, Writing, PC
<1>2. loc' \in [Process -> Locals] /\ loc'[p] = l /\ Moves(p)
  BY <1>1, LocalsProperties DEF Moves
<1>3. UnderWayWell(p)'
  BY <1>1, <1>2 DEF Writing, UnderWayWell, Carries, Wants
<1>4. \A q \in Process : UnderWayWell(q)'
  <2>1. \A d \in Conn : edition'[d] \in Nat /\ edition[d] <= edition'[d]
    BY <1>1 DEF TypeOK
  <2> QED BY <1>2, <1>3, <2>1, OthersWell
<1>5. Exclusive'
  BY <1>1, <1>2, LocksKept
<1>6. TypeOK'
  BY <1>1, <1>2 DEF TypeOK, histories
<1>7. Sourced'
  <2>1. pc[p] # "idle"
    BY DEF Writing
  <2>2. \A c \in Conn : resync'[c] = "none" => pc'[c] = "idle"
    BY <1>2, <2>1, LoopsKept
  <2> QED BY <2>2 DEF Moving, Sourced, histories
<1> QED BY <1>2, <1>4, <1>5, <1>6, <1>7 DEF Moving

LEMMA WriteOnMoves ==
  ASSUME Moving, NEW p \in Process,
         StaleDeleted(p) \/ ToolsWritten(p) \/ EntryWritten(p) \/ ResourcesWritten(p)
  PROVE  Moving'
<1>1. /\ Writing(p) /\ TypeOK /\ Sourced /\ Left(p) /\ loc[p] \in Locals
      /\ loc[p].conn \in Conn /\ Listing(loc[p].want, loc[p].conn)
  BY DEF Moving, UnderWayWell, Carries, Wants, Writing, PC, TypeOK,
         StaleDeleted, ToolsWritten, EntryWritten, ResourcesWritten
<1>2. /\ tools \subseteq ToolRow /\ resources \cup prompts \subseteq EntryRow
      /\ \A r \in resources \cup prompts : \E alias \in Alias : r.uri = GatewayUri(alias, r.up)
      /\ loc[p].want.resources \cup loc[p].want.prompts \subseteq EntryRow
      /\ \A r \in loc[p].want.resources \cup loc[p].want.prompts :
           \E alias \in Alias : r.uri = GatewayUri(alias, r.up)
  BY <1>1 DEF TypeOK, Sourced, Listing, WantedRows
<1>3. CASE StaleDeleted(p)
  <2> DEFINE one == CHOOSE r \in loc[p].seen : TRUE
             l == [loc[p] EXCEPT !.seen = loc[p].seen \ {one}]
  <2>1. /\ l \in Locals /\ l.conn = loc[p].conn /\ l.want = loc[p].want /\ l.left = loc[p].left
        /\ l.seen \subseteq loc[p].seen
    BY <1>1 DEF Locals
  <2>2. /\ pc[p] = "tools" /\ loc' = [loc EXCEPT ![p] = l] /\ tools' \subseteq tools
        /\ UNCHANGED <<conn, resources, prompts, pc, writer, resync, edition, announced, does, histories>>
    BY <1>3 DEF StaleDeleted
  <2> HIDE DEF l
  <2>3. loc'[p] = l
    BY <1>1, <2>2 DEF TypeOK
  <2>4. Left(p)'
    <3>1. Passed(p)' = Passed(p)
      BY <2>1, <2>3 DEF Passed
    <3> QED BY <1>1, <2>1, <2>2, <2>3, <3>1 DEF Left
  <2>5. pc' \in [Process -> PC] /\ Writing(p)'
    BY <1>1, <2>2 DEF TypeOK, Writing
  <2> QED BY <1>1, <1>2, <2>1, <2>2, <2>4, <2>5, WriterMoves
<1>4. CASE ToolsWritten(p)
  <2> DEFINE l == [loc[p] EXCEPT !.entries = loc[p].want.resources]
  <2>1. l \in Locals /\ l.conn = loc[p].conn /\ l.want = loc[p].want /\ l.entries = loc[p].want.resources
    BY <1>1, <1>2 DEF Locals
  <2>2. /\ loc' = [loc EXCEPT ![p] = l] /\ resources' \subseteq resources
        /\ Goto(p, "resources") /\ "resources" \in PC
        /\ UNCHANGED <<conn, tools, prompts, writer, resync, edition, announced, does, histories>>
    BY <1>4 DEF ToolsWritten, PC
  <2> HIDE DEF l
  <2>3. loc'[p] = l /\ pc' \in [Process -> PC] /\ pc'[p] = "resources"
        /\ \A q \in Process \ {p} : pc'[q] = pc[q]
    BY <1>1, <2>2, GotoProperties DEF TypeOK
  <2>4. Left(p)' /\ Writing(p)'
    BY <2>1, <2>3 DEF Left, Writing
  <2> QED BY <1>1, <1>2, <2>1, <2>2, <2>3, <2>4, WriterMoves
<1>5. CASE ResourcesWritten(p)
  <2> DEFINE l == [loc[p] EXCEPT !.entries = loc[p].want.prompts]
  <2>1. l \in Locals /\ l.conn = loc[p].conn /\ l.want = loc[p].want /\ l.entries = loc[p].want.prompts
    BY <1>1, <1>2 DEF Locals
  <2>2. /\ loc' = [loc EXCEPT ![p] = l] /\ prompts' \subseteq prompts
        /\ Goto(p, "prompts") /\ "prompts" \in PC
        /\ UNCHANGED <<conn, tools, resources, writer, resync, edition, announced, does, histories>>
    BY <1>5 DEF ResourcesWritten, PC
  <2> HIDE DEF l
  <2>3. loc'[p] = l /\ pc' \in [Process -> PC] /\ pc'[p] = "prompts"
        /\ \A q \in Process \ {p} : pc'[q] = pc[q]
    BY <1>1, <2>2, GotoProperties DEF TypeOK
  <2>4. Left(p)' /\ Writing(p)'
    BY <2>1, <2>3 DEF Left, Writing
  <2> QED BY <1>1, <1>2, <2>1, <2>2, <2>3, <2>4, WriterMoves
<1>6. CASE EntryWritten(p)
  <2> DEFINE one == NextEntry(p)
             l == [loc[p] EXCEPT !.entries = loc[p].entries \ {one}]
  <2>1. /\ l \in Locals /\ l.conn = loc[p].conn /\ l.want = loc[p].want
        /\ l.entries \subseteq loc[p].entries
    BY <1>1 DEF Locals
  <2>2. /\ pc[p] \in {"resources", "prompts"} /\ loc' = [loc EXCEPT ![p] = l]
        /\ one \in loc[p].entries
        /\ UNCHANGED <<conn, tools, writer, pc, histories, resync, edition, announced, does>>
        /\ (resources \cup prompts)' \subseteq resources \cup prompts \cup {one}
    BY <1>6 DEF EntryWritten, NextEntry
  <2>3. one \in loc[p].want.resources \cup loc[p].want.prompts
    BY <1>1, <2>2 DEF Left
  <2> HIDE DEF one, l
  <2>4. loc'[p] = l /\ pc' \in [Process -> PC]
    BY <1>1, <2>2 DEF TypeOK
  <2>5. Left(p)' /\ Writing(p)'
    BY <1>1, <2>1, <2>2, <2>4 DEF Left, Writing
  <2>6. /\ (resources \cup prompts)' \subseteq EntryRow
        /\ \A r \in (resources \cup prompts)' : \E alias \in Alias : r.uri = GatewayUri(alias, r.up)
    BY <1>2, <2>2, <2>3
  <2>7. tools' \subseteq ToolRow /\ \A q \in Process \ {p} : pc'[q] = pc[q]
    BY <1>2, <2>2
  <2> QED BY <1>1, <2>1, <2>2, <2>4, <2>5, <2>6, <2>7, WriterMoves
<1> QED BY <1>3, <1>4, <1>5, <1>6

LEMMA PromptsWrittenMoves ==
  ASSUME Moving, NEW p \in Process, PromptsWritten(p)
  PROVE  Moving'
<1> DEFINE c == loc[p].conn
<1>1. TypeOK /\ c \in Conn /\ pc[p] = "prompts" /\ Writing(p) /\ Listing(loc[p].want, c) /\ loc[p].want \in WantedRows
  BY DEF Moving, UnderWayWell, Carries, Wants, Writing, PC, PromptsWritten, Listing
<1>2. /\ writer' = [writer EXCEPT ![c] = None] /\ synced' = [synced EXCEPT ![c] = loc[p].want]
      /\ Goto(p, "success") /\ "success" \in PC
      /\ UNCHANGED <<rows, loc, torn, unseen, resync, edition, announced, does>>
  BY DEF PromptsWritten, PC
<1>3. pc' \in [Process -> PC] /\ pc'[p] = "success" /\ Moves(p) /\ loc' = loc
  BY <1>1, <1>2, GotoProperties DEF Moves
<1>4. ~Writing(p)' /\ UnderWayWell(p)'
  BY <1>1, <1>3 DEF Writing, UnderWayWell, Carries, Wants, Left
<1>5. \A q \in Process : UnderWayWell(q)'
  <2>1. \A d \in Conn : edition'[d] \in Nat /\ edition[d] <= edition'[d]
    BY <1>1, <1>2 DEF TypeOK
  <2> QED BY <1>3, <1>4, <2>1, OthersWell
<1>6. Exclusive'
  BY <1>1, <1>2, <1>3, <1>4, LockReleased
<1>7. TypeOK'
  BY <1>1, <1>2, <1>3 DEF TypeOK, rows
<1>8. Sourced'
  <2>1. \A d \in Conn : resync'[d] = "none" => pc'[d] = "idle"
    BY <1>1, <1>2, <1>3, LoopsKept
  <2>2. \A d \in Conn : Listing(synced'[d], d)
    <3> HIDE DEF c
    <3>1. \A d \in Conn : synced'[d] = IF d = c THEN loc[p].want ELSE synced[d]
      BY <1>1, <1>2 DEF TypeOK
    <3>2. \A d \in Conn : Listing(synced[d], d)
      BY DEF Moving, Sourced
    <3> QED BY <1>1, <3>1, <3>2
  <2> QED BY <1>2, <2>1, <2>2 DEF Moving, Sourced, rows
<1> QED BY <1>5, <1>6, <1>7, <1>8 DEF Moving

\* Nobody moves.
LEMMA CatalogueRests ==
  ASSUME Moving, pc' = pc, loc' = loc, writer' = writer,
         \A c \in Conn : edition'[c] \in Nat /\ edition[c] <= edition'[c]
  PROVE  (\A q \in Process : UnderWayWell(q)') /\ Exclusive' /\ \A p : Moves(p)
<1>1. \A p : Moves(p)
  BY DEF Moves
<1>2. None \notin Process /\ TypeOK /\ Exclusive
  BY NobodyIsNone DEF Moving
<1>3. \A q \in Process : UnderWayWell(q)'
  BY <1>1, <1>2, OthersWell
<1>4. Exclusive'
  BY <1>1, <1>2, LocksKept
<1> QED BY <1>1, <1>3, <1>4

LEMMA RecordOutcomeMoves ==
  ASSUME Moving, NEW p \in Process, RecordOutcome(p)
  PROVE  Moving'
<1>1. TypeOK /\ pc[p] \in {"success", "failure"} /\ ~Writing(p) /\ loc[p].conn \in Conn
  BY DEF RecordOutcome, Writing, Moving, UnderWayWell, Carries, PC
<1>2. /\ Finish(p) /\ \E s \in Statuses : SetStatus(loc[p].conn, s)
      /\ UNCHANGED <<tools, resources, prompts, writer, resync, edition, announced, does, histories>>
  BY DEF RecordOutcome, Statuses
<1>3. /\ pc' \in [Process -> PC] /\ loc' \in [Process -> Locals] /\ Moves(p)
      /\ (\A q \in Process : UnderWayWell(q)') /\ Exclusive'
  BY <1>1, <1>2, Ends
<1>4. conn' \in [Conn -> [exists : BOOLEAN, alias : Alias, status : Statuses]]
  BY <1>1, <1>2, SetStatusProperties
<1>5. TypeOK'
  BY <1>1, <1>2, <1>3, <1>4 DEF TypeOK, histories
<1>6. Sourced'
  BY <1>1, <1>2, <1>3, SourcesKept DEF histories
<1> QED BY <1>3, <1>5, <1>6 DEF Moving

LEMMA RenameMoves ==
  ASSUME Moving, NEW a \in Actor, NEW c \in Conn, NEW alias \in NewAlias, Rename(a, c, alias)
  PROVE  Moving'
<1> DEFINE l == [Rest EXCEPT !.conn = c, !.alias = alias]
<1>1. TypeOK /\ a \in Process /\ a \notin Conn /\ ~Writing(a) /\ alias \in Alias
  BY NobodyIsNone, AliasAssumption DEF Process, Rename, MayDo, Writing, Moving
<1>2. l \in Locals /\ l.conn = c /\ l.alias = alias
  <2> DEFINE m == [Rest EXCEPT !.conn = c]
  <2>1. m \in Locals /\ m.conn = c
    BY RestTyped DEF Locals
  <2>2. l = [m EXCEPT !.alias = alias]
    OBVIOUS
  <2> HIDE DEF m, l
  <2> QED BY <1>1, <2>1, <2>2 DEF Locals
<1>3. /\ Goto(a, "rename") /\ "rename" \in PC /\ loc' = [loc EXCEPT ![a] = l]
      /\ UNCHANGED <<rows, writer, resync, edition, announced, does, histories>>
  BY DEF Rename, PC
<1> HIDE DEF l
<1>4. /\ pc' \in [Process -> PC] /\ pc'[a] = "rename" /\ loc' \in [Process -> Locals] /\ loc'[a] = l
      /\ Moves(a)
  BY <1>1, <1>2, <1>3, GotoProperties, LocalsProperties DEF Moves
<1>5. ~Writing(a)' /\ UnderWayWell(a)'
  BY <1>1, <1>2, <1>4 DEF Writing, UnderWayWell, Carries, Wants, Left
<1>6. \A q \in Process : UnderWayWell(q)'
  <2>1. \A d \in Conn : edition'[d] \in Nat /\ edition[d] <= edition'[d]
    BY <1>1, <1>3 DEF TypeOK
  <2> QED BY <1>4, <1>5, <2>1, OthersWell
<1>7. Exclusive'
  BY <1>1, <1>3, <1>4, <1>5, LocksKept DEF Moving
<1>8. TypeOK'
  BY <1>1, <1>3, <1>4 DEF TypeOK, rows, histories
<1>9. Sourced'
  BY <1>1, <1>3, <1>4, SourcesKept DEF rows, histories
<1> QED BY <1>6, <1>7, <1>8, <1>9 DEF Moving

LEMMA SetAliasMoves ==
  ASSUME Moving, NEW a \in Actor, SetAlias(a)
  PROVE  Moving'
<1> DEFINE c == loc[a].conn
           alias == loc[a].alias
<1>1. TypeOK /\ a \in Process /\ a \notin Conn /\ pc[a] = "rename" /\ ~Writing(a)
      /\ c \in Conn /\ alias \in Alias
  BY NobodyIsNone DEF Process, SetAlias, Writing, Moving, UnderWayWell, Carries, PC
<1>2. /\ \/ conn' = [conn EXCEPT ![c].alias = alias] /\ SyncWith(a, c, alias)
         \/ conn' = conn /\ Finish(a)
      /\ UNCHANGED <<tools, resources, prompts, writer, resync, edition, announced, does, histories>>
  BY DEF SetAlias
<1> HIDE DEF c, alias
<1>3. /\ pc' \in [Process -> PC] /\ loc' \in [Process -> Locals] /\ Moves(a)
      /\ (\A q \in Process : UnderWayWell(q)') /\ Exclusive'
  BY <1>1, <1>2, SyncBegins, Ends
<1>4. conn' \in [Conn -> [exists : BOOLEAN, alias : Alias, status : Statuses]]
  BY <1>1, <1>2 DEF TypeOK
<1>5. TypeOK'
  BY <1>1, <1>2, <1>3, <1>4 DEF TypeOK, histories
<1>6. Sourced'
  BY <1>1, <1>2, <1>3, SourcesKept DEF histories
<1> QED BY <1>3, <1>5, <1>6 DEF Moving

LEMMA StatusMoves ==
  ASSUME Moving, NEW a \in Actor, NEW c \in Conn, Disable(a, c) \/ Enable(a, c)
  PROVE  Moving'
<1>1. TypeOK /\ a \in Process /\ a \notin Conn /\ ~Writing(a) /\ conn[c].alias \in Alias
  BY NobodyIsNone DEF Process, Disable, Enable, MayDo, Writing, Moving, TypeOK
<1>2. /\ \E s \in Statuses : SetStatus(c, s)
      /\ SyncWith(a, c, conn[c].alias) \/ UNCHANGED <<pc, loc>>
      /\ UNCHANGED <<tools, resources, prompts, writer, resync, edition, announced, does, histories>>
  BY DEF Disable, Enable, Statuses
<1>3. \A d \in Conn : edition'[d] \in Nat /\ edition[d] <= edition'[d]
  BY <1>1, <1>2 DEF TypeOK
<1>4. /\ pc' \in [Process -> PC] /\ loc' \in [Process -> Locals] /\ Moves(a)
      /\ (\A q \in Process : UnderWayWell(q)') /\ Exclusive'
  <2>1. CASE SyncWith(a, c, conn[c].alias)
    BY <1>1, <1>2, <2>1, SyncBegins
  <2>2. CASE UNCHANGED <<pc, loc>>
    BY <1>1, <1>2, <1>3, <2>2, CatalogueRests DEF TypeOK
  <2> QED BY <1>2, <2>1, <2>2
<1>5. conn' \in [Conn -> [exists : BOOLEAN, alias : Alias, status : Statuses]]
  BY <1>1, <1>2, SetStatusProperties
<1>6. TypeOK'
  BY <1>1, <1>2, <1>4, <1>5 DEF TypeOK, histories
<1>7. Sourced'
  BY <1>1, <1>2, <1>4, SourcesKept DEF histories
<1> QED BY <1>4, <1>6, <1>7 DEF Moving

LEMMA ToggleMoves ==
  ASSUME Moving, NEW a \in Actor, NEW r \in tools, SetToolEnabled(a, r)
  PROVE  Moving'
<1>1. TypeOK /\ a \notin Conn
  BY NobodyIsNone DEF Moving
<1>2. /\ tools' = (tools \ {r}) \cup {[r EXCEPT !.enabled = ~r.enabled]}
      /\ UNCHANGED <<conn, resources, prompts, writer, resync, pc, loc, edition, announced, does, histories>>
  BY DEF SetToolEnabled
<1>3. tools' \subseteq ToolRow
  BY <1>1, <1>2 DEF TypeOK, ToolRow
<1>4. (\A q \in Process : UnderWayWell(q)') /\ Exclusive' /\ Moves(a)
  BY <1>1, <1>2, CatalogueRests DEF TypeOK
<1>5. TypeOK'
  BY <1>1, <1>2, <1>3 DEF TypeOK, histories
<1>6. Sourced'
  BY <1>1, <1>2, <1>4, SourcesKept DEF histories
<1> QED BY <1>4, <1>5, <1>6 DEF Moving

LEMMA DisconnectMoves ==
  ASSUME Moving, NEW a \in Actor, NEW c \in Conn, Disconnect(a, c)
  PROVE  Moving'
<1> DEFINE ts == <<"tools", "resources", "prompts">>
           l == [Rest EXCEPT !.conn = c, !.tables = ts]
<1>1. TypeOK /\ Exclusive /\ a \in Process /\ a \notin Conn /\ ~Writing(a)
  BY NobodyIsNone DEF Process, Disconnect, MayDo, Writing, Moving
<1>2. l \in Locals /\ l.conn = c
  <2> DEFINE m == [Rest EXCEPT !.conn = c]
  <2>1. m \in Locals /\ m.conn = c
    BY RestTyped DEF Locals
  <2>2. l = [m EXCEPT !.tables = ts] /\ ts \in Seq({"tools", "resources", "prompts"})
    OBVIOUS
  <2> HIDE DEF m, l, ts
  <2> QED BY <1>1, <2>1, <2>2 DEF Locals
<1>3. /\ Goto(a, "withdraw") /\ "withdraw" \in PC /\ loc' = [loc EXCEPT ![a] = l]
      /\ UNCHANGED <<rows, writer, resync, edition, announced, does, histories>>
  BY DEF Disconnect, PC
<1> HIDE DEF l, ts
<1>4. /\ pc' \in [Process -> PC] /\ pc'[a] = "withdraw" /\ loc' \in [Process -> Locals] /\ loc'[a] = l
      /\ Moves(a)
  BY <1>1, <1>2, <1>3, GotoProperties, LocalsProperties DEF Moves
<1>5. ~Writing(a)' /\ UnderWayWell(a)'
  BY <1>1, <1>2, <1>4 DEF Writing, UnderWayWell, Carries, Wants, Left
<1>6. \A q \in Process : UnderWayWell(q)'
  <2>1. \A d \in Conn : edition'[d] \in Nat /\ edition[d] <= edition'[d]
    BY <1>1, <1>3 DEF TypeOK
  <2> QED BY <1>4, <1>5, <2>1, OthersWell
<1>7. Exclusive'
  BY <1>1, <1>3, <1>4, <1>5, LocksKept
<1>8. TypeOK'
  BY <1>1, <1>3, <1>4 DEF TypeOK, rows, histories
<1>9. Sourced'
  BY <1>1, <1>3, <1>4, SourcesKept DEF rows, histories
<1> QED BY <1>6, <1>7, <1>8, <1>9 DEF Moving

LEMMA WithdrawMoves ==
  ASSUME Moving, NEW a \in Actor, Withdraw(a)
  PROVE  Moving'
<1> DEFINE c == loc[a].conn
           l == [loc[a] EXCEPT !.tables = Tail(loc[a].tables)]
<1>1. TypeOK /\ Exclusive /\ a \in Process /\ a \notin Conn /\ pc[a] = "withdraw" /\ ~Writing(a)
      /\ c \in Conn /\ loc[a] \in Locals
  BY NobodyIsNone DEF Process, Withdraw, Writing, Moving, UnderWayWell, Carries, PC, TypeOK
<1>2. /\ tools' \subseteq tools /\ resources' \subseteq resources /\ prompts' \subseteq prompts
      /\ torn' = [torn EXCEPT ![c] = TRUE]
      /\ UNCHANGED <<writer, resync, edition, announced, does, synced, unseen>>
  BY DEF Withdraw
<1>3. \/ conn' = [conn EXCEPT ![c].exists = FALSE] /\ Finish(a)
      \/ /\ loc[a].tables # <<>> /\ loc' = [loc EXCEPT ![a] = l] /\ UNCHANGED <<conn, pc>>
  BY <1>1 DEF Withdraw, TypeOK
<1>4. \A d \in Conn : edition'[d] \in Nat /\ edition[d] <= edition'[d]
  BY <1>1, <1>2 DEF TypeOK
<1>5. /\ pc' \in [Process -> PC] /\ loc' \in [Process -> Locals] /\ Moves(a)
      /\ (\A q \in Process : UnderWayWell(q)') /\ Exclusive'
      /\ conn' \in [Conn -> [exists : BOOLEAN, alias : Alias, status : Statuses]]
  <2>1. CASE conn' = [conn EXCEPT ![c].exists = FALSE] /\ Finish(a)
    <3>1. conn' \in [Conn -> [exists : BOOLEAN, alias : Alias, status : Statuses]]
      <4> DEFINE Rec == [exists : BOOLEAN, alias : Alias, status : Statuses]
      <4>1. conn \in [Conn -> Rec] /\ c \in Conn
        BY <1>1 DEF TypeOK
      <4>2. conn[c] \in Rec
        BY <4>1
      <4>3. [conn[c] EXCEPT !.exists = FALSE] \in Rec
        BY <4>2
      <4>4. conn' = [conn EXCEPT ![c] = [conn[c] EXCEPT !.exists = FALSE]]
        BY <2>1
      <4> HIDE DEF Rec
      <4>5. conn' \in [Conn -> Rec]
        BY <4>1, <4>3, <4>4
      <4> QED BY <4>5 DEF Rec
    <3> QED BY <1>1, <1>2, <2>1, <3>1, Ends
  <2>2. CASE loc[a].tables # <<>> /\ loc' = [loc EXCEPT ![a] = l] /\ UNCHANGED <<conn, pc>>
    <3>1. l \in Locals /\ l.conn = c
      <4>1. Tail(loc[a].tables) \in Seq({"tools", "resources", "prompts"})
        BY <1>1, <2>2 DEF Locals
      <4> QED BY <1>1, <4>1 DEF Locals
    <3> HIDE DEF l
    <3>2. loc' \in [Process -> Locals] /\ loc'[a] = l /\ Moves(a) /\ pc'[a] = "withdraw"
      BY <1>1, <2>2, <3>1, LocalsProperties DEF Moves
    <3>3. ~Writing(a)' /\ UnderWayWell(a)'
      BY <1>1, <3>1, <3>2 DEF Writing, UnderWayWell, Carries, Wants, Left
    <3>4. \A q \in Process : UnderWayWell(q)'
      BY <1>4, <3>2, <3>3, OthersWell
    <3>5. Exclusive'
      BY <1>1, <1>2, <3>2, <3>3, LocksKept
    <3> QED BY <1>1, <2>2, <3>2, <3>4, <3>5 DEF TypeOK
  <2> QED BY <1>3, <2>1, <2>2
<1>6. TypeOK'
  BY <1>1, <1>2, <1>5 DEF TypeOK
<1>7. Sourced'
  BY <1>1, <1>2, <1>5, SourcesKept
<1> QED BY <1>5, <1>6, <1>7 DEF Moving

LEMMA CrashMoves ==
  ASSUME Moving, NEW a \in Actor, Crash(a)
  PROVE  Moving'
<1>1. TypeOK /\ Exclusive /\ a \in Process /\ a \notin Conn
  BY NobodyIsNone DEF Process, Moving
<1>2. /\ Goto(a, "idle") /\ "idle" \in PC /\ loc' = [loc EXCEPT ![a] = Rest]
      /\ writer' = [c \in Conn |-> IF writer[c] = a THEN None ELSE writer[c]]
      /\ torn' = [c \in Conn |-> torn[c] \/ writer[c] = a]
      /\ UNCHANGED <<rows, resync, edition, announced, does, synced, unseen>>
  BY DEF Crash, Goto, PC
<1>3. /\ pc' \in [Process -> PC] /\ pc'[a] = "idle" /\ loc' \in [Process -> Locals] /\ Moves(a)
  BY <1>1, <1>2, GotoProperties, LocalsProperties, RestTyped DEF Moves
<1>4. ~Writing(a)' /\ UnderWayWell(a)'
  BY <1>3 DEF Writing, UnderWayWell, Carries, Wants, Left, PC
<1>5. \A q \in Process : UnderWayWell(q)'
  <2>1. \A d \in Conn : edition'[d] \in Nat /\ edition[d] <= edition'[d]
    BY <1>1, <1>2 DEF TypeOK
  <2> QED BY <1>3, <1>4, <2>1, OthersWell
<1>6. Exclusive'
  <2>1. ASSUME NEW q \in Process, Writing(q)' PROVE writer'[loc'[q].conn] = q
    <3>1. q # a /\ Writing(q) /\ loc'[q] = loc[q]
      BY <1>3, <1>4, <2>1 DEF Moves, Writing
    <3>2. writer[loc[q].conn] = q /\ loc[q].conn \in Conn
      BY <1>1, <3>1 DEF Exclusive, Moving, UnderWayWell, Carries, Writing, PC
    <3> QED BY <1>2, <3>1, <3>2
  <2>2. ASSUME NEW d \in Conn, writer'[d] # None
        PROVE  pc'[writer'[d]] \in {"tools", "resources", "prompts"} /\ loc'[writer'[d]].conn = d
    <3>1. writer'[d] = writer[d] /\ writer[d] \in Process /\ writer[d] # a
      BY <1>1, <1>2, <2>2 DEF TypeOK
    <3> QED BY <1>1, <1>3, <2>2, <3>1 DEF Exclusive, Moves, Writing
  <2> QED BY <2>1, <2>2 DEF Exclusive, Writing
<1>7. TypeOK'
  <2>1. writer' \in [Conn -> Process \cup {None}] /\ torn' \in [Conn -> BOOLEAN]
    BY <1>1, <1>2 DEF TypeOK
  <2> QED BY <1>1, <1>2, <1>3, <2>1 DEF TypeOK, rows
<1>8. Sourced'
  BY <1>1, <1>2, <1>3, SourcesKept DEF rows
<1> QED BY <1>5, <1>6, <1>7, <1>8 DEF Moving

LEMMA ChangeMoves ==
  ASSUME Moving, NEW c \in Conn, Change(c)
  PROVE  Moving'
<1>1. TypeOK /\ Len(Offer[c]) \in Nat /\ edition[c] \in 1 .. Len(Offer[c])
  BY OfferAssumption DEF Moving, Sourced
<1>2. /\ edition[c] < Len(Offer[c]) /\ edition' = [edition EXCEPT ![c] = edition[c] + 1]
      /\ announced' = [announced EXCEPT ![c] = TRUE]
      /\ UNCHANGED <<rows, writer, resync, pc, loc, does, histories>>
  BY DEF Change
<1>3. /\ edition' \in [Conn -> Nat] /\ \A d \in Conn : edition[d] <= edition'[d]
      /\ edition'[c] \in 1 .. Len(Offer[c]) /\ \A d \in Conn \ {c} : edition'[d] = edition[d]
  BY <1>1, <1>2 DEF TypeOK
<1>4. (\A q \in Process : UnderWayWell(q)') /\ Exclusive'
  BY <1>2, <1>3, CatalogueRests
<1>5. TypeOK'
  BY <1>1, <1>2, <1>3 DEF TypeOK, rows, histories
<1>6. Sourced'
  <2>1. \A d \in Conn : edition'[d] \in 1 .. Len(Offer[d])
    BY <1>3 DEF Moving, Sourced
  <2> QED BY <1>2, <2>1 DEF Moving, Sourced, rows, histories
<1> QED BY <1>4, <1>5, <1>6 DEF Moving

LEMMA ScheduleMoves ==
  ASSUME Moving, NEW c \in Conn, ScheduleResync(c)
  PROVE  Moving'
<1>1. TypeOK /\ c \in Process /\ resync[c] = "none" => ~Writing(c)
  BY NobodyIsNone DEF Moving, Sourced, Writing
<1>2. TypeOK /\ c \in Process /\ Sourced
  BY NobodyIsNone DEF Moving
<1>3. /\ announced' = [announced EXCEPT ![c] = FALSE]
      /\ resync' = [resync EXCEPT ![c] = IF resync[c] = "leaving" THEN resync[c] ELSE Requested(resync[c])]
      /\ unseen' = [unseen EXCEPT ![c] = resync[c] # "leaving"]
      /\ \/ resync[c] = "none" /\ Goto(c, "again")
         \/ resync[c] # "none" /\ pc' = pc
      /\ UNCHANGED <<rows, writer, loc, edition, does, synced, torn>>
  BY DEF ScheduleResync, Goto
<1>4. /\ pc' \in [Process -> PC] /\ Moves(c)
      /\ (\A q \in Process : UnderWayWell(q)') /\ Exclusive'
  <2>1. CASE resync[c] = "none" /\ Goto(c, "again")
    BY <1>1, <1>2, <1>3, <2>1, GoesOn
  <2>2. CASE resync[c] # "none" /\ pc' = pc
    BY <1>2, <1>3, <2>2, CatalogueRests DEF TypeOK
  <2> QED BY <1>3, <2>1, <2>2
<1>5. /\ resync' \in [Conn -> {"none", "busy", "repeat", "leaving"}] /\ resync'[c] # "none"
      /\ \A d \in Conn \ {c} : resync'[d] = resync[d]
  BY <1>2, <1>3 DEF TypeOK, Requested
<1>6. TypeOK'
  BY <1>2, <1>3, <1>4, <1>5 DEF TypeOK, rows
<1>7. \A d \in Conn : resync'[d] = "none" => pc'[d] = "idle"
  <2> SUFFICES ASSUME NEW d \in Conn, resync'[d] = "none" PROVE pc'[d] = "idle"
    OBVIOUS
  <2>1. d # c /\ resync[d] = "none" /\ d \in Process
    BY <1>5, NobodyIsNone
  <2> QED BY <1>2, <1>4, <2>1 DEF Moves, Sourced
<1>8. Sourced'
  BY <1>2, <1>3, <1>7 DEF Sourced, rows
<1> QED BY <1>4, <1>6, <1>8 DEF Moving

LEMMA BeginResyncMoves ==
  ASSUME Moving, NEW c \in Conn, BeginResync(c)
  PROVE  Moving'
<1>1. TypeOK /\ c \in Process /\ pc[c] = "again" /\ ~Writing(c) /\ conn[c].alias \in Alias
  BY NobodyIsNone DEF Moving, TypeOK, BeginResync, Writing
<1>2. /\ unseen' = [unseen EXCEPT ![c] = FALSE]
      /\ SyncWith(c, c, conn[c].alias) \/ Finish(c)
      /\ UNCHANGED <<rows, writer, resync, edition, announced, does, synced, torn>>
  BY DEF BeginResync
<1>3. /\ pc' \in [Process -> PC] /\ loc' \in [Process -> Locals] /\ Moves(c)
      /\ (\A q \in Process : UnderWayWell(q)') /\ Exclusive'
  BY <1>1, <1>2, SyncBegins, Ends
<1>4. TypeOK'
  BY <1>1, <1>2, <1>3 DEF TypeOK, rows
<1>5. Sourced'
  BY <1>1, <1>2, <1>3, SourcesKept DEF rows
<1> QED BY <1>3, <1>4, <1>5 DEF Moving

LEMMA LoopMoves ==
  ASSUME Moving, NEW c \in Conn, RepeatResync(c) \/ EndResync(c)
  PROVE  Moving'
<1>1. TypeOK /\ c \in Process /\ pc[c] \in {"looped", "leave"} /\ ~Writing(c) /\ Sourced
  BY NobodyIsNone DEF Moving, RepeatResync, EndResync, Writing
<1>2. /\ \/ resync' = [resync EXCEPT ![c] = "busy"] /\ Goto(c, "again")
         \/ resync' = [resync EXCEPT ![c] = "leaving"] /\ Goto(c, "leave")
         \/ resync' = [resync EXCEPT ![c] = "none"] /\ Goto(c, "idle")
      /\ UNCHANGED <<rows, writer, loc, edition, announced, does, histories>>
  BY DEF RepeatResync, EndResync
<1>3. /\ pc' \in [Process -> PC] /\ Moves(c)
      /\ (\A q \in Process : UnderWayWell(q)') /\ Exclusive'
  BY <1>1, <1>2, GoesOn
<1>4. resync' \in [Conn -> {"none", "busy", "repeat", "leaving"}]
  BY <1>1, <1>2 DEF TypeOK
<1>5. TypeOK'
  BY <1>1, <1>2, <1>3, <1>4 DEF TypeOK, rows, histories
<1>6. \A d \in Conn : resync'[d] = "none" => pc'[d] = "idle"
  <2> SUFFICES ASSUME NEW d \in Conn, resync'[d] = "none" PROVE pc'[d] = "idle"
    OBVIOUS
  <2>1. CASE d = c
    BY <1>1, <1>2, <2>1, GotoProperties DEF TypeOK, PC
  <2>2. CASE d # c
    <3>1. resync[d] = "none" /\ d \in Process
      BY <1>1, <1>2, <2>2, NobodyIsNone DEF TypeOK
    <3> QED BY <1>1, <1>3, <2>2, <3>1 DEF Moves, Sourced
  <2> QED BY <2>1, <2>2
<1>7. Sourced'
  BY <1>1, <1>2, <1>6 DEF Sourced, rows, histories
<1> QED BY <1>3, <1>5, <1>7 DEF Moving

\* The steps of a catalogue, each taken apart to what it does.
LEMMA SyncStepCases ==
  ASSUME TypeOK, NEW p \in Process, SyncStep(p)
  PROVE  \/ Acquired(p) \/ Listed(p) \/ Unlisted(p) \/ GiveUp(p) \/ Lock(p) \/ RecordOutcome(p)
         \/ Aborted(p) \/ ToolWritten(p) \/ StaleDeleted(p) \/ ToolsWritten(p)
         \/ EntryWritten(p) \/ ResourcesWritten(p) \/ PromptsWritten(p)
BY WriteToolEither, DeleteStaleEither, WriteEntryEither DEF SyncStep, Aborted

\* Each step keeps Moving.
LEMMA MovingNext == Moving /\ [CatalogueNext]_catalogueVars => Moving'
<1> SUFFICES ASSUME Moving, [CatalogueNext]_catalogueVars PROVE Moving'
  OBVIOUS
<1>0. TypeOK
  BY DEF Moving
<1>1. ASSUME NEW p \in Process, SyncStep(p) PROVE Moving'
  BY <1>0, <1>1, SyncStepCases, AcquiredMoves, ListedMoves, FailureMoves, LockMoves,
     RecordOutcomeMoves, AbortMoves, WriteToolMoves, WriteOnMoves, PromptsWrittenMoves DEF Aborted
<1>2. ASSUME NEW a \in Actor, OperationStep(a) PROVE Moving'
  BY <1>2, RefreshMoves, StatusMoves, DisconnectMoves, RenameMoves, ToggleMoves, SetAliasMoves,
     WithdrawMoves, CrashMoves DEF OperationStep
<1>3. ASSUME NEW c \in Conn, Change(c) \/ ScheduleResync(c) \/ LoopStep(c) PROVE Moving'
  BY <1>3, ChangeMoves, ScheduleMoves, BeginResyncMoves, LoopMoves DEF LoopStep
<1>4. CASE UNCHANGED catalogueVars
  <2>1. UNCHANGED <<conn, tools, resources, prompts, writer, resync, pc, loc, edition, announced,
                    does, synced, torn, unseen>>
    BY <1>4 DEF catalogueVars, rows, histories
  <2>2. (\A q \in Process : UnderWayWell(q)') /\ Exclusive'
    BY <1>0, <2>1, CatalogueRests DEF TypeOK
  <2> QED BY <2>1, <2>2 DEF Moving, TypeOK, Sourced
<1> QED BY <1>1, <1>2, <1>3, <1>4 DEF CatalogueNext

(***************************************************************************)
(* What is stored is of one sync                                           *)
(***************************************************************************)

\* The step leaves the rows of connection d as they are, up to `enabled`.
Same(d) ==
  /\ RowIds(Of(tools', d)) = RowIds(Of(tools, d))
  /\ Of(resources', d) = Of(resources, d)
  /\ Of(prompts', d) = Of(prompts, d)

\* Tables of which a writer that does not move has the lock are its own.
LEMMA IntactFrame ==
  ASSUME Moving, Intact, NEW p, Moves(p),
         \A d \in Conn : (Same(d) /\ torn'[d] = torn[d]) \/ writer[d] \in {p, None} \/ torn'[d],
         p \in Process /\ Writing(p)' /\ ~torn'[loc'[p].conn] => UnderWay(p, loc[p].conn)'
  PROVE  Intact'
<1> SUFFICES ASSUME NEW q \in Process, q # p, Writing(q)', ~torn'[loc'[q].conn]
             PROVE  UnderWay(q, loc[q].conn)'
  BY DEF Intact
<1>0. PICK d : d = loc[q].conn
  OBVIOUS
<1>1. pc'[q] = pc[q] /\ loc'[q] = loc[q] /\ Writing(q)
  BY DEF Moves, Writing
<1>2. d \in Conn /\ writer[d] = q /\ q # None
  BY <1>0, <1>1, NobodyIsNone DEF Moving, UnderWayWell, Carries, Exclusive, Writing, PC
<1>3. Same(d) /\ ~torn[d]
  BY <1>0, <1>1, <1>2
<1>4. UnderWay(q, d)
  BY <1>0, <1>1, <1>3 DEF Intact
<1>5. DoneWith(q)' = DoneWith(q)
  BY <1>1 DEF DoneWith, Passed
<1>6. /\ RowIds(Of(tools', d)) = RowIds(Of(tools, d)) /\ Of(resources', d) = Of(resources, d)
      /\ Of(prompts', d) = Of(prompts, d)
  BY <1>3 DEF Same
<1>7. ToolsUnderWay(q, d) => ToolsUnderWay(q, d)'
  <2>1. RowIds(loc'[q].seen) = RowIds(loc[q].seen) /\ RowIds(DoneWith(q))' = RowIds(DoneWith(q))
    BY <1>1, <1>5 DEF RowIds
  <2>2. RowIds(Of(tools, d))' = RowIds(Of(tools', d)) /\ RowIds(loc[q].seen)' = RowIds(loc'[q].seen)
    BY DEF RowIds, Of, Identity
  <2> QED BY <1>1, <1>5, <1>6, <2>1, <2>2 DEF ToolsUnderWay
<1>8. UnderWay(q, d)'
  <2>1. /\ RowIds(Of(tools, d))' = RowIds(Of(tools', d)) /\ Of(resources, d)' = Of(resources', d)
        /\ Of(prompts, d)' = Of(prompts', d) /\ RowIds(ToolsIn(loc[q].want))' = RowIds(ToolsIn(loc'[q].want))
    BY DEF RowIds, Of, Identity, ToolsIn
  <2>2. RowIds(ToolsIn(loc'[q].want)) = RowIds(ToolsIn(loc[q].want))
    BY <1>1
  <2> QED BY <1>1, <1>4, <1>6, <1>7, <2>1, <2>2 DEF UnderWay
<1> QED BY <1>0, <1>1, <1>8

LEMMA StoredFrame ==
  ASSUME AllStored,
         \A d \in Conn : writer'[d] = None /\ ~torn'[d] =>
           \/ /\ Same(d) /\ synced'[d] = synced[d]
              /\ writer[d] = None /\ ~torn[d]
           \/ Stored(d)'
  PROVE  AllStored'
<1> SUFFICES ASSUME NEW d \in Conn, writer'[d] = None, ~torn'[d], writer[d] = None, ~torn[d],
                    Same(d), synced'[d] = synced[d]
             PROVE  Stored(d)'
  BY DEF AllStored
<1>1. Stored(d)
  BY DEF AllStored
<1>2. /\ RowIds(Of(tools, d))' = RowIds(Of(tools', d)) /\ Of(resources, d)' = Of(resources', d)
      /\ Of(prompts, d)' = Of(prompts', d) /\ RowIds(ToolsIn(synced[d]))' = RowIds(ToolsIn(synced'[d]))
  BY DEF RowIds, Of, Identity, ToolsIn
<1>3. RowIds(ToolsIn(synced'[d])) = RowIds(ToolsIn(synced[d]))
  OBVIOUS
<1> QED BY <1>1, <1>2, <1>3 DEF Stored, Same

\* A step of no writer's.
Quiet(p) ==
  /\ Moves(p)
  /\ p \in Process => ~Writing(p)'
  /\ \A d \in Conn : Same(d)
  /\ UNCHANGED <<writer, synced, torn>>

\* What it leaves as it was.
LEMMA QuietKeeps ==
  ASSUME Moving, Intact, AllStored, NEW p, Quiet(p)
  PROVE  Intact' /\ AllStored'
<1>1. Intact'
  BY IntactFrame DEF Quiet
<1>2. AllStored'
  BY StoredFrame DEF Quiet
<1> QED BY <1>1, <1>2

\* Rows that stay are the rows of their connection.
LEMMA RowsSame ==
  ASSUME UNCHANGED <<tools, resources, prompts>>
  PROVE  \A d : Same(d)
BY DEF Same

\* A step that takes a process to a place where it does not write.
LEMMA TakesTo ==
  ASSUME TypeOK, NEW p \in Process, NEW s \in PC \ {"tools", "resources", "prompts"}, Goto(p, s),
         loc' = loc \/ \E l : loc' = [loc EXCEPT ![p] = l]
  PROVE  Moves(p) /\ ~Writing(p)'
BY GotoProperties DEF Moves, Writing, TypeOK

\* The steps that write nothing: of a sync ...
LEMMA QuietSync ==
  ASSUME Moving, NEW p \in Process,
         Acquired(p) \/ Listed(p) \/ Unlisted(p) \/ GiveUp(p) \/ RecordOutcome(p)
  PROVE  Quiet(p)
<1>0. TypeOK
  BY DEF Moving
<1>1. {"list", "lock", "failure"} \subseteq PC \ {"tools", "resources", "prompts"}
  BY DEF PC
<1>2. UNCHANGED <<tools, resources, prompts, writer, synced, torn>>
  BY DEF Acquired, Listed, Unlisted, GiveUp, RecordOutcome, rows, histories
<1>3. Moves(p) /\ ~Writing(p)'
  <2>1. CASE Acquired(p)
    <3>1. Goto(p, "list") /\ loc' = [loc EXCEPT ![p] = [loc[p] EXCEPT !.from = edition[loc[p].conn]]]
      BY <2>1 DEF Acquired
    <3> QED BY <1>0, <1>1, <3>1, TakesTo
  <2>2. CASE Listed(p)
    <3>1. PICK w : Goto(p, "lock") /\ loc' = [loc EXCEPT ![p] = [loc[p] EXCEPT !.want = w]]
      BY <2>2 DEF Listed
    <3> QED BY <1>0, <1>1, <3>1, TakesTo
  <2>3. CASE Unlisted(p) \/ GiveUp(p)
    <3>1. Goto(p, "failure") /\ loc' = loc
      BY <2>3 DEF Unlisted, GiveUp
    <3> QED BY <1>0, <1>1, <3>1, TakesTo
  <2>4. CASE RecordOutcome(p)
    BY <1>0, <2>4, FinishProperties DEF RecordOutcome, Writing
  <2> QED BY <2>1, <2>2, <2>3, <2>4
<1> QED BY <1>2, <1>3, RowsSame DEF Quiet

\* ... of the operations on a connection ...
LEMMA QuietOperation ==
  ASSUME Moving, NEW a \in Actor,
         \/ \E c \in Conn : Refresh(a, c) \/ Disable(a, c) \/ Enable(a, c) \/ Disconnect(a, c)
         \/ \E c \in Conn, alias \in NewAlias : Rename(a, c, alias)
         \/ SetAlias(a)
  PROVE  Quiet(a)
<1>0. TypeOK /\ a \in Process /\ "rename" \in PC /\ "withdraw" \in PC /\ \A c \in Conn : conn[c].alias \in Alias
  BY DEF Moving, Process, PC, TypeOK
<1>1. CASE \E c \in Conn : Refresh(a, c)
  <2>1. PICK c \in Conn : SyncWith(a, c, conn[c].alias) /\ UNCHANGED <<rows, writer, histories>>
    BY <1>1 DEF Refresh
  <2> QED BY <1>0, <2>1, SyncWithProperties, RowsSame DEF Quiet, Writing, rows, histories
<1>2. CASE \E c \in Conn : Disable(a, c)
  <2>1. pc[a] = "idle" /\ UNCHANGED <<tools, resources, prompts, writer, pc, loc, histories>>
    BY <1>2 DEF Disable, MayDo
  <2> QED BY <2>1, RowsSame DEF Quiet, Moves, Writing, histories
<1>3. CASE \E c \in Conn : Enable(a, c)
  <2>1. PICK c \in Conn : /\ SyncWith(a, c, conn[c].alias)
                          /\ UNCHANGED <<tools, resources, prompts, writer, histories>>
    BY <1>3 DEF Enable
  <2> QED BY <1>0, <2>1, SyncWithProperties, RowsSame DEF Quiet, Writing, histories
<1>4. CASE \E c \in Conn : Disconnect(a, c)
  <2>1. /\ Goto(a, "withdraw") /\ (\E l : loc' = [loc EXCEPT ![a] = l])
        /\ UNCHANGED <<rows, writer, histories>>
    BY <1>4 DEF Disconnect
  <2>2. Moves(a) /\ ~Writing(a)'
    BY <1>0, <2>1, TakesTo
  <2> QED BY <2>1, <2>2, RowsSame DEF Quiet, rows, histories
<1>5. CASE \E c \in Conn, alias \in NewAlias : Rename(a, c, alias)
  <2>1. /\ Goto(a, "rename") /\ (\E l : loc' = [loc EXCEPT ![a] = l])
        /\ UNCHANGED <<rows, writer, histories>>
    BY <1>5 DEF Rename
  <2>2. Moves(a) /\ ~Writing(a)'
    BY <1>0, <2>1, TakesTo
  <2> QED BY <2>1, <2>2, RowsSame DEF Quiet, rows, histories
<1>6. CASE SetAlias(a)
  <2>1. /\ SyncWith(a, loc[a].conn, loc[a].alias) \/ Finish(a)
        /\ UNCHANGED <<tools, resources, prompts, writer, histories>> /\ pc[a] = "rename"
    BY <1>6 DEF SetAlias
  <2>2. loc[a].conn \in Conn /\ loc[a].alias \in Alias
    BY <1>0, <2>1 DEF Moving, UnderWayWell, Carries, PC
  <2>3. Moves(a) /\ ~Writing(a)'
    BY <1>0, <2>1, <2>2, SyncWithProperties, FinishProperties DEF Writing
  <2> QED BY <2>1, <2>3, RowsSame DEF Quiet, histories
<1> QED BY <1>1, <1>2, <1>3, <1>4, <1>5, <1>6

\* ... and of the loop that follows what the server announces.
LEMMA QuietLoop ==
  ASSUME Moving, NEW c \in Conn, Change(c) \/ ScheduleResync(c) \/ LoopStep(c)
  PROVE  Quiet(None) \/ Quiet(c)
<1>0. TypeOK /\ c \in Process /\ conn[c].alias \in Alias /\ None \notin Process
      /\ {"again", "leave", "idle"} \subseteq PC
  BY NobodyIsNone DEF Moving, TypeOK, PC
<1>1. UNCHANGED <<tools, resources, prompts, writer, synced, torn>>
  BY DEF Change, ScheduleResync, LoopStep, BeginResync, RepeatResync, EndResync, rows, histories
<1>2. CASE pc' = pc /\ loc' = loc
  BY <1>0, <1>1, <1>2, RowsSame DEF Quiet, Moves
<1>3. CASE \E s \in {"again", "leave", "idle"} : Goto(c, s) /\ loc' = loc
  <2>1. Moves(c) /\ ~Writing(c)'
    BY <1>0, <1>3, TakesTo
  <2> QED BY <1>1, <2>1, RowsSame DEF Quiet
<1>4. CASE SyncWith(c, c, conn[c].alias) \/ Finish(c)
  <2>1. Moves(c) /\ ~Writing(c)'
    BY <1>0, <1>4, SyncWithProperties, FinishProperties DEF Writing
  <2> QED BY <1>1, <2>1, RowsSame DEF Quiet
<1>5. \/ pc' = pc /\ loc' = loc
      \/ \E s \in {"again", "leave", "idle"} : Goto(c, s) /\ loc' = loc
      \/ SyncWith(c, c, conn[c].alias) \/ Finish(c)
  BY DEF Change, ScheduleResync, LoopStep, BeginResync, RepeatResync, EndResync, Goto
<1> QED BY <1>2, <1>3, <1>4, <1>5

\* A tool enabled or disabled is the tool it was.
LEMMA ToggleKeeps ==
  ASSUME Moving, Intact, AllStored, NEW a \in Actor, NEW r \in tools, SetToolEnabled(a, r)
  PROVE  Intact' /\ AllStored'
<1> DEFINE new == [r EXCEPT !.enabled = ~r.enabled]
<1>1. /\ tools' = (tools \ {r}) \cup {new} /\ pc[a] = "idle"
      /\ UNCHANGED <<conn, resources, prompts, writer, pc, loc, histories>>
  BY DEF SetToolEnabled, MayDo
<1>2. r \in ToolRow
  BY DEF Moving, TypeOK
<1>3. Identity(new) = Identity(r) /\ new.conn = r.conn
  BY <1>2 DEF Identity, ToolRow
<1> HIDE DEF new
<1>4. \A d \in Conn : RowIds(Of(tools', d)) = RowIds(Of(tools, d))
  BY <1>1, <1>3 DEF RowIds, Of
<1>5. Quiet(a)
  BY <1>1, <1>4 DEF Quiet, Moves, Writing, Same, histories
<1> QED BY <1>5, QuietKeeps

\* A disconnection tears the catalogue it takes apart, no other.
LEMMA WithdrawKeeps ==
  ASSUME Moving, Intact, AllStored, NEW a \in Actor, Withdraw(a)
  PROVE  Intact' /\ AllStored'
<1>0. PICK c : c = loc[a].conn
  OBVIOUS
<1>1. TypeOK /\ a \in Process /\ pc[a] = "withdraw" /\ c \in Conn
  BY <1>0 DEF Process, Withdraw, Moving, UnderWayWell, Carries, PC
<1>2. /\ tools \ Of(tools, c) \subseteq tools' /\ tools' \subseteq tools
      /\ resources \ Of(resources, c) \subseteq resources' /\ resources' \subseteq resources
      /\ prompts \ Of(prompts, c) \subseteq prompts' /\ prompts' \subseteq prompts
      /\ torn' = [torn EXCEPT ![c] = TRUE]
      /\ UNCHANGED <<writer, synced>>
  BY <1>0 DEF Withdraw
<1>3. Moves(a) /\ ~Writing(a)'
  <2>1. CASE Finish(a)
    BY <1>1, <2>1, FinishProperties DEF Writing
  <2>2. CASE ~Finish(a)
    BY <1>1, <2>2 DEF Withdraw, Moves, Writing, TypeOK
  <2> QED BY <2>1, <2>2
<1>4. \A d \in Conn \ {c} : Same(d) /\ torn'[d] = torn[d]
  <2>1. \A d \in Conn \ {c} : /\ Of(tools', d) = Of(tools, d) /\ Of(resources', d) = Of(resources, d)
                              /\ Of(prompts', d) = Of(prompts, d)
    BY <1>2 DEF Of
  <2> QED BY <1>1, <1>2, <2>1 DEF Same, TypeOK
<1>5. torn'[c]
  BY <1>1, <1>2 DEF TypeOK
<1>6. Intact'
  <2>1. \A d \in Conn : (Same(d) /\ torn'[d] = torn[d]) \/ writer[d] \in {a, None} \/ torn'[d]
    BY <1>4, <1>5
  <2> QED BY <1>3, <2>1, IntactFrame
<1>7. AllStored'
  <2>1. \A d \in Conn : writer'[d] = None /\ ~torn'[d] =>
          Same(d) /\ synced'[d] = synced[d] /\ writer[d] = None /\ ~torn[d]
    BY <1>2, <1>4, <1>5
  <2> QED BY <2>1, StoredFrame
<1> QED BY <1>6, <1>7

\* A crash leaves the catalogue of a writer torn.
LEMMA CrashKeeps ==
  ASSUME Moving, Intact, AllStored, NEW a \in Actor, Crash(a)
  PROVE  Intact' /\ AllStored'
<1>1. TypeOK /\ a \in Process
  BY DEF Process, Moving
<1>2. /\ pc' = [pc EXCEPT ![a] = "idle"] /\ loc' = [loc EXCEPT ![a] = Rest]
      /\ \A d \in Conn : writer'[d] = IF writer[d] = a THEN None ELSE writer[d]
      /\ \A d \in Conn : torn'[d] <=> torn[d] \/ writer[d] = a
      /\ UNCHANGED <<tools, resources, prompts, synced>>
  BY DEF Crash, rows
<1>3. Moves(a) /\ ~Writing(a)'
  BY <1>1, <1>2 DEF Moves, Writing, TypeOK
<1>4. \A d : Same(d)
  BY <1>2, RowsSame
<1>5. Intact'
  <2>1. \A d \in Conn : (Same(d) /\ torn'[d] = torn[d]) \/ writer[d] \in {a, None} \/ torn'[d]
    <3>1. \A d \in Conn : torn[d] \in BOOLEAN /\ torn'[d] \in BOOLEAN
      BY <1>1, CrashMoves DEF TypeOK, Moving
    <3> QED BY <1>2, <1>4, <3>1
  <2> QED BY <1>3, <2>1, IntactFrame
<1>6. AllStored'
  <2>1. \A d \in Conn : writer'[d] = None /\ ~torn'[d] =>
          Same(d) /\ synced'[d] = synced[d] /\ writer[d] = None /\ ~torn[d]
    BY <1>2, <1>4
  <2> QED BY <2>1, StoredFrame
<1> QED BY <1>5, <1>6

\* Who takes the lock starts from the rows there are.
LEMMA LockKeeps ==
  ASSUME Moving, Intact, AllStored, NEW p \in Process, Lock(p)
  PROVE  Intact' /\ AllStored'
<1>0. PICK c : c = loc[p].conn
  OBVIOUS
<1>1. TypeOK /\ pc[p] = "lock" /\ c \in Conn /\ writer[c] = None /\ loc[p] \in Locals
      /\ Listing(loc[p].want, c)
  BY <1>0 DEF Lock, MayWrite, Moving, UnderWayWell, Carries, Wants, PC, TypeOK
<1>2. /\ writer' = [writer EXCEPT ![c] = p] /\ torn' = [torn EXCEPT ![c] = FALSE]
      /\ pc' = [pc EXCEPT ![p] = "tools"]
      /\ loc' = [loc EXCEPT ![p].left = loc[p].want.tools, ![p].seen = Of(tools, c)]
      /\ UNCHANGED <<tools, resources, prompts, synced>>
  BY <1>0 DEF Lock, Goto, rows
<1>3. /\ Moves(p) /\ pc'[p] = "tools"
      /\ loc'[p].conn = c /\ loc'[p].want = loc[p].want /\ loc'[p].left = loc[p].want.tools
      /\ loc'[p].seen = Of(tools, c)
  BY <1>0, <1>1, <1>2 DEF Moves, TypeOK, Locals
<1>4. \A d : Same(d)
  BY <1>2, RowsSame
<1>5. UnderWay(p, c)'
  <2>1. loc[p].want.tools \in Seq(ToolRow)
    BY <1>1 DEF Listing, WantedRows
  <2>2. Passed(p)' = 0
    <3>1. Len(loc[p].want.tools) \in Nat
      BY <2>1
    <3> QED BY <1>3, <3>1 DEF Passed
  <2>3. DoneWith(p)' = {}
    BY <2>2 DEF DoneWith
  <2>4. /\ RowIds(Of(tools, c))' = RowIds(Of(tools, c)) /\ RowIds(loc[p].seen)' = RowIds(Of(tools, c))
        /\ RowIds(DoneWith(p))' = {}
    BY <1>2, <1>3, <2>3 DEF RowIds, Of, Identity
  <2>5. ToolsUnderWay(p, c)'
    BY <2>3, <2>4 DEF ToolsUnderWay
  <2> QED BY <1>3, <2>5 DEF UnderWay
<1>6. Intact'
  <2>1. \A d \in Conn : (Same(d) /\ torn'[d] = torn[d]) \/ writer[d] \in {p, None} \/ torn'[d]
    BY <1>1, <1>2, <1>4 DEF TypeOK
  <2>2. UnderWay(p, loc[p].conn)'
    BY <1>3, <1>5
  <2> QED BY <1>3, <2>1, <2>2, IntactFrame
<1>7. AllStored'
  <2>1. p # None
    BY NobodyIsNone
  <2>2. \A d \in Conn : writer'[d] = None /\ ~torn'[d] =>
          Same(d) /\ synced'[d] = synced[d] /\ writer[d] = None /\ ~torn[d]
    BY <1>1, <1>2, <1>4, <2>1 DEF TypeOK
  <2> QED BY <2>2, StoredFrame
<1> QED BY <1>6, <1>7

\* A writer that fails leaves a torn catalogue.
LEMMA AbortKeeps ==
  ASSUME Moving, Intact, AllStored, NEW p \in Process, Aborted(p)
  PROVE  Intact' /\ AllStored'
<1>0. PICK c : c = loc[p].conn
  OBVIOUS
<1>1. TypeOK /\ c \in Conn /\ writer[c] = p
  BY <1>0 DEF Aborted, Moving, UnderWayWell, Carries, Exclusive, Writing, PC
<1>2. /\ writer' = [writer EXCEPT ![c] = None] /\ torn' = [torn EXCEPT ![c] = TRUE]
      /\ pc' = [pc EXCEPT ![p] = "failure"]
      /\ UNCHANGED <<tools, resources, prompts, loc, synced>>
  BY <1>0 DEF Aborted, Abort, Goto, rows
<1>3. Moves(p) /\ ~Writing(p)' /\ \A d : Same(d)
  BY <1>1, <1>2, RowsSame DEF Moves, Writing, TypeOK
<1>4. Intact'
  <2>1. \A d \in Conn : (Same(d) /\ torn'[d] = torn[d]) \/ writer[d] \in {p, None} \/ torn'[d]
    BY <1>1, <1>2, <1>3 DEF TypeOK
  <2> QED BY <1>3, <2>1, IntactFrame
<1>5. AllStored'
  <2>1. \A d \in Conn : writer'[d] = None /\ ~torn'[d] =>
          Same(d) /\ synced'[d] = synced[d] /\ writer[d] = None /\ ~torn[d]
    BY <1>1, <1>2, <1>3 DEF TypeOK
  <2> QED BY <2>1, StoredFrame
<1> QED BY <1>4, <1>5

\* A writer goes on with the rows of its connection.
LEMMA WriterKeeps ==
  ASSUME Moving, Intact, AllStored, NEW p \in Process, Moves(p), Writing(p),
         UNCHANGED <<writer, torn, synced>>, loc'[p].conn = loc[p].conn,
         \A d \in Conn : d # loc[p].conn => Same(d),
         UnderWay(p, loc[p].conn) => UnderWay(p, loc[p].conn)'
  PROVE  Intact' /\ AllStored'
<1>0. PICK c : c = loc[p].conn
  OBVIOUS
<1>1. c \in Conn /\ writer[c] = p /\ p # None
  BY <1>0, NobodyIsNone DEF Moving, UnderWayWell, Carries, Exclusive, Writing, PC
<1>2. Intact'
  <2>1. \A d \in Conn : (Same(d) /\ torn'[d] = torn[d]) \/ writer[d] \in {p, None} \/ torn'[d]
    BY <1>0, <1>1
  <2>2. ~torn'[loc'[p].conn] => UnderWay(p, loc[p].conn)'
    BY DEF Intact
  <2> QED BY <2>1, <2>2, IntactFrame
<1>3. AllStored'
  <2>1. \A d \in Conn : writer'[d] = None /\ ~torn'[d] =>
          Same(d) /\ synced'[d] = synced[d] /\ writer[d] = None /\ ~torn[d]
    BY <1>0, <1>1
  <2> QED BY <2>1, StoredFrame
<1> QED BY <1>2, <1>3

\* One round of syncTools: the tool is stored as listed, whether there was none,
\* one like it or another, and the rows not yet looked at stay.
LEMMA ToolWrittenKeeps ==
  ASSUME Moving, Intact, AllStored, NEW p \in Process, ToolWritten(p)
  PROVE  Intact' /\ AllStored'
<1> DEFINE new == Head(loc[p].left)
           previous == {r \in loc[p].seen : r.up = new.up}
           Changed(c) == {r \in Of(tools, c) : r.up = new.up /\ \E q \in previous : Identity(q) # Identity(new)}
           As(r) == [new EXCEPT !.enabled = r.enabled]
<1>0. PICK c : c = loc[p].conn
  OBVIOUS
<1>1. /\ c \in Conn /\ loc[p].left # <<>> /\ new \in ToolRow /\ new.conn = c
      /\ Passed(p) \in Nat /\ new = loc[p].want.tools[Passed(p) + 1]
      /\ Moves(p) /\ pc'[p] = "tools" /\ loc'[p].conn = c /\ loc'[p].want = loc[p].want
      /\ loc'[p].seen = {q \in loc[p].seen : q.up # new.up}
      /\ Passed(p)' = Passed(p) + 1
  BY <1>0, ToolWrittenLocals
<1>2. /\ pc[p] = "tools" /\ Writing(p)
      /\ tools' = IF previous = {} THEN tools \cup {new}
                  ELSE (tools \ Changed(c)) \cup {As(r) : r \in Changed(c)}
      /\ UNCHANGED <<resources, prompts, writer, torn, synced>>
  BY <1>0 DEF ToolWritten, Writing, histories
<1>3. \A r : Identity(As(r)) = Identity(new) /\ As(r).conn = c
  BY <1>1 DEF ToolRow, Identity
<1> HIDE DEF new, As
<1>4. \A d \in Conn : d # c => Same(d)
  <2> SUFFICES ASSUME NEW d \in Conn, d # c PROVE Of(tools', d) = Of(tools, d)
    BY <1>2 DEF Same
  <2>1. \A r \in Changed(c) : r.conn = c
    BY DEF Of
  <2> HIDE DEF Changed, previous
  <2> QED BY <1>1, <1>2, <1>3, <2>1 DEF Of
<1>5. DoneWith(p)' = DoneWith(p) \cup {new}
  <2>1. DoneWith(p)' = {loc[p].want.tools[i] : i \in 1 .. (Passed(p) + 1)}
    BY <1>1 DEF DoneWith
  <2>2. 1 .. (Passed(p) + 1) = (1 .. Passed(p)) \cup {Passed(p) + 1}
    BY <1>1
  <2> QED BY <1>1, <2>1, <2>2 DEF DoneWith
<1>6. ASSUME ToolsUnderWay(p, c) PROVE ToolsUnderWay(p, c)'
  <2> DEFINE T == Of(tools, c)
             U == Of(tools', c)
             D == DoneWith(p)
             S == loc[p].seen
             R == {q \in S : q.up # new.up}
  <2>1. /\ RowIds(T) \subseteq RowIds(D) \cup RowIds(S) /\ RowIds(D) \subseteq RowIds(T) /\ RowIds(S) \subseteq RowIds(T)
        /\ \A q \in S, r \in D : q.up # r.up
    BY <1>1, <1>6 DEF ToolsUnderWay
  <2>2. \A q, r : Identity(q) = Identity(r) => q.up = r.up
    BY DEF Identity
  <2>3. \A q, X : q \in X => Identity(q) \in RowIds(X)
    BY DEF RowIds
  <2>4. \A x, X : x \in RowIds(X) => \E q \in X : Identity(q) = x
    BY DEF RowIds
  <2>5. /\ RowIds(U) \subseteq RowIds(D \cup {new}) \cup RowIds(R)
        /\ RowIds(D \cup {new}) \subseteq RowIds(U)
        /\ RowIds(R) \subseteq RowIds(U)
    <3>1. CASE previous = {}
      <4>1. U = T \cup {new}
        BY <1>1, <1>2, <3>1 DEF Of
      <4>2. R = S
        BY <3>1
      <4>3. RowIds(U) = RowIds(T) \cup {Identity(new)} /\ RowIds(D \cup {new}) = RowIds(D) \cup {Identity(new)}
        BY <4>1 DEF RowIds
      <4> HIDE DEF T, U, D, S, R
      <4> QED BY <2>1, <4>2, <4>3
    <3>2. CASE previous # {}
      <4>1. U = (T \ Changed(c)) \cup {As(r) : r \in Changed(c)}
        BY <1>2, <1>3, <3>2 DEF Of
      <4>2. PICK old \in S : old.up = new.up
        BY <3>2
      <4>3. \A q \in S : q \in R \/ q \in previous
        OBVIOUS
      <4>4. \A r \in T : r \in Changed(c) <=> r.up = new.up /\ \E q \in previous : Identity(q) # Identity(new)
        OBVIOUS
      <4>5. \A q \in previous : q \in S /\ q.up = new.up
        OBVIOUS
      <4>6. \A q \in R : q \in S /\ q.up # new.up
        OBVIOUS
      <4>7. \A r \in Changed(c) : As(r) \in U
        BY <4>1
      <4>8. \A r \in T : r \notin Changed(c) => r \in U
        BY <4>1
      <4>9. \A r \in U : (r \in T /\ r \notin Changed(c)) \/ Identity(r) = Identity(new)
        BY <1>3, <4>1
      <4>10. Changed(c) \subseteq T
        OBVIOUS
      <4> HIDE DEF T, U, D, S, R, Changed, previous
      <4>11. ASSUME NEW r \in U PROVE Identity(r) \in RowIds(D \cup {new}) \cup RowIds(R)
        <5>1. CASE Identity(r) = Identity(new)
          BY <2>3, <5>1
        <5>2. CASE Identity(r) # Identity(new)
          <6>1. r \in T /\ r \notin Changed(c)
            BY <4>9, <5>2
          <6>2. CASE Identity(r) \in RowIds(D)
            <7>1. PICK q \in D : Identity(q) = Identity(r)
              BY <2>4, <6>2
            <7> QED BY <2>3, <7>1
          <6>3. CASE Identity(r) \in RowIds(S)
            <7>1. PICK q \in S : Identity(q) = Identity(r)
              BY <2>4, <6>3
            <7>2. CASE q \in R
              BY <2>3, <7>1, <7>2
            <7>3. CASE q \in previous
              BY <2>2, <4>4, <4>5, <5>2, <6>1, <7>1, <7>3
            <7> QED BY <4>3, <7>2, <7>3
          <6> QED BY <2>1, <2>3, <6>1, <6>2, <6>3
        <5> QED BY <5>1, <5>2
      <4>12. Identity(new) \in RowIds(U)
        <5>1. Identity(old) \in RowIds(T)
          BY <2>1, <2>3, <4>2
        <5>2. PICK x \in T : Identity(x) = Identity(old)
          BY <2>4, <5>1
        <5>3. x.up = new.up
          BY <2>2, <4>2, <5>2
        <5>4. CASE x \in Changed(c)
          BY <1>3, <2>3, <4>7, <5>4
        <5>5. CASE x \notin Changed(c)
          <6>1. old \in previous
            BY <4>2 DEF previous, S
          <6>2. Identity(x) = Identity(new)
            BY <4>4, <5>2, <5>3, <5>5, <6>1
          <6>3. Identity(x) \in RowIds(U)
            BY <2>3, <4>8, <5>5
          <6> QED BY <6>2, <6>3
        <5> QED BY <5>4, <5>5
      <4>13. ASSUME NEW q \in D PROVE Identity(q) \in RowIds(U)
        <5>1. PICK x \in T : Identity(x) = Identity(q)
          BY <2>1, <2>3, <2>4
        <5>2. x \notin Changed(c)
          BY <2>1, <2>2, <4>2, <4>4, <5>1
        <5>3. Identity(x) \in RowIds(U)
          BY <2>3, <4>8, <5>2
        <5> QED BY <5>1, <5>3
      <4>14. ASSUME NEW q \in R PROVE Identity(q) \in RowIds(U)
        <5>1. PICK x \in T : Identity(x) = Identity(q)
          BY <2>1, <2>3, <2>4, <4>6
        <5>2. x \notin Changed(c)
          BY <2>2, <4>4, <4>6, <5>1
        <5>3. Identity(x) \in RowIds(U)
          BY <2>3, <4>8, <5>2
        <5> QED BY <5>1, <5>3
      <4>15. RowIds(U) \subseteq RowIds(D \cup {new}) \cup RowIds(R)
        <5> SUFFICES ASSUME NEW x \in RowIds(U) PROVE x \in RowIds(D \cup {new}) \cup RowIds(R)
          OBVIOUS
        <5> QED BY <2>4, <4>11
      <4>16. RowIds(D \cup {new}) \subseteq RowIds(U)
        <5> SUFFICES ASSUME NEW x \in RowIds(D \cup {new}) PROVE x \in RowIds(U)
          OBVIOUS
        <5>1. PICK q \in D \cup {new} : Identity(q) = x
          BY <2>4
        <5> QED BY <4>12, <4>13, <5>1
      <4>17. RowIds(R) \subseteq RowIds(U)
        <5> SUFFICES ASSUME NEW x \in RowIds(R) PROVE x \in RowIds(U)
          OBVIOUS
        <5> QED BY <2>4, <4>14
      <4> QED BY <4>15, <4>16, <4>17
    <3> QED BY <3>1, <3>2
  <2>6. \A q \in R, r \in D \cup {new} : q.up # r.up
    BY <2>1
  <2>7. /\ RowIds(Of(tools, c))' = RowIds(U) /\ RowIds(DoneWith(p))' = RowIds(D \cup {new})
        /\ RowIds(loc[p].seen)' = RowIds(R) /\ DoneWith(p)' = D \cup {new} /\ loc'[p].seen = R
    BY <1>1, <1>5 DEF RowIds, Of, Identity
  <2> HIDE DEF T, U, D, S, R
  <2> QED BY <2>5, <2>6, <2>7 DEF ToolsUnderWay
<1>7. UnderWay(p, c) => UnderWay(p, c)'
  BY <1>1, <1>2, <1>6 DEF UnderWay
<1> QED BY <1>0, <1>1, <1>2, <1>4, <1>7, WriterKeeps

\* A row of what is listed no more goes; nothing that is listed goes with it.
LEMMA StaleDeletedKeeps ==
  ASSUME Moving, Intact, AllStored, NEW p \in Process, StaleDeleted(p)
  PROVE  Intact' /\ AllStored'
<1>0. PICK c : c = loc[p].conn
  OBVIOUS
<1>1. PICK one \in loc[p].seen :
        /\ tools' = {r \in tools : ~(r.conn = one.conn /\ r.up = one.up)}
        /\ loc' = [loc EXCEPT ![p] = [loc[p] EXCEPT !.seen = loc[p].seen \ {one}]]
        /\ UNCHANGED <<resources, prompts, pc, writer, synced, torn>>
  BY DEF StaleDeleted, histories
<1>2. /\ TypeOK /\ pc[p] = "tools" /\ Writing(p) /\ loc[p].left = <<>> /\ one.conn = c /\ loc[p] \in Locals
  BY <1>0 DEF StaleDeleted, Writing, Moving, UnderWayWell, Left, TypeOK
<1>3. /\ Moves(p) /\ loc'[p].conn = c /\ loc'[p].want = loc[p].want /\ loc'[p].left = <<>>
      /\ loc'[p].seen = loc[p].seen \ {one}
  BY <1>0, <1>1, <1>2 DEF Moves, TypeOK, Locals
<1>4. \A d \in Conn : d # c => Same(d)
  <2> SUFFICES ASSUME NEW d \in Conn, d # c PROVE Of(tools', d) = Of(tools, d)
    BY <1>1 DEF Same
  <2> QED BY <1>1, <1>2 DEF Of
<1>5. DoneWith(p)' = DoneWith(p)
  BY <1>2, <1>3 DEF DoneWith, Passed
<1>6. ASSUME ToolsUnderWay(p, c) PROVE ToolsUnderWay(p, c)'
  <2> DEFINE T == Of(tools, c)
             U == Of(tools', c)
             D == DoneWith(p)
             S == loc[p].seen
             R == S \ {one}
  <2>1. /\ RowIds(T) \subseteq RowIds(D) \cup RowIds(S) /\ RowIds(D) \subseteq RowIds(T)
        /\ \A q \in S, r \in D : q.up # r.up
    BY <1>6 DEF ToolsUnderWay
  <2>2. \A q, r : Identity(q) = Identity(r) => q.up = r.up
    BY DEF Identity
  <2>3. \A q, X : q \in X => Identity(q) \in RowIds(X)
    BY DEF RowIds
  <2>4. \A x, X : x \in RowIds(X) => \E q \in X : Identity(q) = x
    BY DEF RowIds
  <2>5. \A r : r \in U <=> r \in T /\ r.up # one.up
    BY <1>1, <1>2 DEF Of
  <2>6. one \in S /\ \A q \in S : q \in R \/ q = one
    BY <1>1
  <2>7. \A q \in R : q \in S
    OBVIOUS
  <2> HIDE DEF T, U, D, S, R
  <2>8. ASSUME NEW r \in U PROVE Identity(r) \in RowIds(D) \cup RowIds(R)
    <3>1. r \in T /\ r.up # one.up
      BY <2>5
    <3>2. CASE Identity(r) \in RowIds(S)
      <4>1. PICK q \in S : Identity(q) = Identity(r)
        BY <2>4, <3>2
      <4> QED BY <2>2, <2>3, <2>6, <3>1, <4>1
    <3> QED BY <2>1, <2>3, <3>1, <3>2
  <2>9. ASSUME NEW q \in D PROVE Identity(q) \in RowIds(U)
    <3>1. PICK x \in T : Identity(x) = Identity(q)
      BY <2>1, <2>3, <2>4
    <3>2. x \in U
      BY <2>1, <2>2, <2>5, <2>6, <3>1
    <3> QED BY <2>3, <3>1, <3>2
  <2>10. RowIds(U) \subseteq RowIds(D) \cup RowIds(R) /\ RowIds(D) \subseteq RowIds(U)
    <3>1. ASSUME NEW x \in RowIds(U) PROVE x \in RowIds(D) \cup RowIds(R)
      BY <2>4, <2>8
    <3>2. ASSUME NEW x \in RowIds(D) PROVE x \in RowIds(U)
      BY <2>4, <2>9
    <3> QED BY <3>1, <3>2
  <2>11. \A q \in R, r \in D : q.up # r.up
    BY <2>1, <2>7
  <2>12. /\ RowIds(Of(tools, c))' = RowIds(U) /\ RowIds(DoneWith(p))' = RowIds(D)
         /\ RowIds(loc[p].seen)' = RowIds(R) /\ DoneWith(p)' = D /\ loc'[p].seen = R
    BY <1>3, <1>5 DEF RowIds, Of, Identity, T, U, D, S, R
  <2> QED BY <1>3, <2>10, <2>11, <2>12 DEF ToolsUnderWay
<1>7. UnderWay(p, c) => UnderWay(p, c)'
  BY <1>1, <1>2, <1>6 DEF UnderWay
<1> QED BY <1>0, <1>1, <1>2, <1>3, <1>4, <1>7, WriterKeeps

\* When nothing is left to look at, the tools are those wanted.
LEMMA ToolsWrittenKeeps ==
  ASSUME Moving, Intact, AllStored, NEW p \in Process, ToolsWritten(p)
  PROVE  Intact' /\ AllStored'
<1>0. PICK c : c = loc[p].conn
  OBVIOUS
<1>1. /\ pc[p] = "tools" /\ Writing(p) /\ loc[p].left = <<>> /\ loc[p].seen = {}
      /\ TypeOK /\ loc[p] \in Locals /\ c \in Conn /\ Listing(loc[p].want, c)
  BY <1>0 DEF ToolsWritten, Writing, Moving, UnderWayWell, Carries, Wants, TypeOK, PC
<1>2. /\ resources' = resources \ Of(resources, c)
      /\ loc' = [loc EXCEPT ![p] = [loc[p] EXCEPT !.entries = loc[p].want.resources]]
      /\ pc' = [pc EXCEPT ![p] = "resources"]
      /\ UNCHANGED <<tools, prompts, writer, synced, torn>>
  BY <1>0 DEF ToolsWritten, Goto, histories
<1>3. /\ Moves(p) /\ pc'[p] = "resources" /\ loc'[p].conn = c /\ loc'[p].want = loc[p].want
      /\ loc'[p].entries = loc[p].want.resources
  BY <1>0, <1>1, <1>2 DEF Moves, TypeOK, Locals
<1>4. \A d \in Conn : d # c => Same(d)
  <2> SUFFICES ASSUME NEW d \in Conn, d # c PROVE Of(resources', d) = Of(resources, d)
    BY <1>2 DEF Same
  <2> QED BY <1>2 DEF Of
<1>5. ASSUME UnderWay(p, c) PROVE UnderWay(p, c)'
  <2>1. /\ RowIds(Of(tools, c)) \subseteq RowIds(DoneWith(p)) \cup RowIds(loc[p].seen)
        /\ RowIds(DoneWith(p)) \subseteq RowIds(Of(tools, c))
    BY <1>1, <1>5 DEF UnderWay, ToolsUnderWay
  <2>2. RowIds(loc[p].seen) = {}
    BY <1>1 DEF RowIds
  <2>3. DoneWith(p) = ToolsIn(loc[p].want)
    <3>1. loc[p].want.tools \in Seq(ToolRow)
      BY <1>1 DEF Listing, WantedRows
    <3>2. Passed(p) = Len(loc[p].want.tools) /\ DOMAIN loc[p].want.tools = 1 .. Len(loc[p].want.tools)
      BY <1>1, <3>1 DEF Passed
    <3> QED BY <3>2 DEF DoneWith, ToolsIn
  <2>4. RowIds(Of(tools, c)) = RowIds(ToolsIn(loc[p].want))
    BY <2>1, <2>2, <2>3
  <2>5. /\ RowIds(Of(tools, c))' = RowIds(Of(tools, c))
        /\ RowIds(ToolsIn(loc[p].want))' = RowIds(ToolsIn(loc[p].want))
    BY <1>2, <1>3 DEF RowIds, Of, Identity, ToolsIn
  <2>6. Of(resources, c)' = {}
    BY <1>2 DEF Of
  <2> QED BY <1>3, <2>4, <2>5, <2>6 DEF UnderWay
<1> QED BY <1>0, <1>1, <1>2, <1>3, <1>4, <1>5, WriterKeeps

\* A row of an entry put in is one that was left to do.
LEMMA EntryWrittenKeeps ==
  ASSUME Moving, Intact, AllStored, NEW p \in Process, EntryWritten(p)
  PROVE  Intact' /\ AllStored'
<1>0. PICK c : c = loc[p].conn
  OBVIOUS
<1>1. PICK one \in loc[p].entries :
        /\ pc[p] \in {"resources", "prompts"}
        /\ loc' = [loc EXCEPT ![p] = [loc[p] EXCEPT !.entries = loc[p].entries \ {one}]]
        /\ IF pc[p] = "resources"
           THEN resources' = resources \cup {one} /\ prompts' = prompts
           ELSE prompts' = prompts \cup {one} /\ resources' = resources
        /\ UNCHANGED <<tools, writer, pc, synced, torn>>
  BY DEF EntryWritten, NextEntry, histories
<1>2. /\ Writing(p) /\ TypeOK /\ loc[p] \in Locals /\ c \in Conn /\ Listing(loc[p].want, c) /\ Left(p)
  BY <1>0, <1>1 DEF Writing, Moving, UnderWayWell, Carries, Wants, TypeOK, PC
<1>3. /\ Moves(p) /\ loc'[p].conn = c /\ loc'[p].want = loc[p].want
      /\ loc'[p].entries = loc[p].entries \ {one}
  BY <1>0, <1>1, <1>2 DEF Moves, TypeOK, Locals
<1>4. /\ one.conn = c
      /\ pc[p] = "resources" => one \in loc[p].want.resources
      /\ pc[p] = "prompts" => one \in loc[p].want.prompts
  BY <1>1, <1>2 DEF Left, Listing
<1>5. \A d \in Conn : d # c => Same(d)
  <2> SUFFICES ASSUME NEW d \in Conn, d # c
               PROVE  Of(resources', d) = Of(resources, d) /\ Of(prompts', d) = Of(prompts, d)
    BY <1>1 DEF Same
  <2> QED BY <1>1, <1>4 DEF Of
<1>6. ASSUME UnderWay(p, c) PROVE UnderWay(p, c)'
  <2>1. /\ RowIds(Of(tools, c))' = RowIds(Of(tools, c))
        /\ RowIds(ToolsIn(loc[p].want))' = RowIds(ToolsIn(loc[p].want))
    BY <1>1, <1>3 DEF RowIds, Of, Identity, ToolsIn
  <2>2. CASE pc[p] = "resources"
    <3>1. Of(resources, c)' = Of(resources, c) \cup {one}
      BY <1>1, <1>4, <2>2 DEF Of
    <3> QED BY <1>1, <1>3, <1>4, <1>6, <2>1, <2>2, <3>1 DEF UnderWay
  <2>3. CASE pc[p] = "prompts"
    <3>1. Of(prompts, c)' = Of(prompts, c) \cup {one} /\ Of(resources, c)' = Of(resources, c)
      BY <1>1, <1>4, <2>3 DEF Of
    <3> QED BY <1>1, <1>3, <1>4, <1>6, <2>1, <2>3, <3>1 DEF UnderWay
  <2> QED BY <1>1, <2>2, <2>3
<1> QED BY <1>0, <1>1, <1>2, <1>3, <1>5, <1>6, WriterKeeps

\* When no resource is left to do, those of the connection are those wanted.
LEMMA ResourcesWrittenKeeps ==
  ASSUME Moving, Intact, AllStored, NEW p \in Process, ResourcesWritten(p)
  PROVE  Intact' /\ AllStored'
<1>0. PICK c : c = loc[p].conn
  OBVIOUS
<1>1. /\ pc[p] = "resources" /\ Writing(p) /\ loc[p].entries = {} /\ TypeOK /\ loc[p] \in Locals
      /\ prompts' = prompts \ Of(prompts, c)
      /\ loc' = [loc EXCEPT ![p] = [loc[p] EXCEPT !.entries = loc[p].want.prompts]]
      /\ pc' = [pc EXCEPT ![p] = "prompts"]
      /\ UNCHANGED <<tools, resources, writer, synced, torn>>
  BY <1>0 DEF ResourcesWritten, Writing, Moving, TypeOK, Goto, histories
<1>2. /\ Moves(p) /\ pc'[p] = "prompts" /\ loc'[p].conn = c /\ loc'[p].want = loc[p].want
      /\ loc'[p].entries = loc[p].want.prompts
  BY <1>0, <1>1 DEF Moves, TypeOK, Locals
<1>3. \A d \in Conn : d # c => Same(d)
  <2> SUFFICES ASSUME NEW d \in Conn, d # c PROVE Of(prompts', d) = Of(prompts, d)
    BY <1>1 DEF Same
  <2> QED BY <1>1 DEF Of
<1>4. ASSUME UnderWay(p, c) PROVE UnderWay(p, c)'
  <2>1. /\ RowIds(Of(tools, c)) = RowIds(ToolsIn(loc[p].want))
        /\ Of(resources, c) = loc[p].want.resources
    BY <1>1, <1>4 DEF UnderWay
  <2>2. /\ RowIds(Of(tools, c))' = RowIds(Of(tools, c)) /\ Of(resources, c)' = Of(resources, c)
        /\ RowIds(ToolsIn(loc[p].want))' = RowIds(ToolsIn(loc[p].want))
        /\ Of(prompts, c)' = {}
    BY <1>1, <1>2 DEF RowIds, Of, Identity, ToolsIn
  <2> QED BY <1>2, <2>1, <2>2 DEF UnderWay
<1> QED BY <1>0, <1>1, <1>2, <1>3, <1>4, WriterKeeps

\* The sync is complete: what it wanted is what there is.
LEMMA PromptsWrittenKeeps ==
  ASSUME Moving, Intact, AllStored, NEW p \in Process, PromptsWritten(p)
  PROVE  Intact' /\ AllStored'
<1>0. PICK c : c = loc[p].conn
  OBVIOUS
<1>1. /\ pc[p] = "prompts" /\ Writing(p) /\ loc[p].entries = {} /\ TypeOK /\ c \in Conn /\ writer[c] = p
      /\ writer' = [writer EXCEPT ![c] = None] /\ synced' = [synced EXCEPT ![c] = loc[p].want]
      /\ pc' = [pc EXCEPT ![p] = "success"]
      /\ UNCHANGED <<tools, resources, prompts, loc, torn>>
  BY <1>0 DEF PromptsWritten, Writing, Moving, UnderWayWell, Carries, Exclusive, PC, TypeOK, Goto, rows
<1>2. Moves(p) /\ ~Writing(p)' /\ \A d : Same(d)
  BY <1>1, RowsSame DEF Moves, TypeOK, Writing
<1>3. Intact'
  <2>1. \A d \in Conn : (Same(d) /\ torn'[d] = torn[d]) \/ writer[d] \in {p, None} \/ torn'[d]
    BY <1>1, <1>2
  <2> QED BY <1>2, <2>1, IntactFrame
<1>4. ~torn[c] => Stored(c)'
  <2> SUFFICES ASSUME ~torn[c] PROVE Stored(c)'
    OBVIOUS
  <2>1. UnderWay(p, c)
    BY <1>0, <1>1 DEF Intact
  <2>2. /\ RowIds(Of(tools, c)) = RowIds(ToolsIn(loc[p].want)) /\ Of(resources, c) = loc[p].want.resources
        /\ Of(prompts, c) = loc[p].want.prompts
    BY <1>1, <2>1 DEF UnderWay
  <2>3. synced'[c] = loc[p].want
    BY <1>1 DEF TypeOK
  <2>4. /\ RowIds(Of(tools, c))' = RowIds(Of(tools, c)) /\ RowIds(ToolsIn(synced[c]))' = RowIds(ToolsIn(loc[p].want))
        /\ Of(resources, c)' = Of(resources, c) /\ Of(prompts, c)' = Of(prompts, c)
    BY <1>1, <2>3 DEF RowIds, Of, Identity, ToolsIn
  <2> QED BY <2>2, <2>3, <2>4 DEF Stored
<1>5. AllStored'
  <2>1. \A d \in Conn : writer'[d] = None /\ ~torn'[d] =>
          \/ Same(d) /\ synced'[d] = synced[d] /\ writer[d] = None /\ ~torn[d]
          \/ Stored(d)'
    <3> SUFFICES ASSUME NEW d \in Conn, writer'[d] = None, ~torn'[d]
                 PROVE  \/ Same(d) /\ synced'[d] = synced[d] /\ writer[d] = None /\ ~torn[d]
                        \/ Stored(d)'
      OBVIOUS
    <3>1. CASE d = c
      BY <1>1, <1>4, <3>1
    <3>2. CASE d # c
      BY <1>1, <1>2, <3>2 DEF TypeOK
    <3> QED BY <3>1, <3>2
  <2> QED BY <2>1, StoredFrame
<1> QED BY <1>3, <1>5

\* Each step keeps what is written, and what is stored.
LEMMA StoredNext ==
  ASSUME Moving, Intact, AllStored, [CatalogueNext]_catalogueVars
  PROVE  Intact' /\ AllStored'
<1>0. TypeOK /\ None \notin Process
  BY NobodyIsNone DEF Moving
<1>1. ASSUME NEW p \in Process, SyncStep(p) PROVE Intact' /\ AllStored'
  <2>1. CASE Acquired(p) \/ Listed(p) \/ Unlisted(p) \/ GiveUp(p) \/ RecordOutcome(p)
    BY <2>1, QuietSync, QuietKeeps
  <2> QED BY <1>0, <1>1, <2>1, SyncStepCases, LockKeeps, AbortKeeps, ToolWrittenKeeps,
             StaleDeletedKeeps, ToolsWrittenKeeps, EntryWrittenKeeps, ResourcesWrittenKeeps,
             PromptsWrittenKeeps
<1>2. ASSUME NEW a \in Actor, OperationStep(a) PROVE Intact' /\ AllStored'
  <2>1. CASE \/ \E c \in Conn : Refresh(a, c) \/ Disable(a, c) \/ Enable(a, c) \/ Disconnect(a, c)
             \/ \E c \in Conn, alias \in NewAlias : Rename(a, c, alias)
             \/ SetAlias(a)
    BY <2>1, QuietOperation, QuietKeeps
  <2> QED BY <1>2, <2>1, ToggleKeeps, WithdrawKeeps, CrashKeeps DEF OperationStep
<1>3. ASSUME NEW c \in Conn, Change(c) \/ ScheduleResync(c) \/ LoopStep(c) PROVE Intact' /\ AllStored'
  BY <1>3, QuietLoop, QuietKeeps
<1>4. CASE UNCHANGED catalogueVars
  <2>1. Quiet(None)
    BY <1>0, <1>4, RowsSame DEF Quiet, Moves, catalogueVars, rows, histories
  <2> QED BY <2>1, QuietKeeps
<1> QED BY <1>1, <1>2, <1>3, <1>4 DEF CatalogueNext


\* There is only so much in the tables, and an alias leads to one connection.
Finite == IsFiniteSet(tools) /\ IsFiniteSet(resources) /\ IsFiniteSet(prompts)

AliasesApart ==
  \A c, d \in Conn : conn[c].exists /\ conn[d].exists /\ conn[c].alias = conn[d].alias => c = d

\* The inductive invariant.
CatalogueInv == Moving /\ Intact /\ AllStored /\ Finite /\ AliasesApart

\* What a server offers at first, as it is stored.
LEMMA FirstListing ==
  ASSUME NEW c \in Conn
  PROVE  /\ Listing(First(c), c) /\ ToolsIn(First(c)) \subseteq ToolRow
         /\ \A r \in ToolsIn(First(c)) : r.conn = c
         /\ IsFiniteSet(ToolsIn(First(c))) /\ IsFiniteSet(First(c).resources)
         /\ IsFiniteSet(First(c).prompts)
<1>1. Offer[c] \in Seq(Editions) /\ Offer[c] # <<>>
  BY OfferAssumption
<1>2. 1 \in 1 .. Len(Offer[c]) /\ Offer[c][1] \in Editions
  BY <1>1
<1>3. FirstAlias[c] \in Alias
  BY AliasAssumption
<1>4. Listing(First(c), c)
  BY <1>2, <1>3, WantedIsListing DEF First
<1> DEFINE list == First(c).tools
<1>5. /\ list \in Seq(ToolRow) /\ \A i \in DOMAIN list : list[i].conn = c
      /\ ToolsIn(First(c)) = {list[i] : i \in DOMAIN list}
  BY <1>4 DEF Listing, WantedRows, ToolsIn
<1> HIDE DEF list
<1>6. DOMAIN list = 1 .. Len(list) /\ Len(list) \in Nat /\ IsFiniteSet(1 .. Len(list))
  <2>1. DOMAIN list = 1 .. Len(list) /\ Len(list) \in Nat
    BY <1>5
  <2> QED BY <2>1, FS_Interval
<1> DEFINE T == {list[i] : i \in DOMAIN list}
           R == {[conn |-> c, up |-> u, uri |-> GatewayUri(FirstAlias[c], u)] : u \in Offer[c][1].resources}
           P == {[conn |-> c, up |-> u, uri |-> GatewayUri(FirstAlias[c], u)] : u \in Offer[c][1].prompts}
<1>7. IsFiniteSet(T)
  <2> DEFINE at == [i \in DOMAIN list |-> list[i]]
  <2>1. at \in Surjection(DOMAIN list, T)
    BY Fun_IsSurj
  <2> HIDE DEF at, T
  <2> QED BY <1>6, <2>1, FS_Surjection
<1>8. First(c).resources = R /\ First(c).prompts = P
  BY DEF First, Wanted, EntryRecords
<1>9. IsFiniteSet(Offer[c][1].resources) /\ IsFiniteSet(Offer[c][1].prompts)
  BY <1>2 DEF Editions, Entries
<1>10. IsFiniteSet(R)
  <2> DEFINE U == Offer[c][1].resources
             at == [u \in U |-> [conn |-> c, up |-> u, uri |-> GatewayUri(FirstAlias[c], u)]]
  <2>1. at \in Surjection(U, R)
    BY Fun_IsSurj
  <2> HIDE DEF at, R, U
  <2> QED BY <1>9, <2>1, FS_Surjection DEF U
<1>11. IsFiniteSet(P)
  <2> DEFINE U == Offer[c][1].prompts
             at == [u \in U |-> [conn |-> c, up |-> u, uri |-> GatewayUri(FirstAlias[c], u)]]
  <2>1. at \in Surjection(U, P)
    BY Fun_IsSurj
  <2> HIDE DEF at, P, U
  <2> QED BY <1>9, <2>1, FS_Surjection DEF U
<1>12. T \subseteq ToolRow /\ \A r \in T : r.conn = c
  BY <1>5, <1>6
<1> HIDE DEF R, P
<1> QED BY <1>4, <1>5, <1>7, <1>8, <1>10, <1>11, <1>12

\* The catalogue, when the gateway is started.
LEMMA CatalogueInit == Init => CatalogueInv
<1> SUFFICES ASSUME Init PROVE CatalogueInv
  OBVIOUS
<1>1. /\ conn = [c \in Conn |-> [exists |-> TRUE, alias |-> FirstAlias[c], status |-> "CONNECTED"]]
      /\ tools = UNION {ToolsIn(First(c)) : c \in Conn}
      /\ resources = UNION {First(c).resources : c \in Conn}
      /\ prompts = UNION {First(c).prompts : c \in Conn}
      /\ writer = [c \in Conn |-> None]
      /\ resync = [c \in Conn |-> "none"]
      /\ pc = [p \in Process |-> "idle"]
      /\ loc = [p \in Process |-> Rest]
      /\ edition = [c \in Conn |-> 1]
      /\ announced = [c \in Conn |-> FALSE]
      /\ does \in Workloads
      /\ synced = [c \in Conn |-> First(c)]
      /\ torn = [c \in Conn |-> FALSE]
      /\ unseen = [c \in Conn |-> FALSE]
  BY DEF Init
<1>2. /\ \A c \in Conn : /\ FirstAlias[c] \in Alias /\ c \in Process
                         /\ Offer[c] \in Seq(Editions) /\ Offer[c] # <<>>
      /\ \A c, d \in Conn : FirstAlias[c] = FirstAlias[d] => c = d
  BY AliasAssumption, OfferAssumption, NobodyIsNone
<1>3. \A c \in Conn : /\ First(c) \in WantedRows
                      /\ \A r \in First(c).resources \cup First(c).prompts :
                           r \in EntryRow /\ r.conn = c /\ \E alias \in Alias : r.uri = GatewayUri(alias, r.up)
  BY FirstListing DEF Listing, WantedRows
<1>4. \A p \in Process : pc[p] = "idle" /\ ~Writing(p)
  BY <1>1 DEF Writing
<1>5. TypeOK
  <2>1. conn \in [Conn -> [exists : BOOLEAN, alias : Alias, status : Statuses]]
    BY <1>1, <1>2 DEF Statuses
  <2>2. tools \subseteq ToolRow /\ resources \cup prompts \subseteq EntryRow
    BY <1>1, <1>3, FirstListing
  <2>3. synced \in [Conn -> WantedRows]
    BY <1>1, <1>3
  <2>4. /\ loc \in [Process -> Locals] /\ pc \in [Process -> PC]
    BY <1>1, RestTyped DEF PC
  <2>5. /\ does \in Workloads /\ writer \in [Conn -> Process \cup {None}]
        /\ resync \in [Conn -> {"none", "busy", "repeat", "leaving"}] /\ edition \in [Conn -> Nat]
        /\ announced \in [Conn -> BOOLEAN] /\ torn \in [Conn -> BOOLEAN] /\ unseen \in [Conn -> BOOLEAN]
    BY <1>1
  <2> QED BY <2>1, <2>2, <2>3, <2>4, <2>5 DEF TypeOK
<1>6. \A p \in Process : UnderWayWell(p)
  BY <1>4 DEF UnderWayWell, Carries, Wants, Left, Writing, PC
<1>7. Exclusive
  BY <1>1, <1>4 DEF Exclusive
<1>8. Sourced
  <2>1. \A c \in Conn : edition[c] \in 1 .. Len(Offer[c])
    <3> SUFFICES ASSUME NEW c \in Conn PROVE 1 \in 1 .. Len(Offer[c])
      BY <1>1
    <3>1. Offer[c] \in Seq(Editions) /\ Offer[c] # <<>>
      BY <1>2
    <3> QED BY <3>1
  <2>2. \A c \in Conn : Listing(synced[c], c)
    BY <1>1, FirstListing
  <2>3. \A r \in resources \cup prompts : \E alias \in Alias : r.uri = GatewayUri(alias, r.up)
    BY <1>1, <1>3
  <2>4. \A c \in Conn : resync[c] = "none" => pc[c] = "idle"
    BY <1>2, <1>4
  <2> QED BY <2>1, <2>2, <2>3, <2>4 DEF Sourced
<1>9. Intact
  BY <1>4 DEF Intact
<1>10. AllStored
  <2> SUFFICES ASSUME NEW c \in Conn PROVE Stored(c)
    BY DEF AllStored
  <2>1. Of(tools, c) = ToolsIn(First(c))
    BY <1>1, FirstListing DEF Of
  <2>2. Of(resources, c) = First(c).resources /\ Of(prompts, c) = First(c).prompts
    BY <1>1, <1>3 DEF Of
  <2> QED BY <1>1, <2>1, <2>2 DEF Stored
<1>11. Finite
  <2> DEFINE T == {ToolsIn(First(c)) : c \in Conn}
             R == {First(c).resources : c \in Conn}
             P == {First(c).prompts : c \in Conn}
  <2>1. IsFiniteSet(Conn)
    BY ConnAssumption
  <2>2. IsFiniteSet(T)
    <3> DEFINE at == [c \in Conn |-> ToolsIn(First(c))]
    <3>1. at \in Surjection(Conn, T)
      BY Fun_IsSurj
    <3> HIDE DEF at, T
    <3> QED BY <2>1, <3>1, FS_Surjection
  <2>3. IsFiniteSet(R)
    <3> DEFINE at == [c \in Conn |-> First(c).resources]
    <3>1. at \in Surjection(Conn, R)
      BY Fun_IsSurj
    <3> HIDE DEF at, R
    <3> QED BY <2>1, <3>1, FS_Surjection
  <2>4. IsFiniteSet(P)
    <3> DEFINE at == [c \in Conn |-> First(c).prompts]
    <3>1. at \in Surjection(Conn, P)
      BY Fun_IsSurj
    <3> HIDE DEF at, P
    <3> QED BY <2>1, <3>1, FS_Surjection
  <2>5. (\A X \in T : IsFiniteSet(X)) /\ (\A X \in R : IsFiniteSet(X)) /\ (\A X \in P : IsFiniteSet(X))
    BY FirstListing
  <2> HIDE DEF T, R, P
  <2>6. IsFiniteSet(UNION T) /\ IsFiniteSet(UNION R) /\ IsFiniteSet(UNION P)
    BY <2>2, <2>3, <2>4, <2>5, FS_UNION
  <2> QED BY <1>1, <2>6 DEF Finite, T, R, P
<1>12. AliasesApart
  BY <1>1, <1>2 DEF AliasesApart
<1> QED BY <1>5, <1>6, <1>7, <1>8, <1>9, <1>10, <1>11, <1>12 DEF CatalogueInv, Moving

\* A step puts one row in, at most.
LEMMA FiniteNext ==
  ASSUME Moving, Finite, [CatalogueNext]_catalogueVars
  PROVE  Finite'
<1>0. TypeOK
  BY DEF Moving
<1>1. ASSUME NEW p \in Process, ToolWritten(p) PROVE Finite'
  <2> DEFINE c == loc[p].conn
             new == Head(loc[p].left)
             previous == {r \in loc[p].seen : r.up = new.up}
             changed == {r \in Of(tools, c) : r.up = new.up /\ \E q \in previous : Identity(q) # Identity(new)}
             As == {[new EXCEPT !.enabled = r.enabled] : r \in changed}
  <2>1. tools' = tools \cup {new} \/ tools' = (tools \ changed) \cup As
    BY <1>1 DEF ToolWritten
  <2>2. resources' = resources /\ prompts' = prompts
    BY <1>1 DEF ToolWritten
  <2>3. changed \subseteq tools
    BY DEF Of
  <2>4. IsFiniteSet(changed) /\ IsFiniteSet(tools \ changed)
    <3> HIDE DEF changed
    <3> QED BY <2>3, FS_Subset, FS_Difference DEF Finite
  <2>5. IsFiniteSet(As)
    <3> DEFINE at == [r \in changed |-> [new EXCEPT !.enabled = r.enabled]]
    <3>1. at \in Surjection(changed, As)
      <4> HIDE DEF changed
      <4> QED BY Fun_IsSurj
    <3> HIDE DEF at, As, changed
    <3> QED BY <2>4, <3>1, FS_Surjection
  <2> HIDE DEF As, changed, new
  <2>6. IsFiniteSet(tools \cup {new})
    BY FS_AddElement DEF Finite
  <2>7. IsFiniteSet((tools \ changed) \cup As)
    BY <2>4, <2>5, FS_Union
  <2> QED BY <2>1, <2>2, <2>6, <2>7 DEF Finite
<1>2. ASSUME tools' \subseteq tools, resources' \subseteq resources, prompts' \subseteq prompts
      PROVE  Finite'
  BY <1>2, FS_Subset DEF Finite
<1>3. ASSUME NEW p \in Process, EntryWritten(p) PROVE Finite'
  <2>1. PICK one : /\ resources' = resources \cup {one} \/ resources' = resources
                   /\ prompts' = prompts \cup {one} \/ prompts' = prompts
    BY <1>3 DEF EntryWritten
  <2>2. IsFiniteSet(resources \cup {one}) /\ IsFiniteSet(prompts \cup {one})
    BY FS_AddElement DEF Finite
  <2> QED BY <1>3, <2>1, <2>2 DEF Finite, EntryWritten
<1>4. ASSUME NEW a \in Actor, NEW r \in tools, SetToolEnabled(a, r) PROVE Finite'
  <2>1. PICK new : tools' = (tools \ {r}) \cup {new} /\ resources' = resources /\ prompts' = prompts
    BY <1>4 DEF SetToolEnabled
  <2>2. IsFiniteSet(tools \ {r})
    BY FS_RemoveElement DEF Finite
  <2>3. IsFiniteSet((tools \ {r}) \cup {new})
    BY <2>2, FS_AddElement
  <2> QED BY <2>1, <2>3 DEF Finite
<1>5. ASSUME NEW p \in Process, SyncStep(p) PROVE Finite'
  <2>1. CASE \/ Acquired(p) \/ Listed(p) \/ Unlisted(p) \/ GiveUp(p) \/ Lock(p) \/ RecordOutcome(p)
             \/ Aborted(p) \/ StaleDeleted(p) \/ ToolsWritten(p) \/ ResourcesWritten(p) \/ PromptsWritten(p)
    <3>1. tools' \subseteq tools /\ resources' \subseteq resources /\ prompts' \subseteq prompts
      BY <2>1 DEF Acquired, Listed, Unlisted, GiveUp, Lock, RecordOutcome, Aborted, Abort, StaleDeleted,
                  ToolsWritten, ResourcesWritten, PromptsWritten, rows
    <3> QED BY <1>2, <3>1
  <2> QED BY <1>0, <1>1, <1>3, <1>5, <2>1, SyncStepCases
<1>6. ASSUME NEW a \in Actor, OperationStep(a) PROVE Finite'
  <2>1. CASE \E r \in tools : SetToolEnabled(a, r)
    BY <1>4, <2>1
  <2>2. CASE ~\E r \in tools : SetToolEnabled(a, r)
    <3>1. tools' \subseteq tools /\ resources' \subseteq resources /\ prompts' \subseteq prompts
      BY <1>6, <2>2 DEF OperationStep, Refresh, Disable, Enable, Disconnect, Rename, SetAlias,
                        Withdraw, Crash, rows
    <3> QED BY <1>2, <3>1
  <2> QED BY <2>1, <2>2
<1>7. ASSUME NEW c \in Conn, Change(c) \/ ScheduleResync(c) \/ LoopStep(c) PROVE Finite'
  <2>1. UNCHANGED rows
    BY <1>7 DEF Change, ScheduleResync, LoopStep, BeginResync, RepeatResync, EndResync
  <2> QED BY <1>2, <2>1 DEF rows
<1>8. CASE UNCHANGED catalogueVars
  BY <1>2, <1>8 DEF catalogueVars, rows
<1> QED BY <1>5, <1>6, <1>7, <1>8 DEF CatalogueNext

\* An alias is given to a connection only if no other has it.
LEMMA AliasesNext ==
  ASSUME Moving, AliasesApart, [CatalogueNext]_catalogueVars
  PROVE  AliasesApart'
<1>0. TypeOK
  BY DEF Moving
<1>1. ASSUME \A c \in Conn : conn'[c].alias = conn[c].alias /\ (conn'[c].exists => conn[c].exists)
      PROVE  AliasesApart'
  BY <1>1 DEF AliasesApart
<1>2. ASSUME conn' = conn PROVE AliasesApart'
  BY <1>1, <1>2
<1>3. ASSUME NEW c, c \in Conn, NEW s \in Statuses, SetStatus(c, s) PROVE AliasesApart'
  BY <1>0, <1>1, <1>3, SetStatusProperties
<1>4. ASSUME NEW p \in Process, SyncStep(p) PROVE AliasesApart'
  <2>1. CASE RecordOutcome(p)
    <3>1. loc[p].conn \in Conn
      BY <2>1 DEF RecordOutcome, Moving, UnderWayWell, Carries, PC
    <3>2. \E s \in Statuses : SetStatus(loc[p].conn, s)
      BY <2>1 DEF RecordOutcome, Statuses
    <3> QED BY <1>3, <3>1, <3>2
  <2>2. CASE ~RecordOutcome(p)
    <3>1. conn' = conn
      BY <1>0, <1>4, <2>2, SyncStepCases
         DEF Acquired, Listed, Unlisted, GiveUp, Lock, Aborted, Abort, ToolWritten, StaleDeleted,
             ToolsWritten, EntryWritten, ResourcesWritten, PromptsWritten, rows
    <3> QED BY <1>2, <3>1
  <2> QED BY <2>1, <2>2
<1>5. ASSUME NEW a \in Actor, OperationStep(a) PROVE AliasesApart'
  <2>1. CASE \E c \in Conn : Disable(a, c) \/ Enable(a, c)
    BY <1>3, <2>1 DEF Disable, Enable, Statuses
  <2>2. CASE SetAlias(a)
    <3>0. PICK c : c = loc[a].conn
      OBVIOUS
    <3>1. c \in Conn
      BY <2>2, <3>0 DEF SetAlias, Moving, UnderWayWell, Carries, PC, Process
    <3>2. CASE conn' = conn
      BY <1>2, <3>2
    <3>3. CASE conn' # conn
      <4>1. /\ conn' = [conn EXCEPT ![c].alias = loc[a].alias]
            /\ ~\E d \in Conn \ {c} : conn[d].exists /\ conn[d].alias = loc[a].alias
        BY <2>2, <3>0, <3>3 DEF SetAlias
      <4>2. /\ conn'[c].alias = loc[a].alias
            /\ \A d \in Conn : conn'[d].exists = conn[d].exists
            /\ \A d \in Conn \ {c} : conn'[d].alias = conn[d].alias
        BY <1>0, <3>1, <4>1 DEF TypeOK
      <4> QED BY <4>1, <4>2 DEF AliasesApart
    <3> QED BY <3>2, <3>3
  <2>3. CASE Withdraw(a)
    <3>0. PICK c : c = loc[a].conn
      OBVIOUS
    <3>1. c \in Conn
      BY <2>3, <3>0 DEF Withdraw, Moving, UnderWayWell, Carries, PC, Process
    <3>2. conn' = conn \/ conn' = [conn EXCEPT ![c].exists = FALSE]
      BY <2>3, <3>0 DEF Withdraw
    <3>3. \A d \in Conn : conn'[d].alias = conn[d].alias /\ (conn'[d].exists => conn[d].exists)
      BY <1>0, <3>1, <3>2 DEF TypeOK
    <3> QED BY <1>1, <3>3
  <2>4. CASE /\ ~\E c \in Conn : Disable(a, c) \/ Enable(a, c)
             /\ ~SetAlias(a) /\ ~Withdraw(a)
    <3>1. conn' = conn
      BY <1>5, <2>4 DEF OperationStep, Refresh, Disconnect, Rename, SetToolEnabled, Crash, rows
    <3> QED BY <1>2, <3>1
  <2> QED BY <2>1, <2>2, <2>3, <2>4
<1>6. ASSUME NEW c \in Conn, Change(c) \/ ScheduleResync(c) \/ LoopStep(c) PROVE AliasesApart'
  <2>1. conn' = conn
    BY <1>6 DEF Change, ScheduleResync, LoopStep, BeginResync, RepeatResync, EndResync, rows
  <2> QED BY <1>2, <2>1
<1>7. CASE UNCHANGED catalogueVars
  BY <1>2, <1>7 DEF catalogueVars, rows
<1> QED BY <1>4, <1>5, <1>6, <1>7 DEF CatalogueNext

\* All that, together.
LEMMA CatalogueStep == CatalogueInv /\ [CatalogueNext]_catalogueVars => CatalogueInv'
BY MovingNext, StoredNext, FiniteNext, AliasesNext DEF CatalogueInv

(***************************************************************************)
(* What is stored                                                          *)
(***************************************************************************)

\* A request reads the catalogue, and does not write it.
LEMMA RequestsOnlyRead ==
  ASSUME NEW r, RequestStep(r)
  PROVE  UNCHANGED catalogueVars
BY DEF RequestStep, Now, ListConnections, ListRows, ListPage, FindTool, Decide, Confirm, CallTool,
       FindResource, RouteByAlias, FindPrompt, Serve

\* So every step is one of the catalogue, or leaves it alone.
LEMMA NextInCatalogue ==
  ASSUME [Next]_vars
  PROVE  [CatalogueNext]_catalogueVars
<1>1. CASE \E r \in Request : RequestStep(r)
  BY <1>1, RequestsOnlyRead
<1>2. CASE CatalogueNext \/ UNCHANGED vars
  BY <1>2 DEF vars
<1> QED BY <1>1, <1>2 DEF Next

\* The invariant holds, whatever requests there are.
LEMMA CatalogueIsWell == Spec => []CatalogueInv
<1>1. HandlerInit => CatalogueInv
  BY CatalogueInit DEF HandlerInit
<1>2. CatalogueInv /\ [Next]_vars => CatalogueInv'
  BY NextInCatalogue, CatalogueStep
<1> QED BY <1>1, <1>2, PTL DEF Spec

\* What is stored of a connection is what one sync read, and not the tools of
\* one and the resources of another, though syncs overlap, are announced by the
\* server at any time and fail or crash between two statements: the tables are
\* written under the lock of the catalogue, and a writer that does not finish
\* leaves it torn, until the next one does (syncCatalogue).
THEOREM OneSyncIsStored == Spec => []StoredIsOneSync
<1>1. CatalogueInv => StoredIsOneSync
  BY DEF CatalogueInv, AllStored, Stored, RowIds, StoredIsOneSync
<1> QED BY <1>1, CatalogueIsWell, PTL

\* Rows of a connection with one name are one row, where the catalogue is whole.
NamesApart ==
  \A c \in Conn : writer[c] = None /\ ~torn[c] =>
    \A q, r \in Of(tools, c) : q.gw = r.gw => Identity(q) = Identity(r)

\* No two tools of a connection are stored under one name, so a call of one is
\* not a call of the other, however alike the names are that its server gives
\* them (naming.ts gatewayToolName).
THEOREM StoredNamesApart == Spec => []NamesApart
<1>1. ASSUME CatalogueInv, NEW c \in Conn, writer[c] = None, ~torn[c],
             NEW q \in Of(tools, c), NEW r \in Of(tools, c), q.gw = r.gw
      PROVE  Identity(q) = Identity(r)
  <2>1. RowIds(Of(tools, c)) = RowIds(ToolsIn(synced[c])) /\ Listing(synced[c], c)
    BY <1>1 DEF CatalogueInv, AllStored, Stored, Moving, Sourced
  <2>2. PICK i, j \in DOMAIN synced[c].tools : /\ Identity(q) = Identity(synced[c].tools[i])
                                               /\ Identity(r) = Identity(synced[c].tools[j])
    BY <1>1, <2>1 DEF RowIds, ToolsIn
  <2>3. synced[c].tools[i].gw = q.gw /\ synced[c].tools[j].gw = r.gw
    BY <2>2 DEF Identity
  <2>4. i = j
    BY <1>1, <2>1, <2>3 DEF Listing
  <2> QED BY <2>2, <2>4
<1>2. CatalogueInv => NamesApart
  BY <1>1 DEF NamesApart
<1> QED BY <1>2, CatalogueIsWell, PTL

(***************************************************************************)
(* A tool that is switched off stays off                                   *)
(***************************************************************************)

OneTool(q, r) == q.conn = r.conn /\ q.up = r.up
OneRowEach == \A q, r \in tools : OneTool(q, r) => q = r

\* A row that stays is the row it was, or its user's switch is turned and nothing
\* else, or a sync that holds the lock rewrote it and left the switch.
SwitchKept ==
  \A q \in tools, r \in tools' : OneTool(q, r) =>
    \/ r = [q EXCEPT !.enabled = ~q.enabled]
    \/ r.enabled = q.enabled /\ (r # q => writer[q.conn] # None)

\* What a step may make of the rows of tools.
Inserts(new) == tools' = tools \cup {new} /\ \A r \in tools : ~OneTool(r, new)
Rewrites(new, changed) ==
  /\ tools' = (tools \ changed) \cup {[new EXCEPT !.enabled = r.enabled] : r \in changed}
  /\ changed = {} \/ changed = {r \in tools : OneTool(r, new)}
  /\ writer[new.conn] # None
Toggles(r) == tools' = (tools \ {r}) \cup {[r EXCEPT !.enabled = ~r.enabled]}
ToolsMove ==
  \/ tools' \subseteq tools
  \/ \E new \in ToolRow : Inserts(new)
  \/ \E new \in ToolRow : \E changed : Rewrites(new, changed)
  \/ \E r \in tools : Toggles(r)

LEMMA WriteToolMovesRow ==
  ASSUME Moving, NEW p \in Process, WriteTool(p)
  PROVE  ToolsMove
<1>1. CASE Abort(p)
  BY <1>1 DEF Abort, ToolsMove, rows
<1>2. CASE ~Abort(p)
  <2> DEFINE c == loc[p].conn
             new == Head(loc[p].left)
             previous == {r \in loc[p].seen : r.up = new.up}
             changed == {r \in Of(tools, c) : r.up = new.up /\ \E q \in previous : Identity(q) # Identity(new)}
  <2>1. ToolWritten(p)
    BY <1>2, WriteToolEither
  <2>2. new \in ToolRow /\ new.conn = c /\ c \in Conn
    BY <2>1, ToolWrittenLocals
  <2>3. CASE previous = {}
    <3>1. ~Refused(tools, c, new.up) /\ tools' = tools \cup {new}
      BY <1>2, <2>3 DEF WriteTool
    <3>2. \A r \in tools : ~OneTool(r, new)
      BY <2>2, <3>1 DEF Refused, Of, OneTool
    <3> QED BY <2>2, <3>1, <3>2 DEF ToolsMove, Inserts
  <2>4. CASE previous # {}
    <3>1. tools' = (tools \ changed) \cup {[new EXCEPT !.enabled = r.enabled] : r \in changed}
      BY <2>1, <2>4 DEF ToolWritten
    <3>2. changed = {} \/ changed = {r \in tools : OneTool(r, new)}
      BY <2>2 DEF Of, OneTool
    <3>3. writer[new.conn] # None
      <4>1. writer[c] = p
        BY <2>1 DEF Moving, Exclusive, Writing, ToolWritten
      <4> QED BY <2>2, <4>1, NobodyIsNone
    <3> HIDE DEF new, changed
    <3>4. Rewrites(new, changed)
      BY <3>1, <3>2, <3>3 DEF Rewrites
    <3> QED BY <2>2, <3>4 DEF ToolsMove
  <2> QED BY <2>3, <2>4
<1> QED BY <1>1, <1>2

LEMMA CatalogueMovesRow ==
  ASSUME Moving, [CatalogueNext]_catalogueVars
  PROVE  ToolsMove
<1>0. TypeOK
  BY DEF Moving
<1>1. ASSUME NEW p \in Process, SyncStep(p) PROVE ToolsMove
  <2>1. CASE WriteTool(p)
    BY <2>1, WriteToolMovesRow
  <2>2. CASE DeleteStale(p)
    BY <1>0, <2>2, DeleteStaleEither DEF StaleDeleted, ToolsWritten, ToolsMove
  <2>3. CASE WriteResource(p) \/ WritePrompt(p)
    BY <1>0, <2>3, WriteEntryEither
    DEF Aborted, Abort, EntryWritten, ResourcesWritten, PromptsWritten, ToolsMove, rows
  <2>4. CASE Acquired(p) \/ Listed(p) \/ Unlisted(p) \/ Lock(p) \/ GiveUp(p) \/ RecordOutcome(p)
    BY <2>4 DEF Acquired, Listed, Unlisted, Lock, GiveUp, RecordOutcome, ToolsMove, rows
  <2> QED BY <1>1, <2>1, <2>2, <2>3, <2>4 DEF SyncStep
<1>2. ASSUME NEW a \in Actor, OperationStep(a) PROVE ToolsMove
  <2>1. CASE \E r \in tools : SetToolEnabled(a, r)
    BY <2>1 DEF SetToolEnabled, Toggles, ToolsMove
  <2>2. CASE Withdraw(a)
    BY <2>2 DEF Withdraw, ToolsMove
  <2>3. CASE ~(\E r \in tools : SetToolEnabled(a, r)) /\ ~Withdraw(a)
    BY <1>2, <2>3
    DEF OperationStep, Refresh, Disable, Enable, Disconnect, Rename, SetAlias, Crash, rows, ToolsMove
  <2> QED BY <2>1, <2>2, <2>3
<1>3. ASSUME NEW c \in Conn, Change(c) \/ ScheduleResync(c) \/ LoopStep(c) PROVE ToolsMove
  BY <1>3 DEF Change, ScheduleResync, LoopStep, BeginResync, RepeatResync, EndResync, rows, ToolsMove
<1>4. CASE UNCHANGED catalogueVars
  BY <1>4 DEF catalogueVars, rows, ToolsMove
<1> QED BY <1>1, <1>2, <1>3, <1>4 DEF CatalogueNext

\* A row that only changes its switch, or all but its switch, is of one tool.
LEMMA RowsOfOneTool ==
  ASSUME NEW q \in ToolRow
  PROVE  /\ \A b \in BOOLEAN : LET r == [q EXCEPT !.enabled = b]
                               IN r \in ToolRow /\ OneTool(r, q) /\ r.enabled = b
         /\ q.enabled \in BOOLEAN
BY DEF ToolRow, OneTool

LEMMA SwitchStep ==
  ASSUME tools \subseteq ToolRow, OneRowEach, ToolsMove
  PROVE  SwitchKept /\ OneRowEach'
<1>1. CASE tools' \subseteq tools
  BY <1>1 DEF SwitchKept, OneRowEach
<1>2. ASSUME NEW new \in ToolRow, Inserts(new)
      PROVE  SwitchKept /\ OneRowEach'
  BY <1>2 DEF Inserts, SwitchKept, OneRowEach, OneTool
<1>3. ASSUME NEW new \in ToolRow, NEW changed, Rewrites(new, changed)
      PROVE  SwitchKept /\ OneRowEach'
  <2>1. CASE changed = {}
    BY <1>3, <2>1 DEF Rewrites, SwitchKept, OneRowEach
  <2>2. CASE changed # {}
    <3>1. changed = {r \in tools : OneTool(r, new)}
      BY <1>3, <2>2 DEF Rewrites
    <3>2. PICK old \in tools : changed = {old} /\ OneTool(old, new)
      BY <2>2, <3>1 DEF OneRowEach, OneTool
    <3>3. PICK r : r = [new EXCEPT !.enabled = old.enabled]
      OBVIOUS
    <3>4. OneTool(r, new) /\ r.enabled = old.enabled
      BY <3>2, <3>3, RowsOfOneTool
    <3>5. tools' = (tools \ {old}) \cup {r} /\ writer[new.conn] # None
      BY <1>3, <3>2, <3>3 DEF Rewrites
    <3>6. \A q \in tools : OneTool(q, r) => q = old
      BY <3>2, <3>4 DEF OneRowEach, OneTool
    <3> QED BY <3>2, <3>4, <3>5, <3>6 DEF SwitchKept, OneRowEach, OneTool
  <2> QED BY <2>1, <2>2
<1>4. ASSUME NEW old \in tools, Toggles(old)
      PROVE  SwitchKept /\ OneRowEach'
  <2>1. PICK r : r = [old EXCEPT !.enabled = ~old.enabled]
    OBVIOUS
  <2>2. OneTool(r, old)
    BY <2>1, RowsOfOneTool
  <2>3. tools' = (tools \ {old}) \cup {r}
    BY <1>4, <2>1 DEF Toggles
  <2>4. \A q \in tools : OneTool(q, r) => q = old
    BY <2>2 DEF OneRowEach, OneTool
  <2>5. \A q \in tools, s \in tools' : OneTool(q, s) => s = q \/ (q = old /\ s = r)
    BY <2>3, <2>4 DEF OneRowEach
  <2>6. SwitchKept
    <3> SUFFICES ASSUME NEW q \in tools, NEW s \in tools', OneTool(q, s)
                 PROVE  \/ s = [q EXCEPT !.enabled = ~q.enabled]
                        \/ s.enabled = q.enabled /\ (s # q => writer[q.conn] # None)
      BY DEF SwitchKept
    <3> QED BY <2>1, <2>5
  <2>7. OneRowEach'
    <3> SUFFICES ASSUME NEW q \in tools', NEW s \in tools', OneTool(q, s)
                 PROVE  q = s
      BY DEF OneRowEach, OneTool
    <3>1. OneTool(s, q)
      BY DEF OneTool
    <3> QED BY <2>3, <2>4, <3>1 DEF OneRowEach
  <2> QED BY <2>6, <2>7
<1> QED BY <1>1, <1>2, <1>3, <1>4 DEF ToolsMove

LEMMA OneRowAtFirst == Init => OneRowEach
<1> SUFFICES ASSUME Init, NEW q \in tools, NEW r \in tools, OneTool(q, r)
             PROVE  q = r
  BY DEF OneRowEach
<1>1. PICK c \in Conn, d \in Conn : q \in ToolsIn(First(c)) /\ r \in ToolsIn(First(d))
  BY DEF Init
<1>2. c = d
  BY <1>1, FirstListing DEF OneTool
<1>3. PICK i \in DOMAIN First(c).tools, j \in DOMAIN First(c).tools :
        q = First(c).tools[i] /\ r = First(c).tools[j]
  BY <1>1, <1>2 DEF ToolsIn
<1>4. i = j
  BY <1>3, FirstListing DEF Listing, OneTool
<1> QED BY <1>3, <1>4

\* No sync turns a tool on again that its user has switched off while it ran, nor
\* off again: it reads the rows first and updates them one by one later, all but
\* the switch, and the switch is written without the rest.  Only the sync that has
\* the lock rewrites what a tool is (syncTools, setToolEnabled, sql-store.ts).  A
\* tool that was gone from the list meanwhile has a new row, which is on.
THEOREM SwitchesSurvive == Spec => [][SwitchKept]_vars
<1>1. HandlerInit => OneRowEach
  BY OneRowAtFirst DEF HandlerInit
<1>2. CatalogueInv /\ OneRowEach /\ [Next]_vars => SwitchKept /\ OneRowEach'
  <2> SUFFICES ASSUME CatalogueInv, OneRowEach, [Next]_vars
               PROVE  SwitchKept /\ OneRowEach'
    OBVIOUS
  <2>1. ToolsMove
    BY NextInCatalogue, CatalogueMovesRow DEF CatalogueInv
  <2> QED BY <2>1, SwitchStep DEF CatalogueInv, Moving, TypeOK
<1> QED BY <1>1, <1>2, CatalogueIsWell, PTL DEF Spec

(***************************************************************************)
(* Pages                                                                   *)
(***************************************************************************)

\* Names of one length, in the order of their text.
LEMMA BeforeOrders ==
  ASSUME NEW k \in Nat, NEW T, T \subseteq {s \in Seq(Nat) : Len(s) = k}
  PROVE  /\ \A m \in T : ~Before(m, m)
         /\ \A l, m, n \in T : Before(l, m) /\ Before(m, n) => Before(l, n)
         /\ \A m, n \in T : m = n \/ Before(m, n) \/ Before(n, m)
<1>0. \A m \in T : m \in Seq(Nat) /\ Len(m) = k /\ DOMAIN m = 1 .. k /\ \A i \in 1 .. k : m[i] \in Nat
  OBVIOUS
<1>1. \A m \in T : ~Before(m, m)
  BY <1>0 DEF Before
<1>2. ASSUME NEW l \in T, NEW m \in T, NEW n \in T, Before(l, m), Before(m, n) PROVE Before(l, n)
  <2>1. PICK i \in 1 .. k : l[i] < m[i] /\ \A h \in 1 .. (i - 1) : l[h] = m[h]
    BY <1>0, <1>2 DEF Before
  <2>2. PICK j \in 1 .. k : m[j] < n[j] /\ \A h \in 1 .. (j - 1) : m[h] = n[h]
    BY <1>0, <1>2 DEF Before
  <2>3. PICK e \in 1 .. k : (e = i \/ e = j) /\ e <= i /\ e <= j
    <3>1. CASE i <= j
      BY <3>1
    <3>2. CASE ~(i <= j)
      <4>1. j <= j /\ j <= i
        BY <3>2
      <4> QED BY <4>1
    <3> QED BY <3>1, <3>2
  <2>4. l[e] < n[e]
    <3>1. l[e] \in Nat /\ m[e] \in Nat /\ n[e] \in Nat /\ e \in Nat /\ i \in Nat /\ j \in Nat
      BY <1>0
    <3>2. l[e] < m[e] \/ (l[e] = m[e] /\ e # i)
      BY <2>1, <2>3, <3>1
    <3>3. m[e] < n[e] \/ (m[e] = n[e] /\ e # j)
      BY <2>2, <2>3, <3>1
    <3> QED BY <2>3, <3>1, <3>2, <3>3
  <2>5. \A h \in 1 .. (e - 1) : l[h] = n[h]
    BY <1>0, <2>1, <2>2, <2>3
  <2> QED BY <1>0, <2>4, <2>5 DEF Before
<1>3. ASSUME NEW m \in T, NEW n \in T, m # n PROVE Before(m, n) \/ Before(n, m)
  <2> DEFINE D == {i \in 1 .. k : m[i] # n[i]}
  <2>1. D # {} /\ D \in SUBSET Nat
    <3>1. D \in SUBSET Nat
      OBVIOUS
    <3>2. ASSUME D = {} PROVE FALSE
      <4>1. \A i \in 1 .. Len(m) : m[i] = n[i]
        BY <1>0, <3>2
      <4>2. m \in Seq(Nat) /\ n \in Seq(Nat) /\ Len(m) = Len(n)
        BY <1>0
      <4>3. m = n
        BY <4>1, <4>2, SeqEqual
      <4> QED BY <1>3, <4>3
    <3> QED BY <3>1, <3>2
  <2> HIDE DEF D
  <2>2. PICK i \in D : \A j \in D : i <= j
    BY <2>1, LeastOf
  <2> USE DEF D
  <2>3. \A j \in 1 .. (i - 1) : m[j] = n[j]
    BY <2>2
  <2>4. m[i] < n[i] \/ n[i] < m[i]
    BY <1>0, <2>2
  <2> QED BY <1>0, <2>2, <2>3, <2>4 DEF Before
<1> QED BY <1>1, <1>2, <1>3

\* The order of a listing: by name, then by connection.
LEMMA EarlierOrders ==
  ASSUME NEW k \in Nat, NEW T, T \subseteq {s \in Seq(Nat) : Len(s) = k}
  PROVE  /\ \A i \in T \X Nat : ~Earlier(i, i)
         /\ \A h, i, j \in T \X Nat : Earlier(h, i) /\ Earlier(i, j) => Earlier(h, j)
         /\ \A i, j \in T \X Nat : i = j \/ Earlier(i, j) \/ Earlier(j, i)
<1>1. /\ \A m \in T : ~Before(m, m)
      /\ \A l, m, n \in T : Before(l, m) /\ Before(m, n) => Before(l, n)
      /\ \A m, n \in T : m = n \/ Before(m, n) \/ Before(n, m)
  BY BeforeOrders
<1>2. \A i \in T \X Nat : i[1] \in T /\ i[2] \in Nat /\ i = <<i[1], i[2]>>
  OBVIOUS
<1>3. \A i \in T \X Nat : ~Earlier(i, i)
  BY <1>1, <1>2 DEF Earlier
<1>4. \A h, i, j \in T \X Nat : Earlier(h, i) /\ Earlier(i, j) => Earlier(h, j)
  BY <1>1, <1>2 DEF Earlier
<1>5. ASSUME NEW i \in T \X Nat, NEW j \in T \X Nat, i # j PROVE Earlier(i, j) \/ Earlier(j, i)
  <2>1. i[1] # j[1] \/ i[2] # j[2]
    BY <1>2, <1>5
  <2>2. CASE i[1] # j[1]
    BY <1>1, <1>2, <2>2 DEF Earlier
  <2>3. CASE i[1] = j[1] /\ i[2] # j[2]
    BY <1>2, <2>3 DEF Earlier
  <2> QED BY <2>1, <2>2, <2>3
<1> QED BY <1>3, <1>4, <1>5

\* What is on no page yet comes after the name the next page is asked for with.
LeadsOn(T, items, cursor, size) ==
  LET page == Paginate(items, cursor, size)
      rest == After(items, cursor)
  IN /\ page.items \subseteq items
     /\ page.next = NoCursor => page.items = rest
     /\ page.next # NoCursor =>
          /\ page.next \in T
          /\ \A t \in rest \ page.items : Before(page.next, t[1]) \/ t[1] = page.next
          /\ \E t \in page.items : t[1] = page.next

\* A page that leaves something out has a last item, and it leads on: all that is
\* left comes after that item's key or shares it (paginate in pagination.ts).
THEOREM PageEnds ==
  ASSUME NEW k \in Nat \ {0}, NEW T, T \subseteq {s \in Seq(Nat) : Len(s) = k},
         NEW items, items \subseteq T \X Nat, IsFiniteSet(items),
         NEW cursor, NEW size \in Nat \ {0}
  PROVE  LeadsOn(T, items, cursor, size)
<1> DEFINE rest == After(items, cursor)
           pred(i) == {j \in rest : Earlier(j, i)}
           page == FirstOf(rest, size)
           last == CHOOSE i \in page : \A j \in page : ~Earlier(i, j)
           P == Paginate(items, cursor, size)
<1>1. rest \subseteq items /\ rest \subseteq T \X Nat /\ IsFiniteSet(rest)
  <2>1. rest \subseteq items
    BY DEF After
  <2> QED BY <2>1, FS_Subset
<1>2. page = {i \in rest : Cardinality(pred(i)) < size}
  BY DEF FirstOf
<1>3. P.items = page /\ P.next = IF page = rest THEN NoCursor ELSE last[1]
  BY DEF Paginate
<1> HIDE DEF rest, page, P
<1>4. \A i \in rest : IsFiniteSet(pred(i)) /\ Cardinality(pred(i)) \in Nat
  BY <1>1, FS_Subset, FS_CardinalityType
<1>5. ASSUME NEW i \in rest, NEW j \in rest, Earlier(j, i)
      PROVE  Cardinality(pred(j)) < Cardinality(pred(i))
  <2>1. pred(j) \subseteq pred(i)
    BY <1>1, <1>5, EarlierOrders
  <2>2. j \in pred(i) /\ j \notin pred(j)
    BY <1>1, <1>5, EarlierOrders
  <2> DEFINE x == pred(i)
             y == pred(j)
  <2>3. y \subseteq x /\ y # x /\ IsFiniteSet(x)
    BY <1>4, <2>1, <2>2
  <2> HIDE DEF x, y
  <2>4. Cardinality(y) < Cardinality(x)
    BY <2>3, FS_Subset, FS_CardinalityType
  <2> QED BY <2>4 DEF x, y
<1> DEFINE rank == [i \in rest |-> Cardinality(pred(i))]
<1>5a. /\ \A i \in rest : rank[i] \in Nat
       /\ \A i, j \in rest : Earlier(j, i) => rank[j] < rank[i]
       /\ page = {i \in rest : rank[i] < size}
  BY <1>2, <1>4, <1>5
<1>5b. \A i \in rest : (\A j \in rest : ~Earlier(j, i)) => rank[i] = 0
  <2> SUFFICES ASSUME NEW i \in rest, \A j \in rest : ~Earlier(j, i) PROVE Cardinality(pred(i)) = 0
    OBVIOUS
  <2>1. pred(i) = {}
    OBVIOUS
  <2> QED BY <2>1, FS_EmptySet
<1> HIDE DEF rank
<1>6. ASSUME page # rest PROVE /\ last \in page /\ \A j \in page : ~Earlier(last, j)
                               /\ \A t \in rest \ page : Earlier(last, t)
  <2>1. PICK s \in rest : \A t \in rest : rank[s] <= rank[t]
    <3> DEFINE ranks == {rank[i] : i \in rest}
    <3>1. ranks \subseteq Nat /\ ranks # {}
      BY <1>5a, <1>6
    <3>2. PICK x \in ranks : \A y \in ranks : x <= y
      BY <3>1, LeastOf
    <3> QED BY <3>2
  <2>2. \A j \in rest : ~Earlier(j, s)
    BY <1>5a, <2>1
  <2>3. s \in page
    BY <1>5a, <1>5b, <2>2
  <2>4. PICK i \in page : \A j \in page : rank[j] <= rank[i]
    <3> DEFINE gaps == {size - rank[i] : i \in page}
    <3>0. \A j \in page : rank[j] \in Nat /\ size - rank[j] \in Nat
      BY <1>5a
    <3>1. gaps \in SUBSET Nat /\ gaps # {}
      BY <2>3, <3>0
    <3>2. PICK x \in gaps : \A y \in gaps : x <= y
      BY <3>1, LeastOf
    <3>3. PICK i \in page : x = size - rank[i]
      BY <3>2
    <3>4. \A j \in page : x <= size - rank[j]
      BY <3>2
    <3>5. \A j \in page : rank[j] <= rank[i]
      <4> SUFFICES ASSUME NEW j \in page PROVE rank[j] <= rank[i]
        OBVIOUS
      <4>1. size - rank[i] <= size - rank[j] /\ rank[i] \in Nat /\ rank[j] \in Nat /\ size \in Nat
        BY <3>0, <3>3, <3>4
      <4> QED BY <4>1
    <3> QED BY <3>5
  <2>5. \A j \in page : ~Earlier(i, j)
    <3> SUFFICES ASSUME NEW j \in page, Earlier(i, j) PROVE FALSE
      OBVIOUS
    <3>1. rank[i] < rank[j] /\ rank[j] <= rank[i] /\ rank[i] \in Nat /\ rank[j] \in Nat
      BY <1>5a, <2>4
    <3> QED BY <3>1
  <2>6. last \in page /\ \A j \in page : ~Earlier(last, j)
    BY <2>5
  <2> HIDE DEF last
  <2>7. ASSUME NEW t \in rest \ page PROVE Earlier(last, t)
    <3>1. last \in rest /\ last # t
      BY <1>5a, <2>6, <2>7
    <3>2. ~Earlier(t, last)
      BY <1>5a, <2>6, <2>7, <3>1
    <3> QED BY <1>1, <2>7, <3>1, <3>2, EarlierOrders
  <2> QED BY <2>6, <2>7
<1> HIDE DEF last
<1>7. page \subseteq rest
  BY <1>2
<1>8. ASSUME page # rest PROVE last[1] \in T /\ last[1] # NoCursor
  <2>1. last \in T \X Nat
    BY <1>1, <1>6, <1>7, <1>8
  <2>2. last[1] \in T
    BY <2>1
  <2> QED BY <2>2 DEF NoCursor
<1>9. ASSUME page # rest, NEW t \in rest \ page PROVE Before(last[1], t[1]) \/ t[1] = last[1]
  BY <1>6, <1>9 DEF Earlier
<1>10. P.items \subseteq items
  BY <1>1, <1>3, <1>7
<1>11. P.next = NoCursor => P.items = rest
  BY <1>3, <1>8
<1>12. P.next # NoCursor => /\ P.next \in T
                            /\ \A t \in rest \ P.items : Before(P.next, t[1]) \/ t[1] = P.next
                            /\ \E t \in P.items : t[1] = P.next
  BY <1>3, <1>6, <1>8, <1>9
<1> QED BY <1>10, <1>11, <1>12 DEF P, rest, LeadsOn


(***************************************************************************)
(* Requests                                                                *)
(***************************************************************************)

\* What a listing names.
NamesOf(kind) == IF kind = "tools" THEN ToolName ELSE Uri

\* What a listing under way has delivered lies behind its cursor, and what it
\* still owes before it; a reading is due from where it is going.
Asked(x) ==
  /\ x.at = "idle" => x = Blank
  /\ x.kind \in Lists \cup {"read"} => x.lost = {}
  /\ x.at \in {"connections", "rows"} =>
       /\ x.kind \in Lists
       /\ x.cursor \in NamesOf(x.kind) \cup {NoCursor}
       /\ x.delivered \cup x.steady \subseteq NamesOf(x.kind)
       /\ x.cursor = NoCursor \/ \A n \in x.steady \ x.delivered : Before(x.cursor, n)
  /\ x.at \in {"found", "confirm", "upstream"} => x.row \in ToolRow /\ x.listed \subseteq RiskLevels
  /\ x.at = "byAlias" => \E c \in Conn, u \in Upstream, alias \in Alias :
                           x.due = <<c, u>> /\ x.uri = GatewayUri(alias, u)
  /\ x.at = "routed" => x.target \in Source \cup {NotFound}
  /\ x.at = "routed" /\ x.kind = "read" => x.due = None \/ (x.due = x.target /\ x.due \in Source)

\* The inductive invariant of the requests.
RequestsInv ==
  /\ req \in [Request -> RequestRecord]
  /\ \A r \in Request : Asked(req[r])

\* A request that has not come, and one that was answered.
LEMMA BlankAsked == Blank \in RequestRecord /\ Asked(Blank)
<1>1. Blank \in RequestRecord
  BY DEF Blank, RequestRecord, RequestAt, NoCursor
<1>2. Asked(Blank)
  BY DEF Asked, Blank, NoCursor
<1> QED BY <1>1, <1>2

LEMMA DoneAsked ==
  ASSUME NEW kind \in Kinds
  PROVE  /\ Done(kind) \in RequestRecord /\ Asked(Done(kind))
         /\ \A risky \in BOOLEAN : LET x == [Done(kind) EXCEPT !.risked = risky]
                                   IN x \in RequestRecord /\ Asked(x)
         /\ \A lost \in SUBSET Source :
              (kind \in Lists \cup {"read"} => lost = {})
                => LET x == [Done(kind) EXCEPT !.lost = lost]
                   IN x \in RequestRecord /\ Asked(x)
<1>1. Done(kind) \in RequestRecord /\ Asked(Done(kind))
  BY DEF Done, Blank, RequestRecord, RequestAt, Asked, NoCursor
<1>2. ASSUME NEW risky \in BOOLEAN
      PROVE  LET x == [Done(kind) EXCEPT !.risked = risky] IN x \in RequestRecord /\ Asked(x)
  BY DEF Done, Blank, RequestRecord, RequestAt, Asked, NoCursor
<1>3. ASSUME NEW lost \in SUBSET Source, kind \in Lists \cup {"read"} => lost = {}
      PROVE  LET x == [Done(kind) EXCEPT !.lost = lost] IN x \in RequestRecord /\ Asked(x)
  BY <1>3 DEF Done, Blank, RequestRecord, RequestAt, Asked, NoCursor
<1> QED BY <1>1, <1>2, <1>3

\* Names are texts of one length.
LEMMA NamesAreText ==
  /\ ToolName \subseteq {s \in Seq(Nat) : Len(s) = 5}
  /\ Uri \subseteq {s \in Seq(Nat) : Len(s) = 3}
<1>1. ASSUME NEW n \in ToolName PROVE n \in Seq(Nat) /\ Len(n) = 5
  <2>1. PICK a, b, c, d, e \in Nat : n = <<a, b, c, d, e>>
    BY DEF ToolName
  <2> QED BY <2>1
<1>2. ASSUME NEW n \in Uri PROVE n \in Seq(Nat) /\ Len(n) = 3
  <2>1. PICK a, b, c \in Nat : n = <<a, b, c>>
    BY DEF Uri
  <2> QED BY <2>1
<1> QED BY <1>1, <1>2

\* A step of a request that asks for nothing amiss.
Answers(r) == \E x \in RequestRecord : Asked(x) /\ Now(r, x)

\* One lemma for each step of a request.
LEMMA ListConnectionsAsks ==
  ASSUME RequestsInv, NEW r \in Request, ListConnections(r) PROVE Answers(r)
<1>1. PICK kind \in Lists :
        /\ Is(r, kind, "idle") \/ Is(r, kind, "connections")
        /\ Now(r, [req[r] EXCEPT !.at = "rows", !.kind = kind, !.usable = {c \in Conn : Visible(c)}])
  BY DEF ListConnections
<1> DEFINE us == {c \in Conn : Visible(c)}
<1>2. us \in SUBSET Conn
  OBVIOUS
<1> HIDE DEF us
<1>3. PICK y : y = req[r]
  OBVIOUS
<1>4. y \in RequestRecord /\ Asked(y)
  BY <1>3 DEF RequestsInv
<1> DEFINE x == [y EXCEPT !.at = "rows", !.kind = kind, !.usable = us]
<1>5. x \in RequestRecord
  BY <1>2, <1>4 DEF RequestRecord, RequestAt, Kinds
<1>6. Asked(x)
  <2>1. CASE y.at = "idle"
    <3>1. y = Blank
      BY <1>4, <2>1 DEF Asked
    <3> QED BY <3>1 DEF Asked, Blank, NoCursor
  <2>2. CASE y.at = "connections" /\ y.kind = kind
    <3>1. /\ x.at = "rows" /\ x.kind = kind /\ x.cursor = y.cursor /\ x.delivered = y.delivered
          /\ x.steady = y.steady /\ x.lost = y.lost
      BY <1>4 DEF RequestRecord
    <3> QED BY <1>4, <2>2, <3>1 DEF Asked, Lists
  <2> QED BY <1>1, <1>3, <2>1, <2>2 DEF Is
<1> QED BY <1>1, <1>3, <1>5, <1>6 DEF Answers, us

LEMMA ListPageAsks ==
  ASSUME RequestsInv, NEW r \in Request, NEW listing, IsFiniteSet(listing),
         req[r].kind \in Lists, listing \subseteq NamesOf(req[r].kind) \X Nat, ListPage(r, listing)
  PROVE  Answers(r)
<1>1. PICK y : y = req[r]
  OBVIOUS
<1>2. y \in RequestRecord /\ Asked(y) /\ y.at = "rows" /\ y.kind \in Lists
  BY <1>1 DEF RequestsInv, ListPage
<1> DEFINE T == NamesOf(y.kind)
           page == Paginate(listing, y.cursor, PageSize)
           names == {t[1] : t \in listing}
           delivered == y.delivered \cup {t[1] : t \in page.items}
           steady == IF y.cursor = NoCursor THEN names ELSE y.steady \cap names
           x == [y EXCEPT !.at = "connections", !.cursor = page.next, !.delivered = delivered,
                          !.steady = steady]
<1>3. T \subseteq ToolName \cup Uri /\ \E k \in Nat \ {0} : T \subseteq {s \in Seq(Nat) : Len(s) = k}
  <2>1. T = ToolName \/ T = Uri
    BY DEF NamesOf
  <2> HIDE DEF T
  <2>2. CASE T = ToolName
    BY <2>2, NamesAreText
  <2>3. CASE T = Uri
    <3>1. 3 \in Nat \ {0} /\ T \subseteq {s \in Seq(Nat) : Len(s) = 3}
      BY <2>3, NamesAreText
    <3> QED BY <2>3, <3>1
  <2> QED BY <2>1, <2>2, <2>3
<1>3a. PICK k \in Nat \ {0} : T \subseteq {s \in Seq(Nat) : Len(s) = k}
  BY <1>3
<1>4. listing \subseteq T \X Nat
  BY <1>1
<1> HIDE DEF T
<1>5. /\ page.items \subseteq listing
      /\ page.next = NoCursor => page.items = After(listing, y.cursor)
      /\ page.next # NoCursor =>
           /\ page.next \in T
           /\ \A t \in After(listing, y.cursor) \ page.items :
                Before(page.next, t[1]) \/ t[1] = page.next
           /\ \E t \in page.items : t[1] = page.next
  <2> DEFINE cursor == y.cursor
  <2> HIDE DEF cursor
  <2>1. PageSize \in Nat \ {0}
    BY PageSizeAssumption
  <2>2. LeadsOn(T, listing, cursor, PageSize)
    BY <1>3a, <1>4, <2>1, PageEnds
  <2> QED BY <2>2 DEF LeadsOn, cursor
<1> HIDE DEF page
<1>6. names \subseteq T /\ {t[1] : t \in page.items} \subseteq T
  BY <1>4, <1>5
<1>7. /\ y.cursor \in T \cup {NoCursor} /\ y.delivered \cup y.steady \subseteq T
      /\ y.cursor = NoCursor \/ \A n \in y.steady \ y.delivered : Before(y.cursor, n)
      /\ y.lost = {}
  BY <1>2 DEF Asked, T
<1>8. delivered \subseteq T /\ steady \subseteq T
  BY <1>6, <1>7
<1>9. ASSUME NEW n \in steady \ delivered
      PROVE  \E t \in After(listing, y.cursor) \ page.items : t[1] = n
  <2>1. PICK t \in listing : t[1] = n
    BY <1>9
  <2>2. y.cursor = NoCursor \/ Before(y.cursor, n)
    BY <1>7, <1>9
  <2>3. t \notin page.items
    BY <1>9, <2>1
  <2> QED BY <2>1, <2>2, <2>3 DEF After
<1>10. \A n \in steady \ delivered : page.next # NoCursor /\ Before(page.next, n)
  <2> SUFFICES ASSUME NEW n \in steady \ delivered PROVE page.next # NoCursor /\ Before(page.next, n)
    OBVIOUS
  <2>1. PICK t \in After(listing, y.cursor) \ page.items : t[1] = n
    BY <1>9
  <2>2. page.next # NoCursor
    BY <1>5, <2>1
  <2>3. page.next \in delivered
    BY <1>5, <2>2
  <2> QED BY <1>5, <2>1, <2>2, <2>3
<1> HIDE DEF names, delivered, steady
<1>11. CASE page.next = NoCursor
  <2>1. Now(r, [Done(y.kind) EXCEPT !.lost = steady \ delivered])
    BY <1>1, <1>11 DEF ListPage, page, names, delivered, steady
  <2>2. steady \ delivered = {} /\ y.kind \in Kinds
    BY <1>2, <1>10, <1>11 DEF Kinds
  <2> DEFINE lost == steady \ delivered
             z == [Done(y.kind) EXCEPT !.lost = lost]
  <2> HIDE DEF lost
  <2>3. lost \in SUBSET Source /\ lost = {}
    BY <2>2 DEF lost
  <2>4. z \in RequestRecord /\ Asked(z)
    BY <2>2, <2>3, DoneAsked
  <2>5. Now(r, z)
    BY <2>1 DEF lost
  <2> HIDE DEF z
  <2> QED BY <2>4, <2>5 DEF Answers
<1>12. CASE page.next # NoCursor
  <2>1. Now(r, x)
    BY <1>1, <1>12 DEF ListPage, page, names, delivered, steady
  <2>2. x \in RequestRecord
    BY <1>2, <1>3, <1>5, <1>8, <1>12 DEF RequestRecord, RequestAt
  <2>3. /\ x.at = "connections" /\ x.cursor = page.next /\ x.delivered = delivered
        /\ x.steady = steady /\ x.kind = y.kind /\ x.lost = y.lost
    BY <1>2 DEF RequestRecord
  <2> HIDE DEF x
  <2>4. Asked(x)
    BY <1>2, <1>5, <1>7, <1>8, <1>10, <1>12, <2>3 DEF Asked, T
  <2> QED BY <2>1, <2>2, <2>4 DEF Answers
<1> QED BY <1>11, <1>12

\* As many of a finite table, of what it names.
LEMMA ListingTyped ==
  ASSUME NEW table, IsFiniteSet(table), NEW S \in SUBSET table, NEW T, NEW f,
         f \in [S -> T \X Nat]
  PROVE  /\ {f[t] : t \in S} \subseteq T \X Nat
         /\ IsFiniteSet({f[t] : t \in S})
<1> DEFINE R == {f[t] : t \in S}
<1>1. R \subseteq T \X Nat /\ f \in [S -> R]
  OBVIOUS
<1>2. f \in Surjection(S, R)
  BY <1>1, Fun_IsSurj
<1>3. IsFiniteSet(S)
  BY FS_Subset
<1> HIDE DEF R
<1>4. IsFiniteSet(R)
  BY <1>2, <1>3, FS_Surjection
<1> QED BY <1>1, <1>4 DEF R

LEMMA ListRowsAsks ==
  ASSUME CatalogueInv, RequestsInv, NEW r \in Request, ListRows(r) PROVE Answers(r)
<1>0. /\ tools \subseteq ToolRow /\ resources \cup prompts \subseteq EntryRow /\ Conn \subseteq Nat
      /\ IsFiniteSet(tools) /\ IsFiniteSet(resources) /\ IsFiniteSet(prompts)
  BY ConnAssumption DEF CatalogueInv, Moving, TypeOK, Finite
<1>1. CASE req[r].kind = "tools" /\ ListPage(r, ListedTools(r))
  <2> DEFINE S == {s \in tools : s.enabled /\ s.conn \in req[r].usable}
             f == [t \in S |-> <<t.gw, t.conn>>]
  <2>1. f \in [S -> ToolName \X Nat]
    BY <1>0 DEF ToolRow
  <2>2. ListedTools(r) = {f[t] : t \in S} /\ S \in SUBSET tools
    BY DEF ListedTools
  <2> HIDE DEF S, f
  <2>3. ListedTools(r) \subseteq ToolName \X Nat /\ IsFiniteSet(ListedTools(r))
    BY <1>0, <2>1, <2>2, ListingTyped
  <2> QED BY <1>1, <2>3, ListPageAsks DEF NamesOf, Lists
<1>2. ASSUME NEW table, IsFiniteSet(table), table \subseteq EntryRow, req[r].kind \in {"resources", "prompts"},
             ListPage(r, {<<e.uri, e.conn>> : e \in {s \in table : s.conn \in req[r].usable}})
      PROVE  Answers(r)
  <2> DEFINE S == {s \in table : s.conn \in req[r].usable}
             f == [t \in S |-> <<t.uri, t.conn>>]
             L == {<<e.uri, e.conn>> : e \in S}
  <2>1. f \in [S -> Uri \X Nat]
    BY <1>0, <1>2 DEF EntryRow
  <2>2. L = {f[t] : t \in S} /\ S \in SUBSET table
    OBVIOUS
  <2>3. ListPage(r, L)
    BY <1>2
  <2> HIDE DEF S, f, L
  <2>4. L \subseteq Uri \X Nat /\ IsFiniteSet(L)
    BY <1>2, <2>1, <2>2, ListingTyped
  <2> QED BY <1>2, <2>3, <2>4, ListPageAsks DEF NamesOf, Lists
<1>3. CASE req[r].kind = "resources" /\ ListPage(r, ListedResources(r))
  BY <1>0, <1>2, <1>3 DEF ListedResources
<1>4. CASE req[r].kind = "prompts" /\ ListPage(r, ListedPrompts(r))
  BY <1>0, <1>2, <1>4 DEF ListedPrompts
<1> QED BY <1>1, <1>3, <1>4 DEF ListRows


LEMMA CallAsks ==
  ASSUME CatalogueInv, RequestsInv, NEW r \in Request,
         FindTool(r) \/ Decide(r) \/ Confirm(r) \/ CallTool(r)
  PROVE  Answers(r)
<1>0. PICK y : y = req[r]
  OBVIOUS
<1>1. y \in RequestRecord /\ Asked(y) /\ "call" \in Kinds
  BY <1>0 DEF RequestsInv, Kinds
<1>2. CASE FindTool(r)
  <2>1. PICK t \in tools :
          Now(r, [Blank EXCEPT !.at = "found", !.kind = "call", !.row = t, !.listed = RiskListed(t)])
    BY <1>2 DEF FindTool
  <2>2. t \in ToolRow /\ t.conn \in Conn
    BY DEF CatalogueInv, Moving, TypeOK, ToolRow
  <2>3. RiskListed(t) \subseteq RiskLevels
    <3>1. synced[t.conn] \in WantedRows
      BY <2>2 DEF CatalogueInv, Moving, TypeOK
    <3>2. ToolsIn(synced[t.conn]) \subseteq ToolRow
      BY <3>1 DEF WantedRows, ToolsIn
    <3> QED BY <3>2 DEF RiskListed, ToolRow
  <2> DEFINE risks == RiskListed(t)
             x == [Blank EXCEPT !.at = "found", !.kind = "call", !.row = t, !.listed = risks]
  <2> HIDE DEF risks
  <2>4. risks \subseteq RiskLevels
    BY <2>3 DEF risks
  <2>5. x \in RequestRecord
    BY <1>1, <2>2, <2>4 DEF Blank, RequestRecord, RequestAt, NoCursor
  <2>6. x.at = "found" /\ x.kind = "call" /\ x.row = t /\ x.listed = risks
    BY DEF Blank
  <2>7. Now(r, x)
    BY <2>1 DEF risks
  <2> HIDE DEF x
  <2>8. Asked(x)
    BY <2>2, <2>4, <2>6 DEF Asked, Lists
  <2> QED BY <2>5, <2>7, <2>8 DEF Answers
<1>3. CASE Decide(r)
  <2>1. y.kind = "call" /\ y.at = "found"
    BY <1>0, <1>3 DEF Decide, Is
  <2>2. \/ Now(r, Done("call"))
        \/ \E at \in {"upstream", "confirm"} : Now(r, [y EXCEPT !.at = at])
    BY <1>0, <1>3, <2>1 DEF Decide
  <2>3. ASSUME NEW at \in {"upstream", "confirm"}
        PROVE  [y EXCEPT !.at = at] \in RequestRecord /\ Asked([y EXCEPT !.at = at])
    BY <1>1, <2>1 DEF Asked, RequestRecord, RequestAt, Lists
  <2> QED BY <1>1, <2>2, <2>3, DoneAsked DEF Answers
<1>4. CASE Confirm(r)
  <2>1. y.kind = "call" /\ y.at = "confirm"
    BY <1>0, <1>4 DEF Confirm, Is
  <2> DEFINE x == [y EXCEPT !.at = "upstream", !.confirmed = TRUE]
  <2>2. Now(r, Done("call")) \/ Now(r, x)
    BY <1>0, <1>4, <2>1 DEF Confirm
  <2>3. x \in RequestRecord /\ Asked(x)
    <3>1. x \in RequestRecord
      BY <1>1 DEF RequestRecord, RequestAt
    <3>2. x.at = "upstream" /\ x.kind = "call" /\ x.row = y.row /\ x.listed = y.listed
      BY <1>1, <2>1 DEF RequestRecord
    <3>3. y.row \in ToolRow /\ y.listed \subseteq RiskLevels
      BY <1>1, <2>1 DEF Asked
    <3> HIDE DEF x
    <3> QED BY <3>1, <3>2, <3>3 DEF Asked, Lists
  <2> QED BY <1>1, <2>2, <2>3, DoneAsked DEF Answers
<1>5. CASE CallTool(r)
  <2>1. y.kind = "call"
    BY <1>0, <1>5 DEF CallTool, Is
  <2>2. Now(r, Done("call")) \/ \E risky \in BOOLEAN : Now(r, [Done("call") EXCEPT !.risked = risky])
    BY <1>0, <1>5, <2>1 DEF CallTool
  <2> QED BY <1>1, <2>2, DoneAsked DEF Answers
<1> QED BY <1>2, <1>3, <1>4, <1>5

LEMMA FindResourceAsks ==
  ASSUME CatalogueInv, RequestsInv, NEW r \in Request, FindResource(r) PROVE Answers(r)
<1>1. PICK c \in Conn : \E e \in synced[c].resources :
        LET uri == GatewayUri(conn[c].alias, e.up)
            found == {f \in resources : f.uri = uri}
            known == [Blank EXCEPT !.kind = "read", !.uri = uri, !.due = <<c, e.up>>]
        IN /\ found \subseteq Of(resources, c)
           /\ IF found = {}
              THEN Now(r, [known EXCEPT !.at = "byAlias"])
              ELSE \E f \in found :
                     Now(r, [known EXCEPT !.at = "routed", !.target = <<f.conn, f.up>>])
  BY DEF FindResource
<1>1a. PICK e \in synced[c].resources :
        LET uri == GatewayUri(conn[c].alias, e.up)
            found == {f \in resources : f.uri = uri}
            known == [Blank EXCEPT !.kind = "read", !.uri = uri, !.due = <<c, e.up>>]
        IN /\ found \subseteq Of(resources, c)
           /\ IF found = {}
              THEN Now(r, [known EXCEPT !.at = "byAlias"])
              ELSE \E f \in found :
                     Now(r, [known EXCEPT !.at = "routed", !.target = <<f.conn, f.up>>])
  BY <1>1
<1>2. PICK alias, u, uri : alias = conn[c].alias /\ u = e.up /\ uri = GatewayUri(alias, u)
  OBVIOUS
<1>3. alias \in Alias /\ u \in Upstream
  <2>1. synced[c] \in WantedRows /\ alias \in Alias
    BY <1>2 DEF CatalogueInv, Moving, TypeOK
  <2> QED BY <1>2, <2>1 DEF WantedRows, EntryRow
<1>4. uri \in Uri
  BY <1>2, <1>3, UriProperties
<1> DEFINE known == [Blank EXCEPT !.kind = "read", !.uri = uri, !.due = <<c, u>>]
<1>5. \/ Now(r, [known EXCEPT !.at = "byAlias"])
      \/ \E f \in resources : /\ f.uri = uri /\ f.conn = c
                              /\ Now(r, [known EXCEPT !.at = "routed", !.target = <<f.conn, f.up>>])
  BY <1>1a, <1>2 DEF Of
<1>6. <<c, u>> \in Source
  BY <1>3 DEF Source
<1>7. LET x == [known EXCEPT !.at = "byAlias"] IN x \in RequestRecord /\ Asked(x)
  <2> DEFINE d == <<c, u>>
             x == [Blank EXCEPT !.kind = "read", !.uri = uri, !.due = d, !.at = "byAlias"]
  <2>0. d \in Source /\ d = <<c, u>>
    BY <1>6
  <2> HIDE DEF d
  <2>1. x \in RequestRecord
    BY <1>4, <2>0 DEF Blank, RequestRecord, RequestAt, NoCursor, Kinds
  <2>2. x.at = "byAlias" /\ x.kind = "read" /\ x.lost = {} /\ x.due = d /\ x.uri = uri
    BY DEF Blank
  <2> HIDE DEF x
  <2>3. Asked(x)
    BY <1>2, <1>3, <2>0, <2>2 DEF Asked
  <2>4. x = [known EXCEPT !.at = "byAlias"]
    BY DEF x, d, Blank
  <2> QED BY <2>1, <2>3, <2>4
<1>8. ASSUME NEW f \in resources, f.uri = uri, f.conn = c
      PROVE  LET x == [known EXCEPT !.at = "routed", !.target = <<f.conn, f.up>>]
             IN x \in RequestRecord /\ Asked(x)
  <2>1. PICK a \in Alias : f.uri = GatewayUri(a, f.up)
    BY DEF CatalogueInv, Moving, Sourced
  <2>2. f.up \in Upstream
    BY DEF CatalogueInv, Moving, TypeOK, EntryRow
  <2>3. f.up = u
    <3>1. SplitUri(GatewayUri(a, f.up)).up = f.up
      BY <2>1, <2>2, UriProperties
    <3>2. SplitUri(GatewayUri(alias, u)).up = u
      BY <1>3, UriProperties
    <3> QED BY <1>2, <1>8, <2>1, <3>1, <3>2
  <2> DEFINE d == <<c, u>>
             x == [Blank EXCEPT !.kind = "read", !.uri = uri, !.due = d, !.at = "routed", !.target = d]
  <2>4. d \in Source /\ d = <<f.conn, f.up>>
    BY <1>6, <1>8, <2>3
  <2>5. x = [known EXCEPT !.at = "routed", !.target = <<f.conn, f.up>>]
    BY <2>4 DEF Blank
  <2> HIDE DEF d
  <2>6. x \in RequestRecord
    BY <1>4, <2>4 DEF Blank, RequestRecord, RequestAt, NoCursor, Kinds
  <2>7. x.at = "routed" /\ x.kind = "read" /\ x.lost = {} /\ x.due = d /\ x.target = d
    BY DEF Blank
  <2> HIDE DEF x
  <2>8. Asked(x)
    BY <2>4, <2>7 DEF Asked
  <2> QED BY <2>5, <2>6, <2>8
<1> QED BY <1>5, <1>7, <1>8 DEF Answers

LEMMA RouteByAliasAsks ==
  ASSUME CatalogueInv, RequestsInv, NEW r \in Request, RouteByAlias(r) PROVE Answers(r)
<1>0. PICK y : y = req[r]
  OBVIOUS
<1>1. y \in RequestRecord /\ Asked(y) /\ y.at = "byAlias" /\ y.kind = "read"
  BY <1>0 DEF RequestsInv, RouteByAlias, Is
<1>2. PICK c \in Conn, u \in Upstream, alias \in Alias : y.due = <<c, u>> /\ y.uri = GatewayUri(alias, u)
  BY <1>1 DEF Asked
<1>3. SplitUri(y.uri).alias = alias /\ SplitUri(y.uri).up = u
  BY <1>2, UriProperties
<1>4. StillNamed(r) <=> conn[c].exists /\ conn[c].alias = alias
  BY <1>0, <1>2, <1>3 DEF StillNamed
<1>5. PICK due, target :
        /\ Now(r, [y EXCEPT !.at = "routed", !.due = due, !.target = target])
        /\ due = (IF StillNamed(r) THEN y.due ELSE None)
        /\ \/ target = NotFound /\ Named(alias) = {}
           \/ \E d \in Named(alias) : target = <<d, u>>
  BY <1>0, <1>3 DEF RouteByAlias
<1>6. target \in Source \cup {NotFound}
  BY <1>5 DEF Named, Source
<1>7. due = None \/ (due = target /\ due \in Source)
  <2> SUFFICES ASSUME StillNamed(r) PROVE due = target /\ due \in Source
    BY <1>5
  <2>1. c \in Named(alias)
    BY <1>4 DEF Named
  <2>2. \A d \in Named(alias) : d = c
    BY <1>4 DEF Named, CatalogueInv, AliasesApart
  <2>3. target = <<c, u>>
    BY <1>5, <2>1, <2>2
  <2> QED BY <1>2, <1>5, <2>3 DEF Source
<1> DEFINE x == [y EXCEPT !.at = "routed", !.due = due, !.target = target]
<1>8. x \in RequestRecord
  BY <1>1, <1>6, <1>7 DEF RequestRecord, RequestAt
<1>9. x.at = "routed" /\ x.kind = "read" /\ x.due = due /\ x.target = target /\ x.lost = y.lost
  BY <1>1 DEF RequestRecord
<1>10. y.lost = {}
  BY <1>1 DEF Asked
<1> HIDE DEF x
<1>11. Asked(x)
  BY <1>6, <1>7, <1>9, <1>10 DEF Asked
<1> QED BY <1>5, <1>8, <1>11 DEF Answers, x

LEMMA FindPromptAsks ==
  ASSUME CatalogueInv, RequestsInv, NEW r \in Request, FindPrompt(r) PROVE Answers(r)
<1>1. \/ Now(r, Done("prompt"))
      \/ \E f \in prompts : Now(r, [Blank EXCEPT !.at = "routed", !.kind = "prompt",
                                                 !.target = <<f.conn, f.up>>])
  BY DEF FindPrompt
<1>2. ASSUME NEW f \in prompts
      PROVE  LET x == [Blank EXCEPT !.at = "routed", !.kind = "prompt", !.target = <<f.conn, f.up>>]
             IN x \in RequestRecord /\ Asked(x)
  <2> DEFINE d == <<f.conn, f.up>>
             x == [Blank EXCEPT !.at = "routed", !.kind = "prompt", !.target = d]
  <2>1. d \in Source
    BY DEF CatalogueInv, Moving, TypeOK, EntryRow, Source
  <2> HIDE DEF d
  <2>2. x \in RequestRecord
    BY <2>1 DEF Blank, RequestRecord, RequestAt, NoCursor, Kinds
  <2>3. x.at = "routed" /\ x.kind = "prompt" /\ x.target = d
    BY DEF Blank
  <2> HIDE DEF x
  <2>4. Asked(x)
    BY <2>1, <2>3 DEF Asked, Lists
  <2> QED BY <2>2, <2>4 DEF x, d
<1> QED BY <1>1, <1>2, DoneAsked DEF Answers, Kinds

LEMMA ServeAsks ==
  ASSUME CatalogueInv, RequestsInv, NEW r \in Request, Serve(r) PROVE Answers(r)
<1>0. PICK y : y = req[r]
  OBVIOUS
<1>1. y \in RequestRecord /\ Asked(y) /\ y.at = "routed" /\ y.kind \in {"read", "prompt"}
  BY <1>0 DEF RequestsInv, Serve, Is
<1> DEFINE served == y.target # NotFound /\ Visible(y.target[1])
           stillDue == y.due # None /\ StillNamed(r) /\ Visible(y.due[1])
           lost == IF stillDue /\ ~(served /\ y.target = y.due) THEN {y.due} ELSE {}
<1>2. Now(r, [Done(y.kind) EXCEPT !.lost = lost])
  BY <1>0 DEF Serve
<1>3. lost \in SUBSET Source
  BY <1>1 DEF RequestRecord
<1>4. y.kind = "read" => lost = {}
  <2> SUFFICES ASSUME y.kind = "read", stillDue PROVE served /\ y.target = y.due
    OBVIOUS
  <2>1. y.due = y.target /\ y.due \in Source
    BY <1>1 DEF Asked
  <2>2. y.due # NotFound
    BY <2>1 DEF Source, NotFound
  <2> QED BY <2>1, <2>2
<1> HIDE DEF lost
<1>5. y.kind \in Kinds /\ (y.kind \in Lists \cup {"read"} => lost = {})
  BY <1>1, <1>4 DEF Kinds, Lists
<1> DEFINE z == [Done(y.kind) EXCEPT !.lost = lost]
<1>6. z \in RequestRecord /\ Asked(z)
  BY <1>3, <1>5, DoneAsked
<1> HIDE DEF z
<1> QED BY <1>2, <1>6 DEF Answers, z

\* Each step of a request, and each of the catalogue, keeps what is asked for.
LEMMA RequestsKept == CatalogueInv /\ RequestsInv /\ [Next]_vars => RequestsInv'
<1> SUFFICES ASSUME CatalogueInv, RequestsInv, [Next]_vars PROVE RequestsInv'
  OBVIOUS
<1>1. ASSUME NEW r \in Request, RequestStep(r) PROVE RequestsInv'
  <2>1. Answers(r)
    BY <1>1, ListConnectionsAsks, ListRowsAsks, CallAsks, FindResourceAsks, RouteByAliasAsks,
       FindPromptAsks, ServeAsks DEF RequestStep
  <2>2. PICK x \in RequestRecord : Asked(x) /\ req' = [req EXCEPT ![r] = x]
    BY <2>1 DEF Answers, Now
  <2> QED BY <2>2 DEF RequestsInv
<1>2. CASE req' = req
  BY <1>2 DEF RequestsInv
<1> QED BY <1>1, <1>2 DEF Next, vars

\* Both invariants hold.
LEMMA RequestsAreWell == Spec => [](CatalogueInv /\ RequestsInv)
<1>1. HandlerInit => RequestsInv
  BY BlankAsked DEF HandlerInit, RequestsInv
<1>2. CatalogueInv /\ RequestsInv /\ [Next]_vars => RequestsInv'
  BY RequestsKept
<1> QED BY <1>1, <1>2, CatalogueIsWell, PTL DEF Spec

\* Every variable of the catalogue and of its requests has its type.
THEOREM HandlerTyped == Spec => []HandlerTypeOK
<1>1. CatalogueInv /\ RequestsInv => HandlerTypeOK
  BY DEF CatalogueInv, Moving, RequestsInv, HandlerTypeOK
<1> QED BY <1>1, RequestsAreWell, PTL

\* A client that asks for page after page is given every name that was listed
\* all the while, though rows come and go between two pages: what is left of it
\* comes after the cursor, in the order of the listing (listTools, listResources,
\* listPrompts, paginate).
THEOREM WalksAreWhole == Spec => []WalkMissesNothing
<1>1. RequestsInv => WalkMissesNothing
  BY DEF RequestsInv, Asked, WalkMissesNothing
<1> QED BY <1>1, RequestsAreWell, PTL

\* A resource that a connection has, by its alias, is read from that connection,
\* though its row is being rewritten when it is looked up: an alias leads to one
\* connection (readResource, routeByAlias).
THEOREM ReadsAreServed == Spec => []ReadableWhileRewritten
<1>1. RequestsInv => ReadableWhileRewritten
  BY DEF RequestsInv, Asked, ReadableWhileRewritten
<1> QED BY <1>1, RequestsAreWell, PTL

(***************************************************************************)
(* A request on its way through all of them                                *)
(***************************************************************************)

\* What holds of the four.
WayInv == CatalogueInv /\ RequestsInv /\ DoorInv /\ FInv /\ FreshInv

\* Every variable has its type in the four of them together, as the run that
\* composes them lets them take their steps (MCRequests).
THEOREM RequestsTyped == RequestsSpec => []RequestsTypeOK
<1>1. RequestsInit => WayInv
  <2> SUFFICES ASSUME RequestsInit PROVE WayInv
    OBVIOUS
  <2>1. HandlerInit /\ ChainInit /\ ProofInit /\ doorMix \in DoorMixes /\ DoorInit
    BY DEF RequestsInit
  <2>2. CatalogueInv /\ RequestsInv
    BY <2>1, BlankAsked, CatalogueInit DEF HandlerInit, RequestsInv
  <2>3. DoorInv
    BY <2>1, DoorAtFirst
  <2>4. FInv
    BY <2>1, FetchInitially
  <2>5. FreshInv
    BY <2>1, ProofTypeInit, FreshInit DEF FreshInv
  <2> QED BY <2>2, <2>3, <2>4, <2>5 DEF WayInv
<1>2. WayInv /\ [RequestsNext]_allVars => WayInv'
  <2> SUFFICES ASSUME WayInv, [RequestsNext]_allVars PROVE WayInv'
    OBVIOUS
  <2>1. CatalogueInv' /\ RequestsInv'
    <3>1. [Next]_vars
      BY DEF RequestsNext, allVars
    <3> QED BY <3>1, NextInCatalogue, CatalogueStep, RequestsKept DEF WayInv
  <2>2. DoorInv'
    <3>1. [DoorNext]_doorVars
      BY DEF RequestsNext, allVars
    <3> QED BY <3>1, DoorKept DEF WayInv
  <2>3. FInv'
    <3>1. [FetchNext]_fetchVars
      BY DEF RequestsNext, allVars
    <3> QED BY <3>1, FetchInductive DEF WayInv
  <2>4. FreshInv'
    <3>1. [ProofNext]_proofVars
      BY DEF RequestsNext, allVars
    <3> QED BY <3>1, FreshNext DEF WayInv
  <2> QED BY <2>1, <2>2, <2>3, <2>4 DEF WayInv
<1>3. WayInv => RequestsTypeOK
  <2> SUFFICES ASSUME WayInv PROVE RequestsTypeOK
    OBVIOUS
  <2>1. HandlerTypeOK
    BY DEF WayInv, CatalogueInv, Moving, RequestsInv, HandlerTypeOK
  <2>2. DoorTypeOK
    BY DoorIsTyped DEF WayInv
  <2>3. ChainTypeOK /\ ProofTypeOK
    BY DEF WayInv, FInv, FreshInv
  <2> QED BY <2>1, <2>2, <2>3 DEF RequestsTypeOK
<1> QED BY <1>1, <1>2, <1>3, PTL DEF RequestsSpec

=============================================================================
