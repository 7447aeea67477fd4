-------------------------------- MODULE Naming --------------------------------
(***************************************************************************)
(* Names the gateway gives to connections and to what they offer           *)
(* (packages/federation/src/naming.ts).                                    *)
(*                                                                         *)
(* A name is a tuple of naturals, compared as its text is.  An alias is    *)
(* <<label, n>>: the text a label was sanitised to, and the suffix that    *)
(* tells it from others of the label (0: none).  A tool name is            *)
(* <<label, n, segment, digest, attempt>>: Segment[u] is what the upstream *)
(* name u is normalised and truncated to, digest is u itself, its hash.    *)
(***************************************************************************)
EXTENDS Naturals, Sequences, FiniteSets

CONSTANTS
  Upstream,  \* names of upstream tools, resources and prompts, from 1
  Segment    \* [Upstream -> Nat]

ASSUME UpstreamAssumption == Upstream \subseteq Nat \ {0}
ASSUME SegmentAssumption == Segment \in [Upstream -> Nat]

\* Strings are compared by their first difference.
Before(m, n) ==
  \E i \in DOMAIN m : m[i] < n[i] /\ \A j \in 1..(i - 1) : m[j] = n[j]

Smallest(S) == CHOOSE n \in S : \A m \in S : n <= m

\* The alias asked for if it is free, else the label with the first free suffix.
DedupeAlias(label, taken) ==
  IF <<label, 0>> \notin taken THEN <<label, 0>>
  ELSE <<label, Smallest({n \in 2..999 : <<label, n>> \notin taken})>>

\* The plain name, or if it is taken one told apart by digest and counter.
GatewayToolName(alias, u, taken) ==
  LET base == alias \o <<Segment[u], 0, 0>>
      suffixed(attempt) == alias \o <<Segment[u], u, attempt>>
  IN IF base \notin taken THEN base
     ELSE suffixed(Smallest({a \in 0..Cardinality(taken) : suffixed(a) \notin taken}))

\* Resources and prompts keep their upstream name behind the alias.
GatewayUri(alias, u) == Append(alias, u)
SplitUri(uri) == [alias |-> SubSeq(uri, 1, 2), up |-> uri[3]]

\* The first of each upstream name, in the order of the list.
FirstOfEach(list) ==
  LET first == {i \in DOMAIN list : \A j \in 1..(i - 1) : list[j].up # list[i].up}
      rank(i) == Cardinality({j \in first : j <= i})
  IN [k \in 1..Cardinality(first) |-> list[CHOOSE i \in first : rank(i) = k]]

=============================================================================
