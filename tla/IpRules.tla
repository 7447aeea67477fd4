-------------------------------- MODULE IpRules --------------------------------
(***************************************************************************)
(* Where an address leads (packages/security/src/ip-rules.ts).  An IPv4    *)
(* address is its four octets, an IPv6 address its eight groups, as a URL  *)
(* parser or a resolver spells it, without zone, a dotted tail folded in.  *)
(***************************************************************************)
EXTENDS Integers, Sequences, SequencesExt

Dispositions == {"PUBLIC", "LOOPBACK", "PRIVATE", "LINK_LOCAL", "CLOUD_METADATA", "RESERVED"}

METADATA_ADDRESSES ==
  {<<169, 254, 169, 254>>, <<169, 254, 170, 2>>, <<100, 100, 100, 200>>,
   <<64768, 3778, 0, 0, 0, 0, 0, 596>>}

\* The octets begin with whole ones, and the next is in a range.
InCidr(octets, whole, low, high) ==
  IsPrefix(whole, octets) /\ octets[Len(whole) + 1] \in low .. high

Private4(o) ==
  \/ o[1] = 10 \/ InCidr(o, <<172>>, 16, 31) \/ IsPrefix(<<192, 168>>, o)
  \/ InCidr(o, <<100>>, 64, 127)
Reserved4(o) ==
  \/ o[1] = 0 \/ InCidr(o, <<198>>, 18, 19) \/ o[1] >= 224
  \/ \E p \in {<<192, 0, 0>>, <<192, 0, 2>>, <<192, 88, 99>>, <<198, 51, 100>>,
              <<203, 0, 113>>} : IsPrefix(p, o)

ClassifyIpv4(o) ==
  IF o \in METADATA_ADDRESSES THEN "CLOUD_METADATA"
  ELSE IF o[1] = 127 THEN "LOOPBACK"
  ELSE IF IsPrefix(<<169, 254>>, o) THEN "LINK_LOCAL"
  ELSE IF Private4(o) THEN "PRIVATE"
  ELSE IF Reserved4(o) THEN "RESERVED" ELSE "PUBLIC"

\* The IPv4 address in two groups.
EmbeddedIpv4(g, at) ==
  <<g[at] \div 256, g[at] % 256, g[at + 1] \div 256, g[at + 1] % 256>>
Zero(g, from, to) == \A i \in from .. to : g[i] = 0

\* IPv4-mapped, NAT64, 6to4 and the deprecated ::a.b.c.d
HeldIpv4(g) ==
  IF \/ Zero(g, 1, 5) /\ g[6] = 65535
     \/ g[1] = 100 /\ g[2] = 65435 /\ Zero(g, 3, 6)
     \/ Zero(g, 1, 6) /\ ~(g[7] = 0 /\ g[8] \in {0, 1})
  THEN {EmbeddedIpv4(g, 7)}
  ELSE IF g[1] = 8194 THEN {EmbeddedIpv4(g, 2)} ELSE {}

\* fc00::/7 and fec0::/10
Private6(g) == g[1] \in 64512 .. 65023 \/ g[1] \in 65216 .. 65279
\* ff00::/8, 100::/64, Teredo, documentation and ORCHID, 3fff::/20, 5f00::/16
Reserved6(g) ==
  \/ g[1] >= 65280 \/ (g[1] = 256 /\ Zero(g, 2, 4))
  \/ g[1] = 8193 /\ (g[2] \in {0, 3512} \/ g[2] \in 16 .. 47)
  \/ g[1] \in 16368 .. 16383 \/ g[1] = 24320

ClassifyIpv6(g) ==
  IF g \in METADATA_ADDRESSES THEN "CLOUD_METADATA"
  ELSE IF HeldIpv4(g) # {} THEN ClassifyIpv4(CHOOSE o \in HeldIpv4(g) : TRUE)
  ELSE IF Zero(g, 1, 7) THEN IF g[8] = 1 THEN "LOOPBACK" ELSE "RESERVED"
  ELSE IF Private6(g) THEN "PRIVATE"
  ELSE IF g[1] \in 65152 .. 65215 THEN "LINK_LOCAL" \* fe80::/10
  ELSE IF Reserved6(g) THEN "RESERVED" ELSE "PUBLIC"

\* The IPv6 addresses by which a host or a translator reaches an IPv4 address:
\* ::ffff:a.b.c.d, ::a.b.c.d, 64:ff9b::a.b.c.d and 2002:ab.cd::/48.
Spellings(o) ==
  LET high == o[1] * 256 + o[2]
      low == o[3] * 256 + o[4]
  IN {<<0, 0, 0, 0, 0, 65535, high, low>>, <<0, 0, 0, 0, 0, 0, high, low>>,
      <<100, 65435, 0, 0, 0, 0, high, low>>, <<8194, high, low, 0, 0, 0, 0, 1>>}

ClassifyAddress(a) == IF Len(a) = 4 THEN ClassifyIpv4(a) ELSE ClassifyIpv6(a)

=============================================================================
