-------------------------- MODULE AddressRegistry --------------------------
(***************************************************************************)
(* Which addresses may be dialled (connect/public/registry.rs): the        *)
(* special-purpose registries of IANA, of which the most specific entry    *)
(* decides, and the rule for addresses no entry speaks of.                 *)
(*                                                                         *)
(* An IPv4 address is a sequence of four octets, an IPv6 address one of    *)
(* eight segments.  An entry is its network and its prefix; of its three   *)
(* flags only whether all of them are true is kept.                        *)
(***************************************************************************)
EXTENDS Naturals, Sequences

IsV4(a) == Len(a) = 4
Width(a) == IF IsV4(a) THEN 8 ELSE 16

\* The size of what a prefix leaves open of the group in which it ends, by its bits there.
Unit(a, bits) ==
  IF IsV4(a) THEN <<128, 64, 32, 16, 8, 4, 2>>[bits]
  ELSE <<32768, 16384, 8192, 4096, 2048, 1024, 512, 256, 128, 64, 32, 16, 8, 4, 2>>[bits]

\* ipv4_in_prefix and ipv6_in_prefix.
InPrefix(a, network, prefix) ==
  LET whole == prefix \div Width(a)
      bits == prefix % Width(a)
  IN /\ Len(a) = Len(network)
     /\ \A i \in 1..whole : a[i] = network[i]
     /\ bits > 0 => a[whole + 1] \div Unit(a, bits) = network[whole + 1] \div Unit(a, bits)

\* The rows all of whose flags are true, and the others.
Ipv4Eligible ==
  {<<<<192, 0, 0, 9>>, 32>>, <<<<192, 0, 0, 10>>, 32>>, <<<<192, 31, 196, 0>>, 24>>,
   <<<<192, 52, 193, 0>>, 24>>, <<<<192, 175, 48, 0>>, 24>>}
Ipv4Ineligible ==
  {<<<<0, 0, 0, 0>>, 8>>, <<<<0, 0, 0, 0>>, 32>>, <<<<10, 0, 0, 0>>, 8>>, <<<<100, 64, 0, 0>>, 10>>,
   <<<<127, 0, 0, 0>>, 8>>, <<<<169, 254, 0, 0>>, 16>>, <<<<172, 16, 0, 0>>, 12>>,
   <<<<192, 0, 0, 0>>, 24>>, <<<<192, 0, 0, 0>>, 29>>, <<<<192, 0, 0, 8>>, 32>>,
   <<<<192, 0, 0, 170>>, 32>>, <<<<192, 0, 0, 171>>, 32>>, <<<<192, 0, 2, 0>>, 24>>,
   <<<<192, 88, 99, 0>>, 24>>, <<<<192, 88, 99, 2>>, 32>>, <<<<192, 168, 0, 0>>, 16>>,
   <<<<198, 18, 0, 0>>, 15>>, <<<<198, 51, 100, 0>>, 24>>, <<<<203, 0, 113, 0>>, 24>>,
   <<<<240, 0, 0, 0>>, 4>>, <<<<255, 255, 255, 255>>, 32>>}

V6(a, b, c, d) == <<a, b, c, d, 0, 0, 0, 0>>
Ipv6Eligible ==
  {<<V6(100, 65435, 0, 0), 96>>, <<V6(8193, 3, 0, 0), 32>>, <<V6(8193, 4, 274, 0), 48>>,
   <<V6(8193, 32, 0, 0), 28>>, <<V6(8193, 48, 0, 0), 28>>, <<V6(9760, 79, 32768, 0), 48>>}
    \cup {<<<<8193, 1, 0, 0, 0, 0, 0, i>>, 128>> : i \in 1..3}
Ipv6Ineligible ==
  {<<<<0, 0, 0, 0, 0, 0, 0, 1>>, 128>>, <<V6(0, 0, 0, 0), 128>>, <<<<0, 0, 0, 0, 0, 65535, 0, 0>>, 96>>,
   <<V6(100, 65435, 1, 0), 48>>, <<V6(256, 0, 0, 0), 64>>, <<V6(256, 0, 0, 1), 64>>,
   <<V6(8193, 0, 0, 0), 23>>, <<V6(8193, 0, 0, 0), 32>>, <<V6(8193, 2, 0, 0), 48>>,
   <<V6(8193, 16, 0, 0), 28>>, <<V6(8193, 3512, 0, 0), 32>>, <<V6(8194, 0, 0, 0), 16>>,
   <<V6(16383, 0, 0, 0), 20>>, <<V6(24320, 0, 0, 0), 16>>, <<V6(64512, 0, 0, 0), 7>>,
   <<V6(65152, 0, 0, 0), 10>>}

Eligible == Ipv4Eligible \cup Ipv6Eligible
Rows == Eligible \cup Ipv4Ineligible \cup Ipv6Ineligible

\* most_specific_v4 and most_specific_v6: a set of at most one row.
Matching(a) == {r \in Rows : InPrefix(a, r[1], r[2])}
MostSpecific(a) == {r \in Matching(a) : \A s \in Matching(a) : s[2] <= r[2]}

ipv4_is_global(a) ==
  /\ a[1] \notin 224..239 /\ a # <<255, 255, 255, 255>>
  /\ MostSpecific(a) \subseteq Eligible
ipv6_is_global(a) ==
  /\ a[1] < 65280 /\ ~InPrefix(a, <<0, 0, 0, 0, 0, 65535, 0, 0>>, 96)
  /\ MostSpecific(a) \subseteq Eligible
  /\ InPrefix(a, V6(8192, 0, 0, 0), 3) \/ MostSpecific(a) # {}

GloballyRoutable(a) == IF IsV4(a) THEN ipv4_is_global(a) ELSE ipv6_is_global(a)
=============================================================================
