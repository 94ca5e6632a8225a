-------------------------- MODULE ConnectionProofs --------------------------
(***************************************************************************)
(* What is proved of the connections to the outside.  Of PublicDial: for   *)
(* every address there is, any number of calls, any number of answers and  *)
(* any budget of permits, a call dials only what was judged and what is    *)
(* public, says truly how it ended and gives its permit back.  Of Tunnel:  *)
(* for links and buffers of any size and any number of bytes, what comes   *)
(* out on either side is what went in on the other.                        *)
(***************************************************************************)
EXTENDS Connections, Integers, FiniteSetTheorems, SequenceTheorems, TLAPS

-----------------------------------------------------------------------------
(* The registries.  A row speaks of an address if the groups its prefix    *)
(* covers agree.                                                           *)

LEMMA Whole ==
  ASSUME NEW a \in Ipv4Addresses, NEW n \in Ipv4Addresses
  PROVE  /\ InPrefix(a, n, 8) <=> a[1] = n[1]
         /\ InPrefix(a, n, 16) <=> a[1] = n[1] /\ a[2] = n[2]
         /\ InPrefix(a, n, 24) <=> a[1] = n[1] /\ a[2] = n[2] /\ a[3] = n[3]
         /\ InPrefix(a, n, 32) <=> a[1] = n[1] /\ a[2] = n[2] /\ a[3] = n[3] /\ a[4] = n[4]
<1>1. Width(a) = 8 /\ Len(a) = Len(n)
  <2>1. Len(a) = 4
    BY DEF Ipv4Addresses, Octets
  <2>2. Len(n) = 4
    BY DEF Ipv4Addresses, Octets
  <2>3. QED
    BY <2>1, <2>2 DEF Width, IsV4
<1>2. /\ 8 \div 8 = 1 /\ 16 \div 8 = 2 /\ 24 \div 8 = 3 /\ 32 \div 8 = 4
      /\ 8 % 8 = 0 /\ 16 % 8 = 0 /\ 24 % 8 = 0 /\ 32 % 8 = 0
  OBVIOUS
<1>3. /\ 1..1 = {1} /\ 1..2 = {1, 2} /\ 1..3 = {1, 2, 3} /\ 1..4 = {1, 2, 3, 4}
  OBVIOUS
<1>4. QED
  BY <1>1, <1>2, <1>3 DEF InPrefix

LEMMA Partial ==
  ASSUME NEW a \in Ipv4Addresses
  PROVE  /\ InPrefix(a, <<100, 64, 0, 0>>, 10) <=> a[1] = 100 /\ a[2] \in 64..127
         /\ InPrefix(a, <<172, 16, 0, 0>>, 12) <=> a[1] = 172 /\ a[2] \in 16..31
         /\ InPrefix(a, <<198, 18, 0, 0>>, 15) <=> a[1] = 198 /\ a[2] \in 18..19
         /\ InPrefix(a, <<240, 0, 0, 0>>, 4) <=> a[1] \in 240..255
         /\ InPrefix(a, <<192, 0, 0, 0>>, 29) => a[1] = 192 /\ a[2] = 0
<1>1. Width(a) = 8 /\ IsV4(a) /\ Len(a) = 4 /\ a[1] \in 0..255 /\ a[2] \in 0..255
  BY DEF Width, IsV4, Ipv4Addresses, Octets
<1>2. /\ 10 \div 8 = 1 /\ 12 \div 8 = 1 /\ 15 \div 8 = 1 /\ 4 \div 8 = 0
      /\ 10 % 8 = 2 /\ 12 % 8 = 4 /\ 15 % 8 = 7 /\ 4 % 8 = 4
  OBVIOUS
<1>3. 1..1 = {1} /\ 1..0 = {}
  OBVIOUS
<1>4. Unit(a, 2) = 64 /\ Unit(a, 4) = 16 /\ Unit(a, 7) = 2
  BY <1>1 DEF Unit
<1>5. /\ a[2] \div 64 = 64 \div 64 <=> a[2] \in 64..127
      /\ a[2] \div 16 = 16 \div 16 <=> a[2] \in 16..31
      /\ a[2] \div 2 = 18 \div 2 <=> a[2] \in 18..19
      /\ a[1] \div 16 = 240 \div 16 <=> a[1] \in 240..255
  BY <1>1
<1>6. InPrefix(a, <<100, 64, 0, 0>>, 10) <=> a[1] = 100 /\ a[2] \div 64 = 64 \div 64
  BY <1>1, <1>2, <1>3, <1>4 DEF InPrefix
<1>7. InPrefix(a, <<172, 16, 0, 0>>, 12) <=> a[1] = 172 /\ a[2] \div 16 = 16 \div 16
  BY <1>1, <1>2, <1>3, <1>4 DEF InPrefix
<1>8. InPrefix(a, <<198, 18, 0, 0>>, 15) <=> a[1] = 198 /\ a[2] \div 2 = 18 \div 2
  BY <1>1, <1>2, <1>3, <1>4 DEF InPrefix
<1>9. InPrefix(a, <<240, 0, 0, 0>>, 4) <=> a[1] \div 16 = 240 \div 16
  BY <1>1, <1>2, <1>3, <1>4 DEF InPrefix
<1>10. InPrefix(a, <<192, 0, 0, 0>>, 29) => a[1] = 192 /\ a[2] = 0
  <2>1. 29 \div 8 = 3 /\ 1..3 = {1, 2, 3}
    OBVIOUS
  <2>2. QED
    BY <1>1, <2>1 DEF InPrefix
<1>11. QED
  BY <1>5, <1>6, <1>7, <1>8, <1>9, <1>10

\* The rows of the registry of IPv4, each with what it says of an address.
LEMMA RowsOfIpv4 ==
  ASSUME NEW a \in Ipv4Addresses, NEW r \in Rows, InPrefix(a, r[1], r[2])
  PROVE  \/ a[1] = 0 /\ r = <<<<0, 0, 0, 0>>, 8>>
         \/ a = <<0, 0, 0, 0>> /\ r = <<<<0, 0, 0, 0>>, 32>>
         \/ a[1] = 10 /\ r = <<<<10, 0, 0, 0>>, 8>>
         \/ a[1] = 100 /\ a[2] \in 64..127 /\ r = <<<<100, 64, 0, 0>>, 10>>
         \/ a[1] = 127 /\ r = <<<<127, 0, 0, 0>>, 8>>
         \/ a[1] = 169 /\ a[2] = 254 /\ r = <<<<169, 254, 0, 0>>, 16>>
         \/ a[1] = 172 /\ a[2] \in 16..31 /\ r = <<<<172, 16, 0, 0>>, 12>>
         \/ a[1] = 192 /\ a[2] = 168 /\ r = <<<<192, 168, 0, 0>>, 16>>
         \/ a[1] = 192 /\ a[2] # 168
         \/ a[1] = 198 /\ a[2] \in 18..19 /\ r = <<<<198, 18, 0, 0>>, 15>>
         \/ a[1] = 198 /\ a[2] = 51
         \/ a[1] = 203
         \/ a[1] \in 240..255 /\ r = <<<<240, 0, 0, 0>>, 4>>
         \/ a = <<255, 255, 255, 255>>
<1>1. CASE r \in Ipv4Eligible
  BY <1>1, Whole DEF Ipv4Eligible, Ipv4Addresses, Octets
<1>2. CASE r \in Ipv4Ineligible
  <2>1. CASE r[1][1] = 192
    <3>1. r[2] = 29 => r[1] = <<192, 0, 0, 0>>
      BY <1>2, <2>1 DEF Ipv4Ineligible
    <3>2. r[1] \in Ipv4Addresses /\ r[2] \in {16, 24, 29, 32}
      BY <1>2, <2>1 DEF Ipv4Ineligible, Ipv4Addresses, Octets
    <3>3. r[1][2] = 168 => r = <<<<192, 168, 0, 0>>, 16>>
      BY <1>2, <2>1 DEF Ipv4Ineligible
    <3>4. a[1] = 192 /\ a[2] = r[1][2]
      BY <2>1, <3>1, <3>2, Whole, Partial
    <3>5. QED
      BY <3>3, <3>4
  <2>2. CASE r[2] \in {4, 10, 12, 15}
    <3>1. r \in {<<<<100, 64, 0, 0>>, 10>>, <<<<172, 16, 0, 0>>, 12>>, <<<<198, 18, 0, 0>>, 15>>, <<<<240, 0, 0, 0>>, 4>>}
      BY <1>2, <2>2 DEF Ipv4Ineligible
    <3>2. QED
      BY <3>1, Partial
  <2>3. CASE r[1][1] # 192 /\ r[2] \notin {4, 10, 12, 15}
    <3>1. r \in {<<<<0, 0, 0, 0>>, 8>>, <<<<0, 0, 0, 0>>, 32>>, <<<<10, 0, 0, 0>>, 8>>, <<<<127, 0, 0, 0>>, 8>>,
                <<<<169, 254, 0, 0>>, 16>>, <<<<198, 51, 100, 0>>, 24>>, <<<<203, 0, 113, 0>>, 24>>,
                <<<<255, 255, 255, 255>>, 32>>}
      BY <1>2, <2>3 DEF Ipv4Ineligible
    <3>2. r[1] \in Ipv4Addresses
      BY <3>1 DEF Ipv4Addresses, Octets
    <3>3. QED
      BY <3>1, <3>2, Whole DEF Ipv4Addresses, Octets
  <2>4. QED
    BY <2>1, <2>2, <2>3
<1>3. CASE r \in Ipv6Eligible \cup Ipv6Ineligible
  <2>1. Len(r[1]) = 8
    BY <1>3 DEF Ipv6Eligible, Ipv6Ineligible, V6
  <2>2. Len(a) = 4
    BY DEF Ipv4Addresses, Octets
  <2>3. QED
    BY <2>1, <2>2 DEF InPrefix
<1>4. QED
  BY <1>1, <1>2, <1>3 DEF Rows, Eligible

\* The row that decides, if it is none of those that may be dialled.
LEMMA Decides ==
  ASSUME NEW a, NEW r \in Rows, InPrefix(a, r[1], r[2]), r \notin Eligible,
         \A s \in Rows : InPrefix(a, s[1], s[2]) => s[2] <= r[2]
  PROVE  ~(MostSpecific(a) \subseteq Eligible)
BY DEF MostSpecific, Matching

LEMMA Ordered ==
  ASSUME NEW n \in {4, 8}, NEW a \in [1..n -> Nat], NEW b \in [1..n -> Nat], AtMost(a, b)
  PROVE  a[1] <= b[1] /\ (a[1] = b[1] => a[2] <= b[2])
<1>1. DOMAIN a = 1..n
  OBVIOUS
<1>2. CASE a = b
  BY <1>2
<1>3. CASE a # b
  <2>1. PICK i \in 1..n : a[i] < b[i] /\ \A j \in 1..i - 1 : a[j] = b[j]
    BY <1>1, <1>3 DEF AtMost
  <2>2. CASE i = 1
    BY <2>1, <2>2
  <2>3. CASE i = 2
    BY <2>1, <2>3
  <2>4. CASE i > 2
    BY <2>1, <2>4
  <2>5. QED
    BY <2>2, <2>3, <2>4
<1>4. QED
  BY <1>2, <1>3

LEMMA Bounded ==
  ASSUME NEW n \in {4, 8}, NEW a, NEW first \in [1..n -> Nat], NEW last \in [1..n -> Nat],
         NEW m \in {4, 8}, a \in [1..m -> Nat], Between(first, a, last)
  PROVE  /\ n = m
         /\ a[1] \in first[1]..last[1]
         /\ first[1] = last[1] => a[2] \in first[2]..last[2]
<1>1. Len(a) = m /\ Len(first) = n
  OBVIOUS
<1>2. n = m
  BY <1>1 DEF Between
<1>3. AtMost(first, a) /\ AtMost(a, last)
  BY DEF Between
<1>4. first[1] <= a[1] /\ (first[1] = a[1] => first[2] <= a[2])
  BY <1>2, <1>3, Ordered
<1>5. a[1] <= last[1] /\ (a[1] = last[1] => a[2] <= last[2])
  BY <1>2, <1>3, Ordered
<1>6. a[1] \in Nat /\ a[2] \in Nat /\ first[1] \in Nat /\ last[1] \in Nat /\ first[2] \in Nat /\ last[2] \in Nat
  OBVIOUS
<1>7. QED
  BY <1>2, <1>4, <1>5, <1>6

\* A reserved range as its first groups tell it.
LEMMA ReservedIpv4 ==
  ASSUME NEW a \in Ipv4Addresses, Reserved(a)
  PROVE  \/ a[1] \in {0, 10, 127} \cup 224..255
         \/ a[1] = 100 /\ a[2] \in 64..127
         \/ a[1] = 169 /\ a[2] = 254
         \/ a[1] = 172 /\ a[2] \in 16..31
         \/ a[1] = 192 /\ a[2] = 168
         \/ a[1] = 198 /\ a[2] \in 18..19
<1>1. a \in [1..4 -> Nat]
  BY DEF Ipv4Addresses, Octets
<1>2. ASSUME NEW first \in [1..4 -> Nat], NEW last \in [1..4 -> Nat], Between(first, a, last)
      PROVE  a[1] \in first[1]..last[1] /\ (first[1] = last[1] => a[2] \in first[2]..last[2])
  BY <1>1, <1>2, Bounded
<1>3. ASSUME NEW f8 \in [1..8 -> Nat], NEW l8 \in [1..8 -> Nat], Between(f8, a, l8)
      PROVE  FALSE
  BY <1>1, <1>3, Bounded
<1>4. /\ V6(0, 0, 0, 0) \in [1..8 -> Nat] /\ V6(16384, 0, 0, 0) \in [1..8 -> Nat]
      /\ <<100, 65434, 65535, 65535, 65535, 65535, 65535, 65535>> \in [1..8 -> Nat]
      /\ <<65535, 65535, 65535, 65535, 65535, 65535, 65535, 65535>> \in [1..8 -> Nat]
  BY DEF V6
<1>5. Between(<<0, 0, 0, 0>>, a, <<0, 255, 255, 255>>) => a[1] = 0
  <2>1. <<0, 0, 0, 0>> \in [1..4 -> Nat] /\ <<0, 255, 255, 255>> \in [1..4 -> Nat]
    OBVIOUS
  <2>2. QED
    BY <1>2, <2>1
<1>6. Between(<<10, 0, 0, 0>>, a, <<10, 255, 255, 255>>) => a[1] = 10
  <2>1. <<10, 0, 0, 0>> \in [1..4 -> Nat] /\ <<10, 255, 255, 255>> \in [1..4 -> Nat]
    OBVIOUS
  <2>2. QED
    BY <1>2, <2>1
<1>7. Between(<<100, 64, 0, 0>>, a, <<100, 127, 255, 255>>) => a[1] = 100 /\ a[2] \in 64..127
  <2>1. <<100, 64, 0, 0>> \in [1..4 -> Nat] /\ <<100, 127, 255, 255>> \in [1..4 -> Nat]
    OBVIOUS
  <2>2. QED
    BY <1>2, <2>1
<1>8. Between(<<127, 0, 0, 0>>, a, <<127, 255, 255, 255>>) => a[1] = 127
  <2>1. <<127, 0, 0, 0>> \in [1..4 -> Nat] /\ <<127, 255, 255, 255>> \in [1..4 -> Nat]
    OBVIOUS
  <2>2. QED
    BY <1>2, <2>1
<1>9. Between(<<169, 254, 0, 0>>, a, <<169, 254, 255, 255>>) => a[1] = 169 /\ a[2] = 254
  <2>1. <<169, 254, 0, 0>> \in [1..4 -> Nat] /\ <<169, 254, 255, 255>> \in [1..4 -> Nat]
    OBVIOUS
  <2>2. QED
    BY <1>2, <2>1
<1>10. Between(<<172, 16, 0, 0>>, a, <<172, 31, 255, 255>>) => a[1] = 172 /\ a[2] \in 16..31
  <2>1. <<172, 16, 0, 0>> \in [1..4 -> Nat] /\ <<172, 31, 255, 255>> \in [1..4 -> Nat]
    OBVIOUS
  <2>2. QED
    BY <1>2, <2>1
<1>11. Between(<<192, 168, 0, 0>>, a, <<192, 168, 255, 255>>) => a[1] = 192 /\ a[2] = 168
  <2>1. <<192, 168, 0, 0>> \in [1..4 -> Nat] /\ <<192, 168, 255, 255>> \in [1..4 -> Nat]
    OBVIOUS
  <2>2. QED
    BY <1>2, <2>1
<1>12. Between(<<198, 18, 0, 0>>, a, <<198, 19, 255, 255>>) => a[1] = 198 /\ a[2] \in 18..19
  <2>1. <<198, 18, 0, 0>> \in [1..4 -> Nat] /\ <<198, 19, 255, 255>> \in [1..4 -> Nat]
    OBVIOUS
  <2>2. QED
    BY <1>2, <2>1
<1>13. Between(<<224, 0, 0, 0>>, a, <<255, 255, 255, 255>>) => a[1] \in 224..255
  <2>1. <<224, 0, 0, 0>> \in [1..4 -> Nat] /\ <<255, 255, 255, 255>> \in [1..4 -> Nat]
    OBVIOUS
  <2>2. QED
    BY <1>2, <2>1
<1>14. /\ ~Between(V6(0, 0, 0, 0), a, <<100, 65434, 65535, 65535, 65535, 65535, 65535, 65535>>)
      /\ ~Between(V6(16384, 0, 0, 0), a, <<65535, 65535, 65535, 65535, 65535, 65535, 65535, 65535>>)
  BY <1>3, <1>4
<1>15. QED
  BY <1>5, <1>6, <1>7, <1>8, <1>9, <1>10, <1>11, <1>12, <1>13, <1>14 DEF Reserved

LEMMA NoneReservedV4 ==
  ASSUME NEW a \in Ipv4Addresses, Reserved(a)
  PROVE  ~GloballyRoutable(a)
<1>0. IsV4(a) /\ a \in [1..4 -> Octets]
  BY DEF IsV4, Ipv4Addresses, Octets
<1> SUFFICES ~ipv4_is_global(a)
  BY <1>0 DEF GloballyRoutable
<1>1. ASSUME NEW r \in Ipv4Ineligible, InPrefix(a, r[1], r[2]), r \notin Ipv4Eligible,
             \A s \in Rows : InPrefix(a, s[1], s[2]) => s[2] <= r[2]
      PROVE  ~ipv4_is_global(a)
  <2>1. Len(r[1]) = 4
    BY DEF Ipv4Ineligible
  <2>2. r \notin Ipv6Eligible
    BY <2>1 DEF Ipv6Eligible, V6
  <2>3. QED
    BY <1>1, <2>2, Decides DEF Rows, Eligible, ipv4_is_global
<1>2. CASE a[1] = 0
  <2>1. CASE a = <<0, 0, 0, 0>>
    <3> DEFINE r == <<<<0, 0, 0, 0>>, 32>>
    <3>1. InPrefix(a, r[1], r[2])
      BY <2>1, Whole
    <3>2. \A s \in Rows : InPrefix(a, s[1], s[2]) => s[2] <= r[2]
      BY <2>1, RowsOfIpv4
    <3>3. r \in Ipv4Ineligible /\ r \notin Ipv4Eligible
      BY DEF Ipv4Ineligible, Ipv4Eligible
    <3> HIDE DEF r
    <3>4. QED
      BY <1>1, <3>1, <3>2, <3>3
  <2>2. CASE a # <<0, 0, 0, 0>>
    <3> DEFINE r == <<<<0, 0, 0, 0>>, 8>>
    <3>1. InPrefix(a, r[1], r[2])
      BY <1>2, Whole DEF Ipv4Addresses, Octets
    <3>2. \A s \in Rows : InPrefix(a, s[1], s[2]) => s[2] <= r[2]
      BY <1>2, <2>2, RowsOfIpv4
    <3>3. r \in Ipv4Ineligible /\ r \notin Ipv4Eligible
      BY DEF Ipv4Ineligible, Ipv4Eligible
    <3> HIDE DEF r
    <3>4. QED
      BY <1>1, <3>1, <3>2, <3>3
  <2>3. QED
    BY <2>1, <2>2
<1>3. CASE a[1] = 10
  <2> DEFINE r == <<<<10, 0, 0, 0>>, 8>>
  <2>1. InPrefix(a, r[1], r[2])
    BY <1>3, Whole DEF Ipv4Addresses, Octets
  <2>2. \A s \in Rows : InPrefix(a, s[1], s[2]) => s[2] <= r[2]
    BY <1>3, RowsOfIpv4
  <2>3. r \in Ipv4Ineligible /\ r \notin Ipv4Eligible
    BY DEF Ipv4Ineligible, Ipv4Eligible
  <2> HIDE DEF r
  <2>4. QED
    BY <1>1, <2>1, <2>2, <2>3
<1>4. CASE a[1] = 127
  <2> DEFINE r == <<<<127, 0, 0, 0>>, 8>>
  <2>1. InPrefix(a, r[1], r[2])
    BY <1>4, Whole DEF Ipv4Addresses, Octets
  <2>2. \A s \in Rows : InPrefix(a, s[1], s[2]) => s[2] <= r[2]
    BY <1>4, RowsOfIpv4
  <2>3. r \in Ipv4Ineligible /\ r \notin Ipv4Eligible
    BY DEF Ipv4Ineligible, Ipv4Eligible
  <2> HIDE DEF r
  <2>4. QED
    BY <1>1, <2>1, <2>2, <2>3
<1>5. CASE a[1] = 100 /\ a[2] \in 64..127
  <2> DEFINE r == <<<<100, 64, 0, 0>>, 10>>
  <2>1. InPrefix(a, r[1], r[2])
    BY <1>5, Partial DEF Ipv4Addresses, Octets
  <2>2. \A s \in Rows : InPrefix(a, s[1], s[2]) => s[2] <= r[2]
    BY <1>5, RowsOfIpv4
  <2>3. r \in Ipv4Ineligible /\ r \notin Ipv4Eligible
    BY DEF Ipv4Ineligible, Ipv4Eligible
  <2> HIDE DEF r
  <2>4. QED
    BY <1>1, <2>1, <2>2, <2>3
<1>6. CASE a[1] = 169 /\ a[2] = 254
  <2> DEFINE r == <<<<169, 254, 0, 0>>, 16>>
  <2>1. InPrefix(a, r[1], r[2])
    BY <1>6, Whole DEF Ipv4Addresses, Octets
  <2>2. \A s \in Rows : InPrefix(a, s[1], s[2]) => s[2] <= r[2]
    BY <1>6, RowsOfIpv4
  <2>3. r \in Ipv4Ineligible /\ r \notin Ipv4Eligible
    BY DEF Ipv4Ineligible, Ipv4Eligible
  <2> HIDE DEF r
  <2>4. QED
    BY <1>1, <2>1, <2>2, <2>3
<1>7. CASE a[1] = 172 /\ a[2] \in 16..31
  <2> DEFINE r == <<<<172, 16, 0, 0>>, 12>>
  <2>1. InPrefix(a, r[1], r[2])
    BY <1>7, Partial DEF Ipv4Addresses, Octets
  <2>2. \A s \in Rows : InPrefix(a, s[1], s[2]) => s[2] <= r[2]
    BY <1>7, RowsOfIpv4
  <2>3. r \in Ipv4Ineligible /\ r \notin Ipv4Eligible
    BY DEF Ipv4Ineligible, Ipv4Eligible
  <2> HIDE DEF r
  <2>4. QED
    BY <1>1, <2>1, <2>2, <2>3
<1>8. CASE a[1] = 192 /\ a[2] = 168
  <2> DEFINE r == <<<<192, 168, 0, 0>>, 16>>
  <2>1. InPrefix(a, r[1], r[2])
    BY <1>8, Whole DEF Ipv4Addresses, Octets
  <2>2. \A s \in Rows : InPrefix(a, s[1], s[2]) => s[2] <= r[2]
    BY <1>8, RowsOfIpv4
  <2>3. r \in Ipv4Ineligible /\ r \notin Ipv4Eligible
    BY DEF Ipv4Ineligible, Ipv4Eligible
  <2> HIDE DEF r
  <2>4. QED
    BY <1>1, <2>1, <2>2, <2>3
<1>9. CASE a[1] = 198 /\ a[2] \in 18..19
  <2> DEFINE r == <<<<198, 18, 0, 0>>, 15>>
  <2>1. InPrefix(a, r[1], r[2])
    BY <1>9, Partial DEF Ipv4Addresses, Octets
  <2>2. \A s \in Rows : InPrefix(a, s[1], s[2]) => s[2] <= r[2]
    BY <1>9, RowsOfIpv4
  <2>3. r \in Ipv4Ineligible /\ r \notin Ipv4Eligible
    BY DEF Ipv4Ineligible, Ipv4Eligible
  <2> HIDE DEF r
  <2>4. QED
    BY <1>1, <2>1, <2>2, <2>3
<1>10. CASE a[1] \in 240..255 /\ a # <<255, 255, 255, 255>>
  <2> DEFINE r == <<<<240, 0, 0, 0>>, 4>>
  <2>1. InPrefix(a, r[1], r[2])
    BY <1>10, Partial DEF Ipv4Addresses, Octets
  <2>2. \A s \in Rows : InPrefix(a, s[1], s[2]) => s[2] <= r[2]
    BY <1>10, RowsOfIpv4
  <2>3. r \in Ipv4Ineligible /\ r \notin Ipv4Eligible
    BY DEF Ipv4Ineligible, Ipv4Eligible
  <2> HIDE DEF r
  <2>4. QED
    BY <1>1, <2>1, <2>2, <2>3
<1>11. CASE a[1] \in 224..239 \/ a = <<255, 255, 255, 255>>
  <2>1. CASE a = <<255, 255, 255, 255>>
    BY <2>1 DEF ipv4_is_global
  <2>2. CASE a[1] \in 224..239
    BY <2>2 DEF ipv4_is_global
  <2>3. QED
    BY <1>11, <2>1, <2>2
<1>12. a[1] \in 224..255 => a[1] \in 224..239 \/ a[1] \in 240..255
  BY <1>0
<1>13. a[1] \in {0, 10, 127} \cup 224..255 => ~ipv4_is_global(a)
  BY <1>2, <1>3, <1>4, <1>10, <1>11, <1>12
<1>14. QED
  BY <1>5, <1>6, <1>7, <1>8, <1>9, <1>13, ReservedIpv4

LEMMA Covered ==
  ASSUME NEW a \in Ipv6Addresses, NEW n \in Ipv6Addresses,
         NEW p \in {16, 20, 23, 28, 32, 48, 64, 96, 128}, InPrefix(a, n, p)
  PROVE  /\ a[1] = n[1]
         /\ p >= 28 => a[2] \div 16 = n[2] \div 16
         /\ p >= 32 => a[2] = n[2]
         /\ p >= 96 => \A i \in 1..6 : a[i] = n[i]
         /\ p = 128 => a = n
<1>1. Len(a) = 8 /\ Width(a) = 16 /\ ~IsV4(a)
  <2>1. Len(a) = 8
    BY DEF Ipv6Addresses
  <2>2. QED
    BY <2>1 DEF Width, IsV4
<1>2. /\ \A i \in 1..p \div 16 : a[i] = n[i]
      /\ p % 16 > 0 => a[p \div 16 + 1] \div Unit(a, p % 16) = n[p \div 16 + 1] \div Unit(a, p % 16)
  BY <1>1 DEF InPrefix
<1>3. p \div 16 >= 1 /\ (p >= 32 => p \div 16 >= 2) /\ (p >= 96 => p \div 16 >= 6) /\ (p = 128 => p \div 16 = 8)
  OBVIOUS
<1>4. /\ a[1] = n[1]
      /\ p >= 32 => a[2] = n[2]
      /\ p >= 96 => \A i \in 1..6 : a[i] = n[i]
  BY <1>2, <1>3
<1>5. p = 128 => a = n
  BY <1>2, <1>3 DEF Ipv6Addresses
<1>6. p >= 28 => a[2] \div 16 = n[2] \div 16
  <2>1. CASE p = 28
    <3>1. 28 \div 16 = 1 /\ 28 % 16 = 12 /\ Unit(a, 12) = 16
      BY <1>1 DEF Unit
    <3>2. QED
      BY <1>2, <2>1, <3>1
  <2>2. QED
    BY <1>4, <2>1
<1>7. QED
  BY <1>4, <1>5, <1>6

LEMMA Segment3 ==
  ASSUME NEW a \in Ipv6Addresses
  PROVE  InPrefix(a, V6(8192, 0, 0, 0), 3) <=> InAssigned(a[1])
<1>1. Len(a) = 8 /\ a[1] \in Nat
  <2>1. Len(a) = 8 /\ a[1] \in Segments
    BY DEF Ipv6Addresses
  <2>2. QED
    BY <2>1 DEF Segments
<1>2. Width(a) = 16 /\ ~IsV4(a) /\ Len(V6(8192, 0, 0, 0)) = Len(a) /\ V6(8192, 0, 0, 0)[1] = 8192
  BY <1>1 DEF Width, IsV4, V6
<1>3. 3 \div 16 = 0 /\ 3 % 16 = 3 /\ 1..0 = {} /\ Unit(a, 3) = 8192
  BY <1>2 DEF Unit
<1>4. a[1] \div 8192 = 8192 \div 8192 <=> InAssigned(a[1])
  BY <1>1 DEF InAssigned
<1>5. QED
  BY <1>2, <1>3, <1>4 DEF InPrefix

\* What may be dialled of IPv6 lies in the block that is assigned or is translated.
LEMMA DialledIpv6 ==
  ASSUME NEW a \in Ipv6Addresses, GloballyRoutable(a)
  PROVE  InAssigned(a[1]) \/ SubSeq(a, 1, 6) = <<100, 65435, 0, 0, 0, 0>>
<1>1. Len(a) = 8 /\ a \in [1..8 -> Segments]
  BY DEF Ipv6Addresses
<1>2. ipv6_is_global(a)
  BY <1>1 DEF GloballyRoutable, IsV4
<1>3. CASE InPrefix(a, V6(8192, 0, 0, 0), 3)
  BY <1>3, Segment3
<1>4. CASE MostSpecific(a) # {}
  <2>1. PICK r \in Eligible : InPrefix(a, r[1], r[2])
    BY <1>2, <1>4 DEF ipv6_is_global, MostSpecific, Matching
  <2>2. r \in Ipv6Eligible
    <3>1. r \in Ipv4Eligible => Len(r[1]) = 4
      BY DEF Ipv4Eligible
    <3>2. Len(r[1]) = 8
      BY <1>1, <2>1 DEF InPrefix
    <3>3. QED
      BY <2>1, <3>1, <3>2 DEF Eligible
  <2>3. r[1] \in Ipv6Addresses /\ r[2] \in {28, 32, 48, 96, 128}
    BY <2>2 DEF Ipv6Eligible, V6, Ipv6Addresses, Segments
  <2>4. CASE InAssigned(r[1][1])
    BY <2>1, <2>3, <2>4, Covered
  <2>5. CASE ~InAssigned(r[1][1])
    <3>1. r = <<V6(100, 65435, 0, 0), 96>>
      BY <2>2, <2>5 DEF Ipv6Eligible, V6, InAssigned
    <3>2. \A i \in 1..6 : a[i] = V6(100, 65435, 0, 0)[i]
      BY <2>1, <2>3, <3>1, Covered
    <3>3. a[1] = 100 /\ a[2] = 65435 /\ a[3] = 0 /\ a[4] = 0 /\ a[5] = 0 /\ a[6] = 0
      BY <3>2 DEF V6
    <3> DEFINE s == SubSeq(a, 1, 6)
    <3>4. s \in Seq(Segments) /\ Len(s) = 6 /\ \A i \in 1..6 : s[i] = a[i]
      <4>1. \A i \in 1..6 : a[i] \in Segments
        BY <1>1
      <4>2. QED
        BY <4>1, SubSeqProperties
    <3> HIDE DEF s
    <3>5. s = <<100, 65435, 0, 0, 0, 0>>
      BY <3>3, <3>4
    <3>6. QED
      BY <3>5 DEF s
  <2>6. QED
    BY <2>4, <2>5
<1>5. QED
  BY <1>2, <1>3, <1>4 DEF ipv6_is_global

\* Of IPv6 the reserved ranges are those below and above.
LEMMA ReservedIpv6 ==
  ASSUME NEW a \in Ipv6Addresses, Reserved(a)
  PROVE  a[1] < 100 \/ (a[1] = 100 /\ a[2] < 65435) \/ a[1] >= 16384
<1>1. a \in [1..8 -> Nat]
  BY DEF Ipv6Addresses, Segments
<1>2. ASSUME NEW first \in [1..8 -> Nat], NEW last \in [1..8 -> Nat], Between(first, a, last)
      PROVE  first[1] <= a[1] /\ a[1] <= last[1] /\ (a[1] = last[1] => a[2] <= last[2])
  <2>1. AtMost(first, a) /\ AtMost(a, last)
    BY <1>2 DEF Between
  <2>2. QED
    BY <1>1, <2>1, Ordered
<1>3. ASSUME NEW first \in [1..4 -> Nat], NEW last \in [1..4 -> Nat], Between(first, a, last)
      PROVE  FALSE
  BY <1>1, <1>3, Bounded
<1>4. a[1] \in Nat /\ a[2] \in Nat
  BY <1>1
<1>5. ~Between(<<0, 0, 0, 0>>, a, <<0, 255, 255, 255>>)
  <2>1. <<0, 0, 0, 0>> \in [1..4 -> Nat] /\ <<0, 255, 255, 255>> \in [1..4 -> Nat]
    OBVIOUS
  <2>2. QED
    BY <1>3, <2>1
<1>6. ~Between(<<10, 0, 0, 0>>, a, <<10, 255, 255, 255>>)
  <2>1. <<10, 0, 0, 0>> \in [1..4 -> Nat] /\ <<10, 255, 255, 255>> \in [1..4 -> Nat]
    OBVIOUS
  <2>2. QED
    BY <1>3, <2>1
<1>7. ~Between(<<100, 64, 0, 0>>, a, <<100, 127, 255, 255>>)
  <2>1. <<100, 64, 0, 0>> \in [1..4 -> Nat] /\ <<100, 127, 255, 255>> \in [1..4 -> Nat]
    OBVIOUS
  <2>2. QED
    BY <1>3, <2>1
<1>8. ~Between(<<127, 0, 0, 0>>, a, <<127, 255, 255, 255>>)
  <2>1. <<127, 0, 0, 0>> \in [1..4 -> Nat] /\ <<127, 255, 255, 255>> \in [1..4 -> Nat]
    OBVIOUS
  <2>2. QED
    BY <1>3, <2>1
<1>9. ~Between(<<169, 254, 0, 0>>, a, <<169, 254, 255, 255>>)
  <2>1. <<169, 254, 0, 0>> \in [1..4 -> Nat] /\ <<169, 254, 255, 255>> \in [1..4 -> Nat]
    OBVIOUS
  <2>2. QED
    BY <1>3, <2>1
<1>10. ~Between(<<172, 16, 0, 0>>, a, <<172, 31, 255, 255>>)
  <2>1. <<172, 16, 0, 0>> \in [1..4 -> Nat] /\ <<172, 31, 255, 255>> \in [1..4 -> Nat]
    OBVIOUS
  <2>2. QED
    BY <1>3, <2>1
<1>11. ~Between(<<192, 168, 0, 0>>, a, <<192, 168, 255, 255>>)
  <2>1. <<192, 168, 0, 0>> \in [1..4 -> Nat] /\ <<192, 168, 255, 255>> \in [1..4 -> Nat]
    OBVIOUS
  <2>2. QED
    BY <1>3, <2>1
<1>12. ~Between(<<198, 18, 0, 0>>, a, <<198, 19, 255, 255>>)
  <2>1. <<198, 18, 0, 0>> \in [1..4 -> Nat] /\ <<198, 19, 255, 255>> \in [1..4 -> Nat]
    OBVIOUS
  <2>2. QED
    BY <1>3, <2>1
<1>13. ~Between(<<224, 0, 0, 0>>, a, <<255, 255, 255, 255>>)
  <2>1. <<224, 0, 0, 0>> \in [1..4 -> Nat] /\ <<255, 255, 255, 255>> \in [1..4 -> Nat]
    OBVIOUS
  <2>2. QED
    BY <1>3, <2>1
<1>14. Between(V6(0, 0, 0, 0), a, <<100, 65434, 65535, 65535, 65535, 65535, 65535, 65535>>)
        => a[1] < 100 \/ (a[1] = 100 /\ a[2] < 65435)
  <2> DEFINE last == <<100, 65434, 65535, 65535, 65535, 65535, 65535, 65535>>
  <2>1. V6(0, 0, 0, 0) \in [1..8 -> Nat] /\ last \in [1..8 -> Nat] /\ last[1] = 100 /\ last[2] = 65434
    BY DEF V6
  <2> HIDE DEF last
  <2>2. QED
    BY <1>2, <1>4, <2>1
<1>15. Between(V6(16384, 0, 0, 0), a, <<65535, 65535, 65535, 65535, 65535, 65535, 65535, 65535>>)
        => a[1] >= 16384
  <2> DEFINE last == <<65535, 65535, 65535, 65535, 65535, 65535, 65535, 65535>>
  <2>1. V6(16384, 0, 0, 0) \in [1..8 -> Nat] /\ last \in [1..8 -> Nat] /\ V6(16384, 0, 0, 0)[1] = 16384
    BY DEF V6
  <2> HIDE DEF last
  <2>2. QED
    BY <1>2, <1>4, <2>1
<1>16. QED
  BY <1>5, <1>6, <1>7, <1>8, <1>9, <1>10, <1>11, <1>12, <1>13, <1>14, <1>15 DEF Reserved

\* What may be dialled is not reserved, of either family.
LEMMA Public ==
  ASSUME NEW a \in Ipv4Addresses \cup Ipv6Addresses, GloballyRoutable(a)
  PROVE  /\ ~Reserved(a)
         /\ ~IsV4(a) => InAssigned(a[1]) \/ SubSeq(a, 1, 6) = <<100, 65435, 0, 0, 0, 0>>
<1>1. CASE a \in Ipv4Addresses
  <2>1. IsV4(a)
    BY <1>1 DEF IsV4, Ipv4Addresses
  <2>2. QED
    BY <1>1, <2>1, NoneReservedV4
<1>2. CASE a \in Ipv6Addresses
  <2>1. a[1] \in Nat /\ a[2] \in Nat
    BY <1>2 DEF Ipv6Addresses, Segments
  <2>2. InAssigned(a[1]) \/ (a[1] = 100 /\ a[2] = 65435)
    <3>1. CASE SubSeq(a, 1, 6) = <<100, 65435, 0, 0, 0, 0>>
      <4> DEFINE s == SubSeq(a, 1, 6)
      <4>1. \A i \in 1..6 : a[i] \in Segments
        BY <1>2 DEF Ipv6Addresses
      <4>2. s[1] = a[1] /\ s[2] = a[2]
        BY <4>1, SubSeqProperties
      <4>3. s = <<100, 65435, 0, 0, 0, 0>>
        BY <3>1
      <4> HIDE DEF s
      <4>4. QED
        BY <4>2, <4>3
    <3>2. QED
      BY <1>2, <3>1, DialledIpv6
  <2>3. ~Reserved(a)
    BY <1>2, <2>1, <2>2, ReservedIpv6 DEF InAssigned
  <2>4. QED
    BY <1>2, <2>3, DialledIpv6
<1>3. QED
  BY <1>1, <1>2

\* A row that speaks of an address is of its family.
LEMMA Family ==
  ASSUME NEW a, NEW r \in Rows, InPrefix(a, r[1], r[2])
  PROVE  /\ a \in Ipv4Addresses => r \in Ipv4Eligible \cup Ipv4Ineligible
         /\ a \in Ipv6Addresses => r \in Ipv6Eligible \cup Ipv6Ineligible
<1>1. Len(r[1]) = Len(a)
  BY DEF InPrefix
<1>2. r \in Ipv4Eligible => Len(r[1]) = 4
  BY DEF Ipv4Eligible
<1>3. r \in Ipv4Ineligible => Len(r[1]) = 4
  BY DEF Ipv4Ineligible
<1>4. r \in Ipv6Eligible => Len(r[1]) = 8
  BY DEF Ipv6Eligible, V6
<1>5. r \in Ipv6Ineligible => Len(r[1]) = 8
  BY DEF Ipv6Ineligible, V6
<1>6. a \in Ipv4Addresses => Len(a) = 4
  BY DEF Ipv4Addresses
<1>7. a \in Ipv6Addresses => Len(a) = 8
  BY DEF Ipv6Addresses
<1>8. r \in Ipv4Eligible \cup Ipv4Ineligible \cup Ipv6Eligible \cup Ipv6Ineligible
  BY DEF Rows, Eligible
<1>9. ASSUME a \in Ipv4Addresses PROVE r \notin Ipv6Eligible \cup Ipv6Ineligible
  <2>1. Len(r[1]) = 4
    BY <1>1, <1>6, <1>9
  <2>2. QED
    BY <2>1, <1>4, <1>5
<1>10. ASSUME a \in Ipv6Addresses PROVE r \notin Ipv4Eligible \cup Ipv4Ineligible
  <2>1. Len(r[1]) = 8
    BY <1>1, <1>7, <1>10
  <2>2. QED
    BY <2>1, <1>2, <1>3
<1>11. QED
  BY <1>8, <1>9, <1>10

\* An address of which no narrower row speaks than one that may be dialled.
LEMMA Eligibly ==
  ASSUME NEW a, NEW e \in Eligible, InPrefix(a, e[1], e[2]),
         \A r \in Rows : InPrefix(a, r[1], r[2]) /\ e[2] <= r[2] => r \in Eligible
  PROVE  MostSpecific(a) \subseteq Eligible
BY DEF MostSpecific, Matching, Rows

LEMMA ReachableIpv4 ==
  ASSUME NEW a \in {<<8, 8, 8, 8>>, <<192, 0, 0, 9>>, <<192, 0, 0, 10>>, <<192, 31, 196, 255>>}
  PROVE  GloballyRoutable(a)
<1>1. a \in Ipv4Addresses
  BY DEF Ipv4Addresses, Octets
<1>2. IsV4(a)
  BY DEF IsV4
<1> SUFFICES MostSpecific(a) \subseteq Eligible
  BY <1>2 DEF GloballyRoutable, ipv4_is_global
<1>3. CASE a = <<8, 8, 8, 8>>
  <2>1. \A r \in Rows : ~InPrefix(a, r[1], r[2])
    BY <1>1, <1>3, RowsOfIpv4
  <2>2. QED
    BY <2>1 DEF MostSpecific, Matching
<1>4. ASSUME NEW e \in {<<<<192, 0, 0, 9>>, 32>>, <<<<192, 0, 0, 10>>, 32>>}, a = e[1]
      PROVE  MostSpecific(a) \subseteq Eligible
  <2>1. e \in Eligible /\ e[2] = 32 /\ e[1] \in Ipv4Addresses
    BY <1>1, <1>4 DEF Eligible, Ipv4Eligible
  <2>2. InPrefix(a, e[1], e[2])
    BY <1>1, <1>4, <2>1, Whole
  <2>3. ASSUME NEW r \in Rows, InPrefix(a, r[1], r[2]), 32 <= r[2]
        PROVE  r \in Eligible
    <3>1. r[2] = 32 /\ r[1] \in Ipv4Addresses
      <4>1. r \in Ipv4Eligible => r[2] <= 32 /\ r[1] \in Ipv4Addresses
        BY DEF Ipv4Eligible, Ipv4Addresses, Octets
      <4>2. r \in Ipv4Ineligible => r[2] <= 32 /\ r[1] \in Ipv4Addresses
        BY DEF Ipv4Ineligible, Ipv4Addresses, Octets
      <4>3. r[2] \in Nat
        BY <1>1, <2>3, Family DEF Ipv4Eligible, Ipv4Ineligible
      <4>4. QED
        BY <1>1, <2>3, <4>1, <4>2, <4>3, Family
    <3>2. InPrefix(a, r[1], 32)
      BY <2>3, <3>1
    <3>3. a[1] = r[1][1] /\ a[2] = r[1][2] /\ a[3] = r[1][3] /\ a[4] = r[1][4]
      BY <1>1, <3>1, <3>2, Whole
    <3>4. r[1] = a
      BY <1>1, <3>1, <3>3 DEF Ipv4Addresses
    <3>5. r \notin Ipv4Ineligible
      BY <1>4, <3>1, <3>4 DEF Ipv4Ineligible
    <3>6. QED
      BY <1>1, <2>3, <3>5, Family DEF Eligible
  <2>4. QED
    BY <2>1, <2>2, <2>3, Eligibly
<1>5. CASE a = <<192, 31, 196, 255>>
  <2> DEFINE e == <<<<192, 31, 196, 0>>, 24>>
  <2>1. e \in Eligible /\ e[2] = 24 /\ e[1] \in Ipv4Addresses /\ e[1] = <<192, 31, 196, 0>>
    BY DEF Eligible, Ipv4Eligible, Ipv4Addresses, Octets
  <2>2. InPrefix(a, e[1], 24)
    BY <1>1, <1>5, <2>1, Whole
  <2>3. ASSUME NEW r \in Rows, InPrefix(a, r[1], r[2]), 24 <= r[2]
        PROVE  r \in Eligible
    <3>1. SUFFICES ASSUME r \in Ipv4Ineligible PROVE FALSE
      BY <1>1, <2>3, Family DEF Eligible
    <3>2. r[1][1] = 192 => r[1][2] # 31
      BY <3>1 DEF Ipv4Ineligible
    <3>3. CASE r[2] = 29
      <4>1. r[1] = <<192, 0, 0, 0>>
        BY <3>1, <3>3 DEF Ipv4Ineligible
      <4>2. QED
        BY <1>1, <1>5, <2>3, <3>3, <4>1, Partial
    <3>4. CASE r[2] # 29
      <4>1. r[2] \in {24, 32} /\ r[1] \in Ipv4Addresses
        BY <2>3, <3>1, <3>4 DEF Ipv4Ineligible, Ipv4Addresses, Octets
      <4>2. a[1] = r[1][1] /\ a[2] = r[1][2]
        BY <1>1, <2>3, <4>1, Whole
      <4>3. QED
        BY <1>5, <3>2, <4>2
    <3>5. QED
      BY <3>3, <3>4
  <2> HIDE DEF e
  <2>4. QED
    BY <2>1, <2>2, <2>3, Eligibly
<1>6. QED
  BY <1>3, <1>4, <1>5

LEMMA RowsOfIpv6 ==
  ASSUME NEW r \in Ipv6Eligible \cup Ipv6Ineligible
  PROVE  /\ r[1] \in Ipv6Addresses
         /\ r[2] \in {7, 10, 16, 20, 23, 28, 32, 48, 64, 96, 128}
<1>1. CASE r \in Ipv6Eligible
  BY <1>1 DEF Ipv6Eligible, V6, Ipv6Addresses, Segments
<1>2. CASE r \in Ipv6Ineligible
  BY <1>2 DEF Ipv6Ineligible, V6, Ipv6Addresses, Segments
<1>3. QED
  BY <1>1, <1>2

LEMMA ReachableIpv6 ==
  ASSUME NEW a \in {V6(8192, 0, 0, 0), <<8193, 1, 0, 0, 0, 0, 0, 3>>, V6(8193, 32, 0, 0)}
  PROVE  GloballyRoutable(a)
<1>1. a \in Ipv6Addresses /\ ~IsV4(a) /\ a[1] \in {8192, 8193} /\ a # <<0, 0, 0, 0, 0, 65535, 0, 0>>
  <2>1. a \in Ipv6Addresses /\ a[1] \in {8192, 8193}
    BY DEF V6, Ipv6Addresses, Segments
  <2>2. Len(a) = 8
    BY <2>1 DEF Ipv6Addresses
  <2>3. QED
    BY <2>1, <2>2 DEF IsV4
<1>2. ~InPrefix(a, <<0, 0, 0, 0, 0, 65535, 0, 0>>, 96)
  <2> DEFINE n == <<0, 0, 0, 0, 0, 65535, 0, 0>>
  <2>1. n \in Ipv6Addresses /\ n[1] = 0
    BY DEF Ipv6Addresses, Segments
  <2> HIDE DEF n
  <2>2. ~InPrefix(a, n, 96)
    BY <1>1, <2>1, Covered
  <2>3. QED
    BY <2>2 DEF n
<1>3. InPrefix(a, V6(8192, 0, 0, 0), 3)
  BY <1>1, Segment3 DEF InAssigned
<1> SUFFICES MostSpecific(a) \subseteq Eligible
  BY <1>1, <1>2, <1>3 DEF GloballyRoutable, ipv6_is_global
<1>4. ASSUME NEW r \in Ipv6Ineligible, InPrefix(a, r[1], r[2])
      PROVE  a[1] = r[1][1] /\ r[1][1] = 8193 /\ r[2] \notin {7, 10}
  <2>0. r[2] \notin {7, 10}
    <3>1. r[2] \in {7, 10} => r \in {<<V6(64512, 0, 0, 0), 7>>, <<V6(65152, 0, 0, 0), 10>>}
      BY DEF Ipv6Ineligible, V6
    <3>2. Width(a) = 16 /\ V6(64512, 0, 0, 0)[1] = 64512 /\ V6(65152, 0, 0, 0)[1] = 65152
      BY <1>1 DEF Width, V6
    <3>3. /\ 7 \div 16 = 0 /\ 7 % 16 = 7 /\ Unit(a, 7) = 512
          /\ 10 \div 16 = 0 /\ 10 % 16 = 10 /\ Unit(a, 10) = 64
      BY <1>1 DEF Unit
    <3>4. /\ InPrefix(a, V6(64512, 0, 0, 0), 7) => a[1] \div 512 = 64512 \div 512
          /\ InPrefix(a, V6(65152, 0, 0, 0), 10) => a[1] \div 64 = 65152 \div 64
      BY <3>2, <3>3 DEF InPrefix
    <3>5. a[1] \div 512 # 64512 \div 512 /\ a[1] \div 64 # 65152 \div 64
      BY <1>1
    <3>6. QED
      BY <1>4, <3>1, <3>4, <3>5
  <2>1. r[2] \in {16, 20, 23, 28, 32, 48, 64, 96, 128} /\ r[1] \in Ipv6Addresses
    BY <2>0, RowsOfIpv6
  <2>2. a[1] = r[1][1]
    BY <1>1, <1>4, <2>1, Covered
  <2>3. r[1][1] # 8192
    BY DEF Ipv6Ineligible, V6
  <2>4. QED
    BY <1>1, <2>0, <2>2, <2>3
<1>5. CASE a[1] = 8192
  <2>1. ASSUME NEW r \in Rows, InPrefix(a, r[1], r[2]), r \notin Eligible
        PROVE  FALSE
    <3>1. r \in Ipv6Ineligible
      BY <1>1, <2>1, Family DEF Eligible
    <3>2. QED
      BY <1>4, <1>5, <2>1, <3>1
  <2>2. QED
    BY <2>1 DEF MostSpecific, Matching
<1>6. CASE a = <<8193, 1, 0, 0, 0, 0, 0, 3>>
  <2> DEFINE e == <<<<8193, 1, 0, 0, 0, 0, 0, 3>>, 128>>
  <2>1. e \in Ipv6Eligible /\ e[2] = 128 /\ e[1] = a
    BY <1>6 DEF Ipv6Eligible
  <2>2. InPrefix(a, e[1], e[2])
    BY <1>1, <2>1 DEF InPrefix, Width
  <2>3. ASSUME NEW r \in Rows, InPrefix(a, r[1], r[2]), 128 <= r[2]
        PROVE  r \in Eligible
    <3>1. SUFFICES ASSUME r \in Ipv6Ineligible PROVE FALSE
      BY <1>1, <2>3, Family DEF Eligible
    <3>2. r[2] = 128 /\ r[1] \in Ipv6Addresses
      BY <2>3, <3>1, RowsOfIpv6
    <3>3. a = r[1]
      BY <1>1, <2>3, <3>2, Covered
    <3>4. r[1][1] # 8193
      BY <3>1, <3>2 DEF Ipv6Ineligible, V6
    <3>5. QED
      BY <1>6, <3>3, <3>4
  <2> HIDE DEF e
  <2>4. QED
    BY <2>1, <2>2, <2>3, Eligibly DEF Eligible
<1>7. CASE a = V6(8193, 32, 0, 0)
  <2> DEFINE e == <<V6(8193, 32, 0, 0), 28>>
  <2>1. e \in Ipv6Eligible /\ e[2] = 28 /\ e[1] = a
    BY <1>7 DEF Ipv6Eligible
  <2>2. InPrefix(a, e[1], e[2])
    BY <1>1, <2>1 DEF InPrefix, Width
  <2>3. ASSUME NEW r \in Rows, InPrefix(a, r[1], r[2]), 28 <= r[2]
        PROVE  r \in Eligible
    <3>1. SUFFICES ASSUME r \in Ipv6Ineligible PROVE FALSE
      BY <1>1, <2>3, Family DEF Eligible
    <3>2. r[2] \in {28, 32, 48, 64, 96, 128} /\ r[1] \in Ipv6Addresses
      BY <2>3, <3>1, RowsOfIpv6
    <3>3. a[2] \div 16 = r[1][2] \div 16
      BY <1>1, <2>3, <3>2, Covered
    <3>4. r[1][1] = 8193
      BY <1>4, <2>3, <3>1
    <3>5. r[1][2] \in {0, 2, 16, 3512}
      BY <3>1, <3>4 DEF Ipv6Ineligible, V6
    <3>6. a[2] = 32
      BY <1>7 DEF V6
    <3>7. QED
      BY <3>3, <3>5, <3>6
  <2> HIDE DEF e
  <2>4. QED
    BY <2>1, <2>2, <2>3, Eligibly DEF Eligible
<1>8. a = V6(8192, 0, 0, 0) => a[1] = 8192
  BY DEF V6
<1>9. QED
  BY <1>5, <1>6, <1>7, <1>8

-----------------------------------------------------------------------------
(* The calls.  What holds of one by its place: what it has got is judged,  *)
(* what it has dialled is what it has tried, in order, and every end but   *)
(* that of a policy denial leaves both as they were.                       *)

Places == Outcomes \cup {"idle", "target", "resolve", "dial", "dialling", "closed"}
Unjudged == {"idle", "target", "resolve", "Exhausted", "PolicyDenied"}
Holding == {"target", "resolve", "dial", "dialling", "connected"}

Tried(list, n) == {list[i].address : i \in 1..n}

Sound(place, t, list, n, tried) ==
  /\ Len(list) <= MaxAnswers /\ n <= Len(list) /\ AllAreGood(list) /\ tried \subseteq Tried(list, Len(list))
  /\ place \in Unjudged => list = <<>> /\ n = 0 /\ tried = {}
  /\ place \in {"target", "resolve"} => t \in Targets
  /\ place = "resolve" => t.kind = "name"
  /\ place = "dial" => n < Len(list) /\ tried = Tried(list, n)
  /\ place = "dialling" => n < Len(list) /\ tried = Tried(list, n + 1)
  /\ place = "Unavailable" => tried = Tried(list, Len(list))
  /\ place = "PolicyDenied" => (t.kind = "literal" /\ ~t.scoped => ~GloballyRoutable(t.address))

CallOK(c) == Sound(phase[c], target[c], answers[c], next[c], dialled[c])

Typed ==
  /\ phase \in [Calls -> Places] /\ target \in [Calls -> Targets \cup {NoTarget}]
  /\ answers \in [Calls -> Seq(Answers)] /\ next \in [Calls -> Nat] /\ dialled \in [Calls -> SUBSET Addresses]
  /\ expired \subseteq Calls /\ cancelled \in BOOLEAN /\ permits \in Nat

Holders == {c \in Calls : phase[c] \in Holding}
Counted == permits + Cardinality(Holders) = Permits

IInv == Typed /\ (\A c \in Calls : CallOK(c)) /\ Counted

LEMMA AnswersAreRecords ==
  ASSUME NEW a \in Answers
  PROVE  a.address \in Addresses
BY DEF Answers

LEMMA Listed ==
  ASSUME NEW list \in Lists
  PROVE  list \in Seq(Answers) /\ (~TooMany(list) => Len(list) <= MaxAnswers)
<1>1. PICK n \in 0..MaxAnswers + 1 : list \in [1..n -> Answers]
  BY DEF Lists
<1>2. n \in Nat
  BY <1>1, DialAssumption
<1>3. list \in Seq(Answers) /\ Len(list) = n
  BY <1>1, <1>2
<1>4. QED
  BY <1>2, <1>3, DialAssumption DEF TooMany

\* A permit goes with a call from one place to another.
LEMMA CountKept ==
  ASSUME IInv, NEW c \in Calls, NEW p \in Places, phase' = [phase EXCEPT ![c] = p],
         phase[c] \in Holding <=> p \in Holding, permits' = permits
  PROVE  Counted'
<1>1. Holders' = Holders
  BY DEF Holders, IInv, Typed
<1>2. QED
  BY <1>1 DEF IInv, Counted

LEMMA HoldersAreFinite == IsFiniteSet(Holders)
BY DialAssumption, FS_Subset DEF Holders

LEMMA CountTaken ==
  ASSUME IInv, NEW c \in Calls, NEW p \in Holding, phase' = [phase EXCEPT ![c] = p],
         phase[c] \notin Holding, permits > 0, permits' = permits - 1
  PROVE  Counted'
<1>1. p \in Places
  BY DEF Holding, Places, Outcomes
<1>2. Holders' = Holders \cup {c} /\ c \notin Holders
  BY <1>1 DEF Holders, IInv, Typed
<1>3. Cardinality(Holders') = Cardinality(Holders) + 1
  BY <1>2, HoldersAreFinite, FS_AddElement
<1>4. Cardinality(Holders) \in Nat
  BY HoldersAreFinite, FS_CardinalityType
<1>5. QED
  BY <1>3, <1>4, DialAssumption DEF IInv, Counted, Typed

LEMMA CountReturned ==
  ASSUME IInv, NEW c \in Calls, NEW p \in Places \ Holding, phase' = [phase EXCEPT ![c] = p],
         phase[c] \in Holding, permits' = permits + 1
  PROVE  Counted'
<1>1. Holders' = Holders \ {c} /\ c \in Holders
  BY DEF Holders, IInv, Typed
<1>2. Cardinality(Holders') = Cardinality(Holders) - 1
  BY <1>1, HoldersAreFinite, FS_RemoveElement
<1>3. Cardinality(Holders) \in Nat
  BY HoldersAreFinite, FS_CardinalityType
<1>4. QED
  BY <1>2, <1>3, DialAssumption DEF IInv, Counted, Typed

LEMMA IInvInit == Init => IInv
<1> SUFFICES ASSUME Init PROVE IInv
  OBVIOUS
<1>1. Typed
  <2>1. phase \in [Calls -> Places] /\ next \in [Calls -> Nat] /\ dialled \in [Calls -> SUBSET Addresses]
    BY DEF Init, Places
  <2>2. target \in [Calls -> Targets \cup {NoTarget}] /\ answers \in [Calls -> Seq(Answers)]
    BY DEF Init
  <2>3. expired \subseteq Calls /\ cancelled \in BOOLEAN /\ permits \in Nat
    BY DialAssumption DEF Init
  <2>4. QED
    BY <2>1, <2>2, <2>3 DEF Typed
<1>2. ASSUME NEW c \in Calls PROVE CallOK(c)
  <2>1. phase[c] = "idle" /\ answers[c] = <<>> /\ next[c] = 0 /\ dialled[c] = {}
    BY DEF Init
  <2>2. Len(<<>>) = 0 /\ Tried(<<>>, 0) = {} /\ AllAreGood(<<>>)
    BY DEF Tried, AllAreGood
  <2>3. QED
    BY <2>1, <2>2, DialAssumption DEF CallOK, Sound, Unjudged
<1>3. Counted
  <2>1. Holders = {}
    BY DEF Init, Holders, Holding
  <2>2. QED
    BY <2>1, FS_EmptySet, DialAssumption DEF Counted, Init
<1>4. QED
  BY <1>1, <1>2, <1>3 DEF IInv

\* A step is the step of one call.
Else(c) ==
  \A d \in Calls \ {c} :
    /\ phase'[d] = phase[d] /\ target'[d] = target[d] /\ answers'[d] = answers[d]
    /\ next'[d] = next[d] /\ dialled'[d] = dialled[d]

LEMMA OneCall ==
  ASSUME IInv, NEW c \in Calls, Typed', Counted', Else(c), CallOK(c)'
  PROVE  IInv'
<1>1. ASSUME NEW d \in Calls \ {c} PROVE CallOK(d)'
  BY <1>1 DEF IInv, Else, CallOK
<1>2. QED
  BY <1>1 DEF IInv

LEMMA FailStep ==
  ASSUME IInv, NEW c \in Calls, NEW p \in {"PolicyDenied", "Unavailable", "DeadlineExceeded", "Cancelled", "dropped"},
         phase[c] \in Holding, Fail(c, p),
         p = "PolicyDenied" => phase[c] \in {"target", "resolve"} /\
           (target[c].kind = "literal" /\ ~target[c].scoped => ~GloballyRoutable(target[c].address)),
         p = "Unavailable" => dialled[c] = Tried(answers[c], Len(answers[c]))
  PROVE  IInv'
<1>1. p \in Places \ Holding /\ p \notin {"idle", "target", "resolve", "Exhausted", "dial", "dialling"}
  BY DEF Places, Outcomes, Holding
<1>2. /\ phase' = [phase EXCEPT ![c] = p] /\ permits' = permits + 1
      /\ UNCHANGED <<target, answers, next, dialled, expired, cancelled>>
  BY DEF Fail, Go
<1>3. Counted'
  BY <1>1, <1>2, CountReturned
<1>4. Typed'
  BY <1>1, <1>2 DEF IInv, Typed
<1>5. Else(c) /\ phase'[c] = p
  BY <1>2 DEF Else, IInv, Typed
<1>6. CallOK(c)'
  <2>1. Sound(phase[c], target[c], answers[c], next[c], dialled[c])
    BY DEF IInv, CallOK
  <2>2. p = "PolicyDenied" => answers[c] = <<>> /\ next[c] = 0 /\ dialled[c] = {}
    BY <2>1 DEF Sound, Unjudged
  <2>3. Sound(p, target[c], answers[c], next[c], dialled[c])
    BY <1>1, <2>1, <2>2 DEF Sound, Unjudged
  <2>4. QED
    BY <1>2, <1>5, <2>3 DEF CallOK
<1>7. QED
  BY <1>3, <1>4, <1>5, <1>6, OneCall

LEMMA DialsStep ==
  ASSUME IInv, NEW c \in Calls, NEW list \in Seq(Answers), phase[c] \in {"target", "resolve"},
         list # <<>>, Len(list) <= MaxAnswers, AllAreGood(list), Dials(c, list)
  PROVE  IInv'
<1>1. "dial" \in Places /\ "dial" \in Holding /\ phase[c] \in Holding
  BY DEF Places, Holding
<1>2. /\ phase' = [phase EXCEPT ![c] = "dial"] /\ answers' = [answers EXCEPT ![c] = list]
      /\ UNCHANGED <<target, next, dialled, expired, cancelled, permits>>
  BY DEF Dials, Go
<1>3. Counted'
  BY <1>1, <1>2, CountKept
<1>4. Typed'
  BY <1>1, <1>2 DEF IInv, Typed
<1>5. Else(c) /\ phase'[c] = "dial" /\ answers'[c] = list
  BY <1>2 DEF Else, IInv, Typed
<1>6. next[c] = 0 /\ dialled[c] = {}
  BY DEF IInv, CallOK, Sound, Unjudged
<1>7. Len(list) \in Nat /\ Len(list) > 0
  OBVIOUS
<1>8. Sound("dial", target[c], list, 0, {})
  BY <1>7 DEF Sound, Tried, Unjudged
<1>9. CallOK(c)'
  BY <1>2, <1>5, <1>6, <1>8 DEF CallOK
<1>10. QED
  BY <1>3, <1>4, <1>5, <1>9, OneCall

LEMMA BeginStep ==
  ASSUME IInv, NEW c \in Calls, Begin(c)
  PROVE  IInv'
<1>1. PICK t \in Targets : target' = [target EXCEPT ![c] = t]
  BY DEF Begin
<1>2. /\ phase[c] = "idle" /\ UNCHANGED <<answers, next, dialled, expired, cancelled>>
      /\ permits \in Nat
  BY DEF Begin, IInv, Typed
<1>3. Sound("idle", target[c], answers[c], next[c], dialled[c])
  BY <1>2 DEF IInv, CallOK
<1>4. CASE permits = 0
  <2>1. phase' = [phase EXCEPT ![c] = "Exhausted"] /\ permits' = permits /\ "Exhausted" \in Places
        /\ "Exhausted" \notin Holding /\ phase[c] \notin Holding
    BY <1>2, <1>4 DEF Begin, Go, Places, Outcomes, Holding
  <2>2. Counted'
    BY <2>1, CountKept
  <2>3. Typed'
    BY <1>1, <1>2, <2>1 DEF IInv, Typed
  <2>4. Else(c) /\ phase'[c] = "Exhausted" /\ target'[c] = t
    BY <1>1, <1>2, <2>1 DEF Else, IInv, Typed
  <2>5. Sound("Exhausted", t, answers[c], next[c], dialled[c])
    BY <1>3 DEF Sound, Unjudged
  <2>6. QED
    BY <1>2, <2>2, <2>3, <2>4, <2>5, OneCall DEF CallOK
<1>5. CASE permits # 0
  <2>1. phase' = [phase EXCEPT ![c] = "target"] /\ permits' = permits - 1 /\ "target" \in Places
        /\ "target" \in Holding /\ phase[c] \notin Holding /\ permits > 0
    BY <1>2, <1>5 DEF Begin, Go, Places, Outcomes, Holding
  <2>2. Counted'
    BY <2>1, CountTaken
  <2>3. Typed'
    BY <1>1, <1>2, <2>1 DEF IInv, Typed
  <2>4. Else(c) /\ phase'[c] = "target" /\ target'[c] = t
    BY <1>1, <1>2, <2>1 DEF Else, IInv, Typed
  <2>5. Sound("target", t, answers[c], next[c], dialled[c])
    BY <1>3 DEF Sound, Unjudged
  <2>6. QED
    BY <1>2, <2>2, <2>3, <2>4, <2>5, OneCall DEF CallOK
<1>6. QED
  BY <1>4, <1>5

LEMMA TargetStep ==
  ASSUME IInv, NEW c \in Calls, Target(c)
  PROVE  IInv'
<1>1. phase[c] = "target" /\ phase[c] \in Holding
  BY DEF Target, Holding
<1>2. Sound("target", target[c], answers[c], next[c], dialled[c])
  BY <1>1 DEF IInv, CallOK
<1>3. target[c] \in Targets /\ answers[c] = <<>> /\ next[c] = 0 /\ dialled[c] = {}
  BY <1>2 DEF Sound, Unjudged
<1>4. CASE Fail(c, "PolicyDenied") /\ (target[c].scoped \/ ~GloballyRoutable(target[c].address))
  BY <1>1, <1>4, FailStep
<1>5. CASE /\ target[c].kind = "literal" /\ GloballyRoutable(target[c].address)
           /\ Dials(c, <<[address |-> target[c].address, scope |-> 0]>>)
  <2> DEFINE list == <<[address |-> target[c].address, scope |-> 0]>>
  <2>1. target[c].address \in Addresses
    BY <1>3, <1>5 DEF Targets
  <2>2. [address |-> target[c].address, scope |-> 0] \in Answers
    BY <2>1 DEF Answers
  <2>3. list \in Seq(Answers) /\ list # <<>> /\ Len(list) = 1
    BY <2>2
  <2>4. AllAreGood(list)
    BY <1>5 DEF AllAreGood, AnswerIsGood
  <2>5. Dials(c, list) /\ 1 <= MaxAnswers
    BY <1>5, DialAssumption
  <2> HIDE DEF list
  <2>6. QED
    BY <1>1, <2>3, <2>4, <2>5, DialsStep
<1>6. CASE /\ target[c].kind = "name" /\ Go(c, "resolve")
           /\ UNCHANGED <<target, answers, next, dialled, expired, cancelled, permits>>
  <2>1. phase' = [phase EXCEPT ![c] = "resolve"] /\ "resolve" \in Holding /\ "resolve" \in Places
    BY <1>6 DEF Go, Holding, Places
  <2>2. Counted'
    BY <1>1, <1>6, <2>1, CountKept
  <2>3. Typed'
    BY <1>6, <2>1 DEF IInv, Typed
  <2>4. Else(c) /\ phase'[c] = "resolve"
    BY <1>6, <2>1 DEF Else, IInv, Typed
  <2>5. Sound("resolve", target[c], answers[c], next[c], dialled[c])
    BY <1>2, <1>6 DEF Sound, Unjudged
  <2>6. QED
    BY <1>6, <2>2, <2>3, <2>4, <2>5, OneCall DEF CallOK
<1>7. QED
  BY <1>4, <1>5, <1>6 DEF Target

LEMMA ResolvedStep ==
  ASSUME IInv, NEW c \in Calls, Resolved(c) \/ ResolutionFails(c)
  PROVE  IInv'
<1>1. phase[c] = "resolve" /\ phase[c] \in Holding
  BY DEF Resolved, ResolutionFails, Holding
<1>2. Sound("resolve", target[c], answers[c], next[c], dialled[c])
  BY <1>1 DEF IInv, CallOK
<1>3. answers[c] = <<>> /\ dialled[c] = {} /\ target[c].kind = "name"
  BY <1>2 DEF Sound, Unjudged
<1>4. CASE Fail(c, "Unavailable")
  <2>1. Tried(answers[c], Len(answers[c])) = {}
    BY <1>3 DEF Tried
  <2>2. QED
    BY <1>1, <1>3, <1>4, <2>1, FailStep
<1>5. CASE Fail(c, "PolicyDenied")
  BY <1>1, <1>3, <1>5, FailStep
<1>6. ASSUME NEW list \in Lists, list # <<>>, ~TooMany(list), AllAreGood(list), Dials(c, list)
      PROVE  IInv'
  BY <1>1, <1>6, Listed, DialsStep
<1>7. QED
  BY <1>4, <1>5, <1>6 DEF Resolved, ResolutionFails

LEMMA DialBeginsStep ==
  ASSUME IInv, NEW c \in Calls, DialBegins(c)
  PROVE  IInv'
<1> DEFINE a == answers[c][next[c] + 1].address
           tried == dialled[c] \cup {a}
<1>1. /\ phase[c] = "dial" /\ phase' = [phase EXCEPT ![c] = "dialling"]
      /\ dialled' = [dialled EXCEPT ![c] = tried]
      /\ UNCHANGED <<target, answers, next, expired, cancelled, permits>>
  BY DEF DialBegins, Go
<1>2. Sound("dial", target[c], answers[c], next[c], dialled[c]) /\ answers[c] \in Seq(Answers) /\ next[c] \in Nat
  BY <1>1 DEF IInv, CallOK, Typed
<1>3. next[c] < Len(answers[c]) /\ dialled[c] = Tried(answers[c], next[c]) /\ next[c] + 1 \in 1..Len(answers[c])
  BY <1>2 DEF Sound
<1>4. answers[c][next[c] + 1] \in Answers
  BY <1>2, <1>3
<1>5. a \in Addresses
  BY <1>4, AnswersAreRecords
<1>6. tried = Tried(answers[c], next[c] + 1)
  <2>1. 1..next[c] + 1 = (1..next[c]) \cup {next[c] + 1}
    BY <1>2
  <2>2. QED
    BY <1>3, <2>1 DEF Tried
<1>7. Tried(answers[c], next[c] + 1) \subseteq Tried(answers[c], Len(answers[c]))
  BY <1>2, <1>3 DEF Tried
<1> HIDE DEF tried
<1>8. Sound("dialling", target[c], answers[c], next[c], tried)
  BY <1>2, <1>3, <1>6, <1>7 DEF Sound, Unjudged
<1>9. tried \subseteq Addresses
  BY <1>1, <1>5 DEF tried, IInv, Typed
<1>10. "dialling" \in Places /\ "dialling" \in Holding /\ phase[c] \in Holding
  BY <1>1 DEF Places, Holding
<1>11. Counted'
  BY <1>1, <1>10, CountKept
<1>12. Typed'
  BY <1>1, <1>9, <1>10 DEF IInv, Typed
<1>13. Else(c) /\ phase'[c] = "dialling" /\ dialled'[c] = tried
  BY <1>1 DEF Else, IInv, Typed
<1>14. QED
  BY <1>1, <1>8, <1>11, <1>12, <1>13, OneCall DEF CallOK

LEMMA ConnectedStep ==
  ASSUME IInv, NEW c \in Calls, Connected(c)
  PROVE  IInv'
<1>1. /\ phase[c] = "dialling" /\ phase' = [phase EXCEPT ![c] = "connected"]
      /\ UNCHANGED <<target, answers, next, dialled, expired, cancelled, permits>>
  BY DEF Connected, Go
<1>2. "connected" \in Places /\ "connected" \in Holding /\ phase[c] \in Holding
  BY <1>1 DEF Places, Outcomes, Holding
<1>3. Counted'
  BY <1>1, <1>2, CountKept
<1>4. Typed'
  BY <1>1, <1>2 DEF IInv, Typed
<1>5. Else(c) /\ phase'[c] = "connected"
  BY <1>1 DEF Else, IInv, Typed
<1>6. Sound("connected", target[c], answers[c], next[c], dialled[c])
  BY DEF IInv, CallOK, Sound, Unjudged
<1>7. QED
  BY <1>1, <1>3, <1>4, <1>5, <1>6, OneCall DEF CallOK

LEMMA DialFailsStep ==
  ASSUME IInv, NEW c \in Calls, DialFails(c)
  PROVE  IInv'
<1>1. phase[c] = "dialling" /\ phase[c] \in Holding
  BY DEF DialFails, Holding
<1>2. /\ Sound("dialling", target[c], answers[c], next[c], dialled[c])
      /\ answers[c] \in Seq(Answers) /\ next[c] \in Nat
  BY <1>1 DEF IInv, CallOK, Typed
<1>3. next[c] < Len(answers[c]) /\ dialled[c] = Tried(answers[c], next[c] + 1)
  BY <1>2 DEF Sound
<1>4. CASE ~MoreAddresses(c)
  <2>1. next[c] + 1 = Len(answers[c])
    BY <1>2, <1>3, <1>4 DEF MoreAddresses
  <2>2. Fail(c, "Unavailable")
    BY <1>4 DEF DialFails
  <2>3. QED
    BY <1>1, <1>3, <2>1, <2>2, FailStep
<1>5. CASE MoreAddresses(c)
  <2>1. /\ phase' = [phase EXCEPT ![c] = "dial"] /\ next' = [next EXCEPT ![c] = next[c] + 1]
        /\ UNCHANGED <<target, answers, dialled, expired, cancelled, permits>>
    BY <1>5 DEF DialFails, Go
  <2>2. "dial" \in Places /\ "dial" \in Holding
    BY DEF Places, Holding
  <2>3. Counted'
    BY <1>1, <2>1, <2>2, CountKept
  <2>4. Typed'
    BY <1>2, <2>1, <2>2 DEF IInv, Typed
  <2>5. Else(c) /\ phase'[c] = "dial" /\ next'[c] = next[c] + 1
    BY <2>1 DEF Else, IInv, Typed
  <2>6. next[c] + 1 < Len(answers[c]) /\ Len(answers[c]) \in Nat
    BY <1>2, <1>5 DEF MoreAddresses
  <2>7. Sound("dial", target[c], answers[c], next[c] + 1, dialled[c])
    BY <1>2, <1>3, <2>6 DEF Sound, Unjudged
  <2>8. QED
    BY <2>1, <2>3, <2>4, <2>5, <2>7, OneCall DEF CallOK
<1>6. QED
  BY <1>4, <1>5

LEMMA CloseStreamStep ==
  ASSUME IInv, NEW c \in Calls, CloseStream(c)
  PROVE  IInv'
<1>1. /\ phase[c] = "connected" /\ phase' = [phase EXCEPT ![c] = "closed"] /\ permits' = permits + 1
      /\ UNCHANGED <<target, answers, next, dialled, expired, cancelled>>
  BY DEF CloseStream, PermitBack
<1>2. "closed" \in Places \ Holding /\ phase[c] \in Holding
  BY <1>1 DEF Places, Holding
<1>3. Counted'
  BY <1>1, <1>2, CountReturned
<1>4. Typed'
  BY <1>1, <1>2 DEF IInv, Typed
<1>5. Else(c) /\ phase'[c] = "closed"
  BY <1>1 DEF Else, IInv, Typed
<1>6. Sound("closed", target[c], answers[c], next[c], dialled[c])
  BY DEF IInv, CallOK, Sound, Unjudged
<1>7. QED
  BY <1>1, <1>3, <1>4, <1>5, <1>6, OneCall DEF CallOK

\* A step that touches no call: the clock, the cancellation, a stutter.
LEMMA CallsAlone ==
  ASSUME IInv, UNCHANGED <<phase, target, answers, next, dialled, permits>>,
         expired' \subseteq Calls, cancelled' \in BOOLEAN
  PROVE  IInv'
<1>1. Typed'
  BY DEF IInv, Typed
<1>2. Counted'
  BY DEF IInv, Counted, Holders
<1>3. QED
  BY <1>1, <1>2 DEF IInv, CallOK

LEMMA IInvStep == IInv /\ [Next]_vars => IInv'
<1> SUFFICES ASSUME IInv, [Next]_vars PROVE IInv'
  OBVIOUS
<1>1. ASSUME NEW c \in Calls, Waiting(c) \/ phase[c] = "dial"
      PROVE  phase[c] \in Holding
  BY <1>1 DEF Waiting, Holding
<1>2. ASSUME NEW c \in Calls, Step(c) PROVE IInv'
  <2>1. CASE DeadlineExceeded(c)
    BY <1>1, <2>1, FailStep DEF DeadlineExceeded
  <2>2. CASE CancelledCall(c)
    BY <1>1, <2>2, FailStep DEF CancelledCall
  <2>3. QED
    BY <1>2, <2>1, <2>2, TargetStep, DialBeginsStep DEF Step
<1>3. ASSUME NEW c \in Calls, Network(c) PROVE IInv'
  BY <1>3, ResolvedStep, ConnectedStep, DialFailsStep DEF Network
<1>4. ASSUME NEW c \in Calls, Dropped(c) PROVE IInv'
  BY <1>1, <1>4, FailStep DEF Dropped
<1>5. ASSUME NEW c \in Calls, Expire(c) PROVE IInv'
  <2>1. expired' \subseteq Calls /\ cancelled' \in BOOLEAN
    BY <1>5 DEF Expire, IInv, Typed
  <2>2. QED
    BY <1>5, <2>1, CallsAlone DEF Expire
<1>6. CASE Cancel
  <2>1. expired' \subseteq Calls /\ cancelled' \in BOOLEAN
    BY <1>6 DEF Cancel, IInv, Typed
  <2>2. QED
    BY <1>6, <2>1, CallsAlone DEF Cancel
<1>7. CASE UNCHANGED vars
  <2>1. expired' \subseteq Calls /\ cancelled' \in BOOLEAN
    BY <1>7 DEF vars, IInv, Typed
  <2>2. QED
    BY <1>7, <2>1, CallsAlone DEF vars
<1>8. QED
  BY <1>2, <1>3, <1>4, <1>5, <1>6, <1>7, BeginStep, CloseStreamStep DEF Next

LEMMA Invariant == Spec => []IInv
BY IInvInit, IInvStep, PTL DEF Spec

\* What a call has dialled was answered, judged and is an address.
LEMMA DialledIsJudged ==
  ASSUME IInv, NEW c \in Calls, NEW a \in dialled[c]
  PROVE  GloballyRoutable(a) /\ a \in Ipv4Addresses \cup Ipv6Addresses
<1>1. Sound(phase[c], target[c], answers[c], next[c], dialled[c]) /\ answers[c] \in Seq(Answers)
      /\ dialled[c] \in SUBSET Addresses
  BY DEF IInv, CallOK, Typed
<1>2. PICK i \in 1..Len(answers[c]) : a = answers[c][i].address
  BY <1>1 DEF Sound, Tried
<1>3. AnswerIsGood(answers[c][i])
  BY <1>1, <1>2 DEF Sound, AllAreGood
<1>4. QED
  BY <1>1, <1>2, <1>3, AddressesAssumption DEF AnswerIsGood

LEMMA InvariantSuffices == IInv => DialIsJudged
<1> SUFFICES ASSUME IInv PROVE DialIsJudged
  OBVIOUS
<1>0. ASSUME NEW c \in Calls
      PROVE  /\ Sound(phase[c], target[c], answers[c], next[c], dialled[c])
             /\ answers[c] \in Seq(Answers) /\ next[c] \in Nat /\ dialled[c] \subseteq Addresses
  BY <1>0 DEF IInv, CallOK, Typed
<1>1. TypeOK
  <2>1. permits \in 0..Permits
    <3>1. Cardinality(Holders) \in Nat
      BY HoldersAreFinite, FS_CardinalityType
    <3>2. QED
      BY <3>1, DialAssumption DEF IInv, Counted, Typed
  <2>2. ASSUME NEW c \in Calls
        PROVE  Len(answers[c]) <= MaxAnswers /\ next[c] <= Len(answers[c]) /\ dialled[c] \subseteq Addresses
    BY <1>0 DEF Sound
  <2>3. phase \in [Calls -> Outcomes \cup {"idle", "target", "resolve", "dial", "dialling", "closed"}]
    BY DEF IInv, Typed, Places
  <2>4. QED
    BY <2>1, <2>2, <2>3 DEF TypeOK, IInv, Typed
<1>2. WholeSetIsJudged
  <2>1. ASSUME NEW c \in Calls, NEW i \in DOMAIN answers[c] PROVE AnswerIsGood(answers[c][i])
    BY <1>0, <2>1 DEF Sound, AllAreGood
  <2>2. QED
    BY <2>1 DEF WholeSetIsJudged, AnswerIsGood
<1>3. OutcomeIsTrue
  <2>1. ASSUME NEW c \in Calls, phase[c] = "PolicyDenied" PROVE dialled[c] = {}
    BY <1>0, <2>1 DEF Sound, Unjudged
  <2>2. ASSUME NEW c \in Calls, phase[c] = "Unavailable"
        PROVE  dialled[c] = {answers[c][i].address : i \in DOMAIN answers[c]}
    <3>1. DOMAIN answers[c] = 1..Len(answers[c])
      BY <1>0
    <3>2. dialled[c] = Tried(answers[c], Len(answers[c]))
      BY <1>0, <2>2 DEF Sound
    <3>3. QED
      BY <3>1, <3>2 DEF Tried
  <2>3. QED
    BY <2>1, <2>2 DEF OutcomeIsTrue
<1>4. PermitsAreCounted
  <2>1. {c \in Calls : Working(c) \/ phase[c] = "connected"} = Holders
    BY DEF Working, Waiting, Holders, Holding
  <2>2. QED
    BY <2>1 DEF PermitsAreCounted, IInv, Counted
<1>5. DialsArePublic
  <2>1. ASSUME NEW c \in Calls, NEW a \in dialled[c]
        PROVE  /\ ~Reserved(a)
               /\ ~IsV4(a) => InAssigned(a[1]) \/ SubSeq(a, 1, 6) = <<100, 65435, 0, 0, 0, 0>>
    BY DialledIsJudged, Public
  <2>2. QED
    BY <2>1 DEF DialsArePublic
<1>6. PublicIsReachable
  <2>1. ASSUME NEW c \in Calls, phase[c] = "PolicyDenied", target[c].kind = "literal", ~target[c].scoped
        PROVE  ~GloballyRoutable(target[c].address)
    BY <1>0, <2>1 DEF Sound
  <2>2. QED
    BY <2>1, ReachableIpv4, ReachableIpv6 DEF PublicIsReachable
<1>7. QED
  BY <1>1, <1>2, <1>3, <1>4, <1>5, <1>6 DEF DialIsJudged

(* Whatever names resolve to, however calls compete for the permits, are   *)
(* dropped, cancelled or time out: a call dials nothing of a set of        *)
(* answers of which one may not be dialled (from_dns), and of all          *)
(* addresses of both families none that is reserved (registry.rs); a       *)
(* public assignment inside a reserved block is not denied; the outcome    *)
(* says what was tried (open_with_budget), and every permit is free or     *)
(* with a call (open_target, ManagedIo).                                   *)
THEOREM DialsAreJudged == Spec => []DialIsJudged
BY Invariant, InvariantSuffices, PTL

-----------------------------------------------------------------------------
(***************************************************************************)
(* The tunnels.  What the client is yet to hear is a chain of stages: what *)
(* it has received, the link to it, what the proxy's loop holds, the       *)
(* middle link, what the broker's loop holds, the far link; and so for the *)
(* service.  Each token has a place: bytes count from one, and the heads,  *)
(* the frame and the answer have the places before them.  As long as a     *)
(* stage can reach the ear, its tokens are those of their places; what is  *)
(* missing between two stages is a head that is not yet written or an      *)
(* answer that is half read; and all stages together end with what was     *)
(* said last.  A close that takes bytes away takes the way to the ear with *)
(* them.                                                                   *)
(***************************************************************************)

\* The token at a place of a direction: the bytes count from one, what comes before them
\* has the places up to zero.
Token(d, k, i) ==
  IF i > 0 THEN i
  ELSE IF d = "up" THEN IF k = 5 THEN "H" ELSE "F"
  ELSE IF k \in {0, 1} THEN "E" ELSE IF i = 0 THEN "N" ELSE IF i = -1 THEN "K" ELSE "O"
Runs(d, k, s, a) == \A i \in 1..Len(s) : s[i] = Token(d, k, a + i)

\* The stages of a direction from its ear to its mouth: what was received, the last link,
\* the second loop, the middle link, the first loop, the first link.  What is missing before
\* each of them; whether the three links can be written to; how much was said.
Stage(x, k) == x.stages[k + 1]
Gap(x, k) == x.gaps[k + 1]
Passes(x, i) == x.open[i]
Sent(x) == x.said
Size(x, k) == Len(Stage(x, k))

\* The place before the first token of a stage; the last is that of the mouth.
At(x, k) ==
  LET a1 == Gap(x, 0) + Size(x, 0) + Gap(x, 1)
      a2 == a1 + Size(x, 1) + Gap(x, 2)
      a3 == a2 + Size(x, 2) + Gap(x, 3)
      a4 == a3 + Size(x, 3) + Gap(x, 4)
      a5 == a4 + Size(x, 4) + Gap(x, 5)
      a6 == a5 + Size(x, 5)
  IN IF k = 0 THEN Gap(x, 0) ELSE IF k = 1 THEN a1 ELSE IF k = 2 THEN a2 ELSE IF k = 3 THEN a3
     ELSE IF k = 4 THEN a4 ELSE IF k = 5 THEN a5 ELSE a6

\* What is in a stage can reach the ear.
Clear(x, k) ==
  /\ k \in {2, 3, 4, 5, 6} => Passes(x, 1)
  /\ k \in {4, 5, 6} => Passes(x, 2)
  /\ k = 6 => Passes(x, 3)

Good(d, x, k) ==
  IF k = 6 THEN At(x, 6) = Sent(x)
  ELSE /\ Runs(d, k, Stage(x, k), At(x, k)) /\ At(x, k) + Size(x, k) <= Sent(x)
       /\ k \in {2, 4} => At(x, k) >= 0

Chain(d, x) == \A k \in 0..6 : Clear(x, k) => Good(d, x, k)

Free(l, d) == ~Tube!CannotWrite(<<l, d>>)
Up ==
  [stages |-> <<got["service"], wire[<<"far", "up">>], held[<<"broker", "up">>],
                wire[<<"mid", "up">>], held[<<"proxy", "up">>], wire[<<"near", "up">>]>>,
   gaps |-> <<0, 0, 0, IF host = "frame" THEN -1 ELSE 0, 0, IF task = "head" THEN -1 ELSE 0>>,
   open |-> <<Free("far", "up"), Free("mid", "up"), Free("near", "up")>>,
   said |-> said["client"]]

Asking == route = "local" /\ task \in {"head", "dial", "response"}
NoMiddle == host = "refused" \/ task \in {"failed", "left", "rejected"}
Down ==
  [stages |-> <<got["client"], wire[<<"near", "down">>], held[<<"proxy", "down">>],
                IF NoMiddle THEN <<>> ELSE wire[<<"mid", "down">>],
                held[<<"broker", "down">>], wire[<<"far", "down">>]>>,
   gaps |-> <<-1, 0, IF pump[<<"proxy", "down">>] = "off" THEN 1 ELSE 0,
              IF Asking THEN Len(answer) - 3 ELSE 0,
              IF Asking /\ host # "relay" THEN 3 - Len(answer) ELSE 0, 0>>,
   open |-> <<Free("near", "down"), Free("mid", "down"), Free("far", "down")>>,
   said |-> said["service"]]

\* Who is where.
ProxyOff == pump[<<"proxy", "up">>] = "off"
BrokerOff == pump[<<"broker", "up">>] = "off"
Positions ==
  /\ pump[<<"proxy", "down">>] = "off" <=> ProxyOff
  /\ pump[<<"broker", "down">>] = "off" <=> BrokerOff
  /\ BrokerOff <=> host # "relay"
  /\ ProxyOff => task # "relay"
  /\ ~ProxyOff => task \in {"relay", "over"}
  /\ route = "public" => host = "none" /\ task \notin {"response", "rejected"}
  /\ task \in {"head", "dial"} => host = "none"
  /\ task \in {"response", "rejected"} => host # "none"
  /\ route = "local" /\ task \in {"connected", "relay", "over"} => host = "relay"

\* What is empty before its time.
Empty ==
  /\ ProxyOff => got["client"] = <<>> /\ wire[<<"near", "down">>] = <<>>
  /\ task \in {"head", "dial", "response"} => held[<<"proxy", "down">>] = <<>>
  /\ task \in {"head", "dial"} => <<"near", "down">> \notin shut
  /\ task = "head" => held[<<"proxy", "up">>] = <<>>
  /\ route = "local" /\ host \in {"none", "frame"} => wire[<<"mid", "down">>] = <<>>
  /\ route = "local" /\ host = "none" => wire[<<"mid", "up">>] = <<>>
  /\ BrokerOff => /\ held[<<"broker", "up">>] = <<>> /\ held[<<"broker", "down">>] = <<>>
                  /\ wire[<<"far", "up">>] = <<>> /\ wire[<<"far", "down">>] = <<>>
                  /\ Free("far", "up") /\ Free("far", "down")
  /\ ~Tube!There("service") => got["service"] = <<>> /\ said["service"] = 0
  /\ host = "refused" => ~Free("mid", "down")
  /\ route = "public" /\ task \in {"head", "dial"} => wire[<<"mid", "up">>] = <<>> /\ wire[<<"mid", "down">>] = <<>>
  /\ task \in {"head", "dial"} => Free("mid", "up") /\ Free("mid", "down")

\* The answer of the broker, as far as it is read and beyond.
Sigil(i) == IF i = 1 THEN "O" ELSE IF i = 2 THEN "K" ELSE "N"
Coming ==
  /\ Len(answer) + Len(wire[<<"mid", "down">>]) >= 3
  /\ \A i \in 1..Len(wire[<<"mid", "down">>]) :
       Len(answer) + i <= 3 => wire[<<"mid", "down">>][i] = Sigil(Len(answer) + i)
Reply ==
  /\ task \in {"head", "dial"} => answer = <<>>
  /\ task = "response" =>
       /\ Len(answer) < 3 /\ \A i \in 1..Len(answer) : answer[i] = Sigil(i)
       /\ <<"mid", "up">> \notin shut
       /\ host = "frame" => answer = <<>> /\ <<"mid", "down">> \notin shut /\ Len(wire[<<"mid", "up">>]) <= 1
       /\ host = "relay" => Coming /\ wire[<<"mid", "up">>] = <<>>
       /\ host = "refused" => answer = <<>> /\ wire[<<"mid", "down">>] \in {<<>>, <<"X">>}
  /\ task = "rejected" => host = "refused"

\* An attempt given up after the frame was written has closed its socket.
Gone == host # "none" /\ task \in {"failed", "left", "rejected"} => <<"mid", "down">> \in deaf

Said == \A who \in Tube!Parties : said[who] <= Tube!Bytes(who)

\* An undisturbed tunnel to a public service.
Quiet == route = "public" /\ Tube!Undisturbed
AllThere == At(Down, 6) = said["service"] /\ (<<"mid", "down">> \in shut => said["service"] = ServiceBytes)
FlowsUp ==
  /\ <<"mid", "up">> \in shut => pump[<<"proxy", "up">>] = "done"
  /\ task = "relay" => <<"mid", "up">> \notin deaf
  /\ pump[<<"proxy", "up">>] = "done" => held[<<"proxy", "up">>] = <<>> /\ Tube!AtEof(<<"near", "up">>)
FlowsDown ==
  /\ <<"near", "down">> \in shut => pump[<<"proxy", "down">>] = "done"
  /\ task = "relay" => <<"near", "down">> \notin deaf
  /\ pump[<<"proxy", "down">>] = "done" => held[<<"proxy", "down">>] = <<>> /\ Tube!AtEof(<<"mid", "down">>)
Calm == Quiet /\ ~ProxyOff => AllThere /\ FlowsUp /\ FlowsDown
\* Before it is established.
Fresh ==
  Quiet /\ task \in {"head", "dial", "connected"} => AllThere /\ Tube!ProxyEnds \cap shut = {} /\ deaf = {}

Tokens == Nat \cup {"H", "E", "F", "O", "K", "N", "X"}

-----------------------------------------------------------------------------
(* Sequences of tokens.                                                    *)

\* A part of a sequence is put behind another.
LEMMA Moving ==
  ASSUME NEW s \in Seq(Tokens), NEW t \in Seq(Tokens), NEW m \in Nat, NEW p \in Nat, m + p <= Len(s)
  PROVE  LET u == t \o SubSeq(s, m + 1, m + p)
             r == SubSeq(s, m + p + 1, Len(s))
         IN /\ u \in Seq(Tokens) /\ Len(u) = Len(t) + p
            /\ r \in Seq(Tokens) /\ Len(r) = Len(s) - m - p
            /\ \A i \in 1..Len(t) : u[i] = t[i]
            /\ \A i \in 1..p : u[Len(t) + i] = s[m + i]
            /\ \A i \in 1..Len(s) - m - p : r[i] = s[m + p + i]
<1> DEFINE q == SubSeq(s, m + 1, m + p)
           u == t \o q
           r == SubSeq(s, m + p + 1, Len(s))
<1>0. Len(s) \in Nat /\ Len(t) \in Nat
  BY LenProperties
<1>1. q \in Seq(Tokens) /\ Len(q) = p /\ \A i \in 1..p : q[i] = s[m + i]
  <2>1. /\ m + 1 \in 1..Len(s) + 1 /\ m + p \in m + 1 - 1..Len(s)
    BY <1>0
  <2>2. \A i \in 1..Len(s) : s[i] \in Tokens
    BY ElementOfSeq
  <2> DEFINE f == m + 1
             n == m + p
  <2>3. f \in Int /\ n \in Int /\ \A i \in f..n : s[i] \in Tokens
    BY <1>0, <2>2
  <2> HIDE DEF f, n
  <2>4. /\ SubSeq(s, f, n) \in Seq(Tokens) /\ Len(SubSeq(s, f, n)) = IF f <= n THEN n - f + 1 ELSE 0
        /\ \A i \in 1..n - f + 1 : SubSeq(s, f, n)[i] = s[f + i - 1]
    BY ONLY <2>3, SubSeqProperties
  <2>5. q = SubSeq(s, f, n)
    BY DEF f, n
  <2>6. (IF f <= n THEN n - f + 1 ELSE 0) = p /\ n - f + 1 = p /\ \A i \in 1..p : f + i - 1 = m + i
    BY DEF f, n
  <2> HIDE DEF q
  <2>7. QED
    BY <2>4, <2>5, <2>6
<1>2. r \in Seq(Tokens) /\ Len(r) = Len(s) - m - p /\ \A i \in 1..Len(s) - m - p : r[i] = s[m + p + i]
  BY <1>0, SubSeqProperties
<1> HIDE DEF q
<1>3. u \in Seq(Tokens) /\ Len(u) = Len(t) + p
  BY <1>1, ConcatProperties
<1>4. ASSUME NEW i \in 1..Len(t) PROVE u[i] = t[i]
  BY <1>1, ConcatProperties
<1>5. ASSUME NEW i \in 1..p PROVE u[Len(t) + i] = s[m + i]
  <2>1. Len(t) + i \in 1..Len(t) + Len(q) /\ Len(t) + i > Len(t) /\ Len(t) + i - Len(t) = i
    BY <1>0, <1>1
  <2>2. u[Len(t) + i] = q[i]
    BY <1>1, <2>1, ConcatProperties
  <2>3. QED
    BY <1>1, <2>2
<1> HIDE DEF u, r
<1>6. QED
  BY <1>2, <1>3, <1>4, <1>5 DEF u, r, q

\* What is left of a stage when its first tokens are gone.
LEMMA RestRuns ==
  ASSUME NEW s \in Seq(Tokens), NEW m \in Nat, NEW p \in Nat, m + p <= Len(s),
         NEW d, NEW j, NEW a \in Int, Runs(d, j, s, a)
  PROVE  Runs(d, j, SubSeq(s, m + p + 1, Len(s)), a + m + p)
<1> DEFINE r == SubSeq(s, m + p + 1, Len(s))
<1>0. Len(s) \in Nat
  BY LenProperties
<1>1. Len(r) = Len(s) - m - p /\ \A n \in 1..Len(s) - m - p : r[n] = s[m + p + n]
  BY <1>0, SubSeqProperties
<1> HIDE DEF r
<1>2. ASSUME NEW n \in 1..Len(r) PROVE r[n] = Token(d, j, (a + m + p) + n)
  <2>1. m + p + n \in 1..Len(s) /\ r[n] = s[m + p + n] /\ a + (m + p + n) = (a + m + p) + n
    BY <1>0, <1>1
  <2>2. s[m + p + n] = Token(d, j, a + (m + p + n))
    BY <2>1 DEF Runs
  <2>3. QED
    BY <2>1, <2>2
<1>3. QED
  BY <1>2 DEF Runs, r

\* And where the tokens after a gap of them have gone.
LEMMA JoinedRuns ==
  ASSUME NEW s \in Seq(Tokens), NEW t \in Seq(Tokens), NEW m \in Nat, NEW p \in Nat, m + p <= Len(s),
         NEW d, NEW i, NEW j, NEW a \in Int, NEW b \in Int, Runs(d, i, t, b),
         p > 0 => Runs(d, j, s, a) /\ b + Len(t) = a + m /\ (a + m >= 0 \/ (i = 0 /\ j = 1))
  PROVE  Runs(d, i, t \o SubSeq(s, m + 1, m + p), b)
<1> DEFINE u == t \o SubSeq(s, m + 1, m + p)
<1>0. Len(s) \in Nat /\ Len(t) \in Nat
  BY LenProperties
<1>1. /\ Len(u) = Len(t) + p
      /\ \A n \in 1..Len(t) : u[n] = t[n]
      /\ \A n \in 1..p : u[Len(t) + n] = s[m + n]
  BY ONLY Moving, s \in Seq(Tokens), t \in Seq(Tokens), m \in Nat, p \in Nat, m + p <= Len(s)
<1> HIDE DEF u
<1>2. ASSUME NEW n \in 1..Len(u) PROVE u[n] = Token(d, i, b + n)
  <2>1. CASE n <= Len(t)
    <3>1. n \in 1..Len(t)
      BY <1>0, <1>1, <2>1
    <3>2. u[n] = t[n]
      BY <1>1, <3>1
    <3>3. QED
      BY <3>1, <3>2 DEF Runs
  <2>2. CASE n > Len(t)
    <3> DEFINE l == n - Len(t)
    <3>1. l \in 1..p /\ Len(t) + l = n /\ p > 0
      BY <1>0, <1>1, <2>2
    <3>2. Runs(d, j, s, a) /\ b + Len(t) = a + m /\ (a + m >= 0 \/ (i = 0 /\ j = 1))
      BY <3>1
    <3> HIDE DEF l
    <3>3. l \in Int /\ l >= 1 /\ b + n = a + (m + l) /\ m + l \in 1..Len(s)
      BY <1>0, <3>1, <3>2
    <3>4. u[n] = s[m + l]
      BY <1>1, <3>1
    <3>5. s[m + l] = Token(d, j, a + (m + l))
      BY <3>2, <3>3 DEF Runs
    <3>6. a + (m + l) > 0 \/ (i = 0 /\ j = 1)
      BY ONLY <3>2, <3>3, m \in Nat, a \in Int
    <3>7. Token(d, j, a + (m + l)) = Token(d, i, a + (m + l))
      BY <3>6 DEF Token
    <3>8. QED
      BY <3>3, <3>4, <3>5, <3>7
  <2>3. QED
    BY <1>0, <1>1, <2>1, <2>2
<1>3. QED
  BY <1>2 DEF Runs, u

\* Nothing is in order at any place.
LEMMA EmptyRuns == ASSUME NEW d, NEW k, NEW a PROVE Runs(d, k, <<>>, a)
BY DEF Runs

\* One token more.
LEMMA LongerRuns ==
  ASSUME NEW s \in Seq(Tokens), NEW d, NEW k, NEW a \in Int, NEW t \in Tokens,
         Runs(d, k, s, a), t = Token(d, k, a + Len(s) + 1)
  PROVE  /\ s \o <<t>> \in Seq(Tokens) /\ Len(s \o <<t>>) = Len(s) + 1
         /\ Runs(d, k, s \o <<t>>, a)
<1> DEFINE u == s \o <<t>>
<1>1. u \in Seq(Tokens) /\ Len(u) = Len(s) + 1
  BY ConcatProperties
<1>2. \A i \in 1..Len(s) : u[i] = s[i]
  BY ConcatProperties
<1>3. u[Len(s) + 1] = t
  BY ConcatProperties
<1> HIDE DEF u
<1>4. ASSUME NEW i \in 1..Len(u) PROVE u[i] = Token(d, k, a + i)
  BY <1>1, <1>2, <1>3 DEF Runs
<1>5. QED
  BY <1>1, <1>4 DEF Runs, u

-----------------------------------------------------------------------------
(* Chains of stages.                                                       *)

Link(x) ==
  /\ \A k \in 0..5 : Stage(x, k) \in Seq(Tokens) /\ Gap(x, k) \in Int
  /\ Sent(x) \in Nat

\* The stages are sequences, and their sizes numbers.
LEMMA LensAre == ASSUME NEW x, Link(x) PROVE \A k \in 0..5 : Size(x, k) \in Nat
BY LenProperties DEF Link, Size

\* The places of a chain, from the ear on.
LEMMA Places0 ==
  ASSUME NEW x, Link(x)
  PROVE  /\ \A k \in 0..6 : At(x, k) \in Int
         /\ At(x, 0) = Gap(x, 0)
         /\ \A k \in 1..5 : At(x, k) = At(x, k - 1) + Size(x, k - 1) + Gap(x, k)
         /\ At(x, 6) = At(x, 5) + Size(x, 5)
<1>1. /\ Size(x, 0) \in Nat /\ Size(x, 1) \in Nat /\ Size(x, 2) \in Nat
      /\ Size(x, 3) \in Nat /\ Size(x, 4) \in Nat /\ Size(x, 5) \in Nat
  BY LensAre
<1>2. /\ Gap(x, 0) \in Int /\ Gap(x, 1) \in Int /\ Gap(x, 2) \in Int
      /\ Gap(x, 3) \in Int /\ Gap(x, 4) \in Int /\ Gap(x, 5) \in Int
  BY DEF Link
<1>3. At(x, 0) = Gap(x, 0) /\ At(x, 1) = At(x, 0) + Size(x, 0) + Gap(x, 1) /\ At(x, 1) \in Int
  BY <1>1, <1>2 DEF At
<1>4. At(x, 2) = At(x, 1) + Size(x, 1) + Gap(x, 2)
  BY DEF At
<1>5. At(x, 3) = At(x, 2) + Size(x, 2) + Gap(x, 3)
  BY DEF At
<1>6. At(x, 4) = At(x, 3) + Size(x, 3) + Gap(x, 4)
  BY DEF At
<1>7. At(x, 5) = At(x, 4) + Size(x, 4) + Gap(x, 5)
  BY DEF At
<1>8. At(x, 6) = At(x, 5) + Size(x, 5)
  BY DEF At
<1>9. /\ At(x, 0) \in Int /\ At(x, 2) \in Int /\ At(x, 3) \in Int /\ At(x, 4) \in Int /\ At(x, 5) \in Int
      /\ At(x, 6) \in Int
  BY <1>1, <1>2, <1>3, <1>4, <1>5, <1>6, <1>7, <1>8
<1>10. \A k \in 0..6 : At(x, k) \in Int
  <2> TAKE k \in 0..6
  <2>1. k \in {0, 1, 2, 3, 4, 5, 6}
    OBVIOUS
  <2>2. QED
    BY <1>3, <1>9, <2>1
<1>11. \A k \in 1..5 : At(x, k) = At(x, k - 1) + Size(x, k - 1) + Gap(x, k)
  <2> TAKE k \in 1..5
  <2>1. k \in {1, 2, 3, 4, 5}
    OBVIOUS
  <2>2. QED
    BY <1>3, <1>4, <1>5, <1>6, <1>7, <2>1
<1>12. QED
  BY <1>3, <1>8, <1>10, <1>11

\* Tokens are taken from a stage.
Takes(x, y, k, m, p) ==
  /\ m + p <= Size(x, k)
  /\ Stage(y, k - 1) = Stage(x, k - 1) \o SubSeq(Stage(x, k), m + 1, m + p)
  /\ Stage(y, k) = SubSeq(Stage(x, k), m + p + 1, Size(x, k))
  /\ \A i \in 0..5 : i # k - 1 /\ i # k => Stage(y, i) = Stage(x, i)
  /\ \A i \in 0..5 : Gap(y, i) = IF i = k THEN Gap(x, k) + m ELSE Gap(x, i)
  /\ \A i \in 0..6 : Clear(y, i) => Clear(x, i)
  /\ Sent(y) = Sent(x)

\* A stage takes the first tokens of a later one, and nothing is between them.
LEMMA Taken ==
  ASSUME NEW d, NEW x, NEW y, Link(x), Chain(d, x),
         NEW k \in 1..5, NEW m \in Nat, NEW p \in Nat, Takes(x, y, k, m, p),
         p > 0 => Gap(x, k) = -m, p > 0 /\ Clear(y, k - 1) => Clear(x, k),
         p > 0 /\ Clear(x, k) => k = 1 \/ At(x, k) + m >= 0
  PROVE  Link(y) /\ Chain(d, y) /\ At(y, 6) = At(x, 6)
<1> DEFINE s == Stage(x, k)
           t == Stage(x, k - 1)
           u == t \o SubSeq(s, m + 1, m + p)
           r == SubSeq(s, m + p + 1, Len(s))
<1>0. k \in 0..5 /\ k - 1 \in 0..5 /\ k \in 0..6 /\ k - 1 \in 0..6 /\ k # 6 /\ k - 1 # 6 /\ k - 1 # k
  OBVIOUS
<1>1. s \in Seq(Tokens) /\ t \in Seq(Tokens) /\ m + p <= Len(s)
  <2>1. s \in Seq(Tokens) /\ t \in Seq(Tokens)
    BY <1>0 DEF Link
  <2>2. m + p <= Len(s)
    BY DEF Takes, Size
  <2>3. QED
    BY <2>1, <2>2
<1>1a. Size(x, k) = Len(s) /\ Size(x, k - 1) = Len(t) /\ m + p <= Size(x, k) /\ Sent(y) = Sent(x)
  BY DEF Size, Takes
<1>1b. Sent(x) \in Int /\ \A i \in 0..5 : Stage(x, i) \in Seq(Tokens) /\ Gap(x, i) \in Int
  BY DEF Link
<1>1c. \A i \in 0..5 : Gap(y, i) = IF i = k THEN Gap(x, k) + m ELSE Gap(x, i)
  BY DEF Takes
<1>1d. Stage(y, k - 1) = t \o SubSeq(s, m + 1, m + p) /\ Stage(y, k) = SubSeq(s, m + p + 1, Size(x, k))
  BY DEF Takes
<1> HIDE DEF s, t
<1>2. /\ u \in Seq(Tokens) /\ Len(u) = Len(t) + p
      /\ r \in Seq(Tokens) /\ Len(r) = Len(s) - m - p
  BY ONLY <1>1, Moving, m \in Nat, p \in Nat
<1>3. Stage(y, k - 1) = u /\ Stage(y, k) = r
  BY <1>1a, <1>1d
<1>4. Size(y, k - 1) = Size(x, k - 1) + p /\ Size(y, k) = Size(x, k) - m - p
  <2>1. Size(y, k - 1) = Len(u) /\ Size(y, k) = Len(r)
    BY <1>3 DEF Size
  <2>2. QED
    BY <1>1a, <1>2, <2>1
<1>5. \A i \in 0..5 : i # k - 1 /\ i # k => Stage(y, i) = Stage(x, i) /\ Size(y, i) = Size(x, i)
  BY DEF Takes, Size
<1>6. Link(y)
  <2>1. \A i \in 0..5 : Stage(y, i) \in Seq(Tokens)
    <3> TAKE i \in 0..5
    <3> HIDE DEF u, r
    <3>1. QED
      BY <1>2, <1>3, <1>5 DEF Link
  <2>2. \A i \in 0..5 : Gap(y, i) \in Int
    <3> TAKE i \in 0..5
    <3>1. Gap(x, k) \in Int /\ Gap(x, i) \in Int
      BY <1>0, <1>1b
    <3>2. QED
      BY <1>1c, <3>1
  <2>3. QED
    BY <1>1a, <2>1, <2>2 DEF Link
<1> HIDE DEF u, r
<1>7a. \A i \in 0..5 : Size(x, i) \in Nat /\ Gap(x, i) \in Int
  BY ONLY Link(x), LensAre DEF Link
<1>7b. \A i \in 0..5 : Size(y, i) \in Nat /\ Gap(y, i) \in Int
  BY ONLY <1>6, LensAre DEF Link
<1>7c. \A i \in 0..6 : At(x, i) \in Int
  BY ONLY Link(x), Places0
<1>7d. \A i \in 0..6 : At(y, i) \in Int
  BY <1>6, Places0
<1>7. /\ At(x, k) \in Int /\ At(x, k - 1) \in Int
      /\ Size(x, k) \in Int /\ Size(x, k - 1) \in Int
  <2>1. At(x, k) \in Int /\ At(x, k - 1) \in Int
    BY <1>0, <1>7c
  <2>2. Size(x, k) \in Int /\ Size(x, k - 1) \in Int
    BY <1>0, <1>7a
  <2>3. QED
    BY <2>1, <2>2
<1> DEFINE Same(i) == At(y, i) = IF i = k THEN At(x, k) + m + p ELSE At(x, i)
<1>8. ASSUME NEW i \in 1..5, Same(i - 1) PROVE Same(i)
  <2>1. i - 1 \in 0..5 /\ i \in 0..5 /\ i - 1 \in 0..6 /\ i \in 0..6 /\ k - 1 \in 0..5 /\ k \in 0..5
    OBVIOUS
  <2>2. At(x, i) = At(x, i - 1) + Size(x, i - 1) + Gap(x, i) /\ At(y, i) = At(y, i - 1) + Size(y, i - 1) + Gap(y, i)
    BY <1>6, Places0
  <2>3. Gap(y, i) = IF i = k THEN Gap(x, k) + m ELSE Gap(x, i)
    BY <2>1 DEF Takes
  <2>4. /\ Size(x, i - 1) \in Int /\ Size(y, i - 1) \in Int /\ Gap(x, i) \in Int
        /\ At(x, i - 1) \in Int /\ At(x, i) \in Int /\ m \in Int /\ p \in Int
    BY <1>7a, <1>7b, <1>7c, <2>1
  <2>5. CASE i = k
    BY ONLY <1>4, <1>8, <2>2, <2>3, <2>4, <2>5
  <2>6. CASE i = k + 1
    BY ONLY <1>4, <1>8, <2>2, <2>3, <2>4, <2>6, k \in 1..5
  <2>7. CASE i # k /\ i # k + 1
    <3>1. i - 1 # k /\ i - 1 # k - 1
      BY <2>7
    <3>2. Size(y, i - 1) = Size(x, i - 1)
      BY <1>5, <2>1, <3>1
    <3>3. QED
      BY ONLY <1>8, <2>2, <2>3, <2>4, <2>7, <3>1, <3>2
  <2>8. QED
    BY <2>5, <2>6, <2>7
<1>9. \A i \in 0..6 : Same(i)
  <2>1. Same(0)
    <3>1. At(x, 0) = Gap(x, 0) /\ At(y, 0) = Gap(y, 0)
      BY <1>6, Places0
    <3>2. Gap(y, 0) = Gap(x, 0) /\ 0 # k
      BY <1>1c
    <3>3. QED
      BY <3>1, <3>2
  <2>2. Same(1)
    BY <1>8, <2>1
  <2>3. Same(2)
    BY <1>8, <2>2
  <2>4. Same(3)
    BY <1>8, <2>3
  <2>5. Same(4)
    BY <1>8, <2>4
  <2>6. Same(5)
    BY <1>8, <2>5
  <2>7. Same(6)
    <3>1. At(x, 6) = At(x, 5) + Size(x, 5) /\ At(y, 6) = At(y, 5) + Size(y, 5)
      BY <1>6, Places0
    <3>2. Size(x, 5) \in Int /\ At(x, 5) \in Int /\ m \in Int /\ p \in Int
      BY <1>7a, <1>7c
    <3>3. CASE k = 5
      BY ONLY <1>4, <2>6, <3>1, <3>2, <3>3
    <3>4. CASE k # 5
      <4>1. Size(y, 5) = Size(x, 5)
        BY <1>5, <3>4
      <4>2. QED
        BY <2>6, <3>1, <3>4, <4>1
    <3>5. QED
      BY <3>3, <3>4
  <2>8. ASSUME NEW i \in 0..6 PROVE i \in {0, 1, 2, 3, 4, 5, 6}
    OBVIOUS
  <2> HIDE DEF Same
  <2>9. QED
    BY <2>1, <2>2, <2>3, <2>4, <2>5, <2>6, <2>7, <2>8
<1>10. ASSUME NEW i \in 0..6, Clear(y, i) PROVE Good(d, y, i)
  <2>1. Clear(x, i) /\ Good(d, x, i)
    BY <1>10 DEF Takes, Chain
  <2>2. CASE i = 6
    <3>1. At(y, 6) = At(x, 6) /\ Sent(y) = Sent(x)
      BY <1>9 DEF Takes
    <3>2. QED
      BY <2>1, <2>2, <3>1 DEF Good
  <2>3. CASE i # 6 /\ i # k - 1 /\ i # k
    <3>1. Stage(y, i) = Stage(x, i) /\ Size(y, i) = Size(x, i) /\ At(y, i) = At(x, i) /\ Sent(y) = Sent(x)
      BY <1>5, <1>9, <2>3 DEF Takes
    <3>2. QED
      BY <2>1, <2>3, <3>1 DEF Good
  <2>4. CASE i = k
    <3>1. /\ At(y, k) = At(x, k) + m + p /\ Sent(y) = Sent(x) /\ k # 6
          /\ At(x, k) \in Int /\ Size(x, k) \in Int /\ m \in Nat /\ p \in Nat
      <4>1. At(y, k) = At(x, k) + m + p
        BY <1>0, <1>9
      <4>2. QED
        BY <1>0, <1>1a, <1>7, <4>1
    <3>2. Runs(d, k, s, At(x, k)) /\ At(x, k) + Size(x, k) <= Sent(x) /\ (k \in {2, 4} => At(x, k) >= 0)
      BY <2>1, <2>4, <3>1 DEF Good, s
    <3>3. Runs(d, k, r, At(x, k) + m + p)
      BY ONLY <1>1, <3>1, <3>2, RestRuns DEF r
    <3>4. Runs(d, k, Stage(y, k), At(y, k))
      BY <1>3, <3>1, <3>3
    <3>5. At(y, k) + Size(y, k) <= Sent(y) /\ (k \in {2, 4} => At(y, k) >= 0)
      BY ONLY <1>4, <3>1, <3>2
    <3>6. QED
      BY <2>4, <3>1, <3>4, <3>5 DEF Good
  <2>5. CASE i = k - 1
    <3>1. /\ At(y, k - 1) = At(x, k - 1) /\ Sent(y) = Sent(x) /\ k - 1 # 6
          /\ At(x, k - 1) \in Int /\ Size(x, k - 1) \in Int /\ At(x, k) \in Int /\ Size(x, k) \in Int
          /\ Sent(x) \in Int
      <4>1. At(y, k - 1) = At(x, k - 1)
        BY <1>0, <1>9
      <4>2. QED
        BY <1>0, <1>1a, <1>1b, <1>7, <4>1
    <3>2. Runs(d, k - 1, t, At(x, k - 1)) /\ At(x, k - 1) + Size(x, k - 1) <= Sent(x) /\ (k - 1 \in {2, 4} => At(x, k - 1) >= 0)
      BY <2>1, <2>5, <3>1 DEF Good, t
    <3>3. ASSUME p > 0
          PROVE  /\ Runs(d, k, s, At(x, k)) /\ At(x, k) + Size(x, k) <= Sent(x)
                 /\ At(x, k - 1) + Size(x, k - 1) = At(x, k) + m
                 /\ k = 1 \/ At(x, k) + m >= 0
      <4>1. Clear(x, k) /\ Gap(x, k) = -m
        BY <1>10, <2>5, <3>3
      <4>2. Good(d, x, k) /\ k # 6
        BY <4>1 DEF Chain
      <4>3. At(x, k) = At(x, k - 1) + Size(x, k - 1) + Gap(x, k)
        BY Places0
      <4>4. At(x, k - 1) + Size(x, k - 1) = At(x, k) + m
        BY ONLY <3>1, <4>1, <4>3, m \in Nat
      <4>5. k = 1 \/ At(x, k) + m >= 0
        BY <3>3, <4>1
      <4>6. QED
        BY <4>2, <4>4, <4>5 DEF Good, s
    <3>4. Runs(d, k - 1, u, At(x, k - 1))
      <4>1. Size(x, k - 1) = Len(t)
        BY <1>1a
      <4>2. p > 0 => /\ Runs(d, k, s, At(x, k)) /\ At(x, k - 1) + Len(t) = At(x, k) + m
                     /\ At(x, k) + m >= 0 \/ (k - 1 = 0 /\ k = 1)
        <5>1. HAVE p > 0
        <5>2. QED
          <6>1. At(x, k - 1) + Len(t) = At(x, k) + m
            BY ONLY <3>3, <4>1, <5>1, Zenon
          <6>2. k = 1 \/ At(x, k) + m >= 0
            BY <3>3, <5>1
          <6>3. k = 1 => k - 1 = 0
            OBVIOUS
          <6>4. QED
            BY ONLY <3>3, <5>1, <6>1, <6>2, <6>3, Zenon
      <4>3. QED
        BY ONLY <1>1, <3>1, <3>2, <4>2, JoinedRuns, m \in Nat, p \in Nat DEF u
    <3>5. Runs(d, k - 1, Stage(y, k - 1), At(y, k - 1))
      BY <1>3, <3>1, <3>4
    <3>6. At(y, k - 1) + Size(y, k - 1) <= Sent(y)
      <4>1. CASE p > 0
        <5>1. m + p <= Size(x, k)
          BY <1>1a
        <5>2. QED
          BY ONLY <1>4, <3>1, <3>3, <4>1, <5>1, m \in Nat, p \in Nat
      <4>2. CASE p = 0
        BY <1>4, <3>1, <3>2, <4>2
      <4>3. QED
        BY <4>1, <4>2
    <3>7. QED
      BY <2>5, <3>1, <3>2, <3>5, <3>6 DEF Good
  <2>6. QED
    BY <2>2, <2>3, <2>4, <2>5
<1>11. At(y, 6) = At(x, 6)
  BY <1>9
<1>12. QED
  BY <1>6, <1>10, <1>11 DEF Chain

\* What is known of the numbers of a chain.
LEMMA Grounds ==
  ASSUME NEW x, Link(x)
  PROVE  /\ Size(x, 0) \in Nat /\ Size(x, 1) \in Nat /\ Size(x, 2) \in Nat
         /\ Size(x, 3) \in Nat /\ Size(x, 4) \in Nat /\ Size(x, 5) \in Nat
         /\ Gap(x, 0) \in Int /\ Gap(x, 1) \in Int /\ Gap(x, 2) \in Int
         /\ Gap(x, 3) \in Int /\ Gap(x, 4) \in Int /\ Gap(x, 5) \in Int
         /\ At(x, 0) \in Int /\ At(x, 1) \in Int /\ At(x, 2) \in Int /\ At(x, 3) \in Int
         /\ At(x, 4) \in Int /\ At(x, 5) \in Int /\ At(x, 6) \in Int
         /\ At(x, 0) = Gap(x, 0) /\ At(x, 1) = At(x, 0) + Size(x, 0) + Gap(x, 1)
         /\ At(x, 2) = At(x, 1) + Size(x, 1) + Gap(x, 2) /\ At(x, 3) = At(x, 2) + Size(x, 2) + Gap(x, 3)
         /\ At(x, 4) = At(x, 3) + Size(x, 3) + Gap(x, 4) /\ At(x, 5) = At(x, 4) + Size(x, 4) + Gap(x, 5)
         /\ At(x, 6) = At(x, 5) + Size(x, 5)
<1>1. \A k \in 0..5 : Size(x, k) \in Nat
  BY LensAre
<1>2. \A k \in 0..5 : Gap(x, k) \in Int
  BY DEF Link
<1>3. \A k \in 0..6 : At(x, k) \in Int
  BY Places0
<1>4. At(x, 0) = Gap(x, 0) /\ At(x, 6) = At(x, 5) + Size(x, 5)
  BY Places0
<1>5. /\ At(x, 1) = At(x, 0) + Size(x, 0) + Gap(x, 1)
      /\ At(x, 2) = At(x, 1) + Size(x, 1) + Gap(x, 2) /\ At(x, 3) = At(x, 2) + Size(x, 2) + Gap(x, 3)
      /\ At(x, 4) = At(x, 3) + Size(x, 3) + Gap(x, 4) /\ At(x, 5) = At(x, 4) + Size(x, 4) + Gap(x, 5)
  BY DEF At
<1>6. QED
  BY <1>1, <1>2, <1>3, <1>4, <1>5

\* There are six stages and seven places.
LEMMA Stages == /\ \A i \in 0..6 : i \in {0, 1, 2, 3, 4, 5, 6}
                /\ \A i \in 0..5 : i \in {0, 1, 2, 3, 4, 5}
OBVIOUS

\* A stage that reaches the ear is followed by one that does.
LEMMA ClearBelow ==
  ASSUME NEW x, NEW i \in 0..6, NEW j \in 0..6, j <= i, Clear(x, i)
  PROVE  Clear(x, j)
BY Stages DEF Clear

\* What is said is not changed by what is lost on the way: a stage is emptied only with
\* everything before it.
LEMMA Torn ==
  ASSUME NEW d, NEW x, NEW y, Link(x), Link(y), Chain(d, x), Sent(y) = Sent(x),
         \A i \in 0..6 : Clear(y, i) => Clear(x, i),
         \A i \in 0..5 : Clear(y, i) =>
           \/ Stage(y, i) = Stage(x, i) /\ Gap(y, i) = Gap(x, i)
           \/ Stage(y, i) = <<>> /\ ~Clear(y, i + 1) /\ (Gap(y, i) = Gap(x, i) \/ Gap(y, i) = 0) /\ i \in {1, 3, 5}
  PROVE  Chain(d, y)
<1> DEFINE Keeps(i) == Stage(y, i) = Stage(x, i) /\ Gap(y, i) = Gap(x, i)
           Empties(i) == Stage(y, i) = <<>> /\ ~Clear(y, i + 1) /\ (Gap(y, i) = Gap(x, i) \/ Gap(y, i) = 0) /\ i \in {1, 3, 5}
<1>1. ASSUME NEW i \in 0..5, Clear(y, i + 1) PROVE Keeps(i) /\ Size(y, i) = Size(x, i)
  <2>1. i + 1 \in 0..6 /\ i \in 0..6 /\ i <= i + 1
    OBVIOUS
  <2>2. Clear(y, i)
    BY ONLY <1>1, <2>1, ClearBelow
  <2>3. Keeps(i)
    BY <1>1, <2>2
  <2>4. QED
    BY <2>3 DEF Size
<1>2. At(x, 0) = Gap(x, 0) /\ At(y, 0) = Gap(y, 0)
  BY Grounds
<1>3. Clear(y, 0) => Keeps(0) \/ Empties(0)
  OBVIOUS
<1>4. ASSUME NEW i \in 0..5, Clear(y, i + 1) PROVE At(y, i) = At(x, i) /\ Keeps(i) /\ Size(y, i) = Size(x, i)
  <2> DEFINE Here(n) == Clear(y, n + 1) => At(y, n) = At(x, n) /\ Keeps(n) /\ Size(y, n) = Size(x, n)
  <2>1. Here(0)
    BY <1>1, <1>2
  <2>2. ASSUME NEW n \in 1..5, Here(n - 1) PROVE Here(n)
    <3>1. HAVE Clear(y, n + 1)
    <3>2. n \in 0..5 /\ n - 1 \in 0..5 /\ n + 1 \in 0..6 /\ n \in 0..6 /\ n <= n + 1 /\ (n - 1) + 1 = n
      OBVIOUS
    <3>3. Clear(y, (n - 1) + 1)
      BY ONLY <3>1, <3>2, ClearBelow
    <3>4. Keeps(n) /\ Size(y, n) = Size(x, n)
      BY <1>1, <3>1, <3>2
    <3>5. At(y, n - 1) = At(x, n - 1) /\ Size(y, n - 1) = Size(x, n - 1)
      BY <2>2, <3>3
    <3>6. At(x, n) = At(x, n - 1) + Size(x, n - 1) + Gap(x, n) /\ At(y, n) = At(y, n - 1) + Size(y, n - 1) + Gap(y, n)
      BY Places0
    <3>7. QED
      BY <3>4, <3>5, <3>6
  <2> HIDE DEF Here
  <2>3. Here(1)
    BY <2>1, <2>2
  <2>4. Here(2)
    BY <2>2, <2>3
  <2>5. Here(3)
    BY <2>2, <2>4
  <2>6. Here(4)
    BY <2>2, <2>5
  <2>7. Here(5)
    BY <2>2, <2>6
  <2>8. Here(i)
    BY ONLY <2>1, <2>3, <2>4, <2>5, <2>6, <2>7, Stages, i \in 0..5
  <2>9. QED
    BY <1>4, <2>8 DEF Here
<1>5. ASSUME NEW i \in 0..6, Clear(y, i) PROVE Good(d, y, i)
  <2>1. Clear(x, i) /\ Good(d, x, i)
    BY <1>5 DEF Chain
  <2>2. CASE i = 6
    <3>1. At(y, 5) = At(x, 5) /\ Size(y, 5) = Size(x, 5)
      BY <1>4, <1>5, <2>2
    <3>2. At(x, 6) = At(x, 5) + Size(x, 5) /\ At(y, 6) = At(y, 5) + Size(y, 5)
      BY Places0
    <3>3. QED
      BY <2>1, <2>2, <3>1, <3>2 DEF Good
  <2>3. CASE i = 0
    <3>1. Stage(y, 0) = Stage(x, 0) /\ Gap(y, 0) = Gap(x, 0)
      BY <1>5, <2>3
    <3>2. Size(y, 0) = Size(x, 0)
      BY <3>1 DEF Size
    <3>3. QED
      BY <1>2, <2>1, <2>3, <3>1, <3>2 DEF Good
  <2>4. CASE i \in 1..5
    <3>1. i - 1 \in 0..5 /\ i - 1 \in 0..6 /\ i - 1 <= i /\ (i - 1) + 1 = i /\ i \in 0..5 /\ i # 6 /\ i - 1 # 6
      BY <2>4
    <3>2. At(y, i - 1) = At(x, i - 1) /\ Size(y, i - 1) = Size(x, i - 1)
      BY <1>4, <1>5, <3>1
    <3>3. At(x, i) = At(x, i - 1) + Size(x, i - 1) + Gap(x, i) /\ At(y, i) = At(y, i - 1) + Size(y, i - 1) + Gap(y, i)
      BY <2>4, Places0
    <3>4. /\ At(x, i - 1) \in Int /\ At(x, i) \in Int
      BY <3>1, Places0
    <3>5. Size(x, i - 1) \in Nat /\ Size(x, i) \in Nat
      BY <3>1, LensAre
    <3>6. CASE Keeps(i)
      <4>1. Size(y, i) = Size(x, i) /\ At(y, i) = At(x, i)
        <5>1. Size(y, i) = Size(x, i)
          BY <3>6 DEF Size
        <5>2. QED
          BY <3>2, <3>3, <3>6, <5>1
      <4>2. QED
        BY <2>1, <3>1, <3>6, <4>1 DEF Good
    <3>7. CASE Empties(i)
      <4>1. Size(y, i) = 0
        BY <3>7 DEF Size
      <4>2. Runs(d, i, Stage(y, i), At(y, i))
        BY <3>7, EmptyRuns
      <4>3. At(x, i) + Size(x, i) <= Sent(x)
        BY <2>1, <3>1 DEF Good
      <4>4. At(x, i - 1) + Size(x, i - 1) <= Sent(x)
        <5>1. Clear(x, i - 1)
          BY ONLY <2>1, <3>1, ClearBelow
        <5>2. Good(d, x, i - 1)
          BY <3>1, <5>1 DEF Chain
        <5>3. QED
          BY <3>1, <5>2 DEF Good
      <4>5. Sent(x) \in Int
        BY DEF Link
      <4>6. At(y, i) + Size(y, i) <= Sent(y)
        <5>1. CASE Gap(y, i) = Gap(x, i)
          BY ONLY <3>2, <3>3, <3>4, <3>5, <4>1, <4>3, <4>5, <5>1, Sent(y) = Sent(x)
        <5>2. CASE Gap(y, i) = 0
          BY ONLY <3>2, <3>3, <3>4, <3>5, <4>1, <4>4, <4>5, <5>2, Sent(y) = Sent(x)
        <5>3. QED
          BY <3>7, <5>1, <5>2
      <4>7. i \notin {2, 4}
        BY <3>7
      <4>8. QED
        BY <3>1, <4>2, <4>6, <4>7 DEF Good
    <3>8. QED
      BY <1>5, <3>1, <3>6, <3>7
  <2>5. QED
    BY <2>2, <2>3, <2>4
<1>6. QED
  BY <1>5 DEF Chain

\* A stage that stays where it is.
LEMMA Kept ==
  ASSUME NEW d, NEW x, NEW y, NEW i \in 0..5, Link(x), Link(y), Good(d, x, i),
         Stage(y, i) = Stage(x, i), At(y, i) = At(x, i), Sent(y) >= Sent(x)
  PROVE  Good(d, y, i)
<1>1. Size(y, i) = Size(x, i)
  BY DEF Size
<1>2. At(x, i) \in Int /\ Size(x, i) \in Nat /\ Sent(x) \in Nat /\ Sent(y) \in Nat
  <2>1. At(x, i) \in Int
    <3>1. i \in 0..6
      OBVIOUS
    <3>2. QED
      BY <3>1, Places0
  <2>2. Size(x, i) \in Nat
    BY LensAre
  <2>3. Sent(x) \in Nat /\ Sent(y) \in Nat
    BY DEF Link
  <2>4. QED
    BY <2>1, <2>2, <2>3
<1>3. i # 6
  OBVIOUS
<1>4. QED
  BY <1>1, <1>2, <1>3 DEF Good

\* The first token of a stage goes to the end of another.
LEMMA FirstGoes ==
  ASSUME NEW s \in Seq(Tokens), NEW t \in Seq(Tokens), Len(s) > 0,
         NEW d, NEW i, NEW j, NEW a \in Int, NEW b \in Int, Runs(d, j, s, a), Runs(d, i, t, b),
         b + Len(t) = a, a >= 0
  PROVE  /\ Len(t \o SubSeq(s, 1, 1)) = Len(t) + 1 /\ Len(SubSeq(s, 2, Len(s))) = Len(s) - 1
         /\ Runs(d, i, t \o SubSeq(s, 1, 1), b) /\ Runs(d, j, SubSeq(s, 2, Len(s)), a + 1)
<1> DEFINE m == 0
           p == 1
           q == SubSeq(s, m + 1, m + p)
           u == t \o q
           r == SubSeq(s, m + p + 1, Len(s))
<1>1. m \in Nat /\ p \in Nat
  OBVIOUS
<1>2. m + 1 = 1 /\ m + p = 1 /\ m + p + 1 = 2 /\ a + m = a /\ a + m + p = a + 1
  OBVIOUS
<1>3. \A n \in Int : n - m - p = n - 1 /\ n + p = n + 1
  OBVIOUS
<1>4. Len(s) \in Nat /\ Len(t) \in Nat /\ m + p <= Len(s)
  BY LenProperties
<1>5. q = SubSeq(s, 1, 1) /\ r = SubSeq(s, 2, Len(s))
  BY <1>2
<1> HIDE DEF m, p
<1>6. b + Len(t) = a + m /\ a + m >= 0
  BY <1>2
<1>7. Runs(d, j, r, a + m + p)
  BY ONLY <1>1, <1>4, s \in Seq(Tokens), a \in Int, Runs(d, j, s, a), RestRuns
<1>8. Runs(d, i, u, b)
  BY ONLY <1>1, <1>4, <1>6, s \in Seq(Tokens), t \in Seq(Tokens), a \in Int, b \in Int,
          Runs(d, j, s, a), Runs(d, i, t, b), JoinedRuns
<1>9. /\ u \in Seq(Tokens) /\ Len(u) = Len(t) + p
      /\ r \in Seq(Tokens) /\ Len(r) = Len(s) - m - p
  BY ONLY <1>1, <1>4, s \in Seq(Tokens), t \in Seq(Tokens), Moving
<1> HIDE DEF q, r, u
<1>10. Len(u) = Len(t) + 1 /\ Len(r) = Len(s) - 1 /\ Runs(d, j, r, a + 1)
  BY <1>2, <1>3, <1>4, <1>7, <1>9
<1>11. u = t \o SubSeq(s, 1, 1)
  BY <1>5 DEF u
<1>12. QED
  BY <1>5, <1>8, <1>10, <1>11

\* A byte goes from the middle link to the ear, where nothing is in between.
LEMMA HeardAfar ==
  ASSUME NEW d, NEW x, NEW y, Link(x), Link(y), Chain(d, x), Clear(x, 3), Size(x, 3) > 0, At(x, 3) >= 0,
         Stage(x, 1) = <<>>, Stage(x, 2) = <<>>, Gap(x, 1) = 0, Gap(x, 2) = 0, Gap(x, 3) = 0,
         Stage(y, 0) = Stage(x, 0) \o SubSeq(Stage(x, 3), 1, 1), Stage(y, 3) = SubSeq(Stage(x, 3), 2, Size(x, 3)),
         \A i \in {1, 2, 4, 5} : Stage(y, i) = Stage(x, i),
         \A i \in 0..5 : Gap(y, i) = Gap(x, i),
         \A i \in 0..6 : Clear(y, i) => Clear(x, i), Sent(y) = Sent(x)
  PROVE  Chain(d, y) /\ At(y, 6) = At(x, 6)
<1> DEFINE s == Stage(x, 3)
           t == Stage(x, 0)
           u == t \o SubSeq(s, 1, 1)
           r == SubSeq(s, 2, Len(s))
<1>1. s \in Seq(Tokens) /\ t \in Seq(Tokens)
  BY DEF Link
<1>2. Size(x, 3) = Len(s) /\ Size(x, 0) = Len(t) /\ Size(x, 1) = 0 /\ Size(x, 2) = 0 /\ Size(y, 1) = 0 /\ Size(y, 2) = 0
  BY DEF Size
<1>3. Stage(y, 0) = u /\ Stage(y, 3) = r
  BY <1>2
<1>4. Size(y, 4) = Size(x, 4) /\ Size(y, 5) = Size(x, 5)
  BY DEF Size
<1>5. Sent(x) \in Int
  BY DEF Link
<1> HIDE DEF s, t
<1>6. Len(s) > 0 /\ At(x, 0) \in Int /\ At(x, 3) \in Int
  BY <1>2, Grounds
<1>6a. At(x, 0) + Len(t) = At(x, 3)
  <2>1. At(x, 0) + Size(x, 0) = At(x, 3)
    <3>1. /\ At(x, 1) = At(x, 0) + Size(x, 0) + Gap(x, 1) /\ At(x, 2) = At(x, 1) + Size(x, 1) + Gap(x, 2)
          /\ At(x, 3) = At(x, 2) + Size(x, 2) + Gap(x, 3) /\ Size(x, 0) \in Nat
      BY Grounds
    <3>2. QED
      BY ONLY <1>2, <1>6, <3>1, Gap(x, 1) = 0, Gap(x, 2) = 0, Gap(x, 3) = 0
  <2>2. QED
    BY <1>2, <2>1
<1>6b. Runs(d, 3, s, At(x, 3)) /\ Runs(d, 0, t, At(x, 0)) 
  <2>1. Clear(x, 0)
    BY DEF Clear
  <2>2. QED
    BY <2>1 DEF Chain, Good, s, t
<1>7. /\ Len(u) = Len(t) + 1 /\ Len(r) = Len(s) - 1
      /\ Runs(d, 0, u, At(x, 0)) /\ Runs(d, 3, r, At(x, 3) + 1)
  BY ONLY <1>1, <1>6, <1>6a, <1>6b, FirstGoes, At(x, 3) >= 0
<1> HIDE DEF u, r
<1>8. Size(y, 0) = Size(x, 0) + 1 /\ Size(y, 3) = Size(x, 3) - 1
  <2>1. Size(y, 0) = Len(u) /\ Size(y, 3) = Len(r)
    BY <1>3 DEF Size
  <2>2. QED
    BY <1>2, <1>7, <2>1
<1>9. /\ At(y, 0) = At(x, 0) /\ At(y, 1) = At(x, 1) + 1 /\ At(y, 2) = At(x, 2) + 1 /\ At(y, 3) = At(x, 3) + 1
      /\ At(y, 4) = At(x, 4) /\ At(y, 5) = At(x, 5) /\ At(y, 6) = At(x, 6)
      /\ At(x, 0) + Size(x, 0) = At(x, 3) /\ At(x, 1) = At(x, 3) /\ At(x, 2) = At(x, 3)
  <2>1. /\ Gap(y, 0) = Gap(x, 0) /\ Gap(y, 1) = Gap(x, 1) /\ Gap(y, 2) = Gap(x, 2) /\ Gap(y, 3) = Gap(x, 3)
        /\ Gap(y, 4) = Gap(x, 4) /\ Gap(y, 5) = Gap(x, 5)
    OBVIOUS
  <2>2. /\ At(x, 0) = Gap(x, 0) /\ At(y, 0) = Gap(y, 0)
    BY Grounds
  <2>3. Size(x, 0) \in Nat /\ Size(x, 3) \in Nat /\ Size(x, 4) \in Nat /\ Size(x, 5) \in Nat
    BY Grounds
  <2>4. /\ At(x, 0) \in Int /\ At(x, 3) \in Int /\ At(x, 4) \in Int /\ At(x, 5) \in Int
        /\ Gap(x, 4) \in Int /\ Gap(x, 5) \in Int
    BY Grounds
  <2>5. /\ At(x, 1) = At(x, 0) + Size(x, 0) + Gap(x, 1) /\ At(y, 1) = At(y, 0) + Size(y, 0) + Gap(y, 1)
        /\ At(x, 2) = At(x, 1) + Size(x, 1) + Gap(x, 2) /\ At(y, 2) = At(y, 1) + Size(y, 1) + Gap(y, 2)
        /\ At(x, 3) = At(x, 2) + Size(x, 2) + Gap(x, 3) /\ At(y, 3) = At(y, 2) + Size(y, 2) + Gap(y, 3)
    BY Grounds
  <2>6. /\ At(x, 4) = At(x, 3) + Size(x, 3) + Gap(x, 4) /\ At(y, 4) = At(y, 3) + Size(y, 3) + Gap(y, 4)
        /\ At(x, 5) = At(x, 4) + Size(x, 4) + Gap(x, 5) /\ At(y, 5) = At(y, 4) + Size(y, 4) + Gap(y, 5)
        /\ At(x, 6) = At(x, 5) + Size(x, 5) /\ At(y, 6) = At(y, 5) + Size(y, 5)
    BY Grounds
  <2>7. /\ At(y, 0) = At(x, 0) /\ At(y, 1) = At(x, 1) + 1 /\ At(y, 2) = At(x, 2) + 1 /\ At(y, 3) = At(x, 3) + 1
        /\ At(x, 0) + Size(x, 0) = At(x, 3) /\ At(x, 1) = At(x, 3) /\ At(x, 2) = At(x, 3)
    BY ONLY <1>2, <1>8, <2>1, <2>2, <2>3, <2>4, <2>5, Gap(x, 1) = 0, Gap(x, 2) = 0, Gap(x, 3) = 0
  <2>8. At(y, 4) = At(x, 4) /\ At(y, 5) = At(x, 5) /\ At(y, 6) = At(x, 6)
    BY ONLY <1>4, <1>8, <2>1, <2>3, <2>4, <2>6, <2>7
  <2>9. QED
    BY ONLY <2>7, <2>8
<1>10. /\ At(x, 0) \in Int /\ At(x, 3) \in Int /\ Size(x, 0) \in Nat /\ Size(x, 3) \in Nat
  BY Grounds
<1>11. Runs(d, 3, s, At(x, 3)) /\ At(x, 3) + Size(x, 3) <= Sent(x)
  BY DEF Chain, Good, s
<1>12. ASSUME NEW i \in 0..6, Clear(y, i) PROVE Good(d, y, i)
  <2>1. Clear(x, i) /\ Good(d, x, i)
    BY <1>12 DEF Chain
  <2>2. CASE i = 6
    BY <1>9, <2>1, <2>2 DEF Good
  <2>3. CASE i \in {4, 5}
    <3>1. i \in 0..5 /\ At(y, i) = At(x, i) /\ Stage(y, i) = Stage(x, i) /\ Sent(y) >= Sent(x)
      BY <1>5, <1>9, <2>3
    <3>2. QED
      BY ONLY <2>1, <3>1, Kept, Link(x), Link(y)
  <2>4. CASE i \in {1, 2}
    <3>1. Stage(y, i) = <<>> /\ Size(y, i) = 0 /\ At(y, i) = At(x, 3) + 1 /\ i # 6
      BY <1>2, <1>9, <2>4
    <3>2. Runs(d, i, Stage(y, i), At(y, i))
      BY <3>1, EmptyRuns
    <3>3. At(y, i) + Size(y, i) <= Sent(y) /\ At(y, i) >= 0
      BY ONLY <1>5, <1>10, <1>11, <3>1, Size(x, 3) > 0, At(x, 3) >= 0, Sent(y) = Sent(x)
    <3>4. QED
      BY <3>1, <3>2, <3>3 DEF Good
  <2>5. CASE i = 3
    <3>3. Runs(d, 3, Stage(y, 3), At(y, 3))
      BY <1>3, <1>7, <1>9
    <3>4. At(y, 3) + Size(y, 3) <= Sent(y)
      BY ONLY <1>8, <1>9, <1>10, <1>11, Sent(y) = Sent(x)
    <3>5. QED
      BY <2>5, <3>3, <3>4 DEF Good
  <2>6. CASE i = 0
    <3>4. Runs(d, 0, Stage(y, 0), At(y, 0))
      BY <1>3, <1>7, <1>9
    <3>5. At(y, 0) + Size(y, 0) <= Sent(y)
      BY ONLY <1>5, <1>8, <1>9, <1>10, <1>11, Size(x, 3) > 0, Sent(y) = Sent(x)
    <3>6. QED
      BY <2>6, <3>4, <3>5 DEF Good
  <2>7. QED
    BY ONLY <2>2, <2>3, <2>4, <2>5, <2>6, Stages, i \in 0..6
<1>13. QED
  BY <1>9, <1>12 DEF Chain

\* A party says one more, at a stage with nothing behind it.
LEMMA SaidMore ==
  ASSUME NEW d, NEW x, NEW y, Link(x), Link(y), Chain(d, x), NEW k \in {3, 5},
         Clear(y, k) => Clear(x, 6),
         k = 3 => Stage(x, 4) = <<>> /\ Stage(x, 5) = <<>> /\ Gap(x, 4) = 0 /\ Gap(x, 5) = 0,
         Stage(y, k) = Stage(x, k) \o <<Sent(x) + 1>>,
         \A i \in 0..5 : i # k => Stage(y, i) = Stage(x, i),
         \A i \in 0..5 : Gap(y, i) = Gap(x, i),
         \A i \in 0..6 : Clear(y, i) => Clear(x, i), Sent(y) = Sent(x) + 1
  PROVE  Chain(d, y) /\ At(y, 6) = At(x, 6) + 1
<1>1. Stage(x, k) \in Seq(Tokens) /\ Sent(x) \in Nat /\ Sent(x) + 1 \in Tokens
  <2>1. Stage(x, k) \in Seq(Tokens) /\ Sent(x) \in Nat
    <3>1. k \in 0..5
      OBVIOUS
    <3>2. QED
      BY <3>1 DEF Link
  <2>2. \A n \in Nat : n + 1 \in Tokens
    BY DEF Tokens
  <2>3. QED
    BY <2>1, <2>2
<1>2. Size(y, k) = Size(x, k) + 1
  <2> DEFINE s == Stage(x, k)
             n == Sent(x) + 1
  <2> HIDE DEF s, n
  <2>1. s \in Seq(Tokens) /\ n \in Tokens
    BY <1>1 DEF s, n
  <2>2. Len(s \o <<n>>) = Len(s) + 1
    BY <2>1, ConcatProperties
  <2>3. Stage(y, k) = s \o <<n>> /\ Stage(x, k) = s
    BY DEF s, n
  <2>4. Size(y, k) = Len(s \o <<n>>) /\ Size(x, k) = Len(s)
    BY <2>3 DEF Size
  <2>5. QED
    BY <2>2, <2>4
<1>3. \A i \in 0..5 : i # k => Size(y, i) = Size(x, i)
  BY DEF Size
<1>4. /\ At(x, 0) = Gap(x, 0) /\ At(y, 0) = Gap(y, 0)
      /\ At(x, 1) = At(x, 0) + Size(x, 0) + Gap(x, 1) /\ At(y, 1) = At(y, 0) + Size(y, 0) + Gap(y, 1)
      /\ At(x, 2) = At(x, 1) + Size(x, 1) + Gap(x, 2) /\ At(y, 2) = At(y, 1) + Size(y, 1) + Gap(y, 2)
      /\ At(x, 3) = At(x, 2) + Size(x, 2) + Gap(x, 3) /\ At(y, 3) = At(y, 2) + Size(y, 2) + Gap(y, 3)
  BY Grounds
<1>5. /\ At(x, 4) = At(x, 3) + Size(x, 3) + Gap(x, 4) /\ At(y, 4) = At(y, 3) + Size(y, 3) + Gap(y, 4)
      /\ At(x, 5) = At(x, 4) + Size(x, 4) + Gap(x, 5) /\ At(y, 5) = At(y, 4) + Size(y, 4) + Gap(y, 5)
      /\ At(x, 6) = At(x, 5) + Size(x, 5) /\ At(y, 6) = At(y, 5) + Size(y, 5)
  BY Grounds
<1>6. /\ Gap(y, 0) = Gap(x, 0) /\ Gap(y, 1) = Gap(x, 1) /\ Gap(y, 2) = Gap(x, 2) /\ Gap(y, 3) = Gap(x, 3)
      /\ Gap(y, 4) = Gap(x, 4) /\ Gap(y, 5) = Gap(x, 5)
  OBVIOUS
<1>7. /\ Size(y, 0) = Size(x, 0) /\ Size(y, 1) = Size(x, 1) /\ Size(y, 2) = Size(x, 2) /\ Size(y, 4) = Size(x, 4)
      /\ k = 3 => Size(x, 4) = 0 /\ Size(x, 5) = 0 /\ Size(y, 5) = 0
      /\ k = 5 => Size(y, 3) = Size(x, 3)
  BY <1>3 DEF Size
<1>8. Size(x, 3) \in Nat /\ Size(x, 4) \in Nat /\ Size(x, 5) \in Nat
  BY Grounds
<1>9. At(x, 3) \in Int /\ At(x, 4) \in Int /\ At(x, 5) \in Int /\ At(x, 6) \in Int /\ Gap(x, 4) \in Int /\ Gap(x, 5) \in Int
  BY Grounds
<1>10. At(y, 0) = At(x, 0) /\ At(y, 1) = At(x, 1) /\ At(y, 2) = At(x, 2) /\ At(y, 3) = At(x, 3)
  BY ONLY <1>4, <1>6, <1>7
<1>11. CASE k = 5
  <2>1. At(y, 4) = At(x, 4) /\ At(y, 5) = At(x, 5) /\ At(y, 6) = At(x, 6) + 1
    BY ONLY <1>2, <1>5, <1>6, <1>7, <1>8, <1>9, <1>10, <1>11
  <2>2. ASSUME NEW i \in 0..6, Clear(y, i) PROVE Good(d, y, i)
    <3>1. Clear(x, i) /\ Good(d, x, i)
      BY <2>2 DEF Chain
    <3>2. CASE i = 6
      BY <1>1, <2>1, <3>1, <3>2 DEF Good
    <3>3. CASE i \in 0..4
      <4>1. i \in 0..5 /\ i # k
        BY <1>11, <3>3
      <4>2. At(y, i) = At(x, i)
        BY ONLY <1>10, <2>1, <3>3, Stages, <4>1
      <4>3. Stage(y, i) = Stage(x, i) /\ Sent(y) >= Sent(x)
        BY <1>1, <4>1
      <4>4. QED
        BY ONLY <3>1, <4>1, <4>2, <4>3, Kept, Link(x), Link(y)
    <3>4. CASE i = 5
      <4>1. Good(d, x, 6)
        BY <1>11, <2>2, <3>4 DEF Chain
      <4>2. At(x, 6) = Sent(x)
        BY <4>1 DEF Good
      <4>3. Runs(d, 5, Stage(x, 5), At(x, 5)) /\ Size(x, 5) = Len(Stage(x, 5))
        BY <3>1, <3>4 DEF Good, Size
      <4>4. At(x, 5) + Size(x, 5) + 1 = Sent(x) + 1
        BY <1>5, <4>2
      <4>5. Sent(x) + 1 = Token(d, 5, Sent(x) + 1)
        BY <1>1 DEF Token
      <4>6. Runs(d, 5, Stage(y, 5), At(y, 5))
        <5> DEFINE s == Stage(x, 5)
                   n == Sent(x) + 1
        <5>1. s \in Seq(Tokens) /\ n \in Tokens /\ At(x, 5) \in Int /\ Runs(d, 5, s, At(x, 5))
          BY <1>1, <1>9, <1>11, <4>3
        <5>2. n = Token(d, 5, At(x, 5) + Size(x, 5) + 1)
          BY <4>4, <4>5
        <5>3. Size(x, 5) = Len(s)
          BY <4>3
        <5>4. Stage(y, 5) = s \o <<n>>
          BY <1>11
        <5> HIDE DEF s, n
        <5>5. n = Token(d, 5, At(x, 5) + Len(s) + 1)
          BY <5>2, <5>3
        <5>6. Runs(d, 5, s \o <<n>>, At(x, 5))
          BY ONLY <5>1, <5>5, LongerRuns
        <5>7. QED
          BY <2>1, <5>4, <5>6
      <4>7. At(y, 5) + Size(y, 5) <= Sent(y)
        <5>1. Size(y, 5) = Size(x, 5) + 1 /\ At(y, 5) = At(x, 5) /\ Sent(y) = Sent(x) + 1 /\ Sent(x) \in Nat
          BY <1>1, <1>2, <1>11, <2>1
        <5>2. QED
          BY ONLY <1>8, <1>9, <4>4, <5>1
      <4>8. QED
        BY <3>4, <4>6, <4>7 DEF Good
    <3>5. QED
      BY <3>2, <3>3, <3>4
  <2>3. QED
    BY <2>1, <2>2 DEF Chain
<1>12. CASE k = 3
  <2>1. At(y, 4) = At(x, 4) + 1 /\ At(y, 5) = At(x, 5) + 1 /\ At(y, 6) = At(x, 6) + 1 /\ At(x, 4) = At(x, 6) /\ At(x, 5) = At(x, 6)
        /\ At(x, 6) = At(x, 3) + Size(x, 3)
    <3>1. Size(y, 3) = Size(x, 3) + 1
      BY <1>2, <1>12
    <3>2. QED
      BY ONLY <1>5, <1>6, <1>7, <1>8, <1>9, <1>10, <1>12, <3>1, k = 3 => Gap(x, 4) = 0 /\ Gap(x, 5) = 0
  <2>2. ASSUME NEW i \in 0..6, Clear(y, i) PROVE Good(d, y, i)
    <3>1. Clear(x, i) /\ Good(d, x, i)
      BY <2>2 DEF Chain
    <3>2. CASE i \in {0, 1, 2}
      <4>1. i \in 0..5 /\ i # k /\ At(y, i) = At(x, i)
        BY <1>10, <1>12, <3>2
      <4>3. Stage(y, i) = Stage(x, i) /\ Sent(y) >= Sent(x)
        BY <1>1, <4>1
      <4>4. QED
        BY ONLY <3>1, <4>1, <4>3, Kept, Link(x), Link(y)
    <3>3. CASE i \in 3..6
      <4>1. Clear(y, 3)
        BY ONLY <3>3, ClearBelow, Clear(y, i), i \in 0..6
      <4>2. Clear(x, 6) /\ Clear(x, 3)
        BY <1>12, <4>1
      <4>3. Good(d, x, 6) /\ Good(d, x, 3)
        BY <4>2 DEF Chain
      <4>4. At(x, 6) = Sent(x)
        BY <4>3 DEF Good
      <4>5. CASE i = 3
        <5> DEFINE s == Stage(x, 3)
                   n == Sent(x) + 1
        <5>1. s \in Seq(Tokens) /\ n \in Tokens /\ At(x, 3) \in Int /\ Runs(d, 3, s, At(x, 3))
          BY <1>1, <1>9, <1>12, <4>3 DEF Good
        <5>2. n = Token(d, 3, At(x, 3) + Size(x, 3) + 1)
          BY <1>1, <2>1, <4>4 DEF Token
        <5>3. Size(x, 3) = Len(s)
          BY DEF Size
        <5>4. Stage(y, 3) = s \o <<n>>
          BY <1>12
        <5> HIDE DEF s, n
        <5>5. n = Token(d, 3, At(x, 3) + Len(s) + 1)
          BY <5>2, <5>3
        <5>6. Runs(d, 3, s \o <<n>>, At(x, 3))
          BY ONLY <5>1, <5>5, LongerRuns
        <5>7. Runs(d, 3, Stage(y, 3), At(y, 3))
          BY <1>10, <5>4, <5>6
        <5>8. At(y, 3) + Size(y, 3) <= Sent(y)
          BY ONLY <1>1, <1>2, <1>8, <1>9, <1>10, <1>12, <2>1, <4>4, Sent(y) = Sent(x) + 1
        <5>9. QED
          BY <4>5, <5>7, <5>8 DEF Good
      <4>6. CASE i \in {4, 5}
        <5>1. Stage(y, i) = <<>> /\ Size(y, i) = 0 /\ At(y, i) = Sent(x) + 1 /\ i # 6
          BY <1>7, <1>12, <2>1, <4>4, <4>6
        <5>2. Runs(d, i, Stage(y, i), At(y, i))
          BY <5>1, EmptyRuns
        <5>3. QED
          BY <1>1, <5>1, <5>2 DEF Good
      <4>7. CASE i = 6
        BY <2>1, <4>4, <4>7 DEF Good
      <4>8. QED
        BY <3>3, <4>5, <4>6, <4>7
    <3>4. QED
      BY <3>2, <3>3
  <2>3. QED
    BY <2>1, <2>2 DEF Chain
<1>13. QED
  BY <1>11, <1>12

\* A link gets another content, and the gaps around it make up for it.
LEMMA Replaced ==
  ASSUME NEW d, NEW x, NEW y, Link(x), Link(y), Chain(d, x), NEW k \in {1, 3},
         \A i \in 0..5 : i # k => Stage(y, i) = Stage(x, i),
         \A i \in 0..5 : i # k /\ i # k + 1 => Gap(y, i) = Gap(x, i),
         Gap(y, k) + Size(y, k) + Gap(y, k + 1) = Gap(x, k) + Size(x, k) + Gap(x, k + 1),
         \A i \in 0..6 : Clear(y, i) => Clear(x, i), Sent(y) = Sent(x),
         Clear(y, k) => Good(d, y, k)
  PROVE  Chain(d, y) /\ At(y, 6) = At(x, 6)
<1>1. \A i \in 0..5 : i # k => Size(y, i) = Size(x, i)
  BY DEF Size
<1>2. /\ Size(y, 0) = Size(x, 0) /\ Size(y, 2) = Size(x, 2) /\ Size(y, 4) = Size(x, 4) /\ Size(y, 5) = Size(x, 5)
      /\ Gap(y, 0) = Gap(x, 0) /\ Gap(y, 5) = Gap(x, 5)
      /\ k = 1 => /\ Size(y, 3) = Size(x, 3) /\ Gap(y, 3) = Gap(x, 3) /\ Gap(y, 4) = Gap(x, 4)
                  /\ Gap(y, 1) + Size(y, 1) + Gap(y, 2) = Gap(x, 1) + Size(x, 1) + Gap(x, 2)
      /\ k = 3 => /\ Size(y, 1) = Size(x, 1) /\ Gap(y, 1) = Gap(x, 1) /\ Gap(y, 2) = Gap(x, 2)
                  /\ Gap(y, 3) + Size(y, 3) + Gap(y, 4) = Gap(x, 3) + Size(x, 3) + Gap(x, 4)
  BY <1>1
<1>3. /\ At(x, 0) = Gap(x, 0) /\ At(y, 0) = Gap(y, 0)
      /\ At(x, 1) = At(x, 0) + Size(x, 0) + Gap(x, 1) /\ At(y, 1) = At(y, 0) + Size(y, 0) + Gap(y, 1)
      /\ At(x, 2) = At(x, 1) + Size(x, 1) + Gap(x, 2) /\ At(y, 2) = At(y, 1) + Size(y, 1) + Gap(y, 2)
      /\ At(x, 3) = At(x, 2) + Size(x, 2) + Gap(x, 3) /\ At(y, 3) = At(y, 2) + Size(y, 2) + Gap(y, 3)
  BY Grounds
<1>4. /\ At(x, 4) = At(x, 3) + Size(x, 3) + Gap(x, 4) /\ At(y, 4) = At(y, 3) + Size(y, 3) + Gap(y, 4)
      /\ At(x, 5) = At(x, 4) + Size(x, 4) + Gap(x, 5) /\ At(y, 5) = At(y, 4) + Size(y, 4) + Gap(y, 5)
      /\ At(x, 6) = At(x, 5) + Size(x, 5) /\ At(y, 6) = At(y, 5) + Size(y, 5)
  BY Grounds
<1>5. /\ Size(x, 0) \in Nat /\ Size(x, 1) \in Nat /\ Size(x, 2) \in Nat /\ Size(x, 3) \in Nat
      /\ Gap(x, 0) \in Int /\ Gap(x, 1) \in Int /\ Gap(x, 2) \in Int /\ Gap(x, 3) \in Int /\ Gap(x, 4) \in Int
  BY Grounds
<1>6. /\ Size(y, 0) \in Nat /\ Size(y, 1) \in Nat /\ Size(y, 2) \in Nat /\ Size(y, 3) \in Nat
      /\ Gap(y, 0) \in Int /\ Gap(y, 1) \in Int /\ Gap(y, 2) \in Int /\ Gap(y, 3) \in Int /\ Gap(y, 4) \in Int
  BY Grounds
<1>7. \A i \in 0..6 : i # k => At(y, i) = At(x, i)
  <2>1. CASE k = 1
    <3>1. At(y, 0) = At(x, 0)
      BY <1>2, <1>3
    <3>2. At(x, 2) = At(x, 0) + Size(x, 0) + (Gap(x, 1) + Size(x, 1) + Gap(x, 2))
      <4>1. At(x, 0) \in Int
        BY Grounds
      <4>2. QED
        BY ONLY <1>3, <1>5, <4>1
    <3>3. At(y, 2) = At(y, 0) + Size(y, 0) + (Gap(y, 1) + Size(y, 1) + Gap(y, 2))
      <4>1. At(y, 0) \in Int
        BY Grounds
      <4>2. QED
        BY ONLY <1>3, <1>6, <4>1
    <3>4. At(y, 2) = At(x, 2)
      BY <1>2, <2>1, <3>1, <3>2, <3>3
    <3>5. At(y, 3) = At(x, 3) /\ At(y, 4) = At(x, 4) /\ At(y, 5) = At(x, 5) /\ At(y, 6) = At(x, 6)
      BY <1>2, <1>3, <1>4, <2>1, <3>4
    <3>6. QED
      BY ONLY <2>1, <3>1, <3>4, <3>5, Stages
  <2>2. CASE k = 3
    <3>1. At(y, 0) = At(x, 0) /\ At(y, 1) = At(x, 1) /\ At(y, 2) = At(x, 2)
      BY <1>2, <1>3, <2>2
    <3>2. At(x, 4) = At(x, 2) + Size(x, 2) + (Gap(x, 3) + Size(x, 3) + Gap(x, 4))
      <4>1. At(x, 2) \in Int
        BY Grounds
      <4>2. QED
        BY ONLY <1>3, <1>4, <1>5, <4>1
    <3>3. At(y, 4) = At(y, 2) + Size(y, 2) + (Gap(y, 3) + Size(y, 3) + Gap(y, 4))
      <4>1. At(y, 2) \in Int
        BY Grounds
      <4>2. QED
        BY ONLY <1>3, <1>4, <1>6, <4>1
    <3>4. At(y, 4) = At(x, 4)
      BY <1>2, <2>2, <3>1, <3>2, <3>3
    <3>5. At(y, 5) = At(x, 5) /\ At(y, 6) = At(x, 6)
      BY <1>2, <1>4, <3>4
    <3>6. QED
      BY ONLY <2>2, <3>1, <3>4, <3>5, Stages
  <2>3. QED
    BY <2>1, <2>2
<1>8. At(y, 6) = At(x, 6)
  BY <1>7
<1>9. ASSUME NEW i \in 0..6, Clear(y, i) PROVE Good(d, y, i)
  <2>1. Clear(x, i) /\ Good(d, x, i)
    BY <1>9 DEF Chain
  <2>2. CASE i = 6
    BY <1>8, <2>1, <2>2 DEF Good
  <2>3. CASE i = k
    BY <1>9, <2>3
  <2>4. CASE i # 6 /\ i # k
    <3>1. i \in 0..5 /\ At(y, i) = At(x, i) /\ Stage(y, i) = Stage(x, i)
      BY <1>7, <2>4
    <3>2. Sent(y) >= Sent(x)
      BY DEF Link
    <3>3. QED
      BY ONLY <2>1, <3>1, <3>2, Kept, Link(x), Link(y)
  <2>5. QED
    BY <2>2, <2>3, <2>4
<1>10. QED
  BY <1>8, <1>9 DEF Chain

\* The sizes, from the assumption of the module.
LEMMA Sizes ==
  /\ Routes \subseteq {"public", "local"} /\ ClientBytes \in Nat /\ ServiceBytes \in Nat
  /\ Window \in Nat \ {0} /\ ReadAhead \in Nat \ {0} /\ MaxPrefix \in Nat \ {0} /\ Buffer \in Nat
  /\ ReadAhead <= MaxPrefix + 1 /\ MaxPrefix <= Buffer
BY TubeAssumption DEF Tube!TunnelAssumption

TubeTyped ==
  /\ route \in Routes /\ shut \in SUBSET Tube!Ends /\ deaf \in SUBSET Tube!Ends
  /\ wire \in [Tube!Ends -> Seq(Tokens)] /\ held \in [Tube!Pumps -> Seq(Tokens)] /\ answer \in Seq(Tokens)
  /\ said \in [Tube!Parties -> Nat] /\ got \in [Tube!Parties -> Seq(Tokens)]
  /\ pump \in [Tube!Pumps -> {"off", "copy", "done"}]
  /\ stop \in {"none", "requested", "forced"} /\ fault \in {"none", "abort", "deadline"}
  /\ task \in {"head", "dial", "response", "connected", "relay", "rejected", "failed", "left", "over"}
  /\ host \in {"none", "frame", "relay", "refused"}

\* The ends and the loops by their names.
LEMMA NamedEnds ==
  /\ Tube!Ends = {<<"near", "up">>, <<"mid", "up">>, <<"far", "up">>,
                  <<"near", "down">>, <<"mid", "down">>, <<"far", "down">>}
  /\ Tube!Pumps = {<<"proxy", "up">>, <<"proxy", "down">>, <<"broker", "up">>, <<"broker", "down">>}
BY DEF Tube!Ends, Tube!Pumps, Tube!Dirs

\* The two directions of a link.
LEMMA Opposites ==
  /\ \A e \in Tube!Ends : Tube!Opposite(e) \in Tube!Ends
  /\ Tube!Opposite(<<"near", "up">>) = <<"near", "down">> /\ Tube!Opposite(<<"near", "down">>) = <<"near", "up">>
  /\ Tube!Opposite(<<"mid", "up">>) = <<"mid", "down">> /\ Tube!Opposite(<<"mid", "down">>) = <<"mid", "up">>
  /\ Tube!Opposite(<<"far", "up">>) = <<"far", "down">> /\ Tube!Opposite(<<"far", "down">>) = <<"far", "up">>
<1>1. /\ Tube!Opposite(<<"near", "up">>) = <<"near", "down">> /\ Tube!Opposite(<<"near", "down">>) = <<"near", "up">>
      /\ Tube!Opposite(<<"mid", "up">>) = <<"mid", "down">> /\ Tube!Opposite(<<"mid", "down">>) = <<"mid", "up">>
      /\ Tube!Opposite(<<"far", "up">>) = <<"far", "down">> /\ Tube!Opposite(<<"far", "down">>) = <<"far", "up">>
  BY DEF Tube!Opposite, Tube!Back
<1>2. QED
  BY <1>1, NamedEnds

\* What a close does to the links.
LEMMA Closing ==
  ASSUME TubeTyped, NEW E \in SUBSET Tube!Ends, Tube!Close(E)
  PROVE  /\ shut' \in SUBSET Tube!Ends /\ deaf' \in SUBSET Tube!Ends /\ wire' \in [Tube!Ends -> Seq(Tokens)]
         /\ shut' = shut \cup E /\ deaf \subseteq deaf'
         /\ \A e \in Tube!Ends : e \in deaf' <=> e \in deaf \/ Tube!Opposite(e) \in E
         /\ \A e \in Tube!Ends : \/ wire'[e] = wire[e] /\ Tube!Opposite(e) \notin E
                                 \/ wire'[e] = <<>> /\ (e \in shut' \/ e \in deaf')
         /\ \A e \in Tube!Ends : e \notin E /\ Tube!Opposite(e) \notin E => wire'[e] = wire[e]
         /\ \A e \in Tube!Ends : wire[e] = <<>> => wire'[e] = <<>>
         /\ \A e \in Tube!Ends : e \in E /\ Tube!Opposite(e) \notin E /\ wire[Tube!Opposite(e)] = <<>> => wire'[e] = wire[e]
<1> DEFINE torn == {e \in E : wire[Tube!Opposite(e)] # <<>>}
<1>1. shut' = shut \cup E /\ deaf' = deaf \cup {Tube!Opposite(e) : e \in E}
  BY DEF Tube!Close
<1>2. PICK lost \in SUBSET torn :
        wire' = [e \in Tube!Ends |-> IF Tube!Opposite(e) \in E \/ e \in lost THEN <<>> ELSE wire[e]]
  BY DEF Tube!Close
<1>3. \A e \in Tube!Ends : Tube!Opposite(e) \in Tube!Ends /\ Tube!Opposite(Tube!Opposite(e)) = e
  BY NamedEnds, Opposites
<1>4. \A e \in Tube!Ends : e \in deaf' <=> e \in deaf \/ Tube!Opposite(e) \in E
  BY <1>1, <1>3
<1>5. <<>> \in Seq(Tokens)
  BY EmptySeq
<1>6. wire' \in [Tube!Ends -> Seq(Tokens)]
  BY <1>2, <1>5 DEF TubeTyped
<1>7. \A e \in Tube!Ends : wire'[e] = IF Tube!Opposite(e) \in E \/ e \in lost THEN <<>> ELSE wire[e]
  BY <1>2
<1>8. \A e \in lost : e \in E /\ wire[Tube!Opposite(e)] # <<>>
  OBVIOUS
<1>9. shut' \in SUBSET Tube!Ends /\ deaf' \in SUBSET Tube!Ends
  BY <1>1, <1>3 DEF TubeTyped
<1>10. QED
  BY <1>1, <1>4, <1>6, <1>7, <1>8, <1>9

IsUp ==
  /\ Link(Up) /\ Sent(Up) = said["client"]
  /\ Stage(Up, 0) = got["service"] /\ Stage(Up, 1) = wire[<<"far", "up">>] /\ Stage(Up, 2) = held[<<"broker", "up">>]
  /\ Stage(Up, 3) = wire[<<"mid", "up">>] /\ Stage(Up, 4) = held[<<"proxy", "up">>] /\ Stage(Up, 5) = wire[<<"near", "up">>]
  /\ Gap(Up, 0) = 0 /\ Gap(Up, 1) = 0 /\ Gap(Up, 2) = 0 /\ Gap(Up, 4) = 0
  /\ Gap(Up, 3) = IF host = "frame" THEN -1 ELSE 0
  /\ Gap(Up, 5) = IF task = "head" THEN -1 ELSE 0
  /\ Passes(Up, 1) = Free("far", "up") /\ Passes(Up, 2) = Free("mid", "up") /\ Passes(Up, 3) = Free("near", "up")

\* The chain from the client to the service.
LEMMA UpParts == TubeTyped => IsUp
<1> SUFFICES ASSUME TubeTyped PROVE IsUp
  OBVIOUS
<1>1. /\ Stage(Up, 0) = got["service"] /\ Stage(Up, 1) = wire[<<"far", "up">>] /\ Stage(Up, 2) = held[<<"broker", "up">>]
      /\ Stage(Up, 3) = wire[<<"mid", "up">>] /\ Stage(Up, 4) = held[<<"proxy", "up">>] /\ Stage(Up, 5) = wire[<<"near", "up">>]
  BY DEF Stage, Up
<1>2. /\ Gap(Up, 0) = 0 /\ Gap(Up, 1) = 0 /\ Gap(Up, 2) = 0 /\ Gap(Up, 4) = 0
      /\ Gap(Up, 3) = IF host = "frame" THEN -1 ELSE 0
      /\ Gap(Up, 5) = IF task = "head" THEN -1 ELSE 0
  BY DEF Gap, Up
<1>3. Passes(Up, 1) = Free("far", "up") /\ Passes(Up, 2) = Free("mid", "up") /\ Passes(Up, 3) = Free("near", "up") /\ Sent(Up) = said["client"]
  BY DEF Passes, Up, Sent
<1>4. /\ \A e \in Tube!Ends : wire[e] \in Seq(Tokens)
      /\ \A q \in Tube!Pumps : held[q] \in Seq(Tokens)
      /\ \A w \in Tube!Parties : got[w] \in Seq(Tokens) /\ said[w] \in Nat
  BY DEF TubeTyped
<1>5. "service" \in Tube!Parties /\ "client" \in Tube!Parties
  BY DEF Tube!Parties
<1>6. /\ Stage(Up, 0) \in Seq(Tokens) /\ Stage(Up, 1) \in Seq(Tokens) /\ Stage(Up, 2) \in Seq(Tokens)
      /\ Stage(Up, 3) \in Seq(Tokens) /\ Stage(Up, 4) \in Seq(Tokens) /\ Stage(Up, 5) \in Seq(Tokens)
  BY <1>1, <1>4, <1>5, NamedEnds
<1>7. Sent(Up) \in Nat
  BY <1>3, <1>4, <1>5
<1>8. /\ Gap(Up, 0) \in Int /\ Gap(Up, 1) \in Int /\ Gap(Up, 2) \in Int /\ Gap(Up, 3) \in Int /\ Gap(Up, 4) \in Int /\ Gap(Up, 5) \in Int
  BY <1>2
<1>9. Link(Up)
  BY <1>6, <1>7, <1>8, Stages DEF Link
<1>10. QED
  BY <1>1, <1>2, <1>3, <1>9 DEF IsUp

IsDown ==
  /\ Link(Down) /\ Sent(Down) = said["service"]
  /\ Stage(Down, 0) = got["client"] /\ Stage(Down, 1) = wire[<<"near", "down">>] /\ Stage(Down, 2) = held[<<"proxy", "down">>]
  /\ Stage(Down, 3) = IF NoMiddle THEN <<>> ELSE wire[<<"mid", "down">>]
  /\ Stage(Down, 4) = held[<<"broker", "down">>] /\ Stage(Down, 5) = wire[<<"far", "down">>]
  /\ Gap(Down, 0) = -1 /\ Gap(Down, 1) = 0 /\ Gap(Down, 5) = 0
  /\ Gap(Down, 2) = IF pump[<<"proxy", "down">>] = "off" THEN 1 ELSE 0
  /\ Gap(Down, 3) = IF Asking THEN Len(answer) - 3 ELSE 0
  /\ Gap(Down, 4) = IF Asking /\ host # "relay" THEN 3 - Len(answer) ELSE 0
  /\ Passes(Down, 1) = Free("near", "down") /\ Passes(Down, 2) = Free("mid", "down") /\ Passes(Down, 3) = Free("far", "down")

\* The chain from the service to the client.
LEMMA DownParts == TubeTyped => IsDown
<1> SUFFICES ASSUME TubeTyped PROVE IsDown
  OBVIOUS
<1>1. /\ Stage(Down, 0) = got["client"] /\ Stage(Down, 1) = wire[<<"near", "down">>] /\ Stage(Down, 2) = held[<<"proxy", "down">>]
      /\ Stage(Down, 3) = IF NoMiddle THEN <<>> ELSE wire[<<"mid", "down">>]
      /\ Stage(Down, 4) = held[<<"broker", "down">>] /\ Stage(Down, 5) = wire[<<"far", "down">>]
  BY DEF Stage, Down
<1>2. /\ Gap(Down, 0) = -1 /\ Gap(Down, 1) = 0 /\ Gap(Down, 5) = 0
      /\ Gap(Down, 2) = IF pump[<<"proxy", "down">>] = "off" THEN 1 ELSE 0
      /\ Gap(Down, 3) = IF Asking THEN Len(answer) - 3 ELSE 0
      /\ Gap(Down, 4) = IF Asking /\ host # "relay" THEN 3 - Len(answer) ELSE 0
  BY DEF Gap, Down
<1>3. /\ Passes(Down, 1) = Free("near", "down") /\ Passes(Down, 2) = Free("mid", "down") /\ Passes(Down, 3) = Free("far", "down")
      /\ Sent(Down) = said["service"]
  BY DEF Passes, Down, Sent
<1>4. /\ \A e \in Tube!Ends : wire[e] \in Seq(Tokens)
      /\ \A q \in Tube!Pumps : held[q] \in Seq(Tokens)
      /\ \A w \in Tube!Parties : got[w] \in Seq(Tokens) /\ said[w] \in Nat
  BY DEF TubeTyped
<1>5. "service" \in Tube!Parties /\ "client" \in Tube!Parties /\ <<>> \in Seq(Tokens)
  BY EmptySeq DEF Tube!Parties
<1>6. /\ Stage(Down, 0) \in Seq(Tokens) /\ Stage(Down, 1) \in Seq(Tokens) /\ Stage(Down, 2) \in Seq(Tokens)
      /\ Stage(Down, 3) \in Seq(Tokens) /\ Stage(Down, 4) \in Seq(Tokens) /\ Stage(Down, 5) \in Seq(Tokens)
  BY <1>1, <1>4, <1>5, NamedEnds
<1>7. Sent(Down) \in Nat
  BY <1>3, <1>4, <1>5
<1>8. /\ Gap(Down, 0) \in Int /\ Gap(Down, 1) \in Int /\ Gap(Down, 2) \in Int /\ Gap(Down, 3) \in Int
      /\ Gap(Down, 4) \in Int /\ Gap(Down, 5) \in Int
  <2>1. Len(answer) \in Nat
    BY LenProperties DEF TubeTyped
  <2>2. QED
    BY <1>2, <2>1
<1>9. Link(Down)
  BY <1>6, <1>7, <1>8, Stages DEF Link
<1>10. QED
  BY <1>1, <1>2, <1>3, <1>9 DEF IsDown

\* The same of the next state.
LEMMA PartsNext == TubeTyped' => IsUp' /\ IsDown'
BY UpParts, DownParts, PTL

\* What is read is at least one token and no more than there is.
LEMMA AmountsAre ==
  ASSUME TubeTyped, NEW e \in Tube!Ends, NEW most \in Int, NEW n \in Tube!Amounts(e, most)
  PROVE  n \in Nat /\ n >= 1 /\ n <= Len(wire[e]) /\ n <= most /\ Len(wire[e]) \in Nat
<1>1. Len(wire[e]) \in Nat
  BY LenProperties DEF TubeTyped
<1>2. QED
  BY <1>1 DEF Tube!Amounts

\* A link without its first tokens.
LEMMA DropIs ==
  ASSUME TubeTyped, NEW e \in Tube!Ends, NEW n \in Nat, n <= Len(wire[e])
  PROVE  /\ Tube!Drop(e, n) \in [Tube!Ends -> Seq(Tokens)] /\ Tube!Drop(e, n)[e] = SubSeq(wire[e], n + 1, Len(wire[e]))
         /\ \A f \in Tube!Ends : f # e => Tube!Drop(e, n)[f] = wire[f]
<1> DEFINE s == wire[e]
<1>1. s \in Seq(Tokens)
  BY DEF TubeTyped
<1> HIDE DEF s
<1>2. SubSeq(s, n + 1, Len(s)) \in Seq(Tokens)
  <2>1. Len(s) \in Nat /\ n <= Len(s)
    BY <1>1, LenProperties DEF s
  <2>2. n + 1 \in 1..Len(s) + 1 /\ Len(s) \in (n + 1) - 1..Len(s)
    BY <2>1
  <2>3. QED
    BY ONLY <1>1, <2>1, <2>2, SubSeqProperties
<1>3. QED
  BY <1>2 DEF TubeTyped, Tube!Drop, s

\* A link with more tokens.
LEMMA Putting ==
  ASSUME TubeTyped, NEW e \in Tube!Ends, NEW b \in Seq(Tokens)
  PROVE  /\ Tube!Put(e, b) \in [Tube!Ends -> Seq(Tokens)] /\ Tube!Put(e, b)[e] = wire[e] \o b
         /\ \A f \in Tube!Ends : f # e => Tube!Put(e, b)[f] = wire[f]
<1>1. wire[e] \o b \in Seq(Tokens)
  <2>1. wire[e] \in Seq(Tokens)
    BY DEF TubeTyped
  <2>2. QED
    BY <2>1, ConcatProperties
<1>2. QED
  BY <1>1 DEF TubeTyped, Tube!Put

\* Where the loops read and write.
LEMMA Plumbing ==
  /\ Tube!From(<<"proxy", "up">>) = <<"near", "up">> /\ Tube!To(<<"proxy", "up">>) = <<"mid", "up">>
  /\ Tube!From(<<"proxy", "down">>) = <<"mid", "down">> /\ Tube!To(<<"proxy", "down">>) = <<"near", "down">>
  /\ Tube!From(<<"broker", "up">>) = <<"mid", "up">> /\ Tube!To(<<"broker", "up">>) = <<"far", "up">>
  /\ Tube!From(<<"broker", "down">>) = <<"far", "down">> /\ Tube!To(<<"broker", "down">>) = <<"mid", "down">>
BY DEF Tube!From, Tube!To

\* They do so at ends.
LEMMA PlumbingEnds == \A q \in Tube!Pumps : Tube!From(q) \in Tube!Ends /\ Tube!To(q) \in Tube!Ends
BY Plumbing, NamedEnds

\* A token alone.
LEMMA Singles == \A t \in Tokens : <<t>> \in Seq(Tokens)
OBVIOUS

\* The tokens the program writes.
LEMMA Glyphs == /\ <<"F">> \in Seq(Tokens) /\ <<"E">> \in Seq(Tokens) /\ <<"X">> \in Seq(Tokens)
                /\ <<"O", "K", "N">> \in Seq(Tokens) /\ <<>> \in Seq(Tokens)
                /\ Len(<<"O", "K", "N">>) = 3 /\ <<"O", "K", "N">>[1] = "O" /\ <<"O", "K", "N">>[2] = "K" /\ <<"O", "K", "N">>[3] = "N"
BY DEF Tokens

\* One token of a stage.
LEMMA HeadOff ==
  ASSUME NEW s \in Seq(Tokens), s # <<>>
  PROVE  /\ Head(s) \in Tokens /\ Tail(s) \in Seq(Tokens) /\ <<Head(s)>> = SubSeq(s, 1, 1)
         /\ Tail(s) = SubSeq(s, 2, Len(s)) /\ Len(s) \in Nat /\ Len(s) > 0
BY HeadTailProperties, SubSeqProperties, LenProperties

\* A part of a sequence of tokens.
LEMMA PartIsSeq ==
  ASSUME NEW s \in Seq(Tokens), NEW m \in Int, NEW n \in Nat, m >= 1, m <= n + 1, n <= Len(s)
  PROVE  SubSeq(s, m, n) \in Seq(Tokens) /\ Len(SubSeq(s, m, n)) = n + 1 - m
<1>1. Len(s) \in Nat
  BY LenProperties
<1>2. m \in 1..Len(s) + 1 /\ n \in m - 1..Len(s)
  BY <1>1
<1>3. SubSeq(s, m, n) \in Seq(Tokens)
  BY ONLY <1>2, SubSeqProperties, s \in Seq(Tokens)
<1>4. Len(SubSeq(s, m, n)) = n - m + 1
  BY <1>2, SubSeqProperties
<1>5. QED
  BY <1>3, <1>4

\* Where the parties speak and hear.
LEMMA Mouths ==
  /\ Tube!Mouth("client") = <<"near", "up">> /\ Tube!Ear("client") = <<"near", "down">>
  /\ route = "public" => Tube!Mouth("service") = <<"mid", "down">> /\ Tube!Ear("service") = <<"mid", "up">>
  /\ route # "public" => Tube!Mouth("service") = <<"far", "down">> /\ Tube!Ear("service") = <<"far", "up">>
  /\ Tube!Mouth("service") \in Tube!Ends /\ Tube!Ear("service") \in Tube!Ends
<1>1. Tube!Mouth("client") = <<"near", "up">> /\ Tube!Mouth("service") = <<IF route = "public" THEN "mid" ELSE "far", "down">>
  BY DEF Tube!Mouth, Tube!ServiceLink
<1>2. QED
  BY <1>1, Opposites, NamedEnds DEF Tube!Ear

-----------------------------------------------------------------------------
(* Types.                                                                  *)

LEMMA TypedReadHead == ASSUME TubeTyped, Tube!ReadHead PROVE TubeTyped'
<1>1. PICK n \in Tube!Amounts(<<"near", "up">>, ReadAhead) :
        /\ held' = [held EXCEPT ![<<"proxy", "up">>] = Tube!RestOfRead(n)]
        /\ wire' = Tube!Drop(<<"near", "up">>, n)
  BY DEF Tube!ReadHead
<1>2. n \in Nat /\ n >= 1 /\ n <= Len(wire[<<"near", "up">>])
  BY <1>1, AmountsAre, NamedEnds, Sizes
<1>3. wire' \in [Tube!Ends -> Seq(Tokens)]
  BY <1>1, <1>2, DropIs, NamedEnds
<1>4. Tube!RestOfRead(n) \in Seq(Tokens)
  <2>1. wire[<<"near", "up">>] \in Seq(Tokens)
    BY NamedEnds DEF TubeTyped
  <2>2. QED
    BY <1>2, <2>1, PartIsSeq DEF Tube!RestOfRead
<1>5. held' \in [Tube!Pumps -> Seq(Tokens)]
  BY <1>1, <1>4 DEF TubeTyped
<1>6. QED
  BY <1>3, <1>5 DEF TubeTyped, Tube!ReadHead

LEMMA TypedDial == ASSUME TubeTyped, Tube!Dial PROVE TubeTyped'
<1>1. Tube!Put(<<"mid", "up">>, <<"F">>) \in [Tube!Ends -> Seq(Tokens)]
  <2>1. <<"mid", "up">> \in Tube!Ends /\ <<"F">> \in Seq(Tokens)
    BY NamedEnds, Glyphs
  <2>2. QED
    BY <2>1, Putting
<1>2. QED
  BY <1>1 DEF TubeTyped, Tube!Dial

LEMMA TypedReadResponse == ASSUME TubeTyped, Tube!ReadResponse PROVE TubeTyped'
<1> DEFINE w == wire[<<"mid", "down">>]
           e == <<"mid", "down">>
<1>1. PICK n \in Tube!Amounts(e, 4 - Len(answer)) :
       LET a == answer \o SubSeq(w, 1, n) IN
         /\ answer' = a
         /\ IF Tube!Accepted(a)
            THEN /\ task' = "connected" /\ wire' = Tube!Drop(e, n)
                 /\ held' = [held EXCEPT ![<<"proxy", "down">>] = SubSeq(a, 4, Len(a))]
                 /\ UNCHANGED <<shut, deaf>>
            ELSE IF Tube!ReadsOn(a)
            THEN /\ wire' = Tube!Drop(e, n)
                 /\ UNCHANGED <<task, held, shut, deaf>>
            ELSE task' = "rejected" /\ Tube!Close({<<"mid", "up">>}) /\ UNCHANGED held
  BY DEF Tube!ReadResponse
<1> DEFINE a == answer \o SubSeq(w, 1, n)
<1>2. e \in Tube!Ends /\ w \in Seq(Tokens) /\ answer \in Seq(Tokens) /\ Len(answer) \in Nat
  BY NamedEnds, LenProperties DEF TubeTyped
<1>3. n \in Nat /\ n >= 1 /\ n <= Len(w)
  BY <1>1, <1>2, AmountsAre
<1>4. Tube!Drop(e, n) \in [Tube!Ends -> Seq(Tokens)]
  BY <1>2, <1>3, DropIs
<1>5. a \in Seq(Tokens)
  <2>1. SubSeq(w, 1, n) \in Seq(Tokens)
    BY <1>2, <1>3, PartIsSeq
  <2>2. QED
    BY <1>2, <2>1, ConcatProperties
<1>6. /\ route' = route /\ host' = host /\ pump' = pump /\ said' = said /\ got' = got /\ stop' = stop /\ fault' = fault
  BY DEF Tube!ReadResponse
<1>7. answer' = a
  BY <1>1
<1>8. CASE Tube!Accepted(a)
  <2>1. SubSeq(a, 4, Len(a)) \in Seq(Tokens)
    <3> DEFINE r == SubSeq(a, 4, Len(a))
    <3>1. Tube!IsPrefix(<<"O", "K", "N">>, a)
      BY <1>8 DEF Tube!Accepted
    <3>2. Len(<<"O", "K", "N">>) <= Len(a) /\ Len(a) \in Nat
      BY <1>5, <3>1, LenProperties DEF Tube!IsPrefix
    <3>3. Len(a) >= 3
      BY <3>2
    <3> HIDE DEF a
    <3>4. QED
      BY <1>5, <3>2, <3>3, PartIsSeq
  <2>2. /\ task' = "connected" /\ wire' = Tube!Drop(e, n)
        /\ held' = [held EXCEPT ![<<"proxy", "down">>] = SubSeq(a, 4, Len(a))]
        /\ UNCHANGED <<shut, deaf>>
    BY <1>1, <1>8
  <2> HIDE DEF a
  <2>3. held' \in [Tube!Pumps -> Seq(Tokens)]
    BY <2>1, <2>2 DEF TubeTyped
  <2>4. QED
    BY <1>4, <1>5, <1>6, <1>7, <2>2, <2>3 DEF TubeTyped
<1>9. CASE ~Tube!Accepted(a) /\ Tube!ReadsOn(a)
  <2>1. wire' = Tube!Drop(e, n) /\ UNCHANGED <<task, held, shut, deaf>>
    BY <1>1, <1>9
  <2> HIDE DEF a
  <2>2. QED
    BY <1>4, <1>5, <1>6, <1>7, <2>1 DEF TubeTyped
<1>10. CASE ~Tube!Accepted(a) /\ ~Tube!ReadsOn(a)
  <2>1. task' = "rejected" /\ Tube!Close({<<"mid", "up">>}) /\ UNCHANGED held
    BY <1>1, <1>10
  <2> HIDE DEF a
  <2>2. /\ shut' \in SUBSET Tube!Ends /\ deaf' \in SUBSET Tube!Ends /\ wire' \in [Tube!Ends -> Seq(Tokens)]
    <3>1. {<<"mid", "up">>} \in SUBSET Tube!Ends
      BY NamedEnds
    <3>2. QED
      BY <2>1, <3>1, Closing
  <2>3. QED
    BY <1>5, <1>6, <1>7, <2>1, <2>2 DEF TubeTyped
<1>11. QED
  BY <1>8, <1>9, <1>10

NetTyped == shut \in SUBSET Tube!Ends /\ deaf \in SUBSET Tube!Ends /\ wire \in [Tube!Ends -> Seq(Tokens)]

LEMMA TypedClose ==
  ASSUME TubeTyped, NEW E \in SUBSET Tube!Ends, Tube!Close(E)
  PROVE  NetTyped'
BY Closing DEF NetTyped

LEMMA TypedNoResponse == ASSUME TubeTyped, Tube!NoResponse PROVE TubeTyped'
<1>1. NetTyped'
  <2>1. {<<"mid", "up">>} \in SUBSET Tube!Ends
    BY NamedEnds
  <2>2. QED
    BY <2>1, TypedClose DEF Tube!NoResponse
<1>2. QED
  BY <1>1 DEF TubeTyped, NetTyped, Tube!NoResponse

LEMMA TypedGiveUp == ASSUME TubeTyped, Tube!GiveUp PROVE TubeTyped'
<1>1. NetTyped'
  <2>1. Tube!Upstream \in SUBSET Tube!Ends
    BY NamedEnds DEF Tube!Upstream
  <2>2. QED
    BY <2>1, TypedClose DEF Tube!GiveUp
<1>2. QED
  BY <1>1 DEF TubeTyped, NetTyped, Tube!GiveUp

LEMMA TypedPeerClosed == ASSUME TubeTyped, Tube!PeerClosed PROVE TubeTyped'
<1>1. NetTyped'
  <2>1. Tube!Upstream \cup {<<"near", "down">>} \in SUBSET Tube!Ends
    BY NamedEnds DEF Tube!Upstream
  <2>2. QED
    BY <2>1, TypedClose DEF Tube!PeerClosed
<1>2. QED
  BY <1>1 DEF TubeTyped, NetTyped, Tube!PeerClosed

LEMMA TypedEstablish == ASSUME TubeTyped, Tube!Establish PROVE TubeTyped'
<1>1. CASE stop = "none" /\ ~Tube!CannotWrite(<<"near", "down">>)
  <2>1. Tube!Put(<<"near", "down">>, <<"E">>) \in [Tube!Ends -> Seq(Tokens)]
    <3>1. <<"near", "down">> \in Tube!Ends /\ <<"E">> \in Seq(Tokens)
      BY NamedEnds, Glyphs
    <3>2. QED
      BY <3>1, Putting
  <2>2. /\ wire' = Tube!Put(<<"near", "down">>, <<"E">>) /\ task' = "relay" /\ UNCHANGED <<shut, deaf>>
        /\ pump' = [pump EXCEPT ![<<"proxy", "up">>] = "copy", ![<<"proxy", "down">>] = "copy"]
        /\ UNCHANGED <<route, answer, host, held, said, got, stop, fault>>
    BY <1>1 DEF Tube!Establish
  <2>3. pump' \in [Tube!Pumps -> {"off", "copy", "done"}]
    BY <2>2 DEF TubeTyped
  <2>4. QED
    BY <2>1, <2>2, <2>3 DEF TubeTyped
<1>2. CASE ~(stop = "none" /\ ~Tube!CannotWrite(<<"near", "down">>))
  <2>1. NetTyped'
    <3>1. Tube!ProxyEnds \in SUBSET Tube!Ends
      BY NamedEnds DEF Tube!ProxyEnds
    <3>2. QED
      BY <1>2, <3>1, TypedClose DEF Tube!Establish
  <2>2. task' = "over" /\ UNCHANGED <<route, answer, host, held, said, got, stop, fault, pump>>
    BY <1>2 DEF Tube!Establish
  <2>3. QED
    BY <2>1, <2>2 DEF TubeTyped, NetTyped
<1>3. QED
  BY <1>1, <1>2

LEMMA TypedServe == ASSUME TubeTyped, Tube!Serve PROVE TubeTyped'
<1> DEFINE w == Tube!Drop(<<"mid", "up">>, 1)
<1>1. w \in [Tube!Ends -> Seq(Tokens)]
  <2>1. wire[<<"mid", "up">>] \in Seq(Tokens) /\ wire[<<"mid", "up">>] # <<>> /\ <<"mid", "up">> \in Tube!Ends
    BY NamedEnds DEF TubeTyped, Tube!Serve
  <2>2. 1 <= Len(wire[<<"mid", "up">>])
    BY <2>1, HeadOff
  <2>3. QED
    BY <2>1, <2>2, DropIs
<1>2. CASE host' = "relay"
  <2>1. /\ wire' = [w EXCEPT ![<<"mid", "down">>] = <<"O", "K", "N">>]
        /\ pump' = [pump EXCEPT ![<<"broker", "up">>] = "copy", ![<<"broker", "down">>] = "copy"]
        /\ UNCHANGED <<shut, deaf>>
        /\ UNCHANGED <<route, task, answer, held, said, got, stop, fault>>
    BY <1>2 DEF Tube!Serve
  <2> HIDE DEF w
  <2>2. wire' \in [Tube!Ends -> Seq(Tokens)] /\ pump' \in [Tube!Pumps -> {"off", "copy", "done"}]
    BY <1>1, <2>1, Glyphs DEF TubeTyped
  <2>3. QED
    BY <1>2, <2>1, <2>2 DEF TubeTyped
<1>3. CASE host' = "refused"
  <2>1. /\ wire' = [w EXCEPT ![<<"mid", "down">>] = <<"X">>]
        /\ shut' = shut \cup {<<"mid", "down">>} /\ deaf' = deaf \cup {<<"mid", "up">>}
        /\ UNCHANGED pump
        /\ UNCHANGED <<route, task, answer, held, said, got, stop, fault>>
    BY <1>3 DEF Tube!Serve
  <2> HIDE DEF w
  <2>2. wire' \in [Tube!Ends -> Seq(Tokens)]
    BY <1>1, <2>1, Glyphs DEF TubeTyped
  <2>3. shut' \in SUBSET Tube!Ends /\ deaf' \in SUBSET Tube!Ends
    BY <2>1, NamedEnds DEF TubeTyped
  <2>4. QED
    BY <1>3, <2>1, <2>2, <2>3 DEF TubeTyped
<1>4. QED
  BY <1>2, <1>3 DEF Tube!Serve

LEMMA TypedServeNobody == ASSUME TubeTyped, Tube!ServeNobody PROVE TubeTyped'
<1>1. NetTyped'
  <2>1. {<<"mid", "down">>} \in SUBSET Tube!Ends
    BY NamedEnds
  <2>2. QED
    BY <2>1, TypedClose DEF Tube!ServeNobody
<1>2. QED
  BY <1>1 DEF TubeTyped, NetTyped, Tube!ServeNobody

LEMMA TypedCopyRead == ASSUME TubeTyped, NEW q \in Tube!Pumps, Tube!CopyRead(q) PROVE TubeTyped'
<1>1. PICK n \in Tube!Amounts(Tube!From(q), Buffer) :
        /\ held' = [held EXCEPT ![q] = @ \o SubSeq(wire[Tube!From(q)], 1, n)]
        /\ wire' = Tube!Drop(Tube!From(q), n)
  BY DEF Tube!CopyRead
<1>2. Tube!From(q) \in Tube!Ends /\ wire[Tube!From(q)] \in Seq(Tokens) /\ held[q] \in Seq(Tokens)
  BY PlumbingEnds DEF TubeTyped
<1>3. n \in Nat /\ n >= 1 /\ n <= Len(wire[Tube!From(q)])
  BY <1>1, <1>2, AmountsAre, Sizes
<1>4. wire' \in [Tube!Ends -> Seq(Tokens)]
  BY <1>1, <1>2, <1>3, DropIs
<1>5. held[q] \o SubSeq(wire[Tube!From(q)], 1, n) \in Seq(Tokens)
  <2>1. SubSeq(wire[Tube!From(q)], 1, n) \in Seq(Tokens)
    BY <1>2, <1>3, PartIsSeq
  <2>2. QED
    BY <1>2, <2>1, ConcatProperties
<1>6. held' \in [Tube!Pumps -> Seq(Tokens)]
  BY <1>1, <1>5 DEF TubeTyped
<1>7. UNCHANGED <<route, shut, deaf, task, answer, host, pump, said, got, stop, fault>>
  BY DEF Tube!CopyRead
<1>8. QED
  BY <1>4, <1>6, <1>7 DEF TubeTyped

LEMMA TypedCopyWrite == ASSUME TubeTyped, NEW q \in Tube!Pumps, Tube!CopyWrite(q) PROVE TubeTyped'
<1>1. held[q] \in Seq(Tokens) /\ held[q] # <<>> /\ Tube!To(q) \in Tube!Ends
  BY PlumbingEnds DEF TubeTyped, Tube!CopyWrite
<1>2. Head(held[q]) \in Tokens /\ Tail(held[q]) \in Seq(Tokens)
  BY <1>1, HeadOff
<1>3. <<Head(held[q])>> \in Seq(Tokens)
  BY <1>2, Singles
<1>4. Tube!Put(Tube!To(q), <<Head(held[q])>>) \in [Tube!Ends -> Seq(Tokens)]
  BY <1>1, <1>3, Putting
<1>5. held' \in [Tube!Pumps -> Seq(Tokens)]
  BY <1>2 DEF TubeTyped, Tube!CopyWrite
<1>6. wire' = Tube!Put(Tube!To(q), <<Head(held[q])>>) /\ UNCHANGED <<route, shut, deaf, task, answer, host, pump, said, got, stop, fault>>
  BY DEF Tube!CopyWrite
<1>7. QED
  BY <1>4, <1>5, <1>6 DEF TubeTyped

LEMMA TypedProxyEof == ASSUME TubeTyped, NEW q \in Tube!Pumps, Tube!ProxyEof(q) PROVE TubeTyped'
<1>1. Tube!To(q) \in Tube!Ends
  BY PlumbingEnds
<1>2. shut' \in SUBSET Tube!Ends /\ pump' \in [Tube!Pumps -> {"off", "copy", "done"}]
  BY <1>1 DEF TubeTyped, Tube!ProxyEof, Tube!HalfClose
<1>3. UNCHANGED <<wire, deaf, route, task, answer, host, held, said, got, stop, fault>>
  BY DEF Tube!ProxyEof, Tube!HalfClose
<1>4. QED
  BY <1>2, <1>3 DEF TubeTyped

LEMMA TypedRelayOver == ASSUME TubeTyped, Tube!RelayOver PROVE TubeTyped'
<1>1. NetTyped'
  <2>1. Tube!ProxyEnds \in SUBSET Tube!Ends
    BY NamedEnds DEF Tube!ProxyEnds
  <2>2. QED
    BY <2>1, TypedClose DEF Tube!RelayOver
<1>2. QED
  BY <1>1 DEF TubeTyped, NetTyped, Tube!RelayOver

LEMMA TypedBrokerEnds == ASSUME TubeTyped, NEW q \in Tube!Pumps, Tube!BrokerEnds(q) PROVE TubeTyped'
<1>1. NetTyped'
  <2>1. {<<"mid", "down">>, <<"far", "up">>} \in SUBSET Tube!Ends
    BY NamedEnds
  <2>2. QED
    BY <2>1, TypedClose DEF Tube!BrokerEnds
<1>2. pump' = [pump EXCEPT ![q] = "done"] /\ UNCHANGED <<route, task, answer, host, held, said, got, stop, fault>>
  BY DEF Tube!BrokerEnds
<1>3. pump' \in [Tube!Pumps -> {"off", "copy", "done"}]
  BY <1>2 DEF TubeTyped
<1>4. QED
  BY <1>1, <1>2, <1>3 DEF TubeTyped, NetTyped

\* They do so at ends.
LEMMA MouthEnds == \A who \in Tube!Parties : Tube!Mouth(who) \in Tube!Ends /\ Tube!Ear(who) \in Tube!Ends
BY Mouths, NamedEnds DEF Tube!Parties

LEMMA TypedSay == ASSUME TubeTyped, NEW who \in Tube!Parties, Tube!Say(who) PROVE TubeTyped'
<1>1. said[who] \in Nat /\ Tube!Mouth(who) \in Tube!Ends
  BY MouthEnds DEF TubeTyped
<1>2. <<said[who] + 1>> \in Seq(Tokens)
  <2>1. said[who] + 1 \in Tokens
    BY <1>1 DEF Tokens
  <2>2. QED
    BY <2>1, Singles
<1>3. Tube!Put(Tube!Mouth(who), <<said[who] + 1>>) \in [Tube!Ends -> Seq(Tokens)]
  BY <1>1, <1>2, Putting
<1>4. said' \in [Tube!Parties -> Nat]
  BY <1>1 DEF TubeTyped, Tube!Say
<1>5. wire' = Tube!Put(Tube!Mouth(who), <<said[who] + 1>>) /\ UNCHANGED <<route, shut, deaf, task, answer, host, pump, held, got, stop, fault>>
  BY DEF Tube!Say
<1>6. QED
  BY <1>3, <1>4, <1>5 DEF TubeTyped

LEMMA TypedFinish == ASSUME TubeTyped, NEW who \in Tube!Parties, Tube!Finish(who) PROVE TubeTyped'
<1>1. Tube!Mouth(who) \in Tube!Ends
  BY MouthEnds
<1>2. shut' = shut \cup {Tube!Mouth(who)} /\ UNCHANGED <<route, wire, deaf, task, answer, host, pump, held, said, got, stop, fault>>
  BY DEF Tube!Finish
<1>3. QED
  BY <1>1, <1>2 DEF TubeTyped

LEMMA TypedHear == ASSUME TubeTyped, NEW who \in Tube!Parties, Tube!Hear(who) PROVE TubeTyped'
<1>1. Tube!Ear(who) \in Tube!Ends /\ wire[Tube!Ear(who)] \in Seq(Tokens) /\ wire[Tube!Ear(who)] # <<>> /\ got[who] \in Seq(Tokens)
  BY MouthEnds DEF TubeTyped, Tube!Hear
<1>2. Head(wire[Tube!Ear(who)]) \in Tokens /\ 1 <= Len(wire[Tube!Ear(who)])
  BY <1>1, HeadOff
<1>3. Tube!Drop(Tube!Ear(who), 1) \in [Tube!Ends -> Seq(Tokens)]
  BY <1>1, <1>2, DropIs
<1>4. Append(got[who], Head(wire[Tube!Ear(who)])) \in Seq(Tokens)
  BY <1>1, <1>2, AppendProperties
<1>5. got' \in [Tube!Parties -> Seq(Tokens)]
  BY <1>4 DEF TubeTyped, Tube!Hear
<1>6. wire' = Tube!Drop(Tube!Ear(who), 1) /\ UNCHANGED <<route, shut, deaf, task, answer, host, pump, held, said, stop, fault>>
  BY DEF Tube!Hear
<1>7. QED
  BY <1>3, <1>5, <1>6 DEF TubeTyped

LEMMA TypedAbort == ASSUME TubeTyped, NEW who \in Tube!Parties, Tube!Abort(who) PROVE TubeTyped'
<1>1. NetTyped'
  <2>1. {Tube!Mouth(who)} \in SUBSET Tube!Ends
    BY MouthEnds
  <2>2. QED
    BY <2>1, TypedClose DEF Tube!Abort
<1>2. fault' = "abort" /\ UNCHANGED <<route, task, answer, host, pump, held, said, got, stop>>
  BY DEF Tube!Abort
<1>3. QED
  BY <1>1, <1>2 DEF TubeTyped, NetTyped

LEMMA TypedSignal == ASSUME TubeTyped, Tube!Signal PROVE TubeTyped'
BY DEF TubeTyped, Tube!Signal

\* The types are kept by each step.
LEMMA TypedStep == TubeTyped /\ [Tube!Next]_Tube!vars => TubeTyped'
<1> SUFFICES ASSUME TubeTyped, [Tube!Next]_Tube!vars PROVE TubeTyped'
  OBVIOUS
<1>1. CASE Tube!Proxy
  BY <1>1, TypedReadHead, TypedDial, TypedReadResponse, TypedNoResponse, TypedEstablish, TypedRelayOver
     DEF Tube!Proxy, Tube!ProxyForced, Tube!ProxyDone
<1>2. CASE Tube!Worker
  BY <1>2, TypedServe, TypedServeNobody DEF Tube!Worker
<1>3. CASE Tube!Outside
  BY <1>3, TypedGiveUp, TypedPeerClosed, TypedSignal, TypedAbort DEF Tube!Outside
<1>4. CASE \E q \in Tube!Pumps : Tube!Loop(q)
  BY <1>4, TypedCopyRead, TypedCopyWrite, TypedProxyEof, TypedRelayOver, TypedBrokerEnds DEF Tube!Loop, Tube!ProxyFails
<1>5. CASE \E who \in Tube!Parties : Tube!Party(who) \/ Tube!Hear(who)
  BY <1>5, TypedSay, TypedFinish, TypedHear DEF Tube!Party
<1>6. CASE UNCHANGED Tube!vars
  BY <1>6 DEF TubeTyped, Tube!vars
<1>7. QED
  BY <1>1, <1>2, <1>3, <1>4, <1>5, <1>6 DEF Tube!Next

\* What a step of the tunnel does to empty links and to links that are closed.
LEMMA CloseGrows ==
  ASSUME TubeTyped, NEW E \in SUBSET Tube!Ends, Tube!Close(E)
  PROVE  shut \subseteq shut' /\ deaf \subseteq deaf' /\ \A e \in Tube!Ends : wire[e] = <<>> => wire'[e] = <<>>
BY Closing

\* What each close is of.
LEMMA Closers ==
  ASSUME TubeTyped
  PROVE  /\ Tube!Upstream \in SUBSET Tube!Ends /\ Tube!Upstream \cup {<<"near", "down">>} \in SUBSET Tube!Ends /\ Tube!ProxyEnds \in SUBSET Tube!Ends
         /\ {<<"mid", "up">>} \in SUBSET Tube!Ends /\ {<<"mid", "down">>} \in SUBSET Tube!Ends
         /\ {<<"mid", "down">>, <<"far", "up">>} \in SUBSET Tube!Ends
         /\ \A who \in Tube!Parties : {Tube!Mouth(who)} \in SUBSET Tube!Ends
BY NamedEnds, MouthEnds DEF Tube!Upstream, Tube!ProxyEnds

\* A link that cannot be written to stays so.
LEMMA NotFree ==
  ASSUME NEW l, NEW d, ~Free(l, d), shut \subseteq shut', deaf \subseteq deaf'
  PROVE  ~Free(l, d)'
BY DEF Free, Tube!CannotWrite

\* A link that is not closed can be written to.
LEMMA StaysFree ==
  ASSUME NEW l, NEW d, Free(l, d), <<l, d>> \notin shut', <<l, d>> \notin deaf'
  PROVE  Free(l, d)'
BY DEF Free, Tube!CannotWrite

\* The step that a close is of: what was empty stays so.
LEMMA EmptyClose ==
  ASSUME TubeTyped, Empty, NEW E \in SUBSET Tube!Ends, Tube!Close(E),
         UNCHANGED <<route, held, said, got>>,
         <<"far", "up">> \in E \/ <<"far", "down">> \in E => ~BrokerOff,
         task' \in {"head", "dial", "response"} => task' = task /\ <<"near", "down">> \notin E,
         task' \in {"head", "dial"} => <<"mid", "up">> \notin E /\ <<"mid", "down">> \notin E,
         host' # host => host = "frame" /\ host' = "refused" /\ <<"mid", "down">> \in E,
         ProxyOff' <=> ProxyOff, BrokerOff' <=> BrokerOff, Tube!There("service") => Tube!There("service")'
  PROVE  Empty'
<1>1. /\ shut' = shut \cup E /\ deaf \subseteq deaf'
      /\ \A e \in Tube!Ends : e \in deaf' <=> e \in deaf \/ Tube!Opposite(e) \in E
      /\ \A e \in Tube!Ends : wire[e] = <<>> => wire'[e] = <<>>
  BY Closing
<1>2. ProxyOff' => got'["client"] = <<>> /\ wire'[<<"near", "down">>] = <<>>
  BY <1>1, NamedEnds DEF Empty
<1>3. task' \in {"head", "dial", "response"} => held'[<<"proxy", "down">>] = <<>>
  BY DEF Empty
<1>4. task' \in {"head", "dial"} => <<"near", "down">> \notin shut'
  BY <1>1 DEF Empty
<1>5. task' = "head" => held'[<<"proxy", "up">>] = <<>>
  BY DEF Empty
<1>6. route' = "local" /\ host' \in {"none", "frame"} => wire'[<<"mid", "down">>] = <<>>
  BY <1>1, NamedEnds DEF Empty
<1>7. route' = "local" /\ host' = "none" => wire'[<<"mid", "up">>] = <<>>
  BY <1>1, NamedEnds DEF Empty
<1>8. ASSUME BrokerOff'
      PROVE  /\ held'[<<"broker", "up">>] = <<>> /\ held'[<<"broker", "down">>] = <<>>
             /\ wire'[<<"far", "up">>] = <<>> /\ wire'[<<"far", "down">>] = <<>>
             /\ Free("far", "up")' /\ Free("far", "down")'
  <2>1. /\ held'[<<"broker", "up">>] = <<>> /\ held'[<<"broker", "down">>] = <<>>
        /\ wire'[<<"far", "up">>] = <<>> /\ wire'[<<"far", "down">>] = <<>>
        /\ Free("far", "up") /\ Free("far", "down")
    BY <1>1, <1>8, NamedEnds DEF Empty
  <2>2. /\ <<"far", "up">> \notin E /\ <<"far", "down">> \notin E
    BY <1>8
  <2>3. /\ <<"far", "up">> \notin shut' /\ <<"far", "up">> \notin deaf'
        /\ <<"far", "down">> \notin shut' /\ <<"far", "down">> \notin deaf'
    BY <1>1, <2>1, <2>2, NamedEnds, Opposites DEF Free, Tube!CannotWrite
  <2>4. QED
    BY <2>1, <2>3, StaysFree
<1>9. ~Tube!There("service")' => got'["service"] = <<>> /\ said'["service"] = 0
  BY DEF Empty
<1>10. host' = "refused" => ~Free("mid", "down")'
  <2>1. CASE host = "refused"
    <3>1. ~Free("mid", "down") /\ shut \subseteq shut' /\ deaf \subseteq deaf'
      BY <1>1, <2>1 DEF Empty
    <3>2. QED
      BY <3>1, NotFree
  <2>2. CASE host # "refused" /\ host' = "refused"
    BY <1>1, <2>2 DEF Free, Tube!CannotWrite
  <2>3. QED
    BY <2>1, <2>2
<1>11. route' = "public" /\ task' \in {"head", "dial"} => wire'[<<"mid", "up">>] = <<>> /\ wire'[<<"mid", "down">>] = <<>>
  BY <1>1, NamedEnds DEF Empty
<1>12. task' \in {"head", "dial"} => Free("mid", "up")' /\ Free("mid", "down")'
  <2>1. HAVE task' \in {"head", "dial"}
  <2>2. Free("mid", "up") /\ Free("mid", "down") /\ <<"mid", "up">> \notin E /\ <<"mid", "down">> \notin E
    BY <2>1 DEF Empty
  <2>3. /\ <<"mid", "up">> \notin shut' /\ <<"mid", "up">> \notin deaf'
        /\ <<"mid", "down">> \notin shut' /\ <<"mid", "down">> \notin deaf'
    BY <1>1, <2>2, NamedEnds, Opposites DEF Free, Tube!CannotWrite
  <2>4. QED
    BY <2>2, <2>3, StaysFree
<1>13. QED
  BY <1>2, <1>3, <1>4, <1>5, <1>6, <1>7, <1>8, <1>9, <1>10, <1>11, <1>12 DEF Empty

\* What the steps do to the links and to what the loops hold.
Leaves(e, n) ==
  /\ n \in Nat /\ 1 <= n /\ n <= Len(wire[e]) /\ wire'[e] = SubSeq(wire[e], n + 1, Len(wire[e]))
  /\ \A f \in Tube!Ends : f # e => wire'[f] = wire[f]
Enters(e, b) ==
  /\ wire'[e] = wire[e] \o b
  /\ \A f \in Tube!Ends : f # e => wire'[f] = wire[f]
HeldElse(q) == \A p \in Tube!Pumps : p # q => held'[p] = held[p]

\* A read as a change of one link.
LEMMA DropLeaves ==
  ASSUME TubeTyped, NEW e \in Tube!Ends, NEW n \in Nat, 1 <= n, n <= Len(wire[e]), wire' = Tube!Drop(e, n)
  PROVE  Leaves(e, n)
BY DropIs DEF Leaves

\* A write as a change of one link.
LEMMA PutEnters ==
  ASSUME TubeTyped, NEW e \in Tube!Ends, NEW b \in Seq(Tokens), wire' = Tube!Put(e, b)
  PROVE  Enters(e, b)
BY Putting DEF Enters

-----------------------------------------------------------------------------
(* What the actions do to links and loops.                                 *)

\* What each action does, in these terms.
LEMMA ReadHeadDoes ==
  ASSUME TubeTyped, Tube!ReadHead
  PROVE  /\ \E n \in 1..ReadAhead : /\ Leaves(<<"near", "up">>, n)
                                    /\ held'[<<"proxy", "up">>] = SubSeq(wire[<<"near", "up">>], 2, n)
         /\ HeldElse(<<"proxy", "up">>) /\ task = "head" /\ task' = "dial"
         /\ UNCHANGED <<route, shut, deaf, answer, host, pump, said, got, stop, fault>>
<1>1. PICK n \in Tube!Amounts(<<"near", "up">>, ReadAhead) :
        /\ held' = [held EXCEPT ![<<"proxy", "up">>] = Tube!RestOfRead(n)] /\ wire' = Tube!Drop(<<"near", "up">>, n)
  BY DEF Tube!ReadHead
<1>2. ReadAhead \in Int /\ <<"near", "up">> \in Tube!Ends /\ <<"proxy", "up">> \in Tube!Pumps
  BY Sizes, NamedEnds
<1>3. n \in Nat /\ n >= 1 /\ n <= Len(wire[<<"near", "up">>]) /\ n <= ReadAhead
  BY <1>1, <1>2, AmountsAre
<1>4. Leaves(<<"near", "up">>, n)
  BY <1>1, <1>2, <1>3, DropLeaves
<1>5. HeldElse(<<"proxy", "up">>) /\ held'[<<"proxy", "up">>] = SubSeq(wire[<<"near", "up">>], 2, n)
  BY <1>1, <1>2 DEF TubeTyped, HeldElse, Tube!RestOfRead
<1>6. n \in 1..ReadAhead
  BY <1>2, <1>3
<1>7. QED
  BY <1>4, <1>5, <1>6 DEF Tube!ReadHead

LEMMA DialDoes ==
  ASSUME TubeTyped, Tube!Dial
  PROVE  /\ task = "dial" /\ UNCHANGED <<route, shut, deaf, answer, pump, held, said, got, stop, fault>>
         /\ \/ route = "public" /\ task' = "connected" /\ UNCHANGED <<wire, host>>
            \/ route # "public" /\ task' = "response" /\ host' = "frame" /\ Enters(<<"mid", "up">>, <<"F">>)
<1>1. <<"mid", "up">> \in Tube!Ends /\ <<"F">> \in Seq(Tokens)
  BY NamedEnds, Glyphs
<1>2. wire' = Tube!Put(<<"mid", "up">>, <<"F">>) => Enters(<<"mid", "up">>, <<"F">>)
  BY <1>1, PutEnters
<1>3. QED
  BY <1>2 DEF Tube!Dial

LEMMA ReadResponseDoes ==
  ASSUME TubeTyped, Tube!ReadResponse
  PROVE  /\ task = "response" /\ UNCHANGED <<route, host, pump, said, got, stop, fault>>
         /\ \E n \in 1..4 :
              /\ n <= 4 - Len(answer) /\ n <= Len(wire[<<"mid", "down">>])
              /\ answer' = answer \o SubSeq(wire[<<"mid", "down">>], 1, n)
              /\ \/ /\ Tube!Accepted(answer') /\ task' = "connected" /\ UNCHANGED <<shut, deaf>>
                    /\ Leaves(<<"mid", "down">>, n) /\ HeldElse(<<"proxy", "down">>)
                    /\ held'[<<"proxy", "down">>] = SubSeq(answer', 4, Len(answer'))
                 \/ /\ Tube!ReadsOn(answer') /\ UNCHANGED <<task, held, shut, deaf>>
                    /\ Leaves(<<"mid", "down">>, n)
                 \/ /\ ~Tube!Accepted(answer') /\ ~Tube!ReadsOn(answer')
                    /\ task' = "rejected" /\ Tube!Close({<<"mid", "up">>}) /\ UNCHANGED held
<1> DEFINE w == wire[<<"mid", "down">>]
           e == <<"mid", "down">>
<1>1. PICK n \in Tube!Amounts(e, 4 - Len(answer)) :
       LET a == answer \o SubSeq(w, 1, n) IN
         /\ answer' = a
         /\ IF Tube!Accepted(a)
            THEN /\ task' = "connected" /\ wire' = Tube!Drop(e, n)
                 /\ held' = [held EXCEPT ![<<"proxy", "down">>] = SubSeq(a, 4, Len(a))]
                 /\ UNCHANGED <<shut, deaf>>
            ELSE IF Tube!ReadsOn(a)
            THEN /\ wire' = Tube!Drop(e, n)
                 /\ UNCHANGED <<task, held, shut, deaf>>
            ELSE task' = "rejected" /\ Tube!Close({<<"mid", "up">>}) /\ UNCHANGED held
  BY DEF Tube!ReadResponse
<1>2. e \in Tube!Ends /\ Len(answer) \in Nat
  BY NamedEnds, LenProperties DEF TubeTyped
<1>3. n \in Nat /\ n >= 1 /\ n <= Len(w) /\ n <= 4 - Len(answer)
  BY <1>1, <1>2, AmountsAre
<1>4. wire' = Tube!Drop(e, n) => Leaves(e, n)
  BY <1>2, <1>3, DropLeaves
<1>5. n \in 1..4
  BY <1>2, <1>3
<1>6. answer' = answer \o SubSeq(w, 1, n)
  BY <1>1
<1>7. ASSUME held' = [held EXCEPT ![<<"proxy", "down">>] = SubSeq(answer', 4, Len(answer'))]
      PROVE  HeldElse(<<"proxy", "down">>) /\ held'[<<"proxy", "down">>] = SubSeq(answer', 4, Len(answer'))
  BY <1>7, NamedEnds DEF TubeTyped, HeldElse
<1>8. \/ /\ Tube!Accepted(answer') /\ task' = "connected" /\ UNCHANGED <<shut, deaf>>
         /\ Leaves(e, n) /\ HeldElse(<<"proxy", "down">>)
         /\ held'[<<"proxy", "down">>] = SubSeq(answer', 4, Len(answer'))
      \/ /\ Tube!ReadsOn(answer') /\ UNCHANGED <<task, held, shut, deaf>>
         /\ Leaves(e, n)
      \/ /\ ~Tube!Accepted(answer') /\ ~Tube!ReadsOn(answer')
         /\ task' = "rejected" /\ Tube!Close({<<"mid", "up">>}) /\ UNCHANGED held
  BY <1>1, <1>4, <1>6, <1>7
<1>9. QED
  BY <1>3, <1>5, <1>6, <1>8 DEF Tube!ReadResponse

LEMMA ServeDoes ==
  ASSUME TubeTyped, Tube!Serve
  PROVE  /\ host = "frame" /\ UNCHANGED <<route, task, answer, held, said, got, stop, fault>>
         /\ Len(wire[<<"mid", "up">>]) > 0
         /\ wire'[<<"mid", "up">>] = SubSeq(wire[<<"mid", "up">>], 2, Len(wire[<<"mid", "up">>]))
         /\ \A f \in Tube!Ends : f # <<"mid", "up">> /\ f # <<"mid", "down">> => wire'[f] = wire[f]
         /\ \/ /\ host' = "relay" /\ wire'[<<"mid", "down">>] = <<"O", "K", "N">> /\ UNCHANGED <<shut, deaf>>
               /\ pump'[<<"broker", "up">>] = "copy" /\ pump'[<<"broker", "down">>] = "copy"
               /\ pump'[<<"proxy", "up">>] = pump[<<"proxy", "up">>] /\ pump'[<<"proxy", "down">>] = pump[<<"proxy", "down">>]
            \/ /\ host' = "refused" /\ wire'[<<"mid", "down">>] = <<"X">> /\ UNCHANGED pump
               /\ shut' = shut \cup {<<"mid", "down">>} /\ deaf' = deaf \cup {<<"mid", "up">>}
<1> DEFINE w == Tube!Drop(<<"mid", "up">>, 1)
<1>1. wire[<<"mid", "up">>] \in Seq(Tokens) /\ wire[<<"mid", "up">>] # <<>> /\ <<"mid", "up">> \in Tube!Ends /\ <<"mid", "down">> \in Tube!Ends
  BY NamedEnds DEF TubeTyped, Tube!Serve
<1>2. Len(wire[<<"mid", "up">>]) > 0 /\ Len(wire[<<"mid", "up">>]) \in Nat
  BY <1>1, HeadOff
<1>3. 1 <= Len(wire[<<"mid", "up">>])
  BY <1>2
<1>4. /\ w \in [Tube!Ends -> Seq(Tokens)] /\ w[<<"mid", "up">>] = SubSeq(wire[<<"mid", "up">>], 1 + 1, Len(wire[<<"mid", "up">>]))
      /\ \A f \in Tube!Ends : f # <<"mid", "up">> => w[f] = wire[f]
  BY <1>1, <1>3, DropIs
<1>5. \/ host' = "relay" /\ wire' = [w EXCEPT ![<<"mid", "down">>] = <<"O", "K", "N">>] /\ UNCHANGED <<shut, deaf>>
         /\ pump' = [pump EXCEPT ![<<"broker", "up">>] = "copy", ![<<"broker", "down">>] = "copy"]
      \/ host' = "refused" /\ wire' = [w EXCEPT ![<<"mid", "down">>] = <<"X">>] /\ UNCHANGED pump
         /\ shut' = shut \cup {<<"mid", "down">>} /\ deaf' = deaf \cup {<<"mid", "up">>}
  BY DEF Tube!Serve
<1> HIDE DEF w
<1>6. wire'[<<"mid", "up">>] = w[<<"mid", "up">>] /\ \A f \in Tube!Ends : f # <<"mid", "up">> /\ f # <<"mid", "down">> => wire'[f] = wire[f]
  BY <1>1, <1>4, <1>5
<1>7. /\ host' = "relay" => wire'[<<"mid", "down">>] = <<"O", "K", "N">>
      /\ host' = "refused" => wire'[<<"mid", "down">>] = <<"X">>
  BY <1>1, <1>4, <1>5
<1>8. pump' = [pump EXCEPT ![<<"broker", "up">>] = "copy", ![<<"broker", "down">>] = "copy"] =>
         /\ pump'[<<"broker", "up">>] = "copy" /\ pump'[<<"broker", "down">>] = "copy"
         /\ pump'[<<"proxy", "up">>] = pump[<<"proxy", "up">>] /\ pump'[<<"proxy", "down">>] = pump[<<"proxy", "down">>]
  BY NamedEnds DEF TubeTyped
<1>9. wire'[<<"mid", "up">>] = SubSeq(wire[<<"mid", "up">>], 2, Len(wire[<<"mid", "up">>]))
  BY <1>4, <1>6
<1>10. QED
  BY <1>2, <1>5, <1>6, <1>7, <1>8, <1>9 DEF Tube!Serve

LEMMA EstablishDoes ==
  ASSUME TubeTyped, Tube!Establish
  PROVE  /\ task = "connected" /\ UNCHANGED <<route, answer, host, held, said, got, stop, fault>>
         /\ \/ /\ stop = "none" /\ Free("near", "down") /\ Enters(<<"near", "down">>, <<"E">>) /\ task' = "relay"
               /\ UNCHANGED <<shut, deaf>>
               /\ pump'[<<"proxy", "up">>] = "copy" /\ pump'[<<"proxy", "down">>] = "copy"
               /\ pump'[<<"broker", "up">>] = pump[<<"broker", "up">>] /\ pump'[<<"broker", "down">>] = pump[<<"broker", "down">>]
            \/ task' = "over" /\ Tube!Close(Tube!ProxyEnds) /\ UNCHANGED pump /\ (stop # "none" \/ ~Free("near", "down"))
<1>1. <<"near", "down">> \in Tube!Ends /\ <<"E">> \in Seq(Tokens)
  BY NamedEnds, Glyphs
<1>2. wire' = Tube!Put(<<"near", "down">>, <<"E">>) => Enters(<<"near", "down">>, <<"E">>)
  BY <1>1, PutEnters
<1>3. pump' = [pump EXCEPT ![<<"proxy", "up">>] = "copy", ![<<"proxy", "down">>] = "copy"] =>
         /\ pump'[<<"proxy", "up">>] = "copy" /\ pump'[<<"proxy", "down">>] = "copy"
         /\ pump'[<<"broker", "up">>] = pump[<<"broker", "up">>] /\ pump'[<<"broker", "down">>] = pump[<<"broker", "down">>]
  BY NamedEnds DEF TubeTyped
<1>4. QED
  BY <1>2, <1>3 DEF Tube!Establish, Free

LEMMA CopyReadDoes ==
  ASSUME TubeTyped, NEW q \in Tube!Pumps, Tube!CopyRead(q)
  PROVE  /\ Tube!Copying(q) /\ held[q] = <<>> /\ HeldElse(q)
         /\ \E n \in 1..Buffer : /\ Leaves(Tube!From(q), n)
                                 /\ held'[q] = held[q] \o SubSeq(wire[Tube!From(q)], 1, n)
         /\ UNCHANGED <<route, shut, deaf, task, answer, host, pump, said, got, stop, fault>>
<1>1. PICK n \in Tube!Amounts(Tube!From(q), Buffer) :
        /\ held' = [held EXCEPT ![q] = @ \o SubSeq(wire[Tube!From(q)], 1, n)]
        /\ wire' = Tube!Drop(Tube!From(q), n)
  BY DEF Tube!CopyRead
<1>2. Tube!From(q) \in Tube!Ends /\ Buffer \in Int
  BY PlumbingEnds, Sizes
<1>3. n \in Nat /\ n >= 1 /\ n <= Len(wire[Tube!From(q)]) /\ n <= Buffer
  BY <1>1, <1>2, AmountsAre
<1>4. Leaves(Tube!From(q), n)
  BY <1>1, <1>2, <1>3, DropLeaves
<1>5. HeldElse(q) /\ held'[q] = held[q] \o SubSeq(wire[Tube!From(q)], 1, n)
  BY <1>1 DEF TubeTyped, HeldElse
<1>6. n \in 1..Buffer
  BY <1>2, <1>3
<1>7. QED
  BY <1>4, <1>5, <1>6 DEF Tube!CopyRead, Tube!MayRead

LEMMA CopyWriteDoes ==
  ASSUME TubeTyped, NEW q \in Tube!Pumps, Tube!CopyWrite(q)
  PROVE  /\ Tube!Copying(q) /\ ~Tube!CannotWrite(Tube!To(q)) /\ HeldElse(q) /\ Len(wire[Tube!To(q)]) < Window
         /\ held[q] # <<>> /\ Enters(Tube!To(q), SubSeq(held[q], 1, 1)) /\ held'[q] = SubSeq(held[q], 2, Len(held[q]))
         /\ UNCHANGED <<route, shut, deaf, task, answer, host, pump, said, got, stop, fault>>
<1>1. held[q] \in Seq(Tokens) /\ held[q] # <<>> /\ Tube!To(q) \in Tube!Ends
  BY PlumbingEnds DEF TubeTyped, Tube!CopyWrite
<1>2. /\ Head(held[q]) \in Tokens /\ <<Head(held[q])>> = SubSeq(held[q], 1, 1)
      /\ Tail(held[q]) = SubSeq(held[q], 2, Len(held[q]))
  BY <1>1, HeadOff
<1>3. <<Head(held[q])>> \in Seq(Tokens)
  BY <1>2, Singles
<1>4. Enters(Tube!To(q), <<Head(held[q])>>)
  BY <1>1, <1>3, PutEnters DEF Tube!CopyWrite
<1>5. HeldElse(q) /\ held'[q] = Tail(held[q])
  BY DEF TubeTyped, Tube!CopyWrite, HeldElse
<1>6. QED
  BY <1>1, <1>2, <1>4, <1>5 DEF Tube!CopyWrite, Tube!Room

LEMMA SayDoes ==
  ASSUME TubeTyped, NEW who \in Tube!Parties, Tube!Say(who)
  PROVE  /\ Tube!There(who) /\ said[who] < Tube!Bytes(who) /\ Len(wire[Tube!Mouth(who)]) < Window /\ ~Tube!CannotWrite(Tube!Mouth(who))
         /\ Enters(Tube!Mouth(who), <<said[who] + 1>>) /\ said'[who] = said[who] + 1
         /\ \A w \in Tube!Parties : w # who => said'[w] = said[w]
         /\ UNCHANGED <<route, shut, deaf, task, answer, host, pump, held, got, stop, fault>>
<1>1. said[who] \in Nat /\ Tube!Mouth(who) \in Tube!Ends
  BY MouthEnds DEF TubeTyped
<1>2. <<said[who] + 1>> \in Seq(Tokens)
  <2>1. said[who] + 1 \in Tokens
    BY <1>1 DEF Tokens
  <2>2. QED
    BY <2>1, Singles
<1>3. Enters(Tube!Mouth(who), <<said[who] + 1>>)
  BY <1>1, <1>2, PutEnters DEF Tube!Say
<1>4. said'[who] = said[who] + 1 /\ \A w \in Tube!Parties : w # who => said'[w] = said[w]
  BY DEF TubeTyped, Tube!Say
<1>5. QED
  BY <1>3, <1>4 DEF Tube!Say, Tube!Room

LEMMA HearDoes ==
  ASSUME TubeTyped, NEW who \in Tube!Parties, Tube!Hear(who)
  PROVE  /\ Tube!There(who) /\ wire[Tube!Ear(who)] # <<>> /\ Leaves(Tube!Ear(who), 1)
         /\ got'[who] = got[who] \o SubSeq(wire[Tube!Ear(who)], 1, 1)
         /\ \A w \in Tube!Parties : w # who => got'[w] = got[w]
         /\ UNCHANGED <<route, shut, deaf, task, answer, host, pump, held, said, stop, fault>>
<1>1. Tube!Ear(who) \in Tube!Ends /\ wire[Tube!Ear(who)] \in Seq(Tokens) /\ wire[Tube!Ear(who)] # <<>> /\ got[who] \in Seq(Tokens)
  BY MouthEnds DEF TubeTyped, Tube!Hear
<1>2. Head(wire[Tube!Ear(who)]) \in Tokens /\ 1 <= Len(wire[Tube!Ear(who)]) /\ <<Head(wire[Tube!Ear(who)])>> = SubSeq(wire[Tube!Ear(who)], 1, 1)
  BY <1>1, HeadOff
<1>3. Leaves(Tube!Ear(who), 1)
  BY <1>1, <1>2, DropLeaves DEF Tube!Hear
<1>4. Append(got[who], Head(wire[Tube!Ear(who)])) = got[who] \o <<Head(wire[Tube!Ear(who)])>>
  BY <1>1, <1>2, AppendIsConcat
<1>5. got'[who] = Append(got[who], Head(wire[Tube!Ear(who)])) /\ \A w \in Tube!Parties : w # who => got'[w] = got[w]
  BY DEF TubeTyped, Tube!Hear
<1>6. QED
  BY <1>1, <1>2, <1>3, <1>4, <1>5 DEF Tube!Hear

-----------------------------------------------------------------------------
(* What is empty before its time.                                          *)

\* What is not yet in use is empty, step by step.
LEMMA EmptyStep == TubeTyped /\ TubeTyped' /\ Positions /\ Positions' /\ Empty /\ [Tube!Next]_Tube!vars => Empty'
<1> SUFFICES ASSUME TubeTyped, TubeTyped', Positions, Positions', Empty, [Tube!Next]_Tube!vars PROVE Empty'
  OBVIOUS
<1>0. route \in {"public", "local"}
  BY Sizes DEF TubeTyped
<1>1. CASE Tube!ReadHead
  <2>1. /\ \A f \in Tube!Ends : f # <<"near", "up">> => wire'[f] = wire[f]
        /\ HeldElse(<<"proxy", "up">>) /\ task = "head" /\ task' = "dial"
        /\ UNCHANGED <<route, shut, deaf, answer, host, pump, said, got, stop, fault>>
    BY <1>1, ReadHeadDoes DEF Leaves
  <2>2. /\ wire'[<<"near", "down">>] = wire[<<"near", "down">>] /\ wire'[<<"mid", "down">>] = wire[<<"mid", "down">>]
        /\ wire'[<<"mid", "up">>] = wire[<<"mid", "up">>] /\ wire'[<<"far", "down">>] = wire[<<"far", "down">>]
        /\ wire'[<<"far", "up">>] = wire[<<"far", "up">>]
    BY <2>1, NamedEnds
  <2>3. /\ held'[<<"proxy", "down">>] = held[<<"proxy", "down">>] /\ held'[<<"broker", "up">>] = held[<<"broker", "up">>]
        /\ held'[<<"broker", "down">>] = held[<<"broker", "down">>]
    BY <2>1, NamedEnds DEF HeldElse
  <2>4. QED
    BY <2>1, <2>2, <2>3 DEF Empty, ProxyOff, BrokerOff, Tube!There, Free, Tube!CannotWrite
<1>2. CASE Tube!Dial
  <2>1. UNCHANGED <<route, shut, deaf, answer, pump, held, said, got>> /\ task = "dial"
    BY <1>2, DialDoes
  <2>2. CASE route = "public" /\ task' = "connected" /\ UNCHANGED <<wire, host>>
    BY <2>1, <2>2 DEF Empty, ProxyOff, BrokerOff, Tube!There, Free, Tube!CannotWrite
  <2>3. CASE route # "public" /\ task' = "response" /\ host' = "frame" /\ Enters(<<"mid", "up">>, <<"F">>)
    <3>1. /\ wire'[<<"near", "down">>] = wire[<<"near", "down">>] /\ wire'[<<"mid", "down">>] = wire[<<"mid", "down">>]
          /\ wire'[<<"far", "down">>] = wire[<<"far", "down">>] /\ wire'[<<"far", "up">>] = wire[<<"far", "up">>]
      BY <2>3, NamedEnds DEF Enters
    <3>2. host = "none"
      BY <2>1 DEF Positions
    <3>3. QED
      BY <2>1, <2>3, <3>1, <3>2 DEF Empty, ProxyOff, BrokerOff, Tube!There, Free, Tube!CannotWrite, Positions
  <2>4. QED
    BY <1>2, <2>2, <2>3, DialDoes
<1>3. CASE Tube!ReadResponse
  <2>1. task = "response" /\ UNCHANGED <<route, host, pump, said, got, stop, fault>> /\ route = "local" /\ host # "none"
    BY <1>0, <1>3, ReadResponseDoes DEF Positions
  <2>2. ASSUME NEW n \in Nat, Leaves(<<"mid", "down">>, n), HeldElse(<<"proxy", "down">>), UNCHANGED <<shut, deaf>>,
               task' = "connected" \/ (task' = "response" /\ UNCHANGED held)
        PROVE  Empty'
    <3>1. /\ wire'[<<"near", "down">>] = wire[<<"near", "down">>] /\ wire'[<<"mid", "up">>] = wire[<<"mid", "up">>]
          /\ wire'[<<"far", "down">>] = wire[<<"far", "down">>] /\ wire'[<<"far", "up">>] = wire[<<"far", "up">>]
      BY <2>2, NamedEnds DEF Leaves
    <3>2. wire[<<"mid", "down">>] # <<>>
      BY <2>2 DEF Leaves
    <3>3. /\ held'[<<"proxy", "up">>] = held[<<"proxy", "up">>] /\ held'[<<"broker", "up">>] = held[<<"broker", "up">>]
          /\ held'[<<"broker", "down">>] = held[<<"broker", "down">>]
      BY <2>2, NamedEnds DEF HeldElse
    <3>4. host \notin {"none", "frame"}
      BY <2>1, <3>2 DEF Empty
    <3>5. QED
      BY <2>1, <2>2, <3>1, <3>2, <3>3, <3>4 DEF Empty, ProxyOff, BrokerOff, Tube!There, Free, Tube!CannotWrite
  <2>3. ASSUME task' = "rejected", Tube!Close({<<"mid", "up">>}), UNCHANGED held PROVE Empty'
    <3>1. /\ <<"far", "up">> \notin {<<"mid", "up">>} /\ <<"far", "down">> \notin {<<"mid", "up">>}
          /\ (ProxyOff' <=> ProxyOff) /\ (BrokerOff' <=> BrokerOff) /\ (Tube!There("service") => Tube!There("service")')
      BY <2>1, <2>3 DEF ProxyOff, BrokerOff, Tube!There
    <3>2. QED
      BY <2>1, <2>3, <3>1, Closers, EmptyClose
  <2>4. UNCHANGED held => HeldElse(<<"proxy", "down">>)
    BY DEF HeldElse
  <2>5. QED
    <3>1. PICK n \in 1..4 :
            \/ /\ task' = "connected" /\ UNCHANGED <<shut, deaf>>
               /\ Leaves(<<"mid", "down">>, n) /\ HeldElse(<<"proxy", "down">>)
            \/ /\ UNCHANGED <<task, held, shut, deaf>> /\ Leaves(<<"mid", "down">>, n)
            \/ task' = "rejected" /\ Tube!Close({<<"mid", "up">>}) /\ UNCHANGED held
      BY <1>3, ReadResponseDoes
    <3>2. n \in Nat
      OBVIOUS
    <3>3. CASE task' = "connected" /\ UNCHANGED <<shut, deaf>> /\ Leaves(<<"mid", "down">>, n) /\ HeldElse(<<"proxy", "down">>)
      BY <2>2, <3>2, <3>3
    <3>4. CASE UNCHANGED <<task, held, shut, deaf>> /\ Leaves(<<"mid", "down">>, n)
      <4>1. task' = "response" /\ UNCHANGED held /\ HeldElse(<<"proxy", "down">>) /\ UNCHANGED <<shut, deaf>>
        BY <2>1, <2>4, <3>4
      <4>2. QED
        BY <2>2, <3>2, <3>4, <4>1
    <3>5. QED
      BY <2>3, <3>1, <3>3, <3>4
<1>4. CASE Tube!NoResponse
  <2>1. /\ <<"far", "up">> \notin {<<"mid", "up">>} /\ <<"far", "down">> \notin {<<"mid", "up">>}
        /\ (ProxyOff' <=> ProxyOff) /\ (BrokerOff' <=> BrokerOff) /\ (Tube!There("service") => Tube!There("service")')
    BY <1>0, <1>4 DEF ProxyOff, BrokerOff, Tube!There, Tube!NoResponse, Positions
  <2>2. QED
    BY <1>4, <2>1, Closers, EmptyClose DEF Tube!NoResponse
<1>5. CASE Tube!Establish
  <2>1. task = "connected" /\ UNCHANGED <<route, answer, host, held, said, got, stop, fault>>
    BY <1>5, EstablishDoes
  <2>2. CASE /\ Enters(<<"near", "down">>, <<"E">>) /\ task' = "relay" /\ UNCHANGED <<shut, deaf>>
             /\ pump'[<<"proxy", "up">>] = "copy" /\ pump'[<<"proxy", "down">>] = "copy"
             /\ pump'[<<"broker", "up">>] = pump[<<"broker", "up">>] /\ pump'[<<"broker", "down">>] = pump[<<"broker", "down">>]
    <3>1. /\ wire'[<<"mid", "down">>] = wire[<<"mid", "down">>] /\ wire'[<<"mid", "up">>] = wire[<<"mid", "up">>]
          /\ wire'[<<"far", "down">>] = wire[<<"far", "down">>] /\ wire'[<<"far", "up">>] = wire[<<"far", "up">>]
      BY <2>2, NamedEnds DEF Enters
    <3>2. QED
      BY <1>0, <2>1, <2>2, <3>1 DEF Empty, ProxyOff, BrokerOff, Tube!There, Free, Tube!CannotWrite
  <2>3. CASE task' = "over" /\ Tube!Close(Tube!ProxyEnds) /\ UNCHANGED pump
    <3>1. /\ <<"far", "up">> \notin Tube!ProxyEnds /\ <<"far", "down">> \notin Tube!ProxyEnds
          /\ (ProxyOff' <=> ProxyOff) /\ (BrokerOff' <=> BrokerOff) /\ (Tube!There("service") => Tube!There("service")')
      BY <2>1, <2>3 DEF ProxyOff, BrokerOff, Tube!There, Tube!ProxyEnds
    <3>2. QED
      BY <2>1, <2>3, <3>1, Closers, EmptyClose
  <2>4. QED
    BY <1>5, <2>2, <2>3, EstablishDoes
<1>6. CASE Tube!RelayOver /\ task = "relay"
  <2>1. /\ <<"far", "up">> \notin Tube!ProxyEnds /\ <<"far", "down">> \notin Tube!ProxyEnds
        /\ (ProxyOff' <=> ProxyOff) /\ (BrokerOff' <=> BrokerOff) /\ (Tube!There("service") => Tube!There("service")')
    BY <1>6 DEF ProxyOff, BrokerOff, Tube!There, Tube!ProxyEnds, Tube!RelayOver
  <2>2. QED
    BY <1>6, <2>1, Closers, EmptyClose DEF Tube!RelayOver
<1>7. CASE Tube!Serve
  <2>1. /\ host = "frame" /\ UNCHANGED <<route, task, answer, held, said, got, stop, fault>>
        /\ \A f \in Tube!Ends : f # <<"mid", "up">> /\ f # <<"mid", "down">> => wire'[f] = wire[f]
    BY <1>7, ServeDoes
  <2>2. /\ wire'[<<"near", "down">>] = wire[<<"near", "down">>]
        /\ wire'[<<"far", "down">>] = wire[<<"far", "down">>] /\ wire'[<<"far", "up">>] = wire[<<"far", "up">>]
    BY <2>1, NamedEnds
  <2>3. route = "local" /\ task \notin {"head", "dial"}
    BY <1>0, <2>1 DEF Positions
  <2>4. CASE /\ host' = "relay" /\ UNCHANGED <<shut, deaf>>
             /\ pump'[<<"broker", "up">>] = "copy" /\ pump'[<<"broker", "down">>] = "copy"
             /\ pump'[<<"proxy", "up">>] = pump[<<"proxy", "up">>] /\ pump'[<<"proxy", "down">>] = pump[<<"proxy", "down">>]
    BY <2>1, <2>2, <2>3, <2>4 DEF Empty, ProxyOff, BrokerOff, Tube!There, Free, Tube!CannotWrite
  <2>5. CASE /\ host' = "refused" /\ UNCHANGED pump
             /\ shut' = shut \cup {<<"mid", "down">>} /\ deaf' = deaf \cup {<<"mid", "up">>}
    <3>1. ~Tube!There("service") /\ ~Tube!There("service")'
      BY <2>1, <2>3, <2>5 DEF Tube!There
    <3>2. QED
      BY <2>1, <2>2, <2>3, <2>5, <3>1 DEF Empty, ProxyOff, BrokerOff, Free, Tube!CannotWrite
  <2>6. QED
    BY <1>7, <2>4, <2>5, ServeDoes
<1>8. CASE Tube!ServeNobody
  <2>1. /\ <<"far", "up">> \notin {<<"mid", "down">>} /\ <<"far", "down">> \notin {<<"mid", "down">>}
        /\ (ProxyOff' <=> ProxyOff) /\ (BrokerOff' <=> BrokerOff) /\ ~Tube!There("service") /\ task \notin {"head", "dial"}
    BY <1>0, <1>8 DEF ProxyOff, BrokerOff, Tube!There, Tube!ServeNobody, Positions
  <2>2. QED
    BY <1>8, <2>1, Closers, EmptyClose DEF Tube!ServeNobody
<1>9. CASE Tube!GiveUp
  <2>1. /\ <<"far", "up">> \notin Tube!Upstream /\ <<"far", "down">> \notin Tube!Upstream
        /\ (ProxyOff' <=> ProxyOff) /\ (BrokerOff' <=> BrokerOff) /\ (Tube!There("service") => Tube!There("service")')
        /\ task' = "failed" /\ UNCHANGED <<route, host, held, said, got>> /\ Tube!Close(Tube!Upstream)
    BY <1>0, <1>9 DEF ProxyOff, BrokerOff, Tube!There, Tube!GiveUp, Tube!Upstream, Positions
  <2>2. QED
    BY <2>1, Closers, EmptyClose
<1>10. CASE Tube!PeerClosed
  <2>1. /\ <<"far", "up">> \notin Tube!Upstream \cup {<<"near", "down">>} /\ <<"far", "down">> \notin Tube!Upstream \cup {<<"near", "down">>}
        /\ (ProxyOff' <=> ProxyOff) /\ (BrokerOff' <=> BrokerOff) /\ (Tube!There("service") => Tube!There("service")')
        /\ task' = "left" /\ UNCHANGED <<route, host, held, said, got>> /\ Tube!Close(Tube!Upstream \cup {<<"near", "down">>})
    BY <1>0, <1>10 DEF ProxyOff, BrokerOff, Tube!There, Tube!PeerClosed, Tube!Upstream, Positions
  <2>2. QED
    BY <2>1, Closers, EmptyClose
<1>11. CASE Tube!Signal
  BY <1>11 DEF Tube!Signal, Empty, ProxyOff, BrokerOff, Tube!There, Free, Tube!CannotWrite
<1>12. ASSUME NEW who \in Tube!Parties, Tube!Abort(who) PROVE Empty'
  <2>1. Tube!Close({Tube!Mouth(who)}) /\ UNCHANGED <<route, task, answer, host, pump, held, said, got, stop>> /\ Tube!There(who)
    BY <1>12 DEF Tube!Abort
  <2>2. /\ <<"near", "down">> \notin {Tube!Mouth(who)} /\ <<"mid", "up">> \notin {Tube!Mouth(who)}
        /\ <<"far", "up">> \notin {Tube!Mouth(who)}
        /\ <<"far", "down">> \in {Tube!Mouth(who)} => who = "service" /\ route = "local"
        /\ <<"mid", "down">> \in {Tube!Mouth(who)} => who = "service" /\ route = "public"
    BY <1>0, Mouths DEF Tube!Parties
  <2>3. /\ <<"far", "down">> \in {Tube!Mouth(who)} => ~BrokerOff
        /\ task \in {"head", "dial"} => <<"mid", "down">> \notin {Tube!Mouth(who)}
    BY <2>1, <2>2 DEF Tube!There, Positions
  <2>4. (ProxyOff' <=> ProxyOff) /\ (BrokerOff' <=> BrokerOff) /\ (Tube!There("service") => Tube!There("service")')
    BY <2>1 DEF ProxyOff, BrokerOff, Tube!There
  <2>5. QED
    BY <2>1, <2>2, <2>3, <2>4, Closers, EmptyClose
<1>13. ASSUME NEW q \in Tube!Pumps, Tube!CopyRead(q) PROVE Empty'
  <2>1. /\ Tube!Copying(q) /\ HeldElse(q) /\ wire[Tube!From(q)] # <<>>
        /\ \A f \in Tube!Ends : f # Tube!From(q) => wire'[f] = wire[f]
        /\ UNCHANGED <<route, shut, deaf, task, answer, host, pump, said, got, stop, fault>>
    BY <1>13, CopyReadDoes DEF Leaves
  <2>2. \A e \in Tube!Ends : wire[e] = <<>> => wire'[e] = <<>>
    BY <2>1
  <2>3. q[1] = "proxy" => task = "relay"
    BY <2>1 DEF Tube!Copying
  <2>4. pump[q] = "copy"
    BY <2>1 DEF Tube!Copying
  <2>5. /\ q = <<"proxy", "up">> \/ q = <<"proxy", "down">> => task = "relay" 
        /\ q = <<"broker", "up">> \/ q = <<"broker", "down">> => ~BrokerOff
    BY <2>3, <2>4 DEF Positions, BrokerOff
  <2>6. BrokerOff => held'[<<"broker", "up">>] = held[<<"broker", "up">>] /\ held'[<<"broker", "down">>] = held[<<"broker", "down">>]
    BY <2>1, <2>5, NamedEnds DEF HeldElse
  <2>7. task # "relay" => held'[<<"proxy", "up">>] = held[<<"proxy", "up">>] /\ held'[<<"proxy", "down">>] = held[<<"proxy", "down">>]
    BY <2>1, <2>5, NamedEnds DEF HeldElse
  <2>8. QED
    BY <2>1, <2>2, <2>6, <2>7, NamedEnds DEF Empty, ProxyOff, BrokerOff, Tube!There, Free, Tube!CannotWrite
<1>14. ASSUME NEW q \in Tube!Pumps, Tube!CopyWrite(q) PROVE Empty'
  <2>1. /\ Tube!Copying(q) /\ HeldElse(q)
        /\ \A f \in Tube!Ends : f # Tube!To(q) => wire'[f] = wire[f]
        /\ UNCHANGED <<route, shut, deaf, task, answer, host, pump, said, got, stop, fault>>
    BY <1>14, CopyWriteDoes DEF Enters
  <2>2. pump[q] = "copy" /\ (q[1] = "proxy" => task = "relay")
    BY <2>1 DEF Tube!Copying
  <2>3. /\ q = <<"proxy", "up">> \/ q = <<"proxy", "down">> => task = "relay" /\ ~ProxyOff
        /\ q = <<"broker", "up">> \/ q = <<"broker", "down">> => ~BrokerOff /\ host = "relay" /\ route = "local"
    BY <1>0, <2>2 DEF Positions, BrokerOff, ProxyOff
  <2>4. BrokerOff => held'[<<"broker", "up">>] = held[<<"broker", "up">>] /\ held'[<<"broker", "down">>] = held[<<"broker", "down">>]
    BY <2>1, <2>3, NamedEnds DEF HeldElse
  <2>5. task # "relay" => held'[<<"proxy", "up">>] = held[<<"proxy", "up">>] /\ held'[<<"proxy", "down">>] = held[<<"proxy", "down">>]
    BY <2>1, <2>3, NamedEnds DEF HeldElse
  <2>6. BrokerOff => wire'[<<"far", "up">>] = wire[<<"far", "up">>] /\ wire'[<<"far", "down">>] = wire[<<"far", "down">>]
    BY <2>1, <2>3, NamedEnds, Plumbing
  <2>7. ProxyOff => wire'[<<"near", "down">>] = wire[<<"near", "down">>]
    BY <2>1, <2>3, NamedEnds, Plumbing
  <2>8. host # "relay" /\ task # "relay" => wire'[<<"mid", "up">>] = wire[<<"mid", "up">>] /\ wire'[<<"mid", "down">>] = wire[<<"mid", "down">>]
    BY <2>1, <2>3, NamedEnds, Plumbing
  <2>9. QED
    BY <1>0, <2>1, <2>4, <2>5, <2>6, <2>7, <2>8 DEF Empty, ProxyOff, BrokerOff, Tube!There, Free, Tube!CannotWrite, Positions
<1>15. ASSUME NEW q \in Tube!Pumps, Tube!ProxyEof(q) PROVE Empty'
  <2>1. /\ pump' = [pump EXCEPT ![q] = "done"] /\ pump[q] = "copy" /\ task = "relay" /\ shut' = shut \cup {Tube!To(q)}
        /\ UNCHANGED <<wire, deaf, route, task, answer, host, held, said, got, stop, fault>>
    BY <1>15 DEF Tube!ProxyEof, Tube!HalfClose, Tube!Copying
  <2>2. q = <<"proxy", "up">> \/ q = <<"proxy", "down">>
    BY <1>15, NamedEnds DEF Tube!ProxyEof
  <2>3. \A p \in Tube!Pumps : pump'[p] = "off" <=> pump[p] = "off"
    BY <2>1 DEF TubeTyped
  <2>4. Tube!To(q) # <<"far", "up">> /\ Tube!To(q) # <<"far", "down">>
    BY <2>2, Plumbing
  <2>5. (ProxyOff' <=> ProxyOff) /\ (BrokerOff' <=> BrokerOff) /\ (Tube!There("service")' <=> Tube!There("service"))
    BY <2>1, <2>3, NamedEnds DEF ProxyOff, BrokerOff, Tube!There
  <2>6. (Free("far", "up")' <=> Free("far", "up")) /\ (Free("far", "down")' <=> Free("far", "down"))
    BY <2>1, <2>4 DEF Free, Tube!CannotWrite
  <2>7. ~Free("mid", "down") => ~Free("mid", "down")'
    BY <2>1 DEF Free, Tube!CannotWrite
  <2>8. QED
    BY <2>1, <2>5, <2>6, <2>7 DEF Empty
<1>16. ASSUME NEW q \in Tube!Pumps, Tube!BrokerEnds(q) PROVE Empty'
  <2>1. /\ pump' = [pump EXCEPT ![q] = "done"] /\ pump[q] = "copy" /\ q[1] = "broker"
        /\ Tube!Close({<<"mid", "down">>, <<"far", "up">>})
        /\ UNCHANGED <<route, task, answer, host, held, said, got, stop, fault>>
    BY <1>16 DEF Tube!BrokerEnds, Tube!Copying
  <2>2. q = <<"broker", "up">> \/ q = <<"broker", "down">>
    BY <2>1, NamedEnds
  <2>3. \A p \in Tube!Pumps : pump'[p] = "off" <=> pump[p] = "off"
    BY <2>1 DEF TubeTyped
  <2>4. ~BrokerOff /\ task \notin {"head", "dial"}
    BY <2>1, <2>2, <2>3 DEF BrokerOff, Positions
  <2>5. (ProxyOff' <=> ProxyOff) /\ (BrokerOff' <=> BrokerOff) /\ (Tube!There("service") => Tube!There("service")')
    BY <2>1, <2>3, NamedEnds DEF ProxyOff, BrokerOff, Tube!There
  <2>6. QED
    BY <2>1, <2>4, <2>5, Closers, EmptyClose
<1>17. ASSUME NEW who \in Tube!Parties, Tube!Say(who) PROVE Empty'
  <2>1. /\ Tube!There(who) /\ \A f \in Tube!Ends : f # Tube!Mouth(who) => wire'[f] = wire[f]
        /\ \A w \in Tube!Parties : w # who => said'[w] = said[w]
        /\ UNCHANGED <<route, shut, deaf, task, answer, host, pump, held, got, stop, fault>>
    BY <1>17, SayDoes DEF Enters
  <2>2. ~Tube!There("service") => said'["service"] = said["service"]
    BY <2>1 DEF Tube!Parties
  <2>3. /\ wire'[<<"near", "down">>] = wire[<<"near", "down">>] /\ wire'[<<"mid", "up">>] = wire[<<"mid", "up">>]
        /\ wire'[<<"far", "up">>] = wire[<<"far", "up">>]
    BY <1>0, <2>1, Mouths, NamedEnds DEF Tube!Parties
  <2>4. wire'[<<"mid", "down">>] # wire[<<"mid", "down">>] => route = "public" /\ Tube!There("service")
    BY <1>0, <2>1, Mouths, NamedEnds DEF Tube!Parties
  <2>5. wire'[<<"far", "down">>] # wire[<<"far", "down">>] => route = "local" /\ Tube!There("service")
    BY <1>0, <2>1, Mouths, NamedEnds DEF Tube!Parties
  <2>6. route = "local" /\ Tube!There("service") => ~BrokerOff
    BY DEF Tube!There, Positions
  <2>7. route = "public" /\ Tube!There("service") => task \notin {"head", "dial"}
    BY DEF Tube!There
  <2>8. (ProxyOff' <=> ProxyOff) /\ (BrokerOff' <=> BrokerOff) /\ (Tube!There("service")' <=> Tube!There("service"))
        /\ (Free("far", "up")' <=> Free("far", "up")) /\ (Free("far", "down")' <=> Free("far", "down"))
        /\ (Free("mid", "up")' <=> Free("mid", "up")) /\ (Free("mid", "down")' <=> Free("mid", "down"))
    BY <2>1 DEF ProxyOff, BrokerOff, Tube!There, Free, Tube!CannotWrite
  <2>9. QED
    BY <2>1, <2>2, <2>3, <2>4, <2>5, <2>6, <2>7, <2>8 DEF Empty
<1>18. ASSUME NEW who \in Tube!Parties, Tube!Finish(who) PROVE Empty'
  <2>1. /\ Tube!There(who) /\ shut' = shut \cup {Tube!Mouth(who)}
        /\ UNCHANGED <<route, wire, deaf, task, answer, host, pump, held, said, got, stop, fault>>
    BY <1>18 DEF Tube!Finish
  <2>2. /\ Tube!Mouth(who) # <<"near", "down">> /\ Tube!Mouth(who) # <<"mid", "up">> /\ Tube!Mouth(who) # <<"far", "up">>
        /\ Tube!Mouth(who) = <<"mid", "down">> => route = "public" /\ Tube!There("service")
        /\ Tube!Mouth(who) = <<"far", "down">> => route = "local" /\ Tube!There("service")
    BY <1>0, <2>1, Mouths DEF Tube!Parties
  <2>3. /\ route = "local" /\ Tube!There("service") => ~BrokerOff
        /\ route = "public" /\ Tube!There("service") => task \notin {"head", "dial"}
    BY DEF Tube!There, Positions
  <2>4. (ProxyOff' <=> ProxyOff) /\ (BrokerOff' <=> BrokerOff) /\ (Tube!There("service")' <=> Tube!There("service"))
    BY <2>1 DEF ProxyOff, BrokerOff, Tube!There
  <2>5. QED
    BY <2>1, <2>2, <2>3, <2>4 DEF Empty, Free, Tube!CannotWrite
<1>19. ASSUME NEW who \in Tube!Parties, Tube!Hear(who) PROVE Empty'
  <2>1. /\ Tube!There(who) /\ wire[Tube!Ear(who)] # <<>> /\ \A f \in Tube!Ends : f # Tube!Ear(who) => wire'[f] = wire[f]
        /\ \A w \in Tube!Parties : w # who => got'[w] = got[w]
        /\ UNCHANGED <<route, shut, deaf, task, answer, host, pump, held, said, stop, fault>>
    BY <1>19, HearDoes DEF Leaves
  <2>2. \A e \in Tube!Ends : wire[e] = <<>> => wire'[e] = <<>>
    BY <2>1
  <2>3. ~Tube!There("service") => got'["service"] = got["service"]
    BY <2>1 DEF Tube!Parties
  <2>4. ProxyOff => got'["client"] = got["client"]
    <3>1. who = "client" => ~ProxyOff
      BY <2>1, Mouths DEF Empty
    <3>2. QED
      BY <2>1, <3>1 DEF Tube!Parties
  <2>5. (ProxyOff' <=> ProxyOff) /\ (BrokerOff' <=> BrokerOff) /\ (Tube!There("service")' <=> Tube!There("service"))
        /\ (Free("far", "up")' <=> Free("far", "up")) /\ (Free("far", "down")' <=> Free("far", "down"))
        /\ (Free("mid", "up")' <=> Free("mid", "up")) /\ (Free("mid", "down")' <=> Free("mid", "down"))
    BY <2>1 DEF ProxyOff, BrokerOff, Tube!There, Free, Tube!CannotWrite
  <2>6. QED
    BY <2>1, <2>2, <2>3, <2>4, <2>5, NamedEnds DEF Empty
<1>20. CASE UNCHANGED Tube!vars
  BY <1>20 DEF Tube!vars, Empty, ProxyOff, BrokerOff, Tube!There, Free, Tube!CannotWrite
<1>21. QED
  BY <1>1, <1>2, <1>3, <1>4, <1>5, <1>6, <1>7, <1>8, <1>9, <1>10, <1>11, <1>12, <1>13, <1>14, <1>15, <1>16,
     <1>17, <1>18, <1>19, <1>20
     DEF Tube!Next, Tube!Proxy, Tube!Worker, Tube!Outside, Tube!Loop, Tube!Party, Tube!ProxyForced, Tube!ProxyDone, Tube!ProxyFails, Tube!Copying

-----------------------------------------------------------------------------
(* The answer of the broker.                                               *)

\* An answer with what was read of a link.
LEMMA AppendedPart ==
  ASSUME NEW s \in Seq(Tokens), NEW t \in Seq(Tokens), NEW n \in Nat, n <= Len(s)
  PROVE  /\ t \o SubSeq(s, 1, n) \in Seq(Tokens) /\ Len(t \o SubSeq(s, 1, n)) = Len(t) + n
         /\ \A i \in 1..Len(t) : (t \o SubSeq(s, 1, n))[i] = t[i]
         /\ \A i \in 1..n : (t \o SubSeq(s, 1, n))[Len(t) + i] = s[i]
<1> DEFINE q == SubSeq(s, 1, n)
<1>0. Len(s) \in Nat /\ Len(t) \in Nat
  BY LenProperties
<1>1. q \in Seq(Tokens) /\ Len(q) = n
  <2>1. n + 1 - 1 = n
    OBVIOUS
  <2>2. QED
    BY <1>0, <2>1, PartIsSeq
<1>2. \A i \in 1..n : q[i] = s[i]
  <2>1. 1 \in 1..Len(s) + 1 /\ n \in 1 - 1..Len(s)
    BY <1>0
  <2>2. QED
    BY ONLY <1>0, <2>1, SubSeqProperties, s \in Seq(Tokens), n \in Nat
<1> HIDE DEF q
<1>3. /\ t \o q \in Seq(Tokens) /\ Len(t \o q) = Len(t) + n
      /\ \A i \in 1..Len(t) + Len(q) : (t \o q)[i] = IF i <= Len(t) THEN t[i] ELSE q[i - Len(t)]
  BY <1>1, ConcatProperties
<1>4. ASSUME NEW i \in 1..Len(t) PROVE (t \o q)[i] = t[i]
  BY <1>0, <1>1, <1>3
<1>5. ASSUME NEW i \in 1..n PROVE (t \o q)[Len(t) + i] = s[i]
  <2>1. Len(t) + i \in 1..Len(t) + Len(q) /\ ~(Len(t) + i <= Len(t)) /\ (Len(t) + i) - Len(t) = i
    BY <1>0, <1>1
  <2>2. (t \o q)[Len(t) + i] = q[i]
    BY <1>3, <2>1
  <2>3. QED
    BY <1>2, <2>2
<1>6. QED
  BY <1>3, <1>4, <1>5 DEF q

\* A prefix, token by token.
LEMMA PrefixIs ==
  ASSUME NEW s \in Seq(Tokens), NEW t \in Seq(Tokens)
  PROVE  Tube!IsPrefix(s, t) <=> Len(s) <= Len(t) /\ \A i \in 1..Len(s) : s[i] = t[i]
<1> DEFINE l == Len(s)
           p == SubSeq(s, 1, l)
           r == SubSeq(t, 1, l)
<1>0. l \in Nat /\ Len(t) \in Nat
  BY LenProperties
<1>1. Tube!IsPrefix(s, t) <=> l <= Len(t) /\ p = r
  BY DEF Tube!IsPrefix
<1> HIDE DEF l
<1>2. l = Len(s)
  BY DEF l
<1>3. ASSUME l <= Len(t) PROVE p = r <=> \A i \in 1..l : s[i] = t[i]
  <2>1. 1 \in 1..Len(s) + 1 /\ l \in 1 - 1..Len(s) /\ 1 \in 1..Len(t) + 1 /\ l \in 1 - 1..Len(t)
    BY <1>0, <1>2, <1>3
  <2>2. p \in Seq(Tokens) /\ r \in Seq(Tokens)
    BY ONLY <2>1, SubSeqProperties, s \in Seq(Tokens), t \in Seq(Tokens)
  <2>3. Len(p) = l - 1 + 1 /\ Len(r) = l - 1 + 1
    BY ONLY <1>0, <2>1, SubSeqProperties, s \in Seq(Tokens), t \in Seq(Tokens)
  <2>4. \A i \in 1..l : p[i] = s[i] /\ r[i] = t[i]
    BY ONLY <1>0, <2>1, SubSeqProperties, s \in Seq(Tokens), t \in Seq(Tokens)
  <2> HIDE DEF p, r
  <2>5. Len(p) = l /\ Len(r) = l
    BY <1>0, <2>3
  <2>6. (\A i \in 1..l : s[i] = t[i]) => p = r
    <3>1. HAVE \A i \in 1..l : s[i] = t[i]
    <3>2. \A i \in 1..Len(p) : p[i] = r[i]
      BY <2>4, <2>5, <3>1
    <3>3. QED
      BY <2>2, <2>5, <3>2, SeqEqual
  <2>7. p = r => \A i \in 1..l : s[i] = t[i]
    BY <2>4
  <2>8. QED
    BY <2>6, <2>7
<1>4. QED
  BY <1>1, <1>2, <1>3

\* The answer as it is read: the broker's, or another.
LEMMA BrokerAnswers ==
  ASSUME TubeTyped, Positions, Empty, Reply, Tube!ReadResponse
  PROVE  /\ host \in {"relay", "refused"}
         /\ host = "refused" => task' = "rejected"
         /\ host = "relay" => task' \in {"connected", "response"}
         /\ host = "relay" => \A i \in 1..Len(answer') : i <= 3 => answer'[i] = Sigil(i)
<1> DEFINE w == wire[<<"mid", "down">>]
<1>1. task = "response"
  BY ReadResponseDoes
<1>2. PICK n \in 1..4 :
        /\ n <= 4 - Len(answer) /\ n <= Len(w) /\ answer' = answer \o SubSeq(w, 1, n)
        /\ \/ Tube!Accepted(answer') /\ task' = "connected"
           \/ Tube!ReadsOn(answer') /\ task' = task
           \/ ~Tube!Accepted(answer') /\ ~Tube!ReadsOn(answer') /\ task' = "rejected"
  BY ReadResponseDoes
<1>3. w \in Seq(Tokens) /\ answer \in Seq(Tokens) /\ n \in Nat
  BY NamedEnds DEF TubeTyped
<1>4. Len(w) \in Nat /\ Len(answer) \in Nat /\ w # <<>>
  BY <1>2, <1>3, LenProperties
<1>5. host \in {"relay", "refused"}
  <2>1. host # "none" /\ route = "local"
    BY <1>1, Sizes DEF Positions, TubeTyped
  <2>2. host # "frame"
    BY <1>4, <2>1 DEF Empty
  <2>3. QED
    BY <2>1, <2>2 DEF TubeTyped
<1>6. /\ answer' \in Seq(Tokens) /\ Len(answer') = Len(answer) + n
      /\ \A i \in 1..Len(answer) : answer'[i] = answer[i]
      /\ \A i \in 1..n : answer'[Len(answer) + i] = w[i]
  BY ONLY <1>2, <1>3, AppendedPart
<1>7. Len(answer') \in Nat
  BY <1>2, <1>4, <1>6
<1>8. Tube!ReadsOn(answer') <=> Len(answer') < 3 /\ \A i \in 1..Len(answer') : answer'[i] = Sigil(i)
  <2> DEFINE o == <<"O", "K", "N">>
  <2>1. o \in Seq(Tokens) /\ Len(o) = 3 /\ o[1] = "O" /\ o[2] = "K" /\ o[3] = "N"
    BY Glyphs
  <2>2. \A i \in 1..3 : o[i] = Sigil(i)
    BY <2>1 DEF Sigil
  <2> HIDE DEF o
  <2>3. Tube!IsPrefix(answer', o) <=> Len(answer') <= 3 /\ \A i \in 1..Len(answer') : answer'[i] = o[i]
    BY ONLY <1>6, <2>1, PrefixIs
  <2>4. Len(answer') < 3 => \A i \in 1..Len(answer') : i \in 1..3
    BY <1>7
  <2>5. QED
    BY <1>7, <2>2, <2>3, <2>4 DEF Tube!ReadsOn, o
<1>9. Tube!Accepted(answer') <=> Len(answer') >= 3 /\ \A i \in 1..3 : answer'[i] = Sigil(i)
  <2> DEFINE o == <<"O", "K", "N">>
  <2>1. o \in Seq(Tokens) /\ Len(o) = 3 /\ o[1] = "O" /\ o[2] = "K" /\ o[3] = "N"
    BY Glyphs
  <2>2. \A i \in 1..3 : o[i] = Sigil(i)
    BY <2>1 DEF Sigil
  <2> HIDE DEF o
  <2>3. Tube!IsPrefix(o, answer') <=> 3 <= Len(answer') /\ \A i \in 1..3 : o[i] = answer'[i]
    <3>1. Tube!IsPrefix(o, answer') <=> Len(o) <= Len(answer') /\ \A i \in 1..Len(o) : o[i] = answer'[i]
      BY ONLY <1>6, <2>1, PrefixIs
    <3>2. QED
      BY <2>1, <3>1
  <2>4. QED
    BY <1>7, <2>2, <2>3 DEF Tube!Accepted, o
<1>10. CASE host = "refused"
  <2>1. answer = <<>> /\ w = <<"X">>
    BY <1>1, <1>4, <1>10 DEF Reply
  <2>2. Len(answer) = 0 /\ Len(w) = 1 /\ w[1] = "X"
    BY <2>1
  <2>3. n = 1
    BY <1>2, <2>2
  <2>4. Len(answer') = 1 /\ answer'[1] = "X"
    BY <1>6, <2>2, <2>3
  <2>5. ~Tube!Accepted(answer') /\ ~Tube!ReadsOn(answer')
    BY <1>8, <1>9, <2>4 DEF Sigil
  <2>6. QED
    BY <1>2, <1>10, <2>5
<1>11. CASE host = "relay"
  <2>1. /\ Len(answer) < 3 /\ \A i \in 1..Len(answer) : answer[i] = Sigil(i)
        /\ \A i \in 1..Len(w) : Len(answer) + i <= 3 => w[i] = Sigil(Len(answer) + i)
    BY <1>1, <1>11 DEF Reply, Coming
  <2>2. ASSUME NEW i \in 1..Len(answer'), i <= 3 PROVE answer'[i] = Sigil(i)
    <3>1. CASE i <= Len(answer)
      <4>1. i \in 1..Len(answer)
        BY <1>4, <3>1
      <4>2. QED
        BY <1>6, <2>1, <4>1
    <3>2. CASE i > Len(answer)
      <4>1. i - Len(answer) \in 1..n /\ Len(answer) + (i - Len(answer)) = i /\ i - Len(answer) \in 1..Len(w)
        BY <1>2, <1>4, <1>6, <3>2
      <4>2. answer'[i] = w[i - Len(answer)]
        BY <1>6, <4>1
      <4>3. w[i - Len(answer)] = Sigil(i)
        BY <2>1, <2>2, <4>1
      <4>4. QED
        BY <4>2, <4>3
    <3>3. QED
      BY <1>4, <1>7, <3>1, <3>2
  <2>3. Len(answer') < 3 => Tube!ReadsOn(answer')
    BY <1>7, <1>8, <2>2
  <2>4. Len(answer') >= 3 => Tube!Accepted(answer')
    BY <1>7, <1>9, <2>2
  <2>5. Tube!ReadsOn(answer') \/ Tube!Accepted(answer')
    BY <1>7, <2>3, <2>4
  <2>6. QED
    BY <1>1, <1>2, <1>11, <2>2, <2>5
<1>12. QED
  BY <1>5, <1>10, <1>11

-----------------------------------------------------------------------------
(* Who is where.                                                           *)

\* Who is where, step by step.
LEMMA PlacesStep == ASSUME TubeTyped, Positions, Empty, Reply, [Tube!Next]_Tube!vars PROVE Positions'
<1> USE DEF Positions, ProxyOff, BrokerOff
<1>0. /\ pump \in [Tube!Pumps -> {"off", "copy", "done"}] /\ route \in {"public", "local"}
      /\ host \in {"none", "frame", "relay", "refused"}
  BY Sizes DEF TubeTyped
<1>1. CASE Tube!ReadHead
  BY <1>1 DEF Tube!ReadHead
<1>2. CASE Tube!Dial
  BY <1>0, <1>2 DEF Tube!Dial
<1>3. CASE Tube!ReadResponse
  <2>1. UNCHANGED <<route, host, pump>> /\ task = "response" /\ task' \in {"response", "connected", "rejected"}
    BY <1>3 DEF Tube!ReadResponse
  <2>2. task' = "connected" => host = "relay"
    BY <1>3, BrokerAnswers
  <2>3. QED
    BY <2>1, <2>2
<1>4. CASE Tube!NoResponse
  BY <1>4 DEF Tube!NoResponse
<1>5. CASE Tube!Establish
  <2>1. UNCHANGED <<route, host>> /\ task = "connected"
    BY <1>5 DEF Tube!Establish
  <2>2. CASE task' = "relay" /\ pump' = [pump EXCEPT ![<<"proxy", "up">>] = "copy", ![<<"proxy", "down">>] = "copy"]
    <3>1. /\ pump'[<<"proxy", "up">>] = "copy" /\ pump'[<<"proxy", "down">>] = "copy"
          /\ pump'[<<"broker", "up">>] = pump[<<"broker", "up">>] /\ pump'[<<"broker", "down">>] = pump[<<"broker", "down">>]
      BY <1>0, <2>2, NamedEnds
    <3>2. QED
      BY <2>1, <2>2, <3>1
  <2>3. CASE task' = "over" /\ UNCHANGED pump
    BY <2>1, <2>3
  <2>4. QED
    BY <1>5, <2>2, <2>3 DEF Tube!Establish
<1>6. CASE Tube!ProxyForced \/ Tube!ProxyDone
  BY <1>6 DEF Tube!ProxyForced, Tube!ProxyDone, Tube!RelayOver
<1>7. CASE Tube!Serve
  <2>1. UNCHANGED <<route, task>> /\ host = "frame"
    BY <1>7 DEF Tube!Serve
  <2>2. CASE host' = "relay" /\ pump' = [pump EXCEPT ![<<"broker", "up">>] = "copy", ![<<"broker", "down">>] = "copy"]
    <3>1. /\ pump'[<<"broker", "up">>] = "copy" /\ pump'[<<"broker", "down">>] = "copy"
          /\ pump'[<<"proxy", "up">>] = pump[<<"proxy", "up">>] /\ pump'[<<"proxy", "down">>] = pump[<<"proxy", "down">>]
      BY <1>0, <2>2, NamedEnds
    <3>2. QED
      BY <1>0, <2>1, <2>2, <3>1
  <2>3. CASE host' = "refused" /\ UNCHANGED pump
    BY <1>0, <2>1, <2>3
  <2>4. QED
    BY <1>7, <2>2, <2>3 DEF Tube!Serve
<1>8. CASE Tube!ServeNobody
  BY <1>0, <1>8 DEF Tube!ServeNobody
<1>9. CASE Tube!GiveUp
  BY <1>0, <1>9 DEF Tube!GiveUp
<1>10. CASE Tube!PeerClosed
  BY <1>0, <1>10 DEF Tube!PeerClosed
<1>11. CASE Tube!Signal \/ \E who \in Tube!Parties : Tube!Abort(who)
  BY <1>11 DEF Tube!Signal, Tube!Abort
<1>12. CASE \E q \in Tube!Pumps : Tube!CopyRead(q) \/ Tube!CopyWrite(q)
  BY <1>12 DEF Tube!CopyRead, Tube!CopyWrite
<1>13. CASE \E q \in Tube!Pumps : Tube!ProxyEof(q) \/ Tube!BrokerEnds(q)
  <2>1. PICK q \in Tube!Pumps : Tube!ProxyEof(q) \/ Tube!BrokerEnds(q)
    BY <1>13
  <2>2. pump' = [pump EXCEPT ![q] = "done"] /\ pump[q] = "copy" /\ UNCHANGED <<route, task, host>>
    BY <2>1 DEF Tube!ProxyEof, Tube!BrokerEnds, Tube!Copying
  <2>3. \A p \in Tube!Pumps : pump'[p] = "off" <=> pump[p] = "off"
    BY <1>0, <2>2
  <2>4. QED
    BY <1>0, <2>2, <2>3, NamedEnds
<1>14. CASE \E q \in Tube!Pumps : Tube!ProxyFails(q)
  BY <1>14 DEF Tube!ProxyFails, Tube!RelayOver, Tube!Copying
<1>15. CASE \E who \in Tube!Parties : Tube!Say(who) \/ Tube!Finish(who) \/ Tube!Hear(who)
  BY <1>15 DEF Tube!Say, Tube!Finish, Tube!Hear
<1>16. CASE UNCHANGED Tube!vars
  BY <1>16 DEF Tube!vars
<1>17. QED
  BY <1>1, <1>2, <1>3, <1>4, <1>5, <1>6, <1>7, <1>8, <1>9, <1>10, <1>11, <1>12, <1>13, <1>14, <1>15, <1>16
     DEF Tube!Next, Tube!Proxy, Tube!Worker, Tube!Outside, Tube!Loop, Tube!Party

\* The answer on its way is left alone.
LEMMA ReplyStays ==
  ASSUME TubeTyped, Positions, Reply, UNCHANGED <<answer, task, host>>,
         task = "response" => /\ wire'[<<"mid", "up">>] = wire[<<"mid", "up">>]
                              /\ wire'[<<"mid", "down">>] = wire[<<"mid", "down">>]
                              /\ <<"mid", "up">> \notin shut'
                              /\ host = "frame" /\ <<"mid", "down">> \in shut' => <<"mid", "down">> \in shut
  PROVE  Reply'
BY DEF Reply, Coming

\* The answer of the broker, step by step: it is read up to the newline, or refused.
LEMMA ReplyStep == TubeTyped /\ TubeTyped' /\ Positions /\ Empty /\ Reply /\ [Tube!Next]_Tube!vars => Reply'
<1> SUFFICES ASSUME TubeTyped, TubeTyped', Positions, Empty, Reply, [Tube!Next]_Tube!vars PROVE Reply'
  OBVIOUS
<1>0. /\ route \in {"public", "local"} /\ (task = "response" => route = "local" /\ host # "none")
      /\ <<"mid", "up">> \in Tube!Ends /\ <<"mid", "down">> \in Tube!Ends
  BY Sizes, NamedEnds DEF TubeTyped, Positions
<1>1. CASE Tube!ReadHead
  BY <1>1, ReadHeadDoes DEF Reply
<1>2. CASE Tube!Dial
  <2>1. CASE route = "public" /\ task' = "connected"
    BY <2>1 DEF Reply
  <2>2. CASE task = "dial" /\ task' = "response" /\ host' = "frame" /\ Enters(<<"mid", "up">>, <<"F">>) /\ UNCHANGED <<answer, shut>> /\ route = "local"
    <3>1. answer = <<>> /\ <<"mid", "up">> \notin shut /\ <<"mid", "down">> \notin shut /\ wire[<<"mid", "up">>] = <<>>
      BY <2>2 DEF Reply, Empty, Positions, Free, Tube!CannotWrite
    <3>2. wire'[<<"mid", "up">>] = <<"F">>
      <4>1. wire'[<<"mid", "up">>] = <<>> \o <<"F">>
        BY <2>2, <3>1 DEF Enters
      <4>2. <<>> \o <<"F">> = <<"F">>
        BY Glyphs, ConcatEmptySeq
      <4>3. QED
        BY <4>1, <4>2
    <3>3. Len(wire'[<<"mid", "up">>]) <= 1 /\ Len(answer) = 0
      BY <3>1, <3>2
    <3>4. QED
      BY <2>2, <3>1, <3>3 DEF Reply
  <2>3. QED
    BY <1>0, <1>2, <2>1, <2>2, DialDoes
<1>3. CASE Tube!ReadResponse
  <2> DEFINE w == wire[<<"mid", "down">>]
             v == wire'[<<"mid", "down">>]
  <2>1. task = "response" /\ UNCHANGED <<route, host>>
    BY <1>3, ReadResponseDoes
  <2>2. /\ host \in {"relay", "refused"} /\ (host = "refused" => task' = "rejected")
        /\ (host = "relay" => task' \in {"connected", "response"})
        /\ (host = "relay" => \A i \in 1..Len(answer') : i <= 3 => answer'[i] = Sigil(i))
    BY <1>3, BrokerAnswers
  <2>3. CASE task' # "response"
    BY <2>1, <2>2, <2>3 DEF Reply
  <2>4. CASE task' = "response"
    <3>1. host = "relay"
      BY <2>2, <2>4
    <3>2. PICK n \in 1..4 :
            /\ n <= Len(w) /\ answer' = answer \o SubSeq(w, 1, n)
            /\ Tube!ReadsOn(answer') /\ UNCHANGED <<task, held, shut, deaf>> /\ Leaves(<<"mid", "down">>, n)
      BY <1>3, <2>4, ReadResponseDoes
    <3>3. w \in Seq(Tokens) /\ answer \in Seq(Tokens) /\ n \in Nat /\ Len(w) \in Nat /\ Len(answer) \in Nat
      BY NamedEnds, LenProperties DEF TubeTyped
    <3>4. Len(answer') = Len(answer) + n
      BY ONLY <3>2, <3>3, AppendedPart
    <3>5. Len(answer') < 3
      BY <3>2 DEF Tube!ReadsOn
    <3>6. /\ Len(v) = Len(w) - n /\ \A i \in 1..Len(w) - n : v[i] = w[n + i]
      <4>1. v = SubSeq(w, n + 1, Len(w))
        BY <3>2 DEF Leaves
      <4>2. n + 1 \in 1..Len(w) + 1 /\ Len(w) \in (n + 1) - 1..Len(w)
        BY <3>2, <3>3
      <4> HIDE DEF w, v
      <4>3. Len(v) = Len(w) - (n + 1) + 1 /\ \A i \in 1..Len(w) - (n + 1) + 1 : v[i] = w[(n + 1) + i - 1]
        BY ONLY <3>3, <4>1, <4>2, SubSeqProperties
      <4>4. Len(w) - (n + 1) + 1 = Len(w) - n /\ \A i \in Int : (n + 1) + i - 1 = n + i
        BY <3>3
      <4>5. QED
        BY <4>3, <4>4
    <3>7. /\ Len(answer) + Len(w) >= 3
          /\ \A i \in 1..Len(w) : Len(answer) + i <= 3 => w[i] = Sigil(Len(answer) + i)
      BY <2>1, <3>1 DEF Reply, Coming
    <3> HIDE DEF w, v
    <3>8. Len(answer') + Len(v) >= 3
      BY <3>2, <3>3, <3>4, <3>6, <3>7
    <3>9. ASSUME NEW i \in 1..Len(v), Len(answer') + i <= 3 PROVE v[i] = Sigil(Len(answer') + i)
      <4>1. n + i \in 1..Len(w) /\ Len(answer) + (n + i) = Len(answer') + i /\ v[i] = w[n + i]
        BY <3>2, <3>3, <3>4, <3>6
      <4>2. w[n + i] = Sigil(Len(answer) + (n + i))
        BY <3>7, <3>9, <4>1
      <4>3. QED
        BY <4>1, <4>2
    <3>10. Coming'
      BY <3>8, <3>9 DEF Coming, v
    <3>11. wire'[<<"mid", "up">>] = wire[<<"mid", "up">>] /\ <<"mid", "up">> \notin shut' /\ wire[<<"mid", "up">>] = <<>>
      BY <1>0, <2>1, <3>1, <3>2 DEF Leaves, Reply
    <3>12. \A i \in 1..Len(answer') : answer'[i] = Sigil(i)
      <4>1. \A i \in 1..Len(answer') : i <= 3
        BY <3>3, <3>4, <3>5
      <4>2. QED
        BY <2>2, <3>1, <4>1
    <3>13. QED
      BY <2>1, <2>4, <3>1, <3>5, <3>10, <3>11, <3>12 DEF Reply
  <2>5. QED
    BY <2>3, <2>4
<1>4. CASE Tube!NoResponse
  <2>1. task = "response" /\ task' = "rejected" /\ host' = host /\ wire[<<"mid", "down">>] = <<>> /\ <<"mid", "down">> \in shut
    BY <1>4 DEF Tube!NoResponse, Tube!AtEof
  <2>2. host # "relay"
    <3>1. Len(answer) \in Nat
      BY LenProperties DEF TubeTyped
    <3>2. QED
      BY <2>1, <3>1 DEF Reply, Coming
  <2>3. host = "refused"
    BY <1>0, <2>1, <2>2 DEF Reply, TubeTyped
  <2>4. QED
    BY <2>1, <2>3 DEF Reply
<1>5. CASE Tube!Establish \/ (Tube!RelayOver /\ task = "relay") \/ Tube!GiveUp \/ Tube!PeerClosed
  <2>1. task' \in {"relay", "over", "failed", "left"}
    BY <1>5 DEF Tube!Establish, Tube!RelayOver, Tube!GiveUp, Tube!PeerClosed
  <2>2. QED
    BY <2>1 DEF Reply
<1>6. CASE Tube!Serve
  <2> DEFINE w == wire[<<"mid", "up">>]
  <2>1. /\ host = "frame" /\ UNCHANGED <<route, task, answer>> /\ Len(w) > 0
        /\ wire'[<<"mid", "up">>] = SubSeq(w, 2, Len(w))
        /\ \/ host' = "relay" /\ wire'[<<"mid", "down">>] = <<"O", "K", "N">> /\ UNCHANGED <<shut, deaf>>
           \/ host' = "refused" /\ wire'[<<"mid", "down">>] = <<"X">> /\ shut' = shut \cup {<<"mid", "down">>}
    BY <1>6, ServeDoes
  <2>2. CASE task = "response"
    <3>1. answer = <<>> /\ Len(answer) = 0 /\ Len(w) <= 1 /\ <<"mid", "up">> \notin shut
      BY <2>1, <2>2 DEF Reply
    <3>2. w \in Seq(Tokens) /\ Len(w) \in Nat
      BY NamedEnds, LenProperties DEF TubeTyped
    <3>3. wire'[<<"mid", "up">>] = <<>>
      <4>0. Len(w) > 0 /\ Len(w) <= 1 /\ Len(w) \in Nat
        BY <2>1, <3>1, <3>2
      <4> HIDE DEF w
      <4>1. Len(w) = 1
        <5>1. \A k \in Nat : k > 0 /\ k <= 1 => k = 1
          OBVIOUS
        <5>2. QED
          BY <4>0, <5>1
      <4>2. wire'[<<"mid", "up">>] = SubSeq(w, 2, 1)
        BY <2>1, <4>1
      <4>3. SubSeq(w, 2, 1) = <<>>
        BY <3>2, SubSeqEmpty
      <4>4. QED
        BY <4>2, <4>3
    <3>4. CASE host' = "relay"
      <4> DEFINE v == wire'[<<"mid", "down">>]
      <4>1. v = <<"O", "K", "N">>
        BY <2>1, <3>4
      <4>2. Len(v) = 3 /\ \A i \in 1..3 : v[i] = Sigil(i)
        BY <4>1 DEF Sigil
      <4> HIDE DEF v
      <4>3. Len(answer') + Len(v) >= 3 /\ \A i \in 1..Len(v) : Len(answer') + i <= 3 => v[i] = Sigil(Len(answer') + i)
        <5>1. Len(answer') = 0
          BY <2>1, <3>1
        <5>2. \A i \in 1..3 : 0 + i = i
          OBVIOUS
        <5>3. QED
          BY <4>2, <5>1, <5>2
      <4>4. Coming'
        BY <4>3 DEF Coming, v
      <4>5. QED
        BY <2>1, <2>2, <3>1, <3>3, <3>4, <4>4 DEF Reply
    <3>5. CASE host' = "refused"
      <4>1. wire'[<<"mid", "down">>] = <<"X">> /\ <<"mid", "up">> \notin shut'
        BY <2>1, <3>1, <3>5
      <4>2. QED
        BY <2>1, <2>2, <3>1, <3>5, <4>1 DEF Reply
    <3>6. QED
      BY <2>1, <3>4, <3>5
  <2>3. CASE task # "response"
    BY <2>1, <2>3 DEF Reply
  <2>4. QED
    BY <2>2, <2>3
<1>7. CASE Tube!ServeNobody
  <2>1. host = "frame" /\ host' = "refused" /\ UNCHANGED <<task, answer>> /\ <<"mid", "up">> \in shut
    BY <1>7 DEF Tube!ServeNobody, Tube!AtEof
  <2>2. task # "response"
    BY <2>1 DEF Reply
  <2>3. QED
    BY <2>1, <2>2 DEF Reply
<1>8. CASE Tube!Signal
  BY <1>8, ReplyStays DEF Tube!Signal, Reply
<1>9. ASSUME NEW who \in Tube!Parties, Tube!Abort(who) PROVE Reply'
  <2>1. Tube!Close({Tube!Mouth(who)}) /\ UNCHANGED <<route, task, answer, host, pump, held, said, got, stop>> /\ Tube!There(who)
    BY <1>9 DEF Tube!Abort
  <2>2. task = "response" => Tube!Mouth(who) # <<"mid", "up">> /\ Tube!Mouth(who) # <<"mid", "down">>
    BY <1>0, Mouths DEF Tube!Parties
  <2>3. /\ shut' = shut \cup {Tube!Mouth(who)}
        /\ \A e \in Tube!Ends : e \notin {Tube!Mouth(who)} /\ Tube!Opposite(e) \notin {Tube!Mouth(who)} => wire'[e] = wire[e]
    BY <2>1, Closers, Closing
  <2>4. QED
    BY <1>0, <2>1, <2>2, <2>3, Opposites, ReplyStays DEF Reply
<1>10. ASSUME NEW q \in Tube!Pumps, Tube!CopyRead(q) PROVE Reply'
  <2>1. /\ Tube!Copying(q)
        /\ UNCHANGED <<route, shut, deaf, task, answer, host, pump, said, got, stop, fault>>
        /\ wire[Tube!From(q)] # <<>> /\ \A f \in Tube!Ends : f # Tube!From(q) => wire'[f] = wire[f]
    BY <1>10, CopyReadDoes DEF Leaves
  <2>2. pump[q] = "copy" /\ (q[1] = "proxy" => task = "relay")
    BY <1>10, CopyReadDoes DEF Tube!Copying
  <2>3. task = "response" => Tube!From(q) # <<"mid", "up">> /\ Tube!From(q) # <<"mid", "down">>
    <3>1. HAVE task = "response"
    <3>2. q = <<"broker", "up">> \/ q = <<"broker", "down">>
      BY <2>2, <3>1, NamedEnds
    <3>3. host = "relay"
      BY <2>2, <3>2 DEF Positions, BrokerOff
    <3>4. wire[<<"mid", "up">>] = <<>>
      BY <3>1, <3>3 DEF Reply
    <3>5. QED
      BY <2>1, <3>2, <3>4, Plumbing
  <2>4. QED
    BY <1>0, <2>1, <2>3, ReplyStays DEF Reply
<1>11. ASSUME NEW q \in Tube!Pumps, Tube!CopyWrite(q) PROVE Reply'
  <2>1. /\ UNCHANGED <<route, shut, deaf, task, answer, host, pump, said, got, stop, fault>>
        /\ Enters(Tube!To(q), SubSeq(held[q], 1, 1)) /\ held[q] # <<>>
    BY <1>11, CopyWriteDoes
  <2>2. pump[q] = "copy" /\ (q[1] = "proxy" => task = "relay")
    BY <1>11, CopyWriteDoes DEF Tube!Copying
  <2>3. CASE task # "response"
    BY <2>1, <2>3 DEF Reply
  <2>4. CASE task = "response" /\ q = <<"broker", "up">>
    <3>1. wire'[<<"mid", "up">>] = wire[<<"mid", "up">>] /\ wire'[<<"mid", "down">>] = wire[<<"mid", "down">>]
      BY <1>0, <2>1, <2>4, Plumbing DEF Enters
    <3>2. QED
      BY <2>1, <3>1, ReplyStays DEF Reply
  <2>5. CASE task = "response" /\ q = <<"broker", "down">>
    <3> DEFINE w == wire[<<"mid", "down">>]
               v == wire'[<<"mid", "down">>]
               b == SubSeq(held[q], 1, 1)
    <3>0. Tube!To(q) = <<"mid", "down">> /\ <<"mid", "up">> # <<"mid", "down">>
      BY <2>5, Plumbing
    <3>1. wire'[<<"mid", "up">>] = wire[<<"mid", "up">>] /\ v = w \o b
      <4>1. Enters(<<"mid", "down">>, b)
        BY <2>1, <3>0
      <4>2. QED
        BY <1>0, <3>0, <4>1 DEF Enters
    <3>2. host = "relay"
      BY <2>2, <2>5 DEF Positions, BrokerOff
    <3>3. w \in Seq(Tokens) /\ Len(w) \in Nat /\ Len(answer) \in Nat
      BY NamedEnds, LenProperties DEF TubeTyped
    <3>4. b \in Seq(Tokens) /\ Len(b) = 1
      <4>1. held[q] \in Seq(Tokens)
        BY DEF TubeTyped
      <4>2. <<Head(held[q])>> = b /\ Head(held[q]) \in Tokens
        BY <2>1, <4>1, HeadOff
      <4>3. QED
        BY <4>2, Singles
    <3>5. /\ Len(answer) + Len(w) >= 3
          /\ \A i \in 1..Len(w) : Len(answer) + i <= 3 => w[i] = Sigil(Len(answer) + i)
      BY <2>5, <3>2 DEF Reply, Coming
    <3> HIDE DEF w, v, b
    <3>6. Len(v) = Len(w) + 1 /\ \A i \in 1..Len(w) : v[i] = w[i]
      <4>1. Len(v) = Len(w) + Len(b) /\ \A i \in 1..Len(w) + Len(b) : v[i] = IF i <= Len(w) THEN w[i] ELSE b[i - Len(w)]
        BY ONLY <3>1, <3>3, <3>4, ConcatProperties
      <4>2. \A i \in 1..Len(w) : i <= Len(w) /\ i \in 1..Len(w) + 1
        BY <3>3
      <4>3. QED
        BY <3>4, <4>1, <4>2
    <3>7. ASSUME NEW i \in 1..Len(v), Len(answer) + i <= 3 PROVE v[i] = Sigil(Len(answer) + i)
      <4>1. i \in 1..Len(w)
        BY <3>3, <3>5, <3>6, <3>7
      <4>2. QED
        BY <3>5, <3>6, <3>7, <4>1
    <3>8. Len(answer) + Len(v) >= 3
      BY <3>3, <3>5, <3>6
    <3>9. Coming'
      BY <2>1, <3>7, <3>8 DEF Coming, v
    <3>10. QED
      BY <2>1, <2>5, <3>1, <3>2, <3>9 DEF Reply
  <2>6. QED
    BY <2>2, <2>3, <2>4, <2>5, NamedEnds
<1>12. ASSUME NEW q \in Tube!Pumps, Tube!ProxyEof(q) PROVE Reply'
  BY <1>12 DEF Tube!ProxyEof, Tube!Copying, Reply
<1>13. ASSUME NEW q \in Tube!Pumps, Tube!BrokerEnds(q) PROVE Reply'
  <2>1. /\ pump[q] = "copy" /\ q[1] = "broker" /\ Tube!Close({<<"mid", "down">>, <<"far", "up">>})
        /\ UNCHANGED <<route, task, answer, host, held, said, got, stop, fault>>
    BY <1>13 DEF Tube!BrokerEnds, Tube!Copying
  <2>2. host = "relay"
    BY <2>1, NamedEnds DEF Positions, BrokerOff
  <2>3. CASE task = "response"
    <3>1. wire[<<"mid", "up">>] = <<>> /\ <<"mid", "up">> \notin shut
      BY <2>2, <2>3 DEF Reply
    <3> DEFINE E == {<<"mid", "down">>, <<"far", "up">>}
    <3>2. <<"mid", "down">> \in E /\ <<"mid", "up">> \notin E /\ Tube!Opposite(<<"mid", "down">>) = <<"mid", "up">> /\ E \in SUBSET Tube!Ends
      BY Opposites, Closers
    <3> HIDE DEF E
    <3>3. /\ shut' = shut \cup E
          /\ wire'[<<"mid", "down">>] = wire[<<"mid", "down">>]
          /\ wire'[<<"mid", "up">>] = <<>>
      <4>1. Tube!Close(E)
        BY <2>1 DEF E
      <4>2. /\ shut' = shut \cup E
            /\ \A e \in Tube!Ends : wire[e] = <<>> => wire'[e] = <<>>
            /\ \A e \in Tube!Ends : e \in E /\ Tube!Opposite(e) \notin E /\ wire[Tube!Opposite(e)] = <<>> => wire'[e] = wire[e]
        BY ONLY <3>2, <4>1, TubeTyped, Closing
      <4>3. QED
        BY <1>0, <3>1, <3>2, <4>2
    <3>4. QED
      BY <2>1, <2>2, <3>1, <3>2, <3>3, ReplyStays
  <2>4. CASE task # "response"
    BY <2>1, <2>4 DEF Reply
  <2>5. QED
    BY <2>3, <2>4
<1>14. ASSUME NEW who \in Tube!Parties, Tube!Say(who) \/ Tube!Finish(who) \/ Tube!Hear(who) PROVE Reply'
  <2>1. /\ UNCHANGED <<route, task, answer, host>> /\ Tube!There(who)
        /\ \A f \in Tube!Ends : f # Tube!Mouth(who) /\ f # Tube!Ear(who) => wire'[f] = wire[f]
        /\ shut' = shut \/ shut' = shut \cup {Tube!Mouth(who)}
    <3>1. CASE Tube!Say(who)
      BY <3>1, SayDoes DEF Enters
    <3>2. CASE Tube!Finish(who)
      BY <3>2 DEF Tube!Finish
    <3>3. CASE Tube!Hear(who)
      BY <3>3, HearDoes DEF Leaves
    <3>4. QED
      BY <1>14, <3>1, <3>2, <3>3
  <2>2. task = "response" => /\ <<"mid", "up">> # Tube!Mouth(who) /\ <<"mid", "up">> # Tube!Ear(who)
                             /\ <<"mid", "down">> # Tube!Mouth(who) /\ <<"mid", "down">> # Tube!Ear(who)
    BY <1>0, Mouths DEF Tube!Parties
  <2>3. QED
    BY <1>0, <2>1, <2>2, ReplyStays DEF Reply
<1>15. CASE UNCHANGED Tube!vars
  BY <1>15, ReplyStays DEF Tube!vars, Reply
<1>16. QED
  BY <1>1, <1>2, <1>3, <1>4, <1>5, <1>6, <1>7, <1>8, <1>9, <1>10, <1>11, <1>12, <1>13, <1>14, <1>15
     DEF Tube!Next, Tube!Proxy, Tube!Worker, Tube!Outside, Tube!Loop, Tube!Party, Tube!ProxyForced, Tube!ProxyDone, Tube!ProxyFails, Tube!Copying

\* Nothing is lost of a direction whose stages stay; it may lose its openings.
LEMMA Still ==
  ASSUME NEW d, NEW x, NEW y, Link(x), Link(y), Chain(d, x), Sent(y) = Sent(x),
         \A i \in 0..6 : Clear(y, i) => Clear(x, i),
         \A i \in 0..5 : Stage(y, i) = Stage(x, i) /\ Gap(y, i) = Gap(x, i)
  PROVE  Chain(d, y) /\ At(y, 6) = At(x, 6)
<1>1. Chain(d, y)
  BY Torn
<1>2. \A i \in {0, 1, 2, 3, 4, 5} : Size(y, i) = Size(x, i) /\ Gap(y, i) = Gap(x, i)
  BY Stages DEF Size
<1>3. Size(y, 0) = Size(x, 0) /\ Size(y, 1) = Size(x, 1) /\ Size(y, 2) = Size(x, 2)
      /\ Size(y, 3) = Size(x, 3) /\ Size(y, 4) = Size(x, 4) /\ Size(y, 5) = Size(x, 5)
      /\ Gap(y, 0) = Gap(x, 0) /\ Gap(y, 1) = Gap(x, 1) /\ Gap(y, 2) = Gap(x, 2)
      /\ Gap(y, 3) = Gap(x, 3) /\ Gap(y, 4) = Gap(x, 4) /\ Gap(y, 5) = Gap(x, 5)
  BY <1>2
<1>4. At(y, 6) = At(x, 6)
  BY <1>3, Grounds
<1>5. QED
  BY <1>1, <1>4

\* Fewer stages reach the ear when links are closed.
LEMMA Narrow ==
  ASSUME NEW x, NEW y, Passes(y, 1) => Passes(x, 1), Passes(y, 2) => Passes(x, 2), Passes(y, 3) => Passes(x, 3)
  PROVE  \A i \in 0..6 : Clear(y, i) => Clear(x, i)
BY DEF Clear

\* A link that can be written to after a step could before it.
LEMMA Shrinks ==
  ASSUME NEW l, NEW d, shut \subseteq shut', deaf \subseteq deaf'
  PROVE  Free(l, d)' => Free(l, d)
BY DEF Free, Tube!CannotWrite

\* So it is for the client's bytes.
LEMMA NarrowUp ==
  ASSUME IsUp, IsUp', shut \subseteq shut', deaf \subseteq deaf'
  PROVE  \A i \in 0..6 : Clear(Up', i) => Clear(Up, i)
<1>1. /\ Passes(Up, 1) = Free("far", "up") /\ Passes(Up, 2) = Free("mid", "up") /\ Passes(Up, 3) = Free("near", "up")
      /\ Passes(Up', 1) = Free("far", "up")' /\ Passes(Up', 2) = Free("mid", "up")' /\ Passes(Up', 3) = Free("near", "up")'
  BY DEF IsUp
<1>3. (Passes(Up', 1) => Passes(Up, 1)) /\ (Passes(Up', 2) => Passes(Up, 2)) /\ (Passes(Up', 3) => Passes(Up, 3))
  BY <1>1, Shrinks
<1>4. QED
  BY ONLY <1>3, Narrow

\* So it is for the bytes of the service.
LEMMA NarrowDown ==
  ASSUME IsDown, IsDown', shut \subseteq shut', deaf \subseteq deaf'
  PROVE  \A i \in 0..6 : Clear(Down', i) => Clear(Down, i)
<1>1. /\ Passes(Down, 1) = Free("near", "down") /\ Passes(Down, 2) = Free("mid", "down") /\ Passes(Down, 3) = Free("far", "down")
      /\ Passes(Down', 1) = Free("near", "down")' /\ Passes(Down', 2) = Free("mid", "down")' /\ Passes(Down', 3) = Free("far", "down")'
  BY DEF IsDown
<1>3. (Passes(Down', 1) => Passes(Down, 1)) /\ (Passes(Down', 2) => Passes(Down, 2)) /\ (Passes(Down', 3) => Passes(Down, 3))
  BY <1>1, Shrinks
<1>4. QED
  BY ONLY <1>3, Narrow

Middle == IF NoMiddle THEN <<>> ELSE wire[<<"mid", "down">>]
Gap3 == IF Asking THEN Len(answer) - 3 ELSE 0
Gap4 == IF Asking /\ host # "relay" THEN 3 - Len(answer) ELSE 0

SameUp ==
  /\ got'["service"] = got["service"] /\ said'["client"] = said["client"]
  /\ wire'[<<"far", "up">>] = wire[<<"far", "up">>] /\ wire'[<<"mid", "up">>] = wire[<<"mid", "up">>]
  /\ wire'[<<"near", "up">>] = wire[<<"near", "up">>]
  /\ held'[<<"broker", "up">>] = held[<<"broker", "up">>] /\ held'[<<"proxy", "up">>] = held[<<"proxy", "up">>]
  /\ (host' = "frame" <=> host = "frame") /\ (task' = "head" <=> task = "head")

SameDown ==
  /\ got'["client"] = got["client"] /\ said'["service"] = said["service"]
  /\ wire'[<<"near", "down">>] = wire[<<"near", "down">>] /\ wire'[<<"far", "down">>] = wire[<<"far", "down">>]
  /\ held'[<<"broker", "down">>] = held[<<"broker", "down">>] /\ held'[<<"proxy", "down">>] = held[<<"proxy", "down">>]
  /\ (pump'[<<"proxy", "down">>] = "off" <=> pump[<<"proxy", "down">>] = "off")
  /\ Middle' = Middle /\ Gap3' = Gap3 /\ Gap4' = Gap4

\* A step that touches nothing of a direction keeps its chain.
LEMMA UpStill ==
  ASSUME IsUp, IsUp', Chain("up", Up), shut \subseteq shut', deaf \subseteq deaf', SameUp
  PROVE  Chain("up", Up)'
<1>1. \A i \in {0, 1, 2, 3, 4, 5} : Stage(Up', i) = Stage(Up, i) /\ Gap(Up', i) = Gap(Up, i)
  <2>1. Stage(Up', 0) = Stage(Up, 0) /\ Stage(Up', 1) = Stage(Up, 1) /\ Stage(Up', 2) = Stage(Up, 2)
        /\ Stage(Up', 3) = Stage(Up, 3) /\ Stage(Up', 4) = Stage(Up, 4) /\ Stage(Up', 5) = Stage(Up, 5)
    BY DEF IsUp, SameUp
  <2>2. Gap(Up', 0) = Gap(Up, 0) /\ Gap(Up', 1) = Gap(Up, 1) /\ Gap(Up', 2) = Gap(Up, 2)
        /\ Gap(Up', 3) = Gap(Up, 3) /\ Gap(Up', 4) = Gap(Up, 4) /\ Gap(Up', 5) = Gap(Up, 5)
    BY DEF IsUp, SameUp
  <2>3. QED
    BY <2>1, <2>2
<1>2. \A i \in 0..5 : Stage(Up', i) = Stage(Up, i) /\ Gap(Up', i) = Gap(Up, i)
  BY <1>1, Stages
<1>3. Link(Up) /\ Link(Up') /\ Sent(Up') = Sent(Up)
  BY DEF IsUp, SameUp
<1>4. QED
  BY <1>2, <1>3, NarrowUp, Still

\* So it is for the other direction.
LEMMA DownStill ==
  ASSUME IsDown, IsDown', Chain("down", Down), shut \subseteq shut', deaf \subseteq deaf', SameDown
  PROVE  Chain("down", Down)' /\ At(Down, 6)' = At(Down, 6)
<1>1. \A i \in {0, 1, 2, 3, 4, 5} : Stage(Down', i) = Stage(Down, i) /\ Gap(Down', i) = Gap(Down, i)
  <2>1. Stage(Down', 0) = Stage(Down, 0) /\ Stage(Down', 1) = Stage(Down, 1) /\ Stage(Down', 2) = Stage(Down, 2)
        /\ Stage(Down', 3) = Stage(Down, 3) /\ Stage(Down', 4) = Stage(Down, 4) /\ Stage(Down', 5) = Stage(Down, 5)
    BY DEF IsDown, SameDown, Middle
  <2>2. Gap(Down', 0) = Gap(Down, 0) /\ Gap(Down', 1) = Gap(Down, 1) /\ Gap(Down', 2) = Gap(Down, 2)
        /\ Gap(Down', 3) = Gap(Down, 3) /\ Gap(Down', 4) = Gap(Down, 4) /\ Gap(Down', 5) = Gap(Down, 5)
    BY DEF IsDown, SameDown, Gap3, Gap4
  <2>3. QED
    BY <2>1, <2>2
<1>2. \A i \in 0..5 : Stage(Down', i) = Stage(Down, i) /\ Gap(Down', i) = Gap(Down, i)
  BY <1>1, Stages
<1>3. Link(Down) /\ Link(Down') /\ Sent(Down') = Sent(Down)
  BY DEF IsDown, SameDown
<1>4. QED
  BY <1>2, <1>3, NarrowDown, Still

\* Sockets are closed: the links that lose what is on them are closed themselves.
Lost(e) == wire'[e] = <<>> /\ (e \in shut' \/ e \in deaf')

\* A close cuts the chain where it takes tokens away.
LEMMA UpClosed ==
  ASSUME IsUp, IsUp', TubeTyped, Chain("up", Up), NEW E \in SUBSET Tube!Ends, Tube!Close(E), UNCHANGED <<held, said, got>>,
         task' = "head" <=> task = "head", host' = "frame" => host = "frame",
         host = "frame" /\ host' # "frame" => Lost(<<"mid", "up">>)
  PROVE  Chain("up", Up)'
<1>1. shut \subseteq shut' /\ deaf \subseteq deaf'
  BY CloseGrows
<1>2. \A e \in Tube!Ends : wire'[e] = wire[e] \/ Lost(e)
  BY Closing DEF Lost
<1>3. /\ wire'[<<"far", "up">>] = wire[<<"far", "up">>] \/ (wire'[<<"far", "up">>] = <<>> /\ ~Free("far", "up")')
      /\ wire'[<<"near", "up">>] = wire[<<"near", "up">>] \/ (wire'[<<"near", "up">>] = <<>> /\ ~Free("near", "up")')
      /\ \/ wire'[<<"mid", "up">>] = wire[<<"mid", "up">>] /\ (host' = "frame" <=> host = "frame")
         \/ wire'[<<"mid", "up">>] = <<>> /\ ~Free("mid", "up")'
  <2>1. \A l \in {"near", "mid", "far"} : Lost(<<l, "up">>) => wire'[<<l, "up">>] = <<>> /\ ~Free(l, "up")'
    BY DEF Lost, Free, Tube!CannotWrite
  <2>2. QED
    BY <1>2, <2>1, NamedEnds
<1>4. /\ ~Passes(Up', 1) => ~Clear(Up', 2)
      /\ ~Passes(Up', 2) => ~Clear(Up', 4)
      /\ ~Passes(Up', 3) => ~Clear(Up', 6)
  BY DEF Clear
<1>5. /\ Passes(Up', 1) = Free("far", "up")' /\ Passes(Up', 2) = Free("mid", "up")' /\ Passes(Up', 3) = Free("near", "up")'
  BY DEF IsUp
<1>6. /\ Stage(Up', 0) = Stage(Up, 0) /\ Gap(Up', 0) = Gap(Up, 0) /\ Stage(Up', 2) = Stage(Up, 2) /\ Gap(Up', 2) = Gap(Up, 2)
      /\ Stage(Up', 4) = Stage(Up, 4) /\ Gap(Up', 4) = Gap(Up, 4) /\ Gap(Up', 1) = Gap(Up, 1) /\ Gap(Up', 5) = Gap(Up, 5)
  BY DEF IsUp
<1>7. /\ Stage(Up', 1) = wire'[<<"far", "up">>] /\ Stage(Up', 3) = wire'[<<"mid", "up">>] /\ Stage(Up', 5) = wire'[<<"near", "up">>]
      /\ Stage(Up, 1) = wire[<<"far", "up">>] /\ Stage(Up, 3) = wire[<<"mid", "up">>] /\ Stage(Up, 5) = wire[<<"near", "up">>]
  BY DEF IsUp
<1>13. (Gap(Up', 3) = Gap(Up, 3) \/ Gap(Up', 3) = 0) /\ ((host' = "frame" <=> host = "frame") => Gap(Up', 3) = Gap(Up, 3))
  BY DEF IsUp
<1>8. \A i \in {0, 1, 2, 3, 4, 5} :
        \/ Stage(Up', i) = Stage(Up, i) /\ Gap(Up', i) = Gap(Up, i)
        \/ Stage(Up', i) = <<>> /\ ~Clear(Up', i + 1) /\ (Gap(Up', i) = Gap(Up, i) \/ Gap(Up', i) = 0) /\ i \in {1, 3, 5}
  <2> DEFINE P(i) == \/ Stage(Up', i) = Stage(Up, i) /\ Gap(Up', i) = Gap(Up, i)
                     \/ Stage(Up', i) = <<>> /\ ~Clear(Up', i + 1) /\ (Gap(Up', i) = Gap(Up, i) \/ Gap(Up', i) = 0) /\ i \in {1, 3, 5}
  <2>1. P(0) /\ P(2) /\ P(4)
    BY <1>6
  <2>2. P(1)
    BY <1>3, <1>4, <1>5, <1>6, <1>7
  <2>3. P(3)
    BY <1>3, <1>4, <1>5, <1>7, <1>13
  <2>4. P(5)
    BY <1>3, <1>4, <1>5, <1>6, <1>7
  <2>5. QED
    BY <2>1, <2>2, <2>3, <2>4
<1>9. \A i \in 0..5 : Clear(Up', i) =>
        \/ Stage(Up', i) = Stage(Up, i) /\ Gap(Up', i) = Gap(Up, i)
        \/ Stage(Up', i) = <<>> /\ ~Clear(Up', i + 1) /\ (Gap(Up', i) = Gap(Up, i) \/ Gap(Up', i) = 0) /\ i \in {1, 3, 5}
  BY <1>8, Stages
<1>10. Link(Up) /\ Link(Up') /\ Sent(Up') = Sent(Up)
  BY DEF IsUp
<1>11. \A i \in 0..6 : Clear(Up', i) => Clear(Up, i)
  BY <1>1, NarrowUp
<1>12. QED
  BY <1>9, <1>10, <1>11, Torn

\* So it is for the other direction.
LEMMA DownClosed ==
  ASSUME IsDown, IsDown', TubeTyped, Chain("down", Down), NEW E \in SUBSET Tube!Ends, Tube!Close(E), UNCHANGED <<held, said, got>>,
         pump'[<<"proxy", "down">>] = "off" <=> pump[<<"proxy", "down">>] = "off",
         Free("near", "down")' =>
            \/ Middle' = Middle /\ Gap3' = Gap3 /\ (Free("mid", "down")' => Gap4' = Gap4)
            \/ Middle' = <<>> /\ ~Free("mid", "down")' /\ (Gap3' = Gap3 \/ Gap3' = 0)
  PROVE  Chain("down", Down)'
<1>1. shut \subseteq shut' /\ deaf \subseteq deaf'
  BY CloseGrows
<1>2. \A e \in Tube!Ends : wire'[e] = wire[e] \/ Lost(e)
  BY Closing DEF Lost
<1>3. /\ wire'[<<"far", "down">>] = wire[<<"far", "down">>] \/ (wire'[<<"far", "down">>] = <<>> /\ ~Free("far", "down")')
      /\ wire'[<<"near", "down">>] = wire[<<"near", "down">>] \/ (wire'[<<"near", "down">>] = <<>> /\ ~Free("near", "down")')
  <2>1. \A l \in {"near", "mid", "far"} : Lost(<<l, "down">>) => wire'[<<l, "down">>] = <<>> /\ ~Free(l, "down")'
    BY DEF Lost, Free, Tube!CannotWrite
  <2>2. QED
    BY <1>2, <2>1, NamedEnds
<1>4. /\ ~Passes(Down', 1) => ~Clear(Down', 2) /\ ~Clear(Down', 3) /\ ~Clear(Down', 4) /\ ~Clear(Down', 5)
      /\ ~Passes(Down', 2) => ~Clear(Down', 4) /\ ~Clear(Down', 5)
      /\ ~Passes(Down', 3) => ~Clear(Down', 6)
  BY DEF Clear
<1>5. /\ Passes(Down', 1) = Free("near", "down")' /\ Passes(Down', 2) = Free("mid", "down")' /\ Passes(Down', 3) = Free("far", "down")'
  BY DEF IsDown
<1>6. /\ Stage(Down', 0) = Stage(Down, 0) /\ Gap(Down', 0) = Gap(Down, 0) /\ Stage(Down', 2) = Stage(Down, 2) /\ Gap(Down', 2) = Gap(Down, 2)
      /\ Stage(Down', 4) = Stage(Down, 4) /\ Gap(Down', 1) = Gap(Down, 1) /\ Gap(Down', 5) = Gap(Down, 5)
  BY DEF IsDown
<1>7. /\ Stage(Down', 1) = wire'[<<"near", "down">>] /\ Stage(Down', 3) = Middle' /\ Stage(Down', 5) = wire'[<<"far", "down">>]
      /\ Stage(Down, 1) = wire[<<"near", "down">>] /\ Stage(Down, 3) = Middle /\ Stage(Down, 5) = wire[<<"far", "down">>]
  BY DEF IsDown, Middle
<1>13. /\ Gap(Down', 3) = Gap3' /\ Gap(Down, 3) = Gap3 /\ Gap(Down', 4) = Gap4' /\ Gap(Down, 4) = Gap4
  BY DEF IsDown, Gap3, Gap4
<1>8. \A i \in {0, 1, 2, 3, 4, 5} : Clear(Down', i) =>
        \/ Stage(Down', i) = Stage(Down, i) /\ Gap(Down', i) = Gap(Down, i)
        \/ Stage(Down', i) = <<>> /\ ~Clear(Down', i + 1) /\ (Gap(Down', i) = Gap(Down, i) \/ Gap(Down', i) = 0) /\ i \in {1, 3, 5}
  <2> DEFINE P(i) == Clear(Down', i) =>
                     \/ Stage(Down', i) = Stage(Down, i) /\ Gap(Down', i) = Gap(Down, i)
                     \/ Stage(Down', i) = <<>> /\ ~Clear(Down', i + 1) /\ (Gap(Down', i) = Gap(Down, i) \/ Gap(Down', i) = 0) /\ i \in {1, 3, 5}
  <2>1. P(0) /\ P(2)
    BY <1>6
  <2>2. P(1)
    BY <1>3, <1>4, <1>5, <1>6, <1>7
  <2>3. P(3)
    BY <1>4, <1>5, <1>7, <1>13
  <2>4. P(4)
    BY <1>4, <1>5, <1>6, <1>13
  <2>5. P(5)
    BY <1>3, <1>4, <1>5, <1>6, <1>7
  <2>6. QED
    BY <2>1, <2>2, <2>3, <2>4, <2>5
<1>9. \A i \in 0..5 : Clear(Down', i) =>
        \/ Stage(Down', i) = Stage(Down, i) /\ Gap(Down', i) = Gap(Down, i)
        \/ Stage(Down', i) = <<>> /\ ~Clear(Down', i + 1) /\ (Gap(Down', i) = Gap(Down, i) \/ Gap(Down', i) = 0) /\ i \in {1, 3, 5}
  BY <1>8, Stages
<1>10. Link(Down) /\ Link(Down') /\ Sent(Down') = Sent(Down)
  BY DEF IsDown
<1>11. \A i \in 0..6 : Clear(Down', i) => Clear(Down, i)
  BY <1>1, NarrowDown
<1>12. QED
  BY <1>9, <1>10, <1>11, Torn

\* Taken, with the numbers a step gives it.
Pulls(x, y, k, j, m, p, u, v, w) ==
  /\ k \in 1..5 /\ j = k - 1 /\ m \in Nat /\ p \in Nat /\ u = m + 1 /\ v = m + p /\ w = m + p + 1
  /\ m + p <= Size(x, k)
  /\ Stage(y, j) = Stage(x, j) \o SubSeq(Stage(x, k), u, v) /\ Stage(y, k) = SubSeq(Stage(x, k), w, Size(x, k))
  /\ \A i \in {0, 1, 2, 3, 4, 5} : (i # j /\ i # k => Stage(y, i) = Stage(x, i)) /\ (i # k => Gap(y, i) = Gap(x, i))
  /\ Gap(y, k) = Gap(x, k) + m /\ Sent(y) = Sent(x)
  /\ \A i \in 0..6 : Clear(y, i) => Clear(x, i)
  /\ p > 0 => Gap(x, k) + m = 0 /\ (Clear(y, j) => Clear(x, k)) /\ (Clear(x, k) => k = 1 \/ At(x, k) + m >= 0)

\* A loop or a party pulls tokens from one stage into the next.
LEMMA Pulled ==
  ASSUME NEW d, NEW x, NEW y, Link(x), Chain(d, x),
         NEW k, NEW j, NEW m, NEW p, NEW u, NEW v, NEW w, Pulls(x, y, k, j, m, p, u, v, w)
  PROVE  Chain(d, y) /\ At(y, 6) = At(x, 6)
<1>1. k \in 1..5 /\ j = k - 1 /\ m \in Nat /\ p \in Nat /\ u = m + 1 /\ v = m + p /\ w = m + p + 1
  BY DEF Pulls
<1>2. Takes(x, y, k, m, p)
  <2>1. /\ m + p <= Size(x, k)
        /\ Stage(y, k - 1) = Stage(x, k - 1) \o SubSeq(Stage(x, k), m + 1, m + p)
        /\ Stage(y, k) = SubSeq(Stage(x, k), m + p + 1, Size(x, k))
        /\ \A i \in 0..6 : Clear(y, i) => Clear(x, i)
        /\ Sent(y) = Sent(x) /\ Gap(y, k) = Gap(x, k) + m
    BY <1>1 DEF Pulls
  <2>2. \A i \in {0, 1, 2, 3, 4, 5} : (i # k - 1 /\ i # k => Stage(y, i) = Stage(x, i)) /\ (i # k => Gap(y, i) = Gap(x, i))
    BY <1>1 DEF Pulls
  <2>3. \A i \in 0..5 : (i # k - 1 /\ i # k => Stage(y, i) = Stage(x, i)) /\ (i # k => Gap(y, i) = Gap(x, i))
    BY <2>2, Stages
  <2>4. QED
    BY <2>1, <2>3 DEF Takes
<1>3. /\ p > 0 => Gap(x, k) = -m
      /\ p > 0 /\ Clear(y, k - 1) => Clear(x, k)
      /\ p > 0 /\ Clear(x, k) => k = 1 \/ At(x, k) + m >= 0
  <2>1. p > 0 => Gap(x, k) + m = 0
    BY DEF Pulls
  <2>2. Gap(x, k) \in Int
    <3>1. k \in 0..5
      BY <1>1
    <3>2. QED
      BY <3>1 DEF Link
  <2>3. p > 0 => Gap(x, k) = -m
    BY <1>1, <2>1, <2>2
  <2>4. QED
    BY <1>1, <2>3 DEF Pulls
<1>4. QED
  BY <1>1, <1>2, <1>3, Taken

\* The places of this chain.
LEMMA UpPlaces ==
  ASSUME IsUp
  PROVE  /\ At(Up, 1) >= 0 /\ At(Up, 2) >= 0 /\ At(Up, 3) = Size(Up, 0) + Size(Up, 1) + Size(Up, 2) + Gap(Up, 3)
         /\ At(Up, 3) >= Gap(Up, 3) /\ At(Up, 4) >= Gap(Up, 3) /\ At(Up, 5) >= Gap(Up, 3) + Gap(Up, 5)
         /\ At(Up, 1) \in Int /\ At(Up, 2) \in Int /\ At(Up, 3) \in Int /\ At(Up, 4) \in Int /\ At(Up, 5) \in Int
<1>1. Link(Up) /\ Gap(Up, 0) = 0 /\ Gap(Up, 1) = 0 /\ Gap(Up, 2) = 0 /\ Gap(Up, 4) = 0
  BY DEF IsUp
<1>2. QED
  BY <1>1, Grounds

\* Beyond the last stage nothing was said.
LEMMA NothingMore == ASSUME NEW s \in Seq(Tokens), NEW t \in Seq(Tokens), NEW m \in Nat
                     PROVE t \o SubSeq(s, m + 1, m) = t
<1>1. SubSeq(s, m + 1, m) = <<>>
  BY SubSeqEmpty
<1>2. QED
  BY <1>1, ConcatEmptySeq

\* The head leaves the first link, and what was read with it goes to the first loop.
LEMMA UpReadHead ==
  ASSUME TubeTyped, TubeTyped', Empty, Positions, Chain("up", Up), Tube!ReadHead
  PROVE  Chain("up", Up)'
<1>1. IsUp /\ IsUp'
  BY UpParts, PartsNext
<1>2. PICK n \in 1..ReadAhead : Leaves(<<"near", "up">>, n) /\ held'[<<"proxy", "up">>] = SubSeq(wire[<<"near", "up">>], 2, n)
  BY ReadHeadDoes
<1>3. /\ HeldElse(<<"proxy", "up">>) /\ task = "head" /\ task' = "dial"
      /\ UNCHANGED <<route, shut, deaf, answer, host, pump, said, got, stop, fault>>
  BY ReadHeadDoes
<1>4. host = "none" /\ held[<<"proxy", "up">>] = <<>>
  BY <1>3 DEF Positions, Empty
<1> DEFINE p == n - 1
           o == 1
<1>5. n \in Nat /\ 1 <= n /\ n <= Len(wire[<<"near", "up">>]) /\ p \in Nat /\ o + p = n
  BY <1>2 DEF Leaves
<1>6. /\ Stage(Up', 5) = SubSeq(Stage(Up, 5), n + 1, Size(Up, 5))
      /\ Stage(Up', 0) = Stage(Up, 0) /\ Stage(Up', 1) = Stage(Up, 1) /\ Stage(Up', 2) = Stage(Up, 2) /\ Stage(Up', 3) = Stage(Up, 3)
  <2>1. /\ wire'[<<"far", "up">>] = wire[<<"far", "up">>] /\ wire'[<<"mid", "up">>] = wire[<<"mid", "up">>]
        /\ wire'[<<"near", "up">>] = SubSeq(wire[<<"near", "up">>], n + 1, Len(wire[<<"near", "up">>]))
        /\ held'[<<"broker", "up">>] = held[<<"broker", "up">>]
    BY <1>2, <1>3, NamedEnds DEF Leaves, HeldElse
  <2>2. QED
    BY <1>1, <1>3, <2>1 DEF IsUp, Size
<1>7. Stage(Up', 4) = Stage(Up, 4) \o SubSeq(Stage(Up, 5), 2, n)
  <2>1. Stage(Up', 4) = SubSeq(Stage(Up, 5), 2, n) /\ Stage(Up, 4) = <<>>
    BY <1>1, <1>2, <1>4 DEF IsUp
  <2>2. Stage(Up', 4) \in Seq(Tokens)
    BY <1>1, Stages DEF IsUp, Link
  <2>3. QED
    BY <2>1, <2>2, ConcatEmptySeq
<1>8. /\ Gap(Up', 0) = Gap(Up, 0) /\ Gap(Up', 1) = Gap(Up, 1) /\ Gap(Up', 2) = Gap(Up, 2) /\ Gap(Up', 3) = Gap(Up, 3)
      /\ Gap(Up', 4) = Gap(Up, 4) /\ Gap(Up', 5) = 0 /\ Gap(Up, 5) = -1 /\ Sent(Up') = Sent(Up) /\ Gap(Up, 3) = 0
  BY <1>1, <1>3, <1>4 DEF IsUp
<1>9. \A i \in 0..6 : Clear(Up', i) => Clear(Up, i)
  BY <1>1, <1>3, NarrowUp
<1>10. Pulls(Up, Up', 5, 4, o, p, 2, n, n + 1)
  <2>1. Clear(Up', 4) => Clear(Up, 5)
    BY <1>9 DEF Clear
  <2>2. At(Up, 5) + o >= 0
    BY <1>1, <1>8, UpPlaces
  <2>3. /\ 5 \in 1..5 /\ 4 = 5 - 1 /\ o \in Nat /\ p \in Nat /\ 2 = o + 1 /\ n = o + p /\ n + 1 = o + p + 1
        /\ Gap(Up', 5) = Gap(Up, 5) + o /\ Gap(Up, 5) + o = 0 /\ o + p <= Size(Up, 5)
    BY <1>1, <1>5, <1>8 DEF IsUp, Size
  <2> HIDE DEF o, p
  <2>4. QED
    BY <1>6, <1>7, <1>8, <1>9, <2>1, <2>2, <2>3 DEF Pulls
<1>11. Link(Up)
  BY <1>1 DEF IsUp
<1>12. QED
  BY <1>10, <1>11, Pulled

\* N tokens go from a stage to the next.
Moves(x, y, k, j, n) ==
  /\ k \in 1..5 /\ j = k - 1 /\ n \in Nat /\ n <= Size(x, k)
  /\ Stage(y, j) = Stage(x, j) \o SubSeq(Stage(x, k), 1, n) /\ Stage(y, k) = SubSeq(Stage(x, k), n + 1, Size(x, k))
  /\ \A i \in {0, 1, 2, 3, 4, 5} : (i # j /\ i # k => Stage(y, i) = Stage(x, i)) /\ Gap(y, i) = Gap(x, i)
  /\ Sent(y) = Sent(x) /\ Gap(x, k) = 0
  /\ \A i \in 0..6 : Clear(y, i) => Clear(x, i)
  /\ (Clear(y, j) => Clear(x, k)) /\ (Clear(x, k) => k = 1 \/ At(x, k) >= 0)

\* The stages after tokens were pulled.
LEMMA Moved ==
  ASSUME NEW d, NEW x, NEW y, Link(x), Chain(d, x), NEW k, NEW j, NEW n, Moves(x, y, k, j, n)
  PROVE  Chain(d, y) /\ At(y, 6) = At(x, 6)
<1> DEFINE m == 0
<1>1. k \in 1..5 /\ j = k - 1 /\ n \in Nat /\ Sent(y) = Sent(x) /\ Gap(x, k) = 0 /\ n <= Size(x, k) /\ k \in {0, 1, 2, 3, 4, 5}
  BY DEF Moves
<1>2. At(x, k) \in Int /\ k \in 0..6
  BY <1>1, Places0
<1>3. /\ m \in Nat /\ 1 = m + 1 /\ n = m + n /\ n + 1 = m + n + 1 /\ At(x, k) + m = At(x, k)
      /\ Gap(x, k) + m = 0 /\ Gap(x, k) + m = Gap(x, k) /\ m + n <= Size(x, k)
  <2>1. m \in Nat /\ 1 = m + 1 /\ n = m + n /\ n + 1 = m + n + 1
    BY <1>1
  <2>2. At(x, k) + m = At(x, k)
    BY <1>2
  <2>3. 0 + m = 0
    OBVIOUS
  <2>4. QED
    BY <1>1, <2>1, <2>2, <2>3
<1> HIDE DEF m
<1>4. Gap(y, k) = Gap(x, k) + m
  BY <1>1, <1>3 DEF Moves
<1>5. Pulls(x, y, k, j, m, n, 1, n, n + 1)
  BY <1>1, <1>3, <1>4 DEF Moves, Pulls
<1>6. QED
  BY <1>5, Pulled

\* The loops, one by one.
LEMMA Copiers ==
  ASSUME TubeTyped, Positions, NEW q \in Tube!Pumps, Tube!Copying(q)
  PROVE  /\ pump[q] = "copy" /\ host # "frame" /\ route \in {"public", "local"}
         /\ q[1] = "proxy" => task = "relay" /\ ~ProxyOff /\ host # "refused"
         /\ q[1] = "broker" => host = "relay" /\ ~BrokerOff /\ task # "head" /\ task # "dial" /\ route = "local"
<1>1. pump[q] = "copy" /\ (q[1] = "proxy" => task = "relay")
  BY DEF Tube!Copying
<1>2. route \in {"public", "local"}
  BY Sizes DEF TubeTyped
<1>3. q[1] = "proxy" \/ q[1] = "broker"
  BY NamedEnds
<1>4. CASE q[1] = "proxy"
  <2>1. task = "relay"
    BY <1>1, <1>4
  <2>2. host = "none" \/ host = "relay"
    BY <1>2, <2>1 DEF Positions
  <2>3. ~ProxyOff
    BY <2>1 DEF Positions
  <2>4. "proxy" # "broker"
    OBVIOUS
  <2>5. QED
    BY <1>1, <1>2, <1>4, <2>1, <2>2, <2>3, <2>4
<1>5. CASE q[1] = "broker"
  <2>1. q = <<"broker", "up">> \/ q = <<"broker", "down">>
    BY <1>5, NamedEnds
  <2>2. ~BrokerOff
    BY <1>1, <2>1 DEF Positions, BrokerOff
  <2>3. host = "relay"
    BY <2>2 DEF Positions
  <2>4. task # "head" /\ task # "dial" /\ route # "public"
    BY <2>3 DEF Positions
  <2>5. QED
    BY <1>1, <1>2, <1>5, <2>2, <2>3, <2>4
<1>6. QED
  BY <1>3, <1>4, <1>5

\* A loop of this direction reads.
LEMMA UpCopyRead ==
  ASSUME TubeTyped, TubeTyped', Empty, Positions, Chain("up", Up), NEW q \in Tube!Pumps, Tube!CopyRead(q)
  PROVE  Chain("up", Up)'
<1>1. IsUp /\ IsUp' /\ Link(Up)
  BY UpParts, PartsNext DEF IsUp
<1>2. PICK n \in 1..Buffer : Leaves(Tube!From(q), n) /\ held'[q] = held[q] \o SubSeq(wire[Tube!From(q)], 1, n)
  BY CopyReadDoes
<1>3. /\ Tube!Copying(q) /\ HeldElse(q)
      /\ UNCHANGED <<route, shut, deaf, task, answer, host, pump, said, got, stop, fault>>
  BY CopyReadDoes
<1>4. n \in Nat /\ 1 <= n /\ n <= Len(wire[Tube!From(q)])
  BY <1>2 DEF Leaves
<1>5. \A i \in 0..6 : Clear(Up', i) => Clear(Up, i)
  BY <1>1, <1>3, NarrowUp
<1>6. host # "frame" /\ (q[1] = "proxy" => task = "relay")
  BY <1>3, Copiers
<1>7. /\ Gap(Up', 0) = Gap(Up, 0) /\ Gap(Up', 1) = Gap(Up, 1) /\ Gap(Up', 2) = Gap(Up, 2) /\ Gap(Up', 3) = Gap(Up, 3)
      /\ Gap(Up', 4) = Gap(Up, 4) /\ Gap(Up', 5) = Gap(Up, 5) /\ Sent(Up') = Sent(Up) /\ Gap(Up, 3) = 0
  BY <1>1, <1>3, <1>6 DEF IsUp
<1>8. CASE q = <<"proxy", "up">>
  <2>1. Gap(Up, 5) = 0
    BY <1>1, <1>6, <1>8 DEF IsUp
  <2>2. /\ wire'[<<"far", "up">>] = wire[<<"far", "up">>] /\ wire'[<<"mid", "up">>] = wire[<<"mid", "up">>]
        /\ wire'[<<"near", "up">>] = SubSeq(wire[<<"near", "up">>], n + 1, Len(wire[<<"near", "up">>]))
        /\ held'[<<"broker", "up">>] = held[<<"broker", "up">>]
        /\ held'[<<"proxy", "up">>] = held[<<"proxy", "up">>] \o SubSeq(wire[<<"near", "up">>], 1, n)
        /\ n <= Len(wire[<<"near", "up">>])
    <3>1. Tube!From(q) = <<"near", "up">>
      BY <1>8, Plumbing
    <3>2. /\ Leaves(<<"near", "up">>, n) /\ HeldElse(<<"proxy", "up">>) /\ n <= Len(wire[<<"near", "up">>])
          /\ held'[<<"proxy", "up">>] = held[<<"proxy", "up">>] \o SubSeq(wire[<<"near", "up">>], 1, n)
      BY <1>2, <1>3, <1>4, <1>8, <3>1
    <3>3. QED
      BY <3>2, NamedEnds DEF Leaves, HeldElse
  <2>3. /\ Stage(Up', 5) = SubSeq(Stage(Up, 5), n + 1, Size(Up, 5)) /\ Stage(Up', 4) = Stage(Up, 4) \o SubSeq(Stage(Up, 5), 1, n)
        /\ Stage(Up', 0) = Stage(Up, 0) /\ Stage(Up', 1) = Stage(Up, 1) /\ Stage(Up', 2) = Stage(Up, 2) /\ Stage(Up', 3) = Stage(Up, 3)
        /\ n <= Size(Up, 5)
    BY <1>1, <1>3, <2>2 DEF IsUp, Size
  <2>4. (Clear(Up', 4) => Clear(Up, 5)) /\ At(Up, 5) >= 0
    <3>1. Clear(Up', 4) => Clear(Up, 5)
      BY <1>5 DEF Clear
    <3>2. At(Up, 5) >= 0
      BY <1>1, <1>7, <2>1, UpPlaces
    <3>3. QED
      BY <3>1, <3>2
  <2>5. 5 \in 1..5 /\ 4 = 5 - 1
    OBVIOUS
  <2>6. Moves(Up, Up', 5, 4, n)
    BY <1>4, <1>5, <1>7, <2>1, <2>3, <2>4, <2>5 DEF Moves
  <2>7. QED
    BY <1>1, <2>6, Moved
<1>9. CASE q = <<"broker", "up">>
  <2>2. /\ wire'[<<"far", "up">>] = wire[<<"far", "up">>] /\ wire'[<<"near", "up">>] = wire[<<"near", "up">>]
        /\ wire'[<<"mid", "up">>] = SubSeq(wire[<<"mid", "up">>], n + 1, Len(wire[<<"mid", "up">>]))
        /\ held'[<<"proxy", "up">>] = held[<<"proxy", "up">>]
        /\ held'[<<"broker", "up">>] = held[<<"broker", "up">>] \o SubSeq(wire[<<"mid", "up">>], 1, n)
        /\ n <= Len(wire[<<"mid", "up">>])
    <3>1. Tube!From(q) = <<"mid", "up">>
      BY <1>9, Plumbing
    <3>2. /\ Leaves(<<"mid", "up">>, n) /\ HeldElse(<<"broker", "up">>) /\ n <= Len(wire[<<"mid", "up">>])
          /\ held'[<<"broker", "up">>] = held[<<"broker", "up">>] \o SubSeq(wire[<<"mid", "up">>], 1, n)
      BY <1>2, <1>3, <1>4, <1>9, <3>1
    <3>3. QED
      BY <3>2, NamedEnds DEF Leaves, HeldElse
  <2>3. /\ Stage(Up', 3) = SubSeq(Stage(Up, 3), n + 1, Size(Up, 3)) /\ Stage(Up', 2) = Stage(Up, 2) \o SubSeq(Stage(Up, 3), 1, n)
        /\ Stage(Up', 0) = Stage(Up, 0) /\ Stage(Up', 1) = Stage(Up, 1) /\ Stage(Up', 4) = Stage(Up, 4) /\ Stage(Up', 5) = Stage(Up, 5)
        /\ n <= Size(Up, 3)
    BY <1>1, <1>3, <2>2 DEF IsUp, Size
  <2>4. (Clear(Up', 2) => Clear(Up, 3)) /\ At(Up, 3) >= 0
    <3>1. Clear(Up', 2) => Clear(Up, 3)
      BY <1>5 DEF Clear
    <3>2. At(Up, 3) >= 0
      BY <1>1, <1>7, UpPlaces
    <3>3. QED
      BY <3>1, <3>2
  <2>5. 3 \in 1..5 /\ 2 = 3 - 1
    OBVIOUS
  <2>6. Moves(Up, Up', 3, 2, n)
    BY <1>4, <1>5, <1>7, <2>3, <2>4, <2>5 DEF Moves
  <2>7. QED
    BY <1>1, <2>6, Moved
<1>10. CASE q = <<"proxy", "down">> \/ q = <<"broker", "down">>
  <2>1. Tube!From(q) \in {<<"mid", "down">>, <<"far", "down">>}
    BY <1>10, Plumbing
  <2>2. SameUp
    BY <1>2, <1>3, <1>10, <2>1, NamedEnds DEF SameUp, Leaves, HeldElse
  <2>3. QED
    BY <1>1, <1>3, <2>2, UpStill
<1>11. QED
  BY <1>8, <1>9, <1>10, NamedEnds

\* A loop of this direction writes.
LEMMA UpCopyWrite ==
  ASSUME TubeTyped, TubeTyped', Empty, Positions, Chain("up", Up), NEW q \in Tube!Pumps, Tube!CopyWrite(q)
  PROVE  Chain("up", Up)'
<1> DEFINE n == 1
<1>1. IsUp /\ IsUp' /\ Link(Up)
  BY UpParts, PartsNext DEF IsUp
<1>2. /\ Tube!Copying(q) /\ ~Tube!CannotWrite(Tube!To(q)) /\ HeldElse(q) /\ held[q] # <<>>
      /\ Enters(Tube!To(q), SubSeq(held[q], 1, 1)) /\ held'[q] = SubSeq(held[q], 2, Len(held[q]))
      /\ UNCHANGED <<route, shut, deaf, task, answer, host, pump, said, got, stop, fault>>
  BY CopyWriteDoes
<1>3. n \in Nat /\ n <= Len(held[q]) /\ 2 = n + 1
  <2>1. Len(held[q]) \in Nat /\ Len(held[q]) > 0
    <3>1. held[q] \in Seq(Tokens)
      BY DEF TubeTyped
    <3>2. QED
      BY <1>2, <3>1, HeadOff
  <2>2. QED
    BY <2>1
<1>4. Enters(Tube!To(q), SubSeq(held[q], 1, n)) /\ held'[q] = SubSeq(held[q], n + 1, Len(held[q]))
  BY <1>2, <1>3
<1> HIDE DEF n
<1>5. \A i \in 0..6 : Clear(Up', i) => Clear(Up, i)
  BY <1>1, <1>2, NarrowUp
<1>6. host # "frame" /\ (q[1] = "proxy" => task = "relay")
  BY <1>2, Copiers
<1>7. /\ Gap(Up', 0) = Gap(Up, 0) /\ Gap(Up', 1) = Gap(Up, 1) /\ Gap(Up', 2) = Gap(Up, 2) /\ Gap(Up', 3) = Gap(Up, 3)
      /\ Gap(Up', 4) = Gap(Up, 4) /\ Gap(Up', 5) = Gap(Up, 5) /\ Sent(Up') = Sent(Up) /\ Gap(Up, 3) = 0 /\ Gap(Up, 2) = 0 /\ Gap(Up, 4) = 0
  BY <1>1, <1>2, <1>6 DEF IsUp
<1>8. CASE q = <<"proxy", "up">>
  <2>2. /\ wire'[<<"far", "up">>] = wire[<<"far", "up">>] /\ wire'[<<"near", "up">>] = wire[<<"near", "up">>]
        /\ wire'[<<"mid", "up">>] = wire[<<"mid", "up">>] \o SubSeq(held[<<"proxy", "up">>], 1, n)
        /\ held'[<<"broker", "up">>] = held[<<"broker", "up">>]
        /\ held'[<<"proxy", "up">>] = SubSeq(held[<<"proxy", "up">>], n + 1, Len(held[<<"proxy", "up">>]))
        /\ n <= Len(held[<<"proxy", "up">>])
    <3>1. Tube!To(q) = <<"mid", "up">>
      BY <1>8, Plumbing
    <3>2. /\ Enters(<<"mid", "up">>, SubSeq(held[<<"proxy", "up">>], 1, n)) /\ HeldElse(<<"proxy", "up">>) /\ n <= Len(held[<<"proxy", "up">>])
          /\ held'[<<"proxy", "up">>] = SubSeq(held[<<"proxy", "up">>], n + 1, Len(held[<<"proxy", "up">>]))
      BY <1>2, <1>3, <1>4, <1>8, <3>1
    <3>3. QED
      BY <3>2, NamedEnds DEF Enters, HeldElse
  <2>3. /\ Stage(Up', 4) = SubSeq(Stage(Up, 4), n + 1, Size(Up, 4)) /\ Stage(Up', 3) = Stage(Up, 3) \o SubSeq(Stage(Up, 4), 1, n)
        /\ Stage(Up', 0) = Stage(Up, 0) /\ Stage(Up', 1) = Stage(Up, 1) /\ Stage(Up', 2) = Stage(Up, 2) /\ Stage(Up', 5) = Stage(Up, 5)
        /\ n <= Size(Up, 4)
    BY <1>1, <1>2, <2>2 DEF IsUp, Size
  <2>4. (Clear(Up', 3) => Clear(Up, 4)) /\ At(Up, 4) >= 0
    <3>1. Passes(Up, 2)
      BY <1>1, <1>2, <1>8, Plumbing DEF IsUp, Free
    <3>2. Clear(Up', 3) => Clear(Up, 4)
      BY <1>5, <3>1 DEF Clear
    <3>3. At(Up, 4) >= 0
      BY <1>1, <1>7, UpPlaces
    <3>4. QED
      BY <3>2, <3>3
  <2>5. 4 \in 1..5 /\ 3 = 4 - 1
    OBVIOUS
  <2>6. Moves(Up, Up', 4, 3, n)
    BY <1>3, <1>5, <1>7, <2>3, <2>4, <2>5 DEF Moves
  <2>7. QED
    BY <1>1, <2>6, Moved
<1>9. CASE q = <<"broker", "up">>
  <2>2. /\ wire'[<<"mid", "up">>] = wire[<<"mid", "up">>] /\ wire'[<<"near", "up">>] = wire[<<"near", "up">>]
        /\ wire'[<<"far", "up">>] = wire[<<"far", "up">>] \o SubSeq(held[<<"broker", "up">>], 1, n)
        /\ held'[<<"proxy", "up">>] = held[<<"proxy", "up">>]
        /\ held'[<<"broker", "up">>] = SubSeq(held[<<"broker", "up">>], n + 1, Len(held[<<"broker", "up">>]))
        /\ n <= Len(held[<<"broker", "up">>])
    <3>1. Tube!To(q) = <<"far", "up">>
      BY <1>9, Plumbing
    <3>2. /\ Enters(<<"far", "up">>, SubSeq(held[<<"broker", "up">>], 1, n)) /\ HeldElse(<<"broker", "up">>) /\ n <= Len(held[<<"broker", "up">>])
          /\ held'[<<"broker", "up">>] = SubSeq(held[<<"broker", "up">>], n + 1, Len(held[<<"broker", "up">>]))
      BY <1>2, <1>3, <1>4, <1>9, <3>1
    <3>3. QED
      BY <3>2, NamedEnds DEF Enters, HeldElse
  <2>3. /\ Stage(Up', 2) = SubSeq(Stage(Up, 2), n + 1, Size(Up, 2)) /\ Stage(Up', 1) = Stage(Up, 1) \o SubSeq(Stage(Up, 2), 1, n)
        /\ Stage(Up', 0) = Stage(Up, 0) /\ Stage(Up', 3) = Stage(Up, 3) /\ Stage(Up', 4) = Stage(Up, 4) /\ Stage(Up', 5) = Stage(Up, 5)
        /\ n <= Size(Up, 2)
    BY <1>1, <1>2, <2>2 DEF IsUp, Size
  <2>4. (Clear(Up', 1) => Clear(Up, 2)) /\ At(Up, 2) >= 0
    <3>1. Passes(Up, 1)
      BY <1>1, <1>2, <1>9, Plumbing DEF IsUp, Free
    <3>2. Clear(Up', 1) => Clear(Up, 2)
      BY <1>5, <3>1 DEF Clear
    <3>3. At(Up, 2) >= 0
      BY <1>1, <1>7, UpPlaces
    <3>4. QED
      BY <3>2, <3>3
  <2>5. 2 \in 1..5 /\ 1 = 2 - 1
    OBVIOUS
  <2>6. Moves(Up, Up', 2, 1, n)
    BY <1>3, <1>5, <1>7, <2>3, <2>4, <2>5 DEF Moves
  <2>7. QED
    BY <1>1, <2>6, Moved
<1>10. CASE q = <<"proxy", "down">> \/ q = <<"broker", "down">>
  <2>1. Tube!To(q) \in {<<"near", "down">>, <<"mid", "down">>}
    BY <1>10, Plumbing
  <2>2. SameUp
    BY <1>2, <1>10, <2>1, NamedEnds DEF SameUp, Enters, HeldElse
  <2>3. QED
    BY <1>1, <1>2, <2>2, UpStill
<1>11. QED
  BY <1>8, <1>9, <1>10, NamedEnds

\* The frame is put before the bytes of the client.
LEMMA UpDial ==
  ASSUME TubeTyped, TubeTyped', Empty, Positions, Chain("up", Up), Tube!Dial
  PROVE  Chain("up", Up)'
<1>1. IsUp /\ IsUp' /\ Link(Up) /\ Link(Up')
  BY UpParts, PartsNext DEF IsUp
<1>2. /\ task = "dial" /\ UNCHANGED <<route, shut, deaf, answer, pump, held, said, got, stop, fault>>
      /\ \/ route = "public" /\ task' = "connected" /\ UNCHANGED <<wire, host>>
         \/ route # "public" /\ task' = "response" /\ host' = "frame" /\ Enters(<<"mid", "up">>, <<"F">>)
  BY DialDoes
<1>3. CASE route = "public" /\ task' = "connected" /\ UNCHANGED <<wire, host>>
  <2>1. SameUp
    BY <1>2, <1>3 DEF SameUp
  <2>2. QED
    BY <1>1, <1>2, <2>1, UpStill
<1>4. CASE route # "public" /\ task' = "response" /\ host' = "frame" /\ Enters(<<"mid", "up">>, <<"F">>)
  <2>1. host = "none" /\ route = "local"
    BY <1>2, <1>4, Sizes DEF Positions, TubeTyped
  <2>2. BrokerOff /\ ~Tube!There("service")
    BY <1>2, <2>1 DEF Positions, Tube!There
  <2>3. /\ wire[<<"mid", "up">>] = <<>> /\ got["service"] = <<>> /\ wire[<<"far", "up">>] = <<>>
        /\ held[<<"broker", "up">>] = <<>>
    BY <2>1, <2>2 DEF Empty
  <2>4. wire'[<<"mid", "up">>] = <<"F">>
    BY <1>4, <2>3, Glyphs, ConcatEmptySeq, NamedEnds DEF Enters
  <2>5. wire'[<<"far", "up">>] = wire[<<"far", "up">>] /\ wire'[<<"near", "up">>] = wire[<<"near", "up">>]
    BY <1>4, NamedEnds DEF Enters
  <2>6. /\ Stage(Up', 0) = Stage(Up, 0) /\ Stage(Up', 1) = Stage(Up, 1) /\ Stage(Up', 2) = Stage(Up, 2) /\ Stage(Up', 4) = Stage(Up, 4) /\ Stage(Up', 5) = Stage(Up, 5)
        /\ Stage(Up, 3) = <<>> /\ Stage(Up', 3) = <<"F">> /\ Stage(Up, 0) = <<>> /\ Stage(Up, 1) = <<>> /\ Stage(Up, 2) = <<>>
    BY <1>1, <1>2, <2>3, <2>4, <2>5 DEF IsUp
  <2>7. /\ Gap(Up', 0) = Gap(Up, 0) /\ Gap(Up', 1) = Gap(Up, 1) /\ Gap(Up', 2) = Gap(Up, 2) /\ Gap(Up', 4) = Gap(Up, 4)
        /\ Gap(Up', 5) = Gap(Up, 5) /\ Gap(Up', 3) = -1 /\ Gap(Up, 3) = 0 /\ Gap(Up, 4) = 0
        /\ Gap(Up, 0) = 0 /\ Gap(Up, 1) = 0 /\ Gap(Up, 2) = 0
    BY <1>1, <1>2, <1>4, <2>1 DEF IsUp
  <2>8. Sent(Up') = Sent(Up) /\ Sent(Up) >= 0
    <3>1. Sent(Up') = Sent(Up)
      BY <1>1, <1>2 DEF IsUp
    <3>2. Sent(Up) \in Nat
      BY <1>1 DEF Link
    <3>3. QED
      BY <3>1, <3>2
  <2>9. \A i \in 0..6 : Clear(Up', i) => Clear(Up, i)
    BY <1>1, <1>2, NarrowUp
  <2>10. Size(Up, 3) = 0 /\ Size(Up', 3) = 1 /\ Size(Up', 0) = 0 /\ Size(Up', 1) = 0 /\ Size(Up', 2) = 0
    BY <2>6 DEF Size
  <2>11. At(Up', 3) = -1
    BY <1>1, <2>7, <2>10, Grounds
  <2>12. Good("up", Up', 3)
    <3>1. Runs("up", 3, <<"F">>, -1)
      BY DEF Runs, Token
    <3>2. QED
      BY <2>6, <2>8, <2>10, <2>11, <3>1 DEF Good
  <2>13. Gap(Up', 3) + Size(Up', 3) + Gap(Up', 4) = Gap(Up, 3) + Size(Up, 3) + Gap(Up, 4)
    BY <2>7, <2>10
  <2>14. Gap(Up', 3) + Size(Up', 3) + Gap(Up', 3 + 1) = Gap(Up, 3) + Size(Up, 3) + Gap(Up, 3 + 1)
    BY <2>13
  <2>15. \A i \in 0..5 : (i # 3 => Stage(Up', i) = Stage(Up, i)) /\ (i # 3 /\ i # 3 + 1 => Gap(Up', i) = Gap(Up, i))
    BY <2>6, <2>7, Stages
  <2>16. QED
    BY <1>1, <2>8, <2>9, <2>12, <2>14, <2>15, Replaced
<1>5. QED
  BY <1>2, <1>3, <1>4

\* The broker reads the frame and no more.
LEMMA UpServe ==
  ASSUME TubeTyped, TubeTyped', Empty, Positions, Chain("up", Up), Tube!Serve
  PROVE  Chain("up", Up)'
<1>1. IsUp /\ IsUp' /\ Link(Up)
  BY UpParts, PartsNext DEF IsUp
<1>2. /\ host = "frame" /\ UNCHANGED <<route, task, answer, held, said, got, stop, fault>>
      /\ Len(wire[<<"mid", "up">>]) > 0 /\ host' \in {"relay", "refused"}
      /\ wire'[<<"mid", "up">>] = SubSeq(wire[<<"mid", "up">>], 2, Len(wire[<<"mid", "up">>]))
      /\ wire'[<<"far", "up">>] = wire[<<"far", "up">>] /\ wire'[<<"near", "up">>] = wire[<<"near", "up">>]
      /\ shut \subseteq shut' /\ deaf \subseteq deaf'
  BY ServeDoes, NamedEnds
<1> DEFINE m == 1
           p == 0
<1>3. /\ Stage(Up', 0) = Stage(Up, 0) /\ Stage(Up', 1) = Stage(Up, 1) /\ Stage(Up', 2) = Stage(Up, 2) /\ Stage(Up', 4) = Stage(Up, 4) /\ Stage(Up', 5) = Stage(Up, 5)
      /\ Stage(Up', 3) = SubSeq(Stage(Up, 3), 2, Size(Up, 3)) /\ Size(Up, 3) > 0
  BY <1>1, <1>2 DEF IsUp, Size
<1>4. /\ Gap(Up', 0) = Gap(Up, 0) /\ Gap(Up', 1) = Gap(Up, 1) /\ Gap(Up', 2) = Gap(Up, 2) /\ Gap(Up', 4) = Gap(Up, 4)
      /\ Gap(Up', 5) = Gap(Up, 5) /\ Gap(Up, 3) = -1 /\ Gap(Up', 3) = 0 /\ Sent(Up') = Sent(Up)
  BY <1>1, <1>2 DEF IsUp
<1>5. \A i \in 0..6 : Clear(Up', i) => Clear(Up, i)
  BY <1>1, <1>2, NarrowUp
<1>6. /\ 3 \in 1..5 /\ 2 = 3 - 1 /\ m \in Nat /\ p \in Nat /\ 2 = m + 1 /\ m = m + p /\ 2 = m + p + 1
      /\ Gap(Up', 3) = Gap(Up, 3) + m /\ m + p <= Size(Up, 3)
  <2>1. Size(Up, 3) \in Nat
    BY <1>1, Grounds
  <2>2. QED
    BY <1>3, <1>4, <2>1
<1>7. Stage(Up', 2) = Stage(Up, 2) \o SubSeq(Stage(Up, 3), 2, m)
  <2>1. Stage(Up, 2) \in Seq(Tokens) /\ Stage(Up, 3) \in Seq(Tokens)
    BY <1>1, Stages DEF Link
  <2>2. Stage(Up, 2) \o SubSeq(Stage(Up, 3), m + 1, m) = Stage(Up, 2)
    BY <1>6, <2>1, NothingMore
  <2>3. QED
    BY <1>3, <1>6, <2>2
<1>8. ~(p > 0)
  OBVIOUS
<1> HIDE DEF m, p
<1>9. Pulls(Up, Up', 3, 2, m, p, 2, m, 2)
  BY <1>3, <1>4, <1>5, <1>6, <1>7, <1>8 DEF Pulls
<1>10. QED
  BY <1>1, <1>9, Pulled

\* The service hears the next byte.
LEMMA UpHear ==
  ASSUME TubeTyped, TubeTyped', Empty, Positions, Chain("up", Up), NEW who \in Tube!Parties, Tube!Hear(who)
  PROVE  Chain("up", Up)'
<1> DEFINE n == 1
<1>1. IsUp /\ IsUp' /\ Link(Up) /\ Link(Up')
  BY UpParts, PartsNext DEF IsUp
<1>2. /\ Tube!There(who) /\ wire[Tube!Ear(who)] # <<>> /\ Leaves(Tube!Ear(who), 1)
      /\ got'[who] = got[who] \o SubSeq(wire[Tube!Ear(who)], 1, 1)
      /\ \A w \in Tube!Parties : w # who => got'[w] = got[w]
      /\ UNCHANGED <<route, shut, deaf, task, answer, host, pump, held, said, stop, fault>>
  BY HearDoes
<1>3. n \in Nat /\ Leaves(Tube!Ear(who), n) /\ got'[who] = got[who] \o SubSeq(wire[Tube!Ear(who)], 1, n) /\ n = 1
  BY <1>2
<1> HIDE DEF n
<1>5. \A i \in 0..6 : Clear(Up', i) => Clear(Up, i)
  BY <1>1, <1>2, NarrowUp
<1>6. /\ Gap(Up', 0) = Gap(Up, 0) /\ Gap(Up', 1) = Gap(Up, 1) /\ Gap(Up', 2) = Gap(Up, 2) /\ Gap(Up', 3) = Gap(Up, 3)
      /\ Gap(Up', 4) = Gap(Up, 4) /\ Gap(Up', 5) = Gap(Up, 5) /\ Sent(Up') = Sent(Up)
      /\ Gap(Up, 1) = 0 /\ Gap(Up, 2) = 0
  BY <1>1, <1>2 DEF IsUp
<1>7. CASE who = "client"
  <2>1. Tube!Ear(who) = <<"near", "down">> /\ "service" \in Tube!Parties
    BY <1>7, Mouths DEF Tube!Parties
  <2>2. SameUp
    BY <1>2, <1>7, <2>1, NamedEnds DEF SameUp, Leaves
  <2>3. QED
    BY <1>1, <1>2, <2>2, UpStill
<1>8. CASE who = "service" /\ route # "public"
  <2>1. Tube!Ear(who) = <<"far", "up">>
    BY <1>8, Mouths
  <2>2. /\ wire'[<<"mid", "up">>] = wire[<<"mid", "up">>] /\ wire'[<<"near", "up">>] = wire[<<"near", "up">>]
        /\ wire'[<<"far", "up">>] = SubSeq(wire[<<"far", "up">>], n + 1, Len(wire[<<"far", "up">>]))
        /\ got'["service"] = got["service"] \o SubSeq(wire[<<"far", "up">>], 1, n)
        /\ n <= Len(wire[<<"far", "up">>])
    <3>1. Leaves(<<"far", "up">>, n) /\ got'["service"] = got["service"] \o SubSeq(wire[<<"far", "up">>], 1, n)
      BY <1>3, <1>8, <2>1
    <3>2. QED
      BY <3>1, NamedEnds DEF Leaves
  <2>3. /\ Stage(Up', 1) = SubSeq(Stage(Up, 1), n + 1, Size(Up, 1)) /\ Stage(Up', 0) = Stage(Up, 0) \o SubSeq(Stage(Up, 1), 1, n)
        /\ Stage(Up', 2) = Stage(Up, 2) /\ Stage(Up', 3) = Stage(Up, 3) /\ Stage(Up', 4) = Stage(Up, 4) /\ Stage(Up', 5) = Stage(Up, 5)
        /\ n <= Size(Up, 1)
    BY <1>1, <1>2, <2>2 DEF IsUp, Size
  <2>4. Clear(Up, 1)
    BY DEF Clear
  <2>5. 1 \in 1..5 /\ 0 = 1 - 1
    OBVIOUS
  <2>6. Moves(Up, Up', 1, 0, n)
    BY <1>3, <1>5, <1>6, <2>3, <2>4, <2>5 DEF Moves
  <2>7. QED
    BY <1>1, <2>6, Moved
<1>9. CASE who = "service" /\ route = "public"
  <2>1. Tube!Ear(who) = <<"mid", "up">>
    BY <1>9, Mouths
  <2>2. host = "none" /\ BrokerOff
    BY <1>9 DEF Positions
  <2>3. wire[<<"far", "up">>] = <<>> /\ held[<<"broker", "up">>] = <<>> /\ Free("far", "up")
    BY <2>2 DEF Empty
  <2>4. /\ wire'[<<"far", "up">>] = wire[<<"far", "up">>] /\ wire'[<<"near", "up">>] = wire[<<"near", "up">>]
        /\ wire'[<<"mid", "up">>] = SubSeq(wire[<<"mid", "up">>], n + 1, Len(wire[<<"mid", "up">>]))
        /\ got'["service"] = got["service"] \o SubSeq(wire[<<"mid", "up">>], 1, n)
        /\ n <= Len(wire[<<"mid", "up">>])
    <3>1. Leaves(<<"mid", "up">>, n) /\ got'["service"] = got["service"] \o SubSeq(wire[<<"mid", "up">>], 1, n)
      BY <1>3, <1>9, <2>1
    <3>2. QED
      BY <3>1, NamedEnds DEF Leaves
  <2>5. /\ Stage(Up', 3) = SubSeq(Stage(Up, 3), n + 1, Size(Up, 3)) /\ Stage(Up', 0) = Stage(Up, 0) \o SubSeq(Stage(Up, 3), 1, n)
        /\ Stage(Up', 1) = Stage(Up, 1) /\ Stage(Up', 2) = Stage(Up, 2) /\ Stage(Up', 4) = Stage(Up, 4) /\ Stage(Up', 5) = Stage(Up, 5)
        /\ n <= Size(Up, 3) /\ Stage(Up, 1) = <<>> /\ Stage(Up, 2) = <<>>
    BY <1>1, <1>2, <2>3, <2>4 DEF IsUp, Size
  <2>6. Gap(Up, 3) = 0 /\ Clear(Up, 3)
    BY <1>1, <2>2, <2>3 DEF IsUp, Clear
  <2>7. At(Up, 3) >= 0 /\ Size(Up, 3) > 0
    <3>1. Size(Up, 3) \in Nat
      BY <1>1, Grounds
    <3>2. QED
      BY <1>1, <1>3, <2>5, <2>6, <3>1, UpPlaces
  <2>8. 2 = n + 1
    BY <1>3
  <2>9. /\ Stage(Up', 3) = SubSeq(Stage(Up, 3), 2, Size(Up, 3)) /\ Stage(Up', 0) = Stage(Up, 0) \o SubSeq(Stage(Up, 3), 1, 1)
    BY <1>3, <2>5, <2>8
  <2>10. \A i \in 0..5 : Gap(Up', i) = Gap(Up, i)
    BY <1>6, Stages
  <2>11. \A i \in {1, 2, 4, 5} : Stage(Up', i) = Stage(Up, i)
    BY <2>5
  <2>12. QED
    BY <1>1, <1>5, <1>6, <2>5, <2>6, <2>7, <2>9, <2>10, <2>11, HeardAfar
<1>10. QED
  BY <1>7, <1>8, <1>9 DEF Tube!Parties

\* The client says the next byte.
LEMMA UpSay ==
  ASSUME TubeTyped, TubeTyped', Empty, Positions, Chain("up", Up), NEW who \in Tube!Parties, Tube!Say(who)
  PROVE  Chain("up", Up)'
<1>1. IsUp /\ IsUp' /\ Link(Up) /\ Link(Up')
  BY UpParts, PartsNext DEF IsUp
<1>2. /\ Tube!There(who) /\ said[who] < Tube!Bytes(who) /\ Len(wire[Tube!Mouth(who)]) < Window /\ ~Tube!CannotWrite(Tube!Mouth(who))
      /\ Enters(Tube!Mouth(who), <<said[who] + 1>>) /\ said'[who] = said[who] + 1
      /\ \A w \in Tube!Parties : w # who => said'[w] = said[w]
      /\ UNCHANGED <<route, shut, deaf, task, answer, host, pump, held, got, stop, fault>>
  BY SayDoes
<1>3. CASE who = "service"
  <2>1. Tube!Mouth(who) \in {<<"mid", "down">>, <<"far", "down">>} /\ "client" \in Tube!Parties
    BY <1>3, Mouths DEF Tube!Parties
  <2>2. SameUp
    BY <1>2, <1>3, <2>1, NamedEnds DEF SameUp, Enters
  <2>3. QED
    BY <1>1, <1>2, <2>2, UpStill
<1>4. CASE who = "client"
  <2>1. Tube!Mouth(who) = <<"near", "up">>
    BY <1>4, Mouths
  <2>2. \A i \in 0..6 : Clear(Up', i) => Clear(Up, i)
    BY <1>1, <1>2, NarrowUp
  <2>3. /\ wire'[<<"mid", "up">>] = wire[<<"mid", "up">>] /\ wire'[<<"far", "up">>] = wire[<<"far", "up">>]
        /\ wire'[<<"near", "up">>] = wire[<<"near", "up">>] \o <<said["client"] + 1>>
        /\ said'["client"] = said["client"] + 1 /\ Free("near", "up")
    <3>1. Enters(<<"near", "up">>, <<said["client"] + 1>>) /\ said'["client"] = said["client"] + 1 /\ ~Tube!CannotWrite(<<"near", "up">>)
      BY <1>2, <1>4, <2>1
    <3>2. QED
      BY <3>1, NamedEnds DEF Enters, Free
  <2>4. /\ Stage(Up', 0) = Stage(Up, 0) /\ Stage(Up', 1) = Stage(Up, 1) /\ Stage(Up', 2) = Stage(Up, 2) /\ Stage(Up', 3) = Stage(Up, 3) /\ Stage(Up', 4) = Stage(Up, 4)
        /\ Stage(Up', 5) = Stage(Up, 5) \o <<Sent(Up) + 1>> /\ Sent(Up') = Sent(Up) + 1
    BY <1>1, <1>2, <2>3 DEF IsUp
  <2>5. /\ Gap(Up', 0) = Gap(Up, 0) /\ Gap(Up', 1) = Gap(Up, 1) /\ Gap(Up', 2) = Gap(Up, 2) /\ Gap(Up', 3) = Gap(Up, 3)
        /\ Gap(Up', 4) = Gap(Up, 4) /\ Gap(Up', 5) = Gap(Up, 5)
    BY <1>1, <1>2 DEF IsUp
  <2>6. Clear(Up', 5) => Clear(Up, 6)
    BY <1>1, <2>2, <2>3 DEF Clear, IsUp
  <2>7. /\ \A i \in 0..5 : i # 5 => Stage(Up', i) = Stage(Up, i)
        /\ \A i \in 0..5 : Gap(Up', i) = Gap(Up, i)
    BY <2>4, <2>5, Stages
  <2>8. 5 \in {3, 5} /\ 5 # 3
    OBVIOUS
  <2>9. QED
    BY <1>1, <2>2, <2>4, <2>6, <2>7, <2>8, SaidMore
<1>5. QED
  BY <1>3, <1>4 DEF Tube!Parties

-----------------------------------------------------------------------------
(* The closes.                                                             *)

\* Who has given up after the frame has closed the socket.
LEMMA GoneStep == TubeTyped /\ Positions /\ Gone /\ [Tube!Next]_Tube!vars => Gone'
<1> SUFFICES ASSUME TubeTyped, Positions, Gone, [Tube!Next]_Tube!vars PROVE Gone'
  OBVIOUS
<1> DEFINE e == <<"mid", "down">>
<1>1. e \in Tube!Ends /\ Tube!Opposite(e) = <<"mid", "up">>
  BY NamedEnds, Opposites
<1>2. ASSUME NEW E \in SUBSET Tube!Ends, Tube!Close(E) PROVE (e \in deaf => e \in deaf') /\ (<<"mid", "up">> \in E => e \in deaf')
  BY <1>1, <1>2, Closing
<1>3. ASSUME deaf \subseteq deaf', UNCHANGED <<task, host>> PROVE Gone'
  BY <1>3 DEF Gone
<1>4. CASE Tube!ReadHead
  BY <1>4, ReadHeadDoes DEF Gone
<1>5. CASE Tube!Dial
  BY <1>5, DialDoes DEF Gone
<1>6. CASE Tube!ReadResponse
  <2>1. \/ task' = "connected" \/ UNCHANGED <<task, host, deaf>>
        \/ task' = "rejected" /\ Tube!Close({<<"mid", "up">>})
    BY <1>6, ReadResponseDoes
  <2>2. task' = "connected" => Gone'
    BY DEF Gone
  <2>3. CASE Tube!Close({<<"mid", "up">>})
    <3>1. {<<"mid", "up">>} \in SUBSET Tube!Ends
      BY Closers
    <3>2. e \in deaf'
      BY <1>2, <2>3, <3>1
    <3>3. QED
      BY <3>2 DEF Gone
  <2>4. QED
    BY <1>3, <2>1, <2>2, <2>3
<1>7. CASE Tube!NoResponse
  <2>1. Tube!Close({<<"mid", "up">>}) /\ {<<"mid", "up">>} \in SUBSET Tube!Ends
    BY <1>7, Closers DEF Tube!NoResponse
  <2>2. e \in deaf'
    BY <1>2, <2>1
  <2>3. QED
    BY <2>2 DEF Gone
<1>8. CASE Tube!GiveUp \/ Tube!PeerClosed
  <2> DEFINE E == IF Tube!GiveUp THEN Tube!Upstream ELSE Tube!Upstream \cup {<<"near", "down">>}
  <2>1. task \in {"dial", "response"} /\ UNCHANGED host
    BY <1>8 DEF Tube!GiveUp, Tube!PeerClosed
  <2>2. PICK F \in SUBSET Tube!Ends : Tube!Upstream \subseteq F /\ Tube!Close(F)
    <3>1. Tube!Upstream \in SUBSET Tube!Ends /\ Tube!Upstream \cup {<<"near", "down">>} \in SUBSET Tube!Ends
      BY Closers
    <3>2. Tube!Close(Tube!Upstream) \/ Tube!Close(Tube!Upstream \cup {<<"near", "down">>})
      BY <1>8 DEF Tube!GiveUp, Tube!PeerClosed
    <3>3. QED
      BY <3>1, <3>2
  <2>3. CASE task = "dial"
    <3>1. host' = "none"
      BY <2>1, <2>3 DEF Positions
    <3>2. QED
      BY <3>1 DEF Gone
  <2>4. CASE task = "response"
    <3>1. <<"mid", "up">> \in F
      BY <2>2, <2>4 DEF Tube!Upstream
    <3>2. e \in deaf'
      BY <1>2, <2>2, <3>1
    <3>3. QED
      BY <3>2 DEF Gone
  <2>5. QED
    BY <2>1, <2>3, <2>4
<1>9. CASE Tube!Establish \/ Tube!RelayOver
  <2>1. task' \in {"relay", "over"}
    BY <1>9 DEF Tube!Establish, Tube!RelayOver
  <2>2. QED
    BY <2>1 DEF Gone
<1>10. CASE Tube!Serve
  BY <1>10, ServeDoes DEF Gone
<1>11. CASE Tube!ServeNobody
  <2>1. Tube!Close({<<"mid", "down">>}) /\ {<<"mid", "down">>} \in SUBSET Tube!Ends /\ host = "frame" /\ UNCHANGED task
    BY <1>11, Closers DEF Tube!ServeNobody
  <2>2. e \in deaf => e \in deaf'
    BY <1>2, <2>1
  <2>3. QED
    BY <2>1, <2>2 DEF Gone
<1>12. ASSUME NEW E \in SUBSET Tube!Ends, Tube!Close(E), UNCHANGED <<task, host>> PROVE Gone'
  BY <1>3, <1>12, CloseGrows
<1>13. ASSUME NEW q \in Tube!Pumps, Tube!Loop(q) PROVE Gone'
  <2>1. CASE Tube!CopyRead(q) \/ Tube!CopyWrite(q) \/ Tube!ProxyEof(q)
    BY <1>3, <2>1 DEF Tube!CopyRead, Tube!CopyWrite, Tube!ProxyEof, Tube!HalfClose
  <2>2. CASE Tube!ProxyFails(q)
    BY <1>9, <2>2 DEF Tube!ProxyFails
  <2>3. CASE Tube!BrokerEnds(q)
    BY <1>12, <2>3, Closers DEF Tube!BrokerEnds
  <2>4. QED
    BY <1>13, <2>1, <2>2, <2>3 DEF Tube!Loop
<1>14. ASSUME NEW who \in Tube!Parties, Tube!Party(who) \/ Tube!Hear(who) \/ Tube!Abort(who) PROVE Gone'
  <2>1. CASE Tube!Say(who) \/ Tube!Finish(who) \/ Tube!Hear(who)
    BY <1>3, <2>1 DEF Tube!Say, Tube!Finish, Tube!Hear
  <2>2. CASE Tube!Abort(who)
    BY <1>12, <2>2, Closers DEF Tube!Abort
  <2>3. QED
    BY <1>14, <2>1, <2>2 DEF Tube!Party
<1>15. CASE Tube!Signal \/ UNCHANGED Tube!vars
  BY <1>3, <1>15 DEF Tube!Signal, Tube!vars
<1>16. QED
  BY <1>4, <1>5, <1>6, <1>7, <1>8, <1>9, <1>10, <1>11, <1>13, <1>14, <1>15
     DEF Tube!Next, Tube!Proxy, Tube!Worker, Tube!Outside, Tube!ProxyForced, Tube!ProxyDone

\* Every step that closes sockets.
Closes(E) ==
  /\ E \in SUBSET Tube!Ends /\ Tube!Close(E) /\ UNCHANGED <<route, held, said, got>>
  /\ \/ UNCHANGED <<task, answer, host>>
     \/ UNCHANGED <<answer, host>> /\ pump' = pump /\ task = "connected" /\ task' = "over" /\ E = Tube!ProxyEnds
     \/ UNCHANGED <<answer, host>> /\ pump' = pump /\ task = "relay" /\ task' = "over" /\ E = Tube!ProxyEnds
     \/ UNCHANGED host /\ pump' = pump /\ task = "response" /\ task' = "rejected" /\ E = {<<"mid", "up">>}
     \/ UNCHANGED <<answer, host>> /\ pump' = pump /\ task \in {"dial", "response"} /\ task' = "failed" /\ E = Tube!Upstream
     \/ UNCHANGED <<answer, host>> /\ pump' = pump /\ task \in {"dial", "response"} /\ task' = "left" /\ E = Tube!Upstream \cup {<<"near", "down">>}
     \/ UNCHANGED <<answer, task>> /\ pump' = pump /\ host = "frame" /\ host' = "refused" /\ E = {<<"mid", "down">>} /\ wire[<<"mid", "up">>] = <<>>
  /\ \A d \in Tube!Dirs : pump'[<<"proxy", d>>] = pump[<<"proxy", d>>]

\* Each close of the program leaves this chain in order.
LEMMA UpCloses ==
  ASSUME TubeTyped, TubeTyped', Chain("up", Up), NEW E, Closes(E)
  PROVE  Chain("up", Up)'
<1>1. IsUp /\ IsUp'
  BY UpParts, PartsNext
<1>2. E \in SUBSET Tube!Ends /\ Tube!Close(E) /\ UNCHANGED <<held, said, got>>
  BY DEF Closes
<1>3. (task' = "head" <=> task = "head") /\ (host' = "frame" => host = "frame")
  BY DEF Closes
<1>4. host = "frame" /\ host' # "frame" => Lost(<<"mid", "up">>)
  <2>1. SUFFICES ASSUME host = "frame", host' # "frame" PROVE Lost(<<"mid", "up">>)
    OBVIOUS
  <2>2. E = {<<"mid", "down">>} /\ wire[<<"mid", "up">>] = <<>>
    BY <2>1 DEF Closes
  <2>3. Tube!Opposite(<<"mid", "up">>) \in E /\ <<"mid", "up">> \in Tube!Ends
    BY <2>2, NamedEnds, Opposites
  <2>4. QED
    BY <1>2, <2>2, <2>3, Closing DEF Lost
<1>5. QED
  BY <1>1, <1>2, <1>3, <1>4, UpClosed

\* The closes, one by one.
LEMMA Closings ==
  ASSUME TubeTyped
  PROVE  /\ Tube!NoResponse => Closes({<<"mid", "up">>})
         /\ Tube!GiveUp => Closes(Tube!Upstream)
         /\ Tube!PeerClosed => Closes(Tube!Upstream \cup {<<"near", "down">>})
         /\ task = "relay" /\ Tube!RelayOver => Closes(Tube!ProxyEnds)
         /\ Tube!ServeNobody => Closes({<<"mid", "down">>})
         /\ \A q \in Tube!Pumps : Tube!BrokerEnds(q) => Closes({<<"mid", "down">>, <<"far", "up">>})
         /\ \A who \in Tube!Parties : Tube!Abort(who) => Closes({Tube!Mouth(who)})
<1>1. Tube!NoResponse => Closes({<<"mid", "up">>})
  BY Closers DEF Tube!NoResponse, Closes
<1>2. Tube!GiveUp => Closes(Tube!Upstream)
  BY Closers DEF Tube!GiveUp, Closes
<1>3. Tube!PeerClosed => Closes(Tube!Upstream \cup {<<"near", "down">>})
  BY Closers DEF Tube!PeerClosed, Closes
<1>4. task = "relay" /\ Tube!RelayOver => Closes(Tube!ProxyEnds)
  BY Closers DEF Tube!RelayOver, Closes
<1>5. Tube!ServeNobody => Closes({<<"mid", "down">>})
  BY Closers DEF Tube!ServeNobody, Closes, Tube!AtEof
<1>6. ASSUME NEW q \in Tube!Pumps, Tube!BrokerEnds(q) PROVE Closes({<<"mid", "down">>, <<"far", "up">>})
  <2>1. \A d \in Tube!Dirs : pump'[<<"proxy", d>>] = pump[<<"proxy", d>>]
    <3>1. pump' = [pump EXCEPT ![q] = "done"] /\ (q = <<"broker", "up">> \/ q = <<"broker", "down">>)
      BY <1>6, NamedEnds DEF Tube!BrokerEnds
    <3>2. \A d \in Tube!Dirs : <<"proxy", d>> \in Tube!Pumps /\ <<"proxy", d>> # q
      BY <3>1 DEF Tube!Pumps
    <3>3. QED
      BY <3>1, <3>2 DEF TubeTyped
  <2>2. QED
    BY <1>6, <2>1, Closers DEF Tube!BrokerEnds, Closes
<1>7. ASSUME NEW who \in Tube!Parties, Tube!Abort(who) PROVE Closes({Tube!Mouth(who)})
  BY <1>7, Closers DEF Tube!Abort, Closes
<1>8. QED
  BY <1>1, <1>2, <1>3, <1>4, <1>5, <1>6, <1>7

\* An answer is read on, or is a refusal.
LEMMA ReadResponseOr ==
  ASSUME TubeTyped, Tube!ReadResponse
  PROVE  \/ Closes({<<"mid", "up">>})
         \/ /\ task = "response" /\ UNCHANGED <<route, host, pump, said, got, stop, fault, shut, deaf>>
            /\ task' \in {"response", "connected"}
            /\ HeldElse(<<"proxy", "down">>) /\ \A f \in Tube!Ends : f # <<"mid", "down">> => wire'[f] = wire[f]
<1>1. /\ task = "response" /\ UNCHANGED <<route, host, pump, said, got, stop, fault>>
      /\ \/ /\ task' = "connected" /\ UNCHANGED <<shut, deaf>> /\ HeldElse(<<"proxy", "down">>)
            /\ \A f \in Tube!Ends : f # <<"mid", "down">> => wire'[f] = wire[f]
         \/ /\ UNCHANGED <<task, held, shut, deaf>>
            /\ \A f \in Tube!Ends : f # <<"mid", "down">> => wire'[f] = wire[f]
         \/ task' = "rejected" /\ Tube!Close({<<"mid", "up">>}) /\ UNCHANGED held
  BY ReadResponseDoes DEF Leaves
<1>2. CASE task' = "rejected" /\ Tube!Close({<<"mid", "up">>}) /\ UNCHANGED held
  BY <1>1, <1>2, Closers DEF Closes
<1>3. CASE UNCHANGED <<task, held, shut, deaf>> /\ \A f \in Tube!Ends : f # <<"mid", "down">> => wire'[f] = wire[f]
  BY <1>1, <1>3 DEF HeldElse
<1>4. QED
  BY <1>1, <1>2, <1>3

\* A tunnel is established, or is over.
LEMMA EstablishOr ==
  ASSUME TubeTyped, Tube!Establish
  PROVE  \/ Closes(Tube!ProxyEnds)
         \/ /\ task = "connected" /\ UNCHANGED <<route, answer, host, held, said, got, stop, fault, shut, deaf>>
            /\ stop = "none" /\ Enters(<<"near", "down">>, <<"E">>) /\ task' = "relay"
            /\ pump'[<<"proxy", "up">>] = "copy" /\ pump'[<<"proxy", "down">>] = "copy"
            /\ pump'[<<"broker", "up">>] = pump[<<"broker", "up">>] /\ pump'[<<"broker", "down">>] = pump[<<"broker", "down">>]
<1>1. /\ task = "connected" /\ UNCHANGED <<route, answer, host, held, said, got, stop, fault>>
      /\ \/ /\ stop = "none" /\ Enters(<<"near", "down">>, <<"E">>) /\ task' = "relay"
            /\ UNCHANGED <<shut, deaf>>
            /\ pump'[<<"proxy", "up">>] = "copy" /\ pump'[<<"proxy", "down">>] = "copy"
            /\ pump'[<<"broker", "up">>] = pump[<<"broker", "up">>] /\ pump'[<<"broker", "down">>] = pump[<<"broker", "down">>]
         \/ task' = "over" /\ Tube!Close(Tube!ProxyEnds) /\ UNCHANGED pump
  BY EstablishDoes
<1>2. CASE task' = "over" /\ Tube!Close(Tube!ProxyEnds) /\ UNCHANGED pump
  BY <1>1, <1>2, Closers DEF Closes
<1>3. QED
  BY <1>1, <1>2

\* The chain from the client to the service, step by step.
LEMMA UpStep ==
  ASSUME TubeTyped, TubeTyped', Empty, Positions, Chain("up", Up), [Tube!Next]_Tube!vars
  PROVE  Chain("up", Up)'
<1>1. IsUp /\ IsUp'
  BY UpParts, PartsNext
<1>2. ASSUME shut \subseteq shut', deaf \subseteq deaf', SameUp PROVE Chain("up", Up)'
  BY <1>1, <1>2, UpStill
<1>3. ASSUME NEW E, Closes(E) PROVE Chain("up", Up)'
  BY <1>3, UpCloses
<1>4. CASE Tube!ReadHead
  BY <1>4, UpReadHead
<1>5. CASE Tube!Dial
  BY <1>5, UpDial
<1>6. CASE Tube!ReadResponse
  <2>1. CASE /\ task = "response" /\ UNCHANGED <<route, host, pump, said, got, stop, fault, shut, deaf>>
             /\ task' \in {"response", "connected"}
             /\ HeldElse(<<"proxy", "down">>) /\ \A f \in Tube!Ends : f # <<"mid", "down">> => wire'[f] = wire[f]
    <3>1. SameUp
      BY <2>1, NamedEnds DEF SameUp, HeldElse
    <3>2. QED
      BY <1>2, <2>1, <3>1
  <2>2. QED
    BY <1>3, <1>6, <2>1, ReadResponseOr
<1>7. CASE Tube!Establish
  <2>1. CASE /\ task = "connected" /\ UNCHANGED <<route, answer, host, held, said, got, stop, fault, shut, deaf>>
             /\ Enters(<<"near", "down">>, <<"E">>) /\ task' = "relay"
    <3>1. SameUp
      BY <2>1, NamedEnds DEF SameUp, Enters
    <3>2. QED
      BY <1>2, <2>1, <3>1
  <2>2. QED
    BY <1>3, <1>7, <2>1, EstablishOr
<1>8. CASE Tube!Serve
  BY <1>8, UpServe
<1>9. CASE Tube!NoResponse \/ Tube!GiveUp \/ Tube!PeerClosed \/ Tube!ServeNobody \/ (task = "relay" /\ Tube!RelayOver)
  BY <1>3, <1>9, Closings
<1>10. ASSUME NEW q \in Tube!Pumps, Tube!Loop(q) PROVE Chain("up", Up)'
  <2>1. CASE Tube!CopyRead(q)
    BY <2>1, UpCopyRead
  <2>2. CASE Tube!CopyWrite(q)
    BY <2>2, UpCopyWrite
  <2>3. CASE Tube!ProxyEof(q)
    <3>1. /\ UNCHANGED <<route, task, answer, host, held, said, got, stop, fault, wire, deaf>>
          /\ shut \subseteq shut'
      BY <2>3 DEF Tube!ProxyEof, Tube!HalfClose
    <3>2. SameUp
      BY <3>1 DEF SameUp
    <3>3. QED
      BY <1>2, <3>1, <3>2
  <2>4. CASE Tube!ProxyFails(q)
    BY <1>9, <2>4 DEF Tube!ProxyFails, Tube!Copying
  <2>5. CASE Tube!BrokerEnds(q)
    BY <1>3, <2>5, Closings
  <2>6. QED
    BY <1>10, <2>1, <2>2, <2>3, <2>4, <2>5 DEF Tube!Loop
<1>11. ASSUME NEW who \in Tube!Parties, Tube!Party(who) \/ Tube!Hear(who) \/ Tube!Abort(who) PROVE Chain("up", Up)'
  <2>1. CASE Tube!Say(who)
    BY <2>1, UpSay
  <2>2. CASE Tube!Hear(who)
    BY <2>2, UpHear
  <2>3. CASE Tube!Finish(who)
    <3>1. SameUp
      BY <2>3 DEF SameUp, Tube!Finish
    <3>2. QED
      BY <1>2, <2>3, <3>1 DEF Tube!Finish
  <2>4. CASE Tube!Abort(who)
    BY <1>3, <2>4, Closings
  <2>5. QED
    BY <1>11, <2>1, <2>2, <2>3, <2>4 DEF Tube!Party
<1>12. CASE Tube!Signal \/ UNCHANGED Tube!vars
  <2>1. SameUp /\ shut \subseteq shut' /\ deaf \subseteq deaf'
    BY <1>12 DEF SameUp, Tube!Signal, Tube!vars
  <2>2. QED
    BY <1>2, <2>1
<1>13. QED
  BY <1>4, <1>5, <1>6, <1>7, <1>8, <1>9, <1>10, <1>11, <1>12
     DEF Tube!Next, Tube!Proxy, Tube!Worker, Tube!Outside, Tube!ProxyForced, Tube!ProxyDone

-----------------------------------------------------------------------------
(* From the service to the client.                                         *)

\* The tokens of a part.
LEMMA PartElems ==
  ASSUME NEW s \in Seq(Tokens), NEW u \in Nat, NEW n \in Nat, u <= n, n <= Len(s)
  PROVE  /\ SubSeq(s, u + 1, n) \in Seq(Tokens) /\ Len(SubSeq(s, u + 1, n)) = n - u
         /\ \A i \in 1..n - u : SubSeq(s, u + 1, n)[i] = s[u + i]
<1>1. Len(s) \in Nat
  BY LenProperties
<1> DEFINE b == u + 1
           q == SubSeq(s, b, n)
<1>2. b \in Int /\ b >= 1 /\ b <= n + 1 /\ n + 1 - b = n - u /\ b \in 1..Len(s) + 1 /\ n \in b - 1..Len(s)
  BY <1>1
<1>3. q \in Seq(Tokens) /\ Len(q) = n + 1 - b
  BY <1>2, PartIsSeq
<1>4. \A i \in b..n : s[i] \in Tokens
  <2>1. \A i \in 1..Len(s) : s[i] \in Tokens
    BY ElementOfSeq
  <2>2. QED
    BY <1>1, <1>2, <2>1
<1> HIDE DEF b
<1>5. \A i \in 1..n - b + 1 : q[i] = s[b + i - 1]
  BY ONLY <1>2, <1>4, SubSeqProperties, n \in Nat
<1> HIDE DEF q
<1>6. ASSUME NEW i \in 1..n - u PROVE q[i] = s[u + i]
  <2>1. i \in 1..n - b + 1 /\ b + i - 1 = u + i
    BY DEF b
  <2>2. QED
    BY <1>5, <2>1
<1>7. QED
  BY <1>2, <1>3, <1>6 DEF q, b

\* What was read beyond the newline is of the tunnel.
LEMMA Overshoot ==
  ASSUME NEW s \in Seq(Tokens), NEW t \in Seq(Tokens), NEW n \in Nat, n <= Len(s), NEW m \in Nat, m <= n,
         Len(t) + m = 3, NEW a, a = t \o SubSeq(s, 1, n)
  PROVE  SubSeq(a, 4, Len(a)) = SubSeq(s, m + 1, n)
<1> DEFINE p == SubSeq(a, 3 + 1, Len(a))
           r == SubSeq(s, m + 1, n)
           c == Len(a)
<1>1. Len(t) \in Nat /\ Len(s) \in Nat
  BY LenProperties
<1>2. /\ a \in Seq(Tokens) /\ c = Len(t) + n
      /\ \A i \in 1..n : a[Len(t) + i] = s[i]
  BY AppendedPart
<1>3. r \in Seq(Tokens) /\ Len(r) = n - m /\ \A i \in 1..n - m : r[i] = s[m + i]
  BY PartElems
<1>4. p \in Seq(Tokens) /\ Len(p) = c - 3 /\ \A i \in 1..c - 3 : p[i] = a[3 + i]
  <2>1. c \in Nat /\ 3 <= c /\ c <= Len(a) /\ 3 \in Nat
    BY <1>1, <1>2
  <2>2. QED
    BY ONLY <1>2, <2>1, PartElems
<1>5. c - 3 = n - m
  BY <1>1, <1>2
<1> HIDE DEF p, r, c
<1>6. ASSUME NEW i \in 1..n - m PROVE p[i] = r[i]
  <2>1. m + i \in 1..n /\ Len(t) + (m + i) = 3 + i /\ i \in 1..c - 3
    BY <1>1, <1>5
  <2>2. p[i] = a[3 + i] /\ a[Len(t) + (m + i)] = s[m + i] /\ r[i] = s[m + i]
    BY <1>2, <1>3, <1>4, <2>1
  <2>3. QED
    BY <2>1, <2>2
<1>7. p = r
  BY <1>3, <1>4, <1>5, <1>6, SeqEqual
<1>8. 3 + 1 = 4
  OBVIOUS
<1>9. QED
  BY <1>7, <1>8 DEF p, r, c

\* The places of this chain.
LEMMA DownPlaces ==
  ASSUME IsDown, Chain("down", Down)
  PROVE  /\ Clear(Down, 2) => At(Down, 2) >= 0
         /\ Clear(Down, 4) => At(Down, 4) >= 0
         /\ At(Down, 3) = At(Down, 2) + Size(Down, 2) + Gap(Down, 3)
         /\ At(Down, 5) = At(Down, 4) + Size(Down, 4)
         /\ At(Down, 1) = Size(Down, 0) - 1
         /\ At(Down, 2) = Size(Down, 0) + Size(Down, 1) + Gap(Down, 2) - 1
         /\ Size(Down, 0) \in Nat /\ Size(Down, 1) \in Nat /\ Size(Down, 2) \in Nat /\ Size(Down, 3) \in Nat /\ Size(Down, 4) \in Nat /\ Size(Down, 5) \in Nat
         /\ At(Down, 2) \in Int /\ At(Down, 3) \in Int /\ At(Down, 4) \in Int /\ At(Down, 5) \in Int
         /\ Gap(Down, 2) \in Int /\ Gap(Down, 3) \in Int /\ Gap(Down, 4) \in Int
<1>1. Link(Down) /\ Gap(Down, 0) = -1 /\ Gap(Down, 1) = 0 /\ Gap(Down, 5) = 0
  BY DEF IsDown
<1>2. (Clear(Down, 2) => Good("down", Down, 2)) /\ (Clear(Down, 4) => Good("down", Down, 4))
  BY Stages DEF Chain
<1>3. (Good("down", Down, 2) => At(Down, 2) >= 0) /\ (Good("down", Down, 4) => At(Down, 4) >= 0)
  BY DEF Good
<1>4. QED
  BY <1>1, <1>2, <1>3, Grounds

\* The middle of the direction is as it was.
LEMMA MiddleStays ==
  ASSUME UNCHANGED <<answer, host>>, wire'[<<"mid", "down">>] = wire[<<"mid", "down">>], Asking' <=> Asking, NoMiddle' <=> NoMiddle
  PROVE  Middle' = Middle /\ Gap3' = Gap3 /\ Gap4' = Gap4
<1>1. Middle' = Middle
  BY DEF Middle
<1>2. Gap3' = Gap3
  BY DEF Gap3
<1>3. Gap4' = Gap4
  BY DEF Gap4
<1>4. QED
  BY <1>1, <1>2, <1>3

\* The middle link, unless nobody reads it any more.
LEMMA MiddleIs ==
  ASSUME UNCHANGED <<route, task, host>>
  PROVE  (Asking' <=> Asking) /\ (NoMiddle' <=> NoMiddle)
BY DEF Asking, NoMiddle

\* The head is of the other direction.
LEMMA DownReadHead ==
  ASSUME TubeTyped, TubeTyped', Empty, Positions, Chain("down", Down), Tube!ReadHead
  PROVE  Chain("down", Down)' /\ At(Down, 6)' = At(Down, 6)
<1>1. IsDown /\ IsDown'
  BY DownParts, PartsNext
<1>2. /\ HeldElse(<<"proxy", "up">>) /\ task = "head" /\ task' = "dial"
      /\ UNCHANGED <<route, shut, deaf, answer, host, pump, said, got, stop, fault>>
      /\ \A f \in Tube!Ends : f # <<"near", "up">> => wire'[f] = wire[f]
  BY ReadHeadDoes DEF Leaves
<1>3. (Asking' <=> Asking) /\ (NoMiddle' <=> NoMiddle)
  BY <1>2 DEF Asking, NoMiddle
<1>4. Middle' = Middle /\ Gap3' = Gap3 /\ Gap4' = Gap4
  BY <1>2, <1>3, MiddleStays, NamedEnds
<1>5. SameDown
  BY <1>2, <1>4, NamedEnds DEF SameDown, HeldElse
<1>6. QED
  BY <1>1, <1>2, <1>5, DownStill

\* A dial begins the wait for the answer.
LEMMA DownDial ==
  ASSUME TubeTyped, TubeTyped', Empty, Positions, Chain("down", Down), Tube!Dial
  PROVE  Chain("down", Down)' /\ At(Down, 6)' = At(Down, 6)
<1>1. IsDown /\ IsDown'
  BY DownParts, PartsNext
<1>2. /\ task = "dial" /\ UNCHANGED <<route, shut, deaf, answer, pump, held, said, got, stop, fault>>
      /\ \/ route = "public" /\ task' = "connected" /\ UNCHANGED <<wire, host>>
         \/ route # "public" /\ task' = "response" /\ host' = "frame" /\ Enters(<<"mid", "up">>, <<"F">>)
  BY DialDoes
<1>3. host = "none"
  BY <1>2 DEF Positions
<1>4. /\ (Asking' <=> Asking) /\ (NoMiddle' <=> NoMiddle) /\ (host' = "relay" <=> host = "relay")
      /\ \A f \in Tube!Ends : f # <<"mid", "up">> => wire'[f] = wire[f]
  BY <1>2, <1>3 DEF Asking, NoMiddle, Enters
<1>5. Middle' = Middle
  BY <1>4, NamedEnds DEF Middle
<1>6. Gap3' = Gap3 /\ Gap4' = Gap4
  BY <1>2, <1>4 DEF Gap3, Gap4
<1>7. SameDown
  BY <1>2, <1>4, <1>5, <1>6, NamedEnds DEF SameDown
<1>8. QED
  BY <1>1, <1>2, <1>7, DownStill

\* The answer is read: its letters leave the chain, the rest goes to the loop.
LEMMA DownReadResponse ==
  ASSUME TubeTyped, TubeTyped', Empty, Positions, Reply, Chain("down", Down), Tube!ReadResponse, task' # "rejected"
  PROVE  Chain("down", Down)'
<1>1. IsDown /\ IsDown' /\ Link(Down)
  BY DownParts, PartsNext DEF IsDown
<1> DEFINE w == wire[<<"mid", "down">>]
           l == Len(answer)
<1>2. /\ task = "response" /\ UNCHANGED <<route, host, pump, said, got, stop, fault>>
      /\ \E n \in 1..4 :
           /\ n <= 4 - l /\ n <= Len(w)
           /\ answer' = answer \o SubSeq(w, 1, n) /\ Leaves(<<"mid", "down">>, n) /\ UNCHANGED <<shut, deaf>>
           /\ \/ /\ Tube!Accepted(answer') /\ task' = "connected" /\ HeldElse(<<"proxy", "down">>)
                 /\ held'[<<"proxy", "down">>] = SubSeq(answer', 4, Len(answer'))
              \/ Tube!ReadsOn(answer') /\ UNCHANGED <<task, held>>
  BY ReadResponseDoes
<1>3. PICK n \in 1..4 :
           /\ n <= 4 - l /\ n <= Len(w)
           /\ answer' = answer \o SubSeq(w, 1, n) /\ Leaves(<<"mid", "down">>, n) /\ UNCHANGED <<shut, deaf>>
           /\ \/ /\ Tube!Accepted(answer') /\ task' = "connected" /\ HeldElse(<<"proxy", "down">>)
                 /\ held'[<<"proxy", "down">>] = SubSeq(answer', 4, Len(answer'))
              \/ Tube!ReadsOn(answer') /\ UNCHANGED <<task, held>>
  BY <1>2
<1>4. host = "relay" /\ route = "local"
  <2>1. host \in {"relay", "refused"} /\ (host = "refused" => task' = "rejected")
    BY BrokerAnswers
  <2>2. route = "local"
    BY <1>2, Sizes DEF Positions, TubeTyped
  <2>3. QED
    BY <2>1, <2>2
<1>5. /\ w \in Seq(Tokens) /\ answer \in Seq(Tokens) /\ l \in Nat /\ Len(w) \in Nat /\ n \in Nat /\ l < 3
  <2>1. w \in Seq(Tokens) /\ answer \in Seq(Tokens)
    BY NamedEnds DEF TubeTyped
  <2>2. l < 3
    BY <1>2 DEF Reply
  <2>3. QED
    BY <2>1, <2>2, LenProperties
<1>6. Len(answer') = l + n
  BY <1>3, <1>5, AppendedPart
<1>7. Asking /\ ~NoMiddle /\ ~NoMiddle' /\ (Asking' <=> task' = "response") /\ task' \in {"response", "connected"}
  BY <1>2, <1>3, <1>4 DEF Asking, NoMiddle
<1>8. pump[<<"proxy", "down">>] = "off" /\ held[<<"proxy", "down">>] = <<>>
  BY <1>2 DEF Positions, Empty, ProxyOff
<1>9. \A i \in 0..6 : Clear(Down', i) => Clear(Down, i)
  BY <1>1, <1>3, NarrowDown
<1>10. /\ wire'[<<"mid", "down">>] = SubSeq(w, n + 1, Len(w))
       /\ wire'[<<"near", "down">>] = wire[<<"near", "down">>] /\ wire'[<<"far", "down">>] = wire[<<"far", "down">>]
  BY <1>3, NamedEnds DEF Leaves
<1>11. held'[<<"broker", "down">>] = held[<<"broker", "down">>]
  BY <1>3, NamedEnds DEF HeldElse
<1>12. /\ Stage(Down, 3) = w /\ Stage(Down', 3) = SubSeq(Stage(Down, 3), n + 1, Size(Down, 3)) /\ Size(Down, 3) = Len(w)
       /\ Stage(Down', 0) = Stage(Down, 0) /\ Stage(Down', 1) = Stage(Down, 1) /\ Stage(Down', 4) = Stage(Down, 4) /\ Stage(Down', 5) = Stage(Down, 5)
       /\ Stage(Down, 2) = held[<<"proxy", "down">>] /\ Stage(Down', 2) = held'[<<"proxy", "down">>]
  <2>1. Stage(Down, 3) = w /\ Stage(Down', 3) = wire'[<<"mid", "down">>]
    BY <1>1, <1>7 DEF IsDown
  <2>2. Size(Down, 3) = Len(w)
    BY <2>1 DEF Size
  <2>3. /\ Stage(Down', 0) = Stage(Down, 0) /\ Stage(Down', 1) = Stage(Down, 1) /\ Stage(Down', 4) = Stage(Down, 4) /\ Stage(Down', 5) = Stage(Down, 5)
        /\ Stage(Down, 2) = held[<<"proxy", "down">>] /\ Stage(Down', 2) = held'[<<"proxy", "down">>]
    BY <1>1, <1>2, <1>10, <1>11 DEF IsDown
  <2>4. QED
    BY <1>10, <2>1, <2>2, <2>3
<1>13. /\ Gap(Down', 0) = Gap(Down, 0) /\ Gap(Down', 1) = Gap(Down, 1) /\ Gap(Down', 2) = Gap(Down, 2) /\ Gap(Down', 5) = Gap(Down, 5)
       /\ Gap(Down, 4) = 0 /\ Gap(Down', 4) = 0 /\ Gap(Down, 2) = 1 /\ Sent(Down') = Sent(Down) /\ Gap(Down, 3) = l - 3
  BY <1>1, <1>2, <1>4, <1>7, <1>8 DEF IsDown
<1>14. 3 \in 1..5 /\ 2 = 3 - 1 /\ Stage(Down, 2) \in Seq(Tokens) /\ n + 1 \in Int
  BY <1>1, <1>5, Stages DEF Link
<1>15. CASE task' = "connected"
  <2> DEFINE m == 3 - l
             p == n - m
             a == answer'
  <2>2. Tube!Accepted(a) /\ held'[<<"proxy", "down">>] = SubSeq(a, 4, Len(a))
    BY <1>2, <1>3, <1>15
  <2>3. Len(a) >= 3
    <3>1. Len(a) >= Len(<<"O", "K", "N">>) /\ Len(a) \in Nat
      <4>1. a \in Seq(Tokens) /\ <<"O", "K", "N">> \in Seq(Tokens)
        BY Glyphs DEF TubeTyped
      <4>2. QED
        BY <2>2, <4>1, PrefixIs, LenProperties DEF Tube!Accepted
    <3>2. QED
      BY <3>1
  <2>4. m \in Nat /\ p \in Nat /\ m <= n /\ l + m = 3 /\ n = m + p /\ n + 1 = m + p + 1 /\ m + p <= Size(Down, 3)
    BY <1>3, <1>5, <1>6, <1>12, <2>3
  <2>5. held'[<<"proxy", "down">>] = SubSeq(w, m + 1, n)
    <3>1. Len(answer) + m = 3 /\ a = answer \o SubSeq(w, 1, n) /\ n <= Len(w) /\ m <= n /\ m \in Nat
      BY <1>3, <2>4
    <3> HIDE DEF w, m, a
    <3>2. SubSeq(a, 4, Len(a)) = SubSeq(w, m + 1, n)
      BY ONLY <1>5, <3>1, Overshoot
    <3>3. QED
      BY <2>2, <3>2 DEF a
  <2>6. Stage(Down', 2) = Stage(Down, 2) \o SubSeq(Stage(Down, 3), m + 1, n)
    <3>1. SubSeq(w, m + 1, n) \in Seq(Tokens)
      BY <1>3, <1>5, <2>4, PartElems
    <3>2. QED
      BY <1>8, <1>12, <2>5, <3>1, ConcatEmptySeq
  <2>7. Gap(Down', 3) = 0
    BY <1>1, <1>7, <1>15 DEF IsDown
  <2>8. Gap(Down', 3) = Gap(Down, 3) + m /\ Gap(Down, 3) + m = 0
    BY <1>5, <1>13, <2>7
  <2>9. At(Down, 3) + m >= 0
    <3>1. /\ At(Down, 3) = At(Down, 2) + Size(Down, 2) + Gap(Down, 3) /\ At(Down, 2) = Size(Down, 0) + Size(Down, 1) + Gap(Down, 2) - 1
          /\ Size(Down, 0) \in Nat /\ Size(Down, 1) \in Nat /\ Size(Down, 2) \in Nat
      BY <1>1, DownPlaces
    <3>2. Gap(Down, 2) = 1 /\ Gap(Down, 3) \in Int /\ m \in Nat /\ Gap(Down, 3) + m = 0
      BY <1>1, <1>13, <2>4, <2>8, DownPlaces
    <3> HIDE DEF m
    <3>3. QED
      BY ONLY <3>1, <3>2
  <2>10. Clear(Down', 2) => Clear(Down, 3)
    BY <1>9 DEF Clear
  <2>11. m + 1 = m + 1
    OBVIOUS
  <2> HIDE DEF m, p
  <2>12. Pulls(Down, Down', 3, 2, m, p, m + 1, n, n + 1)
    BY <1>9, <1>12, <1>13, <1>14, <2>4, <2>6, <2>8, <2>9, <2>10 DEF Pulls
  <2>13. QED
    BY <1>1, <2>12, Pulled
<1>16. CASE task' = "response"
  <2> DEFINE p == 0
  <2>1. UNCHANGED held
    BY <1>3, <1>16
  <2>2. Stage(Down', 2) = Stage(Down, 2) \o SubSeq(Stage(Down, 3), n + 1, n)
    <3>1. Stage(Down, 2) \o SubSeq(Stage(Down, 3), n + 1, n) = Stage(Down, 2)
      BY <1>5, <1>12, <1>14, NothingMore
    <3>2. QED
      BY <1>12, <2>1, <3>1
  <2>3. Gap(Down', 3) = Len(answer') - 3
    BY <1>1, <1>7, <1>16 DEF IsDown
  <2>4. Gap(Down', 3) = Gap(Down, 3) + n
    BY <1>5, <1>6, <1>13, <2>3
  <2>5. p \in Nat /\ ~(p > 0) /\ n = n + p /\ n + 1 = n + p + 1 /\ n + p <= Size(Down, 3)
    BY <1>3, <1>5, <1>12
  <2> HIDE DEF p
  <2>6. Pulls(Down, Down', 3, 2, n, p, n + 1, n, n + 1)
    BY <1>5, <1>9, <1>12, <1>13, <1>14, <2>2, <2>4, <2>5 DEF Pulls
  <2>7. QED
    BY <1>1, <2>6, Pulled
<1>17. QED
  BY <1>7, <1>15, <1>16

\* The head of the success comes before the bytes of the service.
LEMMA DownEstablish ==
  ASSUME TubeTyped, TubeTyped', Empty, Positions, Chain("down", Down),
         task = "connected", UNCHANGED <<route, answer, host, held, said, got, stop, fault, shut, deaf>>,
         Enters(<<"near", "down">>, <<"E">>), task' = "relay", pump'[<<"proxy", "down">>] = "copy"
  PROVE  Chain("down", Down)' /\ At(Down, 6)' = At(Down, 6)
<1>1. IsDown /\ IsDown' /\ Link(Down) /\ Link(Down')
  BY DownParts, PartsNext DEF IsDown
<1>2. ProxyOff /\ pump[<<"proxy", "down">>] = "off" /\ got["client"] = <<>> /\ wire[<<"near", "down">>] = <<>>
  BY DEF Positions, Empty
<1>3. wire'[<<"near", "down">>] = <<"E">>
  BY <1>2, Glyphs, ConcatEmptySeq, NamedEnds DEF Enters
<1>4. (~Asking /\ ~Asking') /\ (NoMiddle' <=> NoMiddle)
  BY DEF Asking, NoMiddle
<1>5. wire'[<<"mid", "down">>] = wire[<<"mid", "down">>] /\ wire'[<<"far", "down">>] = wire[<<"far", "down">>]
  BY NamedEnds DEF Enters
<1>6. /\ Stage(Down', 0) = Stage(Down, 0) /\ Stage(Down', 2) = Stage(Down, 2) /\ Stage(Down', 3) = Stage(Down, 3) /\ Stage(Down', 4) = Stage(Down, 4)
      /\ Stage(Down', 5) = Stage(Down, 5) /\ Stage(Down, 1) = <<>> /\ Stage(Down', 1) = <<"E">> /\ Stage(Down, 0) = <<>>
  BY <1>1, <1>2, <1>3, <1>4, <1>5 DEF IsDown
<1>7. /\ Gap(Down', 0) = -1 /\ Gap(Down, 0) = -1 /\ Gap(Down', 1) = 0 /\ Gap(Down, 1) = 0 /\ Gap(Down, 2) = 1 /\ Gap(Down', 2) = 0
      /\ Gap(Down', 3) = 0 /\ Gap(Down, 3) = 0 /\ Gap(Down', 4) = 0 /\ Gap(Down, 4) = 0 /\ Gap(Down', 5) = 0 /\ Gap(Down, 5) = 0
  BY <1>1, <1>2, <1>4 DEF IsDown
<1>8. Sent(Down') = Sent(Down) /\ Sent(Down) >= 0
  <2>1. Sent(Down') = Sent(Down)
    BY <1>1 DEF IsDown
  <2>2. Sent(Down) \in Nat
    BY <1>1 DEF Link
  <2>3. QED
    BY <2>1, <2>2
<1>9. \A i \in 0..6 : Clear(Down', i) => Clear(Down, i)
  BY <1>1, NarrowDown
<1>10. Size(Down, 1) = 0 /\ Size(Down', 1) = 1 /\ Size(Down', 0) = 0
  BY <1>6 DEF Size
<1>11. At(Down', 1) = -1
  BY <1>1, <1>7, <1>10, Grounds
<1>12. Good("down", Down', 1)
  <2>1. Runs("down", 1, <<"E">>, -1)
    BY DEF Runs, Token
  <2>2. QED
    BY <1>6, <1>8, <1>10, <1>11, <2>1 DEF Good
<1>13. Gap(Down', 1) + Size(Down', 1) + Gap(Down', 1 + 1) = Gap(Down, 1) + Size(Down, 1) + Gap(Down, 1 + 1)
  <2>1. 1 + 1 = 2
    OBVIOUS
  <2>2. QED
    BY <1>7, <1>10, <2>1
<1>14. \A i \in 0..5 : (i # 1 => Stage(Down', i) = Stage(Down, i)) /\ (i # 1 /\ i # 1 + 1 => Gap(Down', i) = Gap(Down, i))
  BY <1>6, <1>7, Stages
<1>15. QED
  BY <1>1, <1>8, <1>9, <1>12, <1>13, <1>14, Replaced

\* The broker answers, and its loops begin.
LEMMA DownServe ==
  ASSUME TubeTyped, TubeTyped', Empty, Positions, Reply, Chain("down", Down), Tube!Serve
  PROVE  Chain("down", Down)'
<1>1. IsDown /\ IsDown' /\ Link(Down) /\ Link(Down')
  BY DownParts, PartsNext DEF IsDown
<1>2. /\ host = "frame" /\ UNCHANGED <<route, task, answer, held, said, got, stop, fault>>
      /\ wire'[<<"near", "down">>] = wire[<<"near", "down">>] /\ wire'[<<"far", "down">>] = wire[<<"far", "down">>]
      /\ shut \subseteq shut' /\ deaf \subseteq deaf' /\ pump'[<<"proxy", "down">>] = pump[<<"proxy", "down">>]
      /\ \/ host' = "relay" /\ wire'[<<"mid", "down">>] = <<"O", "K", "N">>
         \/ host' = "refused"
  BY ServeDoes, NamedEnds
<1>3. route = "local" /\ wire[<<"mid", "down">>] = <<>> /\ Middle = <<>> /\ (Asking' <=> Asking)
  <2>1. route = "local"
    BY <1>2, Sizes DEF Positions, TubeTyped
  <2>2. wire[<<"mid", "down">>] = <<>>
    BY <1>2, <2>1 DEF Empty
  <2>3. QED
    BY <1>2, <2>1, <2>2 DEF Middle, Asking
<1>4. CASE host' = "refused"
  <2>1. Middle' = <<>>
    BY <1>4 DEF Middle, NoMiddle
  <2>2. Gap3' = Gap3 /\ Gap4' = Gap4
    BY <1>2, <1>3, <1>4 DEF Gap3, Gap4
  <2>3. SameDown
    BY <1>2, <1>3, <2>1, <2>2 DEF SameDown
  <2>4. QED
    BY <1>1, <1>2, <2>3, DownStill
<1>5. CASE host' = "relay" /\ wire'[<<"mid", "down">>] = <<"O", "K", "N">> /\ task # "response"
  <2>1. task \in {"failed", "left"}
    BY <1>2, <1>3, <1>5 DEF TubeTyped, Positions, Reply
  <2>2. Middle' = <<>> /\ ~Asking
    BY <1>2, <2>1 DEF Middle, NoMiddle, Asking
  <2>3. Gap3' = Gap3 /\ Gap4' = Gap4
    BY <1>3, <2>2 DEF Gap3, Gap4
  <2>4. SameDown
    BY <1>2, <1>3, <2>2, <2>3 DEF SameDown
  <2>5. QED
    BY <1>1, <1>2, <2>4, DownStill
<1>6. CASE host' = "relay" /\ wire'[<<"mid", "down">>] = <<"O", "K", "N">> /\ task = "response"
  <2>1. Asking /\ Asking' /\ ~NoMiddle'
    BY <1>2, <1>3, <1>6 DEF Asking, NoMiddle
  <2>2. answer = <<>> /\ Len(answer) = 0
    BY <1>2, <1>6 DEF Reply
  <2>3. /\ pump[<<"proxy", "down">>] = "off" /\ got["client"] = <<>> /\ wire[<<"near", "down">>] = <<>>
        /\ held[<<"proxy", "down">>] = <<>>
    BY <1>6 DEF Positions, Empty, ProxyOff
  <2>4. /\ Stage(Down', 0) = Stage(Down, 0) /\ Stage(Down', 1) = Stage(Down, 1) /\ Stage(Down', 2) = Stage(Down, 2) /\ Stage(Down', 4) = Stage(Down, 4)
        /\ Stage(Down', 5) = Stage(Down, 5) /\ Stage(Down, 3) = <<>> /\ Stage(Down', 3) = <<"O", "K", "N">>
        /\ Stage(Down', 0) = <<>> /\ Stage(Down', 1) = <<>> /\ Stage(Down', 2) = <<>>
    <3>1. Stage(Down, 3) = Middle /\ Stage(Down', 3) = <<"O", "K", "N">>
      BY <1>1, <1>6, <2>1 DEF IsDown, Middle
    <3>2. /\ Stage(Down', 0) = Stage(Down, 0) /\ Stage(Down', 1) = Stage(Down, 1) /\ Stage(Down', 2) = Stage(Down, 2) /\ Stage(Down', 4) = Stage(Down, 4)
          /\ Stage(Down', 5) = Stage(Down, 5) /\ Stage(Down', 0) = <<>> /\ Stage(Down', 1) = <<>> /\ Stage(Down', 2) = <<>>
      BY <1>1, <1>2, <2>3 DEF IsDown
    <3>3. QED
      BY <1>3, <3>1, <3>2
  <2>5. /\ Gap(Down', 0) = -1 /\ Gap(Down, 0) = -1 /\ Gap(Down', 1) = 0 /\ Gap(Down, 1) = 0 /\ Gap(Down, 2) = 1 /\ Gap(Down', 2) = 1
        /\ Gap(Down', 3) = -3 /\ Gap(Down, 3) = -3 /\ Gap(Down', 4) = 0 /\ Gap(Down, 4) = 3 /\ Gap(Down', 5) = 0 /\ Gap(Down, 5) = 0
    <3>1. /\ Gap(Down', 0) = -1 /\ Gap(Down, 0) = -1 /\ Gap(Down', 1) = 0 /\ Gap(Down, 1) = 0 /\ Gap(Down, 2) = 1 /\ Gap(Down', 2) = 1
          /\ Gap(Down', 5) = 0 /\ Gap(Down, 5) = 0
      BY <1>1, <1>2, <2>3 DEF IsDown
    <3>2. Len(answer') = 0
      BY <1>2, <2>2
    <3>3. Gap(Down', 3) = 0 - 3 /\ Gap(Down, 3) = 0 - 3 /\ Gap(Down', 4) = 0 /\ Gap(Down, 4) = 3 - 0
      BY <1>1, <1>2, <1>6, <2>1, <2>2, <3>2 DEF IsDown
    <3>4. QED
      BY <3>1, <3>3
  <2>6. Sent(Down') = Sent(Down) /\ Sent(Down) >= 0
    <3>1. Sent(Down') = Sent(Down)
      BY <1>1, <1>2 DEF IsDown
    <3>2. Sent(Down) \in Nat
      BY <1>1 DEF Link
    <3>3. QED
      BY <3>1, <3>2
  <2>7. \A i \in 0..6 : Clear(Down', i) => Clear(Down, i)
    BY <1>1, <1>2, NarrowDown
  <2>8. Size(Down, 3) = 0 /\ Size(Down', 3) = 3 /\ Size(Down', 0) = 0 /\ Size(Down', 1) = 0 /\ Size(Down', 2) = 0
    BY <2>4, Glyphs DEF Size
  <2>9. At(Down', 3) = -3
    BY <1>1, <2>5, <2>8, Grounds
  <2>10. Good("down", Down', 3)
    <3>1. Runs("down", 3, <<"O", "K", "N">>, -3)
      <4>1. \A i \in 1..3 : <<"O", "K", "N">>[i] = Token("down", 3, -3 + i)
        BY DEF Token
      <4>2. QED
        BY <4>1, Glyphs DEF Runs
    <3>2. QED
      BY <2>4, <2>6, <2>8, <2>9, <3>1 DEF Good
  <2>11. Gap(Down', 3) + Size(Down', 3) + Gap(Down', 3 + 1) = Gap(Down, 3) + Size(Down, 3) + Gap(Down, 3 + 1)
    <3>1. 3 + 1 = 4
      OBVIOUS
    <3>2. QED
      BY <2>5, <2>8, <3>1
  <2>12. \A i \in 0..5 : (i # 3 => Stage(Down', i) = Stage(Down, i)) /\ (i # 3 /\ i # 3 + 1 => Gap(Down', i) = Gap(Down, i))
    BY <2>4, <2>5, Stages
  <2>13. QED
    BY <1>1, <2>6, <2>7, <2>10, <2>11, <2>12, Replaced
<1>7. QED
  BY <1>2, <1>4, <1>5, <1>6

\* An attempt given up before anything was asked.
LEMMA DownGiveUp ==
  ASSUME TubeTyped, TubeTyped', Empty, Positions, Chain("down", Down), task = "dial", task' = "failed",
         UNCHANGED <<route, answer, host, pump, held, said, got, stop, wire>>, shut \subseteq shut', deaf \subseteq deaf'
  PROVE  Chain("down", Down)'
<1>1. IsDown /\ IsDown' /\ Link(Down) /\ Link(Down')
  BY DownParts, PartsNext DEF IsDown
<1>2. host = "none" /\ ProxyOff /\ pump[<<"proxy", "down">>] = "off" /\ route \in {"local", "public"}
  BY Sizes DEF Positions, ProxyOff, TubeTyped
<1>3. /\ got["client"] = <<>> /\ wire[<<"near", "down">>] = <<>> /\ held[<<"proxy", "down">>] = <<>>
      /\ wire[<<"mid", "down">>] = <<>>
  BY <1>2 DEF Empty
<1>4. ~NoMiddle /\ NoMiddle' /\ ~Asking' /\ (Asking <=> route = "local")
  BY <1>2 DEF NoMiddle, Asking
<1>5. /\ Stage(Down', 0) = Stage(Down, 0) /\ Stage(Down', 1) = Stage(Down, 1) /\ Stage(Down', 2) = Stage(Down, 2) /\ Stage(Down', 4) = Stage(Down, 4)
      /\ Stage(Down', 5) = Stage(Down, 5) /\ Stage(Down, 3) = <<>> /\ Stage(Down', 3) = <<>>
      /\ Stage(Down', 0) = <<>> /\ Stage(Down', 1) = <<>> /\ Stage(Down', 2) = <<>>
  BY <1>1, <1>3, <1>4 DEF IsDown
<1>6. /\ Gap(Down', 0) = -1 /\ Gap(Down, 0) = -1 /\ Gap(Down', 1) = 0 /\ Gap(Down, 1) = 0 /\ Gap(Down, 2) = 1 /\ Gap(Down', 2) = 1
      /\ Gap(Down', 5) = 0 /\ Gap(Down, 5) = 0 /\ Gap(Down', 3) = 0 /\ Gap(Down', 4) = 0
  BY <1>1, <1>2, <1>4 DEF IsDown
<1>7. Gap(Down, 3) + Gap(Down, 4) = 0 /\ Gap(Down, 3) \in Int /\ Gap(Down, 4) \in Int
  <2>1. Len(answer) \in Nat
    BY LenProperties DEF TubeTyped
  <2>2. CASE Asking
    <3>1. Gap(Down, 3) = Len(answer) - 3 /\ Gap(Down, 4) = 3 - Len(answer)
      BY <1>1, <1>2, <2>2 DEF IsDown
    <3>2. QED
      BY <2>1, <3>1
  <2>3. CASE ~Asking
    <3>1. Gap(Down, 3) = 0 /\ Gap(Down, 4) = 0
      BY <1>1, <1>2, <2>3 DEF IsDown
    <3>2. QED
      BY <3>1
  <2>4. QED
    BY <2>2, <2>3
<1>8. Sent(Down') = Sent(Down) /\ Sent(Down) >= 0
  <2>1. Sent(Down') = Sent(Down)
    BY <1>1 DEF IsDown
  <2>2. Sent(Down) \in Nat
    BY <1>1 DEF Link
  <2>3. QED
    BY <2>1, <2>2
<1>9. \A i \in 0..6 : Clear(Down', i) => Clear(Down, i)
  BY <1>1, NarrowDown
<1>10. Size(Down, 3) = 0 /\ Size(Down', 3) = 0 /\ Size(Down', 0) = 0 /\ Size(Down', 1) = 0 /\ Size(Down', 2) = 0
  BY <1>5 DEF Size
<1>11. At(Down', 3) = 0
  BY <1>1, <1>6, <1>10, Grounds
<1>12. Good("down", Down', 3)
  <2>1. Runs("down", 3, <<>>, 0)
    BY EmptyRuns
  <2>2. QED
    BY <1>5, <1>8, <1>10, <1>11, <2>1 DEF Good
<1>13. Gap(Down', 3) + Size(Down', 3) + Gap(Down', 3 + 1) = Gap(Down, 3) + Size(Down, 3) + Gap(Down, 3 + 1)
  <2>1. 3 + 1 = 4
    OBVIOUS
  <2>2. QED
    BY <1>6, <1>7, <1>10, <2>1
<1>14. \A i \in 0..5 : (i # 3 => Stage(Down', i) = Stage(Down, i)) /\ (i # 3 /\ i # 3 + 1 => Gap(Down', i) = Gap(Down, i))
  BY <1>5, <1>6, Stages
<1>15. QED
  BY <1>1, <1>8, <1>9, <1>12, <1>13, <1>14, Replaced

\* A loop of this direction reads.
LEMMA DownCopyRead ==
  ASSUME TubeTyped, TubeTyped', Empty, Positions, Chain("down", Down), NEW q \in Tube!Pumps, Tube!CopyRead(q)
  PROVE  Chain("down", Down)' /\ At(Down, 6)' = At(Down, 6)
<1>1. IsDown /\ IsDown' /\ Link(Down)
  BY DownParts, PartsNext DEF IsDown
<1>2. PICK n \in 1..Buffer : Leaves(Tube!From(q), n) /\ held'[q] = held[q] \o SubSeq(wire[Tube!From(q)], 1, n)
  BY CopyReadDoes
<1>3. /\ Tube!Copying(q) /\ HeldElse(q)
      /\ UNCHANGED <<route, shut, deaf, task, answer, host, pump, said, got, stop, fault>>
  BY CopyReadDoes
<1>4. n \in Nat /\ 1 <= n /\ n <= Len(wire[Tube!From(q)])
  BY <1>2 DEF Leaves
<1>5. \A i \in 0..6 : Clear(Down', i) => Clear(Down, i)
  BY <1>1, <1>3, NarrowDown
<1>6. /\ (Asking' <=> Asking) /\ (NoMiddle' <=> NoMiddle) /\ pump[q] = "copy"
      /\ q[1] = "proxy" => task = "relay" /\ host # "refused"
      /\ q[1] = "broker" => host = "relay"
  BY <1>3, Copiers, MiddleIs
<1>7. /\ Gap(Down', 0) = Gap(Down, 0) /\ Gap(Down', 1) = Gap(Down, 1) /\ Gap(Down', 2) = Gap(Down, 2)
      /\ Gap(Down', 5) = Gap(Down, 5) /\ Sent(Down') = Sent(Down) /\ Gap(Down, 5) = 0 /\ Gap(Down, 1) = 0
  BY <1>1, <1>3 DEF IsDown
<1>8. Gap(Down', 3) = Gap(Down, 3) /\ Gap(Down', 4) = Gap(Down, 4)
  BY <1>1, <1>3, <1>6 DEF IsDown
<1>9. CASE q = <<"proxy", "down">>
  <2>1. ~Asking /\ ~NoMiddle /\ ~NoMiddle' /\ Gap(Down, 3) = 0
    <3>1. task = "relay" /\ host # "refused"
      BY <1>6, <1>9
    <3>2. ~Asking /\ ~NoMiddle
      BY <3>1 DEF Asking, NoMiddle
    <3>3. Gap(Down, 3) = 0
      BY <1>1, <3>2 DEF IsDown
    <3>4. QED
      BY <1>6, <3>2, <3>3
  <2>2. /\ wire'[<<"near", "down">>] = wire[<<"near", "down">>] /\ wire'[<<"far", "down">>] = wire[<<"far", "down">>]
        /\ wire'[<<"mid", "down">>] = SubSeq(wire[<<"mid", "down">>], n + 1, Len(wire[<<"mid", "down">>]))
        /\ held'[<<"broker", "down">>] = held[<<"broker", "down">>]
        /\ held'[<<"proxy", "down">>] = held[<<"proxy", "down">>] \o SubSeq(wire[<<"mid", "down">>], 1, n)
        /\ n <= Len(wire[<<"mid", "down">>])
    <3>1. Tube!From(q) = <<"mid", "down">>
      BY <1>9, Plumbing
    <3>2. /\ Leaves(<<"mid", "down">>, n) /\ HeldElse(<<"proxy", "down">>) /\ n <= Len(wire[<<"mid", "down">>])
          /\ held'[<<"proxy", "down">>] = held[<<"proxy", "down">>] \o SubSeq(wire[<<"mid", "down">>], 1, n)
      BY <1>2, <1>3, <1>4, <1>9, <3>1
    <3>3. QED
      BY <3>2, NamedEnds DEF Leaves, HeldElse
  <2>3. /\ Stage(Down', 3) = SubSeq(Stage(Down, 3), n + 1, Size(Down, 3)) /\ Stage(Down', 2) = Stage(Down, 2) \o SubSeq(Stage(Down, 3), 1, n)
        /\ Stage(Down', 0) = Stage(Down, 0) /\ Stage(Down', 1) = Stage(Down, 1) /\ Stage(Down', 4) = Stage(Down, 4) /\ Stage(Down', 5) = Stage(Down, 5)
        /\ n <= Size(Down, 3)
    BY <1>1, <1>3, <2>1, <2>2 DEF IsDown, Size
  <2>4. (Clear(Down', 2) => Clear(Down, 3)) /\ (Clear(Down, 3) => At(Down, 3) >= 0)
    <3>1. (Clear(Down', 2) => Clear(Down, 3)) /\ (Clear(Down, 3) => Clear(Down, 2))
      BY <1>5 DEF Clear
    <3>2. Clear(Down, 2) => At(Down, 3) >= 0
      BY <1>1, <2>1, DownPlaces
    <3>3. QED
      BY <3>1, <3>2
  <2>5. 3 \in 1..5 /\ 2 = 3 - 1
    OBVIOUS
  <2>6. Moves(Down, Down', 3, 2, n)
    BY <1>4, <1>5, <1>7, <1>8, <2>1, <2>3, <2>4, <2>5 DEF Moves
  <2>7. QED
    BY <1>1, <2>6, Moved
<1>10. CASE q = <<"broker", "down">>
  <2>2. /\ wire'[<<"near", "down">>] = wire[<<"near", "down">>] /\ wire'[<<"mid", "down">>] = wire[<<"mid", "down">>]
        /\ wire'[<<"far", "down">>] = SubSeq(wire[<<"far", "down">>], n + 1, Len(wire[<<"far", "down">>]))
        /\ held'[<<"proxy", "down">>] = held[<<"proxy", "down">>]
        /\ held'[<<"broker", "down">>] = held[<<"broker", "down">>] \o SubSeq(wire[<<"far", "down">>], 1, n)
        /\ n <= Len(wire[<<"far", "down">>])
    <3>1. Tube!From(q) = <<"far", "down">>
      BY <1>10, Plumbing
    <3>2. /\ Leaves(<<"far", "down">>, n) /\ HeldElse(<<"broker", "down">>) /\ n <= Len(wire[<<"far", "down">>])
          /\ held'[<<"broker", "down">>] = held[<<"broker", "down">>] \o SubSeq(wire[<<"far", "down">>], 1, n)
      BY <1>2, <1>3, <1>4, <1>10, <3>1
    <3>3. QED
      BY <3>2, NamedEnds DEF Leaves, HeldElse
  <2>3. /\ Stage(Down', 5) = SubSeq(Stage(Down, 5), n + 1, Size(Down, 5)) /\ Stage(Down', 4) = Stage(Down, 4) \o SubSeq(Stage(Down, 5), 1, n)
        /\ Stage(Down', 0) = Stage(Down, 0) /\ Stage(Down', 1) = Stage(Down, 1) /\ Stage(Down', 2) = Stage(Down, 2) /\ Stage(Down', 3) = Stage(Down, 3)
        /\ n <= Size(Down, 5)
    BY <1>1, <1>3, <1>6, <2>2 DEF IsDown, Size
  <2>4. (Clear(Down', 4) => Clear(Down, 5)) /\ (Clear(Down, 5) => At(Down, 5) >= 0)
    <3>1. (Clear(Down', 4) => Clear(Down, 5)) /\ (Clear(Down, 5) => Clear(Down, 4))
      BY <1>5 DEF Clear
    <3>2. Clear(Down, 4) => At(Down, 5) >= 0
      BY <1>1, DownPlaces
    <3>3. QED
      BY <3>1, <3>2
  <2>5. 5 \in 1..5 /\ 4 = 5 - 1
    OBVIOUS
  <2>6. Moves(Down, Down', 5, 4, n)
    BY <1>4, <1>5, <1>7, <1>8, <2>3, <2>4, <2>5 DEF Moves
  <2>7. QED
    BY <1>1, <2>6, Moved
<1>11. CASE q = <<"proxy", "up">> \/ q = <<"broker", "up">>
  <2>1. Tube!From(q) \in {<<"near", "up">>, <<"mid", "up">>}
    BY <1>11, Plumbing
  <2>2. wire'[<<"mid", "down">>] = wire[<<"mid", "down">>]
    BY <1>2, <2>1, NamedEnds DEF Leaves
  <2>3. Middle' = Middle /\ Gap3' = Gap3 /\ Gap4' = Gap4
    BY <1>3, <1>6, <2>2, MiddleStays
  <2>4. SameDown
    BY <1>2, <1>3, <1>11, <2>1, <2>3, NamedEnds DEF SameDown, Leaves, HeldElse
  <2>5. QED
    BY <1>1, <1>3, <2>4, DownStill
<1>12. QED
  BY <1>9, <1>10, <1>11, NamedEnds

\* A loop of this direction writes.
LEMMA DownCopyWrite ==
  ASSUME TubeTyped, TubeTyped', Empty, Positions, Gone, Chain("down", Down), NEW q \in Tube!Pumps, Tube!CopyWrite(q)
  PROVE  Chain("down", Down)' /\ At(Down, 6)' = At(Down, 6)
<1> DEFINE n == 1
<1>1. IsDown /\ IsDown' /\ Link(Down)
  BY DownParts, PartsNext DEF IsDown
<1>2. /\ Tube!Copying(q) /\ ~Tube!CannotWrite(Tube!To(q)) /\ HeldElse(q) /\ held[q] # <<>>
      /\ Enters(Tube!To(q), SubSeq(held[q], 1, 1)) /\ held'[q] = SubSeq(held[q], 2, Len(held[q]))
      /\ UNCHANGED <<route, shut, deaf, task, answer, host, pump, said, got, stop, fault>>
  BY CopyWriteDoes
<1>3. n \in Nat /\ n <= Len(held[q]) /\ 2 = n + 1
  <2>1. Len(held[q]) \in Nat /\ Len(held[q]) > 0
    <3>1. held[q] \in Seq(Tokens)
      BY DEF TubeTyped
    <3>2. QED
      BY <1>2, <3>1, HeadOff
  <2>2. QED
    BY <2>1
<1>4. Enters(Tube!To(q), SubSeq(held[q], 1, n)) /\ held'[q] = SubSeq(held[q], n + 1, Len(held[q]))
  BY <1>2, <1>3
<1> HIDE DEF n
<1>5. \A i \in 0..6 : Clear(Down', i) => Clear(Down, i)
  BY <1>1, <1>2, NarrowDown
<1>6. /\ (Asking' <=> Asking) /\ (NoMiddle' <=> NoMiddle) /\ pump[q] = "copy"
      /\ q[1] = "proxy" => task = "relay" /\ host # "refused"
      /\ q[1] = "broker" => host = "relay"
  BY <1>2, Copiers, MiddleIs
<1>7. /\ Gap(Down', 0) = Gap(Down, 0) /\ Gap(Down', 1) = Gap(Down, 1) /\ Gap(Down', 2) = Gap(Down, 2)
      /\ Gap(Down', 5) = Gap(Down, 5) /\ Sent(Down') = Sent(Down) /\ Gap(Down, 5) = 0 /\ Gap(Down, 1) = 0
  BY <1>1, <1>2 DEF IsDown
<1>8. Gap(Down', 3) = Gap(Down, 3) /\ Gap(Down', 4) = Gap(Down, 4)
  BY <1>1, <1>2, <1>6 DEF IsDown
<1>9. CASE q = <<"proxy", "down">>
  <2>1. Gap(Down, 2) = 0
    BY <1>1, <1>6, <1>9 DEF IsDown
  <2>2. /\ wire'[<<"mid", "down">>] = wire[<<"mid", "down">>] /\ wire'[<<"far", "down">>] = wire[<<"far", "down">>]
        /\ wire'[<<"near", "down">>] = wire[<<"near", "down">>] \o SubSeq(held[<<"proxy", "down">>], 1, n)
        /\ held'[<<"broker", "down">>] = held[<<"broker", "down">>]
        /\ held'[<<"proxy", "down">>] = SubSeq(held[<<"proxy", "down">>], n + 1, Len(held[<<"proxy", "down">>]))
        /\ n <= Len(held[<<"proxy", "down">>]) /\ Free("near", "down")
    <3>1. Tube!To(q) = <<"near", "down">>
      BY <1>9, Plumbing
    <3>2. /\ Enters(<<"near", "down">>, SubSeq(held[<<"proxy", "down">>], 1, n)) /\ HeldElse(<<"proxy", "down">>)
          /\ n <= Len(held[<<"proxy", "down">>]) /\ ~Tube!CannotWrite(<<"near", "down">>)
          /\ held'[<<"proxy", "down">>] = SubSeq(held[<<"proxy", "down">>], n + 1, Len(held[<<"proxy", "down">>]))
      BY <1>2, <1>3, <1>4, <1>9, <3>1
    <3>3. QED
      BY <3>2, NamedEnds DEF Enters, HeldElse, Free
  <2>3. /\ Stage(Down', 2) = SubSeq(Stage(Down, 2), n + 1, Size(Down, 2)) /\ Stage(Down', 1) = Stage(Down, 1) \o SubSeq(Stage(Down, 2), 1, n)
        /\ Stage(Down', 0) = Stage(Down, 0) /\ Stage(Down', 3) = Stage(Down, 3) /\ Stage(Down', 4) = Stage(Down, 4) /\ Stage(Down', 5) = Stage(Down, 5)
        /\ n <= Size(Down, 2)
    BY <1>1, <1>2, <1>6, <2>2 DEF IsDown, Size
  <2>4. (Clear(Down', 1) => Clear(Down, 2)) /\ (Clear(Down, 2) => At(Down, 2) >= 0)
    <3>1. Passes(Down, 1)
      BY <1>1, <2>2 DEF IsDown
    <3>2. Clear(Down, 2)
      BY <3>1 DEF Clear
    <3>3. QED
      BY <1>1, <3>2, DownPlaces
  <2>5. 2 \in 1..5 /\ 1 = 2 - 1
    OBVIOUS
  <2>6. Moves(Down, Down', 2, 1, n)
    BY <1>3, <1>5, <1>7, <1>8, <2>1, <2>3, <2>4, <2>5 DEF Moves
  <2>7. QED
    BY <1>1, <2>6, Moved
<1>10. CASE q = <<"broker", "down">>
  <2>2. /\ wire'[<<"near", "down">>] = wire[<<"near", "down">>] /\ wire'[<<"far", "down">>] = wire[<<"far", "down">>]
        /\ wire'[<<"mid", "down">>] = wire[<<"mid", "down">>] \o SubSeq(held[<<"broker", "down">>], 1, n)
        /\ held'[<<"proxy", "down">>] = held[<<"proxy", "down">>]
        /\ held'[<<"broker", "down">>] = SubSeq(held[<<"broker", "down">>], n + 1, Len(held[<<"broker", "down">>]))
        /\ n <= Len(held[<<"broker", "down">>]) /\ Free("mid", "down")
    <3>1. Tube!To(q) = <<"mid", "down">>
      BY <1>10, Plumbing
    <3>2. /\ Enters(<<"mid", "down">>, SubSeq(held[<<"broker", "down">>], 1, n)) /\ HeldElse(<<"broker", "down">>)
          /\ n <= Len(held[<<"broker", "down">>]) /\ ~Tube!CannotWrite(<<"mid", "down">>)
          /\ held'[<<"broker", "down">>] = SubSeq(held[<<"broker", "down">>], n + 1, Len(held[<<"broker", "down">>]))
      BY <1>2, <1>3, <1>4, <1>10, <3>1
    <3>3. QED
      BY <3>2, NamedEnds DEF Enters, HeldElse, Free
  <2>1. ~NoMiddle /\ ~NoMiddle' /\ Gap(Down, 4) = 0
    <3>1. host = "relay" /\ <<"mid", "down">> \notin deaf
      BY <1>6, <1>10, <2>2 DEF Free, Tube!CannotWrite
    <3>2. ~NoMiddle
      BY <3>1 DEF NoMiddle, Gone
    <3>3. Gap(Down, 4) = 0
      BY <1>1, <3>1 DEF IsDown
    <3>4. QED
      BY <1>6, <3>2, <3>3
  <2>3. /\ Stage(Down', 4) = SubSeq(Stage(Down, 4), n + 1, Size(Down, 4)) /\ Stage(Down', 3) = Stage(Down, 3) \o SubSeq(Stage(Down, 4), 1, n)
        /\ Stage(Down', 0) = Stage(Down, 0) /\ Stage(Down', 1) = Stage(Down, 1) /\ Stage(Down', 2) = Stage(Down, 2) /\ Stage(Down', 5) = Stage(Down, 5)
        /\ n <= Size(Down, 4)
    BY <1>1, <1>2, <2>1, <2>2 DEF IsDown, Size
  <2>4. (Clear(Down', 3) => Clear(Down, 4)) /\ (Clear(Down, 4) => At(Down, 4) >= 0)
    <3>1. Passes(Down, 2)
      BY <1>1, <2>2 DEF IsDown
    <3>2. Clear(Down', 3) => Clear(Down, 4)
      BY <1>5, <3>1 DEF Clear
    <3>3. QED
      BY <1>1, <3>2, DownPlaces
  <2>5. 4 \in 1..5 /\ 3 = 4 - 1
    OBVIOUS
  <2>6. Moves(Down, Down', 4, 3, n)
    BY <1>3, <1>5, <1>7, <1>8, <2>1, <2>3, <2>4, <2>5 DEF Moves
  <2>7. QED
    BY <1>1, <2>6, Moved
<1>11. CASE q = <<"proxy", "up">> \/ q = <<"broker", "up">>
  <2>1. Tube!To(q) \in {<<"far", "up">>, <<"mid", "up">>}
    BY <1>11, Plumbing
  <2>2. wire'[<<"mid", "down">>] = wire[<<"mid", "down">>]
    BY <1>2, <2>1, NamedEnds DEF Enters
  <2>3. Middle' = Middle /\ Gap3' = Gap3 /\ Gap4' = Gap4
    BY <1>2, <1>6, <2>2, MiddleStays
  <2>4. SameDown
    BY <1>2, <1>11, <2>1, <2>3, NamedEnds DEF SameDown, Enters, HeldElse
  <2>5. QED
    BY <1>1, <1>2, <2>4, DownStill
<1>12. QED
  BY <1>9, <1>10, <1>11, NamedEnds

\* The client hears the next byte.
LEMMA DownHear ==
  ASSUME TubeTyped, TubeTyped', Empty, Positions, Chain("down", Down), NEW who \in Tube!Parties, Tube!Hear(who)
  PROVE  Chain("down", Down)' /\ At(Down, 6)' = At(Down, 6)
<1> DEFINE n == 1
<1>1. IsDown /\ IsDown' /\ Link(Down)
  BY DownParts, PartsNext DEF IsDown
<1>2. /\ Tube!There(who) /\ wire[Tube!Ear(who)] # <<>> /\ Leaves(Tube!Ear(who), 1)
      /\ got'[who] = got[who] \o SubSeq(wire[Tube!Ear(who)], 1, 1)
      /\ \A w \in Tube!Parties : w # who => got'[w] = got[w]
      /\ UNCHANGED <<route, shut, deaf, task, answer, host, pump, held, said, stop, fault>>
  BY HearDoes
<1>3. n \in Nat /\ Leaves(Tube!Ear(who), n) /\ got'[who] = got[who] \o SubSeq(wire[Tube!Ear(who)], 1, n) /\ n = 1
  BY <1>2
<1> HIDE DEF n
<1>4. (Asking' <=> Asking) /\ (NoMiddle' <=> NoMiddle)
  BY <1>2, MiddleIs
<1>5. \A i \in 0..6 : Clear(Down', i) => Clear(Down, i)
  BY <1>1, <1>2, NarrowDown
<1>6. CASE who = "service"
  <2>1. Tube!Ear(who) \in {<<"mid", "up">>, <<"far", "up">>} /\ "client" \in Tube!Parties
    BY <1>6, Mouths DEF Tube!Parties
  <2>2. wire'[<<"mid", "down">>] = wire[<<"mid", "down">>]
    BY <1>2, <2>1, NamedEnds DEF Leaves
  <2>3. Middle' = Middle /\ Gap3' = Gap3 /\ Gap4' = Gap4
    BY <1>2, <1>4, <2>2, MiddleStays
  <2>4. SameDown
    BY <1>2, <1>6, <2>1, <2>3, NamedEnds DEF SameDown, Leaves
  <2>5. QED
    BY <1>1, <1>2, <2>4, DownStill
<1>7. CASE who = "client"
  <2>1. Tube!Ear(who) = <<"near", "down">>
    BY <1>7, Mouths
  <2>2. /\ wire'[<<"mid", "down">>] = wire[<<"mid", "down">>] /\ wire'[<<"far", "down">>] = wire[<<"far", "down">>]
        /\ wire'[<<"near", "down">>] = SubSeq(wire[<<"near", "down">>], n + 1, Len(wire[<<"near", "down">>]))
        /\ got'["client"] = got["client"] \o SubSeq(wire[<<"near", "down">>], 1, n)
        /\ n <= Len(wire[<<"near", "down">>])
    <3>1. Leaves(<<"near", "down">>, n) /\ got'["client"] = got["client"] \o SubSeq(wire[<<"near", "down">>], 1, n)
      BY <1>3, <1>7, <2>1
    <3>2. QED
      BY <3>1, NamedEnds DEF Leaves
  <2>3. /\ Stage(Down', 1) = SubSeq(Stage(Down, 1), n + 1, Size(Down, 1)) /\ Stage(Down', 0) = Stage(Down, 0) \o SubSeq(Stage(Down, 1), 1, n)
        /\ Stage(Down', 2) = Stage(Down, 2) /\ Stage(Down', 3) = Stage(Down, 3) /\ Stage(Down', 4) = Stage(Down, 4) /\ Stage(Down', 5) = Stage(Down, 5)
        /\ n <= Size(Down, 1)
    BY <1>1, <1>2, <1>4, <2>2 DEF IsDown, Size
  <2>4. Clear(Down, 1)
    BY DEF Clear
  <2>5. 1 \in 1..5 /\ 0 = 1 - 1
    OBVIOUS
  <2>6. /\ Gap(Down', 0) = Gap(Down, 0) /\ Gap(Down', 1) = Gap(Down, 1) /\ Gap(Down', 2) = Gap(Down, 2)
        /\ Gap(Down', 5) = Gap(Down, 5) /\ Sent(Down') = Sent(Down) /\ Gap(Down, 1) = 0
    BY <1>1, <1>2 DEF IsDown
  <2>7. Gap(Down', 3) = Gap(Down, 3) /\ Gap(Down', 4) = Gap(Down, 4)
    BY <1>1, <1>2, <1>4 DEF IsDown
  <2>8. Moves(Down, Down', 1, 0, n)
    BY <1>3, <1>5, <2>3, <2>4, <2>5, <2>6, <2>7 DEF Moves
  <2>9. QED
    BY <1>1, <2>8, Moved
<1>8. QED
  BY <1>6, <1>7 DEF Tube!Parties

\* The service says the next byte.
LEMMA DownSay ==
  ASSUME TubeTyped, TubeTyped', Empty, Positions, Chain("down", Down), NEW who \in Tube!Parties, Tube!Say(who)
  PROVE  Chain("down", Down)' /\ At(Down, 6)' - said'["service"] = At(Down, 6) - said["service"]
<1>1. IsDown /\ IsDown' /\ Link(Down) /\ Link(Down')
  BY DownParts, PartsNext DEF IsDown
<1>2. /\ Tube!There(who) /\ said[who] < Tube!Bytes(who) /\ Len(wire[Tube!Mouth(who)]) < Window /\ ~Tube!CannotWrite(Tube!Mouth(who))
      /\ Enters(Tube!Mouth(who), <<said[who] + 1>>) /\ said'[who] = said[who] + 1
      /\ \A w \in Tube!Parties : w # who => said'[w] = said[w]
      /\ UNCHANGED <<route, shut, deaf, task, answer, host, pump, held, got, stop, fault>>
  BY SayDoes
<1>3. (Asking' <=> Asking) /\ (NoMiddle' <=> NoMiddle)
  BY <1>2, MiddleIs
<1>4. CASE who = "client"
  <2>1. Tube!Mouth(who) = <<"near", "up">> /\ "service" \in Tube!Parties
    BY <1>4, Mouths DEF Tube!Parties
  <2>2. wire'[<<"mid", "down">>] = wire[<<"mid", "down">>]
    BY <1>2, <2>1, NamedEnds DEF Enters
  <2>3. Middle' = Middle /\ Gap3' = Gap3 /\ Gap4' = Gap4
    BY <1>2, <1>3, <2>2, MiddleStays
  <2>4. SameDown
    BY <1>2, <1>4, <2>1, <2>3, NamedEnds DEF SameDown, Enters
  <2>5. said'["service"] = said["service"]
    BY <1>2, <1>4, <2>1
  <2>6. QED
    BY <1>1, <1>2, <2>4, <2>5, DownStill
<1>5. CASE who = "service"
  <2> DEFINE k == IF route = "public" THEN 3 ELSE 5
             e == IF route = "public" THEN <<"mid", "down">> ELSE <<"far", "down">>
  <2>1. Tube!Mouth(who) = e /\ e \in Tube!Ends
    BY <1>5, Mouths, NamedEnds
  <2>2. \A i \in 0..6 : Clear(Down', i) => Clear(Down, i)
    BY <1>1, <1>2, NarrowDown
  <2>3. /\ Enters(e, <<said["service"] + 1>>) /\ said'["service"] = said["service"] + 1 /\ ~Tube!CannotWrite(e)
    BY <1>2, <1>5, <2>1
  <2>4. /\ Gap(Down', 0) = Gap(Down, 0) /\ Gap(Down', 1) = Gap(Down, 1) /\ Gap(Down', 2) = Gap(Down, 2)
        /\ Gap(Down', 5) = Gap(Down, 5) /\ Gap(Down, 5) = 0
    BY <1>1, <1>2 DEF IsDown
  <2>5. Gap(Down', 3) = Gap(Down, 3) /\ Gap(Down', 4) = Gap(Down, 4)
    BY <1>1, <1>2, <1>3 DEF IsDown
  <2>6. CASE route # "public"
    <3>1. /\ wire'[<<"mid", "down">>] = wire[<<"mid", "down">>] /\ wire'[<<"near", "down">>] = wire[<<"near", "down">>]
          /\ wire'[<<"far", "down">>] = wire[<<"far", "down">>] \o <<said["service"] + 1>> /\ Free("far", "down")
      <4>1. Enters(<<"far", "down">>, <<said["service"] + 1>>) /\ ~Tube!CannotWrite(<<"far", "down">>)
        BY <2>3, <2>6
      <4>2. QED
        BY <4>1, NamedEnds DEF Enters, Free
    <3>2. /\ Stage(Down', 0) = Stage(Down, 0) /\ Stage(Down', 1) = Stage(Down, 1) /\ Stage(Down', 2) = Stage(Down, 2) /\ Stage(Down', 3) = Stage(Down, 3)
          /\ Stage(Down', 4) = Stage(Down, 4) /\ Stage(Down', 5) = Stage(Down, 5) \o <<Sent(Down) + 1>> /\ Sent(Down') = Sent(Down) + 1
      BY <1>1, <1>2, <1>3, <2>3, <3>1 DEF IsDown
    <3>3. Clear(Down', 5) => Clear(Down, 6)
      BY <1>1, <2>2, <3>1 DEF Clear, IsDown
    <3>4. /\ \A i \in 0..5 : i # 5 => Stage(Down', i) = Stage(Down, i)
          /\ \A i \in 0..5 : Gap(Down', i) = Gap(Down, i)
      BY <2>4, <2>5, <3>2, Stages
    <3>5. 5 \in {3, 5} /\ 5 # 3
      OBVIOUS
    <3>6. Chain("down", Down') /\ At(Down', 6) = At(Down, 6) + 1
      BY <1>1, <2>2, <3>2, <3>3, <3>4, <3>5, SaidMore
    <3>7. At(Down, 6) \in Int /\ said["service"] \in Int
      BY <1>1, Grounds DEF TubeTyped, Tube!Parties
    <3>8. QED
      BY <2>3, <3>6, <3>7
  <2>7. CASE route = "public"
    <3>0. host = "none" /\ BrokerOff /\ task \in {"connected", "relay", "over"}
      BY <1>2, <1>5, <2>7 DEF Positions, Tube!There
    <3>1. /\ wire'[<<"far", "down">>] = wire[<<"far", "down">>] /\ wire'[<<"near", "down">>] = wire[<<"near", "down">>]
          /\ wire'[<<"mid", "down">>] = wire[<<"mid", "down">>] \o <<said["service"] + 1>> /\ Free("mid", "down")
      <4>1. Enters(<<"mid", "down">>, <<said["service"] + 1>>) /\ ~Tube!CannotWrite(<<"mid", "down">>)
        BY <2>3, <2>7
      <4>2. QED
        BY <4>1, NamedEnds DEF Enters, Free
    <3>2. ~NoMiddle /\ ~NoMiddle' /\ ~Asking
      BY <1>3, <2>7, <3>0 DEF NoMiddle, Asking
    <3>3. held[<<"broker", "down">>] = <<>> /\ wire[<<"far", "down">>] = <<>> /\ Free("far", "down")
      <4>1. held[<<"broker", "down">>] = <<>> /\ wire[<<"far", "down">>] = <<>> /\ Free("far", "down")
        BY <3>0 DEF Empty
      <4>2. QED
        BY <4>1
    <3>4. /\ Stage(Down', 0) = Stage(Down, 0) /\ Stage(Down', 1) = Stage(Down, 1) /\ Stage(Down', 2) = Stage(Down, 2) /\ Stage(Down', 5) = Stage(Down, 5)
          /\ Stage(Down', 4) = Stage(Down, 4) /\ Stage(Down', 3) = Stage(Down, 3) \o <<Sent(Down) + 1>> /\ Sent(Down') = Sent(Down) + 1
          /\ Stage(Down, 4) = <<>> /\ Stage(Down, 5) = <<>>
      BY <1>1, <1>2, <2>3, <3>1, <3>2, <3>3 DEF IsDown
    <3>5. Clear(Down', 3) => Clear(Down, 6)
      BY <1>1, <2>2, <3>1, <3>3 DEF Clear, IsDown
    <3>6. /\ \A i \in 0..5 : i # 3 => Stage(Down', i) = Stage(Down, i)
          /\ \A i \in 0..5 : Gap(Down', i) = Gap(Down, i)
      BY <2>4, <2>5, <3>4, Stages
    <3>7. 3 \in {3, 5} /\ Gap(Down, 4) = 0 /\ Gap(Down, 5) = 0
      BY <1>1, <2>4, <3>2 DEF IsDown
    <3>8. Chain("down", Down') /\ At(Down', 6) = At(Down, 6) + 1
      BY <1>1, <2>2, <3>4, <3>5, <3>6, <3>7, SaidMore
    <3>9. At(Down, 6) \in Int /\ said["service"] \in Int
      BY <1>1, Grounds DEF TubeTyped, Tube!Parties
    <3>10. QED
      BY <2>3, <3>8, <3>9
  <2>8. QED
    BY <2>6, <2>7
<1>6. QED
  BY <1>4, <1>5 DEF Tube!Parties

\* Each close of the program leaves this chain in order.
LEMMA DownCloses ==
  ASSUME TubeTyped, TubeTyped', Empty, Positions, Chain("down", Down), NEW E, Closes(E), ~(task = "dial" /\ task' = "failed")
  PROVE  Chain("down", Down)'
<1>1. IsDown /\ IsDown'
  BY DownParts, PartsNext
<1>2. E \in SUBSET Tube!Ends /\ Tube!Close(E) /\ UNCHANGED <<route, held, said, got>>
  BY DEF Closes
<1>3. pump'[<<"proxy", "down">>] = pump[<<"proxy", "down">>]
  BY DEF Closes, Tube!Dirs
<1>4. <<"mid", "down">> \in Tube!Ends /\ Tube!Opposite(<<"mid", "down">>) = <<"mid", "up">>
  BY NamedEnds, Opposites
<1>5. /\ shut' = shut \cup E
      /\ <<"mid", "up">> \in E => <<"mid", "down">> \in deaf'
      /\ \/ wire'[<<"mid", "down">>] = wire[<<"mid", "down">>]
         \/ wire'[<<"mid", "down">>] = <<>> /\ (<<"mid", "down">> \in shut' \/ <<"mid", "down">> \in deaf')
  BY <1>2, <1>4, Closing
<1>6. Free("near", "down")' =>
            \/ Middle' = Middle /\ Gap3' = Gap3 /\ (Free("mid", "down")' => Gap4' = Gap4)
            \/ Middle' = <<>> /\ ~Free("mid", "down")' /\ (Gap3' = Gap3 \/ Gap3' = 0)
  <2>1. CASE UNCHANGED <<task, answer, host>>
    <3>1. (Asking' <=> Asking) /\ (NoMiddle' <=> NoMiddle)
      BY <1>2, <2>1, MiddleIs
    <3>2. Gap3' = Gap3 /\ Gap4' = Gap4
      BY <2>1, <3>1 DEF Gap3, Gap4
    <3>3. Middle' = Middle \/ (Middle' = <<>> /\ ~Free("mid", "down")')
      BY <1>5, <3>1 DEF Middle, Free, Tube!CannotWrite
    <3>4. QED
      BY <3>2, <3>3
  <2>2. CASE <<"near", "down">> \in E
    BY <1>5, <2>2 DEF Free, Tube!CannotWrite
  <2>3. CASE <<"mid", "up">> \in E /\ task' \in {"rejected", "failed"}
    <3>1. Middle' = <<>> /\ Gap3' = 0 /\ ~Free("mid", "down")'
      BY <1>5, <2>3 DEF Middle, NoMiddle, Gap3, Asking, Free, Tube!CannotWrite
    <3>2. QED
      BY <3>1
  <2>4. CASE UNCHANGED <<answer, task>> /\ host = "frame" /\ host' = "refused"
    <3>1. route = "local" /\ wire[<<"mid", "down">>] = <<>>
      BY <2>4, Sizes DEF TubeTyped, Positions, Empty
    <3>2. Middle' = <<>> /\ Middle = <<>>
      BY <2>4, <3>1 DEF Middle, NoMiddle
    <3>3. (Asking' <=> Asking)
      BY <1>2, <2>4 DEF Asking
    <3>4. Gap3' = Gap3 /\ Gap4' = Gap4
      BY <2>4, <3>3 DEF Gap3, Gap4
    <3>5. QED
      BY <3>2, <3>4
  <2>5. \/ UNCHANGED <<task, answer, host>> \/ <<"near", "down">> \in E
        \/ <<"mid", "up">> \in E /\ task' \in {"rejected", "failed"}
        \/ UNCHANGED <<answer, task>> /\ host = "frame" /\ host' = "refused"
    BY DEF Closes, Tube!ProxyEnds, Tube!Upstream
  <2>6. QED
    BY <2>1, <2>2, <2>3, <2>4, <2>5
<1>7. QED
  BY <1>1, <1>2, <1>3, <1>6, DownClosed

\* An attempt given up before anything was connected closes nothing.
LEMMA DialGivenUp ==
  ASSUME TubeTyped, TubeTyped', Tube!GiveUp, task = "dial"
  PROVE  /\ UNCHANGED <<route, answer, host, pump, held, said, got, stop, wire>> /\ task' = "failed"
         /\ shut \subseteq shut' /\ deaf \subseteq deaf'
<1>1. Tube!Upstream = {} /\ Tube!Close(Tube!Upstream) /\ UNCHANGED <<route, answer, host, pump, held, said, got, stop>> /\ task' = "failed"
  BY DEF Tube!GiveUp, Tube!Upstream
<1>2. {} \in SUBSET Tube!Ends /\ Tube!Close({})
  BY <1>1
<1>3. \A e \in Tube!Ends : wire'[e] = wire[e]
  BY <1>2, Closing
<1>4. wire' = wire
  BY <1>3 DEF TubeTyped
<1>5. shut \subseteq shut' /\ deaf \subseteq deaf'
  BY <1>2, CloseGrows
<1>6. QED
  BY <1>1, <1>4, <1>5

\* The chain from the service to the client, step by step.
LEMMA DownStep ==
  ASSUME TubeTyped, TubeTyped', Empty, Positions, Reply, Gone, Chain("down", Down), [Tube!Next]_Tube!vars
  PROVE  Chain("down", Down)'
<1>1. IsDown /\ IsDown'
  BY DownParts, PartsNext
<1>2. ASSUME shut \subseteq shut', deaf \subseteq deaf', SameDown PROVE Chain("down", Down)'
  BY <1>1, <1>2, DownStill
<1>3. ASSUME NEW E, Closes(E), ~(task = "dial" /\ task' = "failed") PROVE Chain("down", Down)'
  BY <1>3, DownCloses
<1>4. CASE Tube!ReadHead
  BY <1>4, DownReadHead
<1>5. CASE Tube!Dial
  BY <1>5, DownDial
<1>6. CASE Tube!ReadResponse
  <2>1. CASE task' = "rejected"
    <3>1. Closes({<<"mid", "up">>})
      BY <1>6, <2>1, ReadResponseOr
    <3>2. QED
      BY <1>3, <2>1, <3>1
  <2>2. CASE task' # "rejected"
    BY <1>6, <2>2, DownReadResponse
  <2>3. QED
    BY <2>1, <2>2
<1>7. CASE Tube!Establish
  <2>1. task' # "failed"
    BY <1>7, EstablishDoes
  <2>2. CASE /\ task = "connected" /\ UNCHANGED <<route, answer, host, held, said, got, stop, fault, shut, deaf>>
             /\ Enters(<<"near", "down">>, <<"E">>) /\ task' = "relay" /\ pump'[<<"proxy", "down">>] = "copy"
    BY <2>2, DownEstablish
  <2>3. QED
    BY <1>3, <1>7, <2>1, <2>2, EstablishOr
<1>8. CASE Tube!Serve
  BY <1>8, DownServe
<1>9. CASE Tube!NoResponse \/ Tube!PeerClosed \/ Tube!ServeNobody \/ (task = "relay" /\ Tube!RelayOver)
  <2>1. ~(task = "dial" /\ task' = "failed")
    BY <1>9 DEF Tube!NoResponse, Tube!PeerClosed, Tube!ServeNobody, Tube!RelayOver
  <2>2. QED
    BY <1>3, <1>9, <2>1, Closings
<1>10. CASE Tube!GiveUp
  <2>1. CASE task = "dial"
    BY <1>10, <2>1, DialGivenUp, DownGiveUp
  <2>2. CASE task # "dial"
    BY <1>3, <1>10, <2>2, Closings
  <2>3. QED
    BY <2>1, <2>2
<1>11. ASSUME NEW q \in Tube!Pumps, Tube!Loop(q) PROVE Chain("down", Down)'
  <2>1. CASE Tube!CopyRead(q)
    BY <2>1, DownCopyRead
  <2>2. CASE Tube!CopyWrite(q)
    BY <2>2, DownCopyWrite
  <2>3. CASE Tube!ProxyEof(q)
    <3>1. /\ UNCHANGED <<route, task, answer, host, held, said, got, stop, fault, wire, deaf>>
          /\ shut \subseteq shut' /\ pump' = [pump EXCEPT ![q] = "done"] /\ pump[q] = "copy"
      BY <2>3 DEF Tube!ProxyEof, Tube!HalfClose, Tube!Copying
    <3>2. Middle' = Middle /\ Gap3' = Gap3 /\ Gap4' = Gap4
      BY <3>1, MiddleIs, MiddleStays
    <3>3. pump'[<<"proxy", "down">>] = "off" <=> pump[<<"proxy", "down">>] = "off"
      BY <3>1, NamedEnds DEF TubeTyped
    <3>4. SameDown
      BY <3>1, <3>2, <3>3 DEF SameDown
    <3>5. QED
      BY <1>2, <3>1, <3>4
  <2>4. CASE Tube!ProxyFails(q)
    BY <1>9, <2>4 DEF Tube!ProxyFails, Tube!Copying
  <2>5. CASE Tube!BrokerEnds(q)
    <3>1. task' = task
      BY <2>5 DEF Tube!BrokerEnds
    <3>2. QED
      BY <1>3, <2>5, <3>1, Closings
  <2>6. QED
    BY <1>11, <2>1, <2>2, <2>3, <2>4, <2>5 DEF Tube!Loop
<1>12. ASSUME NEW who \in Tube!Parties, Tube!Party(who) \/ Tube!Hear(who) \/ Tube!Abort(who) PROVE Chain("down", Down)'
  <2>1. CASE Tube!Say(who)
    BY <2>1, DownSay
  <2>2. CASE Tube!Hear(who)
    BY <2>2, DownHear
  <2>3. CASE Tube!Finish(who)
    <3>1. UNCHANGED <<route, wire, deaf, task, answer, host, pump, held, said, got, stop, fault>> /\ shut \subseteq shut'
      BY <2>3 DEF Tube!Finish
    <3>2. Middle' = Middle /\ Gap3' = Gap3 /\ Gap4' = Gap4
      BY <3>1, MiddleIs, MiddleStays
    <3>3. SameDown
      BY <3>1, <3>2 DEF SameDown
    <3>4. QED
      BY <1>2, <3>1, <3>3
  <2>4. CASE Tube!Abort(who)
    <3>1. task' = task
      BY <2>4 DEF Tube!Abort
    <3>2. QED
      BY <1>3, <2>4, <3>1, Closings
  <2>5. QED
    BY <1>12, <2>1, <2>2, <2>3, <2>4 DEF Tube!Party
<1>13. CASE Tube!Signal \/ UNCHANGED Tube!vars
  <2>1. /\ UNCHANGED <<route, wire, shut, deaf, task, answer, host, pump, held, said, got>>
    BY <1>13 DEF Tube!Signal, Tube!vars
  <2>2. Middle' = Middle /\ Gap3' = Gap3 /\ Gap4' = Gap4
    BY <2>1, MiddleIs, MiddleStays
  <2>3. SameDown
    BY <2>1, <2>2 DEF SameDown
  <2>4. QED
    BY <1>2, <2>1, <2>3
<1>14. QED
  BY <1>4, <1>5, <1>6, <1>7, <1>8, <1>9, <1>10, <1>11, <1>12, <1>13
     DEF Tube!Next, Tube!Proxy, Tube!Worker, Tube!Outside, Tube!ProxyForced, Tube!ProxyDone

-----------------------------------------------------------------------------
(* An undisturbed tunnel to a public service.                              *)

\* The steps after which a tunnel to a public service is undisturbed.
LEMMA QuietSteps ==
  ASSUME TubeTyped, Positions, [Tube!Next]_Tube!vars, Quiet'
  PROVE  /\ Quiet
         /\ \/ Tube!ReadHead \/ Tube!Dial \/ Tube!Establish \/ Tube!PeerClosed \/ Tube!ProxyDone \/ UNCHANGED Tube!vars
            \/ \E q \in {<<"proxy", "up">>, <<"proxy", "down">>} : Tube!CopyRead(q) \/ Tube!CopyWrite(q) \/ Tube!ProxyEof(q) \/ Tube!ProxyFails(q)
            \/ \E who \in Tube!Parties : Tube!Party(who) \/ Tube!Hear(who)
<1>1. route' = "public" /\ stop' = "none" /\ fault' = "none"
  BY DEF Quiet, Tube!Undisturbed
<1>2. route' = route
  <2>1. Tube!Proxy => route' = route
    BY DEF Tube!Proxy, Tube!ReadHead, Tube!Dial, Tube!ReadResponse, Tube!NoResponse, Tube!Establish, Tube!ProxyForced, Tube!ProxyDone, Tube!RelayOver
  <2>2. Tube!Worker \/ Tube!Outside => route' = route
    BY DEF Tube!Worker, Tube!Outside, Tube!Serve, Tube!ServeNobody, Tube!GiveUp, Tube!PeerClosed, Tube!Signal, Tube!Abort
  <2>3. \A q \in Tube!Pumps : Tube!Loop(q) => route' = route
    BY DEF Tube!Loop, Tube!CopyRead, Tube!CopyWrite, Tube!ProxyEof, Tube!ProxyFails, Tube!BrokerEnds, Tube!RelayOver
  <2>4. \A who \in Tube!Parties : Tube!Party(who) \/ Tube!Hear(who) => route' = route
    BY DEF Tube!Party, Tube!Say, Tube!Finish, Tube!Hear
  <2>5. QED
    BY <2>1, <2>2, <2>3, <2>4 DEF Tube!Next, Tube!vars
<1>3. host = "none" /\ task # "response"
  BY <1>1, <1>2 DEF Positions
<1>4. ~Tube!ReadResponse /\ ~Tube!NoResponse /\ ~Tube!Worker
  BY <1>3 DEF Tube!ReadResponse, Tube!NoResponse, Tube!Worker, Tube!Serve, Tube!ServeNobody
<1>5. ~Tube!ProxyForced /\ ~Tube!GiveUp /\ ~Tube!Signal /\ \A who \in Tube!Parties : ~Tube!Abort(who)
  <2>1. ~Tube!ProxyForced
    BY <1>1 DEF Tube!ProxyForced, Tube!RelayOver
  <2>2. ~Tube!GiveUp
    BY <1>1 DEF Tube!GiveUp
  <2>3. ~Tube!Signal
    BY <1>1 DEF Tube!Signal
  <2>4. \A who \in Tube!Parties : ~Tube!Abort(who)
    BY <1>1 DEF Tube!Abort
  <2>5. QED
    BY <2>1, <2>2, <2>3, <2>4
<1>6. ASSUME NEW q \in Tube!Pumps, Tube!Loop(q)
      PROVE  /\ q \in {<<"proxy", "up">>, <<"proxy", "down">>}
             /\ Tube!CopyRead(q) \/ Tube!CopyWrite(q) \/ Tube!ProxyEof(q) \/ Tube!ProxyFails(q)
  <2>1. Tube!Copying(q)
    BY <1>6 DEF Tube!Loop, Tube!CopyRead, Tube!CopyWrite, Tube!ProxyEof, Tube!ProxyFails, Tube!BrokerEnds
  <2>2. q[1] # "broker"
    BY <1>3, <2>1, Copiers
  <2>3. q \in {<<"proxy", "up">>, <<"proxy", "down">>}
    BY <2>2, NamedEnds
  <2>4. QED
    BY <1>6, <2>2, <2>3 DEF Tube!Loop, Tube!BrokerEnds
<1>7. \/ Tube!ReadHead \/ Tube!Dial \/ Tube!Establish \/ Tube!PeerClosed \/ Tube!ProxyDone \/ UNCHANGED Tube!vars
      \/ \E q \in {<<"proxy", "up">>, <<"proxy", "down">>} : Tube!CopyRead(q) \/ Tube!CopyWrite(q) \/ Tube!ProxyEof(q) \/ Tube!ProxyFails(q)
      \/ \E who \in Tube!Parties : Tube!Party(who) \/ Tube!Hear(who)
  BY <1>4, <1>5, <1>6 DEF Tube!Next, Tube!Proxy, Tube!Outside
<1>8. UNCHANGED <<stop, fault>>
  BY <1>7 DEF Tube!ReadHead, Tube!Dial, Tube!Establish, Tube!PeerClosed, Tube!ProxyDone, Tube!vars, Tube!CopyRead, Tube!CopyWrite, Tube!ProxyEof, Tube!ProxyFails, Tube!RelayOver,
     Tube!Party, Tube!Hear, Tube!Say, Tube!Finish
<1>9. QED
  BY <1>1, <1>2, <1>7, <1>8 DEF Quiet, Tube!Undisturbed

\* A service that is there stays there.
LEMMA ThereStays ==
  ASSUME AllThere, At(Down, 6)' = At(Down, 6), said'["service"] = said["service"],
         <<"mid", "down">> \in shut' => <<"mid", "down">> \in shut \/ said["service"] = ServiceBytes
  PROVE  AllThere'
BY DEF AllThere

\* What a party does leaves the tunnel undisturbed.
LEMMA PartyThere ==
  ASSUME TubeTyped, TubeTyped', Empty, Positions, Chain("down", Down), Quiet, AllThere,
         NEW who \in Tube!Parties, Tube!Party(who) \/ Tube!Hear(who)
  PROVE  AllThere'
<1>1. IsDown /\ IsDown'
  BY DownParts, PartsNext
<1>2. CASE Tube!Say(who)
  <2>1. At(Down, 6)' - said'["service"] = At(Down, 6) - said["service"]
    BY <1>2, DownSay
  <2>2. At(Down, 6)' \in Int /\ At(Down, 6) \in Int /\ said["service"] \in Nat /\ said'["service"] \in Nat
    <3>1. At(Down, 6) \in Int /\ At(Down', 6) \in Int
      BY <1>1, Grounds DEF IsDown
    <3>2. QED
      BY <3>1 DEF TubeTyped, Tube!Parties
  <2>3. At(Down, 6) = said["service"]
    BY DEF AllThere
  <2>4. At(Down, 6)' = said'["service"]
    BY ONLY <2>1, <2>2, <2>3
  <2>5. <<"mid", "down">> \in shut' => said'["service"] = ServiceBytes
    <3>1. shut' = shut /\ ~Tube!CannotWrite(Tube!Mouth(who)) /\ \A w \in Tube!Parties : w # who => said'[w] = said[w]
      BY <1>2, SayDoes
    <3>2. CASE who = "service"
      <4>1. <<"mid", "down">> \notin shut
        BY <3>1, <3>2, Mouths DEF Quiet, Tube!CannotWrite
      <4>2. QED
        BY <3>1, <4>1
    <3>3. CASE who # "service"
      <4>1. said'["service"] = said["service"]
        BY <3>1, <3>3 DEF Tube!Parties
      <4>2. QED
        BY <3>1, <4>1 DEF AllThere
    <3>4. QED
      BY <3>2, <3>3
  <2>6. QED
    BY <2>4, <2>5 DEF AllThere
<1>3. CASE Tube!Hear(who)
  <2>1. At(Down, 6)' = At(Down, 6)
    BY <1>3, DownHear
  <2>2. QED
    BY <1>3, <2>1, ThereStays DEF Tube!Hear
<1>4. CASE Tube!Finish(who)
  <2>1. UNCHANGED <<route, wire, deaf, task, answer, host, pump, held, said, got, stop, fault>> /\ shut' = shut \cup {Tube!Mouth(who)}
        /\ said[who] = Tube!Bytes(who)
    BY <1>4 DEF Tube!Finish
  <2>2. Middle' = Middle /\ Gap3' = Gap3 /\ Gap4' = Gap4
    BY <2>1, MiddleIs, MiddleStays
  <2>3. SameDown
    BY <2>1, <2>2 DEF SameDown
  <2>4. At(Down, 6)' = At(Down, 6)
    BY <1>1, <2>1, <2>3, DownStill
  <2>5. <<"mid", "down">> \in shut' => <<"mid", "down">> \in shut \/ said["service"] = ServiceBytes
    <3>1. CASE who = "client"
      BY <2>1, <3>1, Mouths
    <3>2. CASE who = "service"
      BY <2>1, <3>2 DEF Tube!Bytes
    <3>3. QED
      BY <3>1, <3>2 DEF Tube!Parties
  <2>6. QED
    BY <2>1, <2>4, <2>5, ThereStays
<1>5. QED
  BY <1>2, <1>3, <1>4 DEF Tube!Party

\* The parties leave an undisturbed tunnel in flow.
LEMMA PartyFlows ==
  ASSUME TubeTyped, Quiet, FlowsUp, FlowsDown, NEW who \in Tube!Parties, Tube!Party(who) \/ Tube!Hear(who)
  PROVE  FlowsUp' /\ FlowsDown'
<1>1. /\ Tube!Mouth(who) \in {<<"near", "up">>, <<"mid", "down">>} /\ Tube!Ear(who) \in {<<"near", "down">>, <<"mid", "up">>}
  BY Mouths DEF Quiet, Tube!Parties
<1>2. CASE Tube!Say(who)
  <2>1. UNCHANGED <<shut, deaf, task, pump, held>> /\ Tube!Mouth(who) \notin shut /\ \A f \in Tube!Ends : f # Tube!Mouth(who) => wire'[f] = wire[f]
    BY <1>2, SayDoes DEF Tube!CannotWrite, Enters
  <2>2. /\ <<"near", "up">> \in shut => wire'[<<"near", "up">>] = wire[<<"near", "up">>]
        /\ <<"mid", "down">> \in shut => wire'[<<"mid", "down">>] = wire[<<"mid", "down">>]
    BY <2>1, NamedEnds
  <2>3. QED
    BY <2>1, <2>2 DEF FlowsUp, FlowsDown, Tube!AtEof
<1>3. CASE Tube!Hear(who)
  <2>1. UNCHANGED <<shut, deaf, task, pump, held>> /\ \A f \in Tube!Ends : f # Tube!Ear(who) => wire'[f] = wire[f]
    BY <1>3, HearDoes DEF Leaves
  <2>2. /\ wire'[<<"near", "up">>] = wire[<<"near", "up">>]
        /\ wire'[<<"mid", "down">>] = wire[<<"mid", "down">>]
    BY <1>1, <2>1, NamedEnds
  <2>3. QED
    BY <2>1, <2>2 DEF FlowsUp, FlowsDown, Tube!AtEof
<1>4. CASE Tube!Finish(who)
  <2>1. UNCHANGED <<deaf, task, pump, held, wire>> /\ shut' = shut \cup {Tube!Mouth(who)}
    BY <1>4 DEF Tube!Finish
  <2>2. QED
    BY <1>1, <2>1 DEF FlowsUp, FlowsDown, Tube!AtEof
<1>5. QED
  BY <1>2, <1>3, <1>4 DEF Tube!Party

Ours == {<<"proxy", "up">>, <<"proxy", "down">>}

\* The loops keep what is there.
LEMMA LoopThere ==
  ASSUME TubeTyped, TubeTyped', Empty, Positions, Gone, Chain("down", Down), AllThere,
         NEW q \in Ours, Tube!CopyRead(q) \/ Tube!CopyWrite(q) \/ Tube!ProxyEof(q)
  PROVE  AllThere'
<1>1. IsDown /\ IsDown' /\ q \in Tube!Pumps
  BY DownParts, PartsNext, NamedEnds DEF Ours
<1>2. CASE Tube!CopyRead(q)
  <2>1. At(Down, 6)' = At(Down, 6) /\ UNCHANGED <<shut, said>>
    BY <1>1, <1>2, DownCopyRead, CopyReadDoes
  <2>2. QED
    BY <2>1, ThereStays
<1>3. CASE Tube!CopyWrite(q)
  <2>1. At(Down, 6)' = At(Down, 6) /\ UNCHANGED <<shut, said>>
    BY <1>1, <1>3, DownCopyWrite, CopyWriteDoes
  <2>2. QED
    BY <2>1, ThereStays
<1>4. CASE Tube!ProxyEof(q)
  <2>1. /\ UNCHANGED <<route, task, answer, host, held, said, got, stop, fault, wire, deaf>>
        /\ shut' = shut \cup {Tube!To(q)} /\ pump' = [pump EXCEPT ![q] = "done"] /\ pump[q] = "copy"
    BY <1>4 DEF Tube!ProxyEof, Tube!HalfClose, Tube!Copying
  <2>2. Middle' = Middle /\ Gap3' = Gap3 /\ Gap4' = Gap4
    BY <2>1, MiddleIs, MiddleStays
  <2>3. pump'[<<"proxy", "down">>] = "off" <=> pump[<<"proxy", "down">>] = "off"
    BY <1>1, <2>1, NamedEnds DEF TubeTyped
  <2>4. SameDown
    BY <2>1, <2>2, <2>3 DEF SameDown
  <2>5. At(Down, 6)' = At(Down, 6)
    BY <1>1, <2>1, <2>4, DownStill
  <2>6. Tube!To(q) # <<"mid", "down">>
    BY Plumbing DEF Ours
  <2>7. QED
    BY <2>1, <2>5, <2>6, ThereStays
<1>5. QED
  BY <1>2, <1>3, <1>4

\* The loops leave an undisturbed tunnel in flow.
LEMMA LoopFlows ==
  ASSUME TubeTyped, FlowsUp, FlowsDown, NEW q \in Ours, Tube!CopyRead(q) \/ Tube!CopyWrite(q) \/ Tube!ProxyEof(q)
  PROVE  FlowsUp' /\ FlowsDown'
<1>1. q \in Tube!Pumps /\ q \in Ours
  BY NamedEnds DEF Ours
<1>2. CASE Tube!CopyRead(q)
  <2>1. /\ pump[q] = "copy" /\ UNCHANGED <<shut, deaf, task, pump>> /\ \A p \in Tube!Pumps : p # q => held'[p] = held[p]
        /\ \A f \in Tube!Ends : f # Tube!From(q) => wire'[f] = wire[f]
    BY <1>1, <1>2, CopyReadDoes DEF Tube!Copying, HeldElse, Leaves
  <2>2. CASE q = <<"proxy", "up">>
    <3>1. wire'[<<"mid", "down">>] = wire[<<"mid", "down">>] /\ held'[<<"proxy", "down">>] = held[<<"proxy", "down">>]
      BY <2>1, <2>2, Plumbing, NamedEnds
    <3>2. QED
      BY <2>1, <2>2, <3>1 DEF FlowsUp, FlowsDown, Tube!AtEof
  <2>3. CASE q = <<"proxy", "down">>
    <3>1. wire'[<<"near", "up">>] = wire[<<"near", "up">>] /\ held'[<<"proxy", "up">>] = held[<<"proxy", "up">>]
      BY <2>1, <2>3, Plumbing, NamedEnds
    <3>2. QED
      BY <2>1, <2>3, <3>1 DEF FlowsUp, FlowsDown, Tube!AtEof
  <2>4. QED
    BY <2>2, <2>3 DEF Ours
<1>3. CASE Tube!CopyWrite(q)
  <2>1. /\ pump[q] = "copy" /\ UNCHANGED <<shut, deaf, task, pump>> /\ \A p \in Tube!Pumps : p # q => held'[p] = held[p]
        /\ \A f \in Tube!Ends : f # Tube!To(q) => wire'[f] = wire[f]
    BY <1>1, <1>3, CopyWriteDoes DEF Tube!Copying, HeldElse, Enters
  <2>2. wire'[<<"mid", "down">>] = wire[<<"mid", "down">>] /\ wire'[<<"near", "up">>] = wire[<<"near", "up">>]
    BY <2>1, Plumbing, NamedEnds DEF Ours
  <2>3. CASE q = <<"proxy", "up">>
    <3>1. held'[<<"proxy", "down">>] = held[<<"proxy", "down">>]
      BY <2>1, <2>3, NamedEnds
    <3>2. QED
      BY <2>1, <2>2, <2>3, <3>1 DEF FlowsUp, FlowsDown, Tube!AtEof
  <2>4. CASE q = <<"proxy", "down">>
    <3>1. held'[<<"proxy", "up">>] = held[<<"proxy", "up">>]
      BY <2>1, <2>4, NamedEnds
    <3>2. QED
      BY <2>1, <2>2, <2>4, <3>1 DEF FlowsUp, FlowsDown, Tube!AtEof
  <2>5. QED
    BY <2>3, <2>4 DEF Ours
<1>4. CASE Tube!ProxyEof(q)
  <2>1. /\ UNCHANGED <<task, held, wire, deaf>> /\ held[q] = <<>> /\ Tube!AtEof(Tube!From(q))
        /\ shut' = shut \cup {Tube!To(q)} /\ pump' = [pump EXCEPT ![q] = "done"]
    BY <1>4 DEF Tube!ProxyEof, Tube!HalfClose
  <2>2. CASE q = <<"proxy", "up">>
    <3>1. Tube!To(q) = <<"mid", "up">> /\ Tube!From(q) = <<"near", "up">>
      BY <2>2, Plumbing
    <3>2. pump'[<<"proxy", "up">>] = "done" /\ pump'[<<"proxy", "down">>] = pump[<<"proxy", "down">>]
      BY <2>1, <2>2, NamedEnds DEF TubeTyped
    <3>3. QED
      BY <2>1, <2>2, <3>1, <3>2 DEF FlowsUp, FlowsDown, Tube!AtEof
  <2>3. CASE q = <<"proxy", "down">>
    <3>1. Tube!To(q) = <<"near", "down">> /\ Tube!From(q) = <<"mid", "down">>
      BY <2>3, Plumbing
    <3>2. pump'[<<"proxy", "down">>] = "done" /\ pump'[<<"proxy", "up">>] = pump[<<"proxy", "up">>]
      BY <2>1, <2>3, NamedEnds DEF TubeTyped
    <3>3. QED
      BY <2>1, <2>3, <3>1, <3>2 DEF FlowsUp, FlowsDown, Tube!AtEof
  <2>4. QED
    BY <2>2, <2>3 DEF Ours
<1>5. QED
  BY <1>2, <1>3, <1>4

\* A loop finds no error as long as the tunnel is undisturbed.
LEMMA NoFailure == ASSUME FlowsUp, FlowsDown, NEW q \in Ours PROVE ~Tube!ProxyFails(q)
<1>1. SUFFICES ASSUME Tube!ProxyFails(q) PROVE FALSE
  OBVIOUS
<1>2. pump[q] = "copy" /\ task = "relay" /\ (Tube!To(q) \in deaf \/ Tube!To(q) \in shut)
  BY <1>1 DEF Tube!ProxyFails, Tube!Copying, Tube!CannotWrite
<1>3. CASE q = <<"proxy", "up">>
  BY <1>2, <1>3, Plumbing DEF FlowsUp
<1>4. CASE q = <<"proxy", "down">>
  BY <1>2, <1>4, Plumbing DEF FlowsDown
<1>5. QED
  BY <1>3, <1>4 DEF Ours

\* When both directions have ended there is nothing to lose.
LEMMA DoneThere ==
  ASSUME TubeTyped, TubeTyped', Empty, Positions, Chain("down", Down), AllThere, FlowsUp, FlowsDown, Tube!ProxyDone
  PROVE  AllThere' /\ FlowsUp' /\ FlowsDown'
<1>1. IsDown /\ IsDown' /\ Tube!ProxyEnds \in SUBSET Tube!Ends
  BY DownParts, PartsNext, Closers
<1>2. /\ UNCHANGED <<route, answer, host, pump, held, said, got, stop, fault>> /\ task = "relay" /\ task' = "over"
      /\ Tube!Close(Tube!ProxyEnds) /\ pump[<<"proxy", "up">>] = "done" /\ pump[<<"proxy", "down">>] = "done"
  BY DEF Tube!ProxyDone, Tube!RelayOver
<1>3. wire[<<"near", "up">>] = <<>> /\ wire[<<"mid", "down">>] = <<>>
  BY <1>2 DEF FlowsUp, FlowsDown, Tube!AtEof
<1>4. /\ shut' = shut \cup Tube!ProxyEnds /\ deaf \subseteq deaf'
      /\ \A e \in Tube!Ends : e \notin Tube!ProxyEnds /\ Tube!Opposite(e) \notin Tube!ProxyEnds => wire'[e] = wire[e]
      /\ \A e \in Tube!Ends : wire[e] = <<>> => wire'[e] = <<>>
      /\ \A e \in Tube!Ends : e \in Tube!ProxyEnds /\ Tube!Opposite(e) \notin Tube!ProxyEnds /\ wire[Tube!Opposite(e)] = <<>> => wire'[e] = wire[e]
  BY <1>1, <1>2, Closing
<1>5. /\ wire'[<<"near", "up">>] = wire[<<"near", "up">>] /\ wire'[<<"mid", "down">>] = wire[<<"mid", "down">>]
      /\ wire'[<<"near", "down">>] = wire[<<"near", "down">>] /\ wire'[<<"far", "down">>] = wire[<<"far", "down">>]
  <2>1. wire'[<<"near", "up">>] = wire[<<"near", "up">>] /\ wire'[<<"mid", "down">>] = wire[<<"mid", "down">>]
    BY <1>3, <1>4, NamedEnds
  <2>2. wire'[<<"near", "down">>] = wire[<<"near", "down">>]
    BY <1>3, <1>4, NamedEnds, Opposites DEF Tube!ProxyEnds
  <2>3. wire'[<<"far", "down">>] = wire[<<"far", "down">>]
    BY <1>4, NamedEnds, Opposites DEF Tube!ProxyEnds
  <2>4. QED
    BY <2>1, <2>2, <2>3
<1>6. (Asking' <=> Asking) /\ (NoMiddle' <=> NoMiddle)
  BY <1>2 DEF Asking, NoMiddle
<1>7. Middle' = Middle /\ Gap3' = Gap3 /\ Gap4' = Gap4
  BY <1>2, <1>5, <1>6, MiddleStays
<1>8. SameDown
  BY <1>2, <1>5, <1>7 DEF SameDown
<1>9. At(Down, 6)' = At(Down, 6)
  BY <1>1, <1>4, <1>8, DownStill
<1>10. AllThere'
  BY <1>2, <1>4, <1>9, ThereStays DEF Tube!ProxyEnds
<1>11. FlowsUp' /\ FlowsDown'
  BY <1>2, <1>4, <1>5 DEF FlowsUp, FlowsDown, Tube!AtEof
<1>12. QED
  BY <1>10, <1>11

\* What is undisturbed is so before it is established, step by step.
LEMMA FreshStep ==
  ASSUME TubeTyped, TubeTyped', Empty, Positions, Chain("down", Down), Fresh, [Tube!Next]_Tube!vars
  PROVE  Fresh'
<1> SUFFICES ASSUME Quiet', task' \in {"head", "dial", "connected"}
             PROVE  AllThere' /\ (Tube!ProxyEnds \cap shut = {})' /\ (deaf = {})'
  BY DEF Fresh
<1>1. /\ Quiet
      /\ \/ Tube!ReadHead \/ Tube!Dial \/ Tube!Establish \/ Tube!PeerClosed \/ Tube!ProxyDone \/ UNCHANGED Tube!vars
         \/ \E q \in Ours : Tube!CopyRead(q) \/ Tube!CopyWrite(q) \/ Tube!ProxyEof(q) \/ Tube!ProxyFails(q)
         \/ \E who \in Tube!Parties : Tube!Party(who) \/ Tube!Hear(who)
  BY QuietSteps DEF Ours
<1>2. IsDown /\ IsDown'
  BY DownParts, PartsNext
<1>3. CASE Tube!ReadHead
  <2>1. AllThere /\ (Tube!ProxyEnds \cap shut = {}) /\ deaf = {} /\ UNCHANGED <<shut, deaf, said>>
    BY <1>1, <1>3 DEF Tube!ReadHead, Fresh
  <2>2. At(Down, 6)' = At(Down, 6)
    BY <1>3, DownReadHead
  <2>3. QED
    BY <2>1, <2>2, ThereStays DEF Tube!ProxyEnds
<1>4. CASE Tube!Dial
  <2>1. AllThere /\ (Tube!ProxyEnds \cap shut = {}) /\ deaf = {} /\ UNCHANGED <<shut, deaf, said>>
    BY <1>1, <1>4 DEF Tube!Dial, Fresh
  <2>2. At(Down, 6)' = At(Down, 6)
    BY <1>4, DownDial
  <2>3. QED
    BY <2>1, <2>2, ThereStays DEF Tube!ProxyEnds
<1>5. CASE Tube!Establish \/ Tube!PeerClosed \/ Tube!ProxyDone
  <2>1. task' \in {"relay", "over", "left"}
    BY <1>5 DEF Tube!Establish, Tube!PeerClosed, Tube!ProxyDone, Tube!RelayOver
  <2>2. QED
    BY <2>1
<1>6. CASE UNCHANGED Tube!vars
  <2>1. AllThere /\ (Tube!ProxyEnds \cap shut = {}) /\ deaf = {}
    BY <1>1, <1>6 DEF Fresh, Tube!vars
  <2>2. /\ UNCHANGED <<route, wire, shut, deaf, task, answer, host, pump, held, said, got>>
    BY <1>6 DEF Tube!vars
  <2>3. Middle' = Middle /\ Gap3' = Gap3 /\ Gap4' = Gap4
    BY <2>2, MiddleIs, MiddleStays
  <2>4. SameDown
    BY <2>2, <2>3 DEF SameDown
  <2>5. At(Down, 6)' = At(Down, 6)
    BY <1>2, <2>2, <2>4, DownStill
  <2>6. QED
    BY <2>1, <2>2, <2>5, ThereStays DEF Tube!ProxyEnds
<1>7. CASE \E q \in Ours : Tube!CopyRead(q) \/ Tube!CopyWrite(q) \/ Tube!ProxyEof(q) \/ Tube!ProxyFails(q)
  <2>1. PICK q \in Ours : Tube!CopyRead(q) \/ Tube!CopyWrite(q) \/ Tube!ProxyEof(q) \/ Tube!ProxyFails(q)
    BY <1>7
  <2>2. q[1] = "proxy" /\ Tube!Copying(q)
    BY <2>1 DEF Ours, Tube!CopyRead, Tube!CopyWrite, Tube!ProxyEof, Tube!ProxyFails
  <2>3. task = "relay" /\ task' \in {"relay", "over"}
    BY <2>1, <2>2 DEF Tube!Copying, Tube!CopyRead, Tube!CopyWrite, Tube!ProxyEof, Tube!ProxyFails, Tube!RelayOver
  <2>4. QED
    BY <2>3
<1>8. CASE \E who \in Tube!Parties : Tube!Party(who) \/ Tube!Hear(who)
  <2>1. PICK who \in Tube!Parties : Tube!Party(who) \/ Tube!Hear(who)
    BY <1>8
  <2>2. UNCHANGED <<task, deaf>> /\ (shut' = shut \/ shut' = shut \cup {Tube!Mouth(who)})
    BY <2>1 DEF Tube!Party, Tube!Hear, Tube!Say, Tube!Finish
  <2>3. AllThere /\ (Tube!ProxyEnds \cap shut = {}) /\ deaf = {}
    BY <1>1, <2>2 DEF Fresh
  <2>4. AllThere'
    BY <1>1, <2>1, <2>3, PartyThere
  <2>5. Tube!Mouth(who) \in {<<"near", "up">>, <<"mid", "down">>}
    BY <1>1, Mouths DEF Quiet, Tube!Parties
  <2>6. QED
    BY <2>2, <2>3, <2>4, <2>5 DEF Tube!ProxyEnds
<1>9. QED
  BY <1>1, <1>3, <1>4, <1>5, <1>6, <1>7, <1>8

\* And after it.
LEMMA CalmStep ==
  ASSUME TubeTyped, TubeTyped', Empty, Positions, Gone, Chain("down", Down), Fresh, Calm, [Tube!Next]_Tube!vars
  PROVE  Calm'
<1> SUFFICES ASSUME Quiet', ~ProxyOff' PROVE AllThere' /\ FlowsUp' /\ FlowsDown'
  BY DEF Calm
<1>1. /\ Quiet
      /\ \/ Tube!ReadHead \/ Tube!Dial \/ Tube!Establish \/ Tube!PeerClosed \/ Tube!ProxyDone \/ UNCHANGED Tube!vars
         \/ \E q \in Ours : Tube!CopyRead(q) \/ Tube!CopyWrite(q) \/ Tube!ProxyEof(q) \/ Tube!ProxyFails(q)
         \/ \E who \in Tube!Parties : Tube!Party(who) \/ Tube!Hear(who)
  BY QuietSteps DEF Ours
<1>2. IsDown /\ IsDown'
  BY DownParts, PartsNext
<1>3. CASE Tube!ReadHead \/ Tube!Dial \/ Tube!PeerClosed
  <2>1. task \in {"head", "dial", "response"} /\ pump' = pump
    BY <1>3 DEF Tube!ReadHead, Tube!Dial, Tube!PeerClosed
  <2>2. QED
    BY <2>1 DEF Positions, ProxyOff
<1>4. CASE Tube!Establish
  <2>1. task = "connected" /\ AllThere /\ (Tube!ProxyEnds \cap shut = {}) /\ deaf = {}
    BY <1>1, <1>4, EstablishDoes DEF Fresh
  <2>2. ProxyOff
    BY <2>1 DEF Positions
  <2>3. pump' # pump
    BY <2>2 DEF ProxyOff
  <2>4. /\ UNCHANGED <<route, answer, host, held, said, got, stop, fault, shut, deaf>>
        /\ Enters(<<"near", "down">>, <<"E">>) /\ task' = "relay"
        /\ pump'[<<"proxy", "up">>] = "copy" /\ pump'[<<"proxy", "down">>] = "copy"
    BY <1>4, <2>3, EstablishDoes
  <2>5. At(Down, 6)' = At(Down, 6)
    BY <2>1, <2>4, DownEstablish
  <2>6. AllThere'
    BY <2>1, <2>4, <2>5, ThereStays
  <2>7. QED
    BY <2>1, <2>4, <2>6 DEF FlowsUp, FlowsDown, Tube!ProxyEnds
<1>5. CASE Tube!ProxyDone
  <2>1. ~ProxyOff
    BY <1>5 DEF Tube!ProxyDone, ProxyOff
  <2>2. QED
    BY <1>1, <1>5, <2>1, DoneThere DEF Calm
<1>6. CASE UNCHANGED Tube!vars
  <2>1. AllThere /\ FlowsUp /\ FlowsDown
    BY <1>1, <1>6 DEF Calm, ProxyOff, Tube!vars
  <2>2. /\ UNCHANGED <<route, wire, shut, deaf, task, answer, host, pump, held, said, got>>
    BY <1>6 DEF Tube!vars
  <2>3. Middle' = Middle /\ Gap3' = Gap3 /\ Gap4' = Gap4
    BY <2>2, MiddleIs, MiddleStays
  <2>4. SameDown
    BY <2>2, <2>3 DEF SameDown
  <2>5. At(Down, 6)' = At(Down, 6)
    BY <1>2, <2>2, <2>4, DownStill
  <2>6. QED
    BY <2>1, <2>2, <2>5, ThereStays DEF FlowsUp, FlowsDown, Tube!AtEof
<1>7. CASE \E q \in Ours : Tube!CopyRead(q) \/ Tube!CopyWrite(q) \/ Tube!ProxyEof(q) \/ Tube!ProxyFails(q)
  <2>1. PICK q \in Ours : Tube!CopyRead(q) \/ Tube!CopyWrite(q) \/ Tube!ProxyEof(q) \/ Tube!ProxyFails(q)
    BY <1>7
  <2>2. q[1] = "proxy" /\ Tube!Copying(q)
    BY <2>1 DEF Ours, Tube!CopyRead, Tube!CopyWrite, Tube!ProxyEof, Tube!ProxyFails
  <2>3. task = "relay"
    BY <2>2 DEF Tube!Copying
  <2>4. AllThere /\ FlowsUp /\ FlowsDown
    BY <1>1, <2>3 DEF Calm, Positions
  <2>5. Tube!CopyRead(q) \/ Tube!CopyWrite(q) \/ Tube!ProxyEof(q)
    BY <2>1, <2>4, NoFailure
  <2>6. QED
    BY <2>4, <2>5, LoopThere, LoopFlows
<1>8. CASE \E who \in Tube!Parties : Tube!Party(who) \/ Tube!Hear(who)
  <2>1. PICK who \in Tube!Parties : Tube!Party(who) \/ Tube!Hear(who)
    BY <1>8
  <2>2. pump' = pump
    BY <2>1 DEF Tube!Party, Tube!Hear, Tube!Say, Tube!Finish
  <2>3. AllThere /\ FlowsUp /\ FlowsDown
    BY <1>1, <2>2 DEF Calm, ProxyOff
  <2>4. QED
    BY <1>1, <2>1, <2>3, PartyThere, PartyFlows
<1>9. QED
  BY <1>1, <1>3, <1>4, <1>5, <1>6, <1>7, <1>8

WireBounded == \A e \in Tube!Ends : Len(wire[e]) <= Window + 3
HeldBounded ==
  /\ \A q \in Tube!Pumps : Len(held[q]) <= Buffer
  /\ \A d \in Tube!Dirs : pump[<<"proxy", d>>] = "off" => Len(held[<<"proxy", d>>]) <= MaxPrefix

-----------------------------------------------------------------------------
(* Bounds.                                                                 *)

\* A read keeps a link within its bound.
LEMMA LeavesBounded ==
  ASSUME TubeTyped, WireBounded, NEW e \in Tube!Ends, NEW n, Leaves(e, n) PROVE WireBounded'
<1>1. wire[e] \in Seq(Tokens) /\ n \in Nat /\ 1 <= n /\ n <= Len(wire[e]) /\ wire'[e] = SubSeq(wire[e], n + 1, Len(wire[e]))
      /\ \A f \in Tube!Ends : f # e => wire'[f] = wire[f]
  BY DEF TubeTyped, Leaves
<1>2. Len(wire[e]) \in Nat
  BY <1>1, LenProperties
<1>3. Len(wire'[e]) = Len(wire[e]) + 1 - (n + 1)
  <2> DEFINE m == n + 1
             l == Len(wire[e])
  <2>1. m \in Int /\ m >= 1 /\ m <= l + 1 /\ l \in Nat /\ l <= Len(wire[e])
    BY <1>1, <1>2
  <2>2. wire'[e] = SubSeq(wire[e], m, l)
    BY <1>1
  <2> HIDE DEF m, l
  <2>3. Len(wire'[e]) = l + 1 - m
    BY ONLY <1>1, <2>1, <2>2, PartIsSeq
  <2>4. QED
    BY <2>3 DEF m, l
<1>4. Len(wire'[e]) <= Window + 3
  BY <1>1, <1>2, <1>3, Sizes DEF WireBounded
<1>5. QED
  BY <1>1, <1>4 DEF WireBounded

\* So does a write into a link with room.
LEMMA EntersBounded ==
  ASSUME TubeTyped, WireBounded, NEW e \in Tube!Ends, NEW t \in Tokens, Enters(e, <<t>>),
         wire[e] = <<>> \/ Len(wire[e]) < Window
  PROVE  WireBounded'
<1>1. wire[e] \in Seq(Tokens) /\ <<t>> \in Seq(Tokens) /\ wire'[e] = wire[e] \o <<t>>
      /\ \A f \in Tube!Ends : f # e => wire'[f] = wire[f]
  BY Singles DEF TubeTyped, Enters
<1>2. Len(wire[e]) \in Nat /\ Len(<<t>>) = 1
  BY <1>1, LenProperties
<1>3. Len(wire'[e]) = Len(wire[e]) + 1
  BY <1>1, <1>2, ConcatProperties
<1>4. Len(wire[e]) <= Window
  <2>1. wire[e] = <<>> => Len(wire[e]) = 0
    OBVIOUS
  <2>2. QED
    BY <1>2, <2>1, Sizes
<1>5. Len(wire'[e]) <= Window + 3
  BY <1>2, <1>3, <1>4, Sizes
<1>6. QED
  BY <1>1, <1>5 DEF WireBounded

\* So does a close.
LEMMA CloseBounded ==
  ASSUME TubeTyped, WireBounded, NEW E \in SUBSET Tube!Ends, Tube!Close(E) PROVE WireBounded'
<1>1. \A e \in Tube!Ends : wire'[e] = wire[e] \/ wire'[e] = <<>>
  BY Closing
<1>2. Len(<<>>) = 0 /\ 0 <= Window + 3
  BY Sizes
<1>3. QED
  BY <1>1, <1>2 DEF WireBounded

\* The bound of the links, step by step.
LEMMA WireStep ==
  ASSUME TubeTyped, Empty, Positions, WireBounded, [Tube!Next]_Tube!vars PROVE WireBounded'
<1>1. ASSUME UNCHANGED wire PROVE WireBounded'
  BY <1>1 DEF WireBounded
<1>2. ASSUME NEW E, Closes(E) PROVE WireBounded'
  BY <1>2, CloseBounded DEF Closes
<1>3. CASE Tube!ReadHead
  BY <1>3, ReadHeadDoes, LeavesBounded, NamedEnds
<1>4. CASE Tube!Dial
  <2>1. CASE route = "public"
    BY <1>1, <1>4, <2>1, DialDoes
  <2>2. CASE route # "public"
    <3>1. wire[<<"mid", "up">>] = <<>>
      BY <1>4, <2>2, DialDoes, Sizes DEF TubeTyped, Positions, Empty
    <3>2. Enters(<<"mid", "up">>, <<"F">>) /\ "F" \in Tokens
      BY <1>4, <2>2, DialDoes DEF Tokens
    <3>3. QED
      BY <3>1, <3>2, EntersBounded, NamedEnds
  <2>3. QED
    BY <2>1, <2>2
<1>5. CASE Tube!ReadResponse
  <2>1. (\E n : Leaves(<<"mid", "down">>, n)) \/ Closes({<<"mid", "up">>})
    <3>1. \/ \E n : Leaves(<<"mid", "down">>, n)
          \/ task' = "rejected"
      BY <1>5, ReadResponseDoes
    <3>2. QED
      BY <1>5, <3>1, ReadResponseOr
  <2>2. QED
    BY <1>2, <2>1, LeavesBounded, NamedEnds
<1>6. CASE Tube!Establish
  <2>1. CASE Closes(Tube!ProxyEnds)
    BY <1>2, <2>1
  <2>2. CASE task = "connected" /\ Enters(<<"near", "down">>, <<"E">>)
    <3>1. wire[<<"near", "down">>] = <<>> /\ "E" \in Tokens
      BY <2>2 DEF Positions, Empty, Tokens
    <3>2. QED
      BY <2>2, <3>1, EntersBounded, NamedEnds
  <2>3. QED
    BY <1>6, <2>1, <2>2, EstablishOr
<1>7. CASE Tube!Serve
  <2>1. /\ Len(wire[<<"mid", "up">>]) > 0
        /\ wire'[<<"mid", "up">>] = SubSeq(wire[<<"mid", "up">>], 2, Len(wire[<<"mid", "up">>]))
        /\ \A f \in Tube!Ends : f # <<"mid", "up">> /\ f # <<"mid", "down">> => wire'[f] = wire[f]
        /\ wire'[<<"mid", "down">>] = <<"O", "K", "N">> \/ wire'[<<"mid", "down">>] = <<"X">>
    BY <1>7, ServeDoes
  <2>2. Len(wire'[<<"mid", "up">>]) <= Window + 3
    <3>1. <<"mid", "up">> \in Tube!Ends /\ wire[<<"mid", "up">>] \in Seq(Tokens)
      BY NamedEnds DEF TubeTyped
    <3>2. Len(wire[<<"mid", "up">>]) \in Nat /\ Len(wire[<<"mid", "up">>]) <= Window + 3 /\ 2 \in Int
      BY <3>1, LenProperties DEF WireBounded
    <3>3. Len(wire'[<<"mid", "up">>]) = Len(wire[<<"mid", "up">>]) + 1 - 2
      BY <2>1, <3>1, <3>2, PartIsSeq
    <3>4. QED
      BY <3>2, <3>3, Sizes
  <2>3. Len(wire'[<<"mid", "down">>]) <= Window + 3
    <3>1. Len(<<"O", "K", "N">>) = 3 /\ Len(<<"X">>) = 1
      BY Glyphs
    <3>2. 3 <= Window + 3 /\ 1 <= Window + 3
      BY Sizes
    <3>3. Len(wire'[<<"mid", "down">>]) = 3 \/ Len(wire'[<<"mid", "down">>]) = 1
      BY <2>1, <3>1
    <3>4. QED
      BY <3>2, <3>3
  <2>4. QED
    BY <2>1, <2>2, <2>3 DEF WireBounded
<1>8. CASE Tube!NoResponse \/ Tube!GiveUp \/ Tube!PeerClosed \/ Tube!ServeNobody \/ (task = "relay" /\ Tube!RelayOver)
  BY <1>2, <1>8, Closings
<1>9. ASSUME NEW q \in Tube!Pumps, Tube!Loop(q) PROVE WireBounded'
  <2>1. CASE Tube!CopyRead(q)
    BY <2>1, CopyReadDoes, PlumbingEnds, LeavesBounded
  <2>2. CASE Tube!CopyWrite(q)
    <3>1. Len(wire[Tube!To(q)]) < Window /\ held[q] # <<>> /\ Enters(Tube!To(q), SubSeq(held[q], 1, 1)) /\ held[q] \in Seq(Tokens)
      BY <2>2, CopyWriteDoes DEF TubeTyped
    <3>2. Head(held[q]) \in Tokens /\ <<Head(held[q])>> = SubSeq(held[q], 1, 1)
      BY <3>1, HeadOff
    <3>3. QED
      BY <3>1, <3>2, EntersBounded, PlumbingEnds
  <2>3. CASE Tube!ProxyEof(q)
    BY <1>1, <2>3 DEF Tube!ProxyEof, Tube!HalfClose
  <2>4. CASE Tube!ProxyFails(q)
    BY <1>8, <2>4 DEF Tube!ProxyFails, Tube!Copying
  <2>5. CASE Tube!BrokerEnds(q)
    BY <1>2, <2>5, Closings
  <2>6. QED
    BY <1>9, <2>1, <2>2, <2>3, <2>4, <2>5 DEF Tube!Loop
<1>10. ASSUME NEW who \in Tube!Parties, Tube!Party(who) \/ Tube!Hear(who) \/ Tube!Abort(who) PROVE WireBounded'
  <2>1. CASE Tube!Say(who)
    <3>1. said[who] + 1 \in Tokens
      BY DEF TubeTyped, Tokens
    <3>2. QED
      BY <2>1, <3>1, SayDoes, EntersBounded, MouthEnds
  <2>2. CASE Tube!Hear(who)
    BY <2>2, HearDoes, LeavesBounded, MouthEnds
  <2>3. CASE Tube!Finish(who)
    BY <1>1, <2>3 DEF Tube!Finish
  <2>4. CASE Tube!Abort(who)
    BY <1>2, <2>4, Closings
  <2>5. QED
    BY <1>10, <2>1, <2>2, <2>3, <2>4 DEF Tube!Party
<1>11. CASE Tube!Signal \/ UNCHANGED Tube!vars
  BY <1>1, <1>11 DEF Tube!Signal, Tube!vars
<1>12. QED
  BY <1>3, <1>4, <1>5, <1>6, <1>7, <1>8, <1>9, <1>10, <1>11
     DEF Tube!Next, Tube!Proxy, Tube!Worker, Tube!Outside, Tube!ProxyForced, Tube!ProxyDone

\* No loop is started but when its relay is.
LEMMA PumpsStay ==
  ASSUME TubeTyped, [Tube!Next]_Tube!vars, NEW d \in Tube!Dirs, pump'[<<"proxy", d>>] = "off"
  PROVE  pump[<<"proxy", d>>] = "off"
<1>1. <<"proxy", d>> \in Tube!Pumps /\ d \in {"up", "down"}
  BY DEF Tube!Pumps, Tube!Dirs
<1>2. pump' = pump => pump[<<"proxy", d>>] = "off"
  OBVIOUS
<1>3. CASE Tube!Establish
  BY <1>1, <1>2, <1>3, EstablishDoes
<1>4. CASE Tube!Serve
  BY <1>1, <1>2, <1>4, ServeDoes
<1>5. CASE \E q \in Tube!Pumps : Tube!ProxyEof(q) \/ Tube!BrokerEnds(q)
  <2>1. PICK q \in Tube!Pumps : pump' = [pump EXCEPT ![q] = "done"]
    BY <1>5 DEF Tube!ProxyEof, Tube!BrokerEnds
  <2>2. QED
    BY <1>1, <2>1 DEF TubeTyped
<1>6. CASE Tube!ReadHead \/ Tube!Dial \/ Tube!ReadResponse \/ Tube!NoResponse \/ Tube!ProxyForced \/ Tube!ProxyDone \/ Tube!ServeNobody \/ Tube!Outside \/ UNCHANGED Tube!vars
  <2>1. pump' = pump
    BY <1>6 DEF Tube!ReadHead, Tube!Dial, Tube!ReadResponse, Tube!NoResponse, Tube!ProxyForced, Tube!ProxyDone, Tube!RelayOver, Tube!ServeNobody, Tube!Outside,
       Tube!GiveUp, Tube!PeerClosed, Tube!Signal, Tube!Abort, Tube!vars
  <2>2. QED
    BY <1>2, <2>1
<1>7. CASE \E q \in Tube!Pumps : Tube!CopyRead(q) \/ Tube!CopyWrite(q) \/ Tube!ProxyFails(q)
  BY <1>2, <1>7 DEF Tube!CopyRead, Tube!CopyWrite, Tube!ProxyFails, Tube!RelayOver
<1>8. CASE \E who \in Tube!Parties : Tube!Party(who) \/ Tube!Hear(who)
  BY <1>2, <1>8 DEF Tube!Party, Tube!Say, Tube!Finish, Tube!Hear
<1>9. QED
  BY <1>3, <1>4, <1>5, <1>6, <1>7, <1>8 DEF Tube!Next, Tube!Proxy, Tube!Worker, Tube!Loop

\* A loop that holds something new does so within its bounds.
LEMMA HeldNew ==
  ASSUME TubeTyped, HeldBounded, [Tube!Next]_Tube!vars, NEW q \in Tube!Pumps, HeldElse(q),
         Len(held'[q]) <= Buffer, Len(held'[q]) <= MaxPrefix \/ pump[q] # "off"
  PROVE  HeldBounded'
<1>1. \A p \in Tube!Pumps : Len(held'[p]) <= Buffer
  BY DEF HeldBounded, HeldElse
<1>2. ASSUME NEW d \in Tube!Dirs, pump'[<<"proxy", d>>] = "off" PROVE Len(held'[<<"proxy", d>>]) <= MaxPrefix
  <2>1. pump[<<"proxy", d>>] = "off" /\ <<"proxy", d>> \in Tube!Pumps
    BY <1>2, PumpsStay DEF Tube!Pumps
  <2>2. CASE q = <<"proxy", d>>
    BY <2>1, <2>2
  <2>3. CASE q # <<"proxy", d>>
    BY <2>1, <2>3 DEF HeldElse, HeldBounded
  <2>4. QED
    BY <2>2, <2>3
<1>3. QED
  BY <1>1, <1>2 DEF HeldBounded

\* The bound of what the loops hold, step by step.
LEMMA HeldStep ==
  ASSUME TubeTyped, Positions, Empty, Reply, HeldBounded, [Tube!Next]_Tube!vars PROVE HeldBounded'
<1>1. ASSUME UNCHANGED held PROVE HeldBounded'
  BY <1>1, PumpsStay DEF HeldBounded
<1>2. ASSUME NEW E, Closes(E) PROVE HeldBounded'
  BY <1>1, <1>2 DEF Closes
<1>3. CASE Tube!ReadHead
  <2> DEFINE q == <<"proxy", "up">>
             w == wire[<<"near", "up">>]
  <2>1. PICK n \in 1..ReadAhead : Leaves(<<"near", "up">>, n) /\ held'[q] = SubSeq(w, 2, n)
    BY <1>3, ReadHeadDoes
  <2>2. n \in Nat /\ 1 <= n /\ n <= Len(w) /\ w \in Seq(Tokens) /\ 2 \in Int /\ 2 <= n + 1
    BY <2>1, NamedEnds DEF TubeTyped, Leaves
  <2>3. Len(held'[q]) = n + 1 - 2
    BY <2>1, <2>2, PartIsSeq
  <2>4. n <= ReadAhead
    BY <2>1, Sizes
  <2>5. Len(held'[q]) <= MaxPrefix /\ Len(held'[q]) <= Buffer
    BY <2>2, <2>3, <2>4, Sizes
  <2>6. HeldElse(q) /\ q \in Tube!Pumps
    BY <1>3, ReadHeadDoes, NamedEnds
  <2>7. QED
    BY <2>5, <2>6, HeldNew
<1>4. CASE Tube!ReadResponse
  <2> DEFINE q == <<"proxy", "down">>
             w == wire[<<"mid", "down">>]
  <2>1. PICK n \in 1..4 :
            /\ n <= 4 - Len(answer) /\ n <= Len(w) /\ answer' = answer \o SubSeq(w, 1, n)
            /\ \/ HeldElse(q) /\ held'[q] = SubSeq(answer', 4, Len(answer')) /\ Tube!Accepted(answer')
               \/ UNCHANGED held
    BY <1>4, ReadResponseDoes
  <2>2. CASE HeldElse(q) /\ held'[q] = SubSeq(answer', 4, Len(answer')) /\ Tube!Accepted(answer')
    <3>1. answer \in Seq(Tokens) /\ w \in Seq(Tokens) /\ n \in Nat /\ Len(answer) \in Nat
      BY NamedEnds, LenProperties DEF TubeTyped
    <3>2. answer' \in Seq(Tokens) /\ Len(answer') = Len(answer) + n
      BY <2>1, <3>1, AppendedPart
    <3>3. Len(answer') >= 3
      <4>1. Len(answer') >= Len(<<"O", "K", "N">>) /\ Len(answer') \in Nat
        BY <2>2, <3>2, Glyphs, PrefixIs, LenProperties DEF Tube!Accepted
      <4>2. QED
        BY <4>1
    <3>4. Len(answer') <= 4 /\ Len(answer') \in Nat
      BY <2>1, <3>1, <3>2
    <3> DEFINE l == Len(answer')
    <3>5. l \in Nat /\ 4 \in Int /\ 4 >= 1 /\ 4 <= l + 1 /\ l <= Len(answer')
      BY <3>3, <3>4
    <3>6. Len(SubSeq(answer', 4, l)) = l + 1 - 4
      BY ONLY <3>2, <3>5, PartIsSeq
    <3>7. Len(held'[q]) = l + 1 - 4
      BY <2>2, <3>6
    <3>8. Len(held'[q]) <= MaxPrefix /\ Len(held'[q]) <= Buffer
      BY <3>4, <3>7, Sizes
    <3>9. QED
      BY <2>2, <3>8, HeldNew, NamedEnds
  <2>3. QED
    BY <1>1, <2>1, <2>2
<1>5. CASE Tube!Dial \/ Tube!Establish \/ Tube!Serve
  BY <1>1, <1>5, DialDoes, EstablishDoes, ServeDoes
<1>6. CASE Tube!NoResponse \/ Tube!GiveUp \/ Tube!PeerClosed \/ Tube!ServeNobody \/ (task = "relay" /\ Tube!RelayOver)
  BY <1>2, <1>6, Closings
<1>7. ASSUME NEW q \in Tube!Pumps, Tube!Loop(q) PROVE HeldBounded'
  <2>1. CASE Tube!CopyRead(q)
    <3>1. PICK n \in 1..Buffer : Leaves(Tube!From(q), n) /\ held'[q] = held[q] \o SubSeq(wire[Tube!From(q)], 1, n)
      BY <2>1, CopyReadDoes
    <3>2. held[q] = <<>> /\ pump[q] # "off" /\ HeldElse(q)
      BY <2>1, CopyReadDoes DEF Tube!Copying
    <3>3. n \in Nat /\ n <= Len(wire[Tube!From(q)]) /\ wire[Tube!From(q)] \in Seq(Tokens) /\ held[q] \in Seq(Tokens) /\ n <= Buffer
      BY <3>1, PlumbingEnds, Sizes DEF Leaves, TubeTyped
    <3>4. Len(held'[q]) = Len(held[q]) + n
      BY <3>1, <3>3, AppendedPart
    <3>5. Len(held'[q]) <= Buffer
      BY <3>2, <3>3, <3>4
    <3>6. QED
      BY <3>2, <3>5, HeldNew
  <2>2. CASE Tube!CopyWrite(q)
    <3>1. held[q] # <<>> /\ held'[q] = SubSeq(held[q], 2, Len(held[q])) /\ HeldElse(q) /\ pump[q] # "off" /\ held[q] \in Seq(Tokens)
      BY <2>2, CopyWriteDoes DEF Tube!Copying, TubeTyped
    <3> DEFINE l == Len(held[q])
    <3>2. l \in Nat /\ 2 \in Int /\ 2 >= 1 /\ 2 <= l + 1 /\ l <= Len(held[q])
      BY <3>1, LenProperties
    <3>3. Len(SubSeq(held[q], 2, l)) = l + 1 - 2
      BY ONLY <3>1, <3>2, PartIsSeq
    <3>4. l <= Buffer
      BY DEF HeldBounded
    <3>5. Len(held'[q]) = l - 1
      BY <3>1, <3>2, <3>3
    <3>6. Len(held'[q]) <= Buffer
      BY <3>2, <3>4, <3>5, Sizes
    <3>7. QED
      BY <3>1, <3>6, HeldNew
  <2>3. CASE Tube!ProxyEof(q)
    BY <1>1, <2>3 DEF Tube!ProxyEof
  <2>4. CASE Tube!ProxyFails(q)
    BY <1>6, <2>4 DEF Tube!ProxyFails, Tube!Copying
  <2>5. CASE Tube!BrokerEnds(q)
    BY <1>1, <2>5 DEF Tube!BrokerEnds
  <2>6. QED
    BY <1>7, <2>1, <2>2, <2>3, <2>4, <2>5 DEF Tube!Loop
<1>8. CASE \E who \in Tube!Parties : Tube!Party(who) \/ Tube!Hear(who) \/ Tube!Abort(who)
  BY <1>1, <1>8 DEF Tube!Party, Tube!Say, Tube!Finish, Tube!Hear, Tube!Abort
<1>9. CASE Tube!Signal \/ UNCHANGED Tube!vars
  BY <1>1, <1>9 DEF Tube!Signal, Tube!vars
<1>10. QED
  BY <1>3, <1>4, <1>5, <1>6, <1>7, <1>8, <1>9
     DEF Tube!Next, Tube!Proxy, Tube!Worker, Tube!Outside, Tube!ProxyForced, Tube!ProxyDone

\* Nobody says more than is to be said.
LEMMA SaidStep ==
  ASSUME TubeTyped, Said, [Tube!Next]_Tube!vars PROVE Said'
<1>1. ASSUME UNCHANGED said PROVE Said'
  BY <1>1 DEF Said, Tube!Bytes
<1>2. CASE \E who \in Tube!Parties : Tube!Say(who)
  <2>1. PICK who \in Tube!Parties : Tube!Say(who)
    BY <1>2
  <2>2. said[who] < Tube!Bytes(who) /\ said'[who] = said[who] + 1 /\ \A w \in Tube!Parties : w # who => said'[w] = said[w]
    BY <2>1, SayDoes
  <2>3. said[who] \in Nat /\ Tube!Bytes(who) \in Nat
    BY Sizes DEF TubeTyped, Tube!Bytes
  <2>4. said'[who] <= Tube!Bytes(who)
    BY <2>2, <2>3
  <2>5. ASSUME NEW w \in Tube!Parties PROVE said'[w] <= Tube!Bytes(w)
    BY <2>2, <2>4 DEF Said
  <2>6. QED
    BY <2>5 DEF Said, Tube!Bytes
<1>3. Tube!Proxy \/ Tube!Worker \/ Tube!Outside => UNCHANGED said
  BY DEF Tube!Proxy, Tube!ReadHead, Tube!Dial, Tube!ReadResponse, Tube!NoResponse, Tube!Establish, Tube!ProxyForced, Tube!ProxyDone, Tube!RelayOver,
     Tube!Worker, Tube!Serve, Tube!ServeNobody, Tube!Outside, Tube!GiveUp, Tube!PeerClosed, Tube!Signal, Tube!Abort
<1>4. \A q \in Tube!Pumps : Tube!Loop(q) => UNCHANGED said
  BY DEF Tube!Loop, Tube!CopyRead, Tube!CopyWrite, Tube!ProxyEof, Tube!ProxyFails, Tube!RelayOver, Tube!BrokerEnds
<1>5. \A who \in Tube!Parties : Tube!Finish(who) \/ Tube!Hear(who) => UNCHANGED said
  BY DEF Tube!Finish, Tube!Hear
<1>6. QED
  BY <1>1, <1>2, <1>3, <1>4, <1>5 DEF Tube!Next, Tube!Party, Tube!vars

-----------------------------------------------------------------------------
(* The invariant.                                                          *)

\* The invariant at the beginning, part by part.
LEMMA InitTyped == Tube!Init => TubeTyped
<1> SUFFICES ASSUME Tube!Init PROVE TubeTyped
  OBVIOUS
<1>1. /\ <<>> \in Seq(Tokens) /\ <<"H">> \in Seq(Tokens)
  <2>1. "H" \in Tokens
    BY DEF Tokens
  <2>2. QED
    BY <2>1, Singles, Glyphs
<1>2. QED
  BY <1>1 DEF Tube!Init, TubeTyped

LEMMA InitPlaces == Tube!Init => Positions /\ Empty /\ Reply /\ Gone /\ Said
<1> SUFFICES ASSUME Tube!Init PROVE Positions /\ Empty /\ Reply /\ Gone /\ Said
  OBVIOUS
<1>1. /\ \A q \in Tube!Pumps : pump[q] = "off" /\ held[q] = <<>>
      /\ \A e \in Tube!Ends : e # <<"near", "up">> => wire[e] = <<>>
      /\ \A who \in Tube!Parties : said[who] = 0 /\ got[who] = <<>>
  BY DEF Tube!Init
<1>2. shut = {} /\ deaf = {} /\ task = "head" /\ answer = <<>> /\ host = "none" /\ route \in {"public", "local"}
  BY Sizes DEF Tube!Init
<1>3. Positions
  BY <1>1, <1>2, NamedEnds DEF Positions, ProxyOff, BrokerOff
<1>4. Empty
  BY <1>1, <1>2, NamedEnds DEF Empty, ProxyOff, BrokerOff, Free, Tube!CannotWrite, Tube!Parties
<1>5. Reply /\ Gone
  BY <1>2 DEF Reply, Gone
<1>6. Said
  BY <1>1, Sizes DEF Said, Tube!Bytes
<1>7. QED
  BY <1>3, <1>4, <1>5, <1>6

LEMMA InitBounded == Tube!Init => HeldBounded /\ WireBounded
<1> SUFFICES ASSUME Tube!Init PROVE HeldBounded /\ WireBounded
  OBVIOUS
<1>1. /\ \A q \in Tube!Pumps : held[q] = <<>>
      /\ \A e \in Tube!Ends : wire[e] = <<>> \/ wire[e] = <<"H">>
  BY DEF Tube!Init
<1>2. Len(<<>>) = 0 /\ Len(<<"H">>) = 1
  OBVIOUS
<1>3. 0 <= Buffer /\ 0 <= MaxPrefix /\ 1 <= Window + 3 /\ 0 <= Window + 3
  BY Sizes
<1>4. \A d \in Tube!Dirs : <<"proxy", d>> \in Tube!Pumps
  BY DEF Tube!Pumps
<1>5. HeldBounded
  BY <1>1, <1>2, <1>3, <1>4 DEF HeldBounded
<1>6. \A e \in Tube!Ends : Len(wire[e]) = 0 \/ Len(wire[e]) = 1
  BY <1>1, <1>2
<1>7. WireBounded
  BY <1>3, <1>6 DEF WireBounded
<1>8. QED
  BY <1>5, <1>7

LEMMA InitUp == Tube!Init => Chain("up", Up)
<1> SUFFICES ASSUME Tube!Init PROVE Chain("up", Up)
  OBVIOUS
<1>1. IsUp /\ Link(Up)
  BY InitTyped, UpParts DEF IsUp
<1>2. /\ \A q \in Tube!Pumps : held[q] = <<>>
      /\ \A e \in Tube!Ends : e # <<"near", "up">> => wire[e] = <<>>
      /\ wire[<<"near", "up">>] = <<"H">> /\ said["client"] = 0 /\ got["service"] = <<>> /\ host = "none" /\ task = "head"
  BY NamedEnds DEF Tube!Init, Tube!Parties
<1>3. /\ Stage(Up, 0) = <<>> /\ Stage(Up, 1) = <<>> /\ Stage(Up, 2) = <<>> /\ Stage(Up, 3) = <<>> /\ Stage(Up, 4) = <<>> /\ Stage(Up, 5) = <<"H">>
      /\ Sent(Up) = 0
  BY <1>1, <1>2, NamedEnds DEF IsUp
<1>4. Gap(Up, 0) = 0 /\ Gap(Up, 1) = 0 /\ Gap(Up, 2) = 0 /\ Gap(Up, 3) = 0 /\ Gap(Up, 4) = 0 /\ Gap(Up, 5) = -1
  BY <1>1, <1>2 DEF IsUp
<1>5. Size(Up, 0) = 0 /\ Size(Up, 1) = 0 /\ Size(Up, 2) = 0 /\ Size(Up, 3) = 0 /\ Size(Up, 4) = 0 /\ Size(Up, 5) = 1
  BY <1>3 DEF Size
<1>6. At(Up, 0) = 0 /\ At(Up, 1) = 0 /\ At(Up, 2) = 0 /\ At(Up, 3) = 0 /\ At(Up, 4) = 0 /\ At(Up, 5) = -1 /\ At(Up, 6) = 0
  BY <1>1, <1>4, <1>5, Grounds
<1>7. Runs("up", 5, <<"H">>, -1)
  BY DEF Runs, Token
<1>8. ASSUME NEW k \in {0, 1, 2, 3, 4} PROVE Good("up", Up, k)
  <2>1. Stage(Up, k) = <<>> /\ Size(Up, k) = 0 /\ At(Up, k) = 0
    BY <1>3, <1>5, <1>6
  <2>2. QED
    BY <1>3, <2>1, EmptyRuns DEF Good
<1>9. Good("up", Up, 5)
  BY <1>3, <1>5, <1>6, <1>7 DEF Good
<1>10. Good("up", Up, 6)
  BY <1>3, <1>6 DEF Good
<1>11. QED
  BY <1>8, <1>9, <1>10, Stages DEF Chain

LEMMA InitDown == Tube!Init => Chain("down", Down) /\ At(Down, 6) = 0
<1> SUFFICES ASSUME Tube!Init PROVE Chain("down", Down) /\ At(Down, 6) = 0
  OBVIOUS
<1>1. IsDown /\ Link(Down)
  BY InitTyped, DownParts DEF IsDown
<1>2. /\ \A q \in Tube!Pumps : held[q] = <<>>
      /\ \A e \in Tube!Ends : e # <<"near", "up">> => wire[e] = <<>>
      /\ said["service"] = 0 /\ got["client"] = <<>> /\ host = "none" /\ task = "head" /\ answer = <<>>
      /\ pump[<<"proxy", "down">>] = "off"
  BY NamedEnds DEF Tube!Init, Tube!Parties
<1>3. /\ Stage(Down, 0) = <<>> /\ Stage(Down, 1) = <<>> /\ Stage(Down, 2) = <<>> /\ Stage(Down, 3) = <<>> /\ Stage(Down, 4) = <<>> /\ Stage(Down, 5) = <<>>
      /\ Sent(Down) = 0
  BY <1>1, <1>2, NamedEnds DEF IsDown
<1>4. /\ Gap(Down, 0) = -1 /\ Gap(Down, 1) = 0 /\ Gap(Down, 2) = 1 /\ Gap(Down, 5) = 0
      /\ (Gap(Down, 3) = 0 /\ Gap(Down, 4) = 0) \/ (Gap(Down, 3) = -3 /\ Gap(Down, 4) = 3)
  <2>1. Len(answer) = 0
    BY <1>2
  <2>2. Gap(Down, 0) = -1 /\ Gap(Down, 1) = 0 /\ Gap(Down, 2) = 1 /\ Gap(Down, 5) = 0
    BY <1>1, <1>2 DEF IsDown
  <2>3. CASE Asking
    <3>1. Gap(Down, 3) = 0 - 3 /\ Gap(Down, 4) = 3 - 0
      BY <1>1, <1>2, <2>1, <2>3 DEF IsDown
    <3>2. QED
      BY <2>2, <3>1
  <2>4. CASE ~Asking
    BY <1>1, <2>2, <2>4 DEF IsDown
  <2>5. QED
    BY <2>3, <2>4
<1>5. Size(Down, 0) = 0 /\ Size(Down, 1) = 0 /\ Size(Down, 2) = 0 /\ Size(Down, 3) = 0 /\ Size(Down, 4) = 0 /\ Size(Down, 5) = 0
  BY <1>3 DEF Size
<1>6. /\ At(Down, 0) = -1 /\ At(Down, 1) = -1 /\ At(Down, 2) = 0 /\ At(Down, 3) \in {0, -3} /\ At(Down, 4) = 0
      /\ At(Down, 5) = 0 /\ At(Down, 6) = 0
  <2>1. /\ At(Down, 0) = Gap(Down, 0) /\ At(Down, 1) = At(Down, 0) + Size(Down, 0) + Gap(Down, 1)
        /\ At(Down, 2) = At(Down, 1) + Size(Down, 1) + Gap(Down, 2) /\ At(Down, 3) = At(Down, 2) + Size(Down, 2) + Gap(Down, 3)
        /\ At(Down, 4) = At(Down, 3) + Size(Down, 3) + Gap(Down, 4) /\ At(Down, 5) = At(Down, 4) + Size(Down, 4) + Gap(Down, 5)
        /\ At(Down, 6) = At(Down, 5) + Size(Down, 5)
    BY <1>1, Grounds
  <2>2. At(Down, 0) = -1 /\ At(Down, 1) = -1 /\ At(Down, 2) = 0
    BY ONLY <1>4, <1>5, <2>1
  <2>3. CASE Gap(Down, 3) = 0 /\ Gap(Down, 4) = 0
    BY ONLY <1>4, <1>5, <2>1, <2>2, <2>3
  <2>4. CASE Gap(Down, 3) = -3 /\ Gap(Down, 4) = 3
    BY ONLY <1>4, <1>5, <2>1, <2>2, <2>4
  <2>5. QED
    BY <1>4, <2>3, <2>4
<1>7. ASSUME NEW k \in {0, 1, 2, 3, 4, 5} PROVE Good("down", Down, k)
  <2>1. Stage(Down, k) = <<>> /\ Size(Down, k) = 0 /\ At(Down, k) \in {0, -1, -3} /\ (k \in {2, 4} => At(Down, k) = 0)
    BY <1>3, <1>5, <1>6
  <2>2. QED
    BY <1>3, <2>1, EmptyRuns DEF Good
<1>8. Good("down", Down, 6)
  BY <1>3, <1>6 DEF Good
<1>9. QED
  BY <1>6, <1>7, <1>8, Stages DEF Chain

LEMMA InitCalm == Tube!Init => Calm /\ Fresh
<1> SUFFICES ASSUME Tube!Init PROVE Calm /\ Fresh
  OBVIOUS
<1>1. At(Down, 6) = said["service"] /\ shut = {} /\ deaf = {}
  BY InitDown DEF Tube!Init, Tube!Parties
<1>2. ProxyOff
  BY NamedEnds DEF Tube!Init, ProxyOff
<1>3. QED
  BY <1>1, <1>2 DEF Calm, Fresh, AllThere

TubeInv ==
  /\ TubeTyped /\ Positions /\ Empty /\ Reply /\ Gone /\ Said
  /\ Chain("up", Up) /\ Chain("down", Down)
  /\ Fresh /\ Calm /\ HeldBounded /\ WireBounded

\* The invariant is inductive.
LEMMA TubeInit == Tube!Init => TubeInv
BY InitTyped, InitPlaces, InitBounded, InitUp, InitDown, InitCalm DEF TubeInv

LEMMA TubeStep == TubeInv /\ [Tube!Next]_Tube!vars => TubeInv'
<1> SUFFICES ASSUME TubeInv, [Tube!Next]_Tube!vars PROVE TubeInv'
  OBVIOUS
<1>1. /\ TubeTyped /\ Positions /\ Empty /\ Reply /\ Gone /\ Said
      /\ Chain("up", Up) /\ Chain("down", Down)
      /\ Fresh /\ Calm /\ HeldBounded /\ WireBounded
  BY DEF TubeInv
<1>2. TubeTyped'
  BY <1>1, TypedStep
<1>3. Positions'
  BY <1>1, PlacesStep
<1>4. Empty' /\ Reply' /\ Gone'
  BY <1>1, <1>2, <1>3, EmptyStep, ReplyStep, GoneStep
<1>5. Chain("up", Up)' /\ Chain("down", Down)'
  BY <1>1, <1>2, UpStep, DownStep
<1>6. Fresh' /\ Calm'
  BY <1>1, <1>2, FreshStep, CalmStep
<1>7. Said' /\ HeldBounded' /\ WireBounded'
  BY <1>1, SaidStep, HeldStep, WireStep
<1>8. QED
  BY <1>2, <1>3, <1>4, <1>5, <1>6, <1>7 DEF TubeInv

\* The invariant gives what is claimed: the types,
LEMMA TubeIsTyped == TubeInv => Tube!TypeOK
<1> SUFFICES ASSUME TubeInv PROVE Tube!TypeOK
  OBVIOUS
<1>1. TubeTyped /\ HeldBounded /\ WireBounded
  BY DEF TubeInv
<1>2. QED
  BY <1>1 DEF TubeTyped, HeldBounded, WireBounded, Tube!TypeOK

\* (what the parties have to say)
LEMMA Scripts == ASSUME NEW n \in Nat PROVE Tube!Script(n) \in Seq(Tokens) /\ Len(Tube!Script(n)) = n /\ \A i \in 1..n : Tube!Script(n)[i] = i
<1>1. \A i \in 1..n : i \in Tokens
  BY DEF Tokens
<1>2. Tube!Script(n) \in [1..n -> Tokens]
  BY <1>1 DEF Tube!Script
<1>3. Tube!Script(n) \in Seq(Tokens)
  BY <1>2 DEF Tube!Script
<1>4. Len(Tube!Script(n)) = n
  <2>1. DOMAIN Tube!Script(n) = 1..n /\ DOMAIN Tube!Script(n) = 1..Len(Tube!Script(n)) /\ Len(Tube!Script(n)) \in Nat
    BY <1>3, LenProperties DEF Tube!Script
  <2>2. QED
    BY <2>1
<1>5. QED
  BY <1>3, <1>4 DEF Tube!Script

\* What was received starts as it must.
LEMMA Received ==
  ASSUME TubeInv
  PROVE  /\ got["service"] \in Seq(Tokens) /\ Len(got["service"]) \in Nat /\ Len(got["service"]) <= said["client"]
         /\ \A i \in 1..Len(got["service"]) : got["service"][i] = i
         /\ got["client"] \in Seq(Tokens) /\ Len(got["client"]) \in Nat /\ Len(got["client"]) - 1 <= said["service"]
         /\ Len(got["client"]) > 0 => got["client"][1] = "E"
         /\ \A i \in 1..Len(got["client"]) : i > 1 => got["client"][i] = i - 1
         /\ said["client"] \in Nat /\ said["service"] \in Nat /\ said["client"] <= ClientBytes /\ said["service"] <= ServiceBytes
<1>1. TubeTyped /\ Chain("up", Up) /\ Chain("down", Down) /\ Said
  BY DEF TubeInv
<1>2. IsUp /\ IsDown
  BY <1>1, UpParts, DownParts
<1>3. Good("up", Up, 0) /\ Good("down", Down, 0)
  <2>1. 0 \in 0..6 /\ Clear(Up, 0) /\ Clear(Down, 0)
    BY DEF Clear
  <2>2. QED
    BY <1>1, <2>1 DEF Chain
<1>4. At(Up, 0) = 0 /\ At(Down, 0) = -1
  BY <1>2, Grounds DEF IsUp, IsDown
<1>5. Stage(Up, 0) = got["service"] /\ Stage(Down, 0) = got["client"] /\ Sent(Up) = said["client"] /\ Sent(Down) = said["service"]
  BY <1>2 DEF IsUp, IsDown
<1>6. /\ Runs("up", 0, got["service"], 0) /\ 0 + Len(got["service"]) <= said["client"]
      /\ Runs("down", 0, got["client"], -1) /\ -1 + Len(got["client"]) <= said["service"]
  BY <1>3, <1>4, <1>5 DEF Good, Size
<1>7. /\ got["service"] \in Seq(Tokens) /\ Len(got["service"]) \in Nat
      /\ got["client"] \in Seq(Tokens) /\ Len(got["client"]) \in Nat
  BY <1>1, LenProperties DEF TubeTyped, Tube!Parties
<1>8. said["client"] \in Nat /\ said["service"] \in Nat /\ said["client"] <= ClientBytes /\ said["service"] <= ServiceBytes
  <2>1. "client" \in Tube!Parties /\ "service" \in Tube!Parties /\ Tube!Bytes("client") = ClientBytes /\ Tube!Bytes("service") = ServiceBytes
    BY DEF Tube!Parties, Tube!Bytes
  <2>2. QED
    BY <1>1, <2>1 DEF TubeTyped, Said
<1>9. \A i \in 1..Len(got["service"]) : got["service"][i] = i
  BY <1>6, <1>7 DEF Runs, Token
<1>10. \A i \in 1..Len(got["client"]) : i > 1 => got["client"][i] = i - 1
  <2> TAKE i \in 1..Len(got["client"])
  <2> HAVE i > 1
  <2>1. got["client"][i] = Token("down", 0, -1 + i)
    BY <1>6 DEF Runs
  <2>2. -1 + i > 0 /\ -1 + i = i - 1
    OBVIOUS
  <2>3. QED
    BY <2>1, <2>2 DEF Token
<1>11. Len(got["client"]) > 0 => got["client"][1] = "E"
  <2> HAVE Len(got["client"]) > 0
  <2>1. got["client"][1] = Token("down", 0, -1 + 1)
    BY <1>6, <1>7 DEF Runs
  <2>2. ~(-1 + 1 > 0)
    OBVIOUS
  <2>3. QED
    BY <2>1, <2>2 DEF Token
<1>12. QED
  BY <1>6, <1>7, <1>8, <1>9, <1>10, <1>11

\* The bytes the client has got are those of the service, counted from one.
LEMMA ClientGets ==
  ASSUME TubeInv
  PROVE  /\ Tube!ClientGot \in Seq(Tokens) /\ Len(Tube!ClientGot) \in Nat /\ Len(Tube!ClientGot) <= said["service"]
         /\ Tube!Tunnelled => Len(Tube!ClientGot) = Len(got["client"]) - 1
         /\ \A i \in 1..Len(Tube!ClientGot) : Tube!ClientGot[i] = i
<1>1. CASE Tube!Tunnelled
  <2> DEFINE g == got["client"]
             t == Tail(g)
  <2>1. g \in Seq(Tokens) /\ g # <<>> /\ Len(g) \in Nat /\ Len(g) - 1 <= said["service"]
        /\ \A i \in 1..Len(g) : i > 1 => g[i] = i - 1
    BY <1>1, Received DEF Tube!Tunnelled
  <2> HIDE DEF g
  <2>2. t \in Seq(Tokens) /\ Len(t) = Len(g) - 1 /\ \A i \in 1..Len(t) : t[i] = g[i + 1]
    BY <2>1, HeadTailProperties
  <2>3. Len(t) \in Nat
    BY <2>2, LenProperties
  <2> HIDE DEF t
  <2>4. ASSUME NEW i \in 1..Len(t) PROVE t[i] = i
    <3>1. i + 1 \in 1..Len(g) /\ i + 1 > 1 /\ i + 1 - 1 = i
      BY <2>1, <2>2, <2>3
    <3>2. QED
      BY <2>1, <2>2, <3>1
  <2>5. Tube!ClientGot = t
    BY <1>1 DEF Tube!ClientGot, t, g
  <2>6. QED
    BY <2>1, <2>2, <2>3, <2>4, <2>5 DEF g
<1>2. CASE ~Tube!Tunnelled
  <2>1. Tube!ClientGot = <<>> /\ Len(<<>>) = 0 /\ <<>> \in Seq(Tokens)
    BY <1>2, Glyphs DEF Tube!ClientGot
  <2>2. said["service"] \in Nat
    BY Received
  <2>3. QED
    BY <1>2, <2>1, <2>2
<1>3. QED
  BY <1>1, <1>2

\* that nothing is lost or out of order,
LEMMA TubeLossless == TubeInv => Tube!Lossless
<1> SUFFICES ASSUME TubeInv PROVE Tube!Lossless
  OBVIOUS
<1>1. ClientBytes \in Nat /\ ServiceBytes \in Nat
  BY Sizes
<1>2. Tube!IsPrefix(got["service"], Tube!Script(ClientBytes))
  <2>1. got["service"] \in Seq(Tokens) /\ Len(got["service"]) \in Nat /\ Len(got["service"]) <= said["client"]
        /\ said["client"] \in Nat /\ said["client"] <= ClientBytes
        /\ \A i \in 1..Len(got["service"]) : got["service"][i] = i
    BY Received
  <2>2. Tube!Script(ClientBytes) \in Seq(Tokens) /\ Len(Tube!Script(ClientBytes)) = ClientBytes /\ \A i \in 1..ClientBytes : Tube!Script(ClientBytes)[i] = i
    BY <1>1, Scripts
  <2>3. Len(got["service"]) <= Len(Tube!Script(ClientBytes)) /\ \A i \in 1..Len(got["service"]) : got["service"][i] = Tube!Script(ClientBytes)[i]
    BY <1>1, <2>1, <2>2
  <2>4. QED
    BY <2>1, <2>2, <2>3, PrefixIs
<1>3. Tube!IsPrefix(Tube!ClientGot, Tube!Script(ServiceBytes))
  <2>1. Tube!ClientGot \in Seq(Tokens) /\ Len(Tube!ClientGot) \in Nat /\ Len(Tube!ClientGot) <= said["service"]
        /\ said["service"] \in Nat /\ said["service"] <= ServiceBytes
        /\ \A i \in 1..Len(Tube!ClientGot) : Tube!ClientGot[i] = i
    BY Received, ClientGets
  <2>2. Tube!Script(ServiceBytes) \in Seq(Tokens) /\ Len(Tube!Script(ServiceBytes)) = ServiceBytes /\ \A i \in 1..ServiceBytes : Tube!Script(ServiceBytes)[i] = i
    BY <1>1, Scripts
  <2>3. Len(Tube!ClientGot) <= Len(Tube!Script(ServiceBytes)) /\ \A i \in 1..Len(Tube!ClientGot) : Tube!ClientGot[i] = Tube!Script(ServiceBytes)[i]
    BY <1>1, <2>1, <2>2
  <2>4. QED
    BY <2>1, <2>2, <2>3, PrefixIs
<1>4. Tube!Tunnelled => got["client"][1] = "E"
  <2> HAVE Tube!Tunnelled
  <2>1. got["client"] \in Seq(Tokens) /\ got["client"] # <<>>
    BY Received DEF Tube!Tunnelled
  <2>2. Len(got["client"]) > 0
    BY <2>1, HeadOff
  <2>3. QED
    BY <2>2, Received
<1>5. QED
  BY <1>2, <1>3, <1>4 DEF Tube!Lossless

\* that an answer is understood,
LEMMA TubeAnswers == TubeInv => Tube!AnswerIsUnderstood
BY DEF TubeInv, Positions, Reply, Tube!AnswerIsUnderstood

\* Nothing is on its way any more.
LEMMA TubeEnds == TubeInv => Tube!EofIsTheEnd
<1> SUFFICES ASSUME TubeInv, route = "public", Tube!Undisturbed, Tube!Tunnelled, Tube!AtEof(<<"near", "down">>)
             PROVE  said["service"] = ServiceBytes /\ Tube!ClientGot = Tube!Script(ServiceBytes)
  BY DEF Tube!EofIsTheEnd
<1>1. TubeTyped /\ Positions /\ Empty /\ Calm
  BY DEF TubeInv
<1>2. ~ProxyOff
  BY <1>1 DEF Empty, Tube!Tunnelled
<1>3. AllThere /\ FlowsDown
  BY <1>1, <1>2 DEF Calm, Quiet
<1>4. wire[<<"near", "down">>] = <<>> /\ held[<<"proxy", "down">>] = <<>> /\ wire[<<"mid", "down">>] = <<>>
      /\ <<"mid", "down">> \in shut
  BY <1>3 DEF FlowsDown, Tube!AtEof
<1>5. said["service"] = ServiceBytes /\ At(Down, 6) = ServiceBytes
  BY <1>3, <1>4 DEF AllThere
<1>6. held[<<"broker", "down">>] = <<>> /\ wire[<<"far", "down">>] = <<>>
  BY <1>1 DEF Positions, Empty
<1>7. IsDown
  BY <1>1, DownParts
<1>8. /\ Stage(Down, 1) = <<>> /\ Stage(Down, 2) = <<>> /\ Stage(Down, 3) = <<>> /\ Stage(Down, 4) = <<>> /\ Stage(Down, 5) = <<>>
      /\ Stage(Down, 0) = got["client"]
  BY <1>4, <1>6, <1>7 DEF IsDown
<1>9. ~Asking /\ pump[<<"proxy", "down">>] # "off"
  BY <1>1, <1>2 DEF Asking, Positions
<1>10. Gap(Down, 0) = -1 /\ Gap(Down, 1) = 0 /\ Gap(Down, 2) = 0 /\ Gap(Down, 3) = 0 /\ Gap(Down, 4) = 0 /\ Gap(Down, 5) = 0
  BY <1>7, <1>9 DEF IsDown
<1>11. Size(Down, 1) = 0 /\ Size(Down, 2) = 0 /\ Size(Down, 3) = 0 /\ Size(Down, 4) = 0 /\ Size(Down, 5) = 0 /\ Size(Down, 0) = Len(got["client"])
  BY <1>8 DEF Size
<1>12. At(Down, 6) = Len(got["client"]) - 1
  BY <1>7, <1>10, <1>11, Grounds DEF IsDown
<1>13. Len(Tube!ClientGot) = ServiceBytes /\ Tube!ClientGot \in Seq(Tokens) /\ \A i \in 1..Len(Tube!ClientGot) : Tube!ClientGot[i] = i
  BY <1>5, <1>12, ClientGets
<1>14. ServiceBytes \in Nat
  BY Sizes
<1>15. Tube!Script(ServiceBytes) \in Seq(Tokens) /\ Len(Tube!Script(ServiceBytes)) = ServiceBytes /\ \A i \in 1..ServiceBytes : Tube!Script(ServiceBytes)[i] = i
  BY <1>14, Scripts
<1>16. Tube!ClientGot = Tube!Script(ServiceBytes)
  BY <1>13, <1>15, SeqEqual
<1>17. QED
  BY <1>5, <1>16

(* Whatever is read together with the request's head or with the answer of *)
(* the broker, in whatever pieces links and loops carry it, and whoever    *)
(* closes, aborts or is told to stop at whatever time: client and service  *)
(* receive a prefix of what the other sent, the client after the head of   *)
(* the success (into_buffered_io of http1.rs, read_response of             *)
(* connect/broker.rs, copy_direction of relay.rs, relay of                 *)
(* cli/src/broker.rs); an exchange with the broker succeeds only on its    *)
(* OK; and the end of an undisturbed tunnel to a public service is the end *)
(* of what the service sent.  For any sizes of the links and of the        *)
(* buffers, and any lengths of what is said.                               *)
THEOREM TunnelsAreFaithful == Tube!Spec => []TunnelIsFaithful
<1>1. TubeInv => TunnelIsFaithful
  BY TubeIsTyped, TubeLossless, TubeAnswers, TubeEnds DEF TunnelIsFaithful, Tube!TunnelIsFaithful
<1>2. QED
  BY <1>1, TubeInit, TubeStep, PTL DEF Tube!Spec
=============================================================================
