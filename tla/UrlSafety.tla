------------------------------ MODULE UrlSafety ------------------------------
(***************************************************************************)
(* The network a target's host belongs to (packages/shared/src/safety.ts). *)
(* A host is what the URL parser left of it: the labels of a name, four    *)
(* octets, or the text of an IPv6 literal, a sequence of groups and        *)
(* colons. The URL parser leaves no quad of octets at the end of one, but  *)
(* who calls parseIpv6 or classifyHost otherwise may write it.             *)
(***************************************************************************)
EXTENDS Integers, Sequences, FiniteSetsExt

CONSTANTS
  LocalNames,                \* LOCAL_HOSTNAMES
  LocalSuffixes              \* LOCAL_SUFFIXES, as sequences of labels

Colon == -1
NoGroups == <<-1>>           \* undefined

\* group & mask, where the mask clears the bits that count to open.
Masked(group, open) == group - (group % open)

classifyIpv4(o) ==
  LET a == o[1]
      b == o[2]
      c == o[3]
  IN CASE a = 0 -> "unspecified"
       [] a = 127 -> "loopback"
       [] a = 10 -> "private"
       [] a = 172 /\ b \in 16..31 -> "private"
       [] a = 192 /\ b = 168 -> "private"
       [] a = 169 /\ b = 254 -> "link-local"
       [] a = 100 /\ b \in 64..127 -> "carrier-grade-nat"
       [] a \in 224..239 -> "multicast"
       [] a >= 240 -> "reserved"
       [] <<a, b, c>> \in {<<192, 0, 2>>, <<198, 51, 100>>, <<203, 0, 113>>, <<192, 0, 0>>}
            -> "reserved"
       [] a = 198 /\ b \in {18, 19} -> "reserved"
       [] OTHER -> "public"

Quad(high, low) == <<high \div 256, high % 256, low \div 256, low % 256>>

\* Mutant: the compatible form is not looked into.
EmbedsMappedOnly(g) == (\A i \in 1..5 : g[i] = 0) /\ g[6] = 65535

\* ::ffff:a.b.c.d, or ::a.b.c.d other than :: and ::1.
embeddedIpv4(g) ==
  /\ \A i \in 1..5 : g[i] = 0
  /\ g[6] = 65535 \/ (g[6] = 0 /\ (g[7] # 0 \/ g[8] > 1))

classifyIpv6(g) ==
  IF embeddedIpv4(g) THEN classifyIpv4(Quad(g[7], g[8]))
  ELSE CASE \A i \in 1..8 : g[i] = 0 -> "unspecified"
         [] (\A i \in 1..7 : g[i] = 0) /\ g[8] = 1 -> "loopback"
         [] Masked(g[1], 512) = 64512 -> "private"
         [] Masked(g[1], 64) = 65152 -> "link-local"
         [] Masked(g[1], 256) = 65280 -> "multicast"
         [] g[1] = 8193 /\ g[2] = 3512 -> "reserved"
         [] OTHER -> "public"

-----------------------------------------------------------------------------
(***************************************************************************)
(* The text of a literal: groups, Colon, and perhaps a quad at the end.    *)
(***************************************************************************)
\* Groups with one colon between each two.
parseGroups(text) ==
  IF \A i \in DOMAIN text : (text[i] = Colon) <=> (i % 2 = 0)
  THEN IF text = <<>> \/ Len(text) % 2 = 1
         THEN [i \in 1..(Len(text) + 1) \div 2 |-> text[2 * i - 1]]
         ELSE NoGroups
  ELSE NoGroups

\* Where "::" is.
Gaps(text) ==
  {i \in 1..Len(text) - 1 : text[i] = Colon /\ text[i + 1] = Colon}

\* "::" stands for the zeros that are missing.
Expand(head, rest, suffix) ==
  head \o [i \in 1..8 - Len(head) - Len(rest) - Len(suffix) |-> 0] \o rest \o suffix

\* The text of a literal up to its quad, which is two groups; before a quad the last colon
\* is dropped, be it the second of a "::".
parseIpv6(literal, quad) ==
  LET text == IF quad = <<>> THEN literal ELSE SubSeq(literal, 1, Len(literal) - 1)
      suffix == IF quad = <<>> THEN <<>>
                ELSE <<quad[1] * 256 + quad[2], quad[3] * 256 + quad[4]>>
      gap == IF Gaps(text) = {} THEN 0 ELSE Min(Gaps(text))
      head == parseGroups(IF gap = 0 THEN text ELSE SubSeq(text, 1, gap - 1))
      after == SubSeq(text, gap + 2, Len(text))
      rest == IF gap = 0 THEN <<>> ELSE parseGroups(after)
      known == Len(head) + Len(rest) + Len(suffix)
  IN IF head = NoGroups \/ rest = NoGroups \/ (gap # 0 /\ Gaps(after) # {}) THEN NoGroups
     ELSE IF gap # 0 THEN IF known > 7 THEN NoGroups ELSE Expand(head, rest, suffix)
     ELSE IF known = 8 THEN head \o suffix ELSE NoGroups

-----------------------------------------------------------------------------
IsSuffixOf(suffix, labels) ==
  Len(suffix) < Len(labels) /\ SubSeq(labels, Len(labels) - Len(suffix) + 1, Len(labels)) = suffix

\* The trailing dots of a name are dropped.
normalizeHost(host) == IF host.kind = "name" THEN [host EXCEPT !.dots = 0] ELSE host

classifyHost(h) ==
  LET host == normalizeHost(h) IN
  CASE host.kind = "v4" -> classifyIpv4(host.octets)
    [] host.kind = "v6" ->
         LET groups == parseIpv6(host.text, host.quad) IN
         CASE groups # NoGroups -> classifyIpv6(groups)
           [] groups = NoGroups /\ host.quad = <<>> -> "local-hostname"
           [] OTHER -> "public"            \* a name of several labels
    [] host.kind = "name" ->
         IF \/ host.labels \in LocalNames \/ Len(host.labels) = 1
            \/ \E suffix \in LocalSuffixes : IsSuffixOf(suffix, host.labels)
         THEN "local-hostname" ELSE "public"

-----------------------------------------------------------------------------
(***************************************************************************)
(* The registries: a block begins at an address, of which 24 bits matter,  *)
(* and has so many of those as its prefix leaves open.                     *)
(***************************************************************************)
Address(a, b, c) == a * 65536 + b * 256 + c

Slash4 == 1048576
Slash8 == 65536
Slash10 == 16384
Slash12 == 4096
Slash15 == 512
Slash16 == 256
Slash24 == 1

Blocks ==
  {<<Address(0, 0, 0), Slash8, "unspecified">>, <<Address(127, 0, 0), Slash8, "loopback">>,
   <<Address(10, 0, 0), Slash8, "private">>, <<Address(172, 16, 0), Slash12, "private">>,
   <<Address(192, 168, 0), Slash16, "private">>, <<Address(169, 254, 0), Slash16, "link-local">>,
   <<Address(100, 64, 0), Slash10, "carrier-grade-nat">>,
   <<Address(224, 0, 0), Slash4, "multicast">>, <<Address(240, 0, 0), Slash4, "reserved">>,
   <<Address(192, 0, 0), Slash24, "reserved">>, <<Address(192, 0, 2), Slash24, "reserved">>,
   <<Address(198, 51, 100), Slash24, "reserved">>, <<Address(203, 0, 113), Slash24, "reserved">>,
   <<Address(198, 18, 0), Slash15, "reserved">>}

IsIn(o, block) ==
  LET address == Address(o[1], o[2], o[3]) IN
  block[1] <= address /\ address < block[1] + block[2]

ClassesOf(o) == {block[3] : block \in {bl \in Blocks : IsIn(o, bl)}}

\* The blocks of IPv6, fc00 to fdff, fe80 to febf and ff00 to ffff, by the first group.
Blocks6 ==
  {<<64512, 65023, "private">>, <<65152, 65215, "link-local">>, <<65280, 65535, "multicast">>}

\* And 2001:db8, which documents use.
ClassesOf6(g) ==
  {block[3] : block \in {bl \in Blocks6 : bl[1] <= g[1] /\ g[1] <= bl[2]}}
    \cup (IF g[1] = 8193 /\ g[2] = 3512 THEN {"reserved"} ELSE {})

\* The text of an address whose zeros from lo to hi are "::"; none if lo > hi.
Joined(g) == [i \in 1..(IF g = <<>> THEN 0 ELSE 2 * Len(g) - 1) |->
                IF i % 2 = 1 THEN g[(i + 1) \div 2] ELSE Colon]

Spelled(g, lo, hi) ==
  IF lo > hi THEN Joined(g)
  ELSE Joined(SubSeq(g, 1, lo - 1)) \o <<Colon, Colon>> \o Joined(SubSeq(g, hi + 1, Len(g)))

Zeros(g) ==
  {run \in (DOMAIN g) \X (DOMAIN g) : run[1] <= run[2] /\ \A i \in run[1]..run[2] : g[i] = 0}
    \cup {<<1, 0>>}

\* What is before a quad: groups, and a colon unless they end in "::".
BeforeQuad(g, lo, hi) ==
  LET text == Spelled(g, lo, hi) IN
  IF lo <= hi /\ hi = Len(g) THEN text ELSE Append(text, Colon)

\* Every way of writing g is read as g: spelled out, with "::" for any run of zeros, and
\* with the last two groups as a quad, unless "::" is right before that: then none is.
ReadsSpellings(g) ==
  LET first == SubSeq(g, 1, 6) IN
  /\ \A z \in Zeros(g) : parseIpv6(Spelled(g, z[1], z[2]), <<>>) = g
  /\ \A z \in Zeros(first) :
       parseIpv6(BeforeQuad(first, z[1], z[2]), Quad(g[7], g[8])) =
         IF z[2] = 6 THEN NoGroups ELSE g

Literal(text, quad) == [kind |-> "v6", text |-> text, quad |-> quad]

\* An address has the class of its block, as a quad and embedded in either form; but "::"
\* right before a quad is not read, and what is not read is taken for a public name.
JudgedByBlock(o) ==
  LET class == classifyHost([kind |-> "v4", octets |-> o]) IN
  /\ ClassesOf(o) = {class} \ {"public"}
  /\ \A marker \in {0, 65535} :
       LET g == <<0, 0, 0, 0, 0, marker, o[1] * 256 + o[2], o[3] * 256 + o[4]>>
           first == SubSeq(g, 1, 6)
       IN /\ \A z \in Zeros(g) : classifyHost(Literal(Spelled(g, z[1], z[2]), <<>>)) = class
          /\ \A z \in Zeros(first) :
               classifyHost(Literal(BeforeQuad(first, z[1], z[2]), o)) =
                 IF z[2] = 6 THEN "public" ELSE class

\* An address with none embedded has the class of its block; :: and ::1 have their own.
JudgedByGroups(g) ==
  LET class == classifyHost(Literal(Joined(g), <<>>)) IN
  /\ (\E i \in 1..5 : g[i] # 0) => ClassesOf6(g) = {class} \ {"public"}
  /\ (\A i \in 1..8 : g[i] = 0) => class = "unspecified"
  /\ (\A i \in 1..7 : g[i] = 0) /\ g[8] = 1 => class = "loopback"
=============================================================================
