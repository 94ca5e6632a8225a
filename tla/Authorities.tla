----------------------------- MODULE Authorities -----------------------------
(***************************************************************************)
(* The names of destinations as four parsers read them: the command line   *)
(* turns what the user types into lines of the policy files, the proxy     *)
(* reads those files strictly, classifies request targets and sends the    *)
(* canonical form of a local one to the broker, and the broker reads that  *)
(* form and the files with the command line's parser.  The two programs    *)
(* share no code.                                                          *)
(*                                                                         *)
(* An option is a set of at most one member.  Left out: the wording of the *)
(* errors, the suggestion for names outside ASCII, the limit of 253 bytes  *)
(* of a name, the paths of absolute targets beyond their first mark, and   *)
(* the text of the mode file, which both sides take from one list.         *)
(***************************************************************************)
EXTENDS Texts

CONSTANTS
  Entries,    \* what the user types as a domain
  Locals,     \* what the user types as a loopback authority
  Targets,    \* the request targets, each with whether the method is CONNECT
  MaxLines    \* bound: the lines of a policy file

VARIABLES
  domains,    \* the text of the list of domains
  loopback,   \* the text of the list of loopback authorities
  target,     \* the last request
  typed,      \* the entries the user has added and not removed
  typedLocal  \* the same of loopback authorities

vars == <<domains, loopback, target, typed, typedLocal>>

Localhost == [kind |-> "localhost"]
V4(octets) == [kind |-> "v4", octets |-> octets]
V6(address) == [kind |-> "v6", address |-> address]
Dns(name) == [kind |-> "dns", name |-> name]

------------------------------------------------------------------------------
(* The command line and the broker.                                        *)

parse_policy_port(text) ==
  IF Len(text) = 1 /\ text[1] \in Numerals /\ Value[text[1]] \in 1..65535
  THEN {Value[text[1]]} ELSE {}

parse_loopback_ipv4(text) == {o \in Ipv4(text) : o[1] = 127}

CliHost(host) ==
  IF Lowercase(host) = <<"localhost">> THEN {Localhost}
  ELSE IF Len(host) >= 2 /\ host[1] = "[" /\ Last(host) = "]"
  THEN LET inner == Tail(Front(host))
       IN IF inner \in DOMAIN Address /\ Address[inner] = LoopbackAddress THEN {V6(LoopbackAddress)} ELSE {}
  ELSE {V4(o) : o \in parse_loopback_ipv4(host)}

CliLoopback(text) ==
  IF text = <<>> \/ Strip(text, Space) # text \/ Contains(text, Foreign) THEN {}
  ELSE {[host |-> h, port |-> p] : <<h, p>> \in
          UNION {CliHost(Before(text, i)) \X parse_policy_port(After(text, i)) : i \in LastOf(text, ":")}}

\* Both sides print an authority in the same way.
HostText(h) ==
  IF h.kind = "localhost" THEN <<"localhost">>
  ELSE IF h.kind = "v4" THEN Dotted(h.octets)
  ELSE IF h.kind = "dns" THEN h.name
  ELSE <<"[">> \o Printed(h.address) \o <<"]">>
Display(authority) == HostText(authority.host) \o <<":", Numeral(authority.port)>>

normalize_policy_domain(text) ==
  LET name == Lowercase(text)
  IN IF /\ name # <<>>
        /\ \A i \in DOMAIN Split(name, ".") : Split(name, ".")[i] # <<>>
        /\ ToSet(name) \subseteq Alphanumeric \cup {"-", "_", "."}
        /\ ToSet(name) \cap Alphanumeric # {}
     THEN {name} ELSE {}

normalize_domain(text) ==
  normalize_policy_domain(Strip(WithoutPrefix(Strip(text, Space), <<"*", ".">>), "."))

\* The lines of a text and a text of lines.
Lines(text) == IF text = <<>> THEN <<>> ELSE Split(WithoutLast(text, LineEnd), LineEnd)

domains_text(lines) == FoldLeft(LAMBDA text, line : text \o line \o <<LineEnd>>, <<>>, lines)

\* A file is read with the parser of what is typed: one bad line makes it unreadable.
ReadLines(read) ==
  IF {} \in Range(read) THEN {} ELSE {[i \in DOMAIN read |-> CHOOSE x \in read[i] : TRUE]}
read_domains(text) == ReadLines([i \in DOMAIN Lines(text) |-> normalize_domain(Lines(text)[i])])
read_loopback_authorities(text) == ReadLines([i \in DOMAIN Lines(text) |-> CliLoopback(Lines(text)[i])])

\* A request of the proxy: only the canonical form is taken.
parse_broker_request(text) == {a \in CliLoopback(text) : Display(a) = text}

------------------------------------------------------------------------------
(* The proxy's reading of the files.                                       *)

parse_ipv4(text) == Ipv4(text)

parse_port(text) ==
  IF Len(text) = 1 /\ text[1] \in Numerals /\ Value[text[1]] \in 1..65535
  THEN {Value[text[1]]} ELSE {}

ProxyHost(host) ==
  IF Lowercase(host) = <<"localhost">> THEN {Localhost}
  ELSE IF Len(host) >= 2 /\ host[1] = "[" /\ Last(host) = "]"
  THEN LET inner == Tail(Front(host))
       IN IF inner \in DOMAIN Address /\ Address[inner] = LoopbackAddress THEN {V6(LoopbackAddress)} ELSE {}
  ELSE {V4(o) : o \in {q \in parse_ipv4(host) : q[1] = 127}}

LoopbackAuthority(text) ==
  IF text = <<>> \/ Strip(text, Space) # text \/ Contains(text, Foreign) THEN {}
  ELSE {[host |-> h, port |-> p] : <<h, p>> \in
          UNION {ProxyHost(Before(text, i)) \X parse_port(After(text, i)) : i \in LastOf(text, ":")}}

ValidLabel(label) ==
  /\ label # <<>> /\ ToSet(label) \cap Long = {}
  /\ label[1] # "-" /\ Last(label) # "-"
  /\ ToSet(label) \subseteq Alphanumeric \cup {"-"}
valid_domain(text) == \A i \in DOMAIN Split(text, ".") : ValidLabel(Split(text, ".")[i])

valid_policy_domain(text) ==
  /\ text # <<>>
  /\ \A i \in DOMAIN Split(text, ".") : Split(text, ".")[i] # <<>>
  /\ \A t \in ToSet(text) : t \in {"-", "_", "."} \cup Numerals \/ (t \in Words /\ Lower[t] = t)
  /\ ToSet(text) \cap Alphanumeric # {}

DomainName(text) ==
  IF text # <<>> /\ Strip(text, Space) = text /\ valid_domain(WithoutLast(text, "."))
  THEN {Lowercase(WithoutLast(text, "."))} ELSE {}

DomainPattern(text) ==
  {p \in {Lowercase(Strip(WithoutPrefix(Strip(text, Space), <<"*", ".">>), "."))} : valid_policy_domain(p)}

\* An address in canonical form is one; any other text is a name.
PolicyEntry(text) ==
  IF ~valid_policy_domain(text) THEN {}
  ELSE IF \E o \in Ipv4(text) : Dotted(o) = text THEN {V4(o) : o \in Ipv4(text)}
  ELSE {Dns(p) : p \in DomainPattern(text)}

\* A variant that compares the ends of the names only.
MatchesEnd(pattern, host) == IsSuffix(pattern, host)

Matches(pattern, host) ==
  \/ host = pattern
  \/ /\ IsStrictSuffix(pattern, host)
     /\ host[Len(host) - Len(pattern)] = "."

strict_lines(text) ==
  IF text = <<>> THEN {<<>>}
  ELSE IF WithoutLast(text, LineEnd) = <<>> THEN {}
  ELSE {Split(WithoutLast(text, LineEnd), LineEnd)}

ParseLayer(parsed) == IF {} \in Range(parsed) THEN {} ELSE {UNION Range(parsed)}
parse_domain_layer(text) ==
  UNION {ParseLayer([i \in DOMAIN ls |-> PolicyEntry(ls[i])]) : ls \in strict_lines(text)}
Canonical(line) == {a \in LoopbackAuthority(line) : Display(a) = line}
parse_local_layer(text) ==
  UNION {ParseLayer([i \in DOMAIN ls |-> Canonical(ls[i])]) : ls \in strict_lines(text)}

\* What PublicPolicySnapshot::decide looks for: a name by its patterns, an address exactly.
PublicMatches(entries, host) ==
  \/ host.kind = "dns" /\ \E e \in entries : e.kind = "dns" /\ Matches(e.name, host.name)
  \/ host.kind = "v4" /\ host \in entries

------------------------------------------------------------------------------
(* The proxy's reading of a request target.                                *)

Malformed == [form |-> "malformed"]
Unusable == {Space, LineEnd, "@", "/", "?", "#"}
UriMarks == {"*", "-", ".", "/", ":", "?", "@", "_", "~", "[", "]", "%25"}

valid_uri_octets(text) == ToSet(text) \subseteq Alphanumeric \cup UriMarks
valid_path_and_query(text) == valid_uri_octets(text) /\ ToSet(text) \cap {"[", "]"} = {}

\* The port and whether it was written.
Written(text) == {[port |-> p, explicit |-> TRUE] : p \in parse_port(text)}
Default(default) == {[port |-> p, explicit |-> FALSE] : p \in default}
parse_authority_port(suffix, default) ==
  IF suffix # <<>> /\ suffix[1] = ":" THEN Written(Tail(suffix))
  ELSE IF suffix = <<>> THEN Default(default) ELSE {}

NoScope == <<>>
ZoneOctets == Alphanumeric \cup {"-", ".", "_", "~"}
parse_ipv6_host(text) ==
  LET cut == First(text, {"%25"})
      address == IF cut = {} THEN text ELSE Before(text, CHOOSE i \in cut : TRUE)
      zone == IF cut = {} THEN NoScope ELSE After(text, CHOOSE i \in cut : TRUE)
  IN IF /\ address \in DOMAIN Address
        /\ cut # {} => zone # <<>> /\ ToSet(zone) \subseteq ZoneOctets
     THEN {[address |-> Address[address], scope |-> zone]} ELSE {}

Bracketed(text, default) ==
  UNION {{[host |-> V6(a.address), scope |-> a.scope, local |-> a.scope = NoScope /\ a.address = LoopbackAddress,
           port |-> q.port, explicit |-> q.explicit] :
             a \in parse_ipv6_host(SubSeq(text, 2, i - 1)), q \in parse_authority_port(After(text, i), default)} :
         i \in First(text, {"]"})}

\* Digits and dots that are not an address are no name either.
NamedHost(text) ==
  IF parse_ipv4(text) # {} THEN {V4(o) : o \in parse_ipv4(text)}
  ELSE IF ToSet(text) \subseteq Numerals \cup {"."} THEN {}
  ELSE {IF n = <<"localhost">> THEN Localhost ELSE Dns(n) : n \in DomainName(text)}

IsLocal(h) == h.kind = "localhost" \/ (h.kind = "v4" /\ h.octets[1] = 127)

Named(text, default) ==
  LET colon == LastOf(text, ":")
      host == IF colon = {} THEN text ELSE Before(text, CHOOSE i \in colon : TRUE)
      port == IF colon = {} THEN Default(default) ELSE Written(After(text, CHOOSE i \in colon : TRUE))
  IN IF host = <<>> \/ Contains(host, ":") \/ ToSet(text) \cap {"[", "]"} # {} THEN {}
     ELSE {[host |-> h, scope |-> NoScope, local |-> IsLocal(h), port |-> q.port, explicit |-> q.explicit] :
             h \in NamedHost(host), q \in port}

\* A required port is the absence of a default.
parse_authority(text, default) ==
  IF text = <<>> \/ Contains(text, Foreign) \/ ToSet(text) \cap Unusable # {} THEN {}
  ELSE IF text[1] = "[" THEN Bracketed(text, default) ELSE Named(text, default)

canonical_public_authority(a) ==
  (IF a.scope = NoScope THEN HostText(a.host)
   ELSE <<"[">> \o Printed(a.host.address) \o <<"%25">> \o a.scope \o <<"]">>)
    \o (IF a.explicit THEN <<":", Numeral(a.port)>> ELSE <<>>)

Classified(a, kind) ==
  [form |-> IF a.local THEN "local" ELSE "public", kind |-> kind, host |-> a.host, scope |-> a.scope,
   port |-> a.port, explicit |-> a.explicit,
   authority |-> IF a.local THEN Display(a) ELSE canonical_public_authority(a)]

\* An option as the classification: what does not parse is malformed.
OrMalformed(found) == IF found = {} THEN Malformed ELSE CHOOSE t \in found : TRUE

classify_connect(text) ==
  OrMalformed({Classified(a, "connect") : a \in parse_authority(text, {})})

DefaultPort(scheme) == IF scheme = "http" THEN 80 ELSE 443

classify_authority(text, scheme) ==
  LET found == parse_authority(text, {DefaultPort(scheme)})
  IN IF found = {} THEN Malformed
     ELSE IF scheme = "https" THEN [form |-> "https"]
     ELSE OrMalformed({Classified(a, "http") : a \in found})

\* The part of a target behind its scheme that names the destination, and the rest.
AuthorityEnd(rest) ==
  LET end == First(rest, {"/", "?"}) IN IF end = {} THEN Len(rest) + 1 ELSE CHOOSE i \in end : TRUE
AuthorityPart(rest) == Before(rest, AuthorityEnd(rest))
PathPart(rest) == SubSeq(rest, AuthorityEnd(rest), Len(rest))

classify_absolute(text) ==
  LET scheme == IF text = <<>> THEN <<>> ELSE Lowercase(<<text[1]>>)
      rest == IF Len(text) < 4 THEN <<>> ELSE SubSeq(text, 5, Len(text))
  IN IF /\ Len(text) >= 4
        /\ valid_uri_octets(text)
        /\ scheme \in {<<"http">>, <<"https">>} /\ SubSeq(text, 2, 4) = <<":", "/", "/">>
        /\ AuthorityPart(rest) # <<>> /\ valid_path_and_query(PathPart(rest))
     THEN classify_authority(AuthorityPart(rest), scheme[1])
     ELSE Malformed

classify(connect, text) ==
  IF connect THEN classify_connect(text)
  ELSE IF text = <<"*">> THEN [form |-> "asterisk"]
  ELSE IF text # <<>> /\ text[1] = "/"
  THEN IF valid_path_and_query(text) THEN [form |-> "direct"] ELSE Malformed
  ELSE classify_absolute(text)

------------------------------------------------------------------------------
(* What a text means, said without the parsers: a name is its labels, an   *)
(* authority a host and a port.                                            *)

LabelsOf(text) ==
  SelectSeq(Split(Lowercase(SelectSeq(text, LAMBDA t : t # Space)), "."),
            LAMBDA label : label \notin {<<>>, <<"*">>})
IsAddress(labels) ==
  /\ Len(labels) = 4
  /\ \A i \in 1..4 : Len(labels[i]) = 1 /\ labels[i][1] \in Numerals \ Padded /\ Value[labels[i][1]] <= 255

Meant(names, labels) ==
  \/ labels \in names
  \/ ~IsAddress(labels) /\ \E n \in names : ~IsAddress(n) /\ IsSuffix(n, labels)

HostPart(text) == LET colon == LastOf(text, ":") IN IF colon = {} THEN text ELSE Before(text, CHOOSE i \in colon : TRUE)
PortPart(text) == Value[Last(text)]
HostMeant(host) ==
  IF host # <<>> /\ host[1] = "[" /\ Tail(Front(host)) \in DOMAIN Address
  THEN <<"[", Address[Tail(Front(host))]>>
  ELSE Lowercase(WithoutLast(host, "."))
AuthorityMeant(text) == <<HostMeant(HostPart(text)), PortPart(text)>>

IsLoopback(host) ==
  \/ HostMeant(host) \in {<<"localhost">>, <<"[", LoopbackAddress>>}
  \/ IsAddress(Split(host, ".")) /\ host[1] = "127"

------------------------------------------------------------------------------
(* The user edits the lists; clients send requests.                        *)

NoTarget == [connect |-> FALSE, text |-> <<"*">>]

Init ==
  /\ domains = <<>> /\ loopback = <<>> /\ target = NoTarget
  /\ typed = {} /\ typedLocal = {}

Added(lines, line) == IF Contains(lines, line) THEN lines ELSE Append(lines, line)
Removed(lines, line) == SelectSeq(lines, LAMBDA l : l # line)

Allow(t) ==
  /\ \E n \in normalize_domain(t), ls \in read_domains(domains) :
       /\ Len(Added(ls, n)) <= MaxLines
       /\ domains' = domains_text(Added(ls, n))
  /\ typed' = typed \cup {LabelsOf(t)}
  /\ UNCHANGED <<loopback, target, typedLocal>>

Deny(t) ==
  /\ \E n \in normalize_domain(t), ls \in read_domains(domains) :
       /\ Contains(ls, n)
       /\ domains' = domains_text(Removed(ls, n))
  /\ typed' = typed \ {LabelsOf(t)}
  /\ UNCHANGED <<loopback, target, typedLocal>>

\* The lines of the loopback list are authorities in canonical form.
write_loopback_authorities(as) == domains_text([i \in DOMAIN as |-> Display(as[i])])

AllowLocal(t) ==
  /\ \E a \in CliLoopback(t), as \in read_loopback_authorities(loopback) :
       /\ Len(Added(as, a)) <= MaxLines
       /\ loopback' = write_loopback_authorities(Added(as, a))
  /\ typedLocal' = typedLocal \cup {AuthorityMeant(t)}
  /\ UNCHANGED <<domains, target, typed>>

DenyLocal(t) ==
  /\ \E a \in CliLoopback(t), as \in read_loopback_authorities(loopback) :
       /\ Contains(as, a)
       /\ loopback' = write_loopback_authorities(Removed(as, a))
  /\ typedLocal' = typedLocal \ {AuthorityMeant(t)}
  /\ UNCHANGED <<domains, target, typed>>

\* A request is judged in one step here, by the files as they are then.
Ask(t) ==
  /\ target = NoTarget
  /\ target' = t
  /\ UNCHANGED <<domains, loopback, typed, typedLocal>>

Judged ==
  /\ target # NoTarget
  /\ target' = NoTarget
  /\ UNCHANGED <<domains, loopback, typed, typedLocal>>

Next ==
  \/ target = NoTarget /\ \E t \in Entries : Allow(t) \/ Deny(t)
  \/ target = NoTarget /\ \E t \in Locals : AllowLocal(t) \/ DenyLocal(t)
  \/ Judged
  \/ \E t \in Targets : Ask(t)

Spec == Init /\ [][Next]_vars

------------------------------------------------------------------------------
(* Properties.                                                             *)

Asked == classify(target.connect, target.text)
Public == Asked.form = "public"
Local == Asked.form = "local"
Destination(t) == IF t.form \in {"public", "local"} THEN <<t.form, t.host, t.scope, t.port>> ELSE <<t.form>>

\* Whatever the user types and in whatever order, what the command line writes is a file
\* that the proxy's strict parser takes: one line it refused would deny every destination.
FilesAreRead == parse_domain_layer(domains) # {} /\ parse_local_layer(loopback) # {}

\* A host is allowed exactly if the user has typed it or a domain above it, in any case,
\* with or without the mark of subdomains and dots at the ends: labels are compared, so a
\* name that only ends in the same letters is another, and an address is only itself.
DomainsMeanWhatWasTyped ==
  Public /\ Asked.host.kind # "v6" /\ target.connect =>
    \E entries \in parse_domain_layer(domains) :
      PublicMatches(entries, Asked.host) <=> Meant(typed, LabelsOf(HostPart(target.text)))

\* A local destination is allowed exactly if the user has typed its host and its port,
\* in whatever spelling.
LocalsMeanWhatWasTyped ==
  Local /\ target.connect =>
    \E authorities \in parse_local_layer(loopback) :
      [host |-> Asked.host, port |-> Asked.port] \in authorities <=> AuthorityMeant(target.text) \in typedLocal

\* The broker takes the form in which the proxy names a local destination as the same
\* destination, and finds it in the list exactly if the proxy does.
BrokerAgrees ==
  Local =>
    /\ parse_broker_request(Asked.authority) = {[host |-> Asked.host, port |-> Asked.port]}
    /\ \E authorities \in parse_local_layer(loopback), as \in read_loopback_authorities(loopback) :
         ToSet(as) = authorities

\* The canonical form of a destination names the same destination: what is forwarded,
\* recorded and keyed by is what was judged.
CanonicalIsFixed ==
  Public \/ Local =>
    LET again == IF Asked.kind = "connect" THEN classify(TRUE, Asked.authority)
                 ELSE classify(FALSE, <<"http", ":", "/", "/">> \o Asked.authority \o <<"/">>)
    IN Destination(again) = Destination(Asked) /\ again.authority = Asked.authority

\* A destination a tunnel can name is the same destination in an absolute target.
OneDestination ==
  target.connect /\ (Public \/ Local) =>
    Destination(classify(FALSE, <<"http", ":", "/", "/">> \o target.text \o <<"/">>)) = Destination(Asked)

\* Every spelling of this host that is understood is local, and nothing else is: the
\* public route never leads to the host itself by name.
LoopbackIsLocal ==
  target.connect /\ (Public \/ Local) => (Local <=> IsLoopback(HostPart(target.text)))

\* Four parsers in two programs give every text one meaning.
ReadersAgree ==
  /\ FilesAreRead /\ DomainsMeanWhatWasTyped /\ LocalsMeanWhatWasTyped /\ BrokerAgrees
  /\ CanonicalIsFixed /\ OneDestination /\ LoopbackIsLocal
==============================================================================
