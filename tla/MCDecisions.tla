---------------------------- MODULE MCDecisions ----------------------------
(***************************************************************************)
(* What is decided about a destination and what is said of it, in four     *)
(* parts that share nothing, for TLC in one state space of which each      *)
(* behaviour explores one: Authorities, with the domains, the local        *)
(* authorities or the request targets; Decisions, of which the proxy has   *)
(* all layers and one request, or two requests and a log that fails, and   *)
(* the broker one connection; and DenyReport.                              *)
(*                                                                         *)
(* The texts are put together from an alphabet with a name in two cases    *)
(* and numerals at the limits of an octet and of a port.                   *)
(***************************************************************************)
EXTENDS Decisions, Texts

CONSTANT MaxLines   \* of Authorities

VARIABLES
  part,                                            \* the one that is explored
  domains, loopback, target, typed, typedLocal     \* of Authorities

textVars == <<domains, loopback, target, typed, typedLocal>>

MCLower ==
  [w \in {"localhost", "LOCALHOST", "a", "A", "b", "B", "http", "HTTP", "https", "long"} |->
     CASE w = "LOCALHOST" -> "localhost" [] w = "A" -> "a" [] w = "B" -> "b" [] w = "HTTP" -> "http" [] OTHER -> w]
MCPadded == {"080", "00", "0127"}
MCValue ==
  [n \in {"0", "1", "8", "80", "127", "255", "256", "65535", "65536", "65616"} \cup MCPadded |->
     CASE n \in {"0", "00"} -> 0 [] n = "1" -> 1 [] n = "8" -> 8 [] n \in {"80", "080"} -> 80
       [] n \in {"127", "0127"} -> 127 [] n = "255" -> 255 [] n = "256" -> 256
       [] n = "65535" -> 65535 [] n = "65536" -> 65536 [] OTHER -> 65616]
MCLong == {"long"}
Colons == <<":", ":">>
MCAddress ==
  [t \in {Colons \o <<"1">>, <<"0">> \o Colons \o <<"1">>, Colons, <<"0">> \o Colons,
          <<"A">> \o Colons \o <<"1">>, <<"a">> \o Colons \o <<"1">>,
          Colons \o <<"127", ".", "0", ".", "0", ".", "1">>} |->
     IF t \in {Colons \o <<"1">>, <<"0">> \o Colons \o <<"1">>} THEN "::1"
     ELSE IF t \in {Colons, <<"0">> \o Colons} THEN "::"
     ELSE IF t[1] \in {"A", "a"} THEN "a::1" ELSE "::127.0.0.1"]

------------------------------------------------------------------------------
TextsOver(alphabet, n) == UNION {[1..k -> alphabet] : k \in 0..n}
Readable(text) == \A i \in 1..Len(text) - 1 : ~(text[i] \in Numerals /\ text[i + 1] \in Numerals)

\* Names, as typed and as asked for.
Marks == {"a", "A", "b", "1", ".", "-", "_", "*"}
Quads == {<<o, ".", "0", ".", "8", ".", p>> : o \in {"1", "127", "0127"}, p \in {"255", "256", "8"}}
EntryTexts ==
  {t \in TextsOver(Marks, 1) : Readable(t)} \cup {<<x, ".", y>> : x, y \in {"A", "b", "*", "_"}}
    \cup {<<"1", ".", "0", ".", "8", ".", "8">>, <<"0127", ".", "0", ".", "8", ".", "256">>}
    \cup {<<" ", "b", ".", "a", " ">>, <<"*", ".", "b", ".", "A">>, <<"a", " ", "b">>, <<Foreign>>,
          <<".", "B", ".">>, <<"*", ".", "1", ".", "0", ".", "8", ".", "8">>, <<"long">>, <<"1", ".", "0", ".", "8">>}
HostTexts ==
  TextsOver({"a", "B", "."}, 4) \cup {<<x, ".", y>> : x, y \in {"1", "a"}}
    \cup Quads \cup {<<"a", ".">> \o q : q \in Quads} \cup {<<"long", ".", "a">>, <<"-", "a">>, <<"a", "-", "a">>}
HostTargets == {[connect |-> TRUE, text |-> h \o <<":", "80">>] : h \in HostTexts}

\* Loopback authorities, as typed and as asked for.
LocalHosts ==
  {<<"localhost">>, <<"LOCALHOST">>, <<"localhost", ".">>, <<"a">>, <<>>, <<"[", "]">>, <<"localhost", " ">>}
    \cup {<<o, ".", "0", ".", "0", ".", p>> : o \in {"127", "0127", "8"}, p \in {"1", "8", "00"}}
    \cup {<<"127", ".", "0", ".", "1">>, <<"127", ".", "0", ".", "0", ".", "1", ".", "1">>}
    \cup {<<"[">> \o a \o <<"]">> : a \in DOMAIN MCAddress}
    \cup {<<"[">> \o a \o <<"%25", "a", "]">> : a \in DOMAIN MCAddress}
Ports == {<<>>, <<":">>, <<":", "80">>, <<":", "080">>, <<":", "0">>, <<":", "65535">>, <<":", "65616">>, <<":", "a">>}
LocalTexts == {h \o p : h \in LocalHosts, p \in Ports}
LocalTargets == {[connect |-> TRUE, text |-> t] : t \in LocalTexts}

\* Targets of every form.
Pieces == {"localhost", "LOCALHOST", "a", "127", "080", ".", ":", "-", "[", "]", "%25", "@", "/", "?", "#", " ", Foreign}
AuthorityTexts == LocalTexts \cup {t \in TextsOver(Pieces, 3) : Readable(t)}
  \cup {h \o t \o p : h \in LocalHosts, t \in {<<"@">>, <<"%25">>, <<"]">>, <<"/">>, <<"?">>}, p \in Ports}
Absolute(scheme, rest) == [connect |-> FALSE, text |-> scheme \o rest]
AllTargets ==
  {[connect |-> TRUE, text |-> t] : t \in AuthorityTexts}
    \cup {Absolute(<<s, ":", "/", "/">>, t) : s \in {"http", "HTTP", "https", "a"}, t \in LocalTexts}
    \cup {Absolute(<<"http", ":", "/", "/">>, t \o q) : t \in LocalTexts, q \in {<<"/", "a">>, <<"?", "[">>, <<"#">>, <<"@", "a">>}}
    \cup {Absolute(<<>>, t) : t \in {<<"*">>, <<"/">>, <<"/", "a", "#">>, <<"/", "%25", "?">>, <<"http", ":">>, <<>>}}

------------------------------------------------------------------------------
(* One part moves, the others stay where they begin.                       *)

OfDomains == INSTANCE Authorities WITH Entries <- EntryTexts, Locals <- {}, Targets <- HostTargets
OfLocals == INSTANCE Authorities WITH Entries <- {}, Locals <- LocalTexts, Targets <- LocalTargets
OfTargets == INSTANCE Authorities WITH Entries <- {}, Locals <- {}, Targets <- AllTargets

\* All layers while they change, or the first of each kind and a log that fails.
MCPublicPaths == <<"global", "project">>
MCLocalPaths == <<"global_local", "project_local">>
Torn == INSTANCE Authorize WITH MaxDisk <- 0
Audit == INSTANCE Authorize WITH
  PublicPaths <- <<"global">>, LocalPaths <- <<"global_local">>, MaxEdits <- 0

\* d is in the base, a.e in the list of a harness.
MCHarness == [h \in {"h", "k"} |-> IF h = "h" THEN {"a.e"} ELSE {}]

PartsInit ==
  /\ part \in {"domains", "locals", "targets", "torn", "audit", "live", "told"}
  /\ Init /\ OfDomains!Init /\ Live!Init /\ Told!Init
  /\ part = "torn" => config.log = "set"
  /\ part = "audit" => file["project"] = "misses" /\ file["project_local"] = "misses"
  /\ part \notin {"torn", "audit"} =>
       /\ file = [f \in Public \cup Local |-> "misses"] /\ mode = "enforce"
       /\ config = [log |-> "set", local |-> "set"]

\* The first request to arrive has the proxy to itself.
Alone(r) == \A q \in Requests \ {r} : task[q].pc = "idle"
TornNext ==
  \/ Torn!World
  \/ \E r \in Requests : Alone(r) /\ (Serve(r) \/ Abort(r) \/ \E route \in Routes : Arrive(r, route))

\* The two authorities are alike: the call is for one of them, and a file has one of them.
LiveNext == Live!Next /\ call'["c"].wants # "b" /\ \A l \in DOMAIN files : files'[l] # {"a", "b"}

OfTexts(A) == A /\ UNCHANGED <<part, vars, grantVars, reportVars>>
OfProxy(A) == A /\ UNCHANGED <<part, textVars, grantVars, reportVars>>

PartsNext ==
  \/ part = "domains" /\ OfTexts(OfDomains!Next)
  \/ part = "locals" /\ OfTexts(OfLocals!Next)
  \/ part = "targets" /\ OfTexts(OfTargets!Next)
  \/ part = "torn" /\ OfProxy(TornNext)
  \/ part = "audit" /\ OfProxy(Audit!Next)
  \/ part = "live" /\ LiveNext /\ UNCHANGED <<part, vars, textVars, reportVars>>
  \/ part = "told" /\ Told!Next /\ UNCHANGED <<part, vars, textVars, grantVars>>

PartsSpec == PartsInit /\ [][PartsNext]_<<part, vars, textVars, grantVars, reportVars>>

Symmetry == Permutations(Requests) \cup Permutations(Projects)

------------------------------------------------------------------------------
(* Properties.                                                             *)

\* Four parsers in two programs give every text one meaning (Authorities).
ReadersAgree == OfDomains!ReadersAgree
==============================================================================
