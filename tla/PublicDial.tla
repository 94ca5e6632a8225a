----------------------------- MODULE PublicDial -----------------------------
(***************************************************************************)
(* Connecting to public origins (connect/public.rs): a permit, the         *)
(* resolution of the name, the judgement of all its answers, and the dials *)
(* of the addresses one after the other, all under one deadline and one    *)
(* cancellation.  A call is one use of open_target; a resolver may answer  *)
(* anything, and something else the next time.                             *)
(***************************************************************************)
EXTENDS AddressRegistry, FiniteSets

CONSTANTS Calls,
          Addresses,     \* that a resolver may answer with, or a target may name
          MaxAnswers,    \* MAX_DNS_ANSWERS (the code: 64)
          Permits        \* MAX_UPSTREAM_CONNECTIONS (the code: 256)

Octets == 0..255
Segments == {n \in Nat : n <= 65535}
Ipv4Addresses == [1..4 -> Octets]
Ipv6Addresses == [1..8 -> Segments]

ASSUME AddressesAssumption == Addresses \subseteq Ipv4Addresses \cup Ipv6Addresses
ASSUME DialAssumption == MaxAnswers \in Nat \ {0} /\ Permits \in Nat /\ IsFiniteSet(Calls)

VARIABLES
  phase,     \* each call's place: "idle", "target", "resolve", "dial", "dialling", or
             \* its outcome
  target,    \* its target: [kind, scoped, address]
  answers,   \* the answers it has got: [address, scope]
  next,      \* which of them it is dialling
  dialled,   \* addresses it has begun to dial
  expired,   \* calls whose deadline has passed
  cancelled, \* Shutdown::cancelled
  permits    \* free permits

vars == <<phase, target, answers, next, dialled, expired, cancelled, permits>>

Outcomes == {"connected", "PolicyDenied", "Unavailable", "DeadlineExceeded", "Cancelled", "Exhausted", "dropped"}
Targets ==
  [kind : {"name"}, scoped : {FALSE}, address : {<<>>}]
    \cup [kind : {"literal"}, scoped : {FALSE}, address : Addresses]
    \cup [kind : {"literal"}, scoped : {TRUE}, address : {a \in Addresses : ~IsV4(a)}]
NoTarget == [kind |-> "none", scoped |-> FALSE, address |-> <<>>]
Answers == [address : Addresses, scope : {0}] \cup [address : {a \in Addresses : ~IsV4(a)}, scope : {1}]
Lists == UNION {[1..n -> Answers] : n \in 0..MaxAnswers + 1}

\* The places in which a call waits.
Waiting(c) == phase[c] \in {"resolve", "dialling"}
Working(c) == Waiting(c) \/ phase[c] \in {"target", "dial"}
Go(c, p) == phase' = [phase EXCEPT ![c] = p]

\* A call that ends without a stream drops its permit.
Fail(c, outcome) ==
  /\ Go(c, outcome) /\ permits' = permits + 1
  /\ UNCHANGED <<target, answers, next, dialled, expired, cancelled>>

-----------------------------------------------------------------------------
Begin(c) ==
  /\ phase[c] = "idle"
  /\ \E t \in Targets : target' = [target EXCEPT ![c] = t]
  /\ IF permits = 0 THEN Go(c, "Exhausted") /\ UNCHANGED permits
     ELSE Go(c, "target") /\ permits' = permits - 1
  /\ UNCHANGED <<answers, next, dialled, expired, cancelled>>

\* The judgement of a list: every answer counts.  A variant judges the first.
AnswerIsGood(a) == a.scope = 0 /\ GloballyRoutable(a.address)
FirstIsGood(list) == AnswerIsGood(list[1])
AllAreGood(list) == \A i \in DOMAIN list : AnswerIsGood(list[i])

TooMany(list) == Len(list) > MaxAnswers

Dials(c, list) ==
  /\ answers' = [answers EXCEPT ![c] = list] /\ Go(c, "dial")
  /\ UNCHANGED <<target, next, dialled, expired, cancelled, permits>>

\* open_with_budget up to the first wait: scopes and literals.
Target(c) ==
  /\ phase[c] = "target"
  /\ LET t == target[c] IN
       \/ t.scoped /\ Fail(c, "PolicyDenied")
       \/ ~t.scoped /\ t.kind = "literal" /\ ~GloballyRoutable(t.address) /\ Fail(c, "PolicyDenied")
       \/ ~t.scoped /\ t.kind = "literal" /\ GloballyRoutable(t.address) /\ Dials(c, <<[address |-> t.address, scope |-> 0]>>)
       \/ t.kind = "name" /\ Go(c, "resolve") /\ UNCHANGED <<target, answers, next, dialled, expired, cancelled, permits>>

Resolved(c) ==
  /\ phase[c] = "resolve" /\ ~cancelled
  /\ \E list \in Lists :
       \/ list = <<>> /\ Fail(c, "Unavailable")
       \/ list # <<>> /\ (TooMany(list) \/ ~AllAreGood(list)) /\ Fail(c, "PolicyDenied")
       \/ list # <<>> /\ ~TooMany(list) /\ AllAreGood(list) /\ Dials(c, list)
ResolutionFails(c) == phase[c] = "resolve" /\ ~cancelled /\ Fail(c, "Unavailable")

\* An attempt is begun, though it be after the deadline, and fails or succeeds.
DialBegins(c) ==
  /\ phase[c] = "dial" /\ ~cancelled
  /\ dialled' = [dialled EXCEPT ![c] = @ \cup {answers[c][next[c] + 1].address}]
  /\ Go(c, "dialling")
  /\ UNCHANGED <<target, answers, next, expired, cancelled, permits>>
Connected(c) ==
  /\ phase[c] = "dialling" /\ ~cancelled
  /\ Go(c, "connected")
  /\ UNCHANGED <<target, answers, next, dialled, expired, cancelled, permits>>
\* The next address, if there is one.
MoreAddresses(c) == next[c] + 1 < Len(answers[c])
DialFails(c) ==
  /\ phase[c] = "dialling" /\ ~cancelled
  /\ IF MoreAddresses(c)
     THEN next' = [next EXCEPT ![c] = @ + 1] /\ Go(c, "dial") /\ UNCHANGED <<target, answers, dialled, expired, cancelled, permits>>
     ELSE Fail(c, "Unavailable")

\* The deadline is one for the resolution and all attempts.
Expire(c) ==
  /\ Waiting(c) /\ c \notin expired
  /\ expired' = expired \cup {c}
  /\ UNCHANGED <<phase, target, answers, next, dialled, cancelled, permits>>
DeadlineExceeded(c) ==
  /\ Waiting(c) /\ c \in expired /\ ~cancelled
  /\ Fail(c, "DeadlineExceeded")
\* The selects are biased: a cancellation is seen first.
CancelledCall(c) == (Waiting(c) \/ phase[c] = "dial") /\ cancelled /\ Fail(c, "Cancelled")
\* The client has left: forward drops the call where it is.
Dropped(c) == Waiting(c) /\ Fail(c, "dropped")
Cancel ==
  /\ ~cancelled /\ cancelled' = TRUE
  /\ UNCHANGED <<phase, target, answers, next, dialled, expired, permits>>

\* The stream is closed, and the permit with it.
PermitBack == permits + 1
CloseStream(c) ==
  /\ phase[c] = "connected"
  /\ phase' = [phase EXCEPT ![c] = "closed"] /\ permits' = PermitBack
  /\ UNCHANGED <<target, answers, next, dialled, expired, cancelled>>

-----------------------------------------------------------------------------
Init ==
  /\ phase = [c \in Calls |-> "idle"] /\ target = [c \in Calls |-> NoTarget]
  /\ answers = [c \in Calls |-> <<>>] /\ next = [c \in Calls |-> 0] /\ dialled = [c \in Calls |-> {}]
  /\ expired = {} /\ cancelled = FALSE /\ permits = Permits

\* What the program itself does.
Step(c) == Target(c) \/ DeadlineExceeded(c) \/ CancelledCall(c) \/ DialBegins(c)
Network(c) == Resolved(c) \/ ResolutionFails(c) \/ Connected(c) \/ DialFails(c)
Next ==
  \/ \E c \in Calls : Begin(c) \/ Step(c) \/ Network(c) \/ Expire(c) \/ Dropped(c) \/ CloseStream(c)
  \/ Cancel

Spec == Init /\ [][Next]_vars
\* Time passes and the program runs; the network owes nothing.
Fairness == \A c \in Calls : WF_vars(Step(c)) /\ WF_vars(Expire(c))

-----------------------------------------------------------------------------
Over(c) == phase[c] \in Outcomes \cup {"closed"}

TypeOK ==
  /\ phase \in [Calls -> Outcomes \cup {"idle", "target", "resolve", "dial", "dialling", "closed"}]
  /\ target \in [Calls -> Targets \cup {NoTarget}]
  /\ \A c \in Calls : Len(answers[c]) <= MaxAnswers /\ next[c] <= Len(answers[c]) /\ dialled[c] \subseteq Addresses
  /\ expired \subseteq Calls /\ cancelled \in BOOLEAN /\ permits \in 0..Permits

\* Nothing is dialled of a set of answers of which one may not be dialled: an answer is
\* not a way around the judgement of another.
WholeSetIsJudged ==
  \A c \in Calls : dialled[c] # {} =>
    \A i \in DOMAIN answers[c] : answers[c][i].scope = 0 /\ GloballyRoutable(answers[c][i].address)

\* What is reported is what happened: a policy denial is never a failure of the network,
\* and "unavailable" means that every judged address was tried.
OutcomeIsTrue ==
  \A c \in Calls :
    /\ phase[c] = "PolicyDenied" => dialled[c] = {}
    /\ phase[c] = "Unavailable" => dialled[c] = {answers[c][i].address : i \in DOMAIN answers[c]}

\* Every permit is free or with a call that works or has a stream.
PermitsAreCounted ==
  permits + Cardinality({c \in Calls : Working(c) \/ phase[c] = "connected"}) = Permits

AtMost(a, b) == a = b \/ \E i \in DOMAIN a : a[i] < b[i] /\ \A j \in 1..i - 1 : a[j] = b[j]
Between(first, a, last) == Len(a) = Len(first) /\ AtMost(first, a) /\ AtMost(a, last)

\* Networks of a host, of an organisation, of one link, of a test or of many receivers, by
\* their ranges and without reference to the registries.
Reserved(a) ==
  \/ Between(<<0, 0, 0, 0>>, a, <<0, 255, 255, 255>>) \/ Between(<<10, 0, 0, 0>>, a, <<10, 255, 255, 255>>)
  \/ Between(<<100, 64, 0, 0>>, a, <<100, 127, 255, 255>>) \/ Between(<<127, 0, 0, 0>>, a, <<127, 255, 255, 255>>)
  \/ Between(<<169, 254, 0, 0>>, a, <<169, 254, 255, 255>>) \/ Between(<<172, 16, 0, 0>>, a, <<172, 31, 255, 255>>)
  \/ Between(<<192, 168, 0, 0>>, a, <<192, 168, 255, 255>>) \/ Between(<<198, 18, 0, 0>>, a, <<198, 19, 255, 255>>)
  \/ Between(<<224, 0, 0, 0>>, a, <<255, 255, 255, 255>>)
  \/ Between(V6(0, 0, 0, 0), a, <<100, 65434, 65535, 65535, 65535, 65535, 65535, 65535>>)
  \/ Between(V6(16384, 0, 0, 0), a, <<65535, 65535, 65535, 65535, 65535, 65535, 65535, 65535>>)

\* 2000::/3 by its first segments.
InAssigned(segment) == 8192 <= segment /\ segment <= 16383

\* No call ever dials an address of a host, of a private or shared network, of a link or
\* of a group, whatever the name resolves to.  Of IPv6 nothing outside 2000::/3 is
\* dialled but the translation prefix 64:ff9b::/96.
DialsArePublic ==
  \A c \in Calls : \A a \in dialled[c] :
    /\ ~Reserved(a)
    /\ ~IsV4(a) => (InAssigned(a[1]) \/ SubSeq(a, 1, 6) = <<100, 65435, 0, 0, 0, 0>>)

\* The assignments inside reserved blocks that are public stay reachable: what is most
\* specific decides.
PublicIsReachable ==
  \A c \in Calls : phase[c] = "PolicyDenied" /\ target[c].kind = "literal" /\ ~target[c].scoped =>
    target[c].address \notin {<<8, 8, 8, 8>>, <<192, 0, 0, 9>>, <<192, 0, 0, 10>>, <<192, 31, 196, 255>>,
                              V6(8192, 0, 0, 0), <<8193, 1, 0, 0, 0, 0, 0, 3>>, V6(8193, 32, 0, 0)}

\* A call dials what was judged and reports what happened, and its permit comes back.
DialIsJudged ==
  /\ TypeOK /\ WholeSetIsJudged /\ OutcomeIsTrue /\ PermitsAreCounted
  /\ DialsArePublic /\ PublicIsReachable

\* A call ends although the network never answers.
CallEnds(c) == (phase[c] = "target") ~> Over(c)
=============================================================================
