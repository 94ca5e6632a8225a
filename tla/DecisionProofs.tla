---------------------------- MODULE DecisionProofs ----------------------------
(***************************************************************************)
(* Proofs about Authorize, for any set of requests, any layers of policy   *)
(* files and any number of changes: type correctness, that a decision is   *)
(* what the files said, and that the denial log tells of it.               *)
(*                                                                         *)
(* And about LiveGrant, for any authorities and any number of connections: *)
(* a grant follows the files although they change between the reads.       *)
(***************************************************************************)
EXTENDS Decisions, Integers, FiniteSetTheorems, SequenceTheorems, TLAPS

-----------------------------------------------------------------------------
(* Types.                                                                  *)

Indices == 1..Len(PublicPaths) + Len(LocalPaths)
Answers == Failures \cup Modes
             \cup {"none", "Origin", "Options", "Healthy", "Unhealthy", "NoMode"}
PCs == {"idle", "public", "mode", "local", "probe", "flag", "log", "append",
        "dial", "done", "gone"}
Task == [pc : PCs, route : Routes, i : Indices, hit : {"no", "yes"}, mode : Modes,
         why : {"none", "denied", "report", "late"}, audited : {"no", "yes"},
         answer : Answers]
Histories == [granted : BOOLEAN, steady : SUBSET (Public \cup Local), sound : BOOLEAN]

\* The world outside the requests, the log, and the requests.
WorldOK ==
  /\ file \in [Public \cup Local -> Contents] /\ mode \in Modes \cup {"bad"}
  /\ disk \in {"ok", "bad"} /\ config \in [log : {"set", "none"}, local : {"set", "none"}]
  /\ stop \in {"no", "yes"} /\ edits \in 0..MaxEdits /\ flips \in 0..MaxDisk
LogOK ==
  /\ failed \in {"no", "yes"} /\ lost \in {"no", "yes"}
  /\ lock \in Requests \cup {"free"} /\ log \in [Requests -> Nat]
TaskOK == task \in [Requests -> Task]
SeenOK == seen \in [Requests -> Histories]

LEMMA TypeIs == TypeOK <=> WorldOK /\ LogOK /\ TaskOK /\ SeenOK
BY DEF TypeOK, WorldOK, LogOK, TaskOK, SeenOK, Task, Histories, PCs, Answers, Indices

\* The layers are counted from one.
LEMMA Layered ==
  /\ MaxEdits \in Nat /\ MaxDisk \in Nat
  /\ Len(PublicPaths) \in Nat \ {0} /\ Len(LocalPaths) \in Nat \ {0}
  /\ 1 \in Indices
  /\ \A i \in 1..Len(PublicPaths) : PublicPaths[i] \in Public
  /\ \A i \in 1..Len(LocalPaths) : LocalPaths[i] \in Local
  /\ \A f \in Public : \E i \in 1..Len(PublicPaths) : f = PublicPaths[i]
  /\ \A f \in Local : \E i \in 1..Len(LocalPaths) : f = LocalPaths[i]
<1>1. /\ MaxEdits \in Nat /\ MaxDisk \in Nat
      /\ Len(PublicPaths) \in Nat /\ Len(LocalPaths) \in Nat
      /\ DOMAIN PublicPaths = 1..Len(PublicPaths)
      /\ DOMAIN LocalPaths = 1..Len(LocalPaths)
  BY AuthorizeAssumption
<1>2. Len(PublicPaths) # 0 /\ Len(LocalPaths) # 0
  BY AuthorizeAssumption
<1>3. Len(PublicPaths) \in Nat \ {0} /\ Len(LocalPaths) \in Nat \ {0} /\ 1 \in Indices
  BY <1>1, <1>2 DEF Indices
<1>4. QED
  BY <1>1, <1>3 DEF Public, Local, ToSet

\* What an action makes of the record of its request.
LEMMA BecomesIs ==
  ASSUME TaskOK, NEW r \in Requests, NEW t \in Task, Becomes(r, t)
  PROVE  /\ TaskOK' /\ task'[r] = t
         /\ \A q \in Requests : q # r => task'[q] = task[q]
BY DEF TaskOK, Becomes

LEMMA MomentOK == ASSUME NEW route PROVE Moment(route) \in Histories
BY DEF Moment, Histories, Grants, Layers

LEMMA WitnessOK == SeenOK /\ Witness => SeenOK'
<1> SUFFICES ASSUME SeenOK, Witness PROVE SeenOK'
  OBVIOUS
<1>1. ASSUME NEW r \in Requests PROVE seen'[r] \in Histories
  <2> DEFINE m == Moment(task[r].route)'
  <2>1. m \in Histories
    BY DEF Moment, Histories, Grants, Layers
  <2>2. seen[r] \in Histories
    BY DEF SeenOK
  <2>3. seen'[r] = IF ~Active(r) THEN seen[r]
                   ELSE [granted |-> seen[r].granted \/ m.granted,
                         steady  |-> seen[r].steady \cap m.steady,
                         sound   |-> seen[r].sound /\ m.sound]
    BY DEF Witness
  <2> HIDE DEF m
  <2>4. QED
    BY <2>1, <2>2, <2>3 DEF Histories
<1>2. QED
  BY <1>1 DEF SeenOK, Witness

-----------------------------------------------------------------------------
(* The inductive invariant, for one request with its record t, its history *)
(* s and its number of lines n.                                            *)

\* Which route may be at which step, and which layer is read next.
Routed(t) ==
  /\ t.pc = "idle" => t = NoTask
  /\ t.pc = "public" => t.route \in {"public", "health"} /\ t.i \in 1..Len(PublicPaths)
  /\ t.pc = "mode" => t.route \in {"public", "health", "status"} /\ t.i = 1
  /\ t.pc = "local" =>
       /\ t.route = "health" \/ (t.route = "local" /\ config.local = "set")
       /\ t.i \in 1..Len(LocalPaths)
  /\ t.pc \in {"probe", "flag"} => t.route = "health"
  /\ t.pc \in {"log", "append", "dial"} => t.route \in {"public", "local"}

\* The history has seen the present moment.
Underway(t) == t.pc \notin {"idle", "done", "gone"}
Witnessed(t, s) ==
  Underway(t) =>
    /\ Grants(t.route) => s.granted
    /\ \A f \in s.steady : f \in Layers(t.route) /\ file[f] = "matches"
    /\ s.sound => \A f \in Layers(t.route) : file[f] # "bad"
    /\ s.sound /\ t.route = "public" => mode # "bad"

\* What was found was there, and what was passed over has not been there all the while.
Judged(t) == t.route \in {"public", "local"}
Passed(t) ==
  IF t.route = "public" /\ t.pc = "public" THEN {PublicPaths[j] : j \in 1..(t.i - 1)}
  ELSE IF t.route = "public" /\ t.pc = "mode" THEN Public
  ELSE IF t.route = "local" /\ t.pc = "local" THEN {LocalPaths[j] : j \in 1..(t.i - 1)}
  ELSE {}
FoundIsSeen(t, s) ==
  /\ t.hit = "yes" /\ Judged(t) => s.granted
  /\ t.why = "report" => s.granted
  /\ t.hit = "no" => \A f \in Passed(t) : f \notin s.steady

Granted(t, s) == t.pc = "dial" \/ t.answer = "Origin" => s.granted
NotDenied(t, s) ==
  s.sound /\ s.steady # {} /\ (t.route = "local" => config.local = "set")
    => t.why # "denied"

\* The line of a report is there before the request goes on.
Counted(t, n) ==
  /\ n <= 1
  /\ t.pc \notin {"dial", "done", "gone"} => n = 0 /\ t.audited = "no"
  /\ t.pc = "dial" =>
       /\ t.audited = "no" => n = 0
       /\ t.audited = "yes" /\ config.log = "set" => n = 1
       /\ t.route = "public" /\ t.hit = "no" => t.mode = "open" \/ t.audited = "yes"

Good(t, s, n) ==
  /\ Routed(t) /\ Witnessed(t, s) /\ FoundIsSeen(t, s)
  /\ Granted(t, s) /\ NotDenied(t, s) /\ Counted(t, n)

AllGood == \A r \in Requests : Good(task[r], seen[r], log[r])

IInv == TypeOK /\ failed = lost /\ AllGood

-----------------------------------------------------------------------------
(* What the actions make of a record, in a world that stands still.        *)

\* An answer ends a request; only the origin's needs a grant.
LEMMA DoneIsGood ==
  ASSUME NEW t \in Task, NEW s \in Histories, NEW n \in Nat, Good(t, s, n),
         NEW what \in Answers, what = "Origin" => s.granted, NEW m \in {0, 1}
  PROVE  /\ [t EXCEPT !.pc = "done", !.answer = what] \in Task
         /\ Good([t EXCEPT !.pc = "done", !.answer = what], s, m)
<1> DEFINE u == [t EXCEPT !.pc = "done", !.answer = what]
<1>1. u \in Task
  BY DEF Task, PCs
<1>2. /\ u.pc = "done" /\ u.answer = what /\ u.route = t.route
      /\ u.hit = t.hit /\ u.why = t.why /\ u.audited = t.audited
  BY DEF Task
<1> HIDE DEF u
<1>3. Passed(u) = {}
  BY <1>2 DEF Passed
<1>4. Good(u, s, m)
  BY <1>2, <1>3
     DEF Good, Routed, Witnessed, Underway, FoundIsSeen, Judged, Granted, NotDenied,
         Counted
<1>5. QED
  BY <1>1, <1>4 DEF u

LEMMA GoneIsGood ==
  ASSUME NEW t \in Task, NEW s \in Histories, NEW n \in Nat, Good(t, s, n)
  PROVE  /\ [t EXCEPT !.pc = "gone"] \in Task
         /\ Good([t EXCEPT !.pc = "gone"], s, n)
<1> DEFINE u == [t EXCEPT !.pc = "gone"]
<1>1. u \in Task
  BY DEF Task, PCs
<1>2. /\ u.pc = "gone" /\ u.answer = t.answer /\ u.route = t.route
      /\ u.hit = t.hit /\ u.why = t.why /\ u.audited = t.audited
  BY DEF Task
<1> HIDE DEF u
<1>3. Passed(u) = {}
  BY <1>2 DEF Passed
<1>4. Good(u, s, n)
  BY <1>2, <1>3
     DEF Good, Routed, Witnessed, Underway, FoundIsSeen, Judged, Granted, NotDenied,
         Counted
<1>5. QED
  BY <1>1, <1>4 DEF u

\* A denial is on its way to the log when no file held the host all the while, or
\* one could not be read.
LEMMA DenialIsGood ==
  ASSUME NEW t \in Task, NEW s \in Histories, NEW n \in Nat, Good(t, s, n),
         t.pc \in {"public", "mode", "local"}, Judged(t), NEW m \in Modes,
         s.sound => s.steady = {}
  PROVE  /\ [t EXCEPT !.pc = "log", !.mode = m, !.why = "denied"] \in Task
         /\ Good([t EXCEPT !.pc = "log", !.mode = m, !.why = "denied"], s, n)
<1> DEFINE u == [t EXCEPT !.pc = "log", !.mode = m, !.why = "denied"]
<1>1. u \in Task
  BY DEF Task, PCs
<1>2. /\ u.pc = "log" /\ u.answer = t.answer /\ u.route = t.route
      /\ u.hit = t.hit /\ u.why = "denied" /\ u.audited = t.audited
  BY DEF Task
<1> HIDE DEF u
<1>3. Passed(u) = {}
  BY <1>2 DEF Passed
<1>4. Routed(u) /\ Witnessed(u, s)
  BY <1>2 DEF Good, Routed, Witnessed, Underway, Judged
<1>5. FoundIsSeen(u, s) /\ Granted(u, s) /\ NotDenied(u, s) /\ Counted(u, n)
  BY <1>2, <1>3 DEF Good, FoundIsSeen, Judged, Granted, NotDenied, Counted
<1>6. QED
  BY <1>1, <1>4, <1>5 DEF u, Good

\* One request has taken a step of its own, and the others have not.
Kept(r) ==
  /\ TaskOK'
  /\ \A q \in Requests : q # r => task'[q] = task[q]
  /\ Good(task'[r], seen[r], log'[r])

LEMMA RequestIs ==
  ASSUME IInv, NEW r \in Requests
  PROVE  /\ WorldOK /\ TaskOK /\ task[r] \in Task /\ seen[r] \in Histories /\ log[r] \in Nat
         /\ Good(task[r], seen[r], log[r]) /\ log[r] \in {0, 1}
<1>1. /\ WorldOK /\ TaskOK /\ task[r] \in Task /\ seen[r] \in Histories /\ log[r] \in Nat
      /\ Good(task[r], seen[r], log[r])
  BY TypeIs DEF IInv, AllGood, LogOK, TaskOK, SeenOK
<1>2. log[r] \in {0, 1}
  BY <1>1 DEF Good, Counted
<1>3. QED
  BY <1>1, <1>2

LEMMA BecomesKeeps ==
  ASSUME IInv, NEW r \in Requests, NEW t \in Task, Becomes(r, t),
         Good(t, seen[r], log'[r])
  PROVE  Kept(r)
BY BecomesIs, RequestIs DEF Kept

LEMMA AnswerKeeps ==
  ASSUME IInv, NEW r \in Requests, NEW what \in Answers, what = "Origin" => seen[r].granted,
         log'[r] \in {0, 1}, Answer(r, what)
  PROVE  Kept(r)
<1>1. /\ [task[r] EXCEPT !.pc = "done", !.answer = what] \in Task
      /\ Good([task[r] EXCEPT !.pc = "done", !.answer = what], seen[r], log'[r])
  BY RequestIs, DoneIsGood
<1>2. QED
  BY <1>1, BecomesKeeps DEF Answer

\* A file or a mode that cannot be used has not been sound all the while.
LEMMA UnusableKeeps ==
  ASSUME IInv, NEW r \in Requests, Unusable(r), log' = log,
         task[r].pc \in {"public", "mode", "local"}, task[r].route \in {"public", "health", "local"},
         task[r].route # "health" => ~seen[r].sound
  PROVE  Kept(r)
<1>1. CASE task[r].route = "health"
  BY <1>1, RequestIs, AnswerKeeps DEF Unusable, Answers
<1>2. CASE task[r].route # "health"
  <2> DEFINE u == [task[r] EXCEPT !.pc = "log", !.mode = "enforce", !.why = "denied"]
  <2>1. u \in Task /\ Good(u, seen[r], log[r])
    BY <1>2, RequestIs, DenialIsGood DEF Judged, Modes
  <2>2. Becomes(r, u)
    BY <1>2 DEF Unusable
  <2>3. QED
    BY <2>1, <2>2, BecomesKeeps
<1>3. QED
  BY <1>1, <1>2

\* The next public layer: a match is granted by this very moment, and what is passed
\* over was not in this layer all the while.
LEMMA ReadPublicKeeps ==
  ASSUME IInv, NEW r \in Requests, ReadPublic(r)
  PROVE  Kept(r)
<1> DEFINE t == task[r]
           s == seen[r]
           f == PublicPaths[t.i]
           last == ~(t.i < Len(PublicPaths))
           u == [t EXCEPT !.i = IF t.i < Len(PublicPaths) THEN t.i + 1 ELSE 1,
                          !.hit = Found(f, t.hit),
                          !.pc = IF t.i < Len(PublicPaths) THEN "public" ELSE "mode"]
<1>1. t \in Task /\ s \in Histories /\ Good(t, s, log[r]) /\ log[r] \in Nat
  BY RequestIs
<1>2. /\ t.pc = "public" /\ t.route \in {"public", "health"}
      /\ t.i \in 1..Len(PublicPaths) /\ f \in Public
  BY <1>1, Layered DEF ReadPublic, Good, Routed
<1>3. log' = log
  BY DEF ReadPublic
<1>4. Underway(t) /\ f \in Layers(t.route)
  BY <1>2 DEF Underway, Layers
<1>5. CASE Uses(f) = "no"
  <2>1. t.route # "health" => ~s.sound
    BY <1>1, <1>4, <1>5 DEF Good, Witnessed, Uses
  <2>2. Unusable(r)
    BY <1>5 DEF ReadPublic
  <2>3. QED
    BY <1>2, <1>3, <2>1, <2>2, UnusableKeeps
<1>6. CASE Uses(f) # "no"
  <2>1. Becomes(r, u)
    BY <1>6 DEF ReadPublic
  <2>2. (IF t.i < Len(PublicPaths) THEN t.i + 1 ELSE 1) \in Indices
    BY <1>2, Layered DEF Indices
  <2>3. Found(f, t.hit) \in {"no", "yes"}
    BY <1>1 DEF Found, Task
  <2>4. u \in Task
    BY <1>1, <2>2, <2>3 DEF Task, PCs
  <2>5. /\ u.pc = IF last THEN "mode" ELSE "public"
        /\ u.i = IF last THEN 1 ELSE t.i + 1
        /\ u.hit = Found(f, t.hit) /\ u.route = t.route /\ u.why = t.why
        /\ u.audited = t.audited /\ u.answer = t.answer
    BY <1>1 DEF Task
  <2> HIDE DEF u
  <2>6. Routed(u)
    BY <1>2, <2>5, Layered DEF Routed
  <2>7. Witnessed(u, s)
    BY <1>1, <1>4, <2>5 DEF Good, Witnessed
  <2>8. Granted(u, s) /\ NotDenied(u, s) /\ Counted(u, log[r])
    BY <1>1, <1>2, <2>5 DEF Good, Granted, NotDenied, Counted
  <2>9. ASSUME u.hit = "yes", Judged(u) PROVE s.granted
    <3>1. t.route = "public"
      BY <1>2, <2>5, <2>9 DEF Judged
    <3>2. CASE file[f] = "matches"
      BY <1>1, <1>2, <1>4, <3>1, <3>2 DEF Good, Witnessed, Grants
    <3>3. CASE file[f] # "matches"
      BY <1>1, <2>5, <2>9, <3>1, <3>3 DEF Good, FoundIsSeen, Judged, Found
    <3>4. QED
      BY <3>2, <3>3
  <2>10. ASSUME u.hit = "no", NEW g \in Passed(u) PROVE g \notin s.steady
    <3>1. t.hit = "no" /\ file[f] # "matches"
      BY <2>5, <2>10 DEF Found
    <3>2. f \notin s.steady
      BY <1>1, <1>4, <3>1 DEF Good, Witnessed
    <3>3. t.route = "public"
      BY <1>2, <2>5, <2>10 DEF Passed
    <3>4. \A j \in 1..(t.i - 1) : PublicPaths[j] \notin s.steady
      BY <1>1, <1>2, <3>1, <3>3 DEF Good, FoundIsSeen, Passed
    <3>5. PICK j \in 1..Len(PublicPaths) : g = PublicPaths[j] /\ j <= t.i
      <4>1. CASE last
        <5>1. g \in Public
          BY <2>5, <2>10, <3>3, <4>1 DEF Passed
        <5>2. PICK k \in 1..Len(PublicPaths) : g = PublicPaths[k]
          BY <5>1, Layered
        <5>3. k <= t.i
          BY <1>2, <4>1, Layered
        <5>4. QED
          BY <5>2, <5>3
      <4>2. CASE ~last
        <5>0. Passed(u) = {PublicPaths[k] : k \in 1..(u.i - 1)} /\ u.i = t.i + 1
          BY <2>5, <3>3, <4>2 DEF Passed
        <5>1. PICK k \in 1..(u.i - 1) : g = PublicPaths[k]
          BY <2>10, <5>0
        <5>2. k \in 1..Len(PublicPaths) /\ k <= t.i
          BY <1>2, <4>2, <5>0, Layered
        <5>3. QED
          BY <5>1, <5>2
      <4>3. QED
        BY <4>1, <4>2
    <3>6. j = t.i \/ j \in 1..(t.i - 1)
      BY <1>2, <3>5, Layered
    <3>7. QED
      BY <3>2, <3>4, <3>5, <3>6
  <2>11. FoundIsSeen(u, s)
    BY <1>1, <2>5, <2>9, <2>10 DEF Good, FoundIsSeen
  <2>12. Good(u, seen[r], log'[r])
    BY <1>3, <2>6, <2>7, <2>8, <2>11 DEF Good
  <2>13. QED
    BY <2>1, <2>4, <2>12, BecomesKeeps
<1>7. QED
  BY <1>5, <1>6

\* The mode is read last: with it the decision holds for what was read.
LEMMA ReadModeKeeps ==
  ASSUME IInv, NEW r \in Requests, ReadMode(r)
  PROVE  Kept(r)
<1> DEFINE t == task[r]
           s == seen[r]
<1>1. t \in Task /\ s \in Histories /\ Good(t, s, log[r]) /\ log[r] \in Nat
  BY RequestIs
<1>2. /\ t.pc = "mode" /\ t.route \in {"public", "health", "status"} /\ t.i = 1
      /\ mode \in Modes \cup {"bad"}
  BY <1>1, RequestIs DEF ReadMode, Good, Routed, WorldOK
<1>3. log' = log /\ log[r] \in {0, 1}
  BY RequestIs DEF ReadMode
<1>4. Underway(t)
  BY <1>2 DEF Underway
<1>5. CASE t.route = "status"
  <2>1. Answer(r, IF mode = "bad" THEN "NoMode" ELSE mode)
    BY <1>5 DEF ReadMode
  <2>2. (IF mode = "bad" THEN "NoMode" ELSE mode) \in Answers \ {"Origin"}
    BY <1>2 DEF Answers, Modes
  <2>3. QED
    BY <1>3, <2>1, <2>2, AnswerKeeps
<1>6. CASE t.route # "status" /\ mode = "bad"
  <2>1. Unusable(r)
    BY <1>6 DEF ReadMode
  <2>2. t.route # "health" => ~s.sound
    BY <1>1, <1>2, <1>4, <1>6 DEF Good, Witnessed
  <2>3. QED
    BY <1>2, <1>3, <1>6, <2>1, <2>2, UnusableKeeps
<1>7. CASE t.route = "health" /\ mode # "bad"
  <2> DEFINE u == [t EXCEPT !.pc = IF config.local = "set" THEN "local" ELSE "probe"]
  <2>1. Becomes(r, u)
    BY <1>7 DEF ReadMode
  <2>2. u \in Task
    BY <1>1 DEF Task, PCs
  <2>3. /\ u.pc = IF config.local = "set" THEN "local" ELSE "probe"
        /\ u.i = 1 /\ u.hit = t.hit /\ u.route = "health" /\ u.why = t.why
        /\ u.audited = t.audited /\ u.answer = t.answer
    BY <1>1, <1>2, <1>7 DEF Task
  <2> HIDE DEF u
  <2>4. Routed(u)
    BY <2>3, Layered DEF Routed
  <2>5. Witnessed(u, s)
    BY <1>1, <1>4, <1>7, <2>3 DEF Good, Witnessed
  <2>6. FoundIsSeen(u, s)
    BY <1>1, <1>7, <2>3 DEF Good, FoundIsSeen, Judged, Passed
  <2>7. Granted(u, s) /\ NotDenied(u, s) /\ Counted(u, log[r])
    BY <1>1, <1>2, <1>7, <2>3 DEF Good, Granted, NotDenied, Counted
  <2>8. QED
    BY <1>3, <2>1, <2>2, <2>4, <2>5, <2>6, <2>7, BecomesKeeps DEF Good
<1>8. CASE t.route = "public" /\ mode # "bad"
  <2>1. Decide(r, mode) /\ mode \in Modes
    BY <1>2, <1>8 DEF ReadMode
  <2>2. mode \in {"report", "open"} => s.granted
    BY <1>1, <1>4, <1>8 DEF Good, Witnessed, Grants
  <2>3. t.hit = "yes" => s.granted
    BY <1>1, <1>8 DEF Good, FoundIsSeen, Judged
  <2>4. CASE t.hit = "yes" \/ mode = "open"
    <3> DEFINE u == [t EXCEPT !.pc = "dial", !.mode = mode]
    <3>1. Becomes(r, u)
      BY <2>1, <2>4 DEF Decide
    <3>2. u \in Task
      BY <1>1, <2>1 DEF Task, PCs
    <3>3. /\ u.pc = "dial" /\ u.mode = mode /\ u.hit = t.hit /\ u.route = "public"
          /\ u.why = t.why /\ u.audited = t.audited /\ u.answer = t.answer
      BY <1>1, <1>8 DEF Task
    <3> HIDE DEF u
    <3>4. Routed(u) /\ Witnessed(u, s)
      BY <1>1, <1>4, <1>8, <3>3 DEF Good, Routed, Witnessed
    <3>5. FoundIsSeen(u, s)
      BY <1>1, <1>8, <3>3 DEF Good, FoundIsSeen, Judged, Passed
    <3>6. Granted(u, s)
      BY <2>2, <2>3, <2>4 DEF Granted
    <3>7. NotDenied(u, s)
      BY <1>1, <1>8, <3>3 DEF Good, NotDenied
    <3>8. t.audited = "no" /\ log[r] = 0
      BY <1>1, <1>2 DEF Good, Counted
    <3>9. (t.hit = "no" => u.mode = "open") /\ u.audited = "no"
      BY <2>4, <3>3, <3>8
    <3>10. Counted(u, log[r])
      BY <3>3, <3>8, <3>9 DEF Counted
    <3>11. QED
      BY <1>3, <3>1, <3>2, <3>4, <3>5, <3>6, <3>7, <3>10, BecomesKeeps DEF Good
  <2>5. CASE t.hit # "yes" /\ mode = "report"
    <3> DEFINE u == [t EXCEPT !.pc = "log", !.mode = mode, !.why = "report"]
    <3>1. Becomes(r, u)
      BY <2>1, <2>5 DEF Decide
    <3>2. u \in Task
      BY <1>1, <2>1 DEF Task, PCs
    <3>3. /\ u.pc = "log" /\ u.hit = t.hit /\ u.route = "public"
          /\ u.why = "report" /\ u.audited = t.audited /\ u.answer = t.answer
      BY <1>1, <1>8 DEF Task
    <3> HIDE DEF u
    <3>4. Routed(u) /\ Witnessed(u, s)
      BY <1>1, <1>4, <1>8, <3>3 DEF Good, Routed, Witnessed
    <3>5. FoundIsSeen(u, s)
      BY <1>1, <1>8, <2>2, <2>5, <3>3 DEF Good, FoundIsSeen, Judged, Passed
    <3>6. Granted(u, s) /\ NotDenied(u, s) /\ Counted(u, log[r])
      BY <1>1, <1>2, <1>8, <3>3 DEF Good, Granted, NotDenied, Counted
    <3>7. QED
      BY <1>3, <3>1, <3>2, <3>4, <3>5, <3>6, BecomesKeeps DEF Good
  <2>6. CASE t.hit # "yes" /\ mode = "enforce"
    <3> DEFINE u == [t EXCEPT !.pc = "log", !.mode = mode, !.why = "denied"]
    <3>1. Becomes(r, u)
      BY <2>1, <2>6 DEF Decide
    <3>2. \A f \in Public : f \notin s.steady
      BY <1>1, <1>2, <1>8, <2>6 DEF Good, FoundIsSeen, Passed, Task
    <3>3. \A f \in s.steady : f \in Public
      BY <1>1, <1>4, <1>8 DEF Good, Witnessed, Layers
    <3>4. s.steady = {}
      BY <3>2, <3>3
    <3>5. u \in Task /\ Good(u, s, log[r])
      BY <1>1, <1>2, <1>8, <2>1, <3>4, DenialIsGood DEF Judged
    <3>6. QED
      BY <1>3, <3>1, <3>5, BecomesKeeps
  <2>7. QED
    BY <2>1, <2>4, <2>5, <2>6 DEF Modes
<1>9. QED
  BY <1>2, <1>5, <1>6, <1>7, <1>8

\* The next local layer.
LEMMA ReadLocalKeeps ==
  ASSUME IInv, NEW r \in Requests, ReadLocal(r)
  PROVE  Kept(r)
<1> DEFINE t == task[r]
           s == seen[r]
           f == LocalPaths[t.i]
           hit == Found(f, t.hit)
<1>1. t \in Task /\ s \in Histories /\ Good(t, s, log[r]) /\ log[r] \in Nat
  BY RequestIs
<1>2. /\ t.pc = "local" /\ t.i \in 1..Len(LocalPaths) /\ f \in Local
      /\ t.route = "health" \/ (t.route = "local" /\ config.local = "set")
  BY <1>1, Layered DEF ReadLocal, Good, Routed
<1>3. log' = log
  BY DEF ReadLocal
<1>4. Underway(t) /\ (t.route = "local" => f \in Layers(t.route))
  BY <1>2 DEF Underway, Layers
<1>5. hit \in {"no", "yes"}
  BY <1>1 DEF Found, Task
<1>6. CASE Uses(f) = "no"
  <2>1. t.route # "health" => ~s.sound
    BY <1>1, <1>2, <1>4, <1>6 DEF Good, Witnessed, Uses
  <2>2. Unusable(r)
    BY <1>6 DEF ReadLocal
  <2>3. QED
    BY <1>2, <1>3, <2>1, <2>2, UnusableKeeps
<1>7. ASSUME hit = "yes", t.route = "local" PROVE s.granted
  <2>1. CASE file[f] = "matches"
    BY <1>1, <1>2, <1>4, <1>7, <2>1 DEF Good, Witnessed, Grants
  <2>2. CASE file[f] # "matches"
    BY <1>1, <1>7, <2>2 DEF Good, FoundIsSeen, Judged, Found
  <2>3. QED
    BY <2>1, <2>2
<1>8. ASSUME hit = "no", t.route = "local"
      PROVE  \A j \in 1..t.i : LocalPaths[j] \notin s.steady
  <2>1. t.hit = "no" /\ file[f] # "matches"
    BY <1>8 DEF Found
  <2>2. f \notin s.steady
    BY <1>1, <1>4, <2>1 DEF Good, Witnessed
  <2>3. Passed(t) = {LocalPaths[j] : j \in 1..(t.i - 1)}
    BY <1>2, <1>8 DEF Passed
  <2>4. \A j \in 1..(t.i - 1) : LocalPaths[j] \notin s.steady
    BY <1>1, <2>1, <2>3 DEF Good, FoundIsSeen
  <2>5. \A j \in 1..t.i : j = t.i \/ j \in 1..(t.i - 1)
    BY <1>2, Layered
  <2>6. QED
    BY <2>2, <2>4, <2>5
<1>9. CASE Uses(f) # "no" /\ t.i < Len(LocalPaths)
  <2> DEFINE u == [t EXCEPT !.i = t.i + 1, !.hit = hit]
  <2>1. Becomes(r, u)
    BY <1>9 DEF ReadLocal
  <2>2. t.i + 1 \in 1..Len(LocalPaths) /\ t.i + 1 \in Indices
    BY <1>2, <1>9, Layered DEF Indices
  <2>3. u \in Task
    BY <1>1, <1>5, <2>2 DEF Task
  <2>4. /\ u.pc = "local" /\ u.i = t.i + 1 /\ u.hit = hit /\ u.route = t.route
        /\ u.why = t.why /\ u.audited = t.audited /\ u.answer = t.answer
    BY <1>1, <1>2 DEF Task
  <2> HIDE DEF u
  <2>5. Routed(u)
    BY <1>2, <2>2, <2>4 DEF Routed
  <2>6. Witnessed(u, s)
    BY <1>1, <1>4, <2>4 DEF Good, Witnessed
  <2>7. Granted(u, s) /\ NotDenied(u, s) /\ Counted(u, log[r])
    BY <1>1, <1>2, <2>4 DEF Good, Granted, NotDenied, Counted
  <2>8. u.hit = "yes" /\ Judged(u) => s.granted
    BY <1>2, <1>7, <2>4 DEF Judged
  <2>9. ASSUME u.hit = "no", NEW g \in Passed(u) PROVE g \notin s.steady
    <3>1. t.route = "local"
      BY <1>2, <2>4, <2>9 DEF Passed
    <3>2. Passed(u) = {LocalPaths[j] : j \in 1..(u.i - 1)}
      BY <2>4, <3>1 DEF Passed
    <3>3. PICK j \in 1..(u.i - 1) : g = LocalPaths[j]
      BY <2>9, <3>2
    <3>4. j \in 1..t.i
      BY <1>2, <2>4, Layered
    <3>5. QED
      BY <1>8, <2>4, <2>9, <3>1, <3>3, <3>4
  <2>10. FoundIsSeen(u, s)
    BY <1>1, <2>4, <2>8, <2>9 DEF Good, FoundIsSeen
  <2>11. QED
    BY <1>3, <2>1, <2>3, <2>5, <2>6, <2>7, <2>10, BecomesKeeps DEF Good
<1>10. CASE Uses(f) # "no" /\ ~(t.i < Len(LocalPaths)) /\ t.route = "health"
  <2> DEFINE u == [t EXCEPT !.pc = "probe"]
  <2>1. Becomes(r, u)
    BY <1>10 DEF ReadLocal
  <2>2. u \in Task
    BY <1>1 DEF Task, PCs
  <2>3. /\ u.pc = "probe" /\ u.hit = t.hit /\ u.route = "health" /\ u.why = t.why
        /\ u.audited = t.audited /\ u.answer = t.answer
    BY <1>1, <1>10 DEF Task
  <2> HIDE DEF u
  <2>4. Routed(u) /\ Witnessed(u, s)
    BY <1>1, <1>4, <1>10, <2>3 DEF Good, Routed, Witnessed
  <2>5. FoundIsSeen(u, s)
    BY <1>1, <1>10, <2>3 DEF Good, FoundIsSeen, Judged, Passed
  <2>6. Granted(u, s) /\ NotDenied(u, s) /\ Counted(u, log[r])
    BY <1>1, <1>2, <1>10, <2>3 DEF Good, Granted, NotDenied, Counted
  <2>7. QED
    BY <1>3, <2>1, <2>2, <2>4, <2>5, <2>6, BecomesKeeps DEF Good
<1>11. CASE Uses(f) # "no" /\ ~(t.i < Len(LocalPaths)) /\ t.route = "local" /\ hit = "yes"
  <2> DEFINE u == [t EXCEPT !.pc = "dial", !.hit = hit]
  <2>1. Becomes(r, u)
    BY <1>11 DEF ReadLocal
  <2>2. u \in Task
    BY <1>1, <1>5 DEF Task, PCs
  <2>3. /\ u.pc = "dial" /\ u.hit = "yes" /\ u.route = "local" /\ u.why = t.why
        /\ u.audited = t.audited /\ u.answer = t.answer
    BY <1>1, <1>11 DEF Task
  <2> HIDE DEF u
  <2>4. s.granted
    BY <1>7, <1>11
  <2>5. Routed(u) /\ Witnessed(u, s)
    BY <1>1, <1>4, <1>11, <2>3 DEF Good, Routed, Witnessed
  <2>6. FoundIsSeen(u, s) /\ Granted(u, s)
    BY <2>3, <2>4 DEF FoundIsSeen, Granted
  <2>7. NotDenied(u, s)
    BY <1>1, <1>11, <2>3 DEF Good, NotDenied
  <2>8. t.audited = "no" /\ log[r] = 0
    BY <1>1, <1>2 DEF Good, Counted
  <2>9. Counted(u, log[r])
    BY <2>3, <2>8 DEF Counted
  <2>10. QED
    BY <1>3, <2>1, <2>2, <2>5, <2>6, <2>7, <2>9, BecomesKeeps DEF Good
<1>12. CASE Uses(f) # "no" /\ ~(t.i < Len(LocalPaths)) /\ t.route = "local" /\ hit = "no"
  <2> DEFINE u == [t EXCEPT !.pc = "log", !.mode = t.mode, !.why = "denied"]
  <2>1. Becomes(r, u)
    <3>1. [t EXCEPT !.pc = "log", !.why = "denied"] = u
      BY <1>1 DEF Task
    <3>2. QED
      BY <1>12, <3>1 DEF ReadLocal
  <2>2. t.i = Len(LocalPaths)
    BY <1>2, <1>12, Layered
  <2>3. \A g \in Local : g \notin s.steady
    BY <1>8, <1>12, <2>2, Layered
  <2>4. \A g \in s.steady : g \in Local
    BY <1>1, <1>4, <1>12 DEF Good, Witnessed, Layers
  <2>5. s.steady = {} /\ t.mode \in Modes
    BY <1>1, <2>3, <2>4 DEF Task
  <2>6. u \in Task /\ Good(u, s, log[r])
    BY <1>1, <1>2, <1>12, <2>5, DenialIsGood DEF Judged
  <2>7. QED
    BY <1>3, <2>1, <2>6, BecomesKeeps
<1>13. QED
  BY <1>2, <1>5, <1>6, <1>9, <1>10, <1>11, <1>12

LEMMA ProbeKeeps ==
  ASSUME IInv, NEW r \in Requests, Probe(r)
  PROVE  Kept(r)
<1> DEFINE t == task[r]
           s == seen[r]
<1>1. t \in Task /\ Good(t, s, log[r]) /\ log[r] \in {0, 1} /\ log' = log
  BY RequestIs DEF Probe
<1>2. t.pc \in {"probe", "flag"} /\ t.route = "health"
  BY DEF Probe
<1>3. CASE \E what \in {"Healthy", "Unhealthy"} : Answer(r, what)
  BY <1>1, <1>3, AnswerKeeps DEF Answers
<1>4. CASE Becomes(r, [t EXCEPT !.pc = "flag"])
  <2> DEFINE u == [t EXCEPT !.pc = "flag"]
  <2>1. u \in Task
    BY <1>1 DEF Task, PCs
  <2>2. /\ u.pc = "flag" /\ u.hit = t.hit /\ u.route = "health" /\ u.why = t.why
        /\ u.audited = t.audited /\ u.answer = t.answer
    BY <1>1, <1>2 DEF Task
  <2> HIDE DEF u
  <2>3. Routed(u) /\ Witnessed(u, s)
    BY <1>1, <1>2, <2>2 DEF Good, Routed, Witnessed, Underway
  <2>4. FoundIsSeen(u, s)
    BY <1>1, <1>2, <2>2 DEF Good, FoundIsSeen, Judged, Passed
  <2>5. Granted(u, s) /\ NotDenied(u, s) /\ Counted(u, log[r])
    BY <1>1, <1>2, <2>2 DEF Good, Granted, NotDenied, Counted
  <2>6. QED
    BY <1>1, <1>4, <2>1, <2>3, <2>4, <2>5, BecomesKeeps DEF Good, u
<1>5. QED
  BY <1>3, <1>4 DEF Probe, VerifyOpen, AppendFailed

\* A report goes on with its line, and a denial is answered.
LEMMA AfterRecordKeeps ==
  ASSUME IInv, NEW r \in Requests, NEW result, AfterRecord(r, result),
         task[r].pc \in {"log", "append"}, log'[r] \in {0, 1},
         result # "failed" /\ config.log = "set" => log'[r] = 1
  PROVE  Kept(r)
<1> DEFINE t == task[r]
           s == seen[r]
<1>1. t \in Task /\ s \in Histories /\ Good(t, s, log[r])
  BY RequestIs
<1>2. CASE \E what \in {"LocalDenied", "PublicDenied", "ReportLogUnavailable"} : Answer(r, what)
  BY <1>2, AnswerKeeps DEF Answers, Failures
<1>3. CASE t.why = "report" /\ result # "failed"
  <2> DEFINE u == [t EXCEPT !.pc = "dial", !.audited = "yes"]
  <2>1. Becomes(r, u)
    BY <1>3 DEF AfterRecord
  <2>2. u \in Task
    BY <1>1 DEF Task, PCs
  <2>3. /\ u.pc = "dial" /\ u.hit = t.hit /\ u.route = t.route /\ u.why = "report"
        /\ u.audited = "yes" /\ u.answer = t.answer
    BY <1>1, <1>3 DEF Task
  <2> HIDE DEF u
  <2>4. Routed(u) /\ Witnessed(u, s)
    BY <1>1, <2>3 DEF Good, Routed, Witnessed, Underway
  <2>5. FoundIsSeen(u, s) /\ Granted(u, s)
    BY <1>1, <1>3, <2>3 DEF Good, FoundIsSeen, Granted, Judged, Passed
  <2>6. NotDenied(u, s) /\ Counted(u, log'[r])
    BY <1>3, <2>3 DEF NotDenied, Counted
  <2>7. QED
    BY <2>1, <2>2, <2>4, <2>5, <2>6, BecomesKeeps DEF Good
<1>4. QED
  BY <1>2, <1>3 DEF AfterRecord, Denied

LEMMA RecordKeeps ==
  ASSUME IInv, NEW r \in Requests, Record(r)
  PROVE  Kept(r)
<1> DEFINE t == task[r]
           s == seen[r]
<1>1. t \in Task /\ Good(t, s, log[r]) /\ log[r] \in {0, 1} /\ log' = log /\ t.pc = "log"
  BY RequestIs DEF Record
<1>2. CASE config.log = "none" /\ AfterRecord(r, "disabled")
  BY <1>1, <1>2, AfterRecordKeeps
<1>3. CASE Becomes(r, [t EXCEPT !.pc = "append"])
  <2> DEFINE u == [t EXCEPT !.pc = "append"]
  <2>1. u \in Task
    BY <1>1 DEF Task, PCs
  <2>2. /\ u.pc = "append" /\ u.hit = t.hit /\ u.route = t.route /\ u.why = t.why
        /\ u.audited = t.audited /\ u.answer = t.answer
    BY <1>1 DEF Task
  <2> HIDE DEF u
  <2>3. Routed(u) /\ Witnessed(u, s)
    BY <1>1, <2>2 DEF Good, Routed, Witnessed, Underway
  <2>4. FoundIsSeen(u, s)
    BY <1>1, <2>2 DEF Good, FoundIsSeen, Judged, Passed
  <2>5. Granted(u, s) /\ NotDenied(u, s) /\ Counted(u, log[r])
    BY <1>1, <2>2 DEF Good, Granted, NotDenied, Counted
  <2>6. QED
    BY <1>1, <1>3, <2>1, <2>3, <2>4, <2>5, BecomesKeeps DEF Good, u
<1>4. QED
  BY <1>2, <1>3 DEF Record

\* The lines of the request after an append.
LEMMA Appended ==
  ASSUME IInv, NEW r \in Requests, task[r].pc = "append"
  PROVE  /\ log \in [Requests -> Nat] /\ log[r] = 0
         /\ [log EXCEPT ![r] = @ + 1][r] = 1
<1>1. log \in [Requests -> Nat]
  BY TypeIs DEF IInv, LogOK
<1>2. log[r] = 0
  BY RequestIs DEF Good, Counted
<1>3. QED
  BY <1>1, <1>2

LEMMA AppendLineKeeps ==
  ASSUME IInv, NEW r \in Requests, AppendLine(r)
  PROVE  Kept(r)
<1>1. task[r].pc = "append" /\ log \in [Requests -> Nat] /\ log[r] = 0
  BY Appended DEF AppendLine
<1>2. CASE disk = "ok"
  <2>1. log'[r] = 1
    BY <1>1, <1>2 DEF AppendLine
  <2>2. AfterRecord(r, "recorded")
    BY <1>2 DEF AppendLine
  <2>3. QED
    BY <1>1, <2>1, <2>2, AfterRecordKeeps
<1>3. CASE disk # "ok"
  <2>1. log'[r] = 0
    BY <1>1, <1>3 DEF AppendLine
  <2>2. AfterRecord(r, "failed")
    BY <1>3 DEF AppendLine
  <2>3. QED
    BY <1>1, <2>1, <2>2, AfterRecordKeeps
<1>4. QED
  BY <1>2, <1>3

LEMMA CancelKeeps ==
  ASSUME IInv, NEW r \in Requests, Cancel(r)
  PROVE  Kept(r)
<1>1. Answer(r, "ServiceUnavailable")
  BY DEF Cancel
<1>2. CASE UNCHANGED log
  BY <1>1, <1>2, RequestIs, AnswerKeeps DEF Answers, Failures
<1>3. CASE task[r].pc = "append" /\ log' = [log EXCEPT ![r] = @ + 1]
  BY <1>1, <1>3, Appended, AnswerKeeps DEF Answers, Failures
<1>4. QED
  BY <1>2, <1>3 DEF Cancel

LEMMA AbortKeeps ==
  ASSUME IInv, NEW r \in Requests, Abort(r)
  PROVE  Kept(r)
<1>1. /\ [task[r] EXCEPT !.pc = "gone"] \in Task
      /\ Good([task[r] EXCEPT !.pc = "gone"], seen[r], log[r])
  BY RequestIs, GoneIsGood
<1>2. QED
  BY <1>1, BecomesKeeps DEF Abort

LEMMA DialsKeeps ==
  ASSUME IInv, NEW r \in Requests, Dials(r)
  PROVE  Kept(r)
<1> DEFINE t == task[r]
           s == seen[r]
<1>1. /\ t \in Task /\ Good(t, s, log[r]) /\ log[r] \in {0, 1} /\ log' = log
      /\ t.pc = "dial" /\ s.granted
  <2>1. t.pc = "dial" /\ log' = log
    BY DEF Dials, Connected, NotConnected, ExchangeFails, AddressDenied
  <2>2. QED
    BY <2>1, RequestIs DEF Good, Granted
<1>2. CASE \E what \in Failures \cup {"Origin"} : Answer(r, what)
  BY <1>1, <1>2, AnswerKeeps DEF Answers
<1>3. CASE AddressDenied(r) /\ RecordsNow(r)
  <2> DEFINE u == [t EXCEPT !.pc = "log", !.why = "late"]
  <2>1. Becomes(r, u)
    BY <1>3 DEF AddressDenied
  <2>2. u \in Task
    BY <1>1 DEF Task, PCs
  <2>3. /\ u.pc = "log" /\ u.hit = t.hit /\ u.route = t.route /\ u.why = "late"
        /\ u.audited = "no" /\ u.answer = t.answer
    BY <1>1, <1>3 DEF Task, RecordsNow
  <2> HIDE DEF u
  <2>4. Routed(u) /\ Witnessed(u, s)
    BY <1>1, <2>3 DEF Good, Routed, Witnessed, Underway
  <2>5. FoundIsSeen(u, s) /\ Granted(u, s) /\ NotDenied(u, s)
    BY <1>1, <2>3 DEF FoundIsSeen, Granted, NotDenied, Passed
  <2>6. log[r] = 0
    BY <1>1, <1>3 DEF Good, Counted, RecordsNow
  <2>7. Counted(u, log[r])
    BY <2>3, <2>6 DEF Counted
  <2>8. QED
    BY <1>1, <2>1, <2>2, <2>4, <2>5, <2>7, BecomesKeeps DEF Good
<1>4. QED
  BY <1>2, <1>3
     DEF Dials, Connected, NotConnected, ExchangeFails, AddressDenied,
         ConnectFailure, ForwardFailure, ConnectErrors, ExchangeErrors, Failures

\* A request begins with the history of this moment.
LEMMA ArriveKeeps ==
  ASSUME IInv, NEW r \in Requests, NEW route \in Routes,
         Arrive(r, route)
  PROVE  /\ TaskOK' /\ SeenOK'
         /\ \A q \in Requests : q # r => task'[q] = task[q] /\ seen'[q] = seen[q]
         /\ Good(task'[r], seen'[r], log[r])
<1> DEFINE s == Moment(route)
<1>1. /\ task[r] \in Task /\ Good(task[r], seen[r], log[r]) /\ task[r].pc = "idle"
      /\ SeenOK /\ TaskOK
  BY RequestIs, TypeIs DEF Arrive, IInv
<1>2. task[r] = NoTask /\ log[r] = 0
  BY <1>1 DEF Good, Routed, Counted
<1>3. s \in Histories
  BY MomentOK
<1>4. SeenOK' /\ seen'[r] = s /\ \A q \in Requests : q # r => seen'[q] = seen[q]
  BY <1>1, <1>3 DEF Arrive, SeenOK
<1>5. PICK pc \in {"public", "mode", "local", "log", "done"},
           why \in {"none", "denied"}, what \in {"none", "Options", "BadRequest"} :
        /\ Becomes(r, [task[r] EXCEPT !.route = route, !.pc = pc, !.why = why, !.answer = what])
        /\ pc = "public" => route \in {"public", "health"}
        /\ pc = "mode" => route = "status"
        /\ pc = "local" => route = "local" /\ config.local = "set"
        /\ pc = "log" => route = "local"
        /\ why = "denied" => route = "local" /\ config.local = "none"
  BY DEF Arrive
<1> DEFINE u == [task[r] EXCEPT !.route = route, !.pc = pc, !.why = why, !.answer = what]
<1>6. u \in Task
  BY <1>1 DEF Task, PCs, Answers, Failures, Modes
<1>7. /\ u.pc = pc /\ u.route = route /\ u.why = why /\ u.answer = what
      /\ u.i = 1 /\ u.hit = "no" /\ u.audited = "no"
  BY <1>1, <1>2 DEF Task, NoTask
<1> HIDE DEF u
<1>8. Routed(u)
  BY <1>5, <1>7, Layered DEF Routed
<1>9. Witnessed(u, s)
  BY <1>7 DEF Witnessed, Moment
<1>10. Passed(u) = {}
  BY <1>5, <1>7 DEF Passed
<1>11. FoundIsSeen(u, s) /\ Granted(u, s)
  BY <1>7, <1>10 DEF FoundIsSeen, Granted
<1>12. NotDenied(u, s) /\ Counted(u, log[r])
  BY <1>2, <1>5, <1>7 DEF NotDenied, Counted
<1>13. TaskOK' /\ task'[r] = u /\ \A q \in Requests : q # r => task'[q] = task[q]
  BY <1>1, <1>5, <1>6, BecomesIs DEF u
<1>14. QED
  BY <1>4, <1>8, <1>9, <1>11, <1>12, <1>13 DEF Good

-----------------------------------------------------------------------------
(* The invariant is inductive.                                             *)

\* What is good stays so while the files do.
LEMMA StillGood ==
  ASSUME UNCHANGED <<file, mode, config>>, NEW r \in Requests,
         Good(task'[r], seen'[r], log'[r])
  PROVE  Good(task[r], seen[r], log[r])'
BY DEF Good, Routed, Witnessed, Underway, FoundIsSeen, Judged, Passed, Granted,
       NotDenied, Counted, Grants, Layers, NoTask, Public, Local

\* A change of a file or of the mode is witnessed by every request that is live.
LEMMA EditIsWitnessed ==
  ASSUME IInv, UNCHANGED <<task, log, config>>, Witness, NEW r \in Requests
  PROVE  Good(task[r], seen[r], log[r])'
<1> DEFINE t == task[r]
           s == seen[r]
           m == Moment(t.route)'
<1>1. t \in Task /\ s \in Histories /\ Good(t, s, log[r]) /\ task'[r] = t /\ log'[r] = log[r]
  BY RequestIs
<1>2. seen'[r] = IF ~Underway(t) THEN s
                 ELSE [granted |-> s.granted \/ m.granted,
                       steady  |-> s.steady \cap m.steady,
                       sound   |-> s.sound /\ m.sound]
  BY DEF Witness, Active, Underway
<1>3. /\ m.granted = Grants(t.route)'
      /\ m.steady = {f \in Layers(t.route) : file'[f] = "matches"}
      /\ m.sound => \A f \in Layers(t.route) : file'[f] # "bad"
      /\ m.sound => (t.route = "public" => mode' # "bad")
  BY <1>1 DEF Moment, Layers
<1> HIDE DEF m
<1>4. /\ s.granted => seen'[r].granted
      /\ \A f \in seen'[r].steady : f \in s.steady
      /\ seen'[r].sound => s.sound
  <2>1. CASE ~Underway(t)
    BY <1>2, <2>1
  <2>2. CASE Underway(t)
    <3>1. /\ seen'[r].granted = (s.granted \/ m.granted)
          /\ seen'[r].steady = s.steady \cap m.steady
          /\ seen'[r].sound = (s.sound /\ m.sound)
      BY <1>2, <2>2
    <3>2. QED
      BY <3>1
  <2>3. QED
    BY <2>1, <2>2
<1>5. Routed(t)' /\ Counted(t, log[r])'
  BY <1>1 DEF Good, Routed, Counted
<1>6. Witnessed(t, s)'
  <2> SUFFICES ASSUME Underway(t) PROVE Witnessed(t, s)'
    BY <1>1 DEF Witnessed, Underway
  <2>1. /\ m.granted => seen'[r].granted
        /\ \A f \in seen'[r].steady : f \in m.steady
        /\ seen'[r].sound => m.sound
    <3>1. /\ seen'[r].granted = (s.granted \/ m.granted)
          /\ seen'[r].steady = s.steady \cap m.steady
          /\ seen'[r].sound = (s.sound /\ m.sound)
      BY <1>2
    <3>2. QED
      BY <3>1
  <2>2. Grants(t.route)' => seen'[r].granted
    BY <1>3, <2>1
  <2>3. \A f \in seen'[r].steady : f \in Layers(t.route) /\ file'[f] = "matches"
    BY <1>3, <2>1
  <2>4. /\ seen'[r].sound => \A f \in Layers(t.route) : file'[f] # "bad"
        /\ seen'[r].sound /\ t.route = "public" => mode' # "bad"
    BY <1>3, <2>1
  <2>5. QED
    BY <1>1, <2>2, <2>3, <2>4 DEF Witnessed, Layers
<1>7. FoundIsSeen(t, s)'
  BY <1>1, <1>4 DEF Good, FoundIsSeen, Judged, Passed
<1>8. Granted(t, s)' /\ NotDenied(t, s)'
  BY <1>1, <1>4 DEF Good, Granted, NotDenied
<1>9. QED
  BY <1>5, <1>6, <1>7, <1>8 DEF Good

\* The flag of the last append and the log of the others.
LEMMA LogKeeps ==
  ASSUME IInv, NEW r \in Requests, Serve(r) \/ Abort(r)
  PROVE  /\ LogOK' /\ failed' = lost' /\ UNCHANGED world
         /\ \A q \in Requests : q # r => log'[q] = log[q]
<1>1. LogOK /\ failed = lost
  BY TypeIs DEF IInv
<1>2. CASE Reads(r)
  BY <1>1, <1>2 DEF Reads, ReadPublic, ReadMode, ReadLocal, Probe, LogOK
<1>3. CASE Record(r)
  BY <1>1, <1>3 DEF Record, LogOK
<1>4. CASE AppendLine(r)
  BY <1>1, <1>4 DEF AppendLine, LogOK
<1>5. CASE Cancel(r)
  <2>1. log' \in [Requests -> Nat] /\ \A q \in Requests : q # r => log'[q] = log[q]
    BY <1>1, <1>5 DEF Cancel, LogOK
  <2>2. QED
    BY <1>1, <1>5, <2>1 DEF Cancel, LogOK, DropGuard
<1>6. CASE Dials(r)
  BY <1>1, <1>6 DEF Dials, Connected, NotConnected, ExchangeFails, AddressDenied, LogOK
<1>7. CASE Abort(r)
  BY <1>1, <1>7 DEF Abort, LogOK, DropGuard
<1>8. QED
  BY <1>2, <1>3, <1>4, <1>5, <1>6, <1>7 DEF Serve

LEMMA RequestStep ==
  ASSUME IInv, NEW r \in Requests, Serve(r) \/ Abort(r)
  PROVE  IInv'
<1>1. Kept(r)
  BY ReadPublicKeeps, ReadModeKeeps, ReadLocalKeeps, ProbeKeeps, RecordKeeps,
     AppendLineKeeps, CancelKeeps, DialsKeeps, AbortKeeps
     DEF Serve, Reads
<1>2. /\ LogOK' /\ failed' = lost' /\ UNCHANGED world
      /\ \A q \in Requests : q # r => log'[q] = log[q]
  BY LogKeeps
<1>3. TypeOK'
  <2>1. WorldOK /\ SeenOK
    BY TypeIs DEF IInv
  <2>2. WorldOK' /\ SeenOK'
    BY <1>2, <2>1 DEF world, WorldOK, SeenOK
  <2>3. TaskOK'
    BY <1>1 DEF Kept
  <2>4. QED
    BY <1>2, <2>2, <2>3
       DEF TypeOK, WorldOK, LogOK, TaskOK, SeenOK, Task, Histories, PCs, Answers,
           Indices
<1>4. ASSUME NEW q \in Requests PROVE Good(task'[q], seen'[q], log'[q])
  <2>1. Good(task[q], seen[q], log[q])
    BY RequestIs
  <2>2. QED
    BY <1>1, <1>2, <2>1 DEF Kept, world
<1>5. AllGood'
  <2>1. UNCHANGED <<file, mode, config>>
    BY <1>2 DEF world
  <2>2. ASSUME NEW q \in Requests PROVE Good(task[q], seen[q], log[q])'
    BY <1>4, <2>1, StillGood
  <2>3. QED
    BY <2>2 DEF AllGood
<1>6. QED
  BY <1>2, <1>3, <1>5 DEF IInv

LEMMA ArriveStep ==
  ASSUME IInv, NEW r \in Requests, NEW route \in Routes,
         Arrive(r, route)
  PROVE  IInv'
<1>1. /\ TaskOK' /\ SeenOK'
      /\ \A q \in Requests : q # r => task'[q] = task[q] /\ seen'[q] = seen[q]
      /\ Good(task'[r], seen'[r], log[r])
  BY ArriveKeeps
<1>2. UNCHANGED <<file, mode, disk, config, failed, lock, stop, edits, flips, log, lost>>
  BY DEF Arrive
<1>3. TypeOK'
  BY <1>1, <1>2
     DEF IInv, TypeOK, TaskOK, SeenOK, Task, Histories, PCs, Answers, Indices
<1>4. ASSUME NEW q \in Requests PROVE Good(task[q], seen[q], log[q])'
  <2>1. Good(task'[q], seen'[q], log'[q])
    BY <1>1, <1>2, RequestIs
  <2>2. QED
    BY <1>2, <2>1, StillGood
<1>5. QED
  BY <1>2, <1>3, <1>4 DEF IInv, AllGood

LEMMA WorldStep ==
  ASSUME IInv, World
  PROVE  IInv'
<1>1. WorldOK /\ LogOK /\ TaskOK /\ SeenOK /\ failed = lost
  BY TypeIs DEF IInv
<1>2. UNCHANGED <<config, failed, lock, task, log, lost>>
  BY DEF World, EditFile, EditMode, EditDisk, Shutdown
<1>3. WorldOK'
  <2>1. MaxEdits \in Nat /\ MaxDisk \in Nat
    BY Layered
  <2>2. ASSUME NEW f \in Public \cup Local, NEW v \in Contents, EditFile(f, v)
        PROVE  WorldOK'
    BY <1>1, <2>1, <2>2 DEF EditFile, WorldOK
  <2>3. ASSUME NEW m \in Modes \cup {"bad"}, EditMode(m) PROVE WorldOK'
    BY <1>1, <2>1, <2>3 DEF EditMode, WorldOK
  <2>4. ASSUME NEW d \in {"ok", "bad"}, EditDisk(d) PROVE WorldOK'
    BY <1>1, <2>1, <2>4 DEF EditDisk, WorldOK
  <2>5. CASE Shutdown
    BY <1>1, <2>5 DEF Shutdown, WorldOK
  <2>6. QED
    BY <2>2, <2>3, <2>4, <2>5 DEF World
<1>4. CASE Witness
  <2>1. SeenOK'
    BY <1>1, <1>4, WitnessOK
  <2>2. TypeOK'
    BY <1>1, <1>2, <1>3, <2>1
       DEF TypeOK, WorldOK, LogOK, TaskOK, SeenOK, Task, Histories, PCs, Answers,
           Indices
  <2>3. AllGood'
    BY <1>2, <1>4, EditIsWitnessed DEF AllGood
  <2>4. QED
    BY <1>1, <1>2, <2>2, <2>3 DEF IInv
<1>5. CASE UNCHANGED <<file, mode, seen>>
  <2>1. TypeOK'
    BY <1>1, <1>2, <1>3, <1>5
       DEF TypeOK, WorldOK, LogOK, TaskOK, SeenOK, Task, Histories, PCs, Answers,
           Indices
  <2>2. ASSUME NEW q \in Requests PROVE Good(task[q], seen[q], log[q])'
    BY <1>2, <1>5, RequestIs, StillGood
  <2>3. QED
    BY <1>1, <1>2, <2>1, <2>2 DEF IInv, AllGood
<1>6. QED
  BY <1>4, <1>5 DEF World, EditFile, EditMode, EditDisk, Shutdown

LEMMA IInvInit == ASSUME Init PROVE IInv
<1>1. NoTask \in Task
  BY Layered DEF NoTask, Task, PCs, Routes, Modes, Answers
<1>2. Moment("rejected") \in Histories
  BY MomentOK
<1>3. WorldOK /\ LogOK /\ failed = lost
  BY Layered DEF Init, WorldOK, LogOK, Contents
<1>4. TaskOK /\ SeenOK
  BY <1>1, <1>2 DEF Init, TaskOK, SeenOK
<1>5. ASSUME NEW r \in Requests PROVE Good(task[r], seen[r], log[r])
  <2> DEFINE t == task[r]
             s == seen[r]
  <2>1. t = NoTask /\ log[r] = 0
    BY DEF Init
  <2>2. /\ t.pc = "idle" /\ t.route = "rejected" /\ t.answer = "none"
        /\ t.hit = "no" /\ t.why = "none" /\ t.audited = "no"
    BY <2>1 DEF NoTask
  <2> HIDE DEF t, s
  <2>3. Routed(t) /\ Witnessed(t, s) /\ FoundIsSeen(t, s) /\ Granted(t, s) /\ NotDenied(t, s)
    BY <2>1, <2>2 DEF Routed, Witnessed, Underway, FoundIsSeen, Judged, Passed, Granted, NotDenied
  <2>4. Counted(t, log[r])
    BY <2>1, <2>2 DEF Counted
  <2>5. QED
    BY <2>3, <2>4 DEF Good, t, s
<1>6. QED
  BY <1>3, <1>4, <1>5, TypeIs DEF IInv, AllGood

LEMMA IInvStep == ASSUME IInv, [Next]_vars PROVE IInv'
<1>1. CASE UNCHANGED vars
  <2>1. TypeOK' /\ failed' = lost'
    BY <1>1 DEF vars, IInv, TypeOK
  <2>2. ASSUME NEW q \in Requests PROVE Good(task[q], seen[q], log[q])'
    BY <1>1, RequestIs, StillGood DEF vars
  <2>3. QED
    BY <2>1, <2>2 DEF IInv, AllGood
<1>2. CASE Next
  BY <1>2, WorldStep, RequestStep, ArriveStep DEF Next
<1>3. QED
  BY <1>1, <1>2

LEMMA Invariant == Spec => []IInv
BY IInvInit, IInvStep, PTL DEF Spec

-----------------------------------------------------------------------------
(* The properties.                                                         *)

(* A decision is what the files said at some moment since the request      *)
(* arrived, though load_public_strict and load_local_strict read them one  *)
(* after the other while the command line replaces them: what goes on to a *)
(* connector was granted, and what one readable layer held all the while   *)
(* is not denied.                                                          *)
THEOREM DecisionFollowsFiles ==
  Spec => []DecisionIsTheFiles
<1>1. IInv => DecisionIsTheFiles
  BY DEF IInv, AllGood, Good, Granted, NotDenied, DecisionIsTheFiles,
         PassIsGranted, SteadyIsNotDenied
<1>2. QED
  BY <1>1, Invariant, PTL

\* The proxy says that it is healthy when it has looked at append_failed.
LEMMA HealthyLooked ==
  ASSUME IInv, NEW r \in Requests,
         Serve(r) \/ Abort(r) \/ \E route \in Routes : Arrive(r, route),
         task[r].answer # "Healthy", task'[r].answer = "Healthy"
  PROVE  lost = "no"
<1>1. TaskOK /\ task[r] \in Task /\ WorldOK
  BY RequestIs
<1>2. \A x : Becomes(r, x) => x.answer = "Healthy"
  BY <1>1 DEF TaskOK, Becomes
<1>3. \A what : Answer(r, what) => what = "Healthy"
  BY <1>1 DEF TaskOK, Task, Answer, Becomes
<1>4. CASE AppendFailed(r)
  BY <1>3, <1>4, TypeIs DEF AppendFailed, IInv, LogOK
<1>5. CASE ReadPublic(r) \/ ReadLocal(r)
  <2>1. ~Unusable(r)
    <3>1. CASE task[r].route = "health"
      BY <1>3, <3>1 DEF Unusable
    <3>2. CASE task[r].route # "health"
      <4>1. SUFFICES ASSUME Unusable(r) PROVE FALSE
        OBVIOUS
      <4>2. Becomes(r, [task[r] EXCEPT !.pc = "log", !.why = "denied",
                                       !.mode = "enforce"])
        BY <3>2, <4>1 DEF Unusable
      <4>3. [task[r] EXCEPT !.pc = "log", !.why = "denied", !.mode = "enforce"].answer
              = task[r].answer
        BY <1>1 DEF Task
      <4>4. QED
        BY <1>2, <4>2, <4>3
    <3>3. QED
      BY <3>1, <3>2
  <2>2. CASE ReadPublic(r)
    <3>1. PICK i, hit, pc : Becomes(r, [task[r] EXCEPT !.i = i, !.hit = hit, !.pc = pc])
      BY <2>1, <2>2 DEF ReadPublic
    <3>2. [task[r] EXCEPT !.i = i, !.hit = hit, !.pc = pc].answer = task[r].answer
      BY <1>1 DEF Task
    <3>3. QED
      BY <1>2, <3>1, <3>2
  <2>3. CASE ReadLocal(r)
    <3> DEFINE hit == Found(LocalPaths[task[r].i], task[r].hit)
    <3>1. \/ Becomes(r, [task[r] EXCEPT !.i = @ + 1, !.hit = hit])
          \/ Becomes(r, [task[r] EXCEPT !.pc = "probe"])
          \/ Becomes(r, [task[r] EXCEPT !.pc = "dial", !.hit = hit])
          \/ Becomes(r, [task[r] EXCEPT !.pc = "log", !.why = "denied"])
      BY <2>1, <2>3 DEF ReadLocal
    <3>2. /\ [task[r] EXCEPT !.i = @ + 1, !.hit = hit].answer = task[r].answer
          /\ [task[r] EXCEPT !.pc = "probe"].answer = task[r].answer
          /\ [task[r] EXCEPT !.pc = "dial", !.hit = hit].answer = task[r].answer
          /\ [task[r] EXCEPT !.pc = "log", !.why = "denied"].answer = task[r].answer
      BY <1>1 DEF Task
    <3> HIDE DEF hit
    <3>3. QED
      BY <1>2, <3>1, <3>2
  <2>4. QED
    BY <1>5, <2>2, <2>3
<1>6. CASE ReadMode(r)
  <2>1. CASE task[r].route = "status"
    <3>1. Answer(r, IF mode = "bad" THEN "NoMode" ELSE mode)
      BY <1>6, <2>1 DEF ReadMode
    <3>2. (IF mode = "bad" THEN "NoMode" ELSE mode) # "Healthy"
      BY <1>1 DEF WorldOK, Modes
    <3>3. QED
      BY <1>3, <3>1, <3>2
  <2>2. CASE task[r].route # "status" /\ mode = "bad"
    BY <1>1, <1>6, <2>2 DEF ReadMode, Unusable, Answer, Becomes, TaskOK, Task
  <2>3. CASE task[r].route = "health" /\ mode # "bad"
    BY <1>1, <1>6, <2>3 DEF ReadMode, Becomes, TaskOK, Task
  <2>4. CASE task[r].route \notin {"status", "health"} /\ mode # "bad"
    <3>1. CASE task[r].hit = "yes" \/ mode = "open"
      <4>1. Becomes(r, [task[r] EXCEPT !.pc = "dial", !.mode = mode])
        BY <1>6, <2>4, <3>1 DEF ReadMode, Decide
      <4>2. QED
        BY <1>1, <4>1 DEF Becomes, TaskOK, Task
    <3>2. CASE ~(task[r].hit = "yes" \/ mode = "open")
      <4>1. Becomes(r, [task[r] EXCEPT !.pc = "log", !.mode = mode,
                          !.why = IF mode = "report" THEN "report" ELSE "denied"])
        BY <1>6, <2>4, <3>2 DEF ReadMode, Decide
      <4>2. QED
        BY <1>1, <4>1 DEF Becomes, TaskOK, Task
    <3>3. QED
      BY <3>1, <3>2
  <2>5. QED
    BY <2>1, <2>2, <2>3, <2>4
<1>7. CASE VerifyOpen(r)
  BY <1>1, <1>2, <1>3, <1>7 DEF VerifyOpen, Task
<1>8. CASE Record(r) \/ AppendLine(r)
  <2>1. /\ [task[r] EXCEPT !.pc = "dial", !.audited = "yes"].answer = task[r].answer
        /\ [task[r] EXCEPT !.pc = "append"].answer = task[r].answer
    BY <1>1 DEF Task
  <2>2. ~AfterRecord(r, "disabled") /\ ~AfterRecord(r, "recorded")
          /\ ~AfterRecord(r, "failed")
    BY <1>2, <1>3, <2>1 DEF AfterRecord, Denied
  <2>3. QED
    BY <1>2, <1>8, <2>1, <2>2 DEF Record, AppendLine
<1>9. CASE Cancel(r) \/ Abort(r)
  BY <1>1, <1>2, <1>3, <1>9 DEF Cancel, Abort, Task
<1>10. CASE Dials(r)
  <2>1. CASE AddressDenied(r) /\ RecordsNow(r)
    BY <1>1, <2>1 DEF AddressDenied, Becomes, TaskOK, Task
  <2>2. CASE \E what \in Failures \cup {"Origin"} : Answer(r, what)
    BY <1>3, <2>2 DEF Failures
  <2>3. QED
    BY <1>10, <2>1, <2>2
       DEF Dials, Connected, NotConnected, ExchangeFails, AddressDenied,
           ConnectFailure, ForwardFailure, ConnectErrors, ExchangeErrors, Failures
<1>11. CASE \E route \in Routes : Arrive(r, route)
  <2>1. PICK route \in Routes : Arrive(r, route)
    BY <1>11
  <2>2. PICK pc \in {"public", "mode", "local", "log", "done"},
             why \in {"none", "denied"}, what \in {"none", "Options", "BadRequest"} :
          Becomes(r, [task[r] EXCEPT !.route = route, !.pc = pc, !.why = why, !.answer = what])
    BY <2>1 DEF Arrive
  <2>3. [task[r] EXCEPT !.route = route, !.pc = pc, !.why = why, !.answer = what].answer = what
    BY <1>1 DEF Task
  <2>4. QED
    BY <1>2, <2>2, <2>3
<1>12. QED
  BY <1>4, <1>5, <1>6, <1>7, <1>8, <1>9, <1>10, <1>11 DEF Serve, Reads, Probe

(* What is denied, or let pass in spite of the policy, stands in the log:  *)
(* a report has its line before it goes on, no request has two (record,    *)
(* public_failure), and the health page does not say that all is well      *)
(* while the last line is missing (append_failed).                         *)
THEOREM DenialsAreTold ==
  Spec => DenialIsRecorded
<1>1. IInv => ReportsOrStops /\ OneLine
  <2> SUFFICES ASSUME IInv, NEW r \in Requests
               PROVE  /\ log[r] <= 1
                      /\ task[r].pc = "dial" /\ task[r].route = "public"
                           /\ task[r].mode = "report" /\ task[r].hit = "no"
                           /\ config.log = "set" => log[r] = 1
    BY DEF ReportsOrStops, OneLine
  <2>1. Counted(task[r], log[r]) /\ task[r] \in Task
    BY RequestIs DEF Good
  <2>2. QED
    BY <2>1 DEF Counted, Task
<1>2. ASSUME IInv, [Next]_vars
      PROVE  [\A r \in Requests : task[r].answer # "Healthy" /\ task'[r].answer = "Healthy"
                => lost = "no"]_vars
  <2> SUFFICES ASSUME Next, NEW r \in Requests, task[r].answer # "Healthy",
                      task'[r].answer = "Healthy"
               PROVE  lost = "no"
    BY <1>2
  <2>1. CASE World
    BY <2>1 DEF World, EditFile, EditMode, EditDisk, Shutdown
  <2>2. ASSUME NEW q \in Requests,
               Serve(q) \/ Abort(q) \/ \E route \in Routes : Arrive(q, route)
        PROVE  lost = "no"
    <3>1. q = r
      <4> SUFFICES ASSUME q # r PROVE task'[r] = task[r]
        OBVIOUS
      <4>1. CASE Serve(q) \/ Abort(q)
        BY <1>2, <4>1, ReadPublicKeeps, ReadModeKeeps, ReadLocalKeeps, ProbeKeeps,
           RecordKeeps, AppendLineKeeps, CancelKeeps, DialsKeeps, AbortKeeps
           DEF Serve, Reads, Kept
      <4>2. CASE \E route \in Routes : Arrive(q, route)
        BY <1>2, <4>2, ArriveKeeps
      <4>3. QED
        BY <2>2, <4>1, <4>2
    <3>2. QED
      BY <1>2, <2>2, <3>1, HealthyLooked
  <2>3. QED
    BY <2>1, <2>2 DEF Next
<1>3. QED
  BY <1>1, <1>2, Invariant, PTL DEF Spec, DenialIsRecorded, HealthyHasTheLog

-----------------------------------------------------------------------------
(* The broker's decision on a CONNECT (LiveGrant).  A call has read the    *)
(* first files, and what it has found in each is among what that file has  *)
(* been to it; while it reads, so is what every file is now.               *)

Files == {"global", "project", "run"}
States == {"with", "without", "unreadable"}

ReadIsSeen(c) ==
  \A i \in 1..Len(call[c].read) :
    LET s == IF call[c].wants \in call[c].read[i] THEN "with" ELSE "without"
    IN s \in during[c][Live!Layers[i]]

LiveOK(c) ==
  /\ call[c].step = "read" =>
       /\ call[c].at \in 1..3 /\ Len(call[c].read) = call[c].at - 1
       /\ ReadIsSeen(c)
       /\ \A l \in Files : Live!State(files[l], call[c].wants) \in during[c][l]
  /\ call[c].step = "granted" =>
       /\ \E l \in Files : "with" \in during[c][l]
       /\ \A l \in Files : during[c][l] # {"unreadable"}
  /\ call[c].step = "denied" => \A l \in Files : during[c][l] # {"with"}

LiveTyped ==
  /\ call \in [Calls -> [step : {"new", "read", "error", "granted", "denied"}, wants : Authorities \cup {"none"},
                         at : Nat, read : Seq(Live!Contents)]]
  /\ during \in [Calls -> [Files -> SUBSET States]]
  /\ files \in [Files -> Live!Contents]

LiveInv == LiveTyped /\ \A c \in Calls : LiveOK(c)

LEMMA LayersAre ==
  /\ Live!Layers[1] = "global" /\ Live!Layers[2] = "project" /\ Live!Layers[3] = "run"
  /\ Len(Live!Layers) = 3 /\ Live!ToSet(Live!Layers) = Files
<1>1. /\ Live!Layers[1] = "global" /\ Live!Layers[2] = "project" /\ Live!Layers[3] = "run"
      /\ Len(Live!Layers) = 3 /\ DOMAIN Live!Layers = {1, 2, 3}
  BY DEF Live!Layers
<1>2. Live!ToSet(Live!Layers) = {Live!Layers[i] : i \in DOMAIN Live!Layers}
  BY DEF Live!ToSet
<1>3. QED
  BY <1>1, <1>2 DEF Files

LEMMA LiveInvInit == Live!Init => LiveInv
<1> SUFFICES ASSUME Live!Init PROVE LiveInv
  OBVIOUS
<1>1. LiveTyped
  <2>1. Live!NoCall \in [step : {"new", "read", "error", "granted", "denied"}, wants : Authorities \cup {"none"},
                         at : Nat, read : Seq(Live!Contents)]
    BY DEF Live!NoCall
  <2>2. QED
    BY <2>1, LayersAre DEF Live!Init, LiveTyped, Live!Contents
<1>2. ASSUME NEW c \in Calls PROVE LiveOK(c)
  BY DEF Live!Init, Live!NoCall, LiveOK
<1>3. QED
  BY <1>1, <1>2 DEF LiveInv

\* The files change: what they are now is seen by every call that reads.
LEMMA FilesStep ==
  ASSUME LiveInv, NEW f \in [Files -> Live!Contents], files' = f, Live!Witness(f), call' = call
  PROVE  LiveInv'
<1> DEFINE now(c) == [l \in Files |-> during[c][l] \cup {Live!State(f[l], call[c].wants)}]
<1>1. ASSUME NEW c \in Calls
      PROVE  during'[c] = IF call[c].step = "read" THEN now(c) ELSE during[c]
  BY LayersAre DEF Live!Witness
<1>2. ASSUME NEW c \in Calls PROVE now(c) \in [Files -> SUBSET States]
  BY DEF Live!State, States, LiveInv, LiveTyped
<1>3. during' \in [Calls -> [Files -> SUBSET States]]
  <2>1. during' = [c \in Calls |-> IF call[c].step = "read" THEN now(c) ELSE during[c]]
    BY LayersAre DEF Live!Witness
  <2> HIDE DEF now
  <2>2. QED
    BY <1>2, <2>1 DEF LiveInv, LiveTyped
<1>4. LiveTyped'
  BY <1>3 DEF LiveInv, LiveTyped, Live!Contents
<1>5. ASSUME NEW c \in Calls PROVE LiveOK(c)'
  <2>1. LiveOK(c)
    BY DEF LiveInv
  <2>2. CASE call[c].step # "read"
    BY <1>1, <2>1, <2>2 DEF LiveOK
  <2>3. CASE call[c].step = "read"
    <3>1. \A l \in Files : during'[c][l] = during[c][l] \cup {Live!State(f[l], call[c].wants)}
      BY <1>1, <2>3
    <3>2. \A i \in 1..Len(call[c].read) : Live!Layers[i] \in Files
      BY <2>1, <2>3, LayersAre DEF LiveOK, Files
    <3>3. ReadIsSeen(c)'
      BY <2>1, <2>3, <3>1, <3>2 DEF LiveOK, ReadIsSeen
    <3>4. QED
      BY <2>1, <2>3, <3>1, <3>3 DEF LiveOK, Live!State
  <2>4. QED
    BY <2>2, <2>3
<1>6. QED
  BY <1>4, <1>5 DEF LiveInv

Call == [step : {"new", "read", "error", "granted", "denied"}, wants : Authorities \cup {"none"},
         at : Nat, read : Seq(Live!Contents)]

LEMMA LiveBeginStep ==
  ASSUME LiveInv, NEW c \in Calls, NEW a \in Authorities, Live!Begin(c, a)
  PROVE  LiveInv'
<1> DEFINE begun == [Live!NoCall EXCEPT !.step = "read", !.wants = a]
           now == [l \in Files |-> {Live!State(files[l], a)}]
<1>1. /\ call' = [call EXCEPT ![c] = begun] /\ during' = [during EXCEPT ![c] = now]
      /\ UNCHANGED <<files, retired>>
  BY LayersAre DEF Live!Begin
<1>2. /\ begun \in Call
      /\ begun.step = "read" /\ begun.wants = a /\ begun.at = 1 /\ begun.read = <<>>
  <2>1. Live!NoCall \in Call /\ Live!NoCall.at = 1 /\ Live!NoCall.read = <<>>
    BY DEF Live!NoCall, Call
  <2>2. QED
    BY <2>1 DEF Call
<1>3. now \in [Files -> SUBSET States]
  BY DEF Live!State, States
<1>4. \A l \in Files : Live!State(files[l], a) \in now[l]
  OBVIOUS
<1> HIDE DEF begun, now
<1>5. LiveTyped'
  BY <1>1, <1>2, <1>3 DEF LiveInv, LiveTyped, Call
<1>6. call'[c] = begun /\ during'[c] = now
  BY <1>1 DEF LiveInv, LiveTyped
<1>7. ASSUME NEW d \in Calls \ {c} PROVE call'[d] = call[d] /\ during'[d] = during[d]
  BY <1>1 DEF LiveInv, LiveTyped
<1>8. LiveOK(c)'
  <2>1. 1..Len(begun.read) = {}
    BY <1>2
  <2>2. ReadIsSeen(c)'
    BY <1>6, <2>1 DEF ReadIsSeen
  <2>3. QED
    BY <1>1, <1>2, <1>4, <1>6, <2>2 DEF LiveOK
<1>9. ASSUME NEW d \in Calls \ {c} PROVE LiveOK(d)'
  BY <1>1, <1>7, <1>9 DEF LiveInv, LiveOK, ReadIsSeen
<1>10. QED
  BY <1>5, <1>8, <1>9 DEF LiveInv

LEMMA LiveEnds ==
  ASSUME LiveInv, NEW c \in Calls, NEW how \in {"error", "granted", "denied"},
         call' = [call EXCEPT ![c].step = how], UNCHANGED <<files, retired, during>>,
         how = "granted" => /\ \E l \in Files : "with" \in during[c][l]
                            /\ \A l \in Files : during[c][l] # {"unreadable"},
         how = "denied" => \A l \in Files : during[c][l] # {"with"}
  PROVE  LiveInv'
<1> DEFINE ended == [call[c] EXCEPT !.step = how]
<1>1. call[c] \in Call /\ call \in [Calls -> Call]
  BY DEF LiveInv, LiveTyped, Call
<1>2. ended \in Call /\ ended.step = how
  BY <1>1 DEF Call
<1>3. call' = [call EXCEPT ![c] = ended]
  BY <1>1
<1> HIDE DEF ended
<1>4. LiveTyped'
  <2>1. call' \in [Calls -> Call]
    BY <1>1, <1>2, <1>3
  <2>2. QED
    BY <2>1 DEF LiveInv, LiveTyped, Call
<1>5. call'[c] = ended /\ \A d \in Calls \ {c} : call'[d] = call[d]
  BY <1>1, <1>3
<1>6. LiveOK(c)'
  BY <1>2, <1>5 DEF LiveOK
<1>7. ASSUME NEW d \in Calls \ {c} PROVE LiveOK(d)'
  BY <1>5, <1>7 DEF LiveInv, LiveOK, ReadIsSeen
<1>8. QED
  BY <1>4, <1>6, <1>7 DEF LiveInv

LEMMA LiveReadStep ==
  ASSUME LiveInv, NEW c \in Calls, Live!loopback_allows_live(c)
  PROVE  LiveInv'
<1> DEFINE at == call[c].at
           contents == files[Live!Layers[at]]
           read == Append(call[c].read, contents)
           found(s) == IF call[c].wants \in s THEN "with" ELSE "without"
<1>1. /\ call[c] \in Call /\ call \in [Calls -> Call] /\ LiveOK(c) /\ call[c].step = "read"
      /\ UNCHANGED <<files, retired, during>>
  BY DEF LiveInv, LiveTyped, Call, Live!loopback_allows_live
<1>2. /\ at \in 1..3 /\ Len(call[c].read) = at - 1 /\ ReadIsSeen(c)
      /\ \A l \in Files : Live!State(files[l], call[c].wants) \in during[c][l]
  BY <1>1 DEF LiveOK
<1>3. \A i \in 1..3 : Live!Layers[i] \in Files
  BY LayersAre DEF Files
<1>4. /\ call[c].read \in Seq(Live!Contents) /\ contents \in Live!Contents
      /\ read \in Seq(Live!Contents)
  <2>1. call[c].read \in Seq(Live!Contents) /\ contents \in Live!Contents
    BY <1>1, <1>2, <1>3 DEF Call, LiveInv, LiveTyped
  <2>2. QED
    BY <2>1
<1>5. Len(read) = at /\ read[at] = contents /\ \A i \in 1..at - 1 : read[i] = call[c].read[i]
  BY <1>2, <1>4
<1>6. CASE contents = Live!Unreadable
  <2>1. call' = [call EXCEPT ![c].step = "error"]
    BY <1>6 DEF Live!loopback_allows_live, Live!read_loopback_authorities, Live!Ends
  <2>2. QED
    BY <1>1, <2>1, LiveEnds
<1>7. CASE contents # Live!Unreadable
  <2>1. \A i \in 1..at : found(read[i]) \in during[c][Live!Layers[i]]
    <3>1. found(contents) \in during[c][Live!Layers[at]]
      BY <1>2, <1>3, <1>7 DEF Live!State
    <3>2. \A i \in 1..at - 1 : found(call[c].read[i]) \in during[c][Live!Layers[i]]
      BY <1>2 DEF ReadIsSeen
    <3> HIDE DEF found, contents, read
    <3>3. QED
      BY <1>2, <1>5, <3>1, <3>2
  <2>2. CASE at < 3
    <3> DEFINE on == [call[c] EXCEPT !.read = read, !.at = at + 1]
    <3>1. call' = [call EXCEPT ![c].read = read, ![c].at = @ + 1]
      BY <1>7, <2>2, LayersAre DEF Live!loopback_allows_live, Live!read_loopback_authorities
    <3> HIDE DEF read
    <3>2. call' = [call EXCEPT ![c] = on]
      BY <1>1, <3>1
    <3>3. /\ on \in Call /\ on.read = read /\ on.at = at + 1 /\ on.step = "read" /\ on.wants = call[c].wants
      <4>1. at + 1 \in Nat
        BY <1>2
      <4>2. QED
        BY <1>1, <1>4, <4>1 DEF Call
    <3> HIDE DEF on, at, found
    <3>4. LiveTyped'
      <4>1. call' \in [Calls -> Call]
        BY <1>1, <3>2, <3>3
      <4>2. QED
        BY <1>1, <4>1 DEF LiveInv, LiveTyped, Call
    <3>5. call'[c] = on /\ \A d \in Calls \ {c} : call'[d] = call[d]
      BY <1>1, <3>2
    <3>6. ReadIsSeen(c)'
      BY <1>1, <1>5, <2>1, <3>3, <3>5 DEF ReadIsSeen, found
    <3>7. at + 1 \in 1..3 /\ Len(read) = (at + 1) - 1
      BY <1>2, <1>5, <2>2
    <3>8. LiveOK(c)'
      BY <1>1, <1>2, <3>3, <3>5, <3>6, <3>7 DEF LiveOK
    <3>9. ASSUME NEW d \in Calls \ {c} PROVE LiveOK(d)'
      BY <1>1, <3>5, <3>9 DEF LiveInv, LiveOK, ReadIsSeen
    <3>10. QED
      BY <3>4, <3>8, <3>9 DEF LiveInv
  <2>3. CASE at = 3
    <3> DEFINE how == IF Live!Allows(c, read) THEN "granted" ELSE "denied"
    <3>1. call' = [call EXCEPT ![c].step = how]
      BY <1>7, <2>3, LayersAre DEF Live!loopback_allows_live, Live!read_loopback_authorities, Live!Ends
    <3>2. DOMAIN read = 1..3
      BY <1>4, <1>5, <2>3
    <3> HIDE DEF read
    <3>3. Live!Allows(c, read) <=> \E i \in 1..3 : call[c].wants \in read[i]
      BY <3>2 DEF Live!Allows
    <3>4. \A l \in Files : \E i \in 1..3 : Live!Layers[i] = l
      BY LayersAre DEF Files
    <3>5. Live!Allows(c, read) => \E l \in Files : "with" \in during[c][l]
      BY <1>3, <2>1, <2>3, <3>3
    <3>6. \A l \in Files : during[c][l] # {"unreadable"}
      BY <2>1, <2>3, <3>4
    <3>7. ~Live!Allows(c, read) => \A l \in Files : during[c][l] # {"with"}
      BY <2>1, <2>3, <3>3, <3>4
    <3>8. how \in {"granted", "denied"} /\ (how = "granted" <=> Live!Allows(c, read))
      OBVIOUS
    <3> HIDE DEF how
    <3>9. QED
      BY <1>1, <3>1, <3>5, <3>6, <3>7, <3>8, LiveEnds
  <2>4. QED
    BY <1>2, <2>2, <2>3
<1>8. QED
  BY <1>6, <1>7

LEMMA LiveInvStep == LiveInv /\ [Live!Next]_Live!vars => LiveInv'
<1> SUFFICES ASSUME LiveInv, [Live!Next]_Live!vars PROVE LiveInv'
  OBVIOUS
<1>1. ASSUME NEW l \in Files, NEW contents \in Live!Contents, Live!Replace(l, contents) PROVE LiveInv'
  <2>1. files' \in [Files -> Live!Contents]
    BY <1>1 DEF Live!Replace, LiveInv, LiveTyped
  <2>2. QED
    BY <1>1, <2>1, FilesStep DEF Live!Replace
<1>2. CASE Live!Retire
  <2>1. files' \in [Files -> Live!Contents]
    <3>1. Live!Unreadable \in Live!Contents
      BY DEF Live!Contents
    <3>2. QED
      BY <1>2, <3>1 DEF Live!Retire, LiveInv, LiveTyped
  <2>2. QED
    BY <1>2, <2>1, FilesStep DEF Live!Retire
<1>3. CASE UNCHANGED Live!vars
  BY <1>3 DEF Live!vars, LiveInv, LiveTyped, LiveOK, ReadIsSeen
<1>4. QED
  BY <1>1, <1>2, <1>3, LiveBeginStep, LiveReadStep, LayersAre DEF Live!Next

\* loopback_allows_live: however commands move an authority between the files of the global
\* layer, the project and the run while the broker reads them one after the other, a
\* connection that is granted had its authority in one of them during the call, one that had
\* it in one of them all the while is not denied, and a file that cannot be read refuses.
THEOREM GrantsAreLive == Live!Spec => []GrantIsLive
<1>1. LiveInv => GrantIsLive
  BY LayersAre DEF LiveInv, LiveOK, GrantIsLive, Live!GrantIsLive, Live!GrantedWasThere, Live!SteadyGrantIsSeen,
                   Live!UnreadableRefuses
<1>2. QED
  BY <1>1, LiveInvInit, LiveInvStep, PTL DEF Live!Spec

------------------------------------------------------------------------------
(* What is told of the layers (DenyReport).  Every command but a denial    *)
(* takes the report back, so the invariant is what a denial leaves.        *)

\* A run that is active has a harness and a project that exist.
RunsOK ==
  /\ project \in [Projects -> SUBSET Told!Destinations]
  /\ run \in [Runs -> {Told!NoRun}
                 \cup [harness : Told!Harnesses, project : Projects, own : SUBSET Told!Destinations]]

ToldInv ==
  /\ RunsOK
  /\ Told!EveryLayerIsNamed
  /\ Told!NamedIsThere

\* What the layers of a run say of an entry after a step, source by source.
LEMMA LayersOfRun ==
  ASSUME NEW r \in Runs, NEW e \in DOMAIN Told!effective(r)', NEW s \in Told!effective(r)'[e],
         UNCHANGED run
  PROVE  \/ s = <<"base">> /\ e \in Base
         \/ s = <<"harness", run[r].harness>> /\ e \in Harness[run[r].harness]
         \/ s = <<"global">> /\ e \in global'
         \/ s = <<"project", run[r].project>> /\ e \in project'[run[r].project]
         \/ s = <<"run", r>> /\ e \in run[r].own
<1> DEFINE layers == Told!LayersOf(r)'
<1>1. PICK i \in DOMAIN layers : e \in layers[i].entries /\ s = layers[i].source
  BY DEF Told!effective, Told!resolve_layers
<1>2. DOMAIN layers = 1..5
  BY DEF Told!LayersOf
<1>3. i \in {1, 2, 3, 4, 5}
  BY <1>1, <1>2
<1>4. QED
  BY <1>1, <1>3 DEF Told!LayersOf

\* Nothing is told when the report has been taken back.
LEMMA NothingTold ==
  ASSUME report = Told!NoReport
  PROVE  Told!EveryLayerIsNamed /\ Told!NamedIsThere
BY DEF Told!NoReport, Told!Told, Told!EveryLayerIsNamed, Told!NamedIsThere

LEMMA ToldInvInit == ASSUME Told!Init PROVE ToldInv
<1>1. RunsOK
  BY DEF Told!Init, RunsOK
<1>2. QED
  BY <1>1, NothingTold DEF ToldInv, Told!Init

\* Which sources a list of them names: all that hold the entry, of those the scope is about.
LEMMA SourcesAre ==
  ASSUME NEW g, NEW projects, NEW scope, NEW e, NEW s
  PROVE  s \in Told!other_sources(g, projects, scope, e) <=>
           \/ s = <<"base">> /\ e \in Base
           \/ \E h \in Told!Harnesses : s = <<"harness", h>> /\ e \in Harness[h]
           \/ s = <<"global">> /\ e \in g
           \/ \E p \in Projects : s = <<"project", p>> /\ scope = "global" /\ e \in projects[p]
           \/ \E r \in Told!Active : /\ s = <<"run", r>> /\ e \in run[r].own
                                     /\ scope = "global" \/ scope = run[r].project
BY DEF Told!other_sources, Told!Global

\* What is named holds the entry, in the layers the list was made from.
LEMMA SourcesHold ==
  ASSUME NEW g, NEW projects, NEW scope, NEW e, NEW s \in Told!other_sources(g, projects, scope, e)
  PROVE  \/ s[1] = "base" /\ e \in Base
         \/ s[1] = "harness" /\ e \in Harness[s[2]]
         \/ s[1] = "global" /\ e \in g
         \/ s[1] = "project" /\ e \in projects[s[2]]
         \/ s[1] = "run" /\ e \in run[s[2]].own
BY SourcesAre

\* A run that is active has a harness and a project.
LEMMA ActiveIs ==
  ASSUME RunsOK, NEW r \in Told!Active
  PROVE  r \in Runs /\ run[r].harness \in Told!Harnesses /\ run[r].project \in Projects
BY DEF RunsOK, Told!Active, Told!NoRun

\* Each layer of a run that the scope is about and that has the entry after a step is named.
LEMMA LayersAreNamed ==
  ASSUME RunsOK, UNCHANGED run,
         NEW scope, NEW r \in Told!Active, scope = "global" \/ scope = run[r].project,
         NEW e \in DOMAIN Told!effective(r)', NEW s \in Told!effective(r)'[e]
  PROVE  \/ s \in Told!other_sources(global', project', scope, e)
         \/ scope # "global" /\ s = <<"project", scope>> /\ e \in project'[scope]
<1>1. r \in Runs /\ run[r].harness \in Told!Harnesses /\ run[r].project \in Projects
  BY ActiveIs
<1>2. QED
  BY <1>1, LayersOfRun, SourcesAre

\* A denial leaves the layers its scope does not select, and takes the batch out of the one
\* it does; a batch that is not there as a whole leaves them all.
LEMMA DenialIs ==
  ASSUME RunsOK, NEW scope \in Told!Scopes, NEW batch \in Told!Batches, Told!Deny(scope, batch)
  PROVE  /\ run' = run /\ RunsOK'
         /\ report'.scope = scope /\ report'.batch = batch
         /\ \/ /\ Told!Missing(scope, batch) # {} /\ UNCHANGED <<global, project>>
               /\ report'.remaining = {}
               /\ report'.missing = {[entry |-> e, sources |-> Told!other_sources(global, project, scope, e)
                                                                 \ {Told!Label(scope)}]
                                       : e \in Told!Missing(scope, batch)}
            \/ /\ Told!Missing(scope, batch) = {}
               /\ Told!Selected(scope)' = Told!Selected(scope) \ batch
               /\ report'.missing = {}
               /\ report'.remaining = {[entry |-> e, sources |-> Told!other_sources(global', project', scope, e)]
                                         : e \in batch}
<1> DEFINE retained == Told!Selected(scope) \ batch
           after == Told!After(scope, retained)
<1>1. CASE Told!Missing(scope, batch) # {}
  BY <1>1 DEF Told!Deny, RunsOK
<1>2. CASE Told!Missing(scope, batch) = {}
  <2>1. /\ Told!Replace(scope, retained) /\ run' = run
        /\ report' = [scope |-> scope, batch |-> batch, missing |-> {},
                      remaining |-> {[entry |-> e, sources |-> Told!other_sources(after.global, after.project, scope, e)]
                                       : e \in batch}]
    BY <1>2 DEF Told!Deny
  <2>2. /\ after.global = global' /\ after.project = project'
        /\ Told!Selected(scope)' = retained
        /\ project' \in [Projects -> SUBSET Told!Destinations]
    <3>1. CASE scope = "global"
      BY <2>1, <3>1 DEF Told!Replace, Told!After, Told!Selected, Told!Global, RunsOK
    <3>2. CASE scope # "global"
      <4>1. scope \in Projects /\ project \in [Projects -> SUBSET Told!Destinations]
        BY <3>2 DEF Told!Scopes, Told!Global, RunsOK
      <4>2. global' = global /\ project' = [project EXCEPT ![scope] = retained]
        BY <2>1, <3>2 DEF Told!Replace, Told!Global
      <4>3. retained \in SUBSET Told!Destinations
        BY <3>2, <4>1 DEF Told!Selected, Told!Global
      <4>4. QED
        BY <3>2, <4>1, <4>2, <4>3 DEF Told!After, Told!Selected, Told!Global
    <3>3. QED
      BY <3>1, <3>2
  <2>3. RunsOK'
    BY <2>1, <2>2 DEF RunsOK
  <2>4. QED
    BY <1>2, <2>1, <2>2, <2>3
<1>3. QED
  BY <1>1, <1>2

\* What is told after a denial: each entry of the batch with the sources that hold it then.
LEMMA ToldOnce ==
  ASSUME RunsOK, NEW scope \in Told!Scopes, NEW batch \in Told!Batches, Told!Deny(scope, batch),
         NEW t \in Told!Told'
  PROVE  /\ t.entry \in batch
         /\ t.sources \subseteq Told!other_sources(global', project', scope, t.entry)
         /\ \A s \in Told!other_sources(global', project', scope, t.entry) :
              s \in t.sources \/ s = Told!Label(scope)
         /\ t.entry \notin Told!Selected(scope)'
<1>1. CASE /\ Told!Missing(scope, batch) # {} /\ UNCHANGED <<global, project>>
           /\ report'.remaining = {}
           /\ report'.missing = {[entry |-> e, sources |-> Told!other_sources(global, project, scope, e)
                                                             \ {Told!Label(scope)}]
                                   : e \in Told!Missing(scope, batch)}
  <2>1. PICK e \in Told!Missing(scope, batch) :
          t = [entry |-> e, sources |-> Told!other_sources(global, project, scope, e) \ {Told!Label(scope)}]
    BY <1>1 DEF Told!Told
  <2>2. t.entry = e /\ t.sources = Told!other_sources(global, project, scope, e) \ {Told!Label(scope)}
    BY <2>1
  <2>3. e \in batch /\ e \notin Told!Selected(scope)
    BY DEF Told!Missing
  <2>4. Told!Selected(scope)' = Told!Selected(scope) /\ global' = global /\ project' = project
    BY <1>1 DEF Told!Selected
  <2>5. QED
    BY <2>2, <2>3, <2>4
<1>2. CASE /\ Told!Missing(scope, batch) = {}
           /\ Told!Selected(scope)' = Told!Selected(scope) \ batch
           /\ report'.missing = {}
           /\ report'.remaining = {[entry |-> e, sources |-> Told!other_sources(global', project', scope, e)]
                                     : e \in batch}
  <2>1. PICK e \in batch : t = [entry |-> e, sources |-> Told!other_sources(global', project', scope, e)]
    BY <1>2 DEF Told!Told
  <2>2. QED
    BY <1>2, <2>1
<1>3. QED
  BY <1>1, <1>2, DenialIs

LEMMA DenyKeeps ==
  ASSUME ToldInv, NEW scope \in Told!Scopes, NEW batch \in Told!Batches, Told!Deny(scope, batch)
  PROVE  ToldInv'
<1>1. RunsOK /\ RunsOK' /\ run' = run /\ report'.scope = scope
  BY DenialIs DEF ToldInv
<1>2. Told!EveryLayerIsNamed'
  <2> SUFFICES ASSUME NEW t \in Told!Told', NEW r \in Runs, Told!InScope(r)', t.entry \in DOMAIN Told!effective(r)',
                      NEW s \in Told!effective(r)'[t.entry]
               PROVE  s \in t.sources
    BY DEF Told!EveryLayerIsNamed
  <2>1. r \in Told!Active /\ (scope = "global" \/ scope = run[r].project)
    BY <1>1 DEF Told!InScope, Told!Active, Told!Global
  <2>2. /\ t.entry \notin Told!Selected(scope)'
        /\ \A x \in Told!other_sources(global', project', scope, t.entry) :
             x \in t.sources \/ x = Told!Label(scope)
    BY <1>1, ToldOnce
  <2>3. \/ s \in Told!other_sources(global', project', scope, t.entry)
        \/ scope # "global" /\ s = <<"project", scope>> /\ t.entry \in project'[scope]
    BY <1>1, <2>1, LayersAreNamed
  <2>4. s = Told!Label(scope) => t.entry \in Told!Selected(scope)'
    <3>1. CASE scope = "global"
      <4>1. s = Told!Label(scope) => s = <<"global">>
        BY <3>1 DEF Told!Label, Told!Global
      <4>2. s = <<"global">> => t.entry \in global'
        BY <1>1, <2>1, LayersOfRun
      <4>3. QED
        BY <3>1, <4>1, <4>2 DEF Told!Selected, Told!Global
    <3>2. CASE scope # "global"
      <4>1. s = Told!Label(scope) => s = <<"project", scope>>
        BY <3>2 DEF Told!Label, Told!Global
      <4>2. s = <<"project", scope>> => t.entry \in project'[scope]
        BY <1>1, <2>1, LayersOfRun
      <4>3. QED
        BY <3>2, <4>1, <4>2 DEF Told!Selected, Told!Global
    <3>3. QED
      BY <3>1, <3>2
  <2>5. scope # "global" => ~ t.entry \in project'[scope]
    BY <2>2 DEF Told!Selected, Told!Global
  <2>6. QED
    BY <2>2, <2>3, <2>4, <2>5
<1>3. Told!NamedIsThere'
  <2> SUFFICES ASSUME NEW t \in Told!Told', NEW s \in t.sources
               PROVE  \/ s[1] = "base" /\ t.entry \in Base
                      \/ s[1] = "harness" /\ t.entry \in Harness[s[2]]
                      \/ s[1] = "global" /\ t.entry \in global'
                      \/ s[1] = "project" /\ t.entry \in project'[s[2]]
                      \/ s[1] = "run" /\ t.entry \in run'[s[2]].own
    BY DEF Told!NamedIsThere
  <2>1. s \in Told!other_sources(global', project', scope, t.entry)
    BY <1>1, ToldOnce
  <2>2. QED
    BY <1>1, <2>1, SourcesHold
<1>4. QED
  BY <1>1, <1>2, <1>3 DEF ToldInv

\* Every other command leaves runs with a harness and a project, and tells nothing.
LEMMA ReportTakenBack ==
  ASSUME RunsOK', report' = Told!NoReport
  PROVE  ToldInv'
<1>1. Told!Told' = {}
  BY DEF Told!Told, Told!NoReport
<1>2. QED
  BY <1>1 DEF ToldInv, Told!EveryLayerIsNamed, Told!NamedIsThere

LEMMA ToldInvStep == ASSUME ToldInv, [Told!Next]_Told!vars PROVE ToldInv'
<1>1. RunsOK
  BY DEF ToldInv
<1>2. ASSUME NEW scope \in Told!Scopes, NEW e \in Told!Destinations, Told!Allow(scope, e) PROVE ToldInv'
  <2>1. project' \in [Projects -> SUBSET Told!Destinations]
    BY <1>1, <1>2 DEF RunsOK, Told!Allow, Told!Replace, Told!Selected, Told!Scopes
  <2>2. RunsOK' /\ report' = Told!NoReport
    BY <1>1, <1>2, <2>1 DEF RunsOK, Told!Allow
  <2>3. QED
    BY <2>2, ReportTakenBack
<1>3. ASSUME NEW r \in Runs, Told!End(r) PROVE ToldInv'
  <2>1. RunsOK' /\ report' = Told!NoReport
    BY <1>1, <1>3 DEF RunsOK, Told!End
  <2>2. QED
    BY <2>1, ReportTakenBack
<1>4. ASSUME NEW r \in Runs, NEW h \in Told!Harnesses, NEW p \in Projects, NEW own \in SUBSET Told!Destinations,
             Told!Start(r, h, p, own)
      PROVE  ToldInv'
  <2>1. RunsOK' /\ report' = Told!NoReport
    BY <1>1, <1>4 DEF RunsOK, Told!Start
  <2>2. QED
    BY <2>1, ReportTakenBack
<1>5. CASE UNCHANGED Told!vars
  BY <1>5 DEF Told!vars, ToldInv, RunsOK, Told!EveryLayerIsNamed, Told!NamedIsThere, Told!Told, Told!InScope,
              Told!Active, Told!effective, Told!LayersOf
<1>6. QED
  BY <1>2, <1>3, <1>4, <1>5, DenyKeeps DEF Told!Next

\* A step that tells of a denial in a scope has denied the whole batch there, or nothing.
LEMMA DeniesAsAWhole ==
  ASSUME ToldInv, [Told!Next]_Told!vars
  PROVE  [\A scope \in Told!Scopes : report'.scope = scope =>
            IF report'.missing = {}
            THEN /\ {t.entry : t \in report'.remaining} = report'.batch
                 /\ report'.batch \subseteq Told!Selected(scope)
                 /\ Told!Selected(scope)' = Told!Selected(scope) \ report'.batch
            ELSE UNCHANGED <<global, project>>]_Told!vars
<1> SUFFICES ASSUME Told!Next, NEW scope \in Told!Scopes, report'.scope = scope
             PROVE  IF report'.missing = {}
                    THEN /\ {t.entry : t \in report'.remaining} = report'.batch
                         /\ report'.batch \subseteq Told!Selected(scope)
                         /\ Told!Selected(scope)' = Told!Selected(scope) \ report'.batch
                    ELSE UNCHANGED <<global, project>>
  OBVIOUS
<1>1. report' # Told!NoReport
  BY NamesAssumption DEF Told!NoReport, Told!NamesAssumption, Told!Scopes, Told!Global
<1>2. PICK other \in Told!Scopes, batch \in Told!Batches : Told!Deny(other, batch)
  BY <1>1 DEF Told!Next, Told!Allow, Told!End, Told!Start
<1>3. other = scope
  BY <1>2, DenialIs DEF ToldInv
<1>4. CASE /\ Told!Missing(scope, batch) # {} /\ UNCHANGED <<global, project>>
           /\ report'.missing = {[entry |-> e, sources |-> Told!other_sources(global, project, scope, e)
                                                             \ {Told!Label(scope)}]
                                   : e \in Told!Missing(scope, batch)}
  <2>1. PICK e : e \in Told!Missing(scope, batch)
    BY <1>4
  <2>2. [entry |-> e, sources |-> Told!other_sources(global, project, scope, e) \ {Told!Label(scope)}]
          \in report'.missing
    BY <1>4, <2>1
  <2>3. report'.missing # {}
    BY <2>2
  <2>4. QED
    BY <1>4, <2>3
<1>5. CASE /\ Told!Missing(scope, batch) = {}
           /\ Told!Selected(scope)' = Told!Selected(scope) \ batch
           /\ report'.missing = {}
           /\ report'.remaining = {[entry |-> e, sources |-> Told!other_sources(global', project', scope, e)]
                                     : e \in batch}
  <2>1. report'.batch = batch
    BY <1>2, <1>3, DenialIs DEF ToldInv
  <2>2. {t.entry : t \in report'.remaining} = batch
    <3> DEFINE told(e) == [entry |-> e, sources |-> Told!other_sources(global', project', scope, e)]
    <3>1. report'.remaining = {told(e) : e \in batch}
      BY <1>5
    <3>2. \A e \in batch : told(e).entry = e
      OBVIOUS
    <3> HIDE DEF told
    <3>3. \A e \in batch : e \in {t.entry : t \in report'.remaining}
      BY <3>1, <3>2
    <3>4. \A t \in report'.remaining : t.entry \in batch
      BY <3>1, <3>2
    <3>5. QED
      BY <3>3, <3>4
  <2>3. batch \subseteq Told!Selected(scope)
    BY <1>5 DEF Told!Missing
  <2>4. QED
    BY <1>5, <2>1, <2>2, <2>3
<1>6. QED
  BY <1>2, <1>3, <1>4, <1>5, DenialIs DEF ToldInv

\* deny_domains, deny_locals: after a denial each layer of an active run that still has the
\* entry is among the sources that are told, none is told that has it no more, and the batch
\* is denied as a whole or, with the entries that were not there named, not at all.
THEOREM ReportsAreTrue == Told!Spec => ReportIsTrue
<1>1. ToldInv => Told!EveryLayerIsNamed /\ Told!NamedIsThere
  BY DEF ToldInv
<1>2. QED
  BY <1>1, ToldInvInit, ToldInvStep, DeniesAsAWhole, PTL
     DEF Told!Spec, ReportIsTrue, Told!ReportIsTrue, Told!BatchIsWhole
=============================================================================
