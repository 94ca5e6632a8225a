----------------------------- MODULE Authorize -----------------------------
(***************************************************************************)
(* How the proxy decides about a request: it reads the policy files again  *)
(* for each one while the host replaces them, records what the policy does *)
(* not allow in the denial log, asks a connector, and answers.  Direct     *)
(* requests read the health and the mode of the same proxy.                *)
(*                                                                         *)
(* Of a policy file only this is kept: whether it can be used (it exists,  *)
(* is regular, small enough, UTF-8 and well-formed) and whether it has an  *)
(* entry for the one host, or the one loopback authority, that is asked    *)
(* for.  CONNECT and other methods differ in what the connector does with  *)
(* the connection; methods, paths and the wording of answers are left out. *)
(***************************************************************************)
EXTENDS Naturals, Sequences, SequencesExt

CONSTANTS Requests,
          PublicPaths, LocalPaths,   \* the layers in the order they are read
          MaxEdits,                  \* bound on the changes of policy files
          MaxDisk                    \* bound on the changes of the log's disk

Public == ToSet(PublicPaths)
Local == ToSet(LocalPaths)

\* Config rejects an empty list, and takes three local files or none.
ASSUME AuthorizeAssumption ==
  /\ MaxEdits \in Nat /\ MaxDisk \in Nat
  /\ PublicPaths \in Seq(Public) /\ PublicPaths # <<>>
  /\ LocalPaths \in Seq(Local) /\ LocalPaths # <<>>

Contents == {"bad", "misses", "matches"}
Modes == {"enforce", "report", "open"}
Failures == {"PublicDenied", "LocalDenied", "BadRequest", "ReportLogUnavailable",
             "ServiceUnavailable", "BadGateway", "GatewayTimeout"}
Routes == {"public", "local", "health", "status", "asterisk", "rejected"}

VARIABLES
  file,     \* the contents of the policy files
  mode,     \* and of the mode file: "bad" or a mode
  disk,     \* whether the denial log can be appended to: "ok", "bad"
  config,   \* what the proxy was started with: [log, local], "set" or "none"
  failed,   \* append_failed
  lock,     \* append_lock
  stop,     \* Shutdown is requested
  edits,    \* how often policy files changed
  flips,    \* and the disk
  task,     \* one record for each request
  log,      \* the lines of the denial log about each request
  lost,     \* history: the last append failed
  seen      \* history: what the files held since the request arrived

vars == <<file, mode, disk, config, failed, lock, stop, edits, flips, task, log, lost, seen>>
world == <<file, mode, disk, config, stop, edits, flips, seen>>

NoTask == [pc |-> "idle", route |-> "rejected", i |-> 1,
           hit |-> "no", mode |-> "enforce", why |-> "none", audited |-> "no",
           answer |-> "none"]

Layers(route) == IF route = "local" THEN Local ELSE Public

\* The policy of this moment allows it.
Grants(route) ==
  \/ route = "local" /\ config.local = "set"
     /\ \E f \in Local : file[f] = "matches"
  \/ route = "public"
     /\ (mode \in {"report", "open"} \/ \E f \in Public : file[f] = "matches")

\* What the history keeps of a moment.
Moment(route) ==
  [granted |-> Grants(route),
   steady  |-> {f \in Layers(route) : file[f] = "matches"},
   sound   |-> /\ \A f \in Layers(route) : file[f] # "bad"
               /\ route = "public" => mode # "bad"]

Active(r) == task[r].pc \notin {"idle", "done", "gone"}

Witness ==
  seen' = [r \in Requests |->
    LET m == Moment(task[r].route)' IN
      IF ~Active(r) THEN seen[r]
      ELSE [granted |-> seen[r].granted \/ m.granted,
            steady  |-> seen[r].steady \cap m.steady,
            sound   |-> seen[r].sound /\ m.sound]]

Becomes(r, t) == task' = [task EXCEPT ![r] = t]

-----------------------------------------------------------------------------
(* The world.                                                              *)

EditFile(f, v) ==
  /\ edits < MaxEdits /\ edits' = edits + 1 /\ file[f] # v
  /\ file' = [file EXCEPT ![f] = v]
  /\ UNCHANGED <<mode, disk, config, failed, lock, stop, flips, task, log, lost>>
  /\ Witness

EditMode(m) ==
  /\ edits < MaxEdits /\ edits' = edits + 1 /\ mode # m
  /\ mode' = m
  /\ UNCHANGED <<file, disk, config, failed, lock, stop, flips, task, log, lost>>
  /\ Witness

EditDisk(d) ==
  /\ flips < MaxDisk /\ flips' = flips + 1 /\ disk # d
  /\ disk' = d
  /\ UNCHANGED <<file, mode, config, failed, lock, stop, edits, task, log, lost, seen>>

Shutdown ==
  /\ stop = "no" /\ stop' = "yes"
  /\ UNCHANGED <<file, mode, disk, config, failed, lock, edits, flips, task, log, lost, seen>>

-----------------------------------------------------------------------------
(* The request begins.                                                     *)

Answer(r, what) == Becomes(r, [task[r] EXCEPT !.pc = "done", !.answer = what])

Denied(route) == IF route = "local" THEN "LocalDenied" ELSE "PublicDenied"

\* classify, authorize up to its first read, and the answers that need none.
Arrive(r, route) ==
  /\ task[r].pc = "idle" /\ stop = "no"
  /\ seen' = [seen EXCEPT ![r] = Moment(route)]
  /\ LET start(pc, why, what) ==
           Becomes(r, [task[r] EXCEPT !.route = route, !.pc = pc, !.why = why, !.answer = what])
     IN \/ route \in {"public", "health"} /\ start("public", "none", "none")
        \/ route = "status" /\ start("mode", "none", "none")
        \/ route = "local" /\ config.local = "set" /\ start("local", "none", "none")
        \/ route = "local" /\ config.local = "none" /\ start("log", "denied", "none")
        \/ route = "asterisk" /\ \E what \in {"Options", "BadRequest"} : start("done", "none", what)
        \/ route = "rejected" /\ start("done", "none", "BadRequest")
  /\ UNCHANGED <<file, mode, disk, config, failed, lock, stop, edits, flips, log, lost>>

\* What runs under the select with the shutdown: it is biased, so that no step of
\* the authorization begins once the shutdown is seen.
Authorizing(r) ==
  /\ task[r].route \in {"public", "local"}
  /\ \/ task[r].pc \in {"public", "mode", "local"}
     \/ task[r].pc \in {"log", "append"} /\ task[r].why # "late"
MayStep(r) == Authorizing(r) => stop = "no"

\* A bad input: the policy is empty and enforced, the proxy unhealthy.
Unusable(r) ==
  IF task[r].route = "health" THEN Answer(r, "Unhealthy")
  ELSE Becomes(r, [task[r] EXCEPT !.pc = "log", !.why = "denied", !.mode = "enforce"])

\* PublicPolicySnapshot::decide with the mode m.
Decide(r, m) ==
  LET t == task[r] IN
    IF t.hit = "yes" \/ m = "open" THEN Becomes(r, [t EXCEPT !.pc = "dial", !.mode = m])
    ELSE Becomes(r, [t EXCEPT !.pc = "log", !.mode = m,
                              !.why = IF m = "report" THEN "report" ELSE "denied"])

Uses(f) == IF file[f] = "bad" THEN "no" ELSE "yes"

\* The layers are united.  A variant lets the last one decide.
FoundLast(f, hit) == IF file[f] = "matches" THEN "yes" ELSE "no"
Found(f, hit) == IF file[f] = "matches" THEN "yes" ELSE hit

ReadPublic(r) ==
  /\ task[r].pc = "public" /\ MayStep(r)
  /\ LET t == task[r]
         f == PublicPaths[t.i]
     IN IF Uses(f) = "no" THEN Unusable(r)
        ELSE Becomes(r, [t EXCEPT !.i = IF @ < Len(PublicPaths) THEN @ + 1 ELSE 1,
                                  !.hit = Found(f, @),
                                  !.pc = IF t.i < Len(PublicPaths) THEN "public" ELSE "mode"])
  /\ UNCHANGED <<world, failed, lock, log, lost>>

\* The mode is read last; a request for the status reads nothing else.
ReadMode(r) ==
  /\ task[r].pc = "mode" /\ MayStep(r)
  /\ IF task[r].route = "status" THEN
       Answer(r, IF mode = "bad" THEN "NoMode" ELSE mode)
     ELSE IF mode = "bad" THEN Unusable(r)
     ELSE IF task[r].route = "health" THEN
       Becomes(r, [task[r] EXCEPT !.pc = IF config.local = "set" THEN "local" ELSE "probe"])
     ELSE Decide(r, mode)
  /\ UNCHANGED <<world, failed, lock, log, lost>>

ReadLocal(r) ==
  /\ task[r].pc = "local" /\ MayStep(r)
  /\ LET t == task[r]
         f == LocalPaths[t.i]
         hit == Found(f, t.hit)
     IN IF Uses(f) = "no" THEN Unusable(r)
        ELSE IF t.i < Len(LocalPaths) THEN Becomes(r, [t EXCEPT !.i = @ + 1, !.hit = hit])
        ELSE IF t.route = "health" THEN Becomes(r, [t EXCEPT !.pc = "probe"])
        ELSE IF hit = "yes" THEN Becomes(r, [t EXCEPT !.pc = "dial", !.hit = hit])
        ELSE Becomes(r, [t EXCEPT !.pc = "log", !.why = "denied"])
  /\ UNCHANGED <<world, failed, lock, log, lost>>

\* HealthService::read after the policy: verify_open, then append_failed.
VerifyOpen(r) ==
  IF config.log = "set" /\ disk = "bad" THEN Answer(r, "Unhealthy")
  ELSE Becomes(r, [task[r] EXCEPT !.pc = "flag"])
AppendFailed(r) == Answer(r, IF failed = "yes" THEN "Unhealthy" ELSE "Healthy")

Probe(r) ==
  /\ task[r].route = "health"
  /\ \/ task[r].pc = "probe" /\ VerifyOpen(r)
     \/ task[r].pc = "flag" /\ AppendFailed(r)
  /\ UNCHANGED <<world, failed, lock, log, lost>>

-----------------------------------------------------------------------------
(* The denial log.                                                         *)

\* What follows the attempt to record.  A variant lets a failed one pass.
AfterAnyRecord(r, result) ==
  IF task[r].why = "report" THEN Becomes(r, [task[r] EXCEPT !.pc = "dial", !.audited = "yes"])
  ELSE Answer(r, Denied(task[r].route))

AfterRecord(r, result) ==
  IF task[r].why # "report" THEN Answer(r, Denied(task[r].route))
  ELSE IF result = "failed" THEN Answer(r, "ReportLogUnavailable")
  ELSE Becomes(r, [task[r] EXCEPT !.pc = "dial", !.audited = "yes"])

Record(r) ==
  /\ task[r].pc = "log" /\ MayStep(r)
  /\ \/ config.log = "none" /\ AfterRecord(r, "disabled") /\ UNCHANGED lock
     \/ config.log = "set" /\ lock = "free" /\ lock' = r /\ Becomes(r, [task[r] EXCEPT !.pc = "append"])
  /\ UNCHANGED <<world, failed, log, lost>>

AppendLine(r) ==
  /\ task[r].pc = "append" /\ MayStep(r)
  /\ LET ok == disk = "ok" IN
       /\ log' = [log EXCEPT ![r] = IF ok THEN @ + 1 ELSE @]
       /\ failed' = IF ok THEN "no" ELSE "yes"
       /\ lost' = IF ok THEN "no" ELSE "yes"
       /\ AfterRecord(r, IF ok THEN "recorded" ELSE "failed")
  /\ lock' = "free"
  /\ UNCHANGED world

\* The guard of the append goes with the task that held it.
DropGuard(r) == IF lock = r THEN "free" ELSE lock

\* The select drops the authorization; an append that was handed to the system may
\* still happen, its result is not seen.
Cancel(r) ==
  /\ Authorizing(r) /\ stop = "yes"
  /\ Answer(r, "ServiceUnavailable")
  /\ lock' = DropGuard(r)
  /\ \/ UNCHANGED log
     \/ /\ task[r].pc = "append" /\ disk = "ok"
        /\ log' = [log EXCEPT ![r] = @ + 1]
  /\ UNCHANGED <<world, failed, lost>>

\* Forced shutdown drops the whole task.
Abort(r) ==
  /\ stop = "yes" /\ Active(r)
  /\ Becomes(r, [task[r] EXCEPT !.pc = "gone"])
  /\ lock' = DropGuard(r)
  /\ UNCHANGED <<world, failed, log, lost>>

-----------------------------------------------------------------------------
(* The connectors, and what becomes of their errors.                       *)

ConnectErrors == {"DeadlineExceeded", "Cancelled", "Exhausted", "Unavailable"}
ExchangeErrors == {"BadRequest", "BadGateway", "ExchangeCancelled"}

\* broker_failure and public_failure.
ConnectFailure(e) ==
  IF e = "DeadlineExceeded" THEN "GatewayTimeout"
  ELSE IF e = "Unavailable" THEN "BadGateway" ELSE "ServiceUnavailable"
ForwardFailure(e) == IF e = "ExchangeCancelled" THEN "ServiceUnavailable" ELSE e

Connected(r) ==
  /\ task[r].pc = "dial"
  /\ Answer(r, "Origin")
  /\ UNCHANGED <<world, failed, lock, log, lost>>

NotConnected(r) ==
  /\ task[r].pc = "dial"
  /\ \E e \in ConnectErrors :
       /\ e = "Cancelled" => stop = "yes"
       /\ Answer(r, ConnectFailure(e))
  /\ UNCHANGED <<world, failed, lock, log, lost>>

ExchangeFails(r) ==
  /\ task[r].pc = "dial"
  /\ \E e \in ExchangeErrors : Answer(r, ForwardFailure(e))
  /\ UNCHANGED <<world, failed, lock, log, lost>>

\* public_failure: an address of the host is not public.
RecordsNow(r) == task[r].audited = "no"

AddressDenied(r) ==
  /\ task[r].pc = "dial" /\ task[r].route = "public"
  /\ IF RecordsNow(r) THEN Becomes(r, [task[r] EXCEPT !.pc = "log", !.why = "late"])
     ELSE Answer(r, "PublicDenied")
  /\ UNCHANGED <<world, failed, lock, log, lost>>

-----------------------------------------------------------------------------
Init ==
  /\ file \in [Public \cup Local -> {"misses", "matches"}] /\ mode \in Modes
  /\ disk = "ok" /\ config \in [log : {"set", "none"}, local : {"set", "none"}]
  /\ failed = "no" /\ lock = "free" /\ stop = "no" /\ edits = 0 /\ flips = 0
  /\ task = [r \in Requests |-> NoTask] /\ log = [r \in Requests |-> 0] /\ lost = "no"
  /\ seen = [r \in Requests |-> Moment("rejected")]

World ==
  \/ \E f \in Public \cup Local, v \in Contents : EditFile(f, v)
  \/ \E m \in Modes \cup {"bad"} : EditMode(m)
  \/ \E d \in {"ok", "bad"} : EditDisk(d)
  \/ Shutdown

Reads(r) == ReadPublic(r) \/ ReadMode(r) \/ ReadLocal(r) \/ Probe(r)
Dials(r) == Connected(r) \/ NotConnected(r) \/ ExchangeFails(r) \/ AddressDenied(r)
Serve(r) == Reads(r) \/ Record(r) \/ AppendLine(r) \/ Cancel(r) \/ Dials(r)

Next ==
  \/ World
  \/ \E r \in Requests : Serve(r) \/ Abort(r)
       \/ \E route \in Routes : Arrive(r, route)

Spec == Init /\ [][Next]_vars

-----------------------------------------------------------------------------
TypeOK ==
  /\ file \in [Public \cup Local -> Contents] /\ mode \in Modes \cup {"bad"}
  /\ disk \in {"ok", "bad"} /\ config \in [log : {"set", "none"}, local : {"set", "none"}]
  /\ failed \in {"no", "yes"} /\ stop \in {"no", "yes"} /\ edits \in 0..MaxEdits /\ flips \in 0..MaxDisk
  /\ lock \in Requests \cup {"free"} /\ log \in [Requests -> Nat]
  /\ lost \in {"no", "yes"}
  /\ task \in [Requests ->
       [pc : {"idle", "public", "mode", "local", "probe", "flag", "log", "append",
              "dial", "done", "gone"},
        route : Routes, i : 1..Len(PublicPaths) + Len(LocalPaths), hit : {"no", "yes"}, mode : Modes,
        why : {"none", "denied", "report", "late"}, audited : {"no", "yes"},
        answer : Failures \cup Modes
                   \cup {"none", "Origin", "Options", "Healthy", "Unhealthy", "NoMode"}]]
  /\ seen \in [Requests -> [granted : BOOLEAN, steady : SUBSET (Public \cup Local),
                             sound : BOOLEAN]]

\* The layers are read one after the other while the host replaces them.  A request
\* goes on to a connector only if the files of some one moment since it arrived
\* allowed it: a layer that held the host, or a mode that does not enforce.
PassIsGranted ==
  \A r \in Requests : task[r].pc = "dial" \/ task[r].answer = "Origin" => seen[r].granted

\* And a host that one layer held all the while is not denied by the torn read, so
\* long as every file could be read.
SteadyIsNotDenied ==
  \A r \in Requests : seen[r].sound /\ seen[r].steady # {}
    /\ (task[r].route = "local" => config.local = "set") => task[r].why # "denied"

\* What is decided is what the files said.
DecisionIsTheFiles == TypeOK /\ PassIsGranted /\ SteadyIsNotDenied

\* A mode that only reports fails closed: what the policy does not hold goes on only
\* once the log has its line, whoever else fails to append meanwhile.
ReportsOrStops ==
  \A r \in Requests :
    task[r].pc = "dial" /\ task[r].route = "public" /\ task[r].mode = "report"
      /\ task[r].hit = "no" /\ config.log = "set" => log[r] = 1

\* A request is recorded once at most: the connector may deny what was reported before.
OneLine == \A r \in Requests : log[r] <= 1

\* The proxy does not call itself healthy while the last line it tried to append is
\* missing, although the file may be opened again meanwhile.
HealthyHasTheLog ==
  [][\A r \in Requests : task[r].answer # "Healthy" /\ task'[r].answer = "Healthy"
       => lost = "no"]_vars

\* What is denied, or let pass in spite of the policy, stands in the log, once, and the
\* proxy says so when it does not.
DenialIsRecorded == HealthyHasTheLog /\ [](ReportsOrStops /\ OneLine)
=============================================================================
