------------------------------ MODULE DenyReport ------------------------------
(***************************************************************************)
(* What a user is told about the layers of the policy: what a run may      *)
(* reach and because of which layers, and, when entries are denied in one  *)
(* layer, which others still allow them.  Every command holds the lock, so *)
(* each is one step here; PolicyStore is about what happens without it.    *)
(*                                                                         *)
(* Destinations are domains and local authorities; only domains are in    *)
(* the base and in the lists of the harnesses.  A source is a kind, with a *)
(* name where there are several of the kind.  Left out: the text of the   *)
(* reports and their order.                                                *)
(***************************************************************************)
CONSTANTS
  Domains, Authorities,
  Base,        \* the domains every run may reach
  Harness,     \* the domains of each harness
  Projects,
  Runs

\* "none" stands for no command.
NamesAssumption == "none" \notin Projects

Destinations == Domains \cup Authorities
Harnesses == DOMAIN Harness

VARIABLES
  global,   \* the entries of the global layer
  project,  \* the entries of each project
  run,      \* of each active run its harness, its project and its own entries
  report    \* what the last command has told

vars == <<global, project, run, report>>

NoRun == [harness |-> "none", project |-> "none", own |-> {}]
NoReport == [scope |-> "none", batch |-> {}, missing |-> {}, remaining |-> {}]
Global == "global"
Scopes == {Global} \cup Projects
Active == {r \in Runs : run[r] # NoRun}

Init ==
  /\ global = {} /\ project = [p \in Projects |-> {}]
  /\ run = [r \in Runs |-> NoRun]
  /\ report = NoReport

------------------------------------------------------------------------------
(* What a run may reach.                                                   *)

\* The layers of a run, in order.
LayersOf(r) ==
  <<[source |-> <<"base">>, entries |-> Base],
    [source |-> <<"harness", run[r].harness>>, entries |-> Harness[run[r].harness]],
    [source |-> <<"global">>, entries |-> global],
    [source |-> <<"project", run[r].project>>, entries |-> project[run[r].project]],
    [source |-> <<"run", r>>, entries |-> run[r].own]>>

\* Each entry once, with the sources it has.
resolve_layers(layers) ==
  [e \in UNION {layers[i].entries : i \in DOMAIN layers} |->
     {layers[i].source : i \in {j \in DOMAIN layers : e \in layers[j].entries}}]

effective(r) == resolve_layers(LayersOf(r))

------------------------------------------------------------------------------
(* Which sources allow an entry.                                           *)

\* A variant that leaves out the global layer when a project is selected.
other_sources_local(g, projects, scope, e) ==
  {<<"base">> : x \in {e} \cap Base}
    \cup {<<"harness", h>> : h \in {h \in Harnesses : e \in Harness[h]}}
    \cup {<<"global">> : x \in IF scope = Global THEN {e} \cap g ELSE {}}
    \cup {<<"project", p>> : p \in {p \in Projects : scope = Global /\ e \in projects[p]}}
    \cup {<<"run", r>> : r \in {r \in Active : scope \in {Global, run[r].project} /\ e \in run[r].own}}

other_sources(g, projects, scope, e) ==
  {<<"base">> : x \in {e} \cap Base}
    \cup {<<"harness", h>> : h \in {h \in Harnesses : e \in Harness[h]}}
    \cup {<<"global">> : x \in {e} \cap g}
    \cup {<<"project", p>> : p \in {p \in Projects : scope = Global /\ e \in projects[p]}}
    \cup {<<"run", r>> : r \in {r \in Active : scope \in {Global, run[r].project} /\ e \in run[r].own}}

Label(scope) == IF scope = Global THEN <<"global">> ELSE <<"project", scope>>

------------------------------------------------------------------------------
(* The commands.                                                           *)

Selected(scope) == IF scope = Global THEN global ELSE project[scope]

Replace(scope, entries) ==
  IF scope = Global
  THEN global' = entries /\ UNCHANGED project
  ELSE project' = [project EXCEPT ![scope] = entries] /\ UNCHANGED global

Allow(scope, e) ==
  /\ Replace(scope, Selected(scope) \cup {e})
  /\ report' = NoReport
  /\ UNCHANGED run

\* The layers once the selected one has been replaced.
After(scope, entries) ==
  IF scope = Global THEN [global |-> entries, project |-> project]
  ELSE [global |-> global, project |-> [project EXCEPT ![scope] = entries]]

Missing(scope, batch) == batch \ Selected(scope)

\* The whole batch, or nothing.
Deny(scope, batch) ==
  LET retained == Selected(scope) \ batch
      after == After(scope, retained)
  IN IF Missing(scope, batch) # {}
     THEN /\ report' = [scope |-> scope, batch |-> batch, remaining |-> {},
                        missing |-> {[entry |-> e, sources |-> other_sources(global, project, scope, e) \ {Label(scope)}]
                                       : e \in Missing(scope, batch)}]
          /\ UNCHANGED <<global, project, run>>
     ELSE /\ report' = [scope |-> scope, batch |-> batch, missing |-> {},
                        remaining |-> {[entry |-> e, sources |-> other_sources(after.global, after.project, scope, e)]
                                         : e \in batch}]
          /\ Replace(scope, retained)
          /\ UNCHANGED run

Start(r, h, p, own) ==
  /\ r \notin Active
  /\ run' = [run EXCEPT ![r] = [harness |-> h, project |-> p, own |-> own]]
  /\ report' = NoReport
  /\ UNCHANGED <<global, project>>

End(r) ==
  /\ r \in Active
  /\ run' = [run EXCEPT ![r] = NoRun]
  /\ report' = NoReport
  /\ UNCHANGED <<global, project>>

\* A command is about domains or about authorities.
Batches == (SUBSET Domains \cup SUBSET Authorities) \ {{}}

Next ==
  \/ \E scope \in Scopes : (\E e \in Destinations : Allow(scope, e)) \/ (\E batch \in Batches : Deny(scope, batch))
  \/ \E r \in Runs : End(r) \/ (\E h \in Harnesses, p \in Projects, own \in SUBSET Destinations : Start(r, h, p, own))

Spec == Init /\ [][Next]_vars

InScope(r) == r \in Active /\ report.scope \in {Global, run[r].project}

\* The lines that are printed.
Told == report.missing \cup report.remaining

------------------------------------------------------------------------------
(* Properties.                                                             *)

\* After a denial every active run that it concerns and that still has the entry is
\* accounted for: each of the run's layers that has it is among the sources that are told,
\* for the domains of all layers and for local authorities alike.
EveryLayerIsNamed ==
  \A t \in Told, r \in Runs : InScope(r) /\ t.entry \in DOMAIN effective(r) =>
    effective(r)[t.entry] \subseteq t.sources

\* What is named does hold the entry: the layer that was changed is not named as one that
\* still allows what has just been taken out of it, nor a run that has ended.
NamedIsThere ==
  \A t \in Told : \A s \in t.sources :
    \/ s[1] = "base" /\ t.entry \in Base
    \/ s[1] = "harness" /\ t.entry \in Harness[s[2]]
    \/ s[1] = "global" /\ t.entry \in global
    \/ s[1] = "project" /\ t.entry \in project[s[2]]
    \/ s[1] = "run" /\ t.entry \in run[s[2]].own

\* A batch is denied as a whole or not at all, and the report says which.
BatchIsWhole ==
  [][\A scope \in Scopes : report'.scope = scope =>
       IF report'.missing = {}
       THEN /\ {t.entry : t \in report'.remaining} = report'.batch
            /\ report'.batch \subseteq Selected(scope)
            /\ Selected(scope)' = Selected(scope) \ report'.batch
       ELSE UNCHANGED <<global, project>>]_vars

\* What the user is told after a denial is what holds.
ReportIsTrue == BatchIsWhole /\ [](EveryLayerIsNamed /\ NamedIsThere)
===============================================================================
