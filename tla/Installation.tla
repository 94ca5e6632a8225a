----------------------------- MODULE Installation -----------------------------
(***************************************************************************)
(* Installing, updating, uninstalling and starting harnesses: commands     *)
(* that several shells may run at once, over the engine's images, the tool *)
(* layers named by their base and tools, the registry and the file of      *)
(* installed harnesses, which is read, changed and replaced without a      *)
(* lock.  A command can be killed between any two steps; pulls, builds,    *)
(* inspections and removals can fail; the registry publishes new versions. *)
(*                                                                         *)
(* The content of an image is the number of its version.  Left out: the    *)
(* wording, the parsing of arguments, the bearer challenge of the          *)
(* registry, VHRN_IMAGE, runs without tools and temporary directories.     *)
(***************************************************************************)
EXTENDS Integers, FiniteSets

CONSTANTS
  Procs,        \* the shells
  Harnesses,
  Tags,         \* what a harness can be installed at
  Profiles,     \* the tools asked for, none of them empty
  MaxVersion    \* bound: the versions published

Latest == "latest"
Local == "local"
None == "none"
NoTools == "no tools"

ASSUME VersionAssumption == MaxVersion \in Nat \ {0}
ASSUME HarnessesAssumption == Harnesses # {}
ASSUME TagsAssumption == Latest \in Tags /\ None \notin Tags

PinnedVersion == 1
Absent == 0
Versions == 0..MaxVersion

VARIABLES
  published,  \* the newest version of each harness in the registry
  images,     \* the engine's content of each harness image, by tag
  proxies,    \* the tags of the proxy images the engine has
  layers,     \* the tool images: the tag they have and the base they were built from
  installed,  \* the file: the tag of each harness, or None
  sh,         \* the shells: the step of the command, its arguments and its variables
  ended,      \* the command that has just been carried out, and what it started
  removed     \* harness images deleted on request and not pulled since

engine == <<images, proxies, layers, removed>>
vars == <<published, engine, installed, sh, ended>>

------------------------------------------------------------------------------
\* The proxy comes with the program, except beside a harness built locally.
proxy_tag(t) == IF t = Local THEN Local ELSE Latest

\* What the registry has under a tag.
Content(h, t) == IF t = Latest THEN published[h] ELSE PinnedVersion

\* A variant whose tag does not depend on the base.
tools_tag_unbased(h, id, tools) == <<h, Absent, tools>>

tools_tag_for(h, id, tools) == <<h, id, tools>>

(* A shell: the file as it was read, the profiles still to build, the      *)
(* identity of the base that was read, whether a layer could not be built, *)
(* the newest version the registry listed.                                 *)
Nothing == [h \in Harnesses |-> None]
Idle == [step |-> "idle", cmd |-> None, harness |-> CHOOSE h \in Harnesses : TRUE, tag |-> None,
         copy |-> Nothing, todo |-> {}, base |-> Absent, failed |-> FALSE, newest |-> Absent]

NoEnd == [cmd |-> None, harness |-> None, tag |-> None, how |-> None, todo |-> {},
          tools |-> NoTools, base |-> Absent, content |-> Absent]

Goes(p, shell) == sh' = [sh EXCEPT ![p] = shell] /\ ended' = NoEnd
Fails(p) == Goes(p, Idle)
Goto(p, step) == Goes(p, [sh[p] EXCEPT !.step = step])

EndsWith(p, how, tools, content) ==
  /\ sh' = [sh EXCEPT ![p] = Idle]
  /\ ended' = [cmd |-> sh[p].cmd, harness |-> sh[p].harness, tag |-> sh[p].tag, how |-> how, todo |-> sh[p].todo,
               tools |-> tools, base |-> sh[p].base, content |-> content]
Ends(p, how) == EndsWith(p, how, NoTools, Absent)

At(p, step) == sh[p].step = step
Image(p) == <<sh[p].harness, sh[p].tag>>

Init ==
  /\ published = [h \in Harnesses |-> 1]
  /\ images = [i \in Harnesses \X Tags |-> IF i[2] = Local THEN PinnedVersion ELSE Absent]
  /\ proxies = {Local} /\ layers = {} /\ removed = {}
  /\ installed = Nothing
  /\ sh = [p \in Procs |-> Idle] /\ ended = NoEnd

Publish(h) ==
  /\ published[h] < MaxVersion
  /\ published' = [published EXCEPT ![h] = @ + 1]
  /\ ended' = NoEnd
  /\ UNCHANGED <<engine, installed, sh>>

Begin(p, c, h, t, profiles, step) ==
  /\ At(p, "idle")
  /\ Goes(p, [Idle EXCEPT !.step = step, !.cmd = c, !.harness = h, !.tag = t, !.todo = profiles])
  /\ UNCHANGED <<published, engine, installed>>

Install(p, h, t) == Begin(p, "install", h, t, Profiles, IF t = Local THEN "verify" ELSE "proxy")

Update(p, h) == Begin(p, "update", h, Latest, Profiles, "target")

Uninstall(p, h, c) == Begin(p, c, h, None, {}, "version")

Run(p, h, tools) == Begin(p, "run", h, None, {tools}, "resolve")

------------------------------------------------------------------------------
(* provision_images: the proxy first, then the harness.                    *)

Verify(p) ==
  /\ At(p, "verify")
  /\ IF images[Image(p)] # Absent /\ Local \in proxies THEN Goto(p, "tools") ELSE Fails(p)
  /\ UNCHANGED <<published, engine, installed>>

PullProxy(p) ==
  /\ At(p, "proxy")
  /\ proxies' = proxies \cup {proxy_tag(sh[p].tag)}
  /\ Goto(p, "harness")
  /\ UNCHANGED <<published, images, layers, removed, installed>>

PullHarness(p) ==
  /\ At(p, "harness")
  /\ images' = [images EXCEPT ![Image(p)] = Content(sh[p].harness, sh[p].tag)]
  /\ removed' = removed \ {Image(p)}
  /\ Goto(p, "tools")
  /\ UNCHANGED <<published, proxies, layers, installed>>

PullFails(p) ==
  /\ At(p, "proxy") \/ At(p, "harness")
  /\ Fails(p)
  /\ UNCHANGED <<published, engine, installed>>

------------------------------------------------------------------------------
(* ensure_tools_image: the identity of the base, the tag, the build.       *)

\* The identity is the content of the base, or the reference where it cannot be read.
ReadBase(p, unreadable) ==
  /\ At(p, "tools") /\ sh[p].todo # {}
  /\ Goes(p, [sh[p] EXCEPT !.step = "find", !.base = IF unreadable THEN Absent ELSE images[Image(p)]])
  /\ UNCHANGED <<published, engine, installed>>

Tag(p, tools) == tools_tag_for(sh[p].harness, sh[p].base, tools)
Layer(t) == {l \in layers : l.tag = t}

\* A run starts what it has got; in advance the next profile follows.
Got(p, tools, content) ==
  IF sh[p].cmd = "run"
  THEN EndsWith(p, "ok", tools, content)
  ELSE Goes(p, [sh[p] EXCEPT !.step = "tools", !.todo = @ \ {tools}])

Found(p, tools) ==
  /\ At(p, "find") /\ tools \in sh[p].todo
  /\ \E l \in Layer(Tag(p, tools)) : Got(p, l.tools, l.base)
  /\ UNCHANGED <<published, engine, installed>>

Missing(p, tools) ==
  /\ At(p, "find") /\ tools \in sh[p].todo
  /\ Layer(Tag(p, tools)) = {}
  /\ Goes(p, [sh[p] EXCEPT !.step = "build"])
  /\ UNCHANGED <<published, engine, installed>>

\* The build starts from whatever the reference of the base stands for by then; the
\* builder fetches a base that is gone.
BuildBase(p) == IF images[Image(p)] = Absent THEN Content(sh[p].harness, sh[p].tag) ELSE images[Image(p)]

Build(p, tools) ==
  /\ At(p, "build") /\ tools \in sh[p].todo
  /\ sh[p].tag = Local => images[Image(p)] # Absent
  /\ layers' = (layers \ Layer(Tag(p, tools)))
                 \cup {[tag |-> Tag(p, tools), tools |-> tools, base |-> BuildBase(p)]}
  /\ Got(p, tools, BuildBase(p))
  /\ UNCHANGED <<published, images, proxies, removed, installed>>

\* In advance the other profiles are still tried; a run ends.
BuildFails(p, tools) ==
  /\ At(p, "build") /\ tools \in sh[p].todo
  /\ IF sh[p].cmd = "run" THEN Fails(p)
     ELSE Goes(p, [sh[p] EXCEPT !.step = "tools", !.failed = TRUE, !.todo = @ \ {tools}])
  /\ UNCHANGED <<published, engine, installed>>

------------------------------------------------------------------------------
(* The end of an installation and of an update.                            *)

Verdict(p) == IF sh[p].failed THEN "tools failed" ELSE "ok"

\* An installation is recorded whether or not the tools could be built.
Finish(p) == IF sh[p].cmd = "update" THEN Ends(p, Verdict(p)) ELSE Goto(p, "read")

ToolsDone(p) ==
  /\ At(p, "tools") /\ sh[p].todo = {}
  /\ Finish(p)
  /\ UNCHANGED <<published, engine, installed>>

ReadFile(p) ==
  /\ At(p, "read")
  /\ Goes(p, [sh[p] EXCEPT !.step = "write", !.copy = installed])
  /\ UNCHANGED <<published, engine, installed>>

Uninstalls == {"uninstall", "uninstall image"}

add_installed(p) ==
  /\ At(p, "write") /\ sh[p].cmd = "install"
  /\ installed' = [sh[p].copy EXCEPT ![sh[p].harness] = sh[p].tag]
  /\ Ends(p, Verdict(p))
  /\ UNCHANGED <<published, engine>>

------------------------------------------------------------------------------
(* Uninstalling.                                                           *)

\* The version is read before the entry goes, so that its image can be named.
ReadVersion(p) ==
  /\ At(p, "version")
  /\ Goes(p, [sh[p] EXCEPT !.step = "read", !.tag = installed[sh[p].harness]])
  /\ UNCHANGED <<published, engine, installed>>

remove_installed(p) ==
  /\ At(p, "write") /\ sh[p].cmd \in Uninstalls
  /\ installed' = [sh[p].copy EXCEPT ![sh[p].harness] = None]
  /\ IF sh[p].cmd = "uninstall" \/ sh[p].tag = None THEN Ends(p, "ok") ELSE Goto(p, "image")
  /\ UNCHANGED <<published, engine>>

RemoveImage(p) ==
  /\ At(p, "image")
  /\ images' = [images EXCEPT ![Image(p)] = Absent]
  /\ removed' = removed \cup {Image(p)}
  /\ Ends(p, "ok")
  /\ UNCHANGED <<published, proxies, layers, installed>>

RemoveImageFails(p) ==
  /\ At(p, "image")
  /\ Ends(p, "ok")
  /\ UNCHANGED <<published, engine, installed>>

------------------------------------------------------------------------------
(* Updating: only what follows the newest version, and only if behind.     *)

Target(p) ==
  /\ At(p, "target")
  /\ IF installed[sh[p].harness] = Latest THEN Goto(p, "check") ELSE Ends(p, "ok")
  /\ UNCHANGED <<published, engine, installed>>

\* The list of tags may break off after its first page.
Listed(h) == 1..published[h]

Check(p, n) ==
  /\ At(p, "check") /\ n \in Listed(sh[p].harness)
  /\ Goes(p, [sh[p] EXCEPT !.step = "label", !.newest = n])
  /\ UNCHANGED <<published, engine, installed>>

Unreachable(p) ==
  /\ At(p, "check")
  /\ Fails(p)
  /\ UNCHANGED <<published, engine, installed>>

\* A label that cannot be read leads to a pull.
Label(p, unreadable) ==
  /\ At(p, "label")
  /\ IF ~unreadable /\ images[Image(p)] # Absent /\ sh[p].newest <= images[Image(p)]
     THEN Ends(p, "current") ELSE Goes(p, [sh[p] EXCEPT !.step = "proxy", !.newest = Idle.newest])
  /\ UNCHANGED <<published, engine, installed>>

------------------------------------------------------------------------------
(* Starting.                                                               *)

Resolve(p) ==
  /\ At(p, "resolve")
  /\ IF installed[sh[p].harness] = None THEN Fails(p)
     ELSE Goes(p, [sh[p] EXCEPT !.step = "tools", !.tag = installed[sh[p].harness]])
  /\ UNCHANGED <<published, engine, installed>>

Killed(p) ==
  /\ ~At(p, "idle")
  /\ Fails(p)
  /\ UNCHANGED <<published, engine, installed>>

Command(p) ==
  \E h \in Harnesses :
    \/ \E t \in Tags : Install(p, h, t)
    \/ Update(p, h)
    \/ \E c \in Uninstalls : Uninstall(p, h, c)
    \/ \E tools \in Profiles : Run(p, h, tools)

Step(p) ==
  \/ Verify(p) \/ PullProxy(p) \/ PullHarness(p) \/ PullFails(p)
  \/ \E u \in BOOLEAN : ReadBase(p, u) \/ Label(p, u)
  \/ \E tools \in Profiles : Found(p, tools) \/ Missing(p, tools) \/ Build(p, tools) \/ BuildFails(p, tools)
  \/ ToolsDone(p) \/ ReadFile(p) \/ add_installed(p)
  \/ ReadVersion(p) \/ remove_installed(p) \/ RemoveImage(p) \/ RemoveImageFails(p)
  \/ Target(p) \/ (\E n \in Versions : Check(p, n)) \/ Unreachable(p)
  \/ Resolve(p)

Next ==
  \/ \E p \in Procs : Command(p) \/ Step(p) \/ Killed(p)
  \/ \E h \in Harnesses : Publish(h)

Spec == Init /\ [][Next]_vars

------------------------------------------------------------------------------
(* Properties.                                                             *)

Steps == {"idle", "verify", "proxy", "harness", "tools", "find", "build", "read", "write", "version",
          "image", "target", "check", "label", "resolve"}

TypeOK ==
  /\ published \in [Harnesses -> Versions] /\ images \in [Harnesses \X Tags -> Versions]
  /\ installed \in [Harnesses -> Tags \cup {None}]
  /\ \A l, m \in layers : l.tag = m.tag => l = m
  /\ \A p \in Procs :
       /\ sh[p].step \in Steps /\ sh[p].tag \in Tags \cup {None}
       /\ sh[p].todo \subseteq Profiles /\ sh[p].base \in Versions
       /\ sh[p].copy \in [Harnesses -> Tags \cup {None}]
       /\ sh[p].step \in {"proxy", "harness", "tools", "find", "build", "image", "label"} => sh[p].tag # None

\* A harness that is on record can be started: its image and the proxy's are there, unless
\* the user had the image deleted.  A kill at any point and the commands of another shell
\* do not change that: the record is written after the pulls and removed before the image.
InstalledIsProvisioned ==
  \A h \in Harnesses : installed[h] # None /\ <<h, installed[h]>> \notin removed =>
    images[<<h, installed[h]>>] # Absent /\ proxy_tag(installed[h]) \in proxies

\* A run starts the tools it asks for, on a base that is no older than the one it has
\* read: a pull by another shell, between the reading of the base and the build or since
\* the layer was built, never leaves it on a layer of the old base.
NeverStale ==
  ended.cmd = "run" /\ ended.how = "ok" =>
    {ended.tools} = ended.todo /\ (ended.base # Absent => ended.content >= ended.base)

\* An installation that ends has recorded its harness, and has built every layer or says
\* that it has not: one profile that fails holds up neither the others nor the record.
InstallIsFinished ==
  ended.cmd = "install" /\ ended.how \in {"ok", "tools failed"} =>
    /\ installed[ended.harness] = ended.tag
    /\ ended.todo = {}
    /\ ended.how = "ok" => \A t \in Profiles : \E l \in layers : l.tools = t /\ l.tag[1] = ended.harness

\* What an installation promises, whatever fails, is killed or runs beside it.
InstallationIsSound == TypeOK /\ InstalledIsProvisioned /\ NeverStale /\ InstallIsFinished
===============================================================================
