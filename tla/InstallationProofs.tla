------------------------- MODULE InstallationProofs -------------------------
(***************************************************************************)
(* Proofs about what overlapping commands and launches do to the host's    *)
(* files, for any number of them and any bounds.  Installation: whatever   *)
(* is on record can be started, no run starts on an older base than it has *)
(* read, an installation that ends has done what it says.  Preparation: an *)
(* agent finds the host's config, whole and of its own harness.  StateSeed:*)
(* seeding gives what is missing, whole, and touches nothing else.         *)
(***************************************************************************)
EXTENDS HostFiles, Integers, Sequences, FiniteSets, FiniteSetTheorems, TLAPS

-----------------------------------------------------------------------------
(* The inductive invariant.                                                *)

Registers == [Harnesses -> Tags \cup {None}]
Shell == [step : Steps, cmd : {"install", "update", "run", None} \cup Uninstalls,
          harness : Harnesses, tag : Tags \cup {None}, copy : Registers, todo : SUBSET Profiles,
          base : Versions, failed : BOOLEAN, newest : Versions]
Refs == Harnesses \X Tags

EngineTyped ==
  /\ published \in [Harnesses -> Versions \ {Absent}] /\ images \in [Refs -> Versions]
  /\ removed \subseteq Refs
Typed == EngineTyped /\ installed \in Registers /\ sh \in [Procs -> Shell]

\* No image is ahead of the registry; a layer is what its tag says, and built on a base no
\* older than that.
LayerOK(l) == l.tools = l.tag[3] /\ l.tag[2] <= l.base /\ l.tag[2] \in Versions /\ l.base \in Versions
EngineOK ==
  /\ \A h \in Harnesses, t \in Tags : images[<<h, t>>] <= Content(h, t)
  /\ \A l \in layers : LayerOK(l)
  /\ \A l, m \in layers : l.tag = m.tag => l = m

\* An image and the proxy beside it are there unless the image was deleted on request.
Stands(h, t) == <<h, t>> \notin removed => images[<<h, t>>] # Absent /\ proxy_tag(t) \in proxies
Stand(file) == \A h \in Harnesses : file[h] # None => Stands(h, file[h])
HasLayer(h, tools) == \E l \in layers : l.tools = tools /\ l.tag[1] = h

\* Which steps a command takes, and from where on it has a tag.
Building == {"tools", "find", "build"}
StepOK(s) ==
  \/ s.step = "idle"
  \/ s.cmd = "install" /\ s.step \in {"verify", "proxy", "harness", "read", "write"} \cup Building /\ s.tag # None
  \/ s.cmd = "update" /\ s.step \in {"target", "check", "label", "proxy", "harness"} \cup Building /\ s.tag # None
  \/ s.cmd \in Uninstalls /\ s.step = "version" /\ s.tag = None
  \/ s.cmd \in Uninstalls /\ s.step \in {"read", "write"}
  \/ s.cmd \in Uninstalls /\ s.step = "image" /\ s.tag # None
  \/ s.cmd = "run" /\ s.step = "resolve" /\ s.tag = None
  \/ s.cmd = "run" /\ s.step \in Building /\ s.tag # None

\* The base that was read is behind the image, while there is one, and the registry.
BaseOK(s) ==
  IF s.tag = None THEN s.base = Absent
  ELSE /\ s.base <= Content(s.harness, s.tag)
       /\ images[<<s.harness, s.tag>>] # Absent => s.base <= images[<<s.harness, s.tag>>]

\* What is done of the profiles is in a layer; what a run asks for is one of them.
TodoOK(s) ==
  /\ s.cmd = "install" /\ ~s.failed => \A t \in Profiles \ s.todo : HasLayer(s.harness, t)
  /\ s.cmd = "install" /\ s.step \in {"read", "write"} => s.todo = {}
  /\ s.cmd = "run" => \E t \in Profiles : s.todo = {t}

\* What is put on record is there.
PulledOK(s) ==
  /\ s.step = "verify" => s.tag = Local
  /\ s.step = "harness" => proxy_tag(s.tag) \in proxies
  /\ s.cmd = "install" /\ s.step \in {"read", "write"} \cup Building => Stands(s.harness, s.tag)
  /\ s.step = "write" => Stand(s.copy)

ShellOK(s) == StepOK(s) /\ BaseOK(s) /\ TodoOK(s) /\ PulledOK(s)
ShellsOK == \A p \in Procs : ShellOK(sh[p])

IInv == Typed /\ EngineOK /\ Stand(installed) /\ ShellsOK /\ NeverStale /\ InstallIsFinished
-----------------------------------------------------------------------------
(* What the engine and the registry do behind a shell's back.              *)

\* The registry goes forward; an image is replaced by what the registry has, once its proxy
\* is there, or is deleted on request; nothing else is lost.
ImageMoves(h, t) ==
  \/ images'[<<h, t>>] = images[<<h, t>>] /\ (<<h, t>> \in removed => <<h, t>> \in removed')
  \/ images'[<<h, t>>] = Absent /\ <<h, t>> \in removed'
  \/ images'[<<h, t>>] = Content(h, t) /\ proxy_tag(t) \in proxies
Moves ==
  /\ \A h \in Harnesses : published[h] <= published'[h]
  /\ \A h \in Harnesses, t \in Tags : ImageMoves(h, t)
  /\ proxies \subseteq proxies'
  /\ \A h \in Harnesses, t \in Profiles : HasLayer(h, t) => HasLayer(h, t)'

\* The registry has every version it says.
LEMMA ContentIsVersion ==
  ASSUME Typed, NEW h \in Harnesses, NEW t \in Tags
  PROVE  Content(h, t) \in Versions /\ Content(h, t) # Absent
<1>1. published[h] \in Versions /\ published[h] # Absent
  BY DEF Typed, EngineTyped
<1>2. PinnedVersion \in Versions /\ PinnedVersion # Absent
  BY VersionAssumption DEF PinnedVersion, Versions, Absent
<1>3. QED
  BY <1>1, <1>2 DEF Content

LEMMA ContentGrows ==
  ASSUME Typed, EngineTyped', Moves, NEW h \in Harnesses, NEW t \in Tags
  PROVE  Content(h, t)' \in Versions /\ Content(h, t) <= Content(h, t)'
<1>1. published[h] <= published'[h] /\ published'[h] \in Versions
  BY DEF Moves, Typed, EngineTyped
<1>2. PinnedVersion <= PinnedVersion /\ PinnedVersion \in Versions
  BY VersionAssumption DEF PinnedVersion, Versions
<1>3. QED
  BY <1>1, <1>2 DEF Content

LEMMA ImagesGrow ==
  ASSUME Typed, EngineTyped', EngineOK, Moves, NEW h \in Harnesses, NEW t \in Tags, NEW base \in Versions,
         base <= Content(h, t), images[<<h, t>>] # Absent => base <= images[<<h, t>>]
  PROVE  (base <= Content(h, t))' /\ (images'[<<h, t>>] # Absent => base <= images'[<<h, t>>])
<1>1. /\ Content(h, t) \in Versions /\ Content(h, t)' \in Versions /\ Content(h, t) <= Content(h, t)'
  BY ContentIsVersion, ContentGrows
<1>2. base <= Content(h, t)'
  BY <1>1 DEF Versions
<1>3. ImageMoves(h, t)
  BY DEF Moves
<1>4. QED
  BY <1>2, <1>3 DEF ImageMoves

LEMMA StandsOn ==
  ASSUME Typed, Moves, NEW h \in Harnesses, NEW t \in Tags, Stands(h, t)
  PROVE  Stands(h, t)'
<1>1. ImageMoves(h, t) /\ proxies \subseteq proxies'
  BY DEF Moves
<1>2. Content(h, t) # Absent
  BY ContentIsVersion
<1>3. proxy_tag(t)' = proxy_tag(t)
  BY DEF proxy_tag
<1>4. QED
  BY <1>1, <1>2, <1>3 DEF ImageMoves, Stands

LEMMA FileStands ==
  ASSUME Typed, Moves, NEW file \in Registers, Stand(file)
  PROVE  Stand(file)'
<1>1. ASSUME NEW h \in Harnesses, file[h] # None PROVE Stands(h, file[h])'
  <2>1. file[h] \in Tags /\ Stands(h, file[h])
    BY <1>1 DEF Registers, Stand
  <2>2. QED
    BY <2>1, StandsOn
<1>2. QED
  BY <1>1 DEF Stand

LEMMA ShellKeeps ==
  ASSUME Typed, EngineTyped', EngineOK, Moves, NEW s \in Shell, ShellOK(s)
  PROVE  ShellOK(s)'
<1> USE DEF ShellOK
<1>1. StepOK(s)'
  BY DEF StepOK
<1>2. BaseOK(s)'
  <2>1. CASE s.tag = None
    BY <2>1 DEF BaseOK
  <2>2. CASE s.tag # None
    BY <2>2, ImagesGrow DEF BaseOK, Shell
  <2>3. QED
    BY <2>1, <2>2
<1>3. TodoOK(s)'
  <2>1. \A t \in Profiles : HasLayer(s.harness, t) => HasLayer(s.harness, t)'
    BY DEF Moves, Shell
  <2>2. QED
    BY <2>1 DEF TodoOK
<1>4. PulledOK(s)'
  <2>1. proxies \subseteq proxies' /\ proxy_tag(s.tag)' = proxy_tag(s.tag)
    BY DEF Moves, proxy_tag
  <2>2. Stand(s.copy) => Stand(s.copy)'
    BY FileStands DEF Shell
  <2>3. s.tag \in Tags /\ Stands(s.harness, s.tag) => Stands(s.harness, s.tag)'
    BY StandsOn DEF Shell
  <2>4. s.cmd = "install" /\ s.step \in {"read", "write"} \cup Building => s.tag \in Tags
    BY DEF StepOK, Shell, Uninstalls, Building
  <2>5. QED
    BY <2>1, <2>2, <2>3, <2>4 DEF PulledOK
<1>5. QED
  BY <1>1, <1>2, <1>3, <1>4
-----------------------------------------------------------------------------
(* What a shell does that leaves engine and registry alone.                *)

Becomes(p, s) == sh' = [sh EXCEPT ![p] = s]

LEMMA IdleOK == Idle \in Shell /\ ShellOK(Idle)
<1>1. Idle.harness \in Harnesses
  BY HarnessesAssumption DEF Idle
<1>2. Nothing \in Registers
  BY DEF Nothing, Registers
<1>3. Absent \in Versions
  BY VersionAssumption DEF Absent, Versions
<1>4. Idle \in Shell
  BY <1>1, <1>2, <1>3 DEF Idle, Shell, Steps
<1>5. ShellOK(Idle)
  BY DEF Idle, ShellOK, StepOK, BaseOK, TodoOK, PulledOK, Building, None
<1>6. QED
  BY <1>4, <1>5

LEMMA FreshBase ==
  ASSUME Typed, NEW s \in Shell, s.base = Absent
  PROVE  BaseOK(s)
<1>1. CASE s.tag \in Tags
  <2>1. Content(s.harness, s.tag) \in Versions /\ images[<<s.harness, s.tag>>] \in Versions
    BY <1>1, ContentIsVersion DEF Typed, EngineTyped, Refs, Shell
  <2>2. QED
    BY <1>1, <2>1, TagsAssumption DEF BaseOK, Versions, Absent
<1>2. QED
  BY <1>1 DEF BaseOK, Shell

LEMMA FreshOK ==
  ASSUME Typed, NEW s \in Shell, s.base = Absent, StepOK(s), TodoOK(s),
         s.step \notin {"harness", "read", "write"} \cup Building, s.step = "verify" => s.tag = Local
  PROVE  ShellOK(s)
<1>1. PulledOK(s)
  BY DEF PulledOK
<1>2. QED
  BY <1>1, FreshBase DEF ShellOK

LEMMA BegunOK ==
  ASSUME Typed, NEW p \in Procs, NEW h \in Harnesses,
         \/ \E t \in Tags : Install(p, h, t)
         \/ Update(p, h)
         \/ \E c \in Uninstalls : Uninstall(p, h, c)
         \/ \E tools \in Profiles : Run(p, h, tools)
  PROVE  \E s \in Shell : Becomes(p, s) /\ ShellOK(s)
<1> DEFINE s(c, t, profiles, step) ==
             [Idle EXCEPT !.step = step, !.cmd = c, !.harness = h, !.tag = t, !.todo = profiles]
<1>1. ASSUME NEW c \in {"install", "update", "run"} \cup Uninstalls, NEW t \in Tags \cup {None},
             NEW profiles \in SUBSET Profiles, NEW step \in Steps,
             Begin(p, c, h, t, profiles, step)
      PROVE  LET r == s(c, t, profiles, step) IN
               /\ r \in Shell /\ Becomes(p, r) /\ r.base = Absent
               /\ r.cmd = c /\ r.tag = t /\ r.todo = profiles /\ r.step = step
  <2>1. Idle \in Shell /\ Idle.base = Absent
    BY IdleOK DEF Idle
  <2>2. QED
    BY <1>1, <2>1 DEF Shell, Becomes, Begin, Goes
<1> HIDE DEF s
<1>2. ASSUME NEW c \in {"install", "update", "run"} \cup Uninstalls, NEW t \in Tags \cup {None},
             NEW profiles \in SUBSET Profiles, NEW step \in {"verify", "proxy", "target", "version", "resolve"},
             Begin(p, c, h, t, profiles, step),
             StepOK(s(c, t, profiles, step)), TodoOK(s(c, t, profiles, step)), step = "verify" => t = Local
      PROVE  \E r \in Shell : Becomes(p, r) /\ ShellOK(r)
  <2> DEFINE r == s(c, t, profiles, step)
  <2>1. /\ r \in Shell /\ Becomes(p, r) /\ r.base = Absent
        /\ r.tag = t /\ r.step = step
    BY <1>1, <1>2 DEF Steps
  <2>2. ShellOK(r)
    BY <1>2, <2>1, FreshOK DEF Building
  <2>3. QED
    BY <2>1, <2>2
<1>3. ASSUME NEW t \in Tags, Install(p, h, t) PROVE \E r \in Shell : Becomes(p, r) /\ ShellOK(r)
  <2>1. PICK step \in {"verify", "proxy"} : /\ Begin(p, "install", h, t, Profiles, step)
                                            /\ step = "verify" => t = Local
    BY <1>3 DEF Install
  <2> DEFINE r == s("install", t, Profiles, step)
  <2>2. r.cmd = "install" /\ r.tag = t /\ r.todo = Profiles /\ r.step = step
    BY <1>1, <2>1 DEF Steps
  <2>3. StepOK(r) /\ TodoOK(r)
    BY <2>2, TagsAssumption DEF StepOK, TodoOK
  <2>4. QED
    BY <1>2, <2>1, <2>3
<1>4. CASE Update(p, h)
  <2> DEFINE r == s("update", Latest, Profiles, "target")
  <2>1. Begin(p, "update", h, Latest, Profiles, "target") /\ Latest \in Tags
    BY <1>4, TagsAssumption DEF Update
  <2>2. r.cmd = "update" /\ r.tag = Latest /\ r.step = "target"
    BY <1>1, <2>1 DEF Steps
  <2>3. StepOK(r) /\ TodoOK(r)
    BY <2>2, TagsAssumption DEF StepOK, TodoOK
  <2>4. QED
    BY <1>2, <2>1, <2>3
<1>5. ASSUME NEW c \in Uninstalls, Uninstall(p, h, c) PROVE \E r \in Shell : Becomes(p, r) /\ ShellOK(r)
  <2> DEFINE r == s(c, None, {}, "version")
  <2>1. /\ Begin(p, c, h, None, {}, "version") /\ c \in {"install", "update", "run"} \cup Uninstalls
        /\ {} \in SUBSET Profiles /\ "version" \in Steps /\ None \in Tags \cup {None}
    BY <1>5 DEF Uninstall, Steps
  <2>2. r.cmd = c /\ r.step = "version" /\ r.tag = None
    BY <1>1, <2>1
  <2>3. StepOK(r) /\ TodoOK(r)
    BY <2>2 DEF StepOK, TodoOK, Uninstalls
  <2>4. QED
    BY <1>2, <2>1, <2>3
<1>6. ASSUME NEW tools \in Profiles, Run(p, h, tools) PROVE \E r \in Shell : Becomes(p, r) /\ ShellOK(r)
  <2> DEFINE r == s("run", None, {tools}, "resolve")
  <2>1. /\ Begin(p, "run", h, None, {tools}, "resolve")
        /\ {tools} \in SUBSET Profiles /\ "resolve" \in Steps /\ None \in Tags \cup {None}
    BY <1>6 DEF Run, Steps
  <2>2. r.cmd = "run" /\ r.step = "resolve" /\ r.tag = None /\ r.todo = {tools}
    BY <1>1, <2>1
  <2>3. StepOK(r) /\ TodoOK(r)
    BY <2>2 DEF StepOK, TodoOK
  <2>4. QED
    BY <1>2, <2>1, <2>3
<1>7. QED
  BY <1>3, <1>4, <1>5, <1>6

\* A shell that goes on with the same arguments, base and list.
LEMMA GoesOn ==
  ASSUME NEW s \in Shell, ShellOK(s), NEW r \in Shell, StepOK(r),
         r.cmd = s.cmd, r.harness = s.harness, r.tag = s.tag, r.todo = s.todo, r.base = s.base,
         r.failed = s.failed, r.step \notin {"verify", "harness", "write"},
         r.cmd = "install" /\ r.step = "read" => r.todo = {},
         r.cmd = "install" /\ r.step \in {"read"} \cup Building => Stands(r.harness, r.tag)
  PROVE  ShellOK(r)
<1>1. BaseOK(r)
  BY DEF ShellOK, BaseOK
<1>2. TodoOK(r)
  BY DEF ShellOK, TodoOK
<1>3. PulledOK(r)
  BY DEF PulledOK, Building
<1>4. QED
  BY <1>1, <1>2, <1>3 DEF ShellOK

LEMMA FailsOK ==
  ASSUME NEW p \in Procs, Fails(p) \/ \E how \in {"ok", "current", "tools failed"} : Ends(p, how)
  PROVE  \E s \in Shell : Becomes(p, s) /\ ShellOK(s)
BY IdleOK DEF Fails, Goes, Ends, EndsWith, Becomes

LEMMA UpdatingOK ==
  ASSUME Typed, NEW p \in Procs, ShellOK(sh[p]),
         \/ Verify(p) \/ PullFails(p) \/ Target(p) \/ (\E n \in Versions : Check(p, n))
         \/ Unreachable(p) \/ (\E u \in BOOLEAN : Label(p, u)) \/ Killed(p)
         \/ (\E tools \in Profiles : Missing(p, tools)) \/ RemoveImageFails(p)
  PROVE  \E s \in Shell : Becomes(p, s) /\ ShellOK(s)
<1>1. sh[p] \in Shell
  BY DEF Typed, EngineTyped
<1>2. CASE Fails(p) \/ \E how \in {"ok", "current", "tools failed"} : Ends(p, how)
  BY <1>2, FailsOK
<1> DEFINE r(step, newest) == [sh[p] EXCEPT !.step = step, !.newest = newest]
<1>3. ASSUME NEW step \in Steps, NEW newest \in Versions
      PROVE  /\ r(step, newest) \in Shell
             /\ sh[p].newest = newest => r(step, newest) = [sh[p] EXCEPT !.step = step]
  BY <1>1, <1>3 DEF Shell
<1>4. sh[p].newest \in Versions /\ Absent \in Versions
  BY <1>1, VersionAssumption DEF Shell, Versions, Absent
<1> USE DEF Goto, Goes, Becomes, At
<1>5. CASE Verify(p) /\ ~Fails(p)
  <2> DEFINE s == r("tools", sh[p].newest)
  <2>1. s \in Shell /\ Becomes(p, s)
    BY <1>3, <1>4, <1>5 DEF Verify, Steps
  <2>2. sh[p].tag = Local /\ sh[p].cmd = "install" /\ sh[p].tag # None
    BY <1>5 DEF Verify, ShellOK, PulledOK, StepOK, Building, Uninstalls
  <2>3. StepOK(s) /\ Stands(s.harness, s.tag)
    BY <1>1, <1>5, <2>2 DEF Shell, StepOK, Building, Stands, Verify, Image, proxy_tag
  <2>4. ShellOK(s)
    BY <1>1, <2>1, <2>3, GoesOn DEF Shell
  <2>5. QED
    BY <2>1, <2>4
<1>6. CASE Target(p) /\ Goto(p, "check")
  <2> DEFINE s == r("check", sh[p].newest)
  <2>1. s \in Shell /\ Becomes(p, s)
    BY <1>3, <1>4, <1>6 DEF Steps
  <2>2. StepOK(s)
    BY <1>1, <1>6 DEF Target, Shell, ShellOK, StepOK, Building, Uninstalls
  <2>3. ShellOK(s)
    BY <1>1, <2>1, <2>2, GoesOn DEF Shell, Building
  <2>4. QED
    BY <2>1, <2>3
<1>7. ASSUME NEW n \in Versions, Check(p, n) PROVE \E s \in Shell : Becomes(p, s) /\ ShellOK(s)
  <2> DEFINE s == r("label", n)
  <2>1. s \in Shell /\ Becomes(p, s)
    BY <1>3, <1>7 DEF Steps, Check
  <2>2. StepOK(s)
    BY <1>1, <1>7 DEF Check, Shell, ShellOK, StepOK, Building, Uninstalls
  <2>3. ShellOK(s)
    BY <1>1, <2>1, <2>2, GoesOn DEF Shell, Building
  <2>4. QED
    BY <2>1, <2>3
<1>8. ASSUME NEW u \in BOOLEAN, Label(p, u), ~Ends(p, "current")
      PROVE  \E s \in Shell : Becomes(p, s) /\ ShellOK(s)
  <2> DEFINE s == r("proxy", Idle.newest)
  <2>1. s \in Shell /\ Becomes(p, s)
    BY <1>3, <1>4, <1>8 DEF Steps, Label, Idle
  <2>2. StepOK(s)
    BY <1>1, <1>8 DEF Label, Shell, ShellOK, StepOK, Building, Uninstalls
  <2>3. ShellOK(s)
    BY <1>1, <2>1, <2>2, GoesOn DEF Shell, Building
  <2>4. QED
    BY <2>1, <2>3
<1>9. ASSUME NEW tools \in Profiles, Missing(p, tools) PROVE \E s \in Shell : Becomes(p, s) /\ ShellOK(s)
  <2> DEFINE s == r("build", sh[p].newest)
  <2>1. s \in Shell /\ Becomes(p, s)
    BY <1>3, <1>4, <1>9 DEF Steps, Missing
  <2>2. StepOK(s) /\ (s.cmd = "install" => Stands(s.harness, s.tag))
    BY <1>1, <1>9 DEF Missing, Shell, ShellOK, StepOK, PulledOK, Building, Uninstalls
  <2>3. ShellOK(s)
    BY <1>1, <2>1, <2>2, GoesOn DEF Shell
  <2>4. QED
    BY <2>1, <2>3
<1>10. QED
  BY <1>2, <1>5, <1>6, <1>7, <1>8, <1>9
     DEF Verify, PullFails, Target, Unreachable, Label, Killed, RemoveImageFails
\* A layer that is found is one for the harness, the base and the tools asked for.
LEMMA LayersAreTagged ==
  ASSUME EngineOK, NEW p \in Procs, NEW tools \in Profiles, NEW l \in Layer(Tag(p, tools))
  PROVE  l.tools = tools /\ l.tag[1] = sh[p].harness /\ sh[p].base <= l.base /\ l \in layers
<1>1. l \in layers /\ l.tag = <<sh[p].harness, sh[p].base, tools>>
  BY DEF Layer, Tag, tools_tag_for
<1>2. LayerOK(l)
  BY <1>1 DEF EngineOK
<1>3. QED
  BY <1>1, <1>2 DEF LayerOK

LEMMA ReadBaseOK ==
  ASSUME Typed, EngineOK, NEW p \in Procs, ShellOK(sh[p]), NEW u \in BOOLEAN, ReadBase(p, u)
  PROVE  \E s \in Shell : Becomes(p, s) /\ ShellOK(s)
<1> DEFINE base == IF u THEN Absent ELSE images[Image(p)]
           s == [sh[p] EXCEPT !.step = "find", !.base = base]
<1>1. sh[p] \in Shell /\ sh[p].step = "tools" /\ sh[p].tag # None
  BY DEF Typed, EngineTyped, ReadBase, At, ShellOK, StepOK, Building, Uninstalls
<1>2. sh[p].harness \in Harnesses /\ sh[p].tag \in Tags
  BY <1>1 DEF Shell
<1>3. /\ images[Image(p)] \in Versions /\ Absent \in Versions
      /\ images[Image(p)] <= Content(sh[p].harness, sh[p].tag)
      /\ Content(sh[p].harness, sh[p].tag) \in Versions
  BY <1>2, VersionAssumption, ContentIsVersion DEF Typed, EngineTyped, Refs, EngineOK, Image, Versions, Absent
<1>4. /\ base \in Versions /\ base <= Content(sh[p].harness, sh[p].tag)
      /\ images[Image(p)] # Absent => base <= images[Image(p)]
  BY <1>3 DEF Versions, Absent
<1> HIDE DEF base
<1>5. s \in Shell /\ Becomes(p, s)
  BY <1>1, <1>4 DEF Shell, Steps, ReadBase, Goes, Becomes, base
<1>6. BaseOK(s)
  BY <1>1, <1>4 DEF BaseOK, Image, Shell
<1>7. StepOK(s) /\ TodoOK(s) /\ PulledOK(s)
  BY <1>1 DEF Shell, ShellOK, StepOK, TodoOK, PulledOK, Building, Uninstalls
<1>8. QED
  BY <1>5, <1>6, <1>7 DEF ShellOK

\* The next profile follows, whether there is now a layer for the last one or not.
LEMMA NextProfileOK ==
  ASSUME NEW s \in Shell, ShellOK(s)', s.step \in {"find", "build"}, s.cmd # "run",
         NEW tools \in Profiles, NEW failed \in BOOLEAN,
         failed \/ (failed = s.failed /\ HasLayer(s.harness, tools)')
  PROVE  LET r == [s EXCEPT !.step = "tools", !.failed = failed, !.todo = @ \ {tools}] IN
           r \in Shell /\ ShellOK(r)'
<1> DEFINE r == [s EXCEPT !.step = "tools", !.failed = failed, !.todo = @ \ {tools}]
<1>1. /\ r \in Shell /\ r.step = "tools" /\ r.failed = failed /\ r.todo = s.todo \ {tools}
      /\ r.cmd = s.cmd /\ r.harness = s.harness /\ r.tag = s.tag /\ r.base = s.base /\ r.copy = s.copy
  BY DEF Shell, Steps
<1> HIDE DEF r
<1>2. StepOK(r)'
  BY <1>1 DEF ShellOK, StepOK, Building, Uninstalls
<1>3. BaseOK(r)'
  BY <1>1 DEF ShellOK, BaseOK
<1>4. TodoOK(r)'
  BY <1>1 DEF ShellOK, TodoOK
<1>5. PulledOK(r)'
  BY <1>1 DEF ShellOK, PulledOK, Building
<1>6. QED
  BY <1>1, <1>2, <1>3, <1>4, <1>5 DEF ShellOK, r

LEMMA IdleStays == Idle \in Shell /\ ShellOK(Idle)'
<1>1. ShellOK(Idle)'
  BY DEF Idle, ShellOK, StepOK, BaseOK, TodoOK, PulledOK, Building, None
<1>2. QED
  BY <1>1, IdleOK

LEMMA ProfileOK ==
  ASSUME Typed, EngineTyped', EngineOK, Moves, NEW p \in Procs, ShellOK(sh[p]), NEW tools \in Profiles,
         \/ BuildFails(p, tools)
         \/ /\ Found(p, tools) \/ Build(p, tools)
            /\ \E l \in layers' : l.tools = tools /\ l.tag[1] = sh[p].harness
  PROVE  \E s \in Shell : Becomes(p, s) /\ ShellOK(s)'
<1>1. sh[p] \in Shell /\ sh[p].step \in {"find", "build"}
  BY DEF Typed, Found, Build, BuildFails, At
<1>2. CASE sh[p].cmd = "run"
  BY <1>2, IdleStays DEF Found, Build, BuildFails, Got, EndsWith, Fails, Goes, Becomes
<1>3. CASE sh[p].cmd # "run"
  <2>1. PICK s \in Shell : s = sh[p]
    BY <1>1
  <2>2. ShellOK(s)'
    BY <2>1, ShellKeeps
  <2>3. PICK failed \in BOOLEAN :
          /\ Becomes(p, [s EXCEPT !.step = "tools", !.failed = failed, !.todo = @ \ {tools}])
          /\ failed \/ (failed = s.failed /\ HasLayer(s.harness, tools)')
    <3>1. CASE BuildFails(p, tools)
      BY <1>3, <2>1, <3>1 DEF BuildFails, Goes, Becomes
    <3>2. CASE Found(p, tools) \/ Build(p, tools)
      <4>1. \E content : Got(p, tools, content)
        <5>1. CASE Found(p, tools)
          <6>1. PICK l \in Layer(Tag(p, tools)) : Got(p, l.tools, l.base)
            BY <5>1 DEF Found
          <6>2. l.tools = tools
            BY LayersAreTagged
          <6>3. QED
            BY <6>1, <6>2
        <5>2. CASE Build(p, tools)
          BY <5>2 DEF Build
        <5>3. QED
          BY <3>2, <5>1, <5>2
      <4>2. s.failed \in BOOLEAN /\ [s EXCEPT !.step = "tools", !.todo = @ \ {tools}]
              = [s EXCEPT !.step = "tools", !.failed = s.failed, !.todo = @ \ {tools}]
        BY DEF Shell
      <4>3. Becomes(p, [s EXCEPT !.step = "tools", !.todo = @ \ {tools}])
        BY <1>3, <2>1, <4>1 DEF Got, Goes, Becomes
      <4>4. HasLayer(s.harness, tools)' \/ BuildFails(p, tools)
        BY <2>1 DEF HasLayer
      <4>5. CASE BuildFails(p, tools)
        BY <1>3, <2>1, <4>5 DEF BuildFails, Goes, Becomes
      <4>6. QED
        BY <4>2, <4>3, <4>4, <4>5
    <3>3. QED
      BY <3>1, <3>2
  <2>4. QED
    BY <1>1, <1>3, <2>1, <2>2, <2>3, NextProfileOK
<1>4. QED
  BY <1>2, <1>3

LEMMA ToolsDoneOK ==
  ASSUME Typed, NEW p \in Procs, ShellOK(sh[p]), ToolsDone(p)
  PROVE  \E s \in Shell : Becomes(p, s) /\ ShellOK(s)
<1>1. sh[p] \in Shell /\ sh[p].step = "tools" /\ sh[p].todo = {}
  BY DEF Typed, EngineTyped, ToolsDone, At
<1>2. CASE sh[p].cmd = "update"
  BY <1>2, IdleOK DEF ToolsDone, Finish, Ends, EndsWith, Becomes
<1>3. CASE sh[p].cmd # "update"
  <2> DEFINE s == [sh[p] EXCEPT !.step = "read"]
  <2>1. s \in Shell /\ Becomes(p, s)
    BY <1>1, <1>3 DEF Shell, Steps, ToolsDone, Finish, Goto, Goes, Becomes
  <2>2. sh[p].cmd = "install"
    BY <1>1, <1>3 DEF ShellOK, StepOK, TodoOK, Building, Uninstalls
  <2>3. StepOK(s) /\ Stands(s.harness, s.tag)
    BY <1>1, <2>2 DEF Shell, ShellOK, StepOK, PulledOK, Building, Uninstalls
  <2>4. ShellOK(s)
    BY <1>1, <2>1, <2>3, GoesOn DEF Shell
  <2>5. QED
    BY <2>1, <2>4
<1>4. QED
  BY <1>2, <1>3

LEMMA ReadFileOK ==
  ASSUME Typed, Stand(installed), NEW p \in Procs, ShellOK(sh[p]), ReadFile(p)
  PROVE  \E s \in Shell : Becomes(p, s) /\ ShellOK(s)
<1> DEFINE s == [sh[p] EXCEPT !.step = "write", !.copy = installed]
<1>1. sh[p] \in Shell /\ sh[p].step = "read" /\ Becomes(p, s)
  BY DEF Typed, EngineTyped, ReadFile, At, Goes, Becomes
<1>2. /\ s \in Shell /\ s.step = "write" /\ s.copy = installed /\ s.failed = sh[p].failed
      /\ s.cmd = sh[p].cmd /\ s.harness = sh[p].harness /\ s.tag = sh[p].tag
      /\ s.base = sh[p].base /\ s.todo = sh[p].todo
  BY <1>1 DEF Typed, EngineTyped, Shell, Steps
<1> HIDE DEF s
<1>3. StepOK(s) /\ BaseOK(s)
  BY <1>1, <1>2 DEF ShellOK, StepOK, BaseOK, Building, Uninstalls
<1>4. TodoOK(s) /\ PulledOK(s)
  BY <1>1, <1>2 DEF ShellOK, TodoOK, PulledOK, Building
<1>5. QED
  BY <1>1, <1>2, <1>3, <1>4 DEF ShellOK

\* Where the version to be removed or to be run is looked up.
LEMMA LookedUpOK ==
  ASSUME Typed, NEW p \in Procs, ShellOK(sh[p]), ReadVersion(p) \/ Resolve(p)
  PROVE  \E s \in Shell : Becomes(p, s) /\ ShellOK(s)
<1> DEFINE tag == installed[sh[p].harness]
           s(step) == [sh[p] EXCEPT !.step = step, !.tag = tag]
<1>1. sh[p] \in Shell
  BY DEF Typed, EngineTyped
<1>2. tag \in Tags \cup {None}
  BY <1>1 DEF Typed, EngineTyped, Registers, Shell
<1>3. CASE Resolve(p) /\ Fails(p)
  BY <1>3, FailsOK
<1>4. CASE \/ ReadVersion(p)
           \/ Resolve(p) /\ ~Fails(p)
  <2>1. PICK step \in {"read", "tools"} :
          /\ Becomes(p, s(step))
          /\ \/ step = "read" /\ sh[p].step = "version"
             \/ step = "tools" /\ sh[p].step = "resolve" /\ tag # None
    BY <1>4 DEF ReadVersion, Resolve, Goes, Becomes, At
  <2> DEFINE r == s(step)
  <2>2. /\ r \in Shell /\ r.step = step /\ r.tag = tag /\ r.failed = sh[p].failed /\ r.cmd = sh[p].cmd
        /\ r.harness = sh[p].harness /\ r.base = sh[p].base /\ r.todo = sh[p].todo
    BY <1>1, <1>2, <2>1 DEF Shell, Steps
  <2> HIDE DEF r
  <2>3. (sh[p].cmd \in Uninstalls \/ sh[p].cmd = "run") /\ sh[p].tag = None
    BY <2>1 DEF ShellOK, StepOK, Building
  <2>4. StepOK(r) /\ TodoOK(r) /\ PulledOK(r)
    BY <2>1, <2>2, <2>3 DEF ShellOK, StepOK, TodoOK, PulledOK, Building, Uninstalls
  <2>5. BaseOK(r)
    BY <2>2, <2>3, FreshBase DEF ShellOK, BaseOK
  <2>6. QED
    BY <2>1, <2>2, <2>4, <2>5 DEF ShellOK, r
<1>5. QED
  BY <1>3, <1>4
-----------------------------------------------------------------------------
(* What a shell does to the engine.                                        *)

LEMMA QuietMoves ==
  ASSUME Typed, EngineOK, UNCHANGED <<published, engine>>
  PROVE  Moves /\ EngineOK' /\ EngineTyped'
<1> USE DEF engine
<1>1. EngineOK' /\ EngineTyped'
  BY DEF EngineOK, Content, LayerOK, Typed, EngineTyped
<1>2. \A h \in Harnesses : published[h] <= published'[h]
  BY DEF Typed, EngineTyped, Versions
<1>3. Moves
  BY <1>2 DEF Moves, ImageMoves, HasLayer
<1>4. QED
  BY <1>1, <1>3

LEMMA PublishMoves ==
  ASSUME Typed, EngineOK, NEW h \in Harnesses, Publish(h)
  PROVE  Moves /\ EngineOK' /\ EngineTyped'
<1> USE DEF Publish, engine
<1>1. published[h] \in Versions /\ published[h] # Absent /\ published[h] < MaxVersion
  BY DEF Typed, EngineTyped
<1>2. published[h] + 1 \in Versions \ {Absent}
  BY <1>1, VersionAssumption DEF Versions, Absent
<1>3. EngineTyped'
  BY <1>2 DEF Typed, EngineTyped
<1>4. \A g \in Harnesses : published[g] <= published'[g]
  BY <1>1 DEF Typed, EngineTyped, Versions
<1>5. Moves
  BY <1>4 DEF Moves, ImageMoves, HasLayer
<1>6. ASSUME NEW g \in Harnesses, NEW t \in Tags PROVE images'[<<g, t>>] <= Content(g, t)'
  <2>1. images[<<g, t>>] \in Versions /\ images[<<g, t>>] <= Content(g, t) /\ Content(g, t) \in Versions
    BY ContentIsVersion DEF EngineOK, Typed, EngineTyped, Refs
  <2>2. Content(g, t)' \in Versions /\ Content(g, t) <= Content(g, t)'
    BY <1>3, <1>5, ContentGrows
  <2>3. QED
    BY <2>1, <2>2 DEF Versions
<1>7. QED
  BY <1>3, <1>5, <1>6 DEF EngineOK, LayerOK

LEMMA PullMoves ==
  ASSUME Typed, EngineOK, NEW p \in Procs, ShellOK(sh[p]), PullProxy(p) \/ PullHarness(p) \/ RemoveImage(p)
  PROVE  Moves /\ EngineOK' /\ EngineTyped'
<1>1. \A h \in Harnesses : published[h] <= published'[h]
  BY DEF Typed, EngineTyped, Versions, PullProxy, PullHarness, RemoveImage
<1>2. published' = published /\ layers' = layers
  BY DEF PullProxy, PullHarness, RemoveImage
<1>3. (\A h \in Harnesses, t \in Tags : images'[<<h, t>>] <= Content(h, t)') => EngineOK'
  BY <1>2 DEF EngineOK, LayerOK
<1>4. CASE PullProxy(p)
  BY <1>1, <1>4 DEF PullProxy, Moves, ImageMoves, HasLayer, EngineOK, LayerOK, Content, Typed, EngineTyped
<1>5. CASE PullHarness(p) \/ RemoveImage(p)
  <2> DEFINE i == Image(p)
  <2>1. sh[p] \in Shell /\ sh[p].harness \in Harnesses /\ sh[p].tag \in Tags
    BY <1>5 DEF Typed, Shell, PullHarness, RemoveImage, At, ShellOK, StepOK, Building, Uninstalls
  <2>2. i \in Refs
    BY <2>1 DEF Image, Refs
  <2>3. PICK content \in Versions :
          /\ images' = [images EXCEPT ![i] = content]
          /\ \/ /\ content = Content(sh[p].harness, sh[p].tag) /\ proxy_tag(sh[p].tag) \in proxies
                /\ removed' = removed \ {i}
             \/ content = Absent /\ removed' = removed \cup {i}
    <3>1. CASE PullHarness(p)
      BY <2>1, <3>1, ContentIsVersion DEF PullHarness, At, ShellOK, PulledOK
    <3>2. CASE RemoveImage(p)
      <4>1. Absent \in Versions
        BY VersionAssumption DEF Versions, Absent
      <4>2. images' = [images EXCEPT ![i] = Absent] /\ removed' = removed \cup {i}
        BY <3>2 DEF RemoveImage
      <4>3. QED
        BY <4>1, <4>2
    <3>3. QED
      BY <1>5, <3>1, <3>2
  <2>4. EngineTyped'
    BY <1>2, <2>2, <2>3 DEF Typed, EngineTyped
  <2>5. proxies' = proxies
    BY <1>5 DEF PullHarness, RemoveImage
  <2>6. ASSUME NEW h \in Harnesses, NEW t \in Tags
        PROVE  ImageMoves(h, t) /\ images'[<<h, t>>] <= Content(h, t)'
    <3>1. /\ Content(h, t)' = Content(h, t) /\ Content(h, t) \in Versions /\ images[<<h, t>>] \in Versions
          /\ images[<<h, t>>] <= Content(h, t) /\ <<h, t>> \in Refs
      BY <1>2, ContentIsVersion DEF Content, EngineOK, Refs, Typed, EngineTyped
    <3>2. CASE <<h, t>> # i
      BY <2>2, <2>3, <3>1, <3>2 DEF ImageMoves, Typed, EngineTyped
    <3>3. CASE <<h, t>> = i
      <4>1. h = sh[p].harness /\ t = sh[p].tag
        BY <3>3 DEF Image
      <4>2. images'[<<h, t>>] = content
        BY <2>2, <2>3, <3>3 DEF Typed, EngineTyped
      <4>3. ImageMoves(h, t)
        BY <2>3, <3>3, <4>1, <4>2 DEF ImageMoves
      <4>4. images'[<<h, t>>] <= Content(h, t)'
        BY <2>3, <3>1, <4>1, <4>2 DEF Versions, Absent
      <4>5. QED
        BY <4>3, <4>4
    <3>4. QED
      BY <3>2, <3>3
  <2>7. Moves
    BY <1>1, <1>2, <2>5, <2>6 DEF Moves, HasLayer
  <2>8. QED
    BY <1>3, <2>4, <2>6, <2>7
<1>6. QED
  BY <1>4, <1>5

\* The build is on a base that is no older than the one that was read.
LEMMA BuildBaseOK ==
  ASSUME Typed, EngineOK, NEW p \in Procs, ShellOK(sh[p]), At(p, "build")
  PROVE  /\ BuildBase(p) \in Versions /\ sh[p].base <= BuildBase(p)
         /\ sh[p] \in Shell /\ sh[p].tag # None
<1>1. sh[p] \in Shell /\ sh[p].tag # None
  BY DEF Typed, At, ShellOK, StepOK, Building, Uninstalls
<1>2. sh[p].harness \in Harnesses /\ sh[p].tag \in Tags
  BY <1>1 DEF Shell
<1>3. images[Image(p)] \in Versions /\ Content(sh[p].harness, sh[p].tag) \in Versions
  BY <1>2, ContentIsVersion DEF Typed, EngineTyped, Image, Refs
<1>4. QED
  BY <1>1, <1>3 DEF BuildBase, ShellOK, BaseOK, Image

LEMMA BuildMoves ==
  ASSUME Typed, EngineOK, NEW p \in Procs, ShellOK(sh[p]), NEW tools \in Profiles, Build(p, tools)
  PROVE  /\ Moves /\ EngineOK' /\ EngineTyped'
         /\ \E l \in layers' : l.tools = tools /\ l.tag[1] = sh[p].harness
<1> DEFINE new == [tag |-> Tag(p, tools), tools |-> tools, base |-> BuildBase(p)]
<1>1. layers' = (layers \ Layer(Tag(p, tools))) \cup {new} /\ UNCHANGED <<published, images, proxies, removed>>
  BY DEF Build
<1>2. /\ new.tag = <<sh[p].harness, sh[p].base, tools>> /\ new.tools = tools
      /\ new \in layers' /\ new.tag[1] = sh[p].harness
  BY <1>1 DEF Tag, tools_tag_for
<1>3. LayerOK(new)
  <2>1. sh[p].base \in Versions /\ BuildBase(p) \in Versions /\ sh[p].base <= BuildBase(p)
    BY BuildBaseOK DEF Build, Shell
  <2>2. QED
    BY <1>2, <2>1 DEF LayerOK
<1>4. EngineTyped' /\ \A h \in Harnesses : published[h] <= published'[h]
  BY <1>1 DEF Typed, EngineTyped, Versions
<1>5. EngineOK'
  <2>1. \A l \in layers' : LayerOK(l)
    BY <1>1, <1>3 DEF EngineOK
  <2>2. \A l, m \in layers' : l.tag = m.tag => l = m
    BY <1>1 DEF EngineOK, Layer
  <2>3. QED
    BY <1>1, <2>1, <2>2 DEF EngineOK, LayerOK, Content
<1>6. ASSUME NEW h \in Harnesses, NEW t \in Profiles, HasLayer(h, t) PROVE HasLayer(h, t)'
  <2>1. PICK l \in layers : l.tools = t /\ l.tag[1] = h
    BY <1>6 DEF HasLayer
  <2>2. CASE l \in layers'
    BY <2>1, <2>2 DEF HasLayer
  <2>3. CASE l \notin layers'
    <3>1. l.tag = Tag(p, tools) /\ LayerOK(l)
      BY <1>1, <2>3 DEF Layer, EngineOK
    <3>2. t = tools /\ h = sh[p].harness
      BY <2>1, <3>1 DEF LayerOK, Tag, tools_tag_for
    <3>3. QED
      BY <1>1, <1>2, <3>2 DEF HasLayer
  <2>4. QED
    BY <2>2, <2>3
<1>7. Moves
  BY <1>1, <1>4, <1>6 DEF Moves, ImageMoves
<1>8. QED
  BY <1>1, <1>2, <1>4, <1>5, <1>7
LEMMA PulledShellOK ==
  ASSUME Typed, EngineOK, Moves, EngineTyped', NEW p \in Procs, ShellOK(sh[p]),
         PullProxy(p) \/ PullHarness(p)
  PROVE  \E s \in Shell : Becomes(p, s) /\ ShellOK(s)'
<1>1. PICK s \in Shell : s = sh[p]
  BY DEF Typed
<1>2. ShellOK(s)'
  BY <1>1, ShellKeeps
<1> DEFINE r(step) == [s EXCEPT !.step = step]
<1>3. ASSUME NEW step \in Steps
      PROVE  /\ r(step) \in Shell /\ r(step).step = step /\ r(step).cmd = s.cmd /\ r(step).harness = s.harness
             /\ r(step).tag = s.tag /\ r(step).base = s.base /\ r(step).todo = s.todo
             /\ r(step).failed = s.failed
  BY <1>3 DEF Shell
<1> HIDE DEF r
<1>4. CASE PullProxy(p)
  <2> DEFINE q == r("harness")
  <2>1. s.step = "proxy" /\ Becomes(p, q) /\ proxies' = proxies \cup {proxy_tag(s.tag)}
    BY <1>1, <1>4 DEF PullProxy, At, Goto, Goes, Becomes, r
  <2>2. /\ q \in Shell /\ q.step = "harness" /\ q.cmd = s.cmd /\ q.harness = s.harness
        /\ q.tag = s.tag /\ q.base = s.base /\ q.todo = s.todo /\ q.failed = s.failed
    BY <1>3 DEF Steps
  <2>3. StepOK(q)' /\ BaseOK(q)' /\ TodoOK(q)'
    BY <1>2, <2>1, <2>2 DEF ShellOK, StepOK, BaseOK, TodoOK, Building, Uninstalls
  <2>4. PulledOK(q)'
    BY <2>1, <2>2 DEF PulledOK, Building, proxy_tag
  <2>5. QED
    BY <2>1, <2>2, <2>3, <2>4 DEF ShellOK
<1>5. CASE PullHarness(p)
  <2> DEFINE q == r("tools")
  <2>1. s.step = "harness" /\ Becomes(p, q) /\ proxies' = proxies
    BY <1>1, <1>5 DEF PullHarness, At, Goto, Goes, Becomes, r
  <2>2. /\ q \in Shell /\ q.step = "tools" /\ q.cmd = s.cmd /\ q.harness = s.harness
        /\ q.tag = s.tag /\ q.base = s.base /\ q.todo = s.todo /\ q.failed = s.failed
    BY <1>3 DEF Steps
  <2>3. StepOK(q)' /\ BaseOK(q)' /\ TodoOK(q)'
    BY <1>2, <2>1, <2>2 DEF ShellOK, StepOK, BaseOK, TodoOK, Building, Uninstalls
  <2>4. s.tag \in Tags /\ proxy_tag(s.tag) \in proxies
    BY <1>1, <2>1 DEF Shell, ShellOK, StepOK, PulledOK, Building, Uninstalls
  <2>5. images'[<<s.harness, s.tag>>] # Absent
    <3>1. Content(s.harness, s.tag) # Absent /\ <<s.harness, s.tag>> \in Refs
      BY <2>4, ContentIsVersion DEF Shell, Refs
    <3>2. QED
      BY <1>1, <1>5, <3>1 DEF PullHarness, Image, Typed, EngineTyped
  <2>6. Stands(s.harness, s.tag)'
    BY <2>1, <2>4, <2>5 DEF Stands, proxy_tag
  <2>7. PulledOK(q)'
    BY <2>2, <2>6 DEF PulledOK, Building
  <2>8. QED
    BY <2>1, <2>2, <2>3, <2>7 DEF ShellOK
<1>6. QED
  BY <1>4, <1>5

-----------------------------------------------------------------------------
(* The record, and the end of a command.                                   *)

LEMMA OtherEnds ==
  ASSUME ended' = NoEnd \/ ended'.cmd \in {"update"} \cup Uninstalls
  PROVE  NeverStale' /\ InstallIsFinished'
<1>1. ended'.cmd \notin {"run", "install"}
  <2>1. NoEnd.cmd = "none"
    BY DEF NoEnd, None
  <2>2. QED
    BY <2>1 DEF Uninstalls
<1>2. QED
  BY <1>1 DEF NeverStale, InstallIsFinished

LEMMA AddedOK ==
  ASSUME IInv, NEW p \in Procs, add_installed(p)
  PROVE  /\ installed' \in Registers /\ Stand(installed)' /\ InstallIsFinished' /\ NeverStale'
         /\ Becomes(p, Idle) /\ UNCHANGED <<published, engine>>
<1>1. /\ sh[p] \in Shell /\ ShellOK(sh[p]) /\ sh[p].step = "write" /\ sh[p].cmd = "install"
      /\ UNCHANGED <<published, engine>> /\ Becomes(p, Idle)
  BY DEF IInv, Typed, ShellsOK, add_installed, At, Ends, EndsWith, Becomes
<1>2. /\ sh[p].copy \in Registers /\ sh[p].harness \in Harnesses /\ sh[p].tag \in Tags
      /\ Stand(sh[p].copy) /\ Stands(sh[p].harness, sh[p].tag) /\ sh[p].todo = {}
      /\ sh[p].failed \/ \A t \in Profiles : HasLayer(sh[p].harness, t)
  <2>1. sh[p].todo = {} /\ (sh[p].failed \/ \A t \in Profiles : HasLayer(sh[p].harness, t))
    BY <1>1 DEF ShellOK, TodoOK
  <2>2. sh[p].tag \in Tags
    BY <1>1 DEF Shell, ShellOK, StepOK, Building, Uninstalls
  <2>3. Stand(sh[p].copy) /\ Stands(sh[p].harness, sh[p].tag)
    BY <1>1 DEF ShellOK, PulledOK
  <2>4. QED
    BY <1>1, <2>1, <2>2, <2>3 DEF Shell
<1>3. installed' = [sh[p].copy EXCEPT ![sh[p].harness] = sh[p].tag]
  BY DEF add_installed
<1>4. installed' \in Registers /\ installed'[sh[p].harness] = sh[p].tag
  BY <1>2, <1>3 DEF Registers
<1>5. Stand(installed')
  BY <1>2, <1>3 DEF Stand, Registers
<1>6. Stand(installed)'
  BY <1>1, <1>5 DEF Stand, Stands, proxy_tag, engine
<1>7. /\ ended'.cmd = "install" /\ ended'.harness = sh[p].harness /\ ended'.tag = sh[p].tag
      /\ ended'.todo = sh[p].todo /\ ended'.how = Verdict(p)
  BY <1>1 DEF add_installed, Ends, EndsWith
<1>8. NeverStale'
  BY <1>7 DEF NeverStale
<1>9. InstallIsFinished'
  <2>1. Verdict(p) = "ok" => ~sh[p].failed
    BY DEF Verdict
  <2>2. ended'.how = "ok" => \A t \in Profiles : \E l \in layers' : l.tools = t /\ l.tag[1] = ended'.harness
    BY <1>1, <1>2, <1>7, <2>1 DEF HasLayer, engine
  <2>3. QED
    BY <1>2, <1>4, <1>7, <2>2 DEF InstallIsFinished
<1>10. QED
  BY <1>1, <1>4, <1>6, <1>8, <1>9

LEMMA RemovedOK ==
  ASSUME IInv, NEW p \in Procs, remove_installed(p)
  PROVE  /\ installed' \in Registers /\ Stand(installed)' /\ InstallIsFinished' /\ NeverStale'
         /\ UNCHANGED <<published, engine>>
         /\ \E s \in Shell : Becomes(p, s) /\ ShellOK(s)
<1>1. /\ sh[p] \in Shell /\ ShellOK(sh[p]) /\ sh[p].step = "write" /\ sh[p].cmd \in Uninstalls
      /\ UNCHANGED <<published, engine>>
  BY DEF IInv, Typed, ShellsOK, remove_installed, At
<1>2. sh[p].copy \in Registers /\ sh[p].harness \in Harnesses /\ Stand(sh[p].copy)
  BY <1>1 DEF Shell, ShellOK, PulledOK
<1>3. installed' = [sh[p].copy EXCEPT ![sh[p].harness] = None]
  BY DEF remove_installed
<1>4. installed' \in Registers
  BY <1>2, <1>3 DEF Registers
<1>5. Stand(installed')
  BY <1>2, <1>3 DEF Stand, Registers
<1>6. Stand(installed)'
  BY <1>1, <1>5 DEF Stand, Stands, proxy_tag, engine
<1>7. ended' = NoEnd \/ ended'.cmd \in Uninstalls
  BY <1>1 DEF remove_installed, Ends, EndsWith, Goto, Goes
<1>8. NeverStale' /\ InstallIsFinished'
  BY <1>7, OtherEnds
<1>9. CASE Ends(p, "ok")
  BY <1>1, <1>4, <1>6, <1>8, <1>9, FailsOK
<1>10. CASE Goto(p, "image") /\ sh[p].tag # None
  <2> DEFINE s == [sh[p] EXCEPT !.step = "image"]
  <2>1. s \in Shell /\ Becomes(p, s)
    BY <1>1, <1>10 DEF Shell, Steps, Goto, Goes, Becomes
  <2>2. StepOK(s) /\ s.cmd # "install"
    BY <1>1, <1>10 DEF Shell, StepOK, Uninstalls
  <2>3. ShellOK(s)
    BY <1>1, <2>1, <2>2, GoesOn DEF Shell, Building
  <2>4. QED
    BY <1>1, <1>4, <1>6, <1>8, <2>1, <2>3
<1>11. QED
  BY <1>9, <1>10 DEF remove_installed

\* A run that has got its layer starts it.
LEMMA GotEnds ==
  ASSUME IInv, NEW p \in Procs, NEW tools \in Profiles, Found(p, tools) \/ Build(p, tools)
  PROVE  NeverStale' /\ InstallIsFinished'
<1>1. sh[p] \in Shell /\ ShellOK(sh[p]) /\ tools \in sh[p].todo
  BY DEF IInv, Typed, ShellsOK, Found, Build
<1>2. PICK content \in Versions : Got(p, tools, content) /\ sh[p].base <= content
  <2>1. CASE Found(p, tools)
    <3>1. PICK l \in Layer(Tag(p, tools)) : Got(p, l.tools, l.base)
      BY <2>1 DEF Found
    <3>2. l.tools = tools /\ sh[p].base <= l.base /\ l.base \in Versions
      BY LayersAreTagged DEF IInv, EngineOK, LayerOK
    <3>3. QED
      BY <3>1, <3>2
  <2>2. CASE Build(p, tools)
    BY <1>1, <2>2, BuildBaseOK DEF Build, IInv
  <2>3. QED
    BY <2>1, <2>2
<1>3. CASE sh[p].cmd = "run"
  <2>1. sh[p].todo = {tools}
    BY <1>1, <1>3 DEF ShellOK, TodoOK
  <2>2. /\ ended'.cmd = "run" /\ ended'.tools = tools /\ ended'.todo = sh[p].todo
        /\ ended'.base = sh[p].base /\ ended'.content = content
    BY <1>2, <1>3 DEF Got, EndsWith
  <2>3. ended'.content >= ended'.base
    <3>1. content \in Int /\ sh[p].base \in Int
      BY <1>1 DEF Shell, Versions
    <3>2. QED
      BY <1>2, <2>2, <3>1
  <2>4. QED
    BY <2>1, <2>2, <2>3 DEF NeverStale, InstallIsFinished
<1>4. CASE sh[p].cmd # "run"
  BY <1>2, <1>4, OtherEnds DEF Got, Goes
<1>5. QED
  BY <1>3, <1>4
-----------------------------------------------------------------------------
(* Every step of a shell.                                                  *)

\* What a step of a shell establishes.
Kept(p) ==
  /\ EngineTyped' /\ EngineOK' /\ Moves
  /\ installed' \in Registers /\ Stand(installed)'
  /\ NeverStale' /\ InstallIsFinished'
  /\ \E s \in Shell : Becomes(p, s) /\ ShellOK(s)'

LEMMA InstalledStays ==
  ASSUME IInv, Moves, installed' = installed
  PROVE  installed' \in Registers /\ Stand(installed)'
<1>1. PICK file \in Registers : file = installed
  BY DEF IInv, Typed
<1>2. Stand(file)'
  BY <1>1, FileStands DEF IInv
<1>3. QED
  BY <1>1, <1>2 DEF Stand

\* A step that leaves engine, registry and record alone.
LEMMA QuietKeeps ==
  ASSUME IInv, NEW p \in Procs, UNCHANGED <<published, engine, installed>>,
         NeverStale', InstallIsFinished', NEW s \in Shell, Becomes(p, s), ShellOK(s)
  PROVE  Kept(p)
<1>1. Moves /\ EngineOK' /\ EngineTyped'
  BY QuietMoves DEF IInv
<1>2. ShellOK(s)'
  BY <1>1, ShellKeeps DEF IInv
<1>3. installed' \in Registers /\ Stand(installed)'
  BY <1>1, InstalledStays
<1>4. QED
  BY <1>1, <1>2, <1>3 DEF Kept

LEMMA CommandKeeps ==
  ASSUME IInv, NEW p \in Procs, Command(p) \/ Killed(p)
  PROVE  Kept(p)
<1>1. UNCHANGED <<published, engine, installed>> /\ ended' = NoEnd
  BY DEF Command, Install, Update, Uninstall, Run, Begin, Killed, Fails, Goes
<1>2. \E s \in Shell : Becomes(p, s) /\ ShellOK(s)
  BY BegunOK, FailsOK DEF Command, Killed, IInv
<1>3. QED
  BY <1>1, <1>2, OtherEnds, QuietKeeps

LEMMA QuietStepKeeps ==
  ASSUME IInv, NEW p \in Procs,
         \/ Verify(p) \/ PullFails(p) \/ (\E tools \in Profiles : Missing(p, tools) \/ BuildFails(p, tools))
         \/ (\E u \in BOOLEAN : ReadBase(p, u) \/ Label(p, u)) \/ (\E n \in Versions : Check(p, n))
         \/ ToolsDone(p) \/ ReadFile(p) \/ ReadVersion(p) \/ RemoveImageFails(p) \/ Target(p)
         \/ Unreachable(p) \/ Resolve(p)
  PROVE  Kept(p)
<1>1. sh[p] \in Shell /\ ShellOK(sh[p]) /\ Typed /\ EngineOK /\ Stand(installed)
  BY DEF IInv, Typed, ShellsOK
<1>2. UNCHANGED <<published, engine, installed>>
  BY DEF Verify, PullFails, Missing, ReadBase, BuildFails, ToolsDone, ReadFile, ReadVersion,
         RemoveImageFails, Target, Check, Unreachable, Label, Resolve
<1>3. ended' = NoEnd \/ ended'.cmd \in {"update"} \cup Uninstalls
  <2>1. CASE ended' = NoEnd
    BY <2>1
  <2>2. CASE ended' # NoEnd
    <3>1. /\ ended'.cmd = sh[p].cmd /\ sh[p].step \in {"tools", "image", "target", "label"}
          /\ sh[p].step = "tools" => sh[p].cmd = "update"
      <4>1. CASE ToolsDone(p) \/ RemoveImageFails(p) \/ Target(p)
        BY <2>2, <4>1 DEF ToolsDone, RemoveImageFails, Target, Finish, Ends, EndsWith, Goto, Goes, At
      <4>2. CASE \E u \in BOOLEAN : Label(p, u)
        BY <2>2, <4>2 DEF Label, Ends, EndsWith, Goes, At
      <4>3. CASE \/ Verify(p) \/ PullFails(p) \/ Unreachable(p) \/ Resolve(p) \/ ReadFile(p) \/ ReadVersion(p)
                 \/ \E tools \in Profiles : Missing(p, tools) \/ BuildFails(p, tools)
                 \/ (\E u \in BOOLEAN : ReadBase(p, u)) \/ \E n \in Versions : Check(p, n)
        BY <2>2, <4>3 DEF Verify, PullFails, Unreachable, Resolve, ReadFile, ReadVersion, Missing, BuildFails,
           ReadBase, Check, Fails, Goto, Goes
      <4>4. QED
        BY <4>1, <4>2, <4>3
    <3>2. QED
      BY <1>1, <3>1 DEF ShellOK, StepOK, Building, Uninstalls
  <2>3. QED
    BY <2>1, <2>2
<1>4. CASE \E tools \in Profiles : BuildFails(p, tools)
  <2>1. Moves /\ EngineOK' /\ EngineTyped'
    BY <1>1, <1>2, QuietMoves
  <2>2. \E s \in Shell : Becomes(p, s) /\ ShellOK(s)'
    BY <1>1, <1>4, <2>1, ProfileOK
  <2>3. QED
    BY <1>2, <1>3, <2>1, <2>2, OtherEnds, InstalledStays DEF Kept
<1>5. CASE ~\E tools \in Profiles : BuildFails(p, tools)
  <2>1. \E s \in Shell : Becomes(p, s) /\ ShellOK(s)
    BY <1>1, <1>5, UpdatingOK, ReadBaseOK, ToolsDoneOK, ReadFileOK, LookedUpOK
  <2>2. QED
    BY <1>2, <1>3, <2>1, OtherEnds, QuietKeeps
<1>6. QED
  BY <1>4, <1>5

LEMMA EngineStepKeeps ==
  ASSUME IInv, NEW p \in Procs,
         \/ PullProxy(p) \/ PullHarness(p) \/ (\E tools \in Profiles : Found(p, tools) \/ Build(p, tools))
         \/ add_installed(p) \/ remove_installed(p) \/ RemoveImage(p)
  PROVE  Kept(p)
<1>1. sh[p] \in Shell /\ ShellOK(sh[p]) /\ Typed /\ EngineOK /\ Stand(installed)
  BY DEF IInv, Typed, ShellsOK
<1>2. CASE add_installed(p)
  <2>1. Moves /\ EngineOK' /\ EngineTyped'
    BY <1>1, <1>2, AddedOK, QuietMoves
  <2>2. QED
    BY <1>2, <2>1, AddedOK, IdleStays DEF Kept
<1>3. CASE remove_installed(p)
  <2>1. Moves /\ EngineOK' /\ EngineTyped'
    BY <1>1, <1>3, RemovedOK, QuietMoves
  <2>2. PICK s \in Shell : Becomes(p, s) /\ ShellOK(s)
    BY <1>3, RemovedOK
  <2>3. ShellOK(s)'
    BY <1>1, <2>1, <2>2, ShellKeeps
  <2>4. QED
    BY <1>3, <2>1, <2>2, <2>3, RemovedOK DEF Kept
<1>4. CASE PullProxy(p) \/ PullHarness(p) \/ RemoveImage(p)
  <2>1. Moves /\ EngineOK' /\ EngineTyped'
    BY <1>1, <1>4, PullMoves
  <2>2. installed' = installed /\ (ended' = NoEnd \/ ended'.cmd \in {"update"} \cup Uninstalls)
    <3>1. CASE PullProxy(p) \/ PullHarness(p)
      BY <3>1 DEF PullProxy, PullHarness, Goto, Goes
    <3>2. CASE RemoveImage(p)
      BY <1>1, <3>2 DEF RemoveImage, Ends, EndsWith, At, ShellOK, StepOK, Building, Uninstalls
    <3>3. QED
      BY <1>4, <3>1, <3>2
  <2>3. \E s \in Shell : Becomes(p, s) /\ ShellOK(s)'
    <3>1. CASE PullProxy(p) \/ PullHarness(p)
      BY <1>1, <2>1, <3>1, PulledShellOK
    <3>2. CASE RemoveImage(p)
      BY <3>2, IdleStays DEF RemoveImage, Ends, EndsWith, Becomes
    <3>3. QED
      BY <1>4, <3>1, <3>2
  <2>4. QED
    BY <2>1, <2>2, <2>3, OtherEnds, InstalledStays DEF Kept
<1>5. ASSUME NEW tools \in Profiles, Found(p, tools) \/ Build(p, tools) PROVE Kept(p)
  <2>1. /\ Moves /\ EngineOK' /\ EngineTyped'
        /\ \E l \in layers' : l.tools = tools /\ l.tag[1] = sh[p].harness
    <3>1. CASE Build(p, tools)
      BY <1>1, <3>1, BuildMoves
    <3>2. CASE Found(p, tools)
      <4>1. Moves /\ EngineOK' /\ EngineTyped' /\ layers' = layers
        BY <1>1, <3>2, QuietMoves DEF Found, engine
      <4>2. PICK l \in Layer(Tag(p, tools)) : TRUE
        BY <3>2 DEF Found
      <4>3. l \in layers /\ l.tools = tools /\ l.tag[1] = sh[p].harness
        BY <1>1, LayersAreTagged
      <4>4. QED
        BY <4>1, <4>3
    <3>3. QED
      BY <1>5, <3>1, <3>2
  <2>2. \E s \in Shell : Becomes(p, s) /\ ShellOK(s)'
    BY <1>1, <1>5, <2>1, ProfileOK
  <2>3. installed' = installed
    BY <1>5 DEF Found, Build
  <2>4. QED
    BY <1>5, <2>1, <2>2, <2>3, GotEnds, InstalledStays DEF Kept
<1>6. QED
  BY <1>2, <1>3, <1>4, <1>5

\* The other shells stand by.
LEMMA KeptIsKept ==
  ASSUME IInv, NEW p \in Procs, Kept(p)
  PROVE  IInv'
<1>1. PICK s \in Shell : Becomes(p, s) /\ ShellOK(s)'
  BY DEF Kept
<1>2. Typed'
  BY <1>1 DEF Kept, Typed, Becomes, IInv
<1>3. ASSUME NEW q \in Procs PROVE ShellOK(sh[q])'
  <2>1. PICK r \in Shell : r = sh[q] /\ ShellOK(r)
    BY DEF IInv, Typed, ShellsOK
  <2>2. ShellOK(r)'
    BY <2>1, ShellKeeps DEF IInv, Kept
  <2>3. sh'[q] = IF q = p THEN s ELSE r
    BY <1>1, <2>1 DEF Becomes, IInv, Typed
  <2>4. \E t \in Shell : ShellOK(t)' /\ sh'[q] = t
    BY <1>1, <2>2, <2>3
  <2>5. QED
    BY <2>4 DEF ShellOK, StepOK, BaseOK, TodoOK, PulledOK
<1>4. QED
  BY <1>2, <1>3 DEF IInv, Kept, ShellsOK

LEMMA OutsideKeeps ==
  ASSUME IInv, Moves, EngineOK', EngineTyped', UNCHANGED <<installed, sh>>, NeverStale', InstallIsFinished'
  PROVE  IInv'
<1>1. ASSUME NEW q \in Procs PROVE ShellOK(sh[q])'
  <2>1. PICK r \in Shell : r = sh[q] /\ ShellOK(r)
    BY DEF IInv, Typed, ShellsOK
  <2>2. ShellOK(r)' /\ sh'[q] = r
    BY <2>1, ShellKeeps DEF IInv
  <2>3. QED
    BY <2>2 DEF ShellOK, StepOK, BaseOK, TodoOK, PulledOK
<1>2. QED
  BY <1>1, InstalledStays DEF IInv, Typed, ShellsOK

-----------------------------------------------------------------------------
(* The invariant and what follows from it.                                 *)

LEMMA IInvInit == Init => IInv
<1> SUFFICES ASSUME Init PROVE IInv
  OBVIOUS
<1>1. {Absent, PinnedVersion, 1} \subseteq Versions /\ 1 # Absent
  BY VersionAssumption DEF Versions, Absent, PinnedVersion
<1>2. published \in [Harnesses -> Versions \ {Absent}] /\ images \in [Refs -> Versions]
  BY <1>1 DEF Init, Refs
<1>3. Typed
  BY <1>2, IdleOK DEF Init, Typed, EngineTyped, Nothing, Registers
<1>4. ASSUME NEW h \in Harnesses, NEW t \in Tags PROVE images[<<h, t>>] <= Content(h, t)
  BY DEF Init, Content, PinnedVersion, Absent, Refs
<1>5. EngineOK
  BY <1>4 DEF Init, EngineOK
<1>6. Stand(installed) /\ NeverStale /\ InstallIsFinished
  BY DEF Init, Stand, Nothing, NeverStale, InstallIsFinished, NoEnd, None
<1>7. ShellsOK
  BY IdleOK DEF Init, ShellsOK
<1>8. QED
  BY <1>3, <1>5, <1>6, <1>7 DEF IInv

LEMMA IInvStep == IInv /\ [Next]_vars => IInv'
<1> SUFFICES ASSUME IInv, [Next]_vars PROVE IInv'
  OBVIOUS
<1>1. ASSUME NEW p \in Procs, Command(p) \/ Killed(p) PROVE IInv'
  BY <1>1, CommandKeeps, KeptIsKept
<1>2. ASSUME NEW p \in Procs, Step(p) PROVE IInv'
  BY <1>2, QuietStepKeeps, EngineStepKeeps, KeptIsKept DEF Step
<1>3. ASSUME NEW h \in Harnesses, Publish(h) PROVE IInv'
  BY <1>3, PublishMoves, OtherEnds, OutsideKeeps DEF IInv, Publish
<1>4. CASE UNCHANGED vars
  <2>1. NeverStale' /\ InstallIsFinished'
    BY <1>4 DEF vars, engine, IInv, NeverStale, InstallIsFinished
  <2>2. QED
    BY <1>4, <2>1, QuietMoves, OutsideKeeps DEF IInv, vars
<1>5. QED
  BY <1>1, <1>2, <1>3, <1>4 DEF Next

LEMMA Invariant == Spec => []IInv
BY IInvInit, IInvStep, PTL DEF Spec

\* install.rs, uninstall.rs, update.rs and toolsimage.rs: a harness on record can be started
\* although commands of several shells overlap, fail and are killed; no run starts on a
\* layer of an older base than it has read; an installation that ends has done what it says.
THEOREM InstallsAreSound == Spec => []InstallationIsSound
<1>1. IInv => TypeOK
  <2> SUFFICES ASSUME IInv PROVE TypeOK
    OBVIOUS
  <2>1. ASSUME NEW p \in Procs
        PROVE  /\ sh[p].step \in Steps /\ sh[p].tag \in Tags \cup {None}
               /\ sh[p].todo \subseteq Profiles /\ sh[p].base \in Versions
               /\ sh[p].copy \in [Harnesses -> Tags \cup {None}]
               /\ sh[p].step \in {"proxy", "harness", "tools", "find", "build", "image", "label"}
                    => sh[p].tag # None
    <3>1. sh[p] \in Shell /\ StepOK(sh[p])
      BY DEF IInv, Typed, ShellsOK, ShellOK
    <3>2. QED
      BY <3>1 DEF Shell, Registers, StepOK, Building, Uninstalls
  <2>2. QED
    BY <2>1 DEF IInv, Typed, EngineTyped, EngineOK, Refs, Registers, TypeOK
<1>2. IInv => InstalledIsProvisioned
  BY DEF IInv, Stand, Stands, InstalledIsProvisioned
<1>3. IInv => InstallationIsSound
  BY <1>1, <1>2 DEF IInv, InstallationIsSound
<1>4. QED
  BY <1>3, Invariant, PTL

------------------------------------------------------------------------------
(* What a launch prepares (Preparation).                                   *)

Record == [step : Mirror!Steps, harness : Agents \cup {"none"}, at : 0..Len(Mirror!Plan),
           copy : 0..MaxChanges + 1, nested : BOOLEAN, kept : SUBSET Mirror!Mirrors, warned : BOOLEAN, disturbed : BOOLEAN,
           binds : SUBSET Mirror!Items, found : {<<>>} \cup [Mirror!Items -> Mirror!Contents]]

IsOwn(h, what) == what = Mirror!Absent \/ what.by = h

\* What is known of a launch by itself.
LaunchOK(l) ==
  /\ launch[l] \in Record
  /\ launch[l].step \notin {"idle", "ended"} => launch[l].harness \in Agents
  /\ launch[l].step \in {"sync", "cp", "copying"} => launch[l].at \in 1..Len(Mirror!Plan)
  /\ launch[l].step = "running" =>
       \A i \in Mirror!Items : IsOwn(launch[l].harness, launch[l].found[i])

MirrorTyped ==
  /\ host \in [Mirror!Sources -> 0..MaxChanges + 1]
  /\ mirror \in [Mirror!Places -> Mirror!Contents]
  /\ changes \in Nat /\ changes <= MaxChanges
  /\ launch \in [Procs -> Record] /\ \A l \in Procs : LaunchOK(l)
  /\ \A h \in Agents, i \in Mirror!Items : IsOwn(h, mirror[Mirror!Place(h, i)])

\* Of two launches of one harness that are at work, both are disturbed.
Alone ==
  \A l, k \in Procs : l # k /\ Mirror!Busy(l) /\ Mirror!Busy(k) /\ launch[l].harness = launch[k].harness =>
    launch[l].disturbed

\* What a launch has done of its plan.
Done(l) ==
  IF launch[l].step \in {"idle", "prepare"} THEN {}
  ELSE IF launch[l].step \in {"sync", "cp", "copying"} THEN 1..launch[l].at - 1
  ELSE 1..Len(Mirror!Plan)

Version(h, i) == host[Mirror!Source(h, i)]
Exact(h, i) ==
  mirror[Mirror!Place(h, i)] = IF Version(h, i) = 0 THEN Mirror!Absent ELSE Mirror!Copy(h, Version(h, i))
\* An item that a launch is done with.
Mirrored(l, i) == Mirror!Missed(l, i) \/ Exact(launch[l].harness, i)
\* What a launch was not able to remove.
Unremoved(l, i) == i \in Mirror!ToSet(SyncDirs) /\ i \in launch[l].kept

Guided == {"args", "create"}
Configured == {"guide", "opened"} \cup Guided

\* Where a launch stands that nobody disturbs and that has reported nothing.
Whole(l) ==
  LET h == launch[l].harness
      item == Mirror!Plan[launch[l].at]
      step == launch[l].step
  IN /\ \A n \in Done(l) : Mirrored(l, Mirror!Plan[n])
     /\ step \in {"cp", "copying"} => launch[l].copy = Version(h, item) /\ launch[l].copy > 0
     /\ step = "cp" => mirror[Mirror!Place(h, item)] = Mirror!Absent \/ Unremoved(l, item)
     /\ step \in {"prepare", "sync"} => ~launch[l].nested
     /\ step = "copying" => ~launch[l].nested \/ Unremoved(l, item)
     /\ step = "etc" => h \in SystemConfig /\ launch[l].copy = Version(h, "etc")
     /\ step \in Configured /\ h \in SystemConfig => mirror[Mirror!Place(h, "etc")] = Mirror!Copy(h, Version(h, "etc"))
     /\ step \in Guided => mirror[Mirror!Place(h, "guide")] \in Mirror!OwnGuide(l)
     /\ step = "create" => launch[l].binds = Mirror!Mountable(l)

Calm(l) == Mirror!Busy(l) /\ ~launch[l].disturbed /\ ~launch[l].warned
MirrorInv == MirrorTyped /\ Alone /\ \A l \in Procs : Calm(l) => Whole(l)

LEMMA PlanIs ==
  /\ Len(Mirror!Plan) \in Nat \ {0} /\ DOMAIN Mirror!Plan = 1..Len(Mirror!Plan)
  /\ \A n \in 1..Len(Mirror!Plan) : Mirror!Plan[n] \in Mirror!Mirrors
  /\ \A i \in Mirror!Mirrors : \E n \in 1..Len(Mirror!Plan) : Mirror!Plan[n] = i
  /\ \A n, m \in 1..Len(Mirror!Plan) : Mirror!Plan[n] = Mirror!Plan[m] => n = m
  /\ "etc" \notin Mirror!Mirrors /\ "guide" \notin Mirror!Mirrors
<1> DEFINE S == Mirror!ToSet(SyncDirs) \cup Mirror!ToSet(SyncFiles)
<1>1. SyncDirs \in Seq(S) /\ SyncDirs # <<>> /\ SyncFiles \in Seq(S)
  BY PreparationAssumption DEF Mirror!PlanAssumption
<1>2. Mirror!Plan \in Seq(S) /\ Len(Mirror!Plan) \in Nat \ {0} /\ DOMAIN Mirror!Plan = 1..Len(Mirror!Plan)
  BY <1>1 DEF Mirror!Plan
<1>3. Mirror!Mirrors = {Mirror!Plan[n] : n \in DOMAIN Mirror!Plan}
  BY DEF Mirror!Mirrors, Mirror!ToSet
<1>4. QED
  BY <1>2, <1>3, PreparationAssumption DEF Mirror!PlanAssumption

LEMMA PlacesDiffer ==
  ASSUME NEW h, NEW g, NEW i, NEW j, Mirror!Place(h, i) = Mirror!Place(g, j)
  PROVE  h = g /\ i = j
<1>1. ASSUME NEW x, NEW y, NEW z
      PROVE  (<<x, y>> \o <<z>>)[2] = y /\ (<<x, y>> \o <<z>>)[3] = z
  <2> DEFINE S == {x, y, z}
  <2>1. <<x, y>> \in Seq(S) /\ <<z>> \in Seq(S) /\ Len(<<x, y>>) = 2 /\ Len(<<z>>) = 1
    OBVIOUS
  <2> HIDE DEF S
  <2>2. QED
    BY <2>1
<1>2. ASSUME NEW g1, NEW i1 PROVE Mirror!Place(g1, i1)[2] = g1 /\ Mirror!Place(g1, i1)[3] = i1
  BY <1>1 DEF Mirror!Place, Mirror!sandbox_dir
<1>3. QED
  BY <1>2

LEMMA InitHolds == ASSUME Mirror!Init PROVE MirrorInv
<1>1. MaxChanges \in Nat
  BY PreparationAssumption DEF Mirror!BoundsAssumption
<1>2. Mirror!Idle \in Record
  BY <1>1, PlanIs DEF Record, Mirror!Idle, Mirror!Steps
<1>3. Mirror!Absent \in Mirror!Contents
  BY DEF Mirror!Absent, Mirror!Made, Mirror!Contents
<1>4. host \in [Mirror!Sources -> 0..MaxChanges + 1]
  BY <1>1 DEF Mirror!Init
<1>5. \A h \in Agents, i \in Mirror!Items : Mirror!Place(h, i) \in Mirror!Places
  BY DEF Mirror!Places
<1>6. \A l \in Procs : launch[l] = Mirror!Idle
  BY DEF Mirror!Init
<1>7. \A l \in Procs : LaunchOK(l) /\ ~Mirror!Busy(l)
  BY <1>2, <1>6 DEF LaunchOK, Mirror!Idle, Mirror!Busy
<1>8. MirrorTyped
  BY <1>1, <1>2, <1>3, <1>4, <1>5, <1>7 DEF MirrorTyped, Mirror!Init, IsOwn
<1>9. QED
  BY <1>7, <1>8 DEF MirrorInv, Alone, Calm

------------------------------------------------------------------------------
LEMMA ItemsAre ==
  /\ \A n \in 1..Len(Mirror!Plan) : Mirror!Plan[n] \in Mirror!Mirrors
  /\ Mirror!Mirrors \subseteq Mirror!Items /\ "etc" \in Mirror!Items /\ "guide" \in Mirror!Items
  /\ \A h \in Agents, i \in Mirror!Items : Mirror!Place(h, i) \in Mirror!Places
  /\ \A h \in Agents, i \in Mirror!Mirrors \cup {"etc"} : Mirror!Source(h, i) \in Mirror!Sources
BY PlanIs DEF Mirror!Items, Mirror!Places, Mirror!Sources

LEMMA DoneIsOfThePlan ==
  ASSUME NEW k \in Procs, LaunchOK(k), NEW n \in Done(k)
  PROVE  n \in 1..Len(Mirror!Plan)
BY PlanIs DEF LaunchOK, Record, Done

LEMMA Absence ==
  /\ \A h, v : Mirror!Copy(h, v) # Mirror!Absent
  /\ \A h, l : Mirror!GuideOf(h, l) # Mirror!Absent
  /\ \A h : Mirror!Link(h) # Mirror!Absent
<1>1. \A h, v : Mirror!Copy(h, v).of[1] = "version"
  BY DEF Mirror!Copy, Mirror!Made
<1>2. \A h, l : Mirror!GuideOf(h, l).of[1] = "guide"
  BY DEF Mirror!GuideOf, Mirror!Made
<1>3. \A h : Mirror!Link(h).of[1] = "link"
  BY DEF Mirror!Link, Mirror!Made
<1>4. Mirror!Absent.of[1] = "nothing"
  BY DEF Mirror!Absent, Mirror!Made
<1>5. QED
  BY <1>1, <1>2, <1>3, <1>4

LEMMA OwnGuideIs ==
  ASSUME NEW l, NEW h, h = launch[l].harness
  PROVE  Mirror!OwnGuide(l) = {Mirror!GuideOf(h, l)} \cup {Mirror!Link(g) : g \in InState \cap {h}}
BY DEF Mirror!OwnGuide, Mirror!Guide, Mirror!H

\* What was done of an item stays done while the item stays as it is.
LEMMA MirroredStays ==
  ASSUME NEW k \in Procs, NEW i, Mirrored(k, i),
         launch'[k].harness = launch[k].harness, launch[k].kept \subseteq launch'[k].kept,
         Version(launch[k].harness, i)' = Version(launch[k].harness, i),
         mirror'[Mirror!Place(launch[k].harness, i)] = mirror[Mirror!Place(launch[k].harness, i)]
  PROVE  Mirrored(k, i)'
<1> DEFINE h == launch[k].harness
<1>1. host'[Mirror!Source(h, i)] = host[Mirror!Source(h, i)]
  BY DEF Version, Mirror!Source
<1>2. Mirror!Missed(k, i) => Mirror!Missed(k, i)'
  BY <1>1 DEF Mirror!Missed, Mirror!Here, Mirror!H, Mirror!Place, Mirror!Source
<1>3. Exact(h, i) => Exact(launch[k].harness, i)'
  BY DEF Exact, Version, Mirror!Place, Mirror!Copy, Mirror!Absent
<1>4. QED
  BY <1>2, <1>3 DEF Mirrored

\* What nobody touches stays as it is.
LEMMA WholeKept ==
  ASSUME NEW k \in Procs, LaunchOK(k), launch[k].harness \in Agents, Whole(k),
         launch'[k] = launch[k],
         \A i \in Mirror!Mirrors \cup {"etc"} :
           Version(launch[k].harness, i)' = Version(launch[k].harness, i),
         \A i \in Mirror!Items :
           mirror'[Mirror!Place(launch[k].harness, i)] = mirror[Mirror!Place(launch[k].harness, i)]
  PROVE  Whole(k)'
<1> DEFINE h == launch[k].harness
           item == Mirror!Plan[launch[k].at]
<1>1. Done(k)' = Done(k) /\ \A n \in Done(k) : Mirror!Plan[n] \in Mirror!Mirrors
  BY DoneIsOfThePlan, ItemsAre DEF Done
<1>2. \A n \in Done(k)' : Mirrored(k, Mirror!Plan[n])'
  BY <1>1, ItemsAre, MirroredStays DEF Whole
<1>3. launch[k].step \in {"cp", "copying"} => item \in Mirror!Mirrors
  BY ItemsAre DEF LaunchOK
<1>4. launch[k].step = "create" => Mirror!Mountable(k)' = Mirror!Mountable(k)
  BY ItemsAre DEF Mirror!Mountable, Mirror!Here, Mirror!H
<1>5. Mirror!OwnGuide(k)' = Mirror!OwnGuide(k)
  BY DEF Mirror!OwnGuide, Mirror!Guide, Mirror!GuideOf, Mirror!Link, Mirror!Made, Mirror!H
<1>6. QED
  BY <1>2, <1>3, <1>4, <1>5, ItemsAre DEF Whole, Unremoved, Configured, Guided, Mirror!Place

\* Of the launches of other processes, only the mounts of a running agent can change.
Aside(k) ==
  \/ launch'[k] = launch[k]
  \/ /\ launch[k].step = "running"
     /\ \E binds \in SUBSET Mirror!Items : launch'[k] = [launch[k] EXCEPT !.binds = binds]

LEMMA KeptIs ==
  ASSUME NEW k \in Procs, LaunchOK(k), Aside(k)
  PROVE  /\ LaunchOK(k)' /\ launch'[k].harness = launch[k].harness
         /\ launch'[k].disturbed = launch[k].disturbed /\ launch'[k].warned = launch[k].warned
         /\ Mirror!Busy(k)' = Mirror!Busy(k)
         /\ Mirror!Busy(k) => launch'[k] = launch[k]
<1>1. CASE launch'[k] = launch[k]
  BY <1>1 DEF LaunchOK, Mirror!Busy
<1>2. CASE launch[k].step = "running"
  <2>1. launch[k] \in Record
    BY DEF LaunchOK
  <2>2. PICK binds \in SUBSET Mirror!Items :
          launch'[k] = launch[k] \/ launch'[k] = [launch[k] EXCEPT !.binds = binds]
    BY <1>1, <1>2 DEF Aside
  <2>3. /\ launch'[k] \in Record /\ launch'[k].step = launch[k].step
        /\ launch'[k].harness = launch[k].harness
        /\ launch'[k].disturbed = launch[k].disturbed /\ launch'[k].warned = launch[k].warned
        /\ launch'[k].found = launch[k].found
    BY <2>1, <2>2 DEF Record
  <2>4. QED
    BY <1>2, <2>3 DEF LaunchOK, Mirror!Busy
<1>3. QED
  BY <1>1, <1>2 DEF Aside

\* A launch at work goes a step: it changes at most one place of its own harness.
LEMMA Advances ==
  ASSUME MirrorInv, NEW l \in Procs, Mirror!Busy(l) \/ launch[l].step = "running", UNCHANGED <<host, changes>>,
         launch' \in [Procs -> Record], \A k \in Procs : k # l => Aside(k),
         LaunchOK(l)',
         Mirror!Busy(l)' => /\ Mirror!Busy(l) /\ launch'[l].harness = launch[l].harness
                            /\ launch'[l].disturbed = launch[l].disturbed,
         \/ mirror' = mirror
         \/ /\ Mirror!Busy(l)
            /\ \E i \in Mirror!Items, what \in Mirror!Contents :
                 IsOwn(launch[l].harness, what) /\ Mirror!Puts(l, i, what),
         Calm(l)' => Whole(l)'
  PROVE  MirrorInv'
<1> DEFINE h == launch[l].harness
<1>1. /\ \A k \in Procs : LaunchOK(k) /\ h \in Agents
      /\ mirror \in [Mirror!Places -> Mirror!Contents]
      /\ \A g \in Agents, i \in Mirror!Items : IsOwn(g, mirror[Mirror!Place(g, i)])
  BY DEF MirrorInv, MirrorTyped, LaunchOK, Mirror!Busy
<1>2. /\ mirror' \in [Mirror!Places -> Mirror!Contents]
      /\ \A g \in Agents, i \in Mirror!Items : IsOwn(g, mirror'[Mirror!Place(g, i)])
      /\ \A g \in Agents, i \in Mirror!Items : g # h => mirror'[Mirror!Place(g, i)] = mirror[Mirror!Place(g, i)]
  <2>1. CASE mirror' = mirror
    BY <1>1, <2>1
  <2>2. ASSUME NEW i \in Mirror!Items, NEW what \in Mirror!Contents, IsOwn(h, what), Mirror!Puts(l, i, what)
        PROVE <1>2!1 /\ <1>2!2 /\ <1>2!3
    <3>1. mirror' = [mirror EXCEPT ![Mirror!Place(h, i)] = what]
      BY <2>2 DEF Mirror!Puts, Mirror!H
    <3>2. \A g \in Agents, j \in Mirror!Items :
            mirror'[Mirror!Place(g, j)] = IF g = h /\ j = i THEN what ELSE mirror[Mirror!Place(g, j)]
      BY <1>1, <3>1, ItemsAre, PlacesDiffer
    <3>3. mirror' \in [Mirror!Places -> Mirror!Contents]
      BY <1>1, <3>1
    <3>4. QED
      BY <1>1, <2>2, <3>2, <3>3
  <2>3. QED
    BY <2>1, <2>2
<1>3. \A k \in Procs : k # l =>
        /\ LaunchOK(k)' /\ launch'[k].harness = launch[k].harness
        /\ launch'[k].disturbed = launch[k].disturbed /\ launch'[k].warned = launch[k].warned
        /\ Mirror!Busy(k)' = Mirror!Busy(k)
        /\ Mirror!Busy(k) => launch'[k] = launch[k]
  BY <1>1, KeptIs
<1>4. MirrorTyped'
  BY <1>2, <1>3 DEF MirrorInv, MirrorTyped
<1>5. Alone'
  BY <1>3 DEF MirrorInv, Alone
<1>6. ASSUME NEW k \in Procs, Calm(k)' PROVE Whole(k)'
  <2>1. CASE k = l
    BY <1>6, <2>1
  <2>2. CASE k # l
    <3>1. Calm(k) /\ launch'[k] = launch[k]
      BY <1>3, <1>6, <2>2 DEF Calm
    <3>2. mirror' = mirror \/ launch[k].harness # h
      BY <2>2, <3>1 DEF MirrorInv, Alone, Calm
    <3>3. launch[k].harness \in Agents
      BY <1>1, <3>1 DEF LaunchOK, Calm, Mirror!Busy
    <3>4. \A i \in Mirror!Items :
            mirror'[Mirror!Place(launch[k].harness, i)] = mirror[Mirror!Place(launch[k].harness, i)]
      BY <1>2, <3>2, <3>3
    <3>5. \A i \in Mirror!Mirrors \cup {"etc"} :
            Version(launch[k].harness, i)' = Version(launch[k].harness, i)
      BY <3>1 DEF Version
    <3>6. Whole(k)
      BY <3>1 DEF MirrorInv
    <3>7. QED
      BY <1>1, <3>1, <3>3, <3>4, <3>5, <3>6, WholeKept
  <2>3. QED
    BY <2>1, <2>2
<1>7. QED
  BY <1>4, <1>5, <1>6 DEF MirrorInv

------------------------------------------------------------------------------
LEMMA BusyIs ==
  ASSUME MirrorInv, NEW l \in Procs, Mirror!Busy(l)
  PROVE  /\ LaunchOK(l) /\ launch[l] \in Record /\ launch[l].harness \in Agents
         /\ launch[l].disturbed \in BOOLEAN /\ launch[l].warned \in BOOLEAN
         /\ launch \in [Procs -> Record]
         /\ mirror \in [Mirror!Places -> Mirror!Contents]
         /\ \A i \in Mirror!Mirrors \cup {"etc"} : Version(launch[l].harness, i) \in 0..MaxChanges + 1
         /\ Calm(l) => Whole(l)
BY ItemsAre DEF MirrorInv, MirrorTyped, LaunchOK, Mirror!Busy, Record, Version

LEMMA GoesIs ==
  ASSUME MirrorInv, NEW l \in Procs, NEW r \in Record, Mirror!Goes(l, r)
  PROVE  launch' \in [Procs -> Record] /\ launch'[l] = r /\ \A k \in Procs : k # l => Aside(k)
<1>1. launch \in [Procs -> Record]
  BY DEF MirrorInv, MirrorTyped
<1>2. launch' = [launch EXCEPT ![l] = r]
  BY DEF Mirror!Goes
<1>3. QED
  BY <1>1, <1>2 DEF Aside

LEMMA UnboundIs ==
  ASSUME MirrorInv, NEW l \in Procs, NEW r \in Record, NEW h, NEW i,
         launch' = [Mirror!Unbound(h, i) EXCEPT ![l] = r]
  PROVE  launch' \in [Procs -> Record] /\ launch'[l] = r /\ \A k \in Procs : k # l => Aside(k)
<1>1. launch \in [Procs -> Record]
  BY DEF MirrorInv, MirrorTyped
<1>2. \A k \in Procs : Mirror!Unbound(h, i)[k] =
        IF launch[k].step = "running" /\ Mirror!Place(launch[k].harness, i) = Mirror!Place(h, i)
        THEN [launch[k] EXCEPT !.binds = @ \ {i}] ELSE launch[k]
  BY DEF Mirror!Unbound, Mirror!At, Mirror!H
<1>3. \A k \in Procs : k # l => launch'[k] = Mirror!Unbound(h, i)[k]
  BY DEF Mirror!Unbound
<1>4. ASSUME NEW k \in Procs, k # l PROVE Aside(k) /\ launch'[k] \in Record
  <2>1. launch[k] \in Record /\ launch[k].binds \ {i} \in SUBSET Mirror!Items
    BY <1>1 DEF Record
  <2>2. launch'[k] = launch[k] \/ (launch[k].step = "running" /\ launch'[k] = [launch[k] EXCEPT !.binds = launch[k].binds \ {i}])
    BY <1>2, <1>3, <1>4
  <2>3. Aside(k)
    BY <2>1, <2>2 DEF Aside
  <2>4. [launch[k] EXCEPT !.binds = launch[k].binds \ {i}] \in Record
    BY <2>1 DEF Record
  <2>5. QED
    BY <2>1, <2>2, <2>3, <2>4
<1>5. launch'[l] = r /\ launch' = [k \in Procs |-> launch'[k]]
  BY DEF Mirror!Unbound
<1>6. QED
  BY <1>4, <1>5

\* A place of the launch's own harness changes, and no other.
LEMMA PutsIs ==
  ASSUME mirror \in [Mirror!Places -> Mirror!Contents], NEW l \in Procs, launch[l].harness \in Agents,
         NEW i \in Mirror!Items, NEW what, Mirror!Puts(l, i, what)
  PROVE  \A j \in Mirror!Items : mirror'[Mirror!Place(launch[l].harness, j)] =
           IF j = i THEN what ELSE mirror[Mirror!Place(launch[l].harness, j)]
<1>1. mirror' = [mirror EXCEPT ![Mirror!Place(launch[l].harness, i)] = what]
  BY DEF Mirror!Puts, Mirror!H
<1>2. QED
  BY <1>1, ItemsAre, PlacesDiffer

\* What was done of the plan stays done when another item changes.
LEMMA StaysDone ==
  ASSUME MirrorInv, NEW l \in Procs, Calm(l), UNCHANGED host, launch'[l].harness = launch[l].harness,
         launch[l].kept \subseteq launch'[l].kept,
         NEW i \in Mirror!Items, \A n \in Done(l) : Mirror!Plan[n] # i,
         mirror' = mirror \/ \E what : Mirror!Puts(l, i, what)
  PROVE  \A n \in Done(l) : Mirrored(l, Mirror!Plan[n])'
<1>1. LaunchOK(l) /\ launch[l].harness \in Agents /\ Whole(l) /\ mirror \in [Mirror!Places -> Mirror!Contents]
  BY BusyIs DEF Calm
<1> SUFFICES ASSUME NEW n \in Done(l) PROVE Mirrored(l, Mirror!Plan[n])'
  OBVIOUS
<1>2. Mirror!Plan[n] \in Mirror!Items /\ Mirror!Plan[n] # i
  BY <1>1, DoneIsOfThePlan, ItemsAre
<1>3. mirror'[Mirror!Place(launch[l].harness, Mirror!Plan[n])] = mirror[Mirror!Place(launch[l].harness, Mirror!Plan[n])]
  BY <1>1, <1>2, PutsIs
<1>4. Mirrored(l, Mirror!Plan[n])
  BY <1>1 DEF Whole
<1>5. Version(launch[l].harness, Mirror!Plan[n])' = Version(launch[l].harness, Mirror!Plan[n])
  BY DEF Version
<1>6. QED
  BY <1>3, <1>4, <1>5, MirroredStays

LEMMA FollowingIs ==
  ASSUME NEW q \in Record, q.at \in 1..Len(Mirror!Plan), NEW r, r = Mirror!Following(q)
  PROVE  /\ r \in Record /\ r.harness = q.harness /\ r.disturbed = q.disturbed /\ r.warned = q.warned
         /\ ~r.nested /\ r.kept = q.kept
         /\ \/ q.at = Len(Mirror!Plan) /\ r.step = "system"
            \/ q.at < Len(Mirror!Plan) /\ r.step = "sync" /\ r.at = q.at + 1
<1>1. CASE q.at = Len(Mirror!Plan)
  <2>1. r = [q EXCEPT !.step = "system", !.at = 0, !.nested = FALSE, !.copy = 0]
    BY <1>1 DEF Mirror!Following
  <2>2. 0 \in 0..Len(Mirror!Plan) /\ 0 \in 0..MaxChanges + 1
    BY PlanIs, PreparationAssumption DEF Mirror!BoundsAssumption
  <2>3. QED
    BY <1>1, <2>1, <2>2 DEF Record, Mirror!Steps
<1>2. CASE q.at # Len(Mirror!Plan)
  <2>1. r = [q EXCEPT !.step = "sync", !.at = q.at + 1, !.nested = FALSE, !.copy = 0]
    BY <1>2 DEF Mirror!Following
  <2>2. q.at + 1 \in 0..Len(Mirror!Plan) /\ q.at < Len(Mirror!Plan) /\ 0 \in 0..MaxChanges + 1
    BY <1>2, PlanIs, PreparationAssumption DEF Mirror!BoundsAssumption
  <2>3. QED
    BY <2>1, <2>2 DEF Record, Mirror!Steps
<1>3. QED
  BY <1>1, <1>2

\* An item is done, and the launch goes on to the next.
LEMMA Follows ==
  ASSUME MirrorInv, NEW l \in Procs, NEW h, h = launch[l].harness, NEW item, item = Mirror!Plan[launch[l].at],
         launch[l].step \in {"sync", "cp", "copying"}, UNCHANGED <<host, changes>>,
         NEW r \in Record, r.harness = h, r.disturbed = launch[l].disturbed, launch[l].warned => r.warned,
         ~r.nested, launch[l].kept \subseteq r.kept,
         \/ launch[l].at = Len(Mirror!Plan) /\ r.step = "system"
         \/ launch[l].at < Len(Mirror!Plan) /\ r.step = "sync" /\ r.at = launch[l].at + 1,
         launch' \in [Procs -> Record], launch'[l] = r, \A k \in Procs : k # l => Aside(k),
         \/ mirror' = mirror
         \/ \E what \in Mirror!Contents :
              IsOwn(h, what) /\ Mirror!Puts(l, item, what),
         Calm(l) /\ ~r.warned => Mirrored(l, item)'
  PROVE  MirrorInv'
<1>1. Mirror!Busy(l) /\ LaunchOK(l) /\ launch[l] \in Record /\ h \in Agents
      /\ launch[l].at \in 1..Len(Mirror!Plan) /\ item \in Mirror!Items
  BY BusyIs, ItemsAre DEF Mirror!Busy, LaunchOK
<1>2. /\ launch'[l] \in Record /\ launch'[l].harness = h /\ launch'[l].disturbed = launch[l].disturbed
      /\ launch'[l].warned = r.warned /\ ~launch'[l].nested /\ launch[l].kept \subseteq launch'[l].kept
      /\ \/ launch[l].at = Len(Mirror!Plan) /\ launch'[l].step = "system"
         \/ launch[l].at < Len(Mirror!Plan) /\ launch'[l].step = "sync" /\ launch'[l].at = launch[l].at + 1
  OBVIOUS
<1>3. LaunchOK(l)'
  BY <1>1, <1>2, PlanIs DEF LaunchOK
<1>4. ASSUME Calm(l)' PROVE Whole(l)'
  <2>1. Calm(l) /\ ~r.warned
    BY <1>1, <1>2, <1>4 DEF Calm
  <2>2. Done(l)' = 1..launch[l].at /\ Done(l) = 1..launch[l].at - 1
    BY <1>1, <1>2, PlanIs DEF Done
  <2>3. \A n \in Done(l) : Mirror!Plan[n] # item
    <3> SUFFICES ASSUME NEW n \in 1..launch[l].at - 1 PROVE Mirror!Plan[n] # item
      BY <2>2
    <3>1. n \in 1..Len(Mirror!Plan) /\ n # launch[l].at
      BY <1>1, PlanIs
    <3>2. QED
      BY <1>1, <3>1, PlanIs
  <2>4. \A n \in Done(l) : Mirrored(l, Mirror!Plan[n])'
    BY <1>1, <1>2, <2>1, <2>3, StaysDone
  <2>5. \A n \in 1..launch[l].at : n \in 1..launch[l].at - 1 \/ n = launch[l].at
    BY <1>1, PlanIs
  <2>6. \A n \in Done(l)' : Mirrored(l, Mirror!Plan[n])'
    BY <2>1, <2>2, <2>4, <2>5
  <2>7. launch'[l].step \in {"system", "sync"}
    BY <1>2
  <2>8. QED
    BY <1>2, <2>6, <2>7 DEF Whole, Configured, Guided
<1>5. QED
  BY <1>1, <1>2, <1>3, <1>4, Advances

------------------------------------------------------------------------------
(* The steps of a launch.                                                  *)

LEMMA ContentsAre ==
  /\ Mirror!Absent \in Mirror!Contents
  /\ \A h \in Agents : /\ Mirror!Torn(h) \in Mirror!Contents /\ IsOwn(h, Mirror!Torn(h))
                       /\ Mirror!Link(h) \in Mirror!Contents /\ IsOwn(h, Mirror!Link(h))
                       /\ IsOwn(h, Mirror!Absent)
  /\ \A h \in Agents, v \in 0..MaxChanges + 1 : Mirror!Copy(h, v) \in Mirror!Contents /\ IsOwn(h, Mirror!Copy(h, v))
  /\ \A h \in Agents, l \in Procs : Mirror!GuideOf(h, l) \in Mirror!Contents /\ IsOwn(h, Mirror!GuideOf(h, l))
BY DEF Mirror!Contents, Mirror!Absent, Mirror!Torn, Mirror!Copy, Mirror!GuideOf, Mirror!Link, Mirror!Made, IsOwn

LEMMA AlikeIs ==
  ASSUME NEW h \in Agents, NEW what \in Mirror!Contents, what.by = h, NEW b \in BOOLEAN
  PROVE  /\ Mirror!Alike(what, b) \in Mirror!Contents /\ IsOwn(h, Mirror!Alike(what, b))
         /\ Mirror!Alike(what, b).alike = b
BY DEF Mirror!Alike, Mirror!Contents, IsOwn

LEMMA BegunIs ==
  ASSUME NEW l \in Procs, NEW h \in Agents, h = launch[l].harness, NEW item, item = Mirror!Plan[launch[l].at],
         mirror[Mirror!Place(h, item)] \in Mirror!Contents
  PROVE  /\ Mirror!Begun(l) \in Mirror!Contents /\ IsOwn(h, Mirror!Begun(l))
         /\ Mirror!Begun(l).alike = mirror[Mirror!Place(h, item)].alike
<1>1. Mirror!Begun(l) = Mirror!Alike(Mirror!Torn(h), mirror[Mirror!Place(h, item)].alike)
  BY DEF Mirror!Begun, Mirror!H, Mirror!Here, Mirror!Item
<1>2. mirror[Mirror!Place(h, item)].alike \in BOOLEAN
  BY DEF Mirror!Contents
<1>3. Mirror!Torn(h) \in Mirror!Contents /\ Mirror!Torn(h).by = h
  BY ContentsAre DEF Mirror!Torn, Mirror!Made
<1>4. QED
  BY <1>1, <1>2, <1>3, AlikeIs

LEMMA ItIsThere ==
  ASSUME MirrorInv, NEW l \in Procs, launch[l].step \in {"sync", "cp", "copying"},
         NEW h, h = launch[l].harness, NEW item, item = Mirror!Plan[launch[l].at]
  PROVE  /\ h \in Agents /\ item \in Mirror!Mirrors /\ item \in Mirror!Items
         /\ mirror \in [Mirror!Places -> Mirror!Contents]
         /\ mirror[Mirror!Place(h, item)] \in Mirror!Contents /\ IsOwn(h, mirror[Mirror!Place(h, item)])
         /\ Mirror!Begun(l) \in Mirror!Contents /\ IsOwn(h, Mirror!Begun(l))
<1>1. Mirror!Busy(l)
  BY DEF Mirror!Busy
<1>2. LaunchOK(l) /\ h \in Agents /\ mirror \in [Mirror!Places -> Mirror!Contents]
  BY <1>1, BusyIs
<1>3. item \in Mirror!Mirrors /\ item \in Mirror!Items
  BY <1>2, ItemsAre DEF LaunchOK
<1>4. mirror[Mirror!Place(h, item)] \in Mirror!Contents /\ IsOwn(h, mirror[Mirror!Place(h, item)])
  BY <1>2, <1>3, ItemsAre DEF MirrorInv, MirrorTyped
<1>5. QED
  BY <1>2, <1>3, <1>4, BegunIs

\* A removal that succeeds leaves nothing; one that fails is remembered.
LEMMA RemovesIs ==
  ASSUME MirrorInv, NEW l \in Procs, launch[l].step \in {"sync", "cp", "copying"},
         NEW h, h = launch[l].harness, NEW item, item = Mirror!Plan[launch[l].at],
         NEW r \in Record, Mirror!Removes(l, r)
  PROVE  \E q \in Record, what \in Mirror!Contents :
           /\ IsOwn(h, what) /\ Mirror!Puts(l, item, what)
           /\ \/ q = r /\ what = Mirror!Absent
              \/ q = [r EXCEPT !.kept = r.kept \cup {item}]
           /\ launch' \in [Procs -> Record] /\ launch'[l] = q /\ \A k \in Procs : k # l => Aside(k)
<1>1. /\ h \in Agents /\ item \in Mirror!Mirrors /\ item \in Mirror!Items
      /\ mirror \in [Mirror!Places -> Mirror!Contents]
  BY ItIsThere
<1>2. /\ mirror[Mirror!Place(h, item)] \in Mirror!Contents /\ IsOwn(h, mirror[Mirror!Place(h, item)])
      /\ Mirror!Begun(l) \in Mirror!Contents /\ IsOwn(h, Mirror!Begun(l))
  BY ItIsThere
<1>3. CASE Mirror!Puts(l, item, Mirror!Absent) /\ launch' = [Mirror!Unbound(h, item) EXCEPT ![l] = r]
  <2>1. launch' \in [Procs -> Record] /\ launch'[l] = r /\ \A k \in Procs : k # l => Aside(k)
    BY <1>3, UnboundIs
  <2>2. Mirror!Absent \in Mirror!Contents /\ IsOwn(h, Mirror!Absent)
    BY <1>1, ContentsAre
  <2>3. QED
    BY <1>3, <2>1, <2>2
<1>4. ASSUME UNCHANGED mirror \/ Mirror!Puts(l, item, Mirror!Begun(l)),
             Mirror!Goes(l, [r EXCEPT !.kept = r.kept \cup {item}])
      PROVE  \E q \in Record, what \in Mirror!Contents :
               /\ IsOwn(h, what) /\ Mirror!Puts(l, item, what)
               /\ q = [r EXCEPT !.kept = r.kept \cup {item}]
               /\ launch' \in [Procs -> Record] /\ launch'[l] = q /\ \A k \in Procs : k # l => Aside(k)
  <2>1. PICK q : q = [r EXCEPT !.kept = r.kept \cup {item}]
    OBVIOUS
  <2>2. q \in Record
    BY <1>1, <2>1 DEF Record
  <2>3. launch' \in [Procs -> Record] /\ launch'[l] = q /\ \A k \in Procs : k # l => Aside(k)
    BY <1>4, <2>1, <2>2, GoesIs
  <2>4. PICK what \in Mirror!Contents : IsOwn(h, what) /\ Mirror!Puts(l, item, what)
    <3>1. CASE UNCHANGED mirror
      <4>1. mirror' = [mirror EXCEPT ![Mirror!Place(h, item)] = mirror[Mirror!Place(h, item)]]
        BY <1>1, <3>1
      <4>2. Mirror!Puts(l, item, mirror[Mirror!Place(h, item)])
        BY <4>1 DEF Mirror!Puts, Mirror!H
      <4>3. QED
        BY <1>2, <4>2
    <3>2. CASE Mirror!Puts(l, item, Mirror!Begun(l))
      BY <1>2, <3>2
    <3>3. QED
      BY <1>4, <3>1, <3>2
  <2>5. QED
    BY <2>1, <2>2, <2>3, <2>4
<1>5. \/ Mirror!Puts(l, item, Mirror!Absent) /\ launch' = [Mirror!Unbound(h, item) EXCEPT ![l] = r]
      \/ /\ UNCHANGED mirror \/ Mirror!Puts(l, item, Mirror!Begun(l))
         /\ Mirror!Goes(l, [r EXCEPT !.kept = r.kept \cup {item}])
  BY DEF Mirror!Removes, Mirror!Item, Mirror!H
<1>6. QED
  BY <1>3, <1>4, <1>5

LEMMA DropsMirrorKeeps ==
  ASSUME MirrorInv, NEW l \in Procs, Mirror!DropsMirror(l)
  PROVE  MirrorInv'
<1>1. PICK h, item : h = launch[l].harness /\ item = Mirror!Plan[launch[l].at]
  OBVIOUS
<1>2. PICK r : r = Mirror!Following(launch[l])
  OBVIOUS
<1>3. /\ launch[l].step = "sync" /\ Version(h, item) = 0
      /\ Mirror!Removes(l, r) /\ UNCHANGED <<host, changes>>
  BY <1>1, <1>2 DEF Mirror!DropsMirror, Mirror!At, Mirror!H, Mirror!Item, Version
<1>4. Mirror!Busy(l) /\ launch[l].at \in 1..Len(Mirror!Plan) /\ h \in Agents /\ item \in Mirror!Items
      /\ launch[l] \in Record /\ mirror \in [Mirror!Places -> Mirror!Contents]
  BY <1>1, <1>3, BusyIs, ItemsAre DEF Mirror!Busy, LaunchOK
<1>5. /\ r \in Record /\ r.harness = h /\ r.disturbed = launch[l].disturbed /\ r.warned = launch[l].warned
      /\ ~r.nested /\ r.kept = launch[l].kept
      /\ \/ launch[l].at = Len(Mirror!Plan) /\ r.step = "system"
         \/ launch[l].at < Len(Mirror!Plan) /\ r.step = "sync" /\ r.at = launch[l].at + 1
  BY <1>1, <1>2, <1>4, FollowingIs
<1>6. PICK q \in Record, what \in Mirror!Contents :
        /\ IsOwn(h, what) /\ Mirror!Puts(l, item, what)
        /\ \/ q = r /\ what = Mirror!Absent
           \/ q = [r EXCEPT !.kept = r.kept \cup {item}]
        /\ launch' \in [Procs -> Record] /\ launch'[l] = q /\ \A k \in Procs : k # l => Aside(k)
  BY <1>1, <1>3, <1>5, RemovesIs
<1>7. /\ q.harness = r.harness /\ q.disturbed = r.disturbed /\ q.warned = r.warned /\ q.nested = r.nested
      /\ q.step = r.step /\ q.at = r.at /\ r.kept \subseteq q.kept
      /\ what # Mirror!Absent => item \in q.kept
  BY <1>5, <1>6 DEF Record
<1>8. Mirrored(l, item)'
  <2>1. mirror'[Mirror!Place(h, item)] = what
    BY <1>1, <1>4, <1>6, PutsIs
  <2>2. Version(h, item)' = 0 /\ launch'[l].harness = h
    BY <1>3, <1>5, <1>6, <1>7 DEF Version
  <2>3. CASE what = Mirror!Absent
    <3>1. Exact(h, item)'
      BY <2>1, <2>2, <2>3 DEF Exact, Mirror!Absent, Mirror!Place
    <3>2. QED
      BY <2>2, <3>1 DEF Mirrored
  <2>4. CASE what # Mirror!Absent
    <3>1. Mirror!Missed(l, item)'
      BY <1>6, <1>7, <2>2, <2>4 DEF Mirror!Missed, Version, Mirror!H
    <3>2. QED
      BY <3>1 DEF Mirrored
  <2>5. QED
    BY <2>3, <2>4
<1>9. QED
  BY <1>1, <1>3, <1>4, <1>5, <1>6, <1>7, <1>8, Follows

LEMMA CopiedKeeps ==
  ASSUME MirrorInv, NEW l \in Procs, Mirror!Copied(l)
  PROVE  MirrorInv'
<1>1. PICK h, item : h = launch[l].harness /\ item = Mirror!Plan[launch[l].at]
  OBVIOUS
<1>2. PICK old : old = mirror[Mirror!Place(h, item)]
  OBVIOUS
<1>3. PICK what : what = IF launch[l].nested \/ old.alike THEN Mirror!Begun(l) ELSE Mirror!Copy(h, launch[l].copy)
  OBVIOUS
<1>4. PICK r : r = Mirror!Following(launch[l])
  OBVIOUS
<1>5. /\ launch[l].step = "copying"
      /\ Mirror!Puts(l, item, what)
      /\ Mirror!Goes(l, r)
      /\ UNCHANGED <<host, changes>>
  BY <1>1, <1>2, <1>3, <1>4 DEF Mirror!Copied, Mirror!At, Mirror!H, Mirror!Item, Mirror!Here
<1>6. Mirror!Busy(l) /\ launch[l].at \in 1..Len(Mirror!Plan) /\ h \in Agents /\ item \in Mirror!Items
      /\ launch[l] \in Record /\ mirror \in [Mirror!Places -> Mirror!Contents]
      /\ (Calm(l) => Whole(l))
  BY <1>1, <1>5, BusyIs, ItemsAre DEF Mirror!Busy, LaunchOK
<1>7. /\ r \in Record /\ r.harness = h /\ r.disturbed = launch[l].disturbed /\ r.warned = launch[l].warned
      /\ ~r.nested /\ r.kept = launch[l].kept
      /\ \/ launch[l].at = Len(Mirror!Plan) /\ r.step = "system"
         \/ launch[l].at < Len(Mirror!Plan) /\ r.step = "sync" /\ r.at = launch[l].at + 1
  BY <1>1, <1>4, <1>6, FollowingIs
<1>8. launch' \in [Procs -> Record] /\ launch'[l] = r /\ \A k \in Procs : k # l => Aside(k)
  BY <1>5, <1>7, GoesIs
<1>9. /\ Mirror!Begun(l) \in Mirror!Contents /\ IsOwn(h, Mirror!Begun(l)) /\ Mirror!Begun(l).alike = old.alike
      /\ old \in Mirror!Contents
  BY <1>1, <1>2, <1>6, ItemsAre, BegunIs
<1>10. what \in Mirror!Contents /\ IsOwn(h, what)
  <2>1. launch[l].copy \in 0..MaxChanges + 1
    BY <1>6 DEF Record
  <2>2. Mirror!Copy(h, launch[l].copy) \in Mirror!Contents /\ IsOwn(h, Mirror!Copy(h, launch[l].copy))
    BY <1>6, <2>1, ContentsAre
  <2>3. QED
    BY <1>3, <1>9, <2>2
<1>11. Calm(l) => Mirrored(l, item)'
  <2> SUFFICES ASSUME Calm(l) PROVE Mirrored(l, item)'
    OBVIOUS
  <2>1. launch[l].copy = Version(h, item) /\ Version(h, item) > 0 /\ (~launch[l].nested \/ Unremoved(l, item))
    BY <1>1, <1>5, <1>6 DEF Whole
  <2>2. Version(h, item)' = Version(h, item) /\ Version(h, item) # 0
    BY <1>5, <2>1 DEF Version
  <2>3. mirror'[Mirror!Place(h, item)] = what
    BY <1>1, <1>5, <1>6, PutsIs
  <2>4. launch'[l].harness = h /\ launch'[l].kept = launch[l].kept
    BY <1>7, <1>8
  <2>5. CASE launch[l].nested
    <3>1. Mirror!Missed(l, item)'
      BY <2>1, <2>4, <2>5 DEF Mirror!Missed, Unremoved
    <3>2. QED
      BY <3>1 DEF Mirrored
  <2>6. CASE old.alike /\ ~launch[l].nested
    <3>1. what.alike = old.alike
      BY <1>3, <1>9, <2>6
    <3>2. Mirror!Here(l, item)' = what
      BY <2>3, <2>4 DEF Mirror!Here, Mirror!H, Mirror!Place
    <3>3. Mirror!Missed(l, item)'
      BY <2>6, <3>1, <3>2 DEF Mirror!Missed
    <3>4. QED
      BY <3>3 DEF Mirrored
  <2>7. CASE ~launch[l].nested /\ ~old.alike
    <3>1. what = Mirror!Copy(h, Version(h, item))
      BY <1>3, <2>1, <2>7
    <3>2. Exact(h, item)'
      BY <2>2, <2>3, <3>1 DEF Exact, Mirror!Copy, Mirror!Made, Mirror!Place
    <3>3. QED
      BY <2>4, <3>2 DEF Mirrored
  <2>8. QED
    BY <2>5, <2>6, <2>7
<1>12. QED
  BY <1>1, <1>5, <1>6, <1>7, <1>8, <1>10, <1>11, Follows

LEMMA CopyFailsKeeps ==
  ASSUME MirrorInv, NEW l \in Procs, Mirror!CopyFails(l)
  PROVE  MirrorInv'
<1>1. PICK q : q = [launch[l] EXCEPT !.warned = TRUE]
  OBVIOUS
<1>2. PICK r : r = Mirror!Following(q)
  OBVIOUS
<1>3. /\ launch[l].step = "copying" /\ Mirror!Goes(l, r)
      /\ UNCHANGED <<host, mirror, changes>>
  BY <1>1, <1>2 DEF Mirror!CopyFails, Mirror!At
<1>4. launch[l].at \in 1..Len(Mirror!Plan) /\ launch[l] \in Record
  BY <1>3, BusyIs DEF Mirror!Busy, LaunchOK
<1>5. /\ q \in Record /\ q.harness = launch[l].harness /\ q.at = launch[l].at
      /\ q.disturbed = launch[l].disturbed /\ q.warned /\ q.kept = launch[l].kept
  BY <1>1, <1>4 DEF Record
<1>6. /\ r \in Record /\ r.harness = launch[l].harness /\ r.disturbed = launch[l].disturbed /\ r.warned
      /\ ~r.nested /\ r.kept = launch[l].kept
      /\ \/ launch[l].at = Len(Mirror!Plan) /\ r.step = "system"
         \/ launch[l].at < Len(Mirror!Plan) /\ r.step = "sync" /\ r.at = launch[l].at + 1
  BY <1>2, <1>4, <1>5, FollowingIs
<1>7. launch' \in [Procs -> Record] /\ launch'[l] = r /\ \A k \in Procs : k # l => Aside(k)
  BY <1>3, <1>6, GoesIs
<1>8. QED
  BY <1>3, <1>6, <1>7, Follows

\* Another step with the same item.
LEMMA StaysAtItem ==
  ASSUME MirrorInv, NEW l \in Procs, launch[l].step \in {"sync", "cp"}, UNCHANGED <<host, changes>>,
         NEW h, h = launch[l].harness, NEW item, item = Mirror!Plan[launch[l].at],
         launch' \in [Procs -> Record], \A k \in Procs : k # l => Aside(k),
         NEW r \in Record, launch'[l] = r, r.step \in {"cp", "copying"}, r.harness = h, r.at = launch[l].at,
         r.disturbed = launch[l].disturbed, r.warned = launch[l].warned, launch[l].kept \subseteq r.kept,
         NEW what \in Mirror!Contents, IsOwn(h, what), Mirror!Puts(l, item, what),
         Calm(l) => /\ r.copy = Version(h, item) /\ r.copy > 0
                    /\ r.step = "cp" => what = Mirror!Absent \/ Unremoved(l, item)'
                    /\ r.step = "copying" => ~r.nested \/ Unremoved(l, item)'
  PROVE  MirrorInv'
<1>1. Mirror!Busy(l) /\ LaunchOK(l) /\ launch[l] \in Record /\ h \in Agents
      /\ launch[l].at \in 1..Len(Mirror!Plan) /\ item \in Mirror!Items
      /\ mirror \in [Mirror!Places -> Mirror!Contents]
  BY BusyIs, ItemsAre DEF Mirror!Busy, LaunchOK
<1>2. LaunchOK(l)'
  BY <1>1 DEF LaunchOK
<1>3. ASSUME Calm(l)' PROVE Whole(l)'
  <2>1. Calm(l)
    BY <1>1, <1>3 DEF Calm
  <2>2. Done(l)' = Done(l) /\ Done(l) = 1..launch[l].at - 1
    BY DEF Done
  <2>3. \A n \in Done(l) : Mirror!Plan[n] # item
    <3> SUFFICES ASSUME NEW n \in 1..launch[l].at - 1 PROVE Mirror!Plan[n] # item
      BY <2>2
    <3>1. n \in 1..Len(Mirror!Plan) /\ n # launch[l].at
      BY <1>1, PlanIs
    <3>2. QED
      BY <1>1, <3>1, PlanIs
  <2>4. \A n \in Done(l) : Mirrored(l, Mirror!Plan[n])'
    BY <1>1, <2>1, <2>3, StaysDone
  <2>5. mirror'[Mirror!Place(h, item)] = what
    BY <1>1, PutsIs
  <2>6. Version(h, item)' = Version(h, item)
    BY DEF Version
  <2>7. QED
    BY <2>1, <2>2, <2>4, <2>5, <2>6 DEF Whole, Configured, Guided, Mirror!Absent, Mirror!Place
<1>4. QED
  BY <1>1, <1>2, <1>3, Advances

LEMMA CopiesKeeps ==
  ASSUME MirrorInv, NEW l \in Procs, Mirror!Copies(l)
  PROVE  MirrorInv'
<1>1. PICK h, item : h = launch[l].harness /\ item = Mirror!Plan[launch[l].at]
  OBVIOUS
<1>2. PICK r : r = [launch[l] EXCEPT !.step = "copying", !.copy = Version(h, item)]
  OBVIOUS
<1>3. /\ launch[l].step = "sync" /\ Version(h, item) > 0
      /\ Mirror!Puts(l, item, Mirror!Begun(l))
      /\ Mirror!Goes(l, r)
      /\ UNCHANGED <<host, changes>>
  BY <1>1, <1>2 DEF Mirror!Copies, Mirror!At, Mirror!H, Mirror!Item, Mirror!To, Version
<1>4. LaunchOK(l) /\ launch[l] \in Record /\ h \in Agents /\ Version(h, item) \in 0..MaxChanges + 1 /\ (Calm(l) => Whole(l))
  BY <1>1, <1>3, BusyIs, ItemsAre DEF Mirror!Busy, LaunchOK
<1>5. /\ r \in Record /\ r.harness = h /\ r.at = launch[l].at /\ r.step = "copying" /\ r.copy = Version(h, item)
      /\ r.disturbed = launch[l].disturbed /\ r.warned = launch[l].warned /\ r.nested = launch[l].nested
      /\ r.kept = launch[l].kept
  BY <1>1, <1>2, <1>4 DEF Record, Mirror!Steps
<1>6. launch' \in [Procs -> Record] /\ launch'[l] = r /\ \A k \in Procs : k # l => Aside(k)
  BY <1>3, <1>5, GoesIs
<1>7. Calm(l) => ~r.nested
  BY <1>3, <1>4, <1>5 DEF Whole
<1>8. Mirror!Begun(l) \in Mirror!Contents /\ IsOwn(h, Mirror!Begun(l))
  BY <1>1, <1>3, ItIsThere
<1>9. QED
  BY <1>1, <1>3, <1>4, <1>5, <1>6, <1>7, <1>8, StaysAtItem

LEMMA RemovesDirKeeps ==
  ASSUME MirrorInv, NEW l \in Procs, Mirror!RemovesDir(l)
  PROVE  MirrorInv'
<1>1. PICK h, item : h = launch[l].harness /\ item = Mirror!Plan[launch[l].at]
  OBVIOUS
<1>2. PICK r : r = [launch[l] EXCEPT !.step = "cp", !.copy = Version(h, item)]
  OBVIOUS
<1>3. /\ launch[l].step = "sync" /\ Version(h, item) > 0 /\ item \in Mirror!ToSet(SyncDirs)
      /\ Mirror!Removes(l, r) /\ UNCHANGED <<host, changes>>
  BY <1>1, <1>2 DEF Mirror!RemovesDir, Mirror!At, Mirror!H, Mirror!Item, Mirror!To, Version
<1>4. LaunchOK(l) /\ launch[l] \in Record /\ h \in Agents /\ Version(h, item) \in 0..MaxChanges + 1
  BY <1>1, <1>3, BusyIs, ItemsAre DEF Mirror!Busy, LaunchOK
<1>5. /\ r \in Record /\ r.harness = h /\ r.at = launch[l].at /\ r.step = "cp" /\ r.copy = Version(h, item)
      /\ r.disturbed = launch[l].disturbed /\ r.warned = launch[l].warned /\ r.kept = launch[l].kept
  BY <1>1, <1>2, <1>4 DEF Record, Mirror!Steps
<1>6. PICK q \in Record, what \in Mirror!Contents :
        /\ IsOwn(h, what) /\ Mirror!Puts(l, item, what)
        /\ \/ q = r /\ what = Mirror!Absent
           \/ q = [r EXCEPT !.kept = r.kept \cup {item}]
        /\ launch' \in [Procs -> Record] /\ launch'[l] = q /\ \A k \in Procs : k # l => Aside(k)
  BY <1>1, <1>3, <1>5, RemovesIs
<1>7. /\ q.harness = h /\ q.at = launch[l].at /\ q.step = "cp" /\ q.copy = Version(h, item)
      /\ q.disturbed = launch[l].disturbed /\ q.warned = launch[l].warned /\ launch[l].kept \subseteq q.kept
      /\ what # Mirror!Absent => item \in q.kept
  BY <1>5, <1>6 DEF Record
<1>8. what = Mirror!Absent \/ Unremoved(l, item)'
  BY <1>3, <1>6, <1>7 DEF Unremoved
<1>9. QED
  BY <1>1, <1>3, <1>6, <1>7, <1>8, StaysAtItem

LEMMA CpKeeps ==
  ASSUME MirrorInv, NEW l \in Procs, Mirror!Cp(l)
  PROVE  MirrorInv'
<1>1. PICK h, item : h = launch[l].harness /\ item = Mirror!Plan[launch[l].at]
  OBVIOUS
<1>2. PICK nested : nested = (mirror[Mirror!Place(h, item)] # Mirror!Absent)
  OBVIOUS
<1>3. PICK r : r = [launch[l] EXCEPT !.step = "copying", !.nested = nested]
  OBVIOUS
<1>4. /\ launch[l].step = "cp"
      /\ Mirror!Puts(l, item, Mirror!Begun(l))
      /\ Mirror!Goes(l, r)
      /\ UNCHANGED <<host, changes>>
  BY <1>1, <1>2, <1>3 DEF Mirror!Cp, Mirror!At, Mirror!H, Mirror!Item, Mirror!To, Mirror!Here
<1>5. LaunchOK(l) /\ launch[l] \in Record /\ h \in Agents /\ (Calm(l) => Whole(l)) /\ nested \in BOOLEAN
  BY <1>1, <1>2, <1>4, BusyIs DEF Mirror!Busy
<1>6. /\ r \in Record /\ r.harness = h /\ r.at = launch[l].at /\ r.step = "copying" /\ r.copy = launch[l].copy
      /\ r.disturbed = launch[l].disturbed /\ r.warned = launch[l].warned /\ r.nested = nested
      /\ r.kept = launch[l].kept
  BY <1>1, <1>3, <1>5 DEF Record, Mirror!Steps
<1>7. launch' \in [Procs -> Record] /\ launch'[l] = r /\ \A k \in Procs : k # l => Aside(k)
  BY <1>4, <1>6, GoesIs
<1>8. Calm(l) => launch[l].copy = Version(h, item) /\ launch[l].copy > 0 /\ (~nested \/ Unremoved(l, item))
  BY <1>1, <1>2, <1>4, <1>5 DEF Whole
<1>9. Unremoved(l, item) => Unremoved(l, item)'
  BY <1>6, <1>7 DEF Unremoved
<1>10. Mirror!Begun(l) \in Mirror!Contents /\ IsOwn(h, Mirror!Begun(l))
  BY <1>1, <1>4, ItIsThere
<1>11. Calm(l) => /\ r.copy = Version(h, item) /\ r.copy > 0
                  /\ r.step = "cp" => Mirror!Begun(l) = Mirror!Absent \/ Unremoved(l, item)'
                  /\ r.step = "copying" => ~r.nested \/ Unremoved(l, item)'
  BY <1>6, <1>8, <1>9
<1>12. launch[l].step \in {"sync", "cp"} /\ r.step \in {"cp", "copying"}
  BY <1>4, <1>6
<1>13. QED
  BY <1>1, <1>4, <1>6, <1>7, <1>10, <1>11, <1>12, StaysAtItem

LEMMA PrepareKeeps ==
  ASSUME MirrorInv, NEW l \in Procs, Mirror!Prepare(l)
  PROVE  MirrorInv'
<1>1. PICK r : r = [launch[l] EXCEPT !.step = "sync", !.at = 1]
  OBVIOUS
<1>2. launch[l].step = "prepare" /\ Mirror!Goes(l, r) /\ UNCHANGED <<host, mirror, changes>>
  BY <1>1 DEF Mirror!Prepare, Mirror!At, Mirror!To
<1>3. Mirror!Busy(l) /\ LaunchOK(l) /\ launch[l] \in Record /\ launch[l].harness \in Agents /\ (Calm(l) => Whole(l))
  BY <1>2, BusyIs DEF Mirror!Busy
<1>4. /\ r \in Record /\ r.harness = launch[l].harness /\ r.at = 1 /\ r.step = "sync" /\ r.nested = launch[l].nested
      /\ r.disturbed = launch[l].disturbed /\ r.warned = launch[l].warned
  <2>1. 1 \in 0..Len(Mirror!Plan)
    BY PlanIs
  <2>2. QED
    BY <1>1, <1>3, <2>1 DEF Record, Mirror!Steps
<1>5. launch' \in [Procs -> Record] /\ launch'[l] = r /\ \A k \in Procs : k # l => Aside(k)
  BY <1>2, <1>4, GoesIs
<1>6. LaunchOK(l)'
  BY <1>3, <1>4, <1>5, PlanIs DEF LaunchOK
<1>7. Done(l)' = {}
  <2>1. launch'[l].step = "sync" /\ launch'[l].at = 1
    BY <1>4, <1>5
  <2>2. Done(l)' = 1..1 - 1
    BY <2>1 DEF Done
  <2>3. QED
    BY <2>2
<1>8. launch'[l].step = "sync" /\ (Calm(l)' => ~launch'[l].nested)
  BY <1>2, <1>3, <1>4, <1>5 DEF Calm, Whole
<1>9. Calm(l)' => Whole(l)'
  BY <1>7, <1>8 DEF Whole, Configured, Guided
<1>10. QED
  BY <1>2, <1>3, <1>4, <1>5, <1>6, <1>9, Advances

\* A launch that has ended claims nothing.
LEMMA EndsKeep ==
  ASSUME MirrorInv, NEW l \in Procs, Mirror!Fails(l) \/ Mirror!Kill(l) \/ Mirror!AgentEnds(l)
  PROVE  MirrorInv'
<1>1. /\ Mirror!Busy(l) \/ launch[l].step = "running"
      /\ Mirror!Goes(l, Mirror!Ended) /\ UNCHANGED <<host, mirror, changes>>
  BY DEF Mirror!Fails, Mirror!Kill, Mirror!AgentEnds, Mirror!At, Mirror!Busy
<1>2. Mirror!Ended \in Record /\ Mirror!Ended.step = "ended"
  <2>1. 0 \in 0..Len(Mirror!Plan) /\ 0 \in 0..MaxChanges + 1
    BY PlanIs, PreparationAssumption DEF Mirror!BoundsAssumption
  <2>2. QED
    BY <2>1 DEF Record, Mirror!Ended, Mirror!Idle, Mirror!Steps
<1>3. launch' \in [Procs -> Record] /\ launch'[l] = Mirror!Ended /\ \A k \in Procs : k # l => Aside(k)
  BY <1>1, <1>2, GoesIs
<1>4. LaunchOK(l)' /\ ~Mirror!Busy(l)'
  BY <1>2, <1>3 DEF LaunchOK, Mirror!Busy
<1>5. QED
  BY <1>1, <1>3, <1>4, Advances DEF Calm

\* A step behind the plan: of the mirror nothing changes any more, but perhaps the system
\* config or the guide.
LEMMA StepsOn ==
  ASSUME MirrorInv, NEW l \in Procs, launch[l].step \in {"system", "etc", "guide", "opened", "args"},
         UNCHANGED <<host, changes>>,
         NEW h, h = launch[l].harness,
         NEW r \in Record, Mirror!Goes(l, r), r.harness = h, r.disturbed = launch[l].disturbed,
         launch[l].warned => r.warned, launch[l].kept \subseteq r.kept,
         r.step \in {"etc", "guide", "opened", "args", "create"},
         NEW i \in {"etc", "guide"}, NEW what \in Mirror!Contents, IsOwn(h, what),
         mirror' = mirror \/ Mirror!Puts(l, i, what),
         Calm(l) /\ ~r.warned =>
           /\ r.step = "etc" => h \in SystemConfig /\ r.copy = Version(h, "etc")
           /\ r.step \in Configured /\ h \in SystemConfig =>
                mirror'[Mirror!Place(h, "etc")] = Mirror!Copy(h, Version(h, "etc"))
           /\ r.step \in Guided => mirror'[Mirror!Place(h, "guide")] \in Mirror!OwnGuide(l)
           /\ r.step = "create" => mirror' = mirror /\ r.binds = Mirror!Mountable(l)
  PROVE  MirrorInv'
<1>1. Mirror!Busy(l) /\ LaunchOK(l) /\ launch[l] \in Record /\ h \in Agents /\ i \in Mirror!Items
      /\ mirror \in [Mirror!Places -> Mirror!Contents]
  BY BusyIs, ItemsAre DEF Mirror!Busy
<1>2. launch' \in [Procs -> Record] /\ launch'[l] = r /\ \A k \in Procs : k # l => Aside(k)
  BY GoesIs
<1>3. LaunchOK(l)'
  BY <1>1, <1>2 DEF LaunchOK
<1>4. ASSUME Calm(l)' PROVE Whole(l)'
  <2>1. Calm(l) /\ ~r.warned
    BY <1>1, <1>2, <1>4 DEF Calm
  <2>2. Done(l)' = Done(l) /\ Done(l) = 1..Len(Mirror!Plan)
    BY <1>2 DEF Done
  <2>3. \A n \in Done(l) : Mirror!Plan[n] # i
    BY <2>2, PlanIs
  <2>4. \A n \in Done(l) : Mirrored(l, Mirror!Plan[n])'
    BY <1>1, <1>2, <2>1, <2>3, StaysDone
  <2>5. Version(h, "etc")' = Version(h, "etc")
    BY DEF Version
  <2>6. r.step = "create" => r.binds = Mirror!Mountable(l)'
    BY <1>2, <2>1 DEF Mirror!Mountable, Mirror!Here, Mirror!H
  <2> HIDE DEF Configured
  <2>11. Mirror!OwnGuide(l)' = Mirror!OwnGuide(l)
    BY <1>2 DEF Mirror!OwnGuide, Mirror!Guide, Mirror!GuideOf, Mirror!Link, Mirror!Made, Mirror!H
  <2>7. /\ launch'[l].step = "etc" => h \in SystemConfig /\ launch'[l].copy = Version(h, "etc")'
        /\ launch'[l].step \in Configured /\ h \in SystemConfig =>
             mirror'[Mirror!Place(h, "etc")] = Mirror!Copy(h, Version(h, "etc"))'
        /\ launch'[l].step \in Guided => mirror'[Mirror!Place(h, "guide")] \in Mirror!OwnGuide(l)'
        /\ launch'[l].step = "create" => launch'[l].binds = Mirror!Mountable(l)'
    BY <1>2, <2>1, <2>5, <2>6, <2>11 DEF Mirror!Copy, Mirror!Made
  <2>8. launch'[l].step \notin {"prepare", "sync", "cp", "copying"}
    BY <1>2
  <2>9. launch'[l].harness = h
    BY <1>2
  <2>10. QED
    BY <2>2, <2>4, <2>7, <2>8, <2>9 DEF Whole, Configured, Guided, Mirror!Copy, Mirror!Made, Mirror!Place
<1>5. QED
  BY <1>1, <1>2, <1>3, <1>4, Advances

LEMMA NoSystemConfigKeeps ==
  ASSUME MirrorInv, NEW l \in Procs, Mirror!NoSystemConfig(l)
  PROVE  MirrorInv'
<1>1. PICK h : h = launch[l].harness
  OBVIOUS
<1>2. PICK r : r = [launch[l] EXCEPT !.step = "guide"]
  OBVIOUS
<1>3. launch[l].step = "system" /\ h \notin SystemConfig /\ Mirror!Goes(l, r) /\ UNCHANGED <<host, mirror, changes>>
  BY <1>1, <1>2 DEF Mirror!NoSystemConfig, Mirror!At, Mirror!H, Mirror!To
<1>4. launch[l] \in Record /\ h \in Agents
  BY <1>1, <1>3, BusyIs DEF Mirror!Busy
<1>5. /\ r \in Record /\ r.harness = h /\ r.step = "guide"
      /\ r.disturbed = launch[l].disturbed /\ r.kept = launch[l].kept /\ r.warned = launch[l].warned
  BY <1>1, <1>2, <1>4 DEF Record, Mirror!Steps
<1>6. Mirror!Absent \in Mirror!Contents /\ IsOwn(h, Mirror!Absent)
  BY <1>4, ContentsAre
<1>7. QED
  BY <1>1, <1>3, <1>5, <1>6, StepsOn DEF Guided

LEMMA SystemConfigOpensKeeps ==
  ASSUME MirrorInv, NEW l \in Procs, Mirror!SystemConfigOpens(l)
  PROVE  MirrorInv'
<1>1. PICK h : h = launch[l].harness
  OBVIOUS
<1>2. PICK r : r = [launch[l] EXCEPT !.step = "etc", !.copy = Version(h, "etc")]
  OBVIOUS
<1>3. /\ launch[l].step = "system" /\ h \in SystemConfig
      /\ Mirror!Puts(l, "etc", Mirror!Torn(h))
      /\ Mirror!Goes(l, r) /\ UNCHANGED <<host, changes>>
  BY <1>1, <1>2 DEF Mirror!SystemConfigOpens, Mirror!At, Mirror!H, Mirror!To, Version
<1>4. launch[l] \in Record /\ h \in Agents /\ Version(h, "etc") \in 0..MaxChanges + 1
  BY <1>1, <1>3, BusyIs DEF Mirror!Busy
<1>5. /\ r \in Record /\ r.harness = h /\ r.step = "etc" /\ r.copy = Version(h, "etc")
      /\ r.disturbed = launch[l].disturbed /\ r.kept = launch[l].kept /\ r.warned = launch[l].warned
  BY <1>1, <1>2, <1>4 DEF Record, Mirror!Steps
<1>6. Mirror!Torn(h) \in Mirror!Contents /\ IsOwn(h, Mirror!Torn(h))
  BY <1>4, ContentsAre
<1>7. QED
  BY <1>1, <1>3, <1>5, <1>6, StepsOn DEF Configured, Guided

LEMMA SystemConfigWritesKeeps ==
  ASSUME MirrorInv, NEW l \in Procs, Mirror!SystemConfigWrites(l)
  PROVE  MirrorInv'
<1>1. PICK h, what : h = launch[l].harness /\ what = Mirror!Copy(h, launch[l].copy)
  OBVIOUS
<1>2. PICK r : r = [launch[l] EXCEPT !.step = "guide", !.copy = 0]
  OBVIOUS
<1>3. /\ launch[l].step = "etc"
      /\ Mirror!Puts(l, "etc", what)
      /\ Mirror!Goes(l, r) /\ UNCHANGED <<host, changes>>
  BY <1>1, <1>2 DEF Mirror!SystemConfigWrites, Mirror!At, Mirror!H, Mirror!To
<1>4. launch[l] \in Record /\ h \in Agents /\ (Calm(l) => Whole(l)) /\ mirror \in [Mirror!Places -> Mirror!Contents]
  BY <1>1, <1>3, BusyIs DEF Mirror!Busy
<1>5. 0 \in 0..MaxChanges + 1
  BY PreparationAssumption DEF Mirror!BoundsAssumption
<1>6. /\ r \in Record /\ r.harness = h /\ r.step = "guide"
      /\ r.disturbed = launch[l].disturbed /\ r.kept = launch[l].kept /\ r.warned = launch[l].warned
  BY <1>1, <1>2, <1>4, <1>5 DEF Record, Mirror!Steps
<1>7. what \in Mirror!Contents /\ IsOwn(h, what)
  BY <1>1, <1>4, ContentsAre DEF Record
<1>8. Calm(l) => mirror'[Mirror!Place(h, "etc")] = Mirror!Copy(h, Version(h, "etc"))
  <2>1. mirror'[Mirror!Place(h, "etc")] = what
    BY <1>1, <1>3, <1>4, ItemsAre, PutsIs
  <2>2. Calm(l) => launch[l].copy = Version(h, "etc")
    BY <1>1, <1>3, <1>4 DEF Whole
  <2>3. QED
    BY <1>1, <2>1, <2>2
<1>9. QED
  BY <1>1, <1>3, <1>6, <1>7, <1>8, StepsOn DEF Configured, Guided

LEMMA GuideOpensKeeps ==
  ASSUME MirrorInv, NEW l \in Procs, Mirror!GuideOpens(l)
  PROVE  MirrorInv'
<1>1. PICK h : h = launch[l].harness
  OBVIOUS
<1>2. PICK r, what : r = [launch[l] EXCEPT !.step = "opened"] /\ what \in {Mirror!Link(h), Mirror!Torn(h)}
                    /\ Mirror!Puts(l, "guide", what)
  BY <1>1 DEF Mirror!GuideOpens, Mirror!H
<1>3. /\ launch[l].step = "guide"
      /\ Mirror!Puts(l, "guide", what)
      /\ Mirror!Goes(l, r) /\ UNCHANGED <<host, changes>>
  BY <1>1, <1>2 DEF Mirror!GuideOpens, Mirror!At, Mirror!H, Mirror!To
<1>4. launch[l] \in Record /\ h \in Agents /\ (Calm(l) => Whole(l)) /\ mirror \in [Mirror!Places -> Mirror!Contents]
  BY <1>1, <1>3, BusyIs DEF Mirror!Busy
<1>5. /\ r \in Record /\ r.harness = h /\ r.step = "opened"
      /\ r.disturbed = launch[l].disturbed /\ r.kept = launch[l].kept /\ r.warned = launch[l].warned
  BY <1>1, <1>2, <1>4 DEF Record, Mirror!Steps
<1>6. what \in Mirror!Contents /\ IsOwn(h, what)
  BY <1>2, <1>4, ContentsAre
<1>7. Calm(l) /\ h \in SystemConfig => mirror'[Mirror!Place(h, "etc")] = Mirror!Copy(h, Version(h, "etc"))
  <2>1. mirror'[Mirror!Place(h, "etc")] = mirror[Mirror!Place(h, "etc")]
    BY <1>1, <1>3, <1>4, ItemsAre, PutsIs
  <2>2. QED
    BY <1>1, <1>3, <1>4, <2>1 DEF Whole, Configured
<1>8. QED
  BY <1>1, <1>3, <1>5, <1>6, <1>7, StepsOn DEF Guided

LEMMA GuideWritesKeeps ==
  ASSUME MirrorInv, NEW l \in Procs, Mirror!GuideWrites(l)
  PROVE  MirrorInv'
<1>1. PICK h : h = launch[l].harness
  OBVIOUS
<1>2. PICK r : r = [launch[l] EXCEPT !.step = "args"]
  OBVIOUS
<1>3. /\ launch[l].step = "opened"
      /\ \/ Mirror!Puts(l, "guide", Mirror!GuideOf(h, l))
         \/ /\ h \in InState /\ (launch[l].disturbed \/ mirror[Mirror!Place(h, "guide")] = Mirror!Link(h))
            /\ UNCHANGED mirror
      /\ Mirror!Goes(l, r) /\ UNCHANGED <<host, changes>>
  BY <1>1, <1>2 DEF Mirror!GuideWrites, Mirror!Guide, Mirror!At, Mirror!H, Mirror!Here, Mirror!To
<1>4. launch[l] \in Record /\ h \in Agents /\ (Calm(l) => Whole(l)) /\ mirror \in [Mirror!Places -> Mirror!Contents]
  BY <1>1, <1>3, BusyIs DEF Mirror!Busy
<1>5. /\ r \in Record /\ r.harness = h /\ r.step = "args"
      /\ r.disturbed = launch[l].disturbed /\ r.kept = launch[l].kept /\ r.warned = launch[l].warned
  BY <1>1, <1>2, <1>4 DEF Record, Mirror!Steps
<1>6. Mirror!GuideOf(h, l) \in Mirror!Contents /\ IsOwn(h, Mirror!GuideOf(h, l))
  BY <1>4, ContentsAre
<1>7. /\ Calm(l) => mirror'[Mirror!Place(h, "guide")] \in Mirror!OwnGuide(l)
      /\ mirror'[Mirror!Place(h, "etc")] = mirror[Mirror!Place(h, "etc")]
  <2>1. CASE Mirror!Puts(l, "guide", Mirror!GuideOf(h, l))
    BY <1>1, <1>4, <2>1, ItemsAre, PutsIs, OwnGuideIs
  <2>2. CASE /\ h \in InState /\ (launch[l].disturbed \/ mirror[Mirror!Place(h, "guide")] = Mirror!Link(h))
             /\ UNCHANGED mirror
    BY <1>1, <2>2, OwnGuideIs DEF Calm
  <2>3. QED
    BY <1>3, <2>1, <2>2
<1>8. Calm(l) /\ h \in SystemConfig => mirror'[Mirror!Place(h, "etc")] = Mirror!Copy(h, Version(h, "etc"))
  BY <1>1, <1>3, <1>4, <1>7 DEF Whole, Configured
<1>9. QED
  BY <1>1, <1>3, <1>5, <1>6, <1>7, <1>8, StepsOn

LEMMA GuideFailsKeeps ==
  ASSUME MirrorInv, NEW l \in Procs, Mirror!GuideFails(l)
  PROVE  MirrorInv'
<1>1. PICK h : h = launch[l].harness
  OBVIOUS
<1>2. PICK r : r = [launch[l] EXCEPT !.step = "args", !.warned = TRUE]
  OBVIOUS
<1>3. launch[l].step \in {"guide", "opened"} /\ Mirror!Goes(l, r) /\ UNCHANGED <<host, mirror, changes>>
  BY <1>1, <1>2 DEF Mirror!GuideFails, Mirror!To
<1>4. launch[l] \in Record /\ h \in Agents
  BY <1>1, <1>3, BusyIs DEF Mirror!Busy
<1>5. r \in Record /\ r.harness = h /\ r.step = "args" /\ r.disturbed = launch[l].disturbed /\ r.kept = launch[l].kept /\ r.warned
  BY <1>1, <1>2, <1>4 DEF Record, Mirror!Steps
<1>6. Mirror!Absent \in Mirror!Contents /\ IsOwn(h, Mirror!Absent)
  BY <1>4, ContentsAre
<1>7. QED
  BY <1>1, <1>3, <1>5, <1>6, StepsOn

LEMMA ArgumentsKeep ==
  ASSUME MirrorInv, NEW l \in Procs, Mirror!Arguments(l)
  PROVE  MirrorInv'
<1>1. PICK h : h = launch[l].harness
  OBVIOUS
<1>2. PICK binds : binds = Mirror!Mountable(l)
  OBVIOUS
<1>3. PICK r : r = [launch[l] EXCEPT !.step = "create", !.binds = binds]
  OBVIOUS
<1>4. launch[l].step = "args" /\ Mirror!Goes(l, r) /\ UNCHANGED <<host, mirror, changes>>
  BY <1>1, <1>2, <1>3 DEF Mirror!Arguments, Mirror!At, Mirror!To
<1>5. launch[l] \in Record /\ h \in Agents /\ (Calm(l) => Whole(l))
  BY <1>1, <1>4, BusyIs DEF Mirror!Busy
<1>6. binds \subseteq Mirror!Items
  BY <1>2, ItemsAre DEF Mirror!Mountable
<1>7. /\ r \in Record /\ r.harness = h /\ r.step = "create" /\ r.binds = binds
      /\ r.disturbed = launch[l].disturbed /\ r.kept = launch[l].kept /\ r.warned = launch[l].warned
  BY <1>1, <1>3, <1>5, <1>6 DEF Record, Mirror!Steps
<1>8. Mirror!Absent \in Mirror!Contents /\ IsOwn(h, Mirror!Absent)
  BY <1>5, ContentsAre
<1>9. Calm(l) => /\ h \in SystemConfig => mirror'[Mirror!Place(h, "etc")] = Mirror!Copy(h, Version(h, "etc"))
                 /\ mirror'[Mirror!Place(h, "guide")] \in Mirror!OwnGuide(l)
  BY <1>1, <1>4, <1>5 DEF Whole, Configured, Guided
<1>10. QED
  BY <1>1, <1>2, <1>4, <1>7, <1>8, <1>9, StepsOn

LEMMA CreateKeeps ==
  ASSUME MirrorInv, NEW l \in Procs, Mirror!Create(l)
  PROVE  MirrorInv'
<1>1. PICK h : h = launch[l].harness
  OBVIOUS
<1>2. PICK found : found = Mirror!Finds(l)
  OBVIOUS
<1>3. PICK r : r = [launch[l] EXCEPT !.step = "running", !.found = found]
  OBVIOUS
<1>4. launch[l].step = "create" /\ Mirror!Goes(l, r) /\ UNCHANGED <<host, mirror, changes>>
  BY <1>2, <1>3 DEF Mirror!Create, Mirror!At, Mirror!To
<1>5. Mirror!Busy(l) /\ launch[l] \in Record /\ h \in Agents /\ mirror \in [Mirror!Places -> Mirror!Contents]
  BY <1>1, <1>4, BusyIs DEF Mirror!Busy
<1>6. \A i \in Mirror!Items : mirror[Mirror!Place(h, i)] \in Mirror!Contents /\ IsOwn(h, mirror[Mirror!Place(h, i)])
  BY <1>5, ItemsAre DEF MirrorInv, MirrorTyped
<1>7. \A i \in Mirror!Items : found[i] = mirror[Mirror!Place(h, i)] \/ found[i] = Mirror!Absent
  BY <1>1, <1>2 DEF Mirror!Finds, Mirror!Here, Mirror!H
<1>8. found \in [Mirror!Items -> Mirror!Contents]
  <2>1. found = [i \in Mirror!Items |-> found[i]]
    BY <1>2 DEF Mirror!Finds
  <2>2. QED
    BY <1>6, <1>7, <2>1, ContentsAre
<1>9. /\ r \in Record /\ r.harness = h /\ r.step = "running" /\ r.found = found
  BY <1>1, <1>3, <1>5, <1>8 DEF Record, Mirror!Steps
<1>10. launch' \in [Procs -> Record] /\ launch'[l] = r /\ \A k \in Procs : k # l => Aside(k)
  BY <1>4, <1>9, GoesIs
<1>11. LaunchOK(l)'
  BY <1>5, <1>6, <1>7, <1>9, <1>10 DEF LaunchOK, IsOwn
<1>12. ~Mirror!Busy(l)'
  BY <1>9, <1>10 DEF Mirror!Busy
<1>13. QED
  BY <1>4, <1>5, <1>10, <1>11, <1>12, Advances DEF Calm

\* A launch that is disturbed is at work as before.
LEMMA DisturbedIs ==
  ASSUME NEW k \in Procs, LaunchOK(k), NEW hs, launch'[k] = Mirror!Disturbed(hs)[k]
  PROVE  /\ LaunchOK(k)' /\ launch'[k].harness = launch[k].harness /\ launch'[k].warned = launch[k].warned
         /\ Mirror!Busy(k)' = Mirror!Busy(k)
         /\ launch[k].disturbed => launch'[k].disturbed
         /\ Mirror!Busy(k) /\ launch[k].harness \in hs => launch'[k].disturbed
         /\ launch'[k] = launch[k] \/ (Mirror!Busy(k) /\ launch[k].harness \in hs)
<1>1. launch[k] \in Record
  BY DEF LaunchOK
<1>2. CASE Mirror!Busy(k) /\ launch[k].harness \in hs
  <2>1. launch'[k] = [launch[k] EXCEPT !.disturbed = TRUE]
    BY <1>2 DEF Mirror!Disturbed, Mirror!H
  <2>2. /\ launch'[k] \in Record /\ launch'[k].step = launch[k].step /\ launch'[k].harness = launch[k].harness
        /\ launch'[k].at = launch[k].at /\ launch'[k].found = launch[k].found
        /\ launch'[k].warned = launch[k].warned /\ launch'[k].disturbed
    BY <1>1, <2>1 DEF Record
  <2>3. QED
    BY <1>2, <2>2 DEF LaunchOK, Mirror!Busy
<1>3. CASE ~(Mirror!Busy(k) /\ launch[k].harness \in hs)
  <2>1. launch'[k] = launch[k]
    BY <1>3 DEF Mirror!Disturbed, Mirror!H
  <2>2. QED
    BY <1>3, <2>1 DEF LaunchOK, Mirror!Busy
<1>4. QED
  BY <1>2, <1>3

\* Sources and mirrors of some harnesses change under their launches, and one launch may
\* begin or be refused meanwhile.
LEMMA Disturbs ==
  ASSUME MirrorInv, NEW hs, NEW l \in Procs,
         launch' \in [Procs -> Record],
         \A k \in Procs : k # l => launch'[k] = Mirror!Disturbed(hs)[k],
         \/ launch'[l] = Mirror!Disturbed(hs)[l]
         \/ /\ ~Mirror!Busy(l) /\ LaunchOK(l)'
            /\ Mirror!Busy(l)' =>
                 /\ launch'[l].harness \in hs
                 /\ launch'[l].disturbed \/ \A k \in Procs : Mirror!Busy(k) => launch[k].harness # launch'[l].harness
            /\ Calm(l)' => Whole(l)',
         host' \in [Mirror!Sources -> 0..MaxChanges + 1], changes' \in Nat, changes' <= MaxChanges,
         mirror' \in [Mirror!Places -> Mirror!Contents],
         \A h \in Agents, i \in Mirror!Items : IsOwn(h, mirror'[Mirror!Place(h, i)]),
         \A h \in Agents : h \notin hs =>
           /\ \A i \in Mirror!Mirrors \cup {"etc"} : Version(h, i)' = Version(h, i)
           /\ \A i \in Mirror!Items : mirror'[Mirror!Place(h, i)] = mirror[Mirror!Place(h, i)]
  PROVE  MirrorInv'
<1>1. \A k \in Procs : LaunchOK(k)
  BY DEF MirrorInv, MirrorTyped
<1>2. \A k \in Procs : launch'[k] = Mirror!Disturbed(hs)[k] =>
        /\ LaunchOK(k)' /\ launch'[k].harness = launch[k].harness /\ launch'[k].warned = launch[k].warned
        /\ Mirror!Busy(k)' = Mirror!Busy(k)
        /\ launch[k].disturbed => launch'[k].disturbed
        /\ Mirror!Busy(k) /\ launch[k].harness \in hs => launch'[k].disturbed
        /\ launch'[k] = launch[k] \/ (Mirror!Busy(k) /\ launch[k].harness \in hs)
  BY <1>1, DisturbedIs
<1>3. \A k \in Procs : LaunchOK(k)'
  BY <1>2
<1>4. MirrorTyped'
  BY <1>3 DEF MirrorTyped
<1>5. Alone'
  <2> SUFFICES ASSUME NEW k \in Procs, NEW m \in Procs, k # m, Mirror!Busy(k)', Mirror!Busy(m)',
                      launch'[k].harness = launch'[m].harness
               PROVE  launch'[k].disturbed
    BY DEF Alone
  <2>1. CASE launch'[k] = Mirror!Disturbed(hs)[k] /\ launch'[m] = Mirror!Disturbed(hs)[m]
    <3>1. Mirror!Busy(k) /\ Mirror!Busy(m) /\ launch[k].harness = launch[m].harness
      BY <1>2, <2>1
    <3>2. launch[k].disturbed
      BY <3>1 DEF MirrorInv, Alone
    <3>3. QED
      BY <1>2, <2>1, <3>2
  <2>2. CASE k = l /\ launch'[m] = Mirror!Disturbed(hs)[m] /\ ~Mirror!Busy(l)
    <3>1. Mirror!Busy(m) /\ launch[m].harness = launch'[l].harness
      BY <1>2, <2>2
    <3>2. launch'[k] = Mirror!Disturbed(hs)[k] => Mirror!Busy(l)
      BY <1>2, <2>2
    <3>3. QED
      BY <2>2, <3>1, <3>2
  <2>3. CASE m = l /\ launch'[k] = Mirror!Disturbed(hs)[k] /\ ~Mirror!Busy(l)
    <3>1. launch'[l] = Mirror!Disturbed(hs)[l] => Mirror!Busy(l)
      BY <1>2, <2>3
    <3>2. launch'[l].harness \in hs
      BY <2>3, <3>1
    <3>3. Mirror!Busy(k) /\ launch[k].harness \in hs
      BY <1>2, <2>3, <3>2
    <3>4. QED
      BY <1>2, <2>3, <3>3
  <2>4. QED
    BY <2>1, <2>2, <2>3
<1>6. ASSUME NEW k \in Procs, Calm(k)' PROVE Whole(k)'
  <2>1. CASE launch'[k] = Mirror!Disturbed(hs)[k]
    <3>1. Calm(k) /\ launch'[k] = launch[k] /\ launch[k].harness \notin hs
      BY <1>2, <1>6, <2>1 DEF Calm
    <3>2. Whole(k) /\ launch[k].harness \in Agents
      BY <1>1, <3>1 DEF MirrorInv, LaunchOK, Calm, Mirror!Busy
    <3>3. QED
      BY <1>1, <3>1, <3>2, WholeKept
  <2>2. QED
    BY <1>6, <2>1
<1>7. QED
  BY <1>4, <1>5, <1>6 DEF MirrorInv

LEMMA DisturbedTyped ==
  ASSUME MirrorInv, NEW hs
  PROVE  Mirror!Disturbed(hs) \in [Procs -> Record]
<1>1. \A k \in Procs : launch[k] \in Record
  BY DEF MirrorInv, MirrorTyped
<1>2. \A k \in Procs : [launch[k] EXCEPT !.disturbed = TRUE] \in Record
  BY <1>1 DEF Record
<1>3. QED
  BY <1>1, <1>2 DEF Mirror!Disturbed

LEMMA AgentWritesKeeps ==
  ASSUME MirrorInv, NEW l \in Procs, NEW i \in Mirror!Items, Mirror!AgentWrites(l, i)
  PROVE  MirrorInv'
<1>1. PICK h : h = launch[l].harness
  OBVIOUS
<1>2. PICK what : /\ what \in {Mirror!Torn(h), Mirror!Alike(Mirror!Torn(h), TRUE), Mirror!Link(h), Mirror!Absent}
                  /\ launch[l].step = "running" /\ Mirror!Puts(l, i, what)
                  /\ launch' = Mirror!Disturbed({h}) /\ UNCHANGED host
                  /\ changes < MaxChanges /\ changes' = changes + 1
  BY <1>1 DEF Mirror!AgentWrites, Mirror!At, Mirror!H
<1>3. /\ host \in [Mirror!Sources -> 0..MaxChanges + 1] /\ changes \in Nat /\ changes <= MaxChanges
      /\ mirror \in [Mirror!Places -> Mirror!Contents]
      /\ \A g \in Agents, j \in Mirror!Items : IsOwn(g, mirror[Mirror!Place(g, j)])
      /\ h \in Agents
  BY <1>1, <1>2 DEF MirrorInv, MirrorTyped, LaunchOK
<1>4. what \in Mirror!Contents /\ IsOwn(h, what)
  <2>1. Mirror!Torn(h).by = h
    BY DEF Mirror!Torn, Mirror!Made
  <2>2. QED
    BY <1>2, <1>3, <2>1, ContentsAre, AlikeIs
<1>5. mirror' = [mirror EXCEPT ![Mirror!Place(h, i)] = what]
  BY <1>1, <1>2 DEF Mirror!Puts, Mirror!H
<1>6. \A g \in Agents, j \in Mirror!Items :
        mirror'[Mirror!Place(g, j)] = IF g = h /\ j = i THEN what ELSE mirror[Mirror!Place(g, j)]
  BY <1>3, <1>5, ItemsAre, PlacesDiffer
<1>7. mirror' \in [Mirror!Places -> Mirror!Contents]
  BY <1>3, <1>4, <1>5
<1>8. \A g \in Agents, j \in Mirror!Items : IsOwn(g, mirror'[Mirror!Place(g, j)])
  BY <1>3, <1>4, <1>6
<1>9. \A g \in Agents : g \notin {h} =>
        /\ \A j \in Mirror!Mirrors \cup {"etc"} : Version(g, j)' = Version(g, j)
        /\ \A j \in Mirror!Items : mirror'[Mirror!Place(g, j)] = mirror[Mirror!Place(g, j)]
  BY <1>2, <1>6 DEF Version
<1>10. launch' \in [Procs -> Record]
  BY <1>2, DisturbedTyped
<1>11. MaxChanges \in Nat
  BY PreparationAssumption DEF Mirror!BoundsAssumption
<1>12. host' = host /\ changes' \in Nat /\ changes' <= MaxChanges
  BY <1>2, <1>3, <1>11
<1>13. QED
  BY <1>2, <1>3, <1>7, <1>8, <1>9, <1>10, <1>12, Disturbs

LEMMA EditKeeps ==
  ASSUME MirrorInv, NEW s \in Mirror!Sources, Mirror!Edit(s)
  PROVE  MirrorInv'
<1>1. PICK hs : hs = {h \in Agents : \E i \in Mirror!Items : Mirror!Source(h, i) = s}
  OBVIOUS
<1>2. PICK version \in {0, changes + 2} : /\ host' = [host EXCEPT ![s] = version]
                                         /\ \E same \in SUBSET IF version = 0 THEN {} ELSE Mirror!MirrorsOf(s) :
          mirror' = [x \in Mirror!Places |->
                      IF x \in Mirror!MirrorsOf(s) THEN Mirror!Alike(mirror[x], x \in same) ELSE mirror[x]]
  BY DEF Mirror!Edit
<1>3. PICK same :
          mirror' = [x \in Mirror!Places |->
                      IF x \in Mirror!MirrorsOf(s) THEN Mirror!Alike(mirror[x], x \in same) ELSE mirror[x]]
  BY <1>2
<1>4. changes < MaxChanges /\ changes' = changes + 1 /\ launch' = Mirror!Disturbed(hs)
  BY <1>1 DEF Mirror!Edit
<1>5. /\ host \in [Mirror!Sources -> 0..MaxChanges + 1] /\ changes \in Nat
      /\ mirror \in [Mirror!Places -> Mirror!Contents]
      /\ \A g \in Agents, j \in Mirror!Items : IsOwn(g, mirror[Mirror!Place(g, j)])
  BY DEF MirrorInv, MirrorTyped
<1>6. MaxChanges \in Nat
  BY PreparationAssumption DEF Mirror!BoundsAssumption
<1>7. version \in 0..MaxChanges + 1 /\ changes' \in Nat /\ changes' <= MaxChanges
  BY ONLY <1>2, <1>4, <1>5, <1>6
<1>8. host' \in [Mirror!Sources -> 0..MaxChanges + 1]
  BY <1>2, <1>5, <1>7
<1>9. \A g \in Agents : g \notin hs => \A j \in Mirror!Mirrors \cup {"etc"} : Version(g, j)' = Version(g, j)
  <2> SUFFICES ASSUME NEW g \in Agents, g \notin hs, NEW j \in Mirror!Mirrors \cup {"etc"}
               PROVE  Version(g, j)' = Version(g, j)
    OBVIOUS
  <2>1. j \in Mirror!Items
    BY ItemsAre
  <2>2. Mirror!Source(g, j) # s /\ Mirror!Source(g, j) \in Mirror!Sources
    BY <1>1, <2>1, ItemsAre
  <2>3. QED
    BY <1>2, <1>5, <2>2 DEF Version, Mirror!Source
\* Only mirrors of the source change, and they stay their harness's.
<1>10. ASSUME NEW g \in Agents, NEW j \in Mirror!Items
       PROVE  /\ mirror'[Mirror!Place(g, j)] \in Mirror!Contents /\ IsOwn(g, mirror'[Mirror!Place(g, j)])
              /\ g \notin hs => mirror'[Mirror!Place(g, j)] = mirror[Mirror!Place(g, j)]
  <2>1. PICK x, what : x = Mirror!Place(g, j) /\ what = mirror[x]
    OBVIOUS
  <2>2. x \in Mirror!Places /\ what \in Mirror!Contents /\ IsOwn(g, what)
    BY <1>5, <2>1, ItemsAre
  <2>3. CASE x \notin Mirror!MirrorsOf(s)
    BY <1>3, <2>1, <2>2, <2>3
  <2>4. CASE x \in Mirror!MirrorsOf(s)
    <3>1. PICK h \in Agents, i \in Mirror!ToSet(SyncDirs) :
            what # Mirror!Absent /\ x = Mirror!Place(h, i) /\ Mirror!Source(h, i) = s
      BY <2>1, <2>4 DEF Mirror!MirrorsOf
    <3>2. h = g /\ i = j
      <4>1. Mirror!Place(h, i) = Mirror!Place(g, j)
        BY <2>1, <3>1
      <4>2. QED
        BY <4>1, PlacesDiffer
    <3>3. g \in hs /\ what.by = g
      <4>1. Mirror!Source(g, j) = s
        BY <3>1, <3>2
      <4>2. g \in hs
        BY <1>1, <4>1
      <4>3. what.by = g
        BY <2>2, <3>1 DEF IsOwn
      <4>4. QED
        BY <4>2, <4>3
    <3>4. PICK b \in BOOLEAN : mirror'[x] = Mirror!Alike(what, b)
      <4>1. mirror'[x] = Mirror!Alike(mirror[x], x \in same)
        BY <1>3, <2>2, <2>4
      <4>2. CASE x \in same
        <5>1. (x \in same) = TRUE
          BY <4>2
        <5>2. QED
          BY <2>1, <4>1, <5>1
      <4>3. CASE x \notin same
        <5>1. (x \in same) = FALSE
          BY <4>3
        <5>2. QED
          BY <2>1, <4>1, <5>1
      <4>4. QED
        BY <4>2, <4>3
    <3>5. Mirror!Alike(what, b) \in Mirror!Contents /\ IsOwn(g, Mirror!Alike(what, b))
      BY <2>2, <3>3, AlikeIs
    <3>6. QED
      BY <2>1, <3>3, <3>4, <3>5
  <2>5. QED
    BY <2>3, <2>4
<1>11. mirror' \in [Mirror!Places -> Mirror!Contents]
  <2>1. \A x \in Mirror!Places : mirror'[x] \in Mirror!Contents
    BY <1>10 DEF Mirror!Places
  <2>2. QED
    BY <1>3, <2>1
<1>12. launch' \in [Procs -> Record]
  BY <1>4, DisturbedTyped
<1>13. CASE Procs = {}
  <2>1. MirrorTyped'
    BY <1>7, <1>8, <1>10, <1>11, <1>12, <1>13 DEF MirrorTyped, Mirror!Place, Mirror!sandbox_dir, IsOwn, Mirror!Absent
  <2>2. QED
    BY <1>13, <2>1 DEF MirrorInv, Alone
<1>14. CASE Procs # {}
  <2>1. PICK l : l \in Procs
    BY <1>14
  <2>2. \A g \in Agents : g \notin hs =>
          /\ \A i \in Mirror!Mirrors \cup {"etc"} : Version(g, i)' = Version(g, i)
          /\ \A i \in Mirror!Items : mirror'[Mirror!Place(g, i)] = mirror[Mirror!Place(g, i)]
    BY <1>9, <1>10
  <2>3. \A k \in Procs : launch'[k] = Mirror!Disturbed(hs)[k]
    BY <1>4
  <2>4. \A g \in Agents, i \in Mirror!Items : IsOwn(g, mirror'[Mirror!Place(g, i)])
    BY <1>10
  <2>5. QED
    BY <1>7, <1>8, <1>11, <1>12, <2>1, <2>2, <2>3, <2>4, Disturbs
<1>15. QED
  BY <1>13, <1>14

\* A launch begins, and is disturbed if another of its harness is at work.
LEMMA BeginKeeps ==
  ASSUME MirrorInv, NEW l \in Procs, NEW h \in Agents, NEW p, Mirror!Begin(l, h, p)
  PROVE  MirrorInv'
<1>1. /\ host \in [Mirror!Sources -> 0..MaxChanges + 1] /\ changes \in Nat /\ changes <= MaxChanges
      /\ mirror \in [Mirror!Places -> Mirror!Contents]
      /\ \A g \in Agents, j \in Mirror!Items : IsOwn(g, mirror[Mirror!Place(g, j)])
      /\ launch \in [Procs -> Record]
  BY DEF MirrorInv, MirrorTyped
<1>2. UNCHANGED <<host, mirror, changes>> /\ ~Mirror!Busy(l)
  BY DEF Mirror!Begin, Mirror!At, Mirror!Busy
<1>3. 0 \in 0..Len(Mirror!Plan) /\ 0 \in 0..MaxChanges + 1
  BY PlanIs, PreparationAssumption DEF Mirror!BoundsAssumption
<1>4. \A g \in Agents :
        /\ \A j \in Mirror!Mirrors \cup {"etc"} : Version(g, j)' = Version(g, j)
        /\ \A j \in Mirror!Items : mirror'[Mirror!Place(g, j)] = mirror[Mirror!Place(g, j)]
  BY <1>2 DEF Version
<1>5. CASE p \in Blocked
  <2>1. PICK r : r = [Mirror!Idle EXCEPT !.step = "ended"]
    OBVIOUS
  <2>2. launch' = [launch EXCEPT ![l] = r]
    BY <1>5, <2>1 DEF Mirror!Begin
  <2>3. r \in Record /\ r.step = "ended"
    BY <1>3, <2>1 DEF Record, Mirror!Idle, Mirror!Steps
  <2>4. launch' \in [Procs -> Record] /\ launch'[l] = r /\ \A k \in Procs : k # l => launch'[k] = launch[k]
    BY <1>1, <2>2, <2>3
  <2>5. \A k \in Procs : k # l => launch'[k] = Mirror!Disturbed({})[k]
    BY <2>4 DEF Mirror!Disturbed
  <2>6. LaunchOK(l)' /\ ~Mirror!Busy(l)'
    BY <2>3, <2>4 DEF LaunchOK, Mirror!Busy
  <2>7. ~Calm(l)'
    BY <2>6 DEF Calm
  <2>8. QED
    BY <1>1, <1>2, <1>4, <2>4, <2>5, <2>6, <2>7, Disturbs
<1>6. CASE p \notin Blocked
  <2>1. PICK disturbed : disturbed = \E k \in Procs : Mirror!Busy(k) /\ launch[k].harness = h
    OBVIOUS
  <2>2. PICK r : r = [Mirror!Idle EXCEPT !.step = "prepare", !.harness = h, !.disturbed = disturbed]
    OBVIOUS
  <2>3. launch' = [Mirror!Disturbed({h}) EXCEPT ![l] = r]
    BY <1>6, <2>1, <2>2 DEF Mirror!Begin, Mirror!H
  <2>4. r \in Record /\ r.step = "prepare" /\ r.harness = h /\ r.disturbed = disturbed /\ ~r.nested
    BY <1>3, <2>1, <2>2 DEF Record, Mirror!Idle, Mirror!Steps
  <2>5. Mirror!Disturbed({h}) \in [Procs -> Record]
    BY DisturbedTyped
  <2>6. /\ launch' \in [Procs -> Record] /\ launch'[l] = r
        /\ \A k \in Procs : k # l => launch'[k] = Mirror!Disturbed({h})[k]
    BY <2>3, <2>4, <2>5
  <2>7. LaunchOK(l)'
    BY <2>4, <2>6 DEF LaunchOK
  <2>8. launch'[l].disturbed \/ \A k \in Procs : Mirror!Busy(k) => launch[k].harness # launch'[l].harness
    BY <2>1, <2>4, <2>6
  <2>9. Whole(l)'
    <3>1. Done(l)' = {}
      BY <2>4, <2>6 DEF Done
    <3>2. launch'[l].step = "prepare" /\ ~launch'[l].nested
      BY <2>4, <2>6
    <3>3. QED
      BY <3>1, <3>2 DEF Whole, Configured, Guided
  <2>10. QED
    BY <1>1, <1>2, <1>4, <2>4, <2>6, <2>7, <2>8, <2>9, Disturbs
<1>7. QED
  BY <1>5, <1>6

LEMMA MirrorStutters == ASSUME MirrorInv, UNCHANGED mirrorVars PROVE MirrorInv'
<1>1. UNCHANGED <<host, mirror, launch, changes>>
  BY DEF mirrorVars
<1>2. MirrorTyped'
  BY <1>1 DEF MirrorInv, MirrorTyped, LaunchOK
<1>3. Alone'
  BY <1>1 DEF MirrorInv, Alone, Mirror!Busy
<1>4. ASSUME NEW k \in Procs, Calm(k)' PROVE Whole(k)'
  <2>1. Calm(k) /\ launch'[k] = launch[k]
    BY <1>1, <1>4 DEF Calm, Mirror!Busy
  <2>2. LaunchOK(k) /\ launch[k].harness \in Agents /\ Whole(k)
    BY <2>1 DEF MirrorInv, MirrorTyped, LaunchOK, Calm, Mirror!Busy
  <2>3. /\ \A i \in Mirror!Mirrors \cup {"etc"} : Version(launch[k].harness, i)' = Version(launch[k].harness, i)
        /\ \A i \in Mirror!Items :
             mirror'[Mirror!Place(launch[k].harness, i)] = mirror[Mirror!Place(launch[k].harness, i)]
    BY <1>1 DEF Version
  <2>4. QED
    BY <2>1, <2>2, <2>3, WholeKept
<1>5. QED
  BY <1>2, <1>3, <1>4 DEF MirrorInv

\* What a step of the launches, of their agents or of the user is.
LEMMA MirrorNextIs ==
  ASSUME Mirror!Next
  PROVE  \/ \E l \in Procs :
              \/ \E h \in Agents, p \in Projects : Mirror!Begin(l, h, p)
              \/ Mirror!Prepare(l)
              \/ Mirror!Fails(l) \/ Mirror!Kill(l) \/ Mirror!AgentEnds(l)
              \/ Mirror!Mirroring(l)
              \/ Mirror!Writing(l)
              \/ Mirror!Arguments(l)
              \/ Mirror!Create(l)
              \/ \E i \in Mirror!Items : Mirror!AgentWrites(l, i)
         \/ \E s \in Mirror!Sources : Mirror!Edit(s)
BY DEF Mirror!Next

LEMMA MirrorStep == ASSUME MirrorInv, [Mirror!Next]_mirrorVars PROVE MirrorInv'
<1>1. CASE UNCHANGED mirrorVars
  BY <1>1, MirrorStutters
<1>2. ASSUME NEW l \in Procs, Mirror!Mirroring(l) PROVE MirrorInv'
  BY <1>2, DropsMirrorKeeps, CopiesKeeps, RemovesDirKeeps, CpKeeps, CopiedKeeps, CopyFailsKeeps DEF Mirror!Mirroring
<1>3. ASSUME NEW l \in Procs, Mirror!Writing(l) PROVE MirrorInv'
  BY <1>3, NoSystemConfigKeeps, SystemConfigOpensKeeps, SystemConfigWritesKeeps,
     GuideOpensKeeps, GuideWritesKeeps, GuideFailsKeeps DEF Mirror!Writing
<1>4. CASE Mirror!Next
  BY <1>2, <1>3, <1>4, MirrorNextIs, BeginKeeps, PrepareKeeps, EndsKeep, ArgumentsKeep, CreateKeeps,
     AgentWritesKeeps, EditKeeps
<1>5. QED
  BY <1>1, <1>4

\* No step starts an agent but the creation of its container.
StaysOff(l) == launch'[l].step = launch[l].step \/ launch'[l].step # "running"

LEMMA GoesStaysOff ==
  ASSUME launch \in [Procs -> Record], NEW l \in Procs, NEW k \in Procs,
         NEW r, r.step # "running", Mirror!Goes(k, r)
  PROVE  StaysOff(l)
BY DEF Mirror!Goes, StaysOff

LEMMA UnboundStaysOff ==
  ASSUME launch \in [Procs -> Record], NEW l \in Procs, NEW k \in Procs, NEW h, NEW i,
         NEW r, r.step # "running", launch' = [Mirror!Unbound(h, i) EXCEPT ![k] = r]
  PROVE  StaysOff(l)
<1>1. launch[l] \in Record
  OBVIOUS
<1>2. Mirror!Unbound(h, i)[l].step = launch[l].step
  <2>1. [launch[l] EXCEPT !.binds = @ \ {i}].step = launch[l].step
    BY <1>1 DEF Record
  <2>2. QED
    BY <2>1 DEF Mirror!Unbound
<1>3. launch'[l] = r \/ launch'[l] = Mirror!Unbound(h, i)[l]
  BY DEF Mirror!Unbound
<1>4. QED
  BY <1>2, <1>3 DEF StaysOff

LEMMA RemovesStaysOff ==
  ASSUME launch \in [Procs -> Record], NEW l \in Procs, NEW k \in Procs,
         NEW r \in Record, r.step # "running", Mirror!Removes(k, r)
  PROVE  StaysOff(l)
<1>1. PICK item : item = Mirror!Item(k)
  OBVIOUS
<1>2. [r EXCEPT !.kept = r.kept \cup {item}].step # "running"
  BY DEF Record
<1>3. \/ launch' = [Mirror!Unbound(Mirror!H(k), item) EXCEPT ![k] = r]
      \/ Mirror!Goes(k, [r EXCEPT !.kept = r.kept \cup {item}])
  BY <1>1 DEF Mirror!Removes
<1>4. QED
  BY <1>2, <1>3, UnboundStaysOff, GoesStaysOff

LEMMA DisturbedStaysOff ==
  ASSUME launch \in [Procs -> Record], NEW l \in Procs, NEW hs
  PROVE  Mirror!Disturbed(hs)[l].step = launch[l].step
<1>1. launch[l] \in Record
  OBVIOUS
<1>2. [launch[l] EXCEPT !.disturbed = TRUE].step = launch[l].step
  BY <1>1 DEF Record
<1>3. QED
  BY <1>2 DEF Mirror!Disturbed

LEMMA FollowingStaysOff ==
  ASSUME NEW q \in Record
  PROVE  Mirror!Following(q).step # "running"
BY DEF Mirror!Following, Record

LEMMA OnlyCreateStarts ==
  ASSUME MirrorInv, [Mirror!Next]_mirrorVars, NEW l \in Procs, Mirror!Starts(l)
  PROVE  Mirror!Create(l)
<1>1. launch \in [Procs -> Record] /\ \A k \in Procs : launch[k] \in Record
  BY DEF MirrorInv, MirrorTyped
<1>2. ~StaysOff(l)
  BY DEF Mirror!Starts, Mirror!At, StaysOff
<1>3. \A k \in Procs : Mirror!To(k, "sync") \in Record
  BY <1>1 DEF Record, Mirror!To, Mirror!Steps
<1>4. ASSUME NEW k \in Procs, NEW h \in Agents, NEW p \in Projects, Mirror!Begin(k, h, p) PROVE StaysOff(l)
  <2>1. CASE p \in Blocked
    <3>1. launch' = [launch EXCEPT ![k] = [Mirror!Idle EXCEPT !.step = "ended"]]
      BY <1>4, <2>1 DEF Mirror!Begin
    <3>2. [Mirror!Idle EXCEPT !.step = "ended"].step # "running"
      BY DEF Mirror!Idle
    <3>3. QED
      BY <1>1, <3>1, <3>2, GoesStaysOff DEF Mirror!Goes
  <2>2. CASE p \notin Blocked
    <3>1. PICK r : r = [Mirror!Idle EXCEPT !.step = "prepare", !.harness = h,
                                          !.disturbed = \E m \in Procs : Mirror!Busy(m) /\ Mirror!H(m) = h]
      OBVIOUS
    <3>2. launch' = [Mirror!Disturbed({h}) EXCEPT ![k] = r]
      BY <1>4, <2>2, <3>1 DEF Mirror!Begin
    <3>3. r.step # "running"
      BY <3>1 DEF Mirror!Idle
    <3>4. launch'[l] = r \/ launch'[l] = Mirror!Disturbed({h})[l]
      BY <3>2 DEF Mirror!Disturbed
    <3>5. QED
      BY <1>1, <3>3, <3>4, DisturbedStaysOff DEF StaysOff
  <2>3. QED
    BY <2>1, <2>2
<1>5. ASSUME NEW k \in Procs, Mirror!Prepare(k) PROVE StaysOff(l)
  <2>1. [Mirror!To(k, "sync") EXCEPT !.at = 1].step # "running"
    BY <1>1 DEF Record, Mirror!To
  <2>2. QED
    BY <1>1, <1>5, <2>1, GoesStaysOff DEF Mirror!Prepare
<1>6. ASSUME NEW k \in Procs, Mirror!Fails(k) \/ Mirror!Kill(k) \/ Mirror!AgentEnds(k) PROVE StaysOff(l)
  <2>1. Mirror!Ended.step # "running"
    BY DEF Mirror!Ended, Mirror!Idle
  <2>2. QED
    BY <1>1, <1>6, <2>1, GoesStaysOff DEF Mirror!Fails, Mirror!Kill, Mirror!AgentEnds
<1>7. ASSUME NEW k \in Procs, Mirror!Mirroring(k) PROVE StaysOff(l)
  <2>1. PICK h, i, copy, nested :
          h = Mirror!H(k) /\ i = Mirror!Item(k) /\ copy = host[Mirror!Source(h, i)]
          /\ nested = (Mirror!Here(k, i) # Mirror!Absent)
    OBVIOUS
  <2>2. /\ Mirror!Following(launch[k]).step # "running"
        /\ Mirror!Following([launch[k] EXCEPT !.warned = TRUE]).step # "running"
        /\ [Mirror!To(k, "copying") EXCEPT !.copy = copy].step # "running"
        /\ [Mirror!To(k, "cp") EXCEPT !.copy = copy].step # "running"
        /\ [Mirror!To(k, "copying") EXCEPT !.nested = nested].step # "running"
    <3>1. [launch[k] EXCEPT !.warned = TRUE] \in Record
      BY <1>1 DEF Record
    <3>2. QED
      BY <1>1, <3>1, FollowingStaysOff DEF Record, Mirror!To
  <2>3. CASE Mirror!DropsMirror(k)
    <3>1. launch[k].step = "sync" /\ LaunchOK(k)
      BY <2>3 DEF Mirror!DropsMirror, Mirror!At, MirrorInv, MirrorTyped
    <3>2. Mirror!Following(launch[k]) \in Record
      BY <1>1, <3>1, FollowingIs DEF LaunchOK
    <3>3. QED
      BY <1>1, <2>2, <2>3, <3>2, RemovesStaysOff DEF Mirror!DropsMirror
  <2>4. CASE Mirror!Copies(k)
    BY <1>1, <2>1, <2>2, <2>4, GoesStaysOff DEF Mirror!Copies
  <2>5. CASE Mirror!RemovesDir(k)
    <3>1. PICK r : r = [Mirror!To(k, "cp") EXCEPT !.copy = copy]
      OBVIOUS
    <3>2. launch[k].step = "sync" /\ copy \in 0..MaxChanges + 1
      <4>1. launch[k].step = "sync" /\ LaunchOK(k)
        BY <2>5 DEF Mirror!RemovesDir, Mirror!At, MirrorInv, MirrorTyped
      <4>2. \A j \in Mirror!Mirrors \cup {"etc"} : Version(launch[k].harness, j) \in 0..MaxChanges + 1
        BY <4>1, BusyIs DEF Mirror!Busy
      <4>3. QED
        BY <2>1, <4>1, <4>2, ItemsAre DEF LaunchOK, Version, Mirror!Item, Mirror!H
    <3>3. r \in Record /\ r.step # "running"
      BY <1>1, <2>2, <3>1, <3>2 DEF Record, Mirror!To, Mirror!Steps
    <3>4. Mirror!Removes(k, r)
      BY <2>1, <2>5, <3>1 DEF Mirror!RemovesDir
    <3>5. QED
      BY <1>1, <3>3, <3>4, RemovesStaysOff
  <2>6. CASE Mirror!Cp(k)
    BY <1>1, <2>1, <2>2, <2>6, GoesStaysOff DEF Mirror!Cp
  <2>7. CASE Mirror!Copied(k)
    BY <1>1, <2>1, <2>2, <2>7, GoesStaysOff DEF Mirror!Copied
  <2>8. CASE Mirror!CopyFails(k)
    BY <1>1, <2>1, <2>2, <2>8, GoesStaysOff DEF Mirror!CopyFails
  <2>9. QED
    BY <1>7, <2>3, <2>4, <2>5, <2>6, <2>7, <2>8 DEF Mirror!Mirroring
<1>8. ASSUME NEW k \in Procs, Mirror!Writing(k) PROVE StaysOff(l)
  <2>1. PICK r : Mirror!Goes(k, r) /\ r.step # "running"
    <3>1. PICK version : version = host[Mirror!Source(Mirror!H(k), "etc")]
      OBVIOUS
    <3>2. /\ Mirror!To(k, "guide").step # "running" /\ Mirror!To(k, "opened").step # "running"
          /\ Mirror!To(k, "args").step # "running"
          /\ [Mirror!To(k, "etc") EXCEPT !.copy = version].step # "running"
          /\ [Mirror!To(k, "guide") EXCEPT !.copy = 0].step # "running"
          /\ [Mirror!To(k, "args") EXCEPT !.warned = TRUE].step # "running"
      BY <1>1 DEF Record, Mirror!To
    <3>3. QED
      BY <1>8, <3>1, <3>2 DEF Mirror!Writing, Mirror!NoSystemConfig, Mirror!SystemConfigOpens, Mirror!SystemConfigWrites,
        Mirror!GuideOpens, Mirror!GuideWrites, Mirror!GuideFails
  <2>2. QED
    BY <1>1, <2>1, GoesStaysOff
<1>9. ASSUME NEW k \in Procs, Mirror!Arguments(k) PROVE StaysOff(l)
  <2>1. PICK binds : binds = Mirror!Mountable(k)
    OBVIOUS
  <2>2. [Mirror!To(k, "create") EXCEPT !.binds = binds].step # "running"
    BY <1>1 DEF Record, Mirror!To
  <2>3. QED
    BY <1>1, <1>9, <2>1, <2>2, GoesStaysOff DEF Mirror!Arguments
<1>10. ASSUME NEW k \in Procs, Mirror!Create(k) PROVE k = l
  BY <1>1, <1>10 DEF Mirror!Create, Mirror!Goes, Mirror!Starts, Mirror!At
<1>11. ASSUME NEW hs, launch' = Mirror!Disturbed(hs) PROVE StaysOff(l)
  BY <1>1, <1>11, DisturbedStaysOff DEF StaysOff
<1>12. ASSUME NEW k \in Procs, NEW i \in Mirror!Items, Mirror!AgentWrites(k, i) PROVE StaysOff(l)
  BY <1>11, <1>12 DEF Mirror!AgentWrites
<1>13. ASSUME NEW s \in Mirror!Sources, Mirror!Edit(s) PROVE StaysOff(l)
  BY <1>11, <1>13 DEF Mirror!Edit
<1>14. CASE UNCHANGED mirrorVars
  BY <1>2, <1>14 DEF mirrorVars, StaysOff
<1>15. QED
  BY <1>2, <1>4, <1>5, <1>6, <1>7, <1>8, <1>9, <1>10, <1>12, <1>13, <1>14, MirrorNextIs

\* What a calm launch finds when it starts its agent.
LEMMA CalmFindsAll ==
  ASSUME MirrorInv, NEW l \in Procs, launch[l].step = "create", ~launch[l].disturbed, ~launch[l].warned
  PROVE  /\ \A i \in Mirror!Mirrors : Mirror!Missed(l, i) \/
              Mirror!Finds(l)[i] = IF host[Mirror!Source(Mirror!H(l), i)] = 0 THEN Mirror!Absent
                                   ELSE Mirror!Copy(Mirror!H(l), host[Mirror!Source(Mirror!H(l), i)])
         /\ Mirror!Finds(l)["guide"] \in Mirror!OwnGuide(l)
         /\ Mirror!Finds(l)["etc"] = IF Mirror!H(l) \in SystemConfig
                                     THEN Mirror!Copy(Mirror!H(l), host[Mirror!Source(Mirror!H(l), "etc")]) ELSE Mirror!Absent
<1>1. PICK h : h = launch[l].harness /\ h = Mirror!H(l)
  BY DEF Mirror!H
<1>2. Calm(l) /\ Whole(l)
  BY DEF MirrorInv, Calm, Mirror!Busy
<1>3. PICK binds : binds = launch[l].binds /\ binds = Mirror!Mountable(l)
  BY <1>2 DEF Whole
<1>4. \A i \in Mirror!Items :
        Mirror!Finds(l)[i] = IF i \in binds \/ (i = "guide" /\ h \in InState) THEN mirror[Mirror!Place(h, i)] ELSE Mirror!Absent
  BY <1>1, <1>3 DEF Mirror!Finds, Mirror!Here
<1>5. \A i \in Mirror!Mirrors : Mirrored(l, i)
  <2>1. Done(l) = 1..Len(Mirror!Plan)
    BY DEF Done
  <2>2. QED
    BY <1>1, <1>2, <2>1, PlanIs DEF Whole
<1>6. \A i \in Mirror!Mirrors : i \in binds <=> mirror[Mirror!Place(h, i)] # Mirror!Absent
  BY <1>1, <1>3, PlanIs DEF Mirror!Mountable, Mirror!Here
<1>7. \A i \in Mirror!Mirrors : i # "guide" /\ i \in Mirror!Items
  BY ItemsAre, PlanIs
<1>8. ASSUME NEW i \in Mirror!Mirrors, ~Mirror!Missed(l, i)
      PROVE  Mirror!Finds(l)[i] = IF host[Mirror!Source(Mirror!H(l), i)] = 0 THEN Mirror!Absent
                                  ELSE Mirror!Copy(Mirror!H(l), host[Mirror!Source(Mirror!H(l), i)])
  <2>1. Mirror!Finds(l)[i] = mirror[Mirror!Place(h, i)]
    BY <1>4, <1>6, <1>7
  <2>2. QED
    BY <1>1, <1>5, <1>8, <2>1 DEF Mirrored, Exact, Version
<1>9. mirror[Mirror!Place(h, "guide")] \in Mirror!OwnGuide(l)
      /\ (h \in SystemConfig => mirror[Mirror!Place(h, "etc")] = Mirror!Copy(h, Version(h, "etc")))
  BY <1>1, <1>2 DEF Whole, Configured, Guided
<1>10. ("guide" \in binds <=> h \notin InState) /\ ("etc" \in binds <=> h \in SystemConfig)
  BY <1>1, <1>3, <1>9, PlanIs, Absence, OwnGuideIs DEF Mirror!Mountable, Mirror!Here
<1>11. Mirror!Finds(l)["guide"] \in Mirror!OwnGuide(l)
  BY <1>1, <1>4, <1>9, <1>10, ItemsAre
<1>12. Mirror!Finds(l)["etc"] = IF Mirror!H(l) \in SystemConfig
         THEN Mirror!Copy(Mirror!H(l), host[Mirror!Source(Mirror!H(l), "etc")]) ELSE Mirror!Absent
  BY <1>1, <1>4, <1>9, <1>10, ItemsAre DEF Version
<1>13. QED
  BY <1>8, <1>11, <1>12

LEMMA MirrorImplies == ASSUME MirrorInv PROVE Mirror!TypeOK /\ Mirror!HarnessesApart
<1>1. Mirror!TypeOK
  BY PlanIs DEF MirrorInv, MirrorTyped, LaunchOK, Record, Mirror!TypeOK
<1>2. Mirror!HarnessesApart
  BY DEF MirrorInv, MirrorTyped, LaunchOK, IsOwn, Mirror!HarnessesApart, Mirror!At, Mirror!H
<1>3. QED
  BY <1>1, <1>2

\* What launches prepare on the host is sound for any number of processes, harnesses and
\* items, any bound on the changes by the user and the agents, and any state of the
\* sources: an agent finds what was put there for its own harness, and a launch that nobody
\* disturbs and that reports nothing starts it on the host's config of that moment, item by
\* item unless the launch failed to remove the item or rsync takes a file of it for the
\* source's, and on its own guide or on a link that an agent put in the guide's place.
THEOREM MirrorsAreSound == Mirror!Spec => MirrorIsSound
<1>1. Mirror!Init => MirrorInv
  BY InitHolds
<1>2. MirrorInv /\ [Mirror!Next]_mirrorVars => MirrorInv'
  BY MirrorStep
<1>3. MirrorInv /\ [Mirror!Next]_mirrorVars => Mirror!UndisturbedIsWhole
  <2> SUFFICES ASSUME MirrorInv, [Mirror!Next]_mirrorVars, NEW l \in Procs,
                      Mirror!Starts(l), ~launch[l].disturbed, ~launch[l].warned
               PROVE  /\ \A i \in Mirror!Mirrors : Mirror!Missed(l, i) \/
                           Mirror!Finds(l)[i] = IF host[Mirror!Source(Mirror!H(l), i)] = 0 THEN Mirror!Absent
                                                ELSE Mirror!Copy(Mirror!H(l), host[Mirror!Source(Mirror!H(l), i)])
                      /\ Mirror!Finds(l)["guide"] \in Mirror!OwnGuide(l)
                      /\ Mirror!Finds(l)["etc"] = IF Mirror!H(l) \in SystemConfig
                           THEN Mirror!Copy(Mirror!H(l), host[Mirror!Source(Mirror!H(l), "etc")]) ELSE Mirror!Absent
    BY DEF Mirror!UndisturbedIsWhole
  <2>1. launch[l].step = "create"
    BY DEF Mirror!Starts, Mirror!At
  <2>2. QED
    BY <2>1, CalmFindsAll
<1>4. MirrorInv => Mirror!TypeOK /\ Mirror!HarnessesApart
  BY MirrorImplies
<1>5. QED
  BY <1>1, <1>2, <1>3, <1>4, PTL DEF Mirror!Spec, mirrorVars, Mirror!vars, MirrorIsSound, Mirror!MirrorIsSound

------------------------------------------------------------------------------
(* What launches seed (StateSeed).                                         *)

Slots == 0..(Len(Seeds) * Tries)
SeedSteps == {"idle", "check", "source", "open", "write", "link", "linked", "taken"}
Attempting == {"write", "link", "linked", "taken"}
Written == [by : {"seed", "agent"}, keys : SUBSET Keys, whole : BOOLEAN]
Launching == [step : SeedSteps, at : 1..Len(Seeds), contents : SUBSET Keys,
              counter : Nat, tries : 0..Tries, temp : Slots]

Temp(p) == temps[Seed!Name(p)]
Given(p) == store[Seed!File(p)]

SeedTyped ==
  /\ store \in [Seed!Files -> Inodes \cup {Seed!NoInode, Seed!Other}]
  /\ temps \in [Seed!Names -> Inodes \cup {Seed!NoInode}]
  /\ inodes \in [Inodes -> Written]
  /\ seeding \in [Procs -> Launching]
  /\ kills \in Nat /\ touches \in Nat

\* No attempt runs out of names before it runs out of tries.
CountOK(r) == r.counter <= (r.at - 1) * Tries + r.tries

\* A key that stays on the host is not carried over.
Clean(f, keys) == f \in Objects => keys \cap RemoveKeys = {}
Sourced == {"open"} \cup Attempting
CleanOK(p) == seeding[p].step \in Sourced => Clean(Seed!File(p), seeding[p].contents)

\* An attempt has a temporary file, which nobody has left, and until it is linked that is
\* not in the store; what is about to be linked is whole.
AttemptOK(p) ==
  seeding[p].step \in Attempting =>
    /\ Temp(p) # Seed!NoInode /\ Seed!Name(p) \notin left
    /\ seeding[p].step # "linked" => \A f \in Seed!Files : store[f] # Temp(p)
    /\ seeding[p].step = "link" => inodes[Temp(p)] = Seed!Seed(seeding[p].contents)

\* Two temporary names are two files.
TempsApart == \A n, m \in Seed!Names : temps[n] = temps[m] /\ temps[n] # Seed!NoInode => n = m

\* What is left behind is there, and each kill leaves at most one.
LeftOK ==
  /\ left \subseteq {n \in Seed!Names : temps[n] # Seed!NoInode}
  /\ IsFiniteSet(left) /\ Cardinality(left) <= kills

\* The names a launch has come past that somebody had left.
Passed(p) == {n \in left : n[1] = p /\ n[2] < seeding[p].counter}
\* An attempt under way is one more, unless the agent has already paid for it.
Going(p) ==
  IF seeding[p].step \in {"write", "link", "linked"} \/ (seeding[p].step = "taken" /\ Given(p) # Seed!NoInode) THEN 1 ELSE 0
TriesOK(p) == seeding[p].tries <= Cardinality(Passed(p)) + touches + Going(p)

SeedInv ==
  /\ SeedTyped /\ TempsApart /\ LeftOK /\ Seed!SeenIsWhole /\ Seed!TempsAreDropped
  /\ \A p \in Procs : CountOK(seeding[p]) /\ CleanOK(p) /\ AttemptOK(p) /\ TriesOK(p)

LEMMA Multiples ==
  ASSUME NEW a \in Nat \ {0}, NEW n \in Nat, NEW len \in Nat, a <= len
  PROVE  /\ (a - 1) * n \in Nat /\ a * n \in Nat /\ len * n \in Nat
         /\ (a - 1) * n + n = a * n /\ a * n <= len * n
<1>1. PICK b \in Nat : b = len - a
  OBVIOUS
<1>2. a * n \in Nat /\ b * n \in Nat /\ (a - 1) * n \in Nat
  OBVIOUS
<1>3. len * n = a * n + b * n
  BY <1>1
<1>4. (a - 1) * n + n = a * n
  OBVIOUS
<1>5. QED
  BY <1>2, <1>3, <1>4

LEMMA SeedsAre ==
  /\ Tries \in Nat /\ Len(Seeds) \in Nat \ {0}
  /\ Seed!NoInode \notin Inodes /\ Seed!Other \notin Inodes /\ Seed!NoInode # Seed!Other
  /\ \A n \in 1..Len(Seeds) : Seeds[n] \in Seed!Files
  /\ Seed!Names = Procs \X Slots /\ 0 \in Slots
<1>1. Tries \in Nat /\ Seeds \in Seq(Seed!Files) /\ Seeds # <<>> /\ Inodes \subseteq Nat \ {0}
  BY SeedingAssumption DEF Seed!TriesAssumption, Seed!SeedsAssumption, Seed!InodesAssumption, Seed!NoInode
<1>2. Len(Seeds) \in Nat \ {0} /\ \A n \in 1..Len(Seeds) : Seeds[n] \in Seed!Files
  BY <1>1
<1>3. Len(Seeds) * Tries \in Nat
  BY <1>1, <1>2, Multiples
<1>4. QED
  BY <1>1, <1>2, <1>3 DEF Seed!NoInode, Seed!Other, Seed!Names, Slots

LEMMA LaunchingIs ==
  ASSUME SeedTyped, NEW p \in Procs
  PROVE  /\ seeding[p] \in Launching /\ seeding[p].at \in 1..Len(Seeds) /\ seeding[p].contents \in SUBSET Keys
         /\ seeding[p].counter \in Nat /\ seeding[p].tries \in 0..Tries /\ seeding[p].temp \in Slots
         /\ Seed!File(p) \in Seed!Files
         /\ Seed!Name(p) \in Seed!Names /\ Seed!Name(p)[1] = p /\ Seed!Name(p)[2] = seeding[p].temp
         /\ Temp(p) \in Inodes \cup {Seed!NoInode}
<1>1. seeding[p] \in Launching
  BY DEF SeedTyped
<1>2. seeding[p].at \in 1..Len(Seeds) /\ seeding[p].contents \in SUBSET Keys
      /\ seeding[p].counter \in Nat /\ seeding[p].tries \in 0..Tries /\ seeding[p].temp \in Slots
  BY <1>1 DEF Launching
<1>3. Seed!Name(p) \in Seed!Names /\ Seed!Name(p)[1] = p /\ Seed!Name(p)[2] = seeding[p].temp
  BY <1>2, SeedsAre DEF Seed!Name
<1>4. Seed!File(p) \in Seed!Files
  BY <1>2, SeedsAre DEF Seed!File
<1>5. QED
  BY <1>1, <1>2, <1>3, <1>4 DEF Temp, SeedTyped

\* A launch that rests, and one that goes on to the next file.
LEMMA RestIs == Seed!Idle \in Launching /\ CountOK(Seed!Idle) /\ Seed!Idle.step = "idle" /\ Seed!Idle.tries = 0
                /\ Seed!Idle.counter = 0
<1>1. Tries \in Nat /\ 1 \in 1..Len(Seeds) /\ 0 \in 0..Tries /\ 0 \in Slots /\ {} \in SUBSET Keys
  BY SeedsAre
<1>2. Seed!Idle \in Launching
  BY <1>1 DEF Seed!Idle, Launching, SeedSteps
<1>3. Seed!Idle.at = 1 /\ Seed!Idle.counter = 0 /\ Seed!Idle.tries = 0 /\ Seed!Idle.step = "idle"
  BY DEF Seed!Idle
<1>4. (1 - 1) * Tries = 0
  BY <1>1
<1>5. QED
  BY <1>2, <1>3, <1>4 DEF CountOK

LEMMA NextIs ==
  ASSUME NEW l \in Launching, CountOK(l), NEW r, r = Seed!Following(l)
  PROVE  r \in Launching /\ CountOK(r) /\ r.tries = 0 /\ r.step \in {"idle", "check"}
<1>1. l.at \in 1..Len(Seeds) /\ l.counter \in Nat /\ l.tries \in 0..Tries
  BY DEF Launching
<1>2. CASE l.at = Len(Seeds)
  BY <1>2, RestIs DEF Seed!Following
<1>3. CASE l.at # Len(Seeds)
  <2>1. r = [Seed!Idle EXCEPT !.step = "check", !.at = l.at + 1, !.counter = l.counter]
    BY <1>3 DEF Seed!Following
  <2>2. l.at + 1 \in 1..Len(Seeds)
    BY <1>1, <1>3, SeedsAre
  <2>3. /\ r \in Launching /\ r.tries = 0 /\ r.step = "check" /\ r.at = l.at + 1 /\ r.counter = l.counter
    BY <1>1, <2>1, <2>2, RestIs DEF Launching, SeedSteps
  <2>4. (l.at - 1) * Tries \in Nat /\ l.at * Tries \in Nat /\ (l.at - 1) * Tries + Tries = l.at * Tries
    BY <1>1, SeedsAre, Multiples
  <2>5. l.counter <= l.at * Tries
    BY <1>1, <2>4, SeedsAre DEF CountOK
  <2>6. (r.at - 1) * Tries + r.tries = l.at * Tries
    <3>1. r.at - 1 = l.at
      BY <1>1, <2>3
    <3>2. QED
      BY <2>3, <2>4, <3>1
  <2>7. QED
    BY <2>3, <2>5, <2>6 DEF CountOK
<1>4. QED
  BY <1>2, <1>3

LEMMA SeedInit == ASSUME Seed!Init PROVE SeedInv
<1>1. SeedTyped
  <2>1. Seed!Empty \in Written
    BY DEF Seed!Empty, Written
  <2>2. QED
    BY <2>1, RestIs DEF SeedTyped, Seed!Init
<1>2. TempsApart /\ Seed!TempsAreDropped
  BY DEF TempsApart, Seed!TempsAreDropped, Seed!Init
<1>3. LeftOK
  <2>1. IsFiniteSet(left) /\ Cardinality(left) = 0
    BY FS_EmptySet DEF Seed!Init
  <2>2. QED
    BY <2>1 DEF LeftOK, Seed!Init
<1>4. Seed!SeenIsWhole
  BY SeedsAre DEF Seed!SeenIsWhole, Seed!Init
<1>5. ASSUME NEW p \in Procs PROVE CountOK(seeding[p]) /\ CleanOK(p) /\ AttemptOK(p) /\ TriesOK(p)
  <2>1. seeding[p] = Seed!Idle
    BY DEF Seed!Init
  <2>2. Passed(p) = {} /\ touches = 0 /\ Going(p) = 0
    BY <2>1, RestIs DEF Passed, Seed!Init, Going
  <2>3. QED
    BY <2>1, <2>2, RestIs, FS_EmptySet DEF CleanOK, Sourced, Attempting, AttemptOK, TriesOK
<1>6. QED
  BY <1>1, <1>2, <1>3, <1>4, <1>5 DEF SeedInv

------------------------------------------------------------------------------
(* A launch that does not move, whatever the others and the agent do.      *)

\* What the names of a launch refer to stays, and so do the files it alone refers to.
\* Nothing of the store goes away but by the agent, and nothing of the launch gets there.
Spared(q) ==
  /\ \A n \in Seed!Names : n[1] = q =>
       /\ temps'[n] = temps[n] /\ (n \in left' <=> n \in left)
       /\ temps[n] # Seed!NoInode /\ (\A f \in Seed!Files : store[f] # temps[n]) =>
            /\ inodes'[temps[n]] = inodes[temps[n]]
            /\ \A f \in Seed!Files : store'[f] # temps[n]
  /\ touches' = touches \/ touches' = touches + 1
  /\ touches' = touches => \A f \in Seed!Files : store[f] # Seed!NoInode => store'[f] # Seed!NoInode

Sound(p) == CountOK(seeding[p]) /\ CleanOK(p) /\ AttemptOK(p) /\ TriesOK(p)

LEMMA PassedIs ==
  ASSUME LeftOK, kills \in Nat, NEW p
  PROVE  IsFiniteSet(Passed(p)) /\ Cardinality(Passed(p)) \in Nat /\ Cardinality(Passed(p)) <= kills
<1>1. IsFiniteSet(left) /\ Cardinality(left) <= kills /\ Passed(p) \subseteq left
  BY DEF LeftOK, Passed
<1>2. IsFiniteSet(Passed(p)) /\ Cardinality(Passed(p)) <= Cardinality(left)
  BY <1>1, FS_Subset
<1>3. Cardinality(Passed(p)) \in Nat /\ Cardinality(left) \in Nat
  BY <1>1, <1>2, FS_CardinalityType
<1>4. QED
  BY <1>1, <1>2, <1>3

\* The tries of a launch that has passed no less, and for which the agent has paid what
\* is no longer under way.
LEMMA TriesKept ==
  ASSUME NEW p, NEW q, IsFiniteSet(Passed(p)'), Passed(q) \subseteq Passed(p)', TriesOK(q),
         touches \in Nat, touches' \in Nat, Going(q) \in 0..1, Going(p)' \in 0..1,
         seeding'[p].tries \in Nat, seeding[q].tries \in Nat,
         seeding'[p].tries + touches + Going(q) <= seeding[q].tries + touches' + Going(p)'
  PROVE  TriesOK(p)'
<1>1. /\ Cardinality(Passed(q)) <= Cardinality(Passed(p)')
      /\ Cardinality(Passed(q)) \in Nat /\ Cardinality(Passed(p)') \in Nat
  BY FS_Subset, FS_CardinalityType
<1>2. PICK a, b \in Nat : a = Cardinality(Passed(q)) /\ b = Cardinality(Passed(p)')
  BY <1>1
<1>3. PICK g, h \in 0..1 : g = Going(q) /\ h = Going(p)'
  OBVIOUS
<1>4. seeding[q].tries <= a + touches + g /\ a <= b
  BY <1>1, <1>2, <1>3 DEF TriesOK
<1>5. seeding'[p].tries <= b + touches' + h
  BY <1>2, <1>3, <1>4
<1>6. QED
  BY <1>2, <1>3, <1>5 DEF TriesOK

LEMMA SparedIs ==
  ASSUME SeedInv, NEW q \in Procs, seeding'[q] = seeding[q], left' \subseteq Seed!Names, Spared(q)
  PROVE  Sound(q)'
<1>1. SeedTyped /\ LeftOK /\ Sound(q)
  BY DEF SeedInv, Sound
<1>2. /\ Seed!Name(q) \in Seed!Names /\ Seed!Name(q)[1] = q /\ Seed!File(q) \in Seed!Files
      /\ seeding[q].tries \in 0..Tries /\ touches \in Nat /\ Tries \in Nat
  BY <1>1, LaunchingIs, SeedsAre DEF SeedTyped
<1>3. Seed!Name(q)' = Seed!Name(q) /\ Seed!File(q)' = Seed!File(q)
  BY DEF Seed!Name, Seed!File
<1>4. Temp(q)' = Temp(q) /\ (Seed!Name(q) \in left' <=> Seed!Name(q) \in left)
  BY <1>2, <1>3 DEF Temp, Spared
<1>5. CountOK(seeding[q])' /\ CleanOK(q)'
  BY <1>1, <1>3 DEF Sound, CountOK, CleanOK, Clean
<1>6. AttemptOK(q)'
  <2> SUFFICES ASSUME seeding[q].step \in Attempting
               PROVE  /\ Temp(q) # Seed!NoInode /\ Seed!Name(q) \notin left'
                      /\ seeding[q].step # "linked" => \A f \in Seed!Files : store'[f] # Temp(q)
                      /\ seeding[q].step = "link" => inodes'[Temp(q)] = Seed!Seed(seeding[q].contents)
    BY <1>3, <1>4 DEF AttemptOK, Attempting, Seed!Seed
  <2>1. /\ Temp(q) # Seed!NoInode /\ Seed!Name(q) \notin left
        /\ seeding[q].step # "linked" => \A f \in Seed!Files : store[f] # Temp(q)
        /\ seeding[q].step = "link" => inodes[Temp(q)] = Seed!Seed(seeding[q].contents)
    BY <1>1 DEF Sound, AttemptOK
  <2>2. seeding[q].step # "linked" => inodes'[Temp(q)] = inodes[Temp(q)] /\ \A f \in Seed!Files : store'[f] # Temp(q)
    BY <1>2, <2>1 DEF Spared, Temp
  <2>3. QED
    BY <1>4, <2>1, <2>2
<1>7. Passed(q)' = Passed(q)
  <2>1. left \subseteq Seed!Names /\ left' \subseteq Seed!Names
    BY <1>1 DEF LeftOK
  <2>2. \A n \in Seed!Names : n[1] = q => (n \in left' <=> n \in left)
    BY DEF Spared
  <2>3. QED
    BY <2>1, <2>2 DEF Passed
<1>8. TriesOK(q)'
  <2>1. Going(q) \in 0..1 /\ Going(q)' \in 0..1
    BY DEF Going
  <2>2. touches' = touches => Going(q) = 0 \/ Going(q)' = 1
    BY <1>2, <1>3 DEF Going, Given, Spared
  <2>3. touches + Going(q) <= touches' + Going(q)' /\ touches' \in Nat
    BY <1>2, <2>1, <2>2 DEF Spared
  <2>4. IsFiniteSet(Passed(q)')
    <3>1. IsFiniteSet(Passed(q))
      BY <1>1, PassedIs DEF SeedTyped
    <3>2. QED
      BY <1>7, <3>1
  <2>5. seeding[q].tries \in Nat /\ seeding'[q].tries = seeding[q].tries
    BY <1>2
  <2>6. QED
    BY <1>1, <1>2, <1>7, <2>1, <2>3, <2>4, <2>5, TriesKept DEF Sound
<1>9. QED
  BY <1>5, <1>6, <1>8 DEF Sound

LEMMA OneMoves ==
  ASSUME SeedInv, NEW p \in Procs,
         SeedTyped', TempsApart', LeftOK', Seed!SeenIsWhole', Seed!TempsAreDropped', Sound(p)',
         \A q \in Procs : q # p => seeding'[q] = seeding[q] /\ Spared(q)
  PROVE  SeedInv'
<1>1. \A q \in Procs : Sound(q)'
  BY SparedIs DEF LeftOK
<1>2. QED
  BY <1>1 DEF SeedInv, Sound

\* Where a launch goes, and nobody else.
LEMMA SeedGoes ==
  ASSUME SeedTyped, NEW p \in Procs, NEW r \in Launching, Seed!Goes(p, r)
  PROVE  /\ seeding' \in [Procs -> Launching] /\ seeding'[p] = r
         /\ \A q \in Procs : q # p => seeding'[q] = seeding[q]
BY DEF SeedTyped, Seed!Goes

\* Temporary files are those of attempts, or left.
LEMMA DroppedStill ==
  ASSUME SeedInv, NEW p \in Procs, seeding' \in [Procs -> Launching], left \subseteq left',
         \A q \in Procs : q # p => seeding'[q] = seeding[q],
         \A n \in Seed!Names : n[1] # p => temps'[n] = temps[n],
         \A n \in Seed!Names : n[1] = p /\ temps'[n] # Seed!NoInode =>
           n \in left' \/ (seeding'[p].step \in Attempting /\ n[2] = seeding'[p].temp)
  PROVE  Seed!TempsAreDropped'
<1> SUFFICES ASSUME NEW n \in Seed!Names, temps'[n] # Seed!NoInode
             PROVE  n \in left' \/ (seeding'[n[1]].step \in Attempting /\ Seed!Name(n[1])' = n)
  BY DEF Seed!TempsAreDropped, Attempting, Seed!NoInode
<1>1. n = <<n[1], n[2]>> /\ n[1] \in Procs
  BY SeedsAre
<1>2. \A q : Seed!Name(q)' = <<q, seeding'[q].temp>>
  BY DEF Seed!Name
<1>3. CASE n[1] = p
  BY <1>1, <1>2, <1>3
<1>4. CASE n[1] # p
  <2>1. n \in left \/ (seeding[n[1]].step \in Attempting /\ Seed!Name(n[1]) = n)
    BY <1>4 DEF SeedInv, Seed!TempsAreDropped, Attempting
  <2>2. Seed!Name(n[1])' = Seed!Name(n[1])
    BY <1>1, <1>4 DEF Seed!Name
  <2>3. QED
    BY <1>1, <1>4, <2>1, <2>2
<1>5. QED
  BY <1>3, <1>4

\* A launch goes on by itself.
LEMMA Notes ==
  ASSUME SeedInv, NEW p \in Procs, NEW r \in Launching, Seed!Goes(p, r),
         UNCHANGED <<store, temps, inodes, left, kills, touches>>,
         CountOK(r), CleanOK(p)', AttemptOK(p)', TriesOK(p)',
         seeding[p].step \in Attempting => r.step \in Attempting /\ r.temp = seeding[p].temp
  PROVE  SeedInv'
<1>1. SeedTyped /\ TempsApart /\ LeftOK /\ Seed!SeenIsWhole /\ Seed!TempsAreDropped
  BY DEF SeedInv
<1>2. /\ seeding' \in [Procs -> Launching] /\ seeding'[p] = r
      /\ \A q \in Procs : q # p => seeding'[q] = seeding[q]
  BY <1>1, SeedGoes
<1>3. SeedTyped' /\ TempsApart' /\ LeftOK' /\ Seed!SeenIsWhole'
  BY <1>1, <1>2 DEF SeedTyped, TempsApart, LeftOK, Seed!SeenIsWhole
<1>4. \A q \in Procs : Spared(q)
  BY DEF Spared
<1>5. Seed!TempsAreDropped'
  <2>1. \A n \in Seed!Names : n[1] = p /\ temps'[n] # Seed!NoInode =>
          n \in left' \/ (r.step \in Attempting /\ n[2] = r.temp)
    <3> SUFFICES ASSUME NEW n \in Seed!Names, n[1] = p, temps[n] # Seed!NoInode, n \notin left
                 PROVE  r.step \in Attempting /\ n[2] = r.temp
      OBVIOUS
    <3>1. seeding[p].step \in Attempting /\ Seed!Name(p) = n
      BY <1>1 DEF Seed!TempsAreDropped, Attempting
    <3>2. n[2] = seeding[p].temp
      BY <1>1, <3>1, LaunchingIs
    <3>3. QED
      BY <3>1, <3>2
  <2>2. QED
    BY <1>2, <2>1, DroppedStill
<1>6. Sound(p)'
  BY <1>2 DEF Sound, CountOK
<1>7. QED
  BY <1>2, <1>3, <1>4, <1>5, <1>6, OneMoves

------------------------------------------------------------------------------
(* The steps of a launch.                                                  *)

\* A launch that is not at an attempt and has tried nothing.
LEMMA NothingTried ==
  ASSUME SeedInv, NEW p \in Procs, NEW r \in Launching, r.tries = 0, r.step \notin Sourced,
         seeding'[p] = r, IsFiniteSet(left'), touches' \in Nat
  PROVE  CleanOK(p)' /\ AttemptOK(p)' /\ TriesOK(p)'
<1>1. CleanOK(p)' /\ AttemptOK(p)'
  BY DEF CleanOK, AttemptOK, Sourced
<1>2. Passed(p)' \subseteq left'
  BY DEF Passed
<1>3. Cardinality(Passed(p)') \in Nat
  BY <1>2, FS_Subset, FS_CardinalityType
<1>4. Going(p)' = 0
  BY DEF Going, Sourced, Attempting
<1>5. PICK n \in Nat : n = Cardinality(Passed(p)')
  BY <1>3
<1>6. 0 <= n + touches' + 0
  BY <1>5
<1>7. QED
  BY <1>1, <1>4, <1>5, <1>6 DEF TriesOK

\* A launch that keeps its place and its count, and gives nothing up.
LEMMA SameTries ==
  ASSUME SeedInv, NEW p \in Procs, NEW r \in Launching, seeding'[p] = r,
         UNCHANGED <<left, touches>>, r.counter = seeding[p].counter, r.tries = seeding[p].tries,
         Going(p) = 0 \/ Going(p)' = 1
  PROVE  TriesOK(p)'
<1>1. SeedTyped /\ LeftOK /\ TriesOK(p)
  BY DEF SeedInv
<1>2. Passed(p)' = Passed(p) /\ IsFiniteSet(Passed(p))
  BY <1>1, PassedIs DEF Passed, SeedTyped
<1>3. /\ touches \in Nat /\ touches' = touches /\ Tries \in Nat /\ seeding[p].tries \in 0..Tries
      /\ seeding'[p].tries = seeding[p].tries
  BY <1>1, LaunchingIs, SeedsAre DEF SeedTyped
<1>4. Going(p) \in 0..1 /\ Going(p)' \in 0..1
  BY DEF Going
<1>5. seeding'[p].tries + touches + Going(p) <= seeding[p].tries + touches' + Going(p)'
  BY <1>3, <1>4
<1>6. QED
  BY <1>1, <1>2, <1>3, <1>4, <1>5, TriesKept

LEMMA Rests ==
  ASSUME SeedInv, NEW p \in Procs, NEW r \in Launching, Seed!Goes(p, r),
         UNCHANGED <<store, temps, inodes, left, kills, touches>>,
         seeding[p].step \notin Attempting, CountOK(r), r.tries = 0, r.step \notin Sourced
  PROVE  SeedInv'
<1>1. seeding'[p] = r /\ touches' \in Nat /\ IsFiniteSet(left')
  BY SeedGoes DEF SeedInv, SeedTyped, LeftOK
<1>2. CleanOK(p)' /\ AttemptOK(p)' /\ TriesOK(p)'
  BY <1>1, NothingTried
<1>3. QED
  BY <1>2, Notes

LEMMA SoundIs == ASSUME SeedInv, NEW p \in Procs PROVE SeedTyped /\ Sound(p) /\ seeding[p] \in Launching
BY LaunchingIs DEF SeedInv, Sound

LEMMA LaunchKeeps == ASSUME SeedInv, NEW p \in Procs, Seed!Launch(p) PROVE SeedInv'
<1>1. PICK r : r = [Seed!Idle EXCEPT !.step = "check"]
  OBVIOUS
<1>2. /\ seeding[p].step = "idle" /\ Seed!Goes(p, r)
      /\ UNCHANGED <<store, temps, inodes, left, kills, touches>>
  BY <1>1 DEF Seed!Launch, Seed!At
<1>3. r \in Launching /\ r.tries = 0 /\ r.step = "check" /\ r.counter = Seed!Idle.counter /\ r.at = Seed!Idle.at
  BY <1>1, RestIs DEF Launching, SeedSteps
<1>4. CountOK(r)
  BY <1>3, RestIs DEF CountOK
<1>5. QED
  BY <1>2, <1>3, <1>4, Rests DEF Attempting, Sourced

\* A launch that fails, or finds that a file needs nothing.
LEMMA LeavesKeep ==
  ASSUME SeedInv, NEW p \in Procs, seeding[p].step \notin Attempting,
         UNCHANGED <<store, temps, inodes, left, kills, touches>>,
         Seed!Fails(p) \/ Seed!Goes(p, Seed!Following(seeding[p]))
  PROVE  SeedInv'
<1>1. PICK r : Seed!Goes(p, r) /\ (r = Seed!Idle \/ r = Seed!Following(seeding[p]))
  BY DEF Seed!Fails
<1>2. seeding[p] \in Launching /\ CountOK(seeding[p])
  BY SoundIs DEF Sound
<1>3. r \in Launching /\ CountOK(r) /\ r.tries = 0 /\ r.step \notin Sourced
  BY <1>1, <1>2, RestIs, NextIs DEF Sourced, Attempting
<1>4. QED
  BY <1>1, <1>3, Rests

LEMMA CheckKeeps == ASSUME SeedInv, NEW p \in Procs, Seed!Check(p) PROVE SeedInv'
<1>1. /\ seeding[p].step = "check" /\ UNCHANGED <<store, temps, inodes, left, kills, touches>>
      /\ \/ Seed!Fails(p) \/ Seed!Goes(p, Seed!Following(seeding[p]))
         \/ Seed!Goes(p, [seeding[p] EXCEPT !.step = "source"])
  BY DEF Seed!Check, Seed!At
<1>2. CASE Seed!Goes(p, [seeding[p] EXCEPT !.step = "source"])
  <2>1. PICK r : r = [seeding[p] EXCEPT !.step = "source"]
    OBVIOUS
  <2>2. SeedTyped /\ Sound(p) /\ seeding[p] \in Launching
    BY SoundIs
  <2>3. /\ r \in Launching /\ r.step = "source" /\ r.counter = seeding[p].counter
        /\ r.tries = seeding[p].tries /\ r.at = seeding[p].at
    BY <2>1, <2>2 DEF Launching, SeedSteps
  <2>4. seeding'[p] = r
    BY <1>2, <2>1, <2>2, <2>3, SeedGoes
  <2>5. CountOK(r) /\ CleanOK(p)' /\ AttemptOK(p)'
    BY <2>2, <2>3, <2>4 DEF Sound, CountOK, CleanOK, AttemptOK, Sourced, Attempting
  <2>6. Going(p) = 0
    BY <1>1 DEF Going
  <2>7. TriesOK(p)'
    BY <1>1, <2>3, <2>4, <2>6, SameTries
  <2>8. QED
    BY <1>1, <1>2, <2>1, <2>3, <2>5, <2>7, Notes DEF Attempting
<1>3. QED
  BY <1>1, <1>2, LeavesKeep DEF Attempting

LEMMA SourceKeeps ==
  ASSUME SeedInv, NEW p \in Procs, NEW keys \in SUBSET Keys, Seed!Source(p, keys)
  PROVE  SeedInv'
<1>1. PICK contents : contents = Seed!seed_contents(Seed!File(p), keys)
  OBVIOUS
<1>2. PICK r : r = [seeding[p] EXCEPT !.step = "open", !.contents = contents]
  OBVIOUS
<1>3. seeding[p].step = "source" /\ UNCHANGED <<store, temps, inodes, left, kills, touches>> /\ Seed!Goes(p, r)
  BY <1>1, <1>2 DEF Seed!Source, Seed!At
<1>4. SeedTyped /\ Sound(p) /\ seeding[p] \in Launching
  BY SoundIs
<1>5. contents \in SUBSET Keys /\ Clean(Seed!File(p), contents)
  BY <1>1 DEF Seed!seed_contents, Clean
<1>6. /\ r \in Launching /\ r.step = "open" /\ r.contents = contents /\ r.counter = seeding[p].counter
      /\ r.tries = seeding[p].tries /\ r.at = seeding[p].at
  BY <1>2, <1>4, <1>5 DEF Launching, SeedSteps
<1>7. seeding'[p] = r
  BY <1>3, <1>4, <1>6, SeedGoes
<1>8. CleanOK(p)'
  <2>1. Seed!File(p)' = Seed!File(p)
    BY <1>6, <1>7 DEF Seed!File
  <2>2. QED
    BY <1>5, <1>6, <1>7, <2>1 DEF CleanOK, Clean
<1>9. CountOK(r) /\ AttemptOK(p)'
  BY <1>4, <1>6, <1>7 DEF Sound, CountOK, AttemptOK, Attempting
<1>10. TriesOK(p)'
  <2>1. Going(p) = 0
    BY <1>3 DEF Going
  <2>2. QED
    BY <1>3, <1>6, <1>7, <2>1, SameTries
<1>11. QED
  BY <1>3, <1>6, <1>8, <1>9, <1>10, Notes DEF Attempting

LEMMA GivesUpKeeps ==
  ASSUME SeedInv, NEW p \in Procs, Seed!NoSource(p) \/ Seed!BadSource(p) \/ Seed!Exhausted(p)
  PROVE  SeedInv'
<1>1. /\ seeding[p].step \notin Attempting /\ UNCHANGED <<store, temps, inodes, left, kills, touches>>
      /\ Seed!Fails(p) \/ Seed!Goes(p, Seed!Following(seeding[p]))
  BY DEF Seed!NoSource, Seed!BadSource, Seed!Exhausted, Seed!At, Attempting
<1>2. QED
  BY <1>1, LeavesKeep

LEMMA FreshIs ==
  ASSUME NEW i \in Seed!Fresh
  PROVE  /\ i \in Inodes /\ i # Seed!NoInode
         /\ \A f \in Seed!Files : store[f] # i
         /\ \A n \in Seed!Names : temps[n] # i
BY SeedsAre DEF Seed!Fresh, Seed!Used

\* The name an attempt tries, and the launch after it.
LEMMA CountedIs ==
  ASSUME SeedInv, NEW p \in Procs, seeding[p].step = "open", seeding[p].tries < Tries,
         NEW c, c = seeding[p].counter
  PROVE  /\ <<p, c>> \in Seed!Names /\ c \in Slots /\ c \in Nat
         /\ Seed!Counted(seeding[p]) \in Launching /\ CountOK(Seed!Counted(seeding[p]))
         /\ Seed!Counted(seeding[p]) = [seeding[p] EXCEPT !.counter = c + 1, !.tries = seeding[p].tries + 1]
<1>1. SeedTyped /\ Sound(p) /\ seeding[p] \in Launching
  BY SoundIs
<1>2. seeding[p].at \in 1..Len(Seeds) /\ c \in Nat /\ seeding[p].tries \in 0..Tries
  BY <1>1, LaunchingIs
<1>3. PICK a \in 1..Len(Seeds), t \in 0..Tries : a = seeding[p].at /\ t = seeding[p].tries
  BY <1>2
<1>4. PICK n \in Nat, m \in Nat : n = (a - 1) * Tries /\ m = Len(Seeds) * Tries /\ n + Tries <= m
  <2>1. a \in Nat \ {0} /\ a <= Len(Seeds) /\ Len(Seeds) \in Nat /\ Tries \in Nat
    BY <1>2, <1>3, SeedsAre
  <2>2. (a - 1) * Tries \in Nat /\ Len(Seeds) * Tries \in Nat /\ (a - 1) * Tries + Tries <= Len(Seeds) * Tries
    BY <2>1, Multiples
  <2>3. QED
    BY <2>2
<1>5. c <= n + t
  BY <1>1, <1>3, <1>4 DEF Sound, CountOK
<1>6. c \in Slots
  <2>1. t < Tries /\ Tries \in Nat
    BY <1>3, SeedsAre
  <2>2. c <= m
    BY ONLY <1>2, <1>4, <1>5, <2>1, n \in Nat, m \in Nat, t \in 0..Tries
  <2>3. c \in 0..m
    BY <1>2, <2>2
  <2>4. QED
    BY <1>4, <2>3 DEF Slots
<1>7. Seed!Counted(seeding[p]) = [seeding[p] EXCEPT !.counter = c + 1, !.tries = t + 1]
  BY <1>3 DEF Seed!Counted
<1>8. t + 1 \in 0..Tries /\ c + 1 \in Nat
  <2>1. t < Tries /\ Tries \in Nat
    BY <1>3, SeedsAre
  <2>2. QED
    BY <1>2, <2>1
<1>9. /\ Seed!Counted(seeding[p]) \in Launching /\ Seed!Counted(seeding[p]).at = a
      /\ Seed!Counted(seeding[p]).counter = c + 1 /\ Seed!Counted(seeding[p]).tries = t + 1
  BY <1>1, <1>3, <1>7, <1>8 DEF Launching
<1>10. c + 1 <= n + (t + 1)
  BY <1>2, <1>5
<1>11. CountOK(Seed!Counted(seeding[p]))
  BY <1>4, <1>9, <1>10 DEF CountOK
<1>12. <<p, c>> \in Seed!Names
  BY <1>6, SeedsAre
<1>13. QED
  BY <1>2, <1>3, <1>6, <1>7, <1>9, <1>11, <1>12

\* A name that somebody has left costs a try.
LEMMA SkipKeeps ==
  ASSUME SeedInv, NEW p \in Procs, seeding[p].step = "open", seeding[p].tries < Tries,
         temps[<<p, seeding[p].counter>>] # Seed!NoInode, Seed!Goes(p, Seed!Counted(seeding[p])),
         UNCHANGED <<store, temps, inodes, left, kills, touches>>
  PROVE  SeedInv'
<1>1. PICK c, r : c = seeding[p].counter /\ r = Seed!Counted(seeding[p])
  OBVIOUS
<1>2. /\ <<p, c>> \in Seed!Names /\ c \in Nat /\ r \in Launching /\ CountOK(r)
      /\ r = [seeding[p] EXCEPT !.counter = c + 1, !.tries = seeding[p].tries + 1]
  BY <1>1, CountedIs
<1>3. SeedTyped /\ Sound(p) /\ seeding[p] \in Launching /\ LeftOK
  BY SoundIs DEF SeedInv
<1>4. /\ r.step = "open" /\ r.contents = seeding[p].contents /\ r.at = seeding[p].at
      /\ r.counter = c + 1 /\ r.tries = seeding[p].tries + 1
  BY <1>2, <1>3 DEF Launching
<1>5. seeding'[p] = r
  BY <1>1, <1>2, <1>3, SeedGoes
<1>6. CleanOK(p)' /\ AttemptOK(p)'
  <2>1. Seed!File(p)' = Seed!File(p)
    BY <1>4, <1>5 DEF Seed!File
  <2>2. QED
    BY <1>3, <1>4, <1>5, <2>1 DEF Sound, CleanOK, Clean, AttemptOK, Sourced, Attempting
<1>7. TriesOK(p)'
  <2>1. <<p, c>> \in left
    BY <1>1, <1>2 DEF SeedInv, Seed!TempsAreDropped
  <2>2. <<p, c>> \notin Passed(p) /\ IsFiniteSet(Passed(p)) /\ Cardinality(Passed(p)) \in Nat
    BY <1>1, <1>2, <1>3, PassedIs DEF Passed, SeedTyped
  <2>3. Passed(p) \cup {<<p, c>>} \subseteq Passed(p)'
    <3>1. <<p, c>> \in Passed(p)'
      BY <1>2, <1>4, <1>5, <2>1 DEF Passed
    <3>2. ASSUME NEW n \in Passed(p) PROVE n \in Passed(p)'
      <4>1. n \in left /\ n[1] = p /\ n[2] < c
        BY <1>1 DEF Passed
      <4>2. n[2] \in Nat
        BY <1>3, <4>1, SeedsAre DEF LeftOK, Slots
      <4>3. n[2] < c + 1
        BY <1>2, <4>1, <4>2
      <4>4. QED
        BY <1>4, <1>5, <4>1, <4>3 DEF Passed
    <3>3. QED
      BY <3>1, <3>2
  <2>4. Cardinality(Passed(p) \cup {<<p, c>>}) = Cardinality(Passed(p)) + 1
    BY <2>2, FS_AddElement
  <2>5. IsFiniteSet(Passed(p)')
    <3>1. Passed(p)' \subseteq left
      BY DEF Passed
    <3>2. QED
      BY <1>3, <3>1, FS_Subset DEF LeftOK
  <2>6. PICK a, b \in Nat : a = Cardinality(Passed(p)) /\ b = Cardinality(Passed(p)')
    BY <2>2, <2>5, FS_CardinalityType
  <2>7. a + 1 <= b
    BY <2>3, <2>4, <2>5, <2>6, FS_Subset
  <2>8. Going(p) = 0 /\ Going(p)' = 0
    BY <1>4, <1>5 DEF Going
  <2>9. PICK t, w \in Nat : t = seeding[p].tries /\ w = touches
    BY <1>3, LaunchingIs, SeedsAre DEF SeedTyped
  <2>10. t <= a + w + 0
    BY <1>3, <2>6, <2>8, <2>9 DEF Sound, TriesOK
  <2>11. t + 1 <= b + w + 0
    BY <2>6, <2>7, <2>9, <2>10
  <2>12. QED
    BY <1>4, <1>5, <2>6, <2>8, <2>9, <2>11 DEF TriesOK
<1>8. QED
  BY <1>1, <1>2, <1>6, <1>7, Notes DEF Attempting

\* A launch that comes to a later name, or stays at its own, has passed no less.
LEMMA PassesMore ==
  ASSUME SeedInv, NEW p \in Procs, left' = left, seeding'[p].counter \in Nat,
         seeding[p].counter <= seeding'[p].counter
  PROVE  Passed(p) \subseteq Passed(p)' /\ IsFiniteSet(Passed(p)')
<1>1. SeedTyped /\ LeftOK /\ seeding[p].counter \in Nat
  BY SoundIs, LaunchingIs DEF SeedInv
<1>2. ASSUME NEW n \in Passed(p) PROVE n \in Passed(p)'
  <2>1. n \in left /\ n[1] = p /\ n[2] < seeding[p].counter
    BY DEF Passed
  <2>2. n[2] \in Nat
    BY <1>1, <2>1, SeedsAre DEF LeftOK, Slots
  <2>3. n[2] < seeding'[p].counter
    BY <1>1, <2>1, <2>2
  <2>4. QED
    BY <2>1, <2>3 DEF Passed
<1>3. Passed(p)' \subseteq left
  BY DEF Passed
<1>4. QED
  BY <1>1, <1>2, <1>3, FS_Subset DEF LeftOK

\* An attempt creates its temporary file.
LEMMA CreateTempKeeps ==
  ASSUME SeedInv, NEW p \in Procs, seeding[p].step = "open", seeding[p].tries < Tries,
         NEW c, c = seeding[p].counter, NEW i \in Seed!Fresh,
         temps[<<p, c>>] = Seed!NoInode,
         temps' = [temps EXCEPT ![<<p, c>>] = i], inodes' = [inodes EXCEPT ![i] = Seed!Empty],
         Seed!Goes(p, [Seed!Counted(seeding[p]) EXCEPT !.step = "write", !.temp = c]),
         UNCHANGED <<store, left, kills, touches>>
  PROVE  SeedInv'
<1>1. SeedTyped /\ Sound(p) /\ seeding[p] \in Launching /\ LeftOK /\ TempsApart
  BY SoundIs DEF SeedInv
<1>2. PICK name \in Seed!Names : name = <<p, c>>
  BY CountedIs
<1>3. c \in Slots /\ c \in Nat /\ CountOK(Seed!Counted(seeding[p])) /\ Seed!Counted(seeding[p]) \in Launching
      /\ Seed!Counted(seeding[p]) = [seeding[p] EXCEPT !.counter = c + 1, !.tries = seeding[p].tries + 1]
  BY CountedIs
<1>4. PICK l \in Launching : l = Seed!Counted(seeding[p])
  BY <1>3
<1>5. PICK r : r = [l EXCEPT !.step = "write", !.temp = c]
  OBVIOUS
<1>6. /\ l.contents = seeding[p].contents /\ l.at = seeding[p].at
      /\ l.counter = c + 1 /\ l.tries = seeding[p].tries + 1
  BY <1>1, <1>3, <1>4 DEF Launching
<1>7. /\ r \in Launching /\ r.step = "write" /\ r.temp = c /\ r.contents = l.contents /\ r.at = l.at
      /\ r.counter = l.counter /\ r.tries = l.tries
  BY <1>3, <1>4, <1>5 DEF Launching, SeedSteps
<1>8. /\ seeding' \in [Procs -> Launching] /\ seeding'[p] = r
      /\ \A q \in Procs : q # p => seeding'[q] = seeding[q]
  BY <1>1, <1>4, <1>5, <1>7, SeedGoes
<1>9. /\ i \in Inodes /\ i # Seed!NoInode
      /\ \A f \in Seed!Files : store[f] # i
      /\ \A n \in Seed!Names : temps[n] # i
  BY FreshIs
<1>10. /\ temps' \in [Seed!Names -> Inodes \cup {Seed!NoInode}] /\ temps'[name] = i
       /\ \A n \in Seed!Names : n # name => temps'[n] = temps[n]
  BY <1>1, <1>2, <1>9 DEF SeedTyped
<1>11. inodes' \in [Inodes -> Written] /\ \A j \in Inodes : j # i => inodes'[j] = inodes[j]
  BY <1>1, <1>9 DEF SeedTyped, Seed!Empty, Written
<1>12. SeedTyped'
  BY <1>1, <1>8, <1>10, <1>11 DEF SeedTyped
<1>13. TempsApart'
  BY <1>1, <1>9, <1>10 DEF TempsApart
<1>14. LeftOK' /\ name \notin left
  BY <1>1, <1>2, <1>9, <1>10 DEF LeftOK
<1>15. Seed!SeenIsWhole'
  BY <1>9, <1>11 DEF SeedInv, Seed!SeenIsWhole
<1>16. Seed!TempsAreDropped'
  <2>1. \A n \in Seed!Names : n[1] # p => temps'[n] = temps[n]
    BY <1>2, <1>10
  <2>2. \A n \in Seed!Names : n[1] = p /\ temps'[n] # Seed!NoInode =>
          n \in left' \/ (r.step \in Attempting /\ n[2] = r.temp)
    <3> SUFFICES ASSUME NEW n \in Seed!Names, n[1] = p, temps'[n] # Seed!NoInode
                 PROVE  n \in left \/ (r.step \in Attempting /\ n[2] = r.temp)
      OBVIOUS
    <3>1. CASE n = name
      BY <1>2, <1>7, <3>1 DEF Attempting
    <3>2. CASE n # name
      BY <1>10, <3>2 DEF SeedInv, Seed!TempsAreDropped
    <3>3. QED
      BY <3>1, <3>2
  <2>3. QED
    BY <1>8, <2>1, <2>2, DroppedStill
<1>17. Sound(p)'
  <2>1. Seed!Name(p)' = name /\ Seed!File(p)' = Seed!File(p)
    BY <1>2, <1>6, <1>7, <1>8 DEF Seed!Name, Seed!File
  <2>2. Temp(p)' = i
    BY <1>10, <2>1 DEF Temp
  <2>3. CountOK(seeding[p])'
    BY <1>3, <1>4, <1>7, <1>8 DEF CountOK
  <2>4. CleanOK(p)'
    BY <1>1, <1>6, <1>7, <1>8, <2>1 DEF Sound, CleanOK, Clean, Sourced
  <2>5. AttemptOK(p)'
    BY <1>7, <1>8, <1>9, <1>14, <2>1, <2>2 DEF AttemptOK
  <2>6. TriesOK(p)'
    <3>1. PICK t, w \in Nat : t = seeding[p].tries /\ w = touches
      BY <1>1, LaunchingIs, SeedsAre DEF SeedTyped
    <3>2. Going(p) = 0 /\ Going(p)' = 1
      BY <1>7, <1>8 DEF Going
    <3>3. seeding'[p].tries = t + 1 /\ touches' = w
      BY <1>6, <1>7, <1>8, <3>1
    <3>4. c <= seeding'[p].counter /\ seeding'[p].counter \in Nat
      BY <1>3, <1>6, <1>7, <1>8
    <3>5. Passed(p) \subseteq Passed(p)' /\ IsFiniteSet(Passed(p)')
      BY <3>4, PassesMore
    <3>6. seeding'[p].tries + touches + Going(p) <= seeding[p].tries + touches' + Going(p)'
      BY <3>1, <3>2, <3>3
    <3>7. TriesOK(p)
      BY <1>1 DEF Sound
    <3>8. QED
      BY <3>1, <3>2, <3>3, <3>5, <3>6, <3>7, TriesKept
  <2>7. QED
    BY <2>3, <2>4, <2>5, <2>6 DEF Sound
<1>18. \A q \in Procs : q # p => Spared(q)
  BY <1>1, <1>2, <1>9, <1>10, <1>11 DEF Spared, SeedTyped
<1>19. QED
  BY <1>8, <1>12, <1>13, <1>14, <1>15, <1>16, <1>17, <1>18, OneMoves

LEMMA OpenKeeps == ASSUME SeedInv, NEW p \in Procs, Seed!Open(p) PROVE SeedInv'
<1>1. PICK c : c = seeding[p].counter
  OBVIOUS
<1>2. seeding[p].step = "open" /\ seeding[p].tries < Tries /\ UNCHANGED <<store, left, kills, touches>>
  BY DEF Seed!Open, Seed!At
<1>3. CASE temps[<<p, c>>] # Seed!NoInode
  <2>1. Seed!Goes(p, Seed!Counted(seeding[p])) /\ UNCHANGED <<temps, inodes>>
    BY <1>1, <1>3 DEF Seed!Open
  <2>2. QED
    BY <1>1, <1>2, <1>3, <2>1, SkipKeeps
<1>4. CASE temps[<<p, c>>] = Seed!NoInode
  <2>1. PICK i \in Seed!Fresh :
          /\ temps' = [temps EXCEPT ![<<p, c>>] = i] /\ inodes' = [inodes EXCEPT ![i] = Seed!Empty]
          /\ Seed!Goes(p, [Seed!Counted(seeding[p]) EXCEPT !.step = "write", !.temp = c])
    BY <1>1, <1>4 DEF Seed!Open
  <2>2. QED
    BY <1>1, <1>2, <1>4, <2>1, CreateTempKeeps
<1>5. QED
  BY <1>3, <1>4

\* An attempt has its temporary file, and nobody else has it.
LEMMA AttemptIs ==
  ASSUME SeedInv, NEW p \in Procs, seeding[p].step \in Attempting
  PROVE  /\ Seed!Name(p) \in Seed!Names /\ Seed!Name(p)[1] = p
         /\ Temp(p) \in Inodes /\ Seed!Name(p) \notin left /\ temps[Seed!Name(p)] = Temp(p)
         /\ seeding[p].step # "linked" => \A f \in Seed!Files : store[f] # Temp(p)
         /\ \A n \in Seed!Names : n # Seed!Name(p) => temps[n] # Temp(p)
<1>1. SeedTyped /\ Sound(p) /\ TempsApart
  BY SoundIs DEF SeedInv
<1>2. Temp(p) # Seed!NoInode /\ Temp(p) \in Inodes \cup {Seed!NoInode} /\ Seed!Name(p) \notin left
      /\ (seeding[p].step # "linked" => \A f \in Seed!Files : store[f] # Temp(p))
  BY <1>1, LaunchingIs DEF Sound, AttemptOK
<1>3. Seed!Name(p) \in Seed!Names /\ Seed!Name(p)[1] = p /\ temps[Seed!Name(p)] = Temp(p)
  BY <1>1, LaunchingIs DEF Temp
<1>4. QED
  BY <1>1, <1>2, <1>3 DEF TempsApart

LEMMA WriteKeeps == ASSUME SeedInv, NEW p \in Procs, Seed!Write(p) PROVE SeedInv'
<1>1. PICK r, i, what : /\ r = [seeding[p] EXCEPT !.step = "link"] /\ i = Temp(p)
                        /\ what = Seed!Seed(seeding[p].contents)
  OBVIOUS
<1>2. /\ seeding[p].step = "write" /\ inodes' = [inodes EXCEPT ![i] = what] /\ Seed!Goes(p, r)
      /\ UNCHANGED <<store, temps, left, kills, touches>>
  BY <1>1 DEF Seed!Write, Seed!At, Temp
<1>3. SeedTyped /\ Sound(p) /\ seeding[p] \in Launching /\ LeftOK /\ TempsApart /\ seeding[p].contents \in SUBSET Keys
  BY SoundIs, LaunchingIs DEF SeedInv
<1>4. /\ Seed!Name(p) \in Seed!Names /\ Seed!Name(p)[1] = p /\ i \in Inodes /\ Seed!Name(p) \notin left
      /\ \A f \in Seed!Files : store[f] # i
      /\ \A n \in Seed!Names : n # Seed!Name(p) => temps[n] # i
  BY <1>1, <1>2, AttemptIs DEF Attempting
<1>5. /\ r \in Launching /\ r.step = "link" /\ r.temp = seeding[p].temp /\ r.contents = seeding[p].contents
      /\ r.at = seeding[p].at /\ r.counter = seeding[p].counter /\ r.tries = seeding[p].tries
  BY <1>1, <1>3 DEF Launching, SeedSteps
<1>6. /\ seeding' \in [Procs -> Launching] /\ seeding'[p] = r
      /\ \A q \in Procs : q # p => seeding'[q] = seeding[q]
  BY <1>2, <1>3, <1>5, SeedGoes
<1>7. /\ inodes' \in [Inodes -> Written] /\ inodes'[i] = what
      /\ \A j \in Inodes : j # i => inodes'[j] = inodes[j]
  BY <1>1, <1>2, <1>3, <1>4 DEF SeedTyped, Seed!Seed, Written
<1>8. SeedTyped' /\ TempsApart' /\ LeftOK'
  BY <1>2, <1>3, <1>6, <1>7 DEF SeedTyped, TempsApart, LeftOK
<1>9. Seed!SeenIsWhole'
  BY <1>2, <1>4, <1>7 DEF SeedInv, Seed!SeenIsWhole
<1>10. Seed!TempsAreDropped'
  <2>1. \A n \in Seed!Names : n[1] = p /\ temps'[n] # Seed!NoInode =>
          n \in left' \/ (r.step \in Attempting /\ n[2] = r.temp)
    <3> SUFFICES ASSUME NEW n \in Seed!Names, n[1] = p, temps[n] # Seed!NoInode, n \notin left
                 PROVE  r.step \in Attempting /\ n[2] = r.temp
      BY <1>2
    <3>1. Seed!Name(p) = n
      BY DEF SeedInv, Seed!TempsAreDropped
    <3>2. QED
      BY <1>3, <1>5, <3>1, LaunchingIs DEF Attempting
  <2>2. QED
    BY <1>2, <1>6, <2>1, DroppedStill
<1>11. Sound(p)'
  <2>1. Seed!Name(p)' = Seed!Name(p) /\ Seed!File(p)' = Seed!File(p) /\ Temp(p)' = i
    BY <1>1, <1>2, <1>5, <1>6 DEF Seed!Name, Seed!File, Temp
  <2>2. CountOK(seeding[p])'
    BY <1>3, <1>5, <1>6 DEF Sound, CountOK
  <2>3. CleanOK(p)'
    BY <1>2, <1>3, <1>5, <1>6, <2>1 DEF Sound, CleanOK, Clean, Sourced, Attempting
  <2>4. AttemptOK(p)'
    BY <1>1, <1>2, <1>4, <1>5, <1>6, <1>7, <2>1, SeedsAre DEF AttemptOK, Seed!Seed
  <2>5. TriesOK(p)'
    <3>1. Going(p)' = 1
      BY <1>5, <1>6 DEF Going
    <3>2. QED
      BY <1>2, <1>5, <1>6, <3>1, SameTries
  <2>6. QED
    BY <2>2, <2>3, <2>4, <2>5 DEF Sound
<1>12. \A q \in Procs : q # p => Spared(q)
  BY <1>2, <1>3, <1>4, <1>7 DEF Spared, SeedTyped
<1>13. QED
  BY <1>6, <1>8, <1>9, <1>10, <1>11, <1>12, OneMoves

LEMMA LinkKeeps == ASSUME SeedInv, NEW p \in Procs, Seed!Link(p) PROVE SeedInv'
<1>1. PICK file, i : file = Seed!File(p) /\ i = Temp(p)
  OBVIOUS
<1>2. seeding[p].step = "link" /\ UNCHANGED <<temps, inodes, left, kills, touches>>
  BY DEF Seed!Link, Seed!At
<1>3. SeedTyped /\ Sound(p) /\ seeding[p] \in Launching /\ LeftOK /\ TempsApart /\ file \in Seed!Files
      /\ seeding[p].contents \in SUBSET Keys
  BY <1>1, SoundIs, LaunchingIs DEF SeedInv
<1>4. /\ Seed!Name(p) \in Seed!Names /\ Seed!Name(p)[1] = p /\ i \in Inodes /\ Seed!Name(p) \notin left
      /\ \A f \in Seed!Files : store[f] # i
      /\ \A n \in Seed!Names : n # Seed!Name(p) => temps[n] # i
  BY <1>1, <1>2, AttemptIs DEF Attempting
<1>5. CASE store[file] # Seed!NoInode
  <2>1. PICK r : r = [seeding[p] EXCEPT !.step = "taken"]
    OBVIOUS
  <2>2. Seed!Goes(p, r) /\ UNCHANGED <<store, temps, inodes, left, kills, touches>>
    BY <1>1, <1>2, <1>5, <2>1 DEF Seed!Link
  <2>3. /\ r \in Launching /\ r.step = "taken" /\ r.temp = seeding[p].temp /\ r.contents = seeding[p].contents
        /\ r.at = seeding[p].at /\ r.counter = seeding[p].counter /\ r.tries = seeding[p].tries
    BY <1>3, <2>1 DEF Launching, SeedSteps
  <2>4. seeding'[p] = r
    BY <1>3, <2>2, <2>3, SeedGoes
  <2>5. Seed!Name(p)' = Seed!Name(p) /\ Seed!File(p)' = file /\ Temp(p)' = i
    BY <1>1, <1>2, <2>3, <2>4 DEF Seed!Name, Seed!File, Temp
  <2>6. CountOK(r)
    BY <1>3, <2>3 DEF Sound, CountOK
  <2>7. CleanOK(p)'
    BY <1>1, <1>2, <1>3, <2>3, <2>4, <2>5 DEF Sound, CleanOK, Clean, Sourced, Attempting
  <2>8. AttemptOK(p)'
    BY <1>2, <1>4, <2>2, <2>3, <2>4, <2>5, SeedsAre DEF AttemptOK
  <2>9. TriesOK(p)'
    <3>1. Going(p)' = 1
      BY <1>5, <2>2, <2>3, <2>4, <2>5 DEF Going, Given, Seed!NoInode
    <3>2. QED
      BY <2>2, <2>3, <2>4, <3>1, SameTries
  <2>10. QED
    BY <2>2, <2>3, <2>6, <2>7, <2>8, <2>9, Notes DEF Attempting
<1>6. CASE store[file] = Seed!NoInode
  <2>1. PICK r : r = [seeding[p] EXCEPT !.step = "linked"]
    OBVIOUS
  <2>2. Seed!Goes(p, r) /\ store' = [store EXCEPT ![file] = i]
    BY <1>1, <1>2, <1>6, <2>1 DEF Seed!Link, Temp
  <2>3. /\ r \in Launching /\ r.step = "linked" /\ r.temp = seeding[p].temp /\ r.contents = seeding[p].contents
        /\ r.at = seeding[p].at /\ r.counter = seeding[p].counter /\ r.tries = seeding[p].tries
    BY <1>3, <2>1 DEF Launching, SeedSteps
  <2>4. /\ seeding' \in [Procs -> Launching] /\ seeding'[p] = r
        /\ \A q \in Procs : q # p => seeding'[q] = seeding[q]
    BY <1>3, <2>2, <2>3, SeedGoes
  <2>5. Seed!Name(p)' = Seed!Name(p) /\ Seed!File(p)' = file /\ Temp(p)' = i
    BY <1>1, <1>2, <2>3, <2>4 DEF Seed!Name, Seed!File, Temp
  <2>6. /\ store' \in [Seed!Files -> Inodes \cup {Seed!NoInode, Seed!Other}] /\ store'[file] = i
        /\ \A f \in Seed!Files : f # file => store'[f] = store[f]
    BY <1>3, <1>4, <2>2 DEF SeedTyped
  <2>7. SeedTyped' /\ TempsApart' /\ LeftOK'
    BY <1>2, <1>3, <2>4, <2>6 DEF SeedTyped, TempsApart, LeftOK
  <2>8. Seed!SeenIsWhole'
    <3>1. inodes[i] = Seed!Seed(seeding[p].contents) /\ Clean(file, seeding[p].contents)
      BY <1>1, <1>2, <1>3 DEF Sound, AttemptOK, CleanOK, Sourced, Attempting
    <3>2. /\ inodes[i].whole
          /\ inodes[i].by = "seed" /\ file \in Objects => inodes[i].keys \cap RemoveKeys = {}
      BY <3>1 DEF Seed!Seed, Clean
    <3>3. QED
      BY <1>2, <2>6, <3>2 DEF SeedInv, Seed!SeenIsWhole
  <2>9. Seed!TempsAreDropped'
    <3>1. \A n \in Seed!Names : n[1] = p /\ temps'[n] # Seed!NoInode =>
            n \in left' \/ (r.step \in Attempting /\ n[2] = r.temp)
      <4> SUFFICES ASSUME NEW n \in Seed!Names, n[1] = p, temps[n] # Seed!NoInode, n \notin left
                   PROVE  r.step \in Attempting /\ n[2] = r.temp
        BY <1>2
      <4>1. Seed!Name(p) = n
        BY DEF SeedInv, Seed!TempsAreDropped
      <4>2. QED
        BY <1>3, <2>3, <4>1, LaunchingIs DEF Attempting
    <3>2. QED
      BY <1>2, <2>4, <3>1, DroppedStill
  <2>10. Sound(p)'
    <3>1. CountOK(seeding[p])'
      BY <1>3, <2>3, <2>4 DEF Sound, CountOK
    <3>2. CleanOK(p)'
      BY <1>1, <1>2, <1>3, <2>3, <2>4, <2>5 DEF Sound, CleanOK, Clean, Sourced, Attempting
    <3>3. AttemptOK(p)'
      BY <1>2, <1>4, <2>3, <2>4, <2>5, SeedsAre DEF AttemptOK
    <3>4. Going(p)' = 1
      BY <2>3, <2>4 DEF Going
    <3>5. TriesOK(p)'
      BY <1>2, <2>3, <2>4, <3>4, SameTries
    <3>6. QED
      BY <3>1, <3>2, <3>3, <3>5 DEF Sound
  <2>11. ASSUME NEW q \in Procs, q # p PROVE Spared(q)
    <3>1. \A n \in Seed!Names : n[1] = q => temps[n] # i
      BY <1>4, <2>11
    <3>2. \A f \in Seed!Files : store[f] # Seed!NoInode => store'[f] # Seed!NoInode
      BY <1>4, <2>6, SeedsAre
    <3>3. QED
      BY <1>2, <2>6, <3>1, <3>2 DEF Spared
  <2>12. QED
    BY <2>4, <2>7, <2>8, <2>9, <2>10, <2>11, OneMoves
<1>7. QED
  BY <1>5, <1>6

\* What something refers to stays.
LEMMA LiveIs ==
  ASSUME NEW d \in [Inodes -> Written], NEW names, NEW links
  PROVE  /\ Seed!Live(d, names, links) \in [Inodes -> Written]
         /\ \A f \in Seed!Files : names[f] \in Inodes => Seed!Live(d, names, links)[names[f]] = d[names[f]]
         /\ \A n \in Seed!Names : links[n] \in Inodes => Seed!Live(d, names, links)[links[n]] = d[links[n]]
<1>1. Seed!Empty \in Written
  BY DEF Seed!Empty, Written
<1>2. QED
  BY <1>1 DEF Seed!Live

\* An attempt ends, and its temporary file goes.
LEMMA DropKeeps ==
  ASSUME SeedInv, NEW p \in Procs, seeding[p].step \in Attempting, NEW r \in Launching, Seed!Drop(p, r),
         UNCHANGED <<store, left, kills, touches>>,
         r.step \notin Attempting, CountOK(r), CleanOK(p)', TriesOK(p)'
  PROVE  SeedInv'
<1>1. SeedTyped /\ Sound(p) /\ LeftOK /\ TempsApart
  BY SoundIs DEF SeedInv
<1>2. PICK name, i : name = Seed!Name(p) /\ i = Temp(p)
  OBVIOUS
<1>3. /\ name \in Seed!Names /\ name[1] = p /\ i \in Inodes /\ name \notin left /\ temps[name] = i
      /\ \A n \in Seed!Names : n # name => temps[n] # i
  BY <1>2, AttemptIs
<1>4. /\ temps' = [temps EXCEPT ![name] = Seed!NoInode]
      /\ inodes' = Seed!Live(inodes, store, temps') /\ Seed!Goes(p, r)
  BY <1>2 DEF Seed!Drop, Seed!NoInode
<1>5. /\ seeding' \in [Procs -> Launching] /\ seeding'[p] = r
      /\ \A q \in Procs : q # p => seeding'[q] = seeding[q]
  BY <1>1, <1>4, SeedGoes
<1>6. /\ temps' \in [Seed!Names -> Inodes \cup {Seed!NoInode}] /\ temps'[name] = Seed!NoInode
      /\ \A n \in Seed!Names : n # name => temps'[n] = temps[n]
  BY <1>1, <1>3, <1>4 DEF SeedTyped
<1>7. /\ inodes' \in [Inodes -> Written]
      /\ \A f \in Seed!Files : store[f] \in Inodes => inodes'[store[f]] = inodes[store[f]]
      /\ \A n \in Seed!Names : temps'[n] \in Inodes => inodes'[temps'[n]] = inodes[temps'[n]]
  <2>1. inodes \in [Inodes -> Written]
    BY <1>1 DEF SeedTyped
  <2>2. PICK links : links = temps'
    OBVIOUS
  <2>3. inodes' = Seed!Live(inodes, store, links)
    BY <1>4, <2>2
  <2>4. QED
    BY <2>1, <2>2, <2>3, LiveIs
<1>8. SeedTyped'
  BY <1>1, <1>5, <1>6, <1>7 DEF SeedTyped
<1>9. TempsApart' /\ LeftOK'
  BY <1>1, <1>3, <1>6 DEF TempsApart, LeftOK
<1>10. Seed!SeenIsWhole'
  BY <1>7 DEF SeedInv, Seed!SeenIsWhole
<1>11. Seed!TempsAreDropped'
  <2>1. \A n \in Seed!Names : n[1] = p /\ temps'[n] # Seed!NoInode => n \in left'
    BY <1>2, <1>6 DEF SeedInv, Seed!TempsAreDropped
  <2>2. \A n \in Seed!Names : n[1] # p => temps'[n] = temps[n]
    BY <1>3, <1>6
  <2>3. QED
    BY <1>5, <2>1, <2>2, DroppedStill
<1>12. Sound(p)'
  BY <1>5 DEF Sound, CountOK, AttemptOK
<1>13. ASSUME NEW q \in Procs, q # p PROVE Spared(q)
  <2>1. \A n \in Seed!Names : n[1] = q => temps'[n] = temps[n] /\ temps[n] \in Inodes \cup {Seed!NoInode}
    BY <1>1, <1>3, <1>6, <1>13 DEF SeedTyped
  <2>2. QED
    BY <1>7, <2>1 DEF Spared
<1>14. QED
  BY <1>5, <1>8, <1>9, <1>10, <1>11, <1>12, <1>13, OneMoves

\* The attempt was the last for its file.
LEMMA DropsForGood ==
  ASSUME SeedInv, NEW p \in Procs, seeding[p].step \in Attempting,
         NEW r, r = Seed!Idle \/ r = Seed!Following(seeding[p]), Seed!Drop(p, r),
         UNCHANGED <<store, left, kills, touches>>
  PROVE  SeedInv'
<1>1. SeedTyped /\ Sound(p) /\ seeding[p] \in Launching /\ LeftOK
  BY SoundIs DEF SeedInv
<1>2. r \in Launching /\ CountOK(r) /\ r.tries = 0 /\ r.step \notin Sourced /\ r.step \notin Attempting
  BY <1>1, RestIs, NextIs DEF Sound, Sourced, Attempting
<1>3. seeding'[p] = r
  BY <1>1, <1>2, SeedGoes DEF Seed!Drop
<1>4. touches' \in Nat /\ IsFiniteSet(left')
  BY <1>1 DEF SeedTyped, LeftOK
<1>5. CleanOK(p)' /\ TriesOK(p)'
  BY <1>2, <1>3, <1>4, NothingTried
<1>6. QED
  BY <1>2, <1>5, DropKeeps

LEMMA WriteFailsKeeps == ASSUME SeedInv, NEW p \in Procs, Seed!WriteFails(p) PROVE SeedInv'
BY DropsForGood DEF Seed!WriteFails, Seed!At, Attempting

LEMMA LinkedKeeps == ASSUME SeedInv, NEW p \in Procs, Seed!Linked(p) PROVE SeedInv'
BY DropsForGood DEF Seed!Linked, Seed!At, Attempting

LEMMA TakenKeeps == ASSUME SeedInv, NEW p \in Procs, Seed!Taken(p) PROVE SeedInv'
<1>1. seeding[p].step = "taken" /\ UNCHANGED <<store, left, kills, touches>>
  BY DEF Seed!Taken, Seed!At
<1>2. PICK r : r = [seeding[p] EXCEPT !.step = "open", !.temp = 0]
  OBVIOUS
<1>3. \/ Seed!Drop(p, Seed!Following(seeding[p])) \/ Seed!Drop(p, Seed!Idle)
      \/ Given(p) = Seed!NoInode /\ Seed!Drop(p, r)
  BY <1>2 DEF Seed!Taken, Given, Seed!NoInode
<1>4. CASE Given(p) = Seed!NoInode /\ Seed!Drop(p, r)
  <2>1. SeedTyped /\ Sound(p) /\ seeding[p] \in Launching
    BY SoundIs
  <2>2. /\ r \in Launching /\ r.step = "open" /\ r.contents = seeding[p].contents
        /\ r.at = seeding[p].at /\ r.counter = seeding[p].counter /\ r.tries = seeding[p].tries
    <3>1. 0 \in Slots
      BY SeedsAre
    <3>2. QED
      BY <1>2, <2>1, <3>1 DEF Launching, SeedSteps
  <2>3. seeding'[p] = r
    BY <1>4, <2>1, <2>2, SeedGoes DEF Seed!Drop
  <2>4. Seed!File(p)' = Seed!File(p)
    BY <2>2, <2>3 DEF Seed!File
  <2>5. CountOK(r) /\ CleanOK(p)'
    BY <1>1, <2>1, <2>2, <2>3, <2>4 DEF Sound, CountOK, CleanOK, Clean, Sourced, Attempting
  <2>6. Going(p) = 0
    BY <1>1, <1>4 DEF Going
  <2>7. TriesOK(p)'
    BY <1>1, <2>2, <2>3, <2>6, SameTries
  <2>8. QED
    BY <1>1, <1>4, <2>2, <2>5, <2>7, DropKeeps DEF Attempting
<1>5. QED
  BY <1>1, <1>3, <1>4, DropsForGood DEF Attempting

------------------------------------------------------------------------------
(* The agent, and kills.                                                   *)

\* The agent pays for a try with what it does, and no launch moves.
LEMMA AgentPays ==
  ASSUME SeedInv, UNCHANGED <<temps, seeding, left, kills>>, touches' = touches + 1,
         store' \in [Seed!Files -> Inodes \cup {Seed!NoInode, Seed!Other}],
         inodes' \in [Inodes -> Written],
         \A f \in Seed!Files : store'[f] \in Inodes =>
           /\ inodes'[store'[f]] = inodes[store'[f]] /\ store'[f] = store[f]
           \/ inodes'[store'[f]] = Seed!Login,
         \A n \in Seed!Names : temps[n] \in Inodes /\ (\A f \in Seed!Files : store[f] # temps[n]) =>
           /\ inodes'[temps[n]] = inodes[temps[n]]
           /\ \A f \in Seed!Files : store'[f] # temps[n]
  PROVE  SeedInv'
<1>1. SeedTyped /\ TempsApart /\ LeftOK /\ Seed!SeenIsWhole /\ Seed!TempsAreDropped
  BY DEF SeedInv
<1>2. SeedTyped' /\ TempsApart' /\ LeftOK'
  BY <1>1 DEF SeedTyped, TempsApart, LeftOK
<1>3. Seed!SeenIsWhole'
  <2>1. Seed!Login.whole /\ Seed!Login.by = "agent"
    BY DEF Seed!Login
  <2>2. ASSUME NEW f \in Seed!Files, store'[f] \in Inodes
        PROVE  /\ inodes'[store'[f]].whole
               /\ inodes'[store'[f]].by = "seed" /\ f \in Objects =>
                    inodes'[store'[f]].keys \cap RemoveKeys = {}
    <3>1. CASE inodes'[store'[f]] = Seed!Login
      BY <2>1, <3>1
    <3>2. CASE inodes'[store'[f]] = inodes[store'[f]] /\ store'[f] = store[f]
      BY <1>1, <2>2, <3>2 DEF Seed!SeenIsWhole
    <3>3. QED
      BY <2>2, <3>1, <3>2
  <2>3. QED
    BY <2>2 DEF Seed!SeenIsWhole
<1>4. Seed!TempsAreDropped'
  BY <1>1 DEF Seed!TempsAreDropped, Seed!Name
<1>5. \A q \in Procs : Sound(q)'
  <2> SUFFICES ASSUME NEW q \in Procs PROVE Sound(q)'
    OBVIOUS
  <2>1. touches \in Nat /\ \A n \in Seed!Names : temps[n] \in Inodes \cup {Seed!NoInode}
    BY <1>1 DEF SeedTyped
  <2>2. Spared(q)
    BY <2>1 DEF Spared
  <2>3. left' \subseteq Seed!Names
    BY <1>1 DEF LeftOK
  <2>4. QED
    BY <2>2, <2>3, SparedIs
<1>6. QED
  BY <1>2, <1>3, <1>4, <1>5 DEF SeedInv, Sound

LEMMA AgentKeeps == ASSUME SeedInv, NEW f \in Seed!Files, Seed!Agent(f) PROVE SeedInv'
<1>1. SeedTyped
  BY DEF SeedInv
<1>2. touches' = touches + 1 /\ UNCHANGED <<temps, seeding, left, kills>>
  BY DEF Seed!Agent
<1>3. /\ store \in [Seed!Files -> Inodes \cup {Seed!NoInode, Seed!Other}] /\ inodes \in [Inodes -> Written]
      /\ Seed!Login \in Written
  BY <1>1 DEF SeedTyped, Seed!Login, Written
<1>4. CASE store[f] \in Inodes /\ inodes' = [inodes EXCEPT ![store[f]] = Seed!Login] /\ UNCHANGED store
  BY <1>2, <1>3, <1>4, AgentPays
<1>5. ASSUME NEW i \in Seed!Fresh, store' = [store EXCEPT ![f] = i],
             inodes' = Seed!Live([inodes EXCEPT ![i] = Seed!Login], store', temps)
      PROVE  SeedInv'
  <2>1. /\ i \in Inodes /\ \A g \in Seed!Files : store[g] # i
        /\ \A n \in Seed!Names : temps[n] # i
    BY FreshIs
  <2>2. PICK d : d = [inodes EXCEPT ![i] = Seed!Login]
    OBVIOUS
  <2>3. d \in [Inodes -> Written] /\ d[i] = Seed!Login /\ \A j \in Inodes : j # i => d[j] = inodes[j]
    BY <1>3, <2>1, <2>2
  <2>4. PICK names : names = store'
    OBVIOUS
  <2>5. inodes' = Seed!Live(d, names, temps)
    BY <1>5, <2>2, <2>4
  <2>6. /\ inodes' \in [Inodes -> Written]
        /\ \A g \in Seed!Files : store'[g] \in Inodes => inodes'[store'[g]] = d[store'[g]]
        /\ \A n \in Seed!Names : temps[n] \in Inodes => inodes'[temps[n]] = d[temps[n]]
    BY <2>3, <2>4, <2>5, LiveIs
  <2>7. /\ store' \in [Seed!Files -> Inodes \cup {Seed!NoInode, Seed!Other}] /\ store'[f] = i
        /\ \A g \in Seed!Files : g # f => store'[g] = store[g]
    BY <1>3, <1>5, <2>1
  <2>8. ASSUME NEW g \in Seed!Files, store'[g] \in Inodes
        PROVE  \/ inodes'[store'[g]] = inodes[store'[g]] /\ store'[g] = store[g]
               \/ inodes'[store'[g]] = Seed!Login
    BY <2>1, <2>3, <2>6, <2>7, <2>8
  <2>9. ASSUME NEW n \in Seed!Names, temps[n] \in Inodes, \A g \in Seed!Files : store[g] # temps[n]
        PROVE  inodes'[temps[n]] = inodes[temps[n]] /\ \A g \in Seed!Files : store'[g] # temps[n]
    BY <2>1, <2>3, <2>6, <2>7, <2>9
  <2>10. QED
    BY <1>2, <2>6, <2>7, <2>8, <2>9, AgentPays
<1>6. ASSUME NEW s \in {Seed!NoInode, Seed!Other}, store' = [store EXCEPT ![f] = s],
             inodes' = Seed!Live(inodes, store', temps)
      PROVE  SeedInv'
  <2>1. PICK names : names = store'
    OBVIOUS
  <2>2. inodes' = Seed!Live(inodes, names, temps)
    BY <1>6, <2>1
  <2>3. /\ inodes' \in [Inodes -> Written]
        /\ \A g \in Seed!Files : store'[g] \in Inodes => inodes'[store'[g]] = inodes[store'[g]]
        /\ \A n \in Seed!Names : temps[n] \in Inodes => inodes'[temps[n]] = inodes[temps[n]]
    BY <1>3, <2>1, <2>2, LiveIs
  <2>4. /\ store' \in [Seed!Files -> Inodes \cup {Seed!NoInode, Seed!Other}] /\ store'[f] \notin Inodes
        /\ \A g \in Seed!Files : g # f => store'[g] = store[g]
    BY <1>3, <1>6, SeedsAre
  <2>5. ASSUME NEW g \in Seed!Files, store'[g] \in Inodes
        PROVE  inodes'[store'[g]] = inodes[store'[g]] /\ store'[g] = store[g]
    BY <2>3, <2>4, <2>5
  <2>6. ASSUME NEW n \in Seed!Names, temps[n] \in Inodes, \A g \in Seed!Files : store[g] # temps[n]
        PROVE  inodes'[temps[n]] = inodes[temps[n]] /\ \A g \in Seed!Files : store'[g] # temps[n]
    BY <2>3, <2>4, <2>6
  <2>7. QED
    BY <1>2, <2>3, <2>4, <2>5, <2>6, AgentPays
<1>7. QED
  BY <1>4, <1>5, <1>6 DEF Seed!Agent, Seed!NoInode, Seed!Other

\* A kill leaves at most the temporary file of the launch's attempt.
LEMMA KillKeeps == ASSUME SeedInv, NEW p \in Procs, Seed!Kill(p) PROVE SeedInv'
<1>1. SeedTyped /\ TempsApart /\ LeftOK /\ Seed!SeenIsWhole /\ Seed!TempsAreDropped
  BY DEF SeedInv
<1>2. PICK name : name = Seed!Name(p)
  OBVIOUS
<1>3. /\ kills' = kills + 1 /\ UNCHANGED <<store, temps, inodes, touches>> /\ Seed!Goes(p, Seed!Idle)
      /\ left' = left \cup {n \in Seed!Names : n[1] = p /\ temps[n] # Seed!NoInode}
  BY DEF Seed!Kill, Seed!Fails, Seed!NoInode
<1>4. /\ seeding' \in [Procs -> Launching] /\ seeding'[p] = Seed!Idle
      /\ \A q \in Procs : q # p => seeding'[q] = seeding[q]
  BY <1>1, <1>3, RestIs, SeedGoes
<1>5. name \in Seed!Names /\ name[1] = p
  BY <1>1, <1>2, LaunchingIs
<1>6. left \subseteq left' /\ left' \subseteq left \cup {name}
      /\ left' \subseteq {n \in Seed!Names : temps[n] # Seed!NoInode}
      /\ \A n \in left' : n \in left \/ n[1] = p
  BY <1>1, <1>2, <1>3 DEF LeftOK, Seed!TempsAreDropped, Seed!NoInode
<1>7. LeftOK'
  <2>1. IsFiniteSet(left) /\ Cardinality(left) <= kills /\ kills \in Nat /\ Cardinality(left) \in Nat
    BY <1>1, FS_CardinalityType DEF LeftOK, SeedTyped
  <2>2. IsFiniteSet(left \cup {name}) /\ Cardinality(left \cup {name}) \in Nat
        /\ Cardinality(left \cup {name}) <= Cardinality(left) + 1
    <3>1. /\ IsFiniteSet(left \cup {name})
          /\ Cardinality(left \cup {name}) = Cardinality(left) \/ Cardinality(left \cup {name}) = Cardinality(left) + 1
      BY <2>1, FS_AddElement
    <3>2. Cardinality(left \cup {name}) \in Nat
      BY <3>1, FS_CardinalityType
    <3>3. QED
      BY <2>1, <3>1, <3>2
  <2>3. IsFiniteSet(left') /\ Cardinality(left') \in Nat /\ Cardinality(left') <= Cardinality(left \cup {name})
    BY <1>6, <2>2, FS_Subset, FS_CardinalityType
  <2>4. Cardinality(left') <= kills'
    BY <1>3, <2>1, <2>2, <2>3
  <2>5. QED
    BY <1>3, <1>6, <2>3, <2>4 DEF LeftOK
<1>8. SeedTyped' /\ TempsApart' /\ Seed!SeenIsWhole'
  <2>1. kills' \in Nat
    BY <1>1, <1>3 DEF SeedTyped
  <2>2. QED
    BY <1>1, <1>3, <1>4, <2>1 DEF SeedTyped, TempsApart, Seed!SeenIsWhole
<1>9. Seed!TempsAreDropped'
  <2>1. \A n \in Seed!Names : n[1] = p /\ temps'[n] # Seed!NoInode => n \in left'
    BY <1>3
  <2>2. QED
    BY <1>3, <1>4, <1>6, <2>1, DroppedStill
<1>10. Sound(p)'
  <2>1. Seed!Idle \in Launching /\ Seed!Idle.tries = 0 /\ Seed!Idle.step \notin Sourced /\ CountOK(Seed!Idle)
    BY RestIs DEF Sourced, Attempting
  <2>2. touches' \in Nat /\ IsFiniteSet(left')
    BY <1>7, <1>8 DEF SeedTyped, LeftOK
  <2>3. CleanOK(p)' /\ AttemptOK(p)' /\ TriesOK(p)'
    BY <1>4, <2>1, <2>2, NothingTried
  <2>4. QED
    BY <1>4, <2>1, <2>3 DEF Sound, CountOK
<1>11. ASSUME NEW q \in Procs, q # p PROVE Spared(q)
  BY <1>3, <1>6, <1>11 DEF Spared
<1>12. QED
  BY <1>4, <1>7, <1>8, <1>9, <1>10, <1>11, OneMoves

LEMMA SeedStep == ASSUME SeedInv, [Seed!Next]_seedVars PROVE SeedInv'
<1>1. CASE UNCHANGED seedVars
  <2>1. UNCHANGED <<store, temps, inodes, seeding, left, kills, touches>>
    BY <1>1 DEF seedVars
  <2>2. SeedTyped' /\ TempsApart' /\ LeftOK' /\ Seed!SeenIsWhole' /\ Seed!TempsAreDropped'
    BY <2>1 DEF SeedInv, SeedTyped, TempsApart, LeftOK, Seed!SeenIsWhole, Seed!TempsAreDropped, Seed!Name
  <2>3. ASSUME NEW q \in Procs PROVE Sound(q)'
    <3>1. Spared(q) /\ left' \subseteq Seed!Names
      BY <2>1 DEF Spared, SeedInv, LeftOK
    <3>2. QED
      BY <2>1, <3>1, SparedIs
  <2>4. QED
    BY <2>2, <2>3 DEF SeedInv, Sound
<1>2. ASSUME NEW p \in Procs, Seed!Launch(p) \/ Seed!Step(p) \/ Seed!Kill(p) PROVE SeedInv'
  <2>1. CASE Seed!Check(p) \/ Seed!NoSource(p) \/ Seed!BadSource(p) \/ Seed!Exhausted(p)
    BY <2>1, CheckKeeps, GivesUpKeeps
  <2>2. ASSUME NEW keys \in SUBSET Keys, Seed!Source(p, keys) PROVE SeedInv'
    BY <2>2, SourceKeeps
  <2>3. CASE Seed!Open(p) \/ Seed!Write(p) \/ Seed!WriteFails(p)
    BY <2>3, OpenKeeps, WriteKeeps, WriteFailsKeeps
  <2>4. CASE Seed!Link(p) \/ Seed!Linked(p) \/ Seed!Taken(p)
    BY <2>4, LinkKeeps, LinkedKeeps, TakenKeeps
  <2>5. CASE Seed!Launch(p) \/ Seed!Kill(p)
    BY <2>5, LaunchKeeps, KillKeeps
  <2>6. QED
    BY <1>2, <2>1, <2>2, <2>3, <2>4, <2>5 DEF Seed!Step
<1>3. QED
  BY <1>1, <1>2, AgentKeeps DEF Seed!Next

\* The file of the store that an attempt cannot be at is left as it is.
LEMMA StoreKept ==
  ASSUME SeedInv, NEW p \in Procs, Seed!Launch(p) \/ Seed!Step(p) \/ Seed!Kill(p)
  PROVE  Seed!StoreIsTheAgents
<1>1. SeedTyped
  BY DEF SeedInv
<1>2. store \in [Seed!Files -> Inodes \cup {Seed!NoInode, Seed!Other}] /\ inodes \in [Inodes -> Written]
  BY <1>1 DEF SeedTyped
<1> SUFFICES ASSUME NEW f \in Seed!Files, store[f] \in Inodes
             PROVE  store'[f] = store[f] /\ inodes'[store[f]] = inodes[store[f]]
  BY DEF Seed!StoreIsTheAgents
<1>3. CASE UNCHANGED <<store, inodes>>
  BY <1>3
<1>4. CASE Seed!Open(p)
  <2>1. UNCHANGED store /\ (UNCHANGED inodes \/ \E i \in Seed!Fresh : inodes' = [inodes EXCEPT ![i] = Seed!Empty])
    BY <1>4 DEF Seed!Open
  <2>2. QED
    BY <1>2, <2>1, FreshIs
<1>5. CASE Seed!Write(p)
  <2>1. PICK i : i = Temp(p)
    OBVIOUS
  <2>2. seeding[p].step = "write" /\ UNCHANGED store
        /\ inodes' = [inodes EXCEPT ![i] = Seed!Seed(seeding[p].contents)]
    BY <1>5, <2>1 DEF Seed!Write, Seed!At, Temp
  <2>3. store[f] # i
    BY <2>1, <2>2, AttemptIs DEF Attempting
  <2>4. QED
    BY <1>2, <2>2, <2>3
<1>6. CASE Seed!Link(p)
  <2>1. UNCHANGED inodes /\ (UNCHANGED store \/
          (store[Seed!File(p)] = Seed!NoInode /\ store' = [store EXCEPT ![Seed!File(p)] = temps[Seed!Name(p)]]))
    BY <1>6 DEF Seed!Link
  <2>2. QED
    BY <1>2, <2>1, SeedsAre
<1>7. CASE \E r : Seed!Drop(p, r) /\ UNCHANGED store
  <2>1. PICK links : links = temps'
    OBVIOUS
  <2>2. UNCHANGED store /\ inodes' = Seed!Live(inodes, store, links)
    BY <1>7, <2>1 DEF Seed!Drop
  <2>3. QED
    BY <1>2, <2>2, LiveIs
<1>8. (\E r : Seed!Drop(p, r) /\ UNCHANGED store) \/ ~(Seed!WriteFails(p) \/ Seed!Linked(p) \/ Seed!Taken(p))
  BY DEF Seed!WriteFails, Seed!Linked, Seed!Taken
<1>9. \/ UNCHANGED <<store, inodes>> \/ Seed!Open(p) \/ Seed!Write(p) \/ Seed!Link(p)
      \/ Seed!WriteFails(p) \/ Seed!Linked(p) \/ Seed!Taken(p)
  BY DEF Seed!Launch, Seed!Step, Seed!Kill, Seed!Check, Seed!NoSource, Seed!BadSource, Seed!Source, Seed!Exhausted
<1>10. QED
  BY <1>3, <1>4, <1>5, <1>6, <1>7, <1>8, <1>9

LEMMA StoreStep == ASSUME SeedInv, [Seed!Next]_seedVars PROVE Seed!StoreIsTheAgents
<1>1. CASE UNCHANGED seedVars
  BY <1>1 DEF seedVars, Seed!StoreIsTheAgents
<1>2. ASSUME NEW f \in Seed!Files, Seed!Agent(f) PROVE Seed!StoreIsTheAgents
  <2>1. touches' = touches + 1 /\ touches \in Nat
    BY <1>2 DEF Seed!Agent, SeedInv, SeedTyped
  <2>2. touches' # touches
    BY <2>1
  <2>3. QED
    BY <2>2 DEF Seed!StoreIsTheAgents
<1>3. QED
  BY <1>1, <1>2, StoreKept DEF Seed!Next

LEMMA SeedImplies ==
  ASSUME SeedInv PROVE Seed!TypeOK /\ Seed!SeenIsWhole /\ Seed!TempsAreDropped /\ Seed!TriesSuffice
<1>1. SeedTyped /\ LeftOK /\ Seed!SeenIsWhole /\ Seed!TempsAreDropped
  BY DEF SeedInv
<1>2. Seed!TypeOK
  <2>1. \A p \in Procs : seeding[p].at \in 1..Len(Seeds) /\ seeding[p].tries \in 0..Tries
    BY <1>1, LaunchingIs
  <2>2. QED
    BY <1>1, <2>1 DEF SeedTyped, Seed!TypeOK, Seed!NoInode, Seed!Other
<1>3. Seed!TriesSuffice
  <2> SUFFICES ASSUME NEW p \in Procs PROVE seeding[p].tries <= 1 + kills + touches
    BY DEF Seed!TriesSuffice
  <2>1. /\ kills \in Nat /\ touches \in Nat /\ seeding[p].tries \in Nat
    BY <1>1, LaunchingIs, SeedsAre DEF SeedTyped
  <2>2. PICK n \in Nat : n = Cardinality(Passed(p)) /\ n <= kills
    BY <1>1, <2>1, PassedIs
  <2>3. PICK g \in 0..1 : g = Going(p)
    BY DEF Going
  <2>4. seeding[p].tries <= n + touches + g
    BY <2>2, <2>3 DEF SeedInv, TriesOK
  <2>5. QED
    BY <2>1, <2>2, <2>3, <2>4
<1>4. QED
  BY <1>1, <1>2, <1>3

\* Seeding is sound for any number of processes, files, inodes and tries, and any bound on
\* the kills and on what the agent does: each file of the store is whole and without the
\* keys that stay on the host, no launch replaces or writes through what is there, no
\* temporary file is forgotten but by a kill, and a launch needs no more tries than one
\* and what was killed and taken away.
THEOREM SeedsAreSound == Seed!Spec => SeedingIsSound
<1>1. Seed!Init => SeedInv
  BY SeedInit
<1>2. SeedInv /\ [Seed!Next]_seedVars => SeedInv'
  BY SeedStep
<1>3. SeedInv /\ [Seed!Next]_seedVars => Seed!StoreIsTheAgents
  BY StoreStep
<1>4. SeedInv => Seed!TypeOK /\ Seed!SeenIsWhole /\ Seed!TempsAreDropped /\ Seed!TriesSuffice
  BY SeedImplies
<1>5. QED
  BY <1>1, <1>2, <1>3, <1>4, PTL DEF Seed!Spec, seedVars, Seed!vars, SeedingIsSound, Seed!SeedingIsSound
=============================================================================
