------------------------------ MODULE Surfaces ------------------------------
\* What an agent's model is offered (index.ts): the edit tool with the schema of the
\* current settings, the patch tool while it is enabled, and the two tools' guidance
\* sections (guidance/).  A change of the settings rebuilds them in every live agent
\* (domain/edit/edit-rebuild.ts), one rebuild after another, across the await in which
\* a section's override file is read.  Each boot seeds that file (guidance/materialize.ts).
EXTENDS Naturals, FiniteSets, FiniteSetsExt

CONSTANTS Agent,
          Preset,       \* the agents composed from a preset with a directory
          Boot, This,   \* processes that start, and the one modelled
          Line,         \* require_line_content in the profile: "on", "off", "unset"
          Patch,        \* apply_patch.enabled in the profile
          FirstFile,    \* what edit.md may hold before
          Event,        \* which of "unreadable", "dispose", "save"
          MaxUpdates    \* bound on changes of the profile

VARIABLES profile,   \* the settings document, read through live references
          notices,   \* settings/document-updated events not delivered yet
          updates,   \* changes made
          setting,   \* the effective snapshot
          file,      \* edit.md of the presets' directory
          written,   \* texts it has held
          boot,      \* per process how far its seeding is
          agent

vars == <<profile, notices, updates, setting, file, written, boot, agent>>

\* A file is absent or blank, has a fence that does not parse, or holds a text: the
\* user's, or a default, with or without the declarations of lines.
Texts == {"user", "plain", "declared"}
Default(s) == IF s.line THEN "declared" ELSE "plain"

\* The default stands for what is no boolean.
Effective(p) == [line |-> p.line = "on", patch |-> p.patch # "off"]

\* A tool or a section registered on the agent's layer, and what it says.
Tools == {"edit", "apply_patch"}
Section(t) == CASE t = "edit" -> "tool:edit" [] OTHER -> "tool:apply_patch"
Kinds == Tools \cup {Section(t) : t \in Tools}
None == [k \in Kinds |-> 0]
Unborn == [scope |-> "none", held |-> FALSE, install |-> "none", rebuild |-> "idle",
           queue |-> 0, listens |-> FALSE, layer |-> {}, disposer |-> None,
           text |-> "none", retext |-> "none", overlapped |-> FALSE]

Init ==
    /\ profile \in [line : Line, patch : Patch]
    /\ notices = 0 /\ updates = 0
    /\ setting = Effective(profile)
    /\ file \in FirstFile /\ written = {file} \cap Texts
    /\ boot = [b \in Boot |-> [pc |-> "list", text |-> "none", saved |-> FALSE]]
    /\ agent = [a \in Agent |-> Unborn]
-----------------------------------------------------------------------------
\* The agent's layer of registrations: `x` is the agent's record.
NewId(x) == Min((1..Cardinality(x.layer) + 1) \ {r.id : r \in x.layer})
Registered(x, k, says) ==
    [x EXCEPT !.layer = @ \cup {[id |-> NewId(x), kind |-> k, says |-> says]},
              !.disposer[k] = NewId(x)]
Removed(x, k) == [x EXCEPT !.layer = {r \in @ : r.id # x.disposer[k]}, !.disposer[k] = 0]

SchemaOf(s) == IF s.line THEN "declared" ELSE "plain"
WithEdit(x) == Registered(x, "edit", SchemaOf(setting))

\* installApplyPatch, and installApplyPatchSection up to its await.
PatchTool(x) ==
    LET y == Removed(x, "apply_patch") IN
    IF setting.patch THEN Registered(y, "apply_patch", "patch") ELSE y
PatchSection(x, run, reads) ==
    LET y == Removed(x, "tool:apply_patch") IN
    IF setting.patch THEN [y EXCEPT ![run] = reads]
    ELSE [y EXCEPT ![run] = IF run = "install" THEN "done" ELSE "idle"]

\* resolveSection: the preset's file when it holds a text, the default otherwise, and
\* for every section when one file cannot be read.
Resolved(a) ==
    (IF a \in Preset /\ file \in Texts THEN {file} ELSE {Default(setting)})
        \cup (IF "unreadable" \in Event /\ a \in Preset THEN {Default(setting)} ELSE {})

Live(a) == agent[a].scope = "live"
Updated(a, x) == agent' = [agent EXCEPT ![a] = x]
Others == UNCHANGED <<profile, notices, updates, setting, file, written, boot>>

\* onAgentStart, for whichever event the host has: a second one finds the agent known.
\* Everything up to the first await: the tools, and the rebuilder.
AgentStart(a) ==
    /\ agent[a].scope = "none"
    /\ Updated(a, [PatchTool(WithEdit([Unborn EXCEPT !.scope = "live"]))
                   EXCEPT !.held = TRUE, !.install = "read", !.listens = TRUE])
    /\ Others

\* The sections of the install: edit's file is read, it is registered, then patch's.
InstallReads(a) ==
    /\ Live(a) /\ agent[a].install = "read"
    /\ \E text \in Resolved(a) : Updated(a, [agent[a] EXCEPT !.text = text, !.install = "edit"])
    /\ Others
InstallEdit(a) ==
    /\ Live(a) /\ agent[a].install = "edit"
    /\ Updated(a, PatchSection(Registered(agent[a], "tool:edit", agent[a].text), "install", "patch"))
    /\ Others
InstallPatch(a) ==
    /\ Live(a) /\ agent[a].install = "patch"
    /\ Updated(a, [Registered(agent[a], "tool:apply_patch", "patch") EXCEPT !.install = "done"])
    /\ Others

\* The listener returns when the install is over, or has failed.
Release(a) ==
    /\ agent[a].held
    /\ agent[a].install = "done" \/ agent[a].scope = "gone"
    /\ Updated(a, [agent[a] EXCEPT !.held = FALSE])
    /\ Others

\* One rebuild of the chain: the edit surface at once, its section after the file.
\* Mutant of RebuildEdit: the section stays.
RebuildTool(x) == WithEdit(Removed(x, "edit"))
RebuildEdit(x) == WithEdit(Removed(Removed(x, "edit"), "tool:edit"))
Turn(a) == agent[a].queue > 0 /\ agent[a].rebuild = "idle"
Rebuild(a) ==
    /\ Live(a) /\ Turn(a)
    /\ Updated(a, [RebuildEdit(agent[a]) EXCEPT !.queue = @ - 1, !.rebuild = "read"])
    /\ Others
RebuildReads(a) ==
    /\ Live(a) /\ agent[a].rebuild = "read"
    /\ \E text \in Resolved(a) : Updated(a, [agent[a] EXCEPT !.retext = text, !.rebuild = "edit"])
    /\ Others
RebuildSection(a) ==
    /\ Live(a) /\ agent[a].rebuild = "edit"
    /\ Updated(a, PatchSection(PatchTool(Registered(agent[a], "tool:edit", agent[a].retext)),
                               "rebuild", "patch"))
    /\ Others
RebuildPatch(a) ==
    /\ Live(a) /\ agent[a].rebuild = "patch"
    /\ Updated(a, [Registered(agent[a], "tool:apply_patch", "patch") EXCEPT !.rebuild = "idle"])
    /\ Others

\* The agent is disposed: its layer goes, what still runs fails when it registers.
Dispose(a) ==
    /\ "dispose" \in Event /\ Live(a)
    /\ Updated(a, [agent[a] EXCEPT !.scope = "gone", !.layer = {}, !.disposer = None, !.queue = 0,
                                   !.rebuild = "idle", !.listens = (@ /\ agent[a].install # "done")])
    /\ Others
-----------------------------------------------------------------------------
\* The profile changes; applyEffective at the notice reads what it holds then.
Change ==
    /\ updates < MaxUpdates /\ updates' = updates + 1
    /\ profile' \in [line : Line, patch : Patch] \ {profile}
    /\ notices' = notices + 1
    /\ UNCHANGED <<setting, file, written, boot, agent>>

\* Mutant of Flipped: the patch switch alone rebuilds nothing.
LineFlipped(s, t) == s.line # t.line
Flipped(s, t) == s.line # t.line \/ s.patch # t.patch
Reapply ==
    /\ notices > 0 /\ notices' = notices - 1
    /\ setting' = Effective(profile)
    /\ agent' = [a \in Agent |->
           IF agent[a].listens /\ Flipped(setting, setting')
           THEN [agent[a] EXCEPT !.queue = IF Live(a) THEN @ + 1 ELSE @,
                                 !.overlapped = @ \/ agent[a].install # "done"]
           ELSE agent[a]]
    /\ UNCHANGED <<profile, updates, file, written, boot>>
-----------------------------------------------------------------------------
\* Seeding: the directory is listed; a file that is there is read and rewritten when it
\* is blank, one that is not is created unless another writer was first.  A write
\* empties the file and then fills it.  Another process has settings of its own.
Seeds(b, pc, text) == boot' = [boot EXCEPT ![b] = [pc |-> pc, text |-> text, saved |-> FALSE]]
Shown(b) == IF b = This THEN {Default(setting)} ELSE {"plain", "declared"}
Midway == {"heal", "fill"}

List(b) ==
    /\ boot[b].pc = "list"
    /\ IF file # "absent" THEN Seeds(b, "look", "none")
       ELSE \E t \in Shown(b) : Seeds(b, "create", t)
    /\ UNCHANGED <<file, written>>
Heals == file = "blank"
Look(b) ==
    /\ boot[b].pc = "look"
    /\ IF Heals THEN \E t \in Shown(b) : Seeds(b, "heal", t) ELSE Seeds(b, "done", "none")
    /\ UNCHANGED <<file, written>>
\* Mutant of Opens: the file is created whether it is there or not.
OpensAny(b) == boot[b].pc \in {"create", "heal"}
Opens(b) == boot[b].pc = "create" => file = "absent"
Open(b) ==
    /\ boot[b].pc \in {"create", "heal"}
    /\ IF Opens(b) THEN file' = "blank" /\ boot' = [boot EXCEPT ![b].pc = "fill"]
       ELSE UNCHANGED file /\ Seeds(b, "done", "none")
    /\ UNCHANGED written
Fill(b) ==
    /\ boot[b].pc = "fill"
    /\ file' = boot[b].text /\ written' = written \cup {file'}
    /\ Seeds(b, "done", "none")
Seed(b) == /\ List(b) \/ Look(b) \/ Open(b) \/ Fill(b)
           /\ UNCHANGED <<profile, notices, updates, setting, agent>>

\* The user's own text; `saved` marks the seedings it came in the middle of.
Save ==
    /\ "save" \in Event /\ file # "user"
    /\ file' = "user" /\ written' = written \cup {"user"}
    /\ boot' = [b \in Boot |-> [boot[b] EXCEPT !.saved = boot[b].pc \in Midway]]
    /\ UNCHANGED <<profile, notices, updates, setting, agent>>

Install(a) == InstallReads(a) \/ InstallEdit(a) \/ InstallPatch(a)
Rebuilds(a) == Rebuild(a) \/ RebuildReads(a) \/ RebuildSection(a) \/ RebuildPatch(a)
Next ==
    \/ \E a \in Agent : \/ AgentStart(a) \/ Install(a) \/ Release(a)
                        \/ Rebuilds(a) \/ Dispose(a)
    \/ Change \/ Reapply \/ Save
    \/ \E b \in Boot : Seed(b)

\* Local files are read and promises run on; the host delivers its events.
Progress(a) == Install(a) \/ Release(a) \/ Rebuilds(a) \/ Reapply
Fairness == \A a \in Agent : WF_vars(Progress(a))
Spec == Init /\ [][Next]_vars /\ Fairness
-----------------------------------------------------------------------------
TypeOK ==
    /\ setting \in [line : BOOLEAN, patch : BOOLEAN] /\ notices \in 0..MaxUpdates
    /\ file \in {"absent", "blank", "broken"} \cup Texts
    /\ \A a \in Agent : /\ agent[a].scope \in {"none", "live", "gone"}
                        /\ agent[a].install \in {"none", "read", "edit", "patch", "done"}
                        /\ agent[a].rebuild \in {"idle", "read", "edit", "patch"}

Has(a, k) == {r \in agent[a].layer : r.kind = k}
Says(a, k) == {r.says : r \in Has(a, k)}

\* "A resumed session's queued input" never meets a half-made tool surface: from its
\* start to its end an agent has one edit tool, through every rebuild.
OneEditTool == \A a \in Agent : Live(a) => Cardinality(Has(a, "edit")) = 1

\* Nothing is under way for the agent.
AtRest(a) == /\ Live(a) /\ notices = 0 /\ agent[a].queue = 0
             /\ agent[a].install = "done" /\ agent[a].rebuild = "idle"

\* At rest the tools are those of the profile, however its changes, the install and the
\* rebuilds fell together.
ToolsFollowProfile ==
    \A a \in Agent : AtRest(a) =>
        /\ setting = Effective(profile)
        /\ Says(a, "edit") = {SchemaOf(setting)}
        /\ Says(a, "apply_patch") = IF setting.patch THEN {"patch"} ELSE {}

\* So do the sections, once each, unless a change met the install: then both read the
\* file, both register, and one is never removed.  A text that the preset's file held
\* stands in the default's place.
SectionsFollowProfile ==
    \A a \in Agent : AtRest(a) /\ ~agent[a].overlapped =>
        /\ Cardinality(Has(a, "tool:edit")) = 1
        /\ Says(a, "tool:edit") \subseteq {Default(setting)} \cup (IF a \in Preset THEN written ELSE {})
        /\ Cardinality(Has(a, "tool:apply_patch")) = IF setting.patch THEN 1 ELSE 0

\* "Existing files are never overwritten, so your edits survive": a text of the user is
\* replaced only by one that had found the file blank, or had just created it.
UserTextKeptStep ==
    file = "user" /\ file' # "user" => \E b \in Boot : boot[b].saved /\ boot'[b] # boot[b]

\* The listener returns, whatever becomes of the agent, and rebuilds come to an end.
ListenerReturns == \A a \in Agent : agent[a].held ~> ~agent[a].held
RebuildsEnd == \A a \in Agent : agent[a].queue > 0 ~> agent[a].queue = 0
=============================================================================
