------------------------------ MODULE Plugins ------------------------------
(* One agent's toolkit on disk: plugin folders under plugins/, bare skills   *)
(* under skills/, and the agent's switches in plugins.yaml                   *)
(* (internal/plugins, internal/skills, internal/gateway/plugins.go,          *)
(* cmd/bomclaw/plugincmd.go).                                                *)
(*                                                                           *)
(* Nothing locks the workspace. Every change, from the hub's handlers and    *)
(* from `bomclaw plugins`, is a few file operations and then a               *)
(* read-modify-write of plugins.yaml, so the editors interleave with each    *)
(* other and with a gateway's start, which moves bare skills into plugins    *)
(* and seeds the bundled ones.                                               *)
(*                                                                           *)
(* A folder is the version it holds, where it says it came from, and the     *)
(* two files a loader looks for. The file contents, the fetch and the limits *)
(* of a copy are left out.                                                   *)
EXTENDS Naturals, FiniteSets

CONSTANTS Names,       \* plugin and skill names
          Defaults,    \* the names bundled with the program
          Hubs, Lines, \* requests to the hub, and `bomclaw plugins` command lines
          None,        \* no folder, no operation
          MaxVersion,  \* bound: the versions a fetch may bring, from 1 (0 is the agent's own)
          MaxOps,      \* bound: operations begun
          MaxFaults    \* bound: failed renames and processes that die

Editors == Hubs \union Lines

VARIABLES folder,    \* plugins/<name>
          bare,      \* skills/<name>: a skill's folder, the link left behind, or nothing
          outgoing,  \* .old-<name>-* copies on disk
          switches,  \* plugins.yaml
          ed,        \* what each editor is doing
          gw,        \* where the gateway's start is
          ops, faults,
          stale,     \* history: a save was made from a reading a later save had overtaken
          life,      \* history: which life of the name this is; an uninstall ends one
          had        \* history: the names a loader has found and nobody has asked to remove since

vars == <<folder, bare, outgoing, switches, ed, gw, ops, faults, stale, life, had>>

Folder == [ver : 0..MaxVersion, src : {"none", "upstream", "peer"}, man : BOOLEAN, skill : BOOLEAN]
Kept(n, f) == [name |-> n, ver |-> f.ver]

(* plugins.yaml: for each name the life in which it was trusted, and in which*)
(* a setting was given, 0 for never. What is turned off and what is pinned to*)
(* projects are lists of the same file that nothing below reads.             *)
Switches == [trust : [Names -> 0..(MaxOps + 1)], set : [Names -> 0..(MaxOps + 1)]]
NoSwitches == [trust |-> [n \in Names |-> 0], set |-> [n \in Names |-> 0]]

Idle == [at |-> "idle", op |-> None, name |-> None, new |-> None, trust |-> FALSE,
         exists |-> FALSE, seen |-> NoSwitches, life |-> 0,
         old |-> FALSE]  \* history: plugins.yaml was saved since this editor read it

Busy(e) == ed[e].at # "idle"
Place(e, r) == ed' = [ed EXCEPT ![e] = r]

Found(n) == bare[n] = "folder" \/ (folder[n] # None /\ folder[n].man)

Init ==
  /\ folder \in [Names -> {None, [ver |-> 0, src |-> "none", man |-> TRUE, skill |-> TRUE]}]
  /\ bare \in [Names -> {"none", "folder"}]
  /\ outgoing = {}
  /\ switches = NoSwitches
  /\ ed = [e \in Editors |-> Idle]
  /\ gw = [at |-> "down", name |-> None, todo |-> {}]
  /\ ops = 0 /\ faults = 0
  /\ stale = FALSE
  /\ life = [n \in Names |-> 1]
  /\ had = {n \in Names : Found(n)}

Disk == <<folder, bare, outgoing>>
History == <<stale, life>>

----------------------------------------------------------------------------
(* plugins.yaml                                                              *)

(* LoadState: the whole file, into the editor's memory.                      *)
Loaded(r) == [r EXCEPT !.at = "loaded", !.seen = switches, !.life = life[r.name]]

SetTrusted(s, n, l) == [s EXCEPT !.trust[n] = l]
SetConfig(s, n, l)  == [s EXCEPT !.set[n] = l]

(* What each operation makes of the file it read.                            *)
Changed(r) ==
  CASE r.op = "switch"  -> r.seen   \* enable, disable, scope
    [] r.op = "trust"   -> SetTrusted(r.seen, r.name, r.life)
    [] r.op = "untrust" -> SetTrusted(r.seen, r.name, 0)
    [] r.op = "config"  -> SetConfig(r.seen, r.name, r.life)
    [] r.op = "uninstall" -> SetConfig(SetTrusted(r.seen, r.name, 0), r.name, 0)
    [] r.op \in {"install", "copy"} -> SetTrusted(r.seen, r.name, IF r.trust THEN r.life ELSE 0)

(* Save: a temporary file and a rename, so readers see one file or the other *)
(* - but whatever was saved since this editor read is written over.          *)
Save(e) ==
  /\ ed[e].at = "loaded"
  /\ switches' = Changed(ed[e])
  /\ stale' = (stale \/ ed[e].old)
  /\ ed' = [f \in Editors |->
              IF f = e THEN IF ed[e].op = "copy" THEN [Idle EXCEPT !.at = "saved", !.op = "copy", !.name = ed[e].name]
                                                 ELSE Idle
              ELSE [ed[f] EXCEPT !.old = @ \/ ed[f].at = "loaded"]]
  /\ UNCHANGED <<folder, bare, outgoing, gw, ops, faults, life>>

(* plugins.set, and enable, disable, trust, untrust and scope on the command *)
(* line: read the file, change it, save it. No check that the name exists.   *)
Set(e, n, op) ==
  /\ ~Busy(e) /\ ops < MaxOps
  /\ Place(e, Loaded([Idle EXCEPT !.op = op, !.name = n]))
  /\ ops' = ops + 1
  /\ UNCHANGED <<Disk, switches, gw, faults, History>>

(* plugins.config: for the hub, the plugin must be there and its schema hold *)
(* the key; the command line stores what it is told.                         *)
Config(e, n) ==
  /\ ~Busy(e) /\ ops < MaxOps
  /\ e \in Hubs => folder[n] # None /\ folder[n].man
  /\ Place(e, Loaded([Idle EXCEPT !.op = "config", !.name = n]))
  /\ ops' = ops + 1
  /\ UNCHANGED <<Disk, switches, gw, faults, History>>

----------------------------------------------------------------------------
(* Install, update and copy                                                  *)

New(v, src) == [ver |-> v, src |-> src, man |-> TRUE, skill |-> FALSE]

(* The fetch, the look at what is there, and the copy into a stage beside it.*)
Install(e, n, v, replace, trust) ==
  /\ ~Busy(e) /\ ops < MaxOps
  /\ folder[n] = None \/ replace
  /\ Place(e, [Idle EXCEPT !.at = "staged", !.op = "install", !.name = n, !.trust = trust,
                           !.new = New(v, "upstream"), !.exists = folder[n] # None])
  /\ ops' = ops + 1
  /\ UNCHANGED <<Disk, switches, gw, faults, History>>

(* Update: an install over the folder, from where the folder says it is from.*)
Update(e, n, v, trust) ==
  /\ ~Busy(e) /\ ops < MaxOps
  /\ folder[n] # None /\ folder[n].src # "none"
  /\ Place(e, [Idle EXCEPT !.at = "staged", !.op = "install", !.name = n, !.trust = trust,
                           !.new = New(v, folder[n].src), !.exists = TRUE])
  /\ ops' = ops + 1
  /\ UNCHANGED <<Disk, switches, gw, faults, History>>

(* Copy: an install from a peer's folder, never trusted, that ends by        *)
(* writing the true origin over the peer's path, when the peer knows it.     *)
Copy(e, n, v) ==
  /\ ~Busy(e) /\ ops < MaxOps
  /\ Place(e, [Idle EXCEPT !.at = "staged", !.op = "copy", !.name = n,
                           !.new = New(v, "peer"), !.exists = folder[n] # None])
  /\ ops' = ops + 1
  /\ UNCHANGED <<Disk, switches, gw, faults, History>>

CopyWritesSource(e) ==
  LET n == ed[e].name IN
  /\ ed[e].at = "saved"
  /\ \/ folder[n] # None /\ folder' = [folder EXCEPT ![n].src = "upstream"]
     \/ UNCHANGED folder
  /\ Place(e, Idle)
  /\ UNCHANGED <<bare, outgoing, switches, gw, ops, faults, History>>

(* swapIn's first rename. A folder that appeared, or went, since the look    *)
(* makes it fail, and the install answers its error.                         *)
SwapOut(e) ==
  LET n == ed[e].name IN
  /\ ed[e].at = "staged"
  /\ \/ /\ ed[e].exists /\ folder[n] # None
        /\ folder' = [folder EXCEPT ![n] = None]
        /\ outgoing' = outgoing \union {Kept(n, folder[n])}
        /\ Place(e, [ed[e] EXCEPT !.at = "gap",
                                  !.new = [new |-> ed[e].new, old |-> folder[n]]])
     \/ /\ ~ed[e].exists /\ folder[n] = None
        /\ folder' = [folder EXCEPT ![n] = ed[e].new]
        /\ Place(e, [ed[e] EXCEPT !.at = "swapped", !.new = None, !.exists = FALSE])
        /\ UNCHANGED outgoing
     \/ /\ ed[e].exists = (folder[n] = None)
        /\ Place(e, Idle)
        /\ UNCHANGED <<folder, outgoing>>
  /\ UNCHANGED <<bare, switches, gw, ops, faults, History>>

(* Mutant: the previous version is not put back.                             *)
PutBackNever(n, old) == folder

(* The second rename failed: the previous version is put back, unless        *)
(* somebody else has put a folder there meanwhile.                           *)
PutBack(n, old) == IF folder[n] = None THEN [folder EXCEPT ![n] = old] ELSE folder

SwapFails(e) ==
  LET n == ed[e].name   old == ed[e].new.old IN
  /\ ed[e].at = "gap"
  /\ \/ folder[n] # None /\ UNCHANGED faults
     \/ folder[n] = None /\ faults < MaxFaults /\ faults' = faults + 1
  /\ folder' = PutBack(n, old)
  /\ outgoing' = IF folder[n] = None THEN outgoing \ {Kept(n, old)} ELSE outgoing
  /\ Place(e, Idle)
  /\ UNCHANGED <<bare, switches, gw, ops, History>>

SwapIn(e) ==
  LET n == ed[e].name IN
  /\ ed[e].at = "gap" /\ folder[n] = None
  /\ folder' = [folder EXCEPT ![n] = ed[e].new.new]
  /\ outgoing' = outgoing \ {Kept(n, ed[e].new.old)}
  /\ Place(e, [ed[e] EXCEPT !.at = "swapped", !.new = None, !.exists = FALSE])
  /\ UNCHANGED <<bare, switches, gw, ops, faults, History>>

(* After the swap, plugins.yaml: the name's trust becomes what was asked.    *)
InstallLoads(e) ==
  /\ ed[e].at = "swapped"
  /\ Place(e, Loaded(ed[e]))
  /\ UNCHANGED <<Disk, switches, gw, ops, faults, History>>

----------------------------------------------------------------------------
(* Uninstall, and the skills hub's remove                                     *)

Uninstall(e, n) ==
  /\ ~Busy(e) /\ ops < MaxOps
  /\ folder[n] # None /\ folder[n].man
  /\ Place(e, [Idle EXCEPT !.at = "removing", !.op = "uninstall", !.name = n])
  /\ ops' = ops + 1
  /\ UNCHANGED <<Disk, switches, gw, faults, History>>

UninstallRemoves(e) ==
  LET n == ed[e].name IN
  /\ ed[e].at = "removing" /\ ed[e].op = "uninstall"
  /\ folder' = [folder EXCEPT ![n] = None]
  /\ life' = [life EXCEPT ![n] = @ + 1]
  /\ Place(e, [ed[e] EXCEPT !.at = "swapped"])
  /\ UNCHANGED <<bare, outgoing, switches, gw, ops, faults, stale>>

(* skills.remove finds the skill wherever it lives, a plugin before a bare   *)
(* folder, and deletes that folder. plugins.yaml is left alone.              *)
SkillRemove(e, n) ==
  /\ ~Busy(e) /\ ops < MaxOps
  /\ \/ folder[n] # None /\ folder[n].man /\ folder[n].skill
     \/ bare[n] = "folder"
  /\ Place(e, [Idle EXCEPT !.at = "removing", !.op = "remove", !.name = n,
                           !.exists = folder[n] # None /\ folder[n].man /\ folder[n].skill])
  /\ ops' = ops + 1
  /\ UNCHANGED <<Disk, switches, gw, faults, History>>

SkillRemoves(e) ==
  LET n == ed[e].name IN
  /\ ed[e].at = "removing" /\ ed[e].op = "remove"
  /\ IF ed[e].exists
     THEN folder' = [folder EXCEPT ![n] = None] /\ UNCHANGED bare
     ELSE bare' = [bare EXCEPT ![n] = IF @ = "folder" THEN "none" ELSE @] /\ UNCHANGED folder
  /\ Place(e, Idle)
  /\ UNCHANGED <<outgoing, switches, gw, ops, faults, History>>

----------------------------------------------------------------------------
(* The gateway's start: MigrateSkills, then EnsureDefaults                    *)

GatewayStarts ==
  /\ gw.at = "down"
  /\ gw' = [at |-> "migrate", name |-> None, todo |-> {n \in Names : bare[n] = "folder"}]
  /\ UNCHANGED <<Disk, switches, ed, ops, faults, History>>

(* One skill of the list: left in place when a plugin has the name, else its *)
(* folder is moved whole.                                                    *)
Migrate(n) ==
  /\ gw.at = "migrate" /\ n \in gw.todo
  /\ IF folder[n] # None
     THEN /\ gw' = [gw EXCEPT !.todo = @ \ {n}]
          /\ UNCHANGED <<folder, bare>>
     ELSE /\ folder' = [folder EXCEPT ![n] = [ver |-> 0, src |-> "none", man |-> FALSE, skill |-> TRUE]]
          /\ bare' = [bare EXCEPT ![n] = "none"]
          /\ gw' = [at |-> "manifest", name |-> n, todo |-> gw.todo \ {n}]
  /\ UNCHANGED <<outgoing, switches, ed, ops, faults, History>>

(* The manifest, then the link that keeps the old path working. A folder     *)
(* somebody swapped in meanwhile gets the manifest written over its own; one *)
(* that is gone makes the write fail, and the migration stops there.         *)
MigrateWrites ==
  LET n == gw.name IN
  /\ gw.at = "manifest"
  /\ IF folder[n] = None
     THEN gw' = [gw EXCEPT !.at = "seed", !.name = None, !.todo = Defaults] /\ UNCHANGED <<folder, bare>>
     ELSE /\ folder' = [folder EXCEPT ![n].man = TRUE]
          /\ bare' = [bare EXCEPT ![n] = IF @ = "none" THEN "link" ELSE @]
          /\ gw' = [gw EXCEPT !.at = "migrate", !.name = None]
  /\ UNCHANGED <<outgoing, switches, ed, ops, faults, History>>

MigrateEnds ==
  /\ gw.at = "migrate" /\ gw.todo = {}
  /\ gw' = [gw EXCEPT !.at = "seed", !.todo = Defaults]
  /\ UNCHANGED <<Disk, switches, ed, ops, faults, History>>

(* EnsureDefaults writes a default whose SKILL.md is not there: the manifest *)
(* first, the skill after it.                                                *)
Seed(n) ==
  /\ gw.at = "seed" /\ n \in gw.todo
  /\ IF folder[n] # None /\ folder[n].skill
     THEN gw' = [gw EXCEPT !.todo = @ \ {n}] /\ UNCHANGED folder
     ELSE /\ folder' = [folder EXCEPT ![n] =
                          IF @ = None THEN [ver |-> 0, src |-> "none", man |-> TRUE, skill |-> FALSE]
                                      ELSE [@ EXCEPT !.man = TRUE]]
          /\ gw' = [at |-> "skill", name |-> n, todo |-> gw.todo \ {n}]
  /\ UNCHANGED <<bare, outgoing, switches, ed, ops, faults, History>>

SeedSkill ==
  LET n == gw.name IN
  /\ gw.at = "skill"
  /\ IF folder[n] = None
     THEN gw' = [gw EXCEPT !.at = "up", !.name = None, !.todo = {}] /\ UNCHANGED folder
     ELSE /\ folder' = [folder EXCEPT ![n].skill = TRUE]
          /\ gw' = [gw EXCEPT !.at = "seed", !.name = None]
  /\ UNCHANGED <<bare, outgoing, switches, ed, ops, faults, History>>

SeedEnds ==
  /\ gw.at = "seed" /\ gw.todo = {}
  /\ gw' = [gw EXCEPT !.at = "up"]
  /\ UNCHANGED <<Disk, switches, ed, ops, faults, History>>

----------------------------------------------------------------------------
(* The world                                                                 *)

(* A backend that improves itself writes a skill the old way.                *)
BackendWrites(n) ==
  /\ bare[n] = "none" /\ ops < MaxOps
  /\ bare' = [bare EXCEPT ![n] = "folder"]
  /\ ops' = ops + 1
  /\ UNCHANGED <<folder, outgoing, switches, ed, gw, faults, History>>

EditorDies(e) ==
  /\ Busy(e) /\ faults < MaxFaults
  /\ faults' = faults + 1
  /\ Place(e, Idle)
  /\ UNCHANGED <<Disk, switches, gw, ops, History>>

GatewayDies ==
  /\ gw.at # "down" /\ faults < MaxFaults
  /\ faults' = faults + 1
  /\ gw' = [at |-> "down", name |-> None, todo |-> {}]
  /\ UNCHANGED <<Disk, switches, ed, ops, History>>

(* What both the hub and the command line offer.                             *)
Edit(e) ==
  \/ \E n \in Names :
       \/ \E op \in {"switch", "trust", "untrust"} : Set(e, n, op)
       \/ Config(e, n)
       \/ \E v \in 1..MaxVersion :
            \/ \E replace, trust \in BOOLEAN : Install(e, n, v, replace, trust)
            \/ \E trust \in BOOLEAN : Update(e, n, v, trust)
       \/ Uninstall(e, n)
  \/ SwapOut(e) \/ SwapFails(e) \/ SwapIn(e) \/ InstallLoads(e)
  \/ UninstallRemoves(e) \/ Save(e)
  \/ EditorDies(e)

(* Copying between agents, and the skills hub.                               *)
HubEdit(e) ==
  \/ \E n \in Names : SkillRemove(e, n) \/ \E v \in 1..MaxVersion : Copy(e, n, v)
  \/ SkillRemoves(e) \/ CopyWritesSource(e)

Start ==
  \/ GatewayStarts \/ MigrateWrites \/ MigrateEnds \/ SeedSkill \/ SeedEnds \/ GatewayDies
  \/ \E n \in Names : Migrate(n) \/ Seed(n)

(* A name somebody is removing is nobody's loss.                             *)
Asked(r, n) == r.name = n /\ r.op \in {"uninstall", "remove"}

Next ==
  /\ \/ \E e \in Editors : Edit(e)
     \/ \E e \in Hubs : HubEdit(e)
     \/ Start
     \/ \E n \in Names : BackendWrites(n)
  /\ had' = {n \in Names : (n \in had \/ Found(n)') /\ \A e \in Editors : ~Asked(ed'[e], n)}

Spec == Init /\ [][Next]_vars

----------------------------------------------------------------------------
(* Properties                                                                *)

(* Every folder, switch and operation is one the program can hold.           *)
TypeOK ==
  /\ folder \in [Names -> Folder \union {None}]
  /\ bare \in [Names -> {"none", "folder", "link"}]
  /\ outgoing \subseteq [name : Names, ver : 0..MaxVersion]
  /\ switches \in Switches
  /\ \A e \in Editors :
       /\ ed[e].at \in {"idle", "staged", "gap", "swapped", "loaded", "saved", "removing"}
       /\ ed[e].at = "staged" => ed[e].new \in Folder
       /\ ed[e].at = "gap" => ed[e].new \in [new : Folder, old : Folder]
       /\ Busy(e) <=> ed[e].name \in Names
       /\ ed[e].seen \in Switches
  /\ gw.at \in {"down", "migrate", "manifest", "seed", "skill", "up"}
  /\ gw.at \in {"manifest", "skill"} <=> gw.name \in Names
  /\ gw.todo \subseteq Names
  /\ ops \in 0..MaxOps /\ faults \in 0..MaxFaults
  /\ life \in [Names -> 1..(MaxOps + 1)]

Moving(n) == \/ \E e \in Editors : ed[e].at = "gap" /\ ed[e].name = n
             \/ gw.at = "manifest" /\ gw.name = n

(* A skill or plugin the agent had is there for its next turn, whatever the  *)
(* hub, the command line and a gateway's start do to the folder at once: only *)
(* a rename or a migration in flight hides it, while nothing fails or dies.  *)
HeldIsFound == faults = 0 => \A n \in had : Found(n) \/ Moving(n)

(* Even when a rename fails, or a process dies between two of them, what the *)
(* agent had is still on disk: in its folder, in skills/, or in the copy put aside.             *)
HeldSurvives ==
  \A n \in had : \/ folder[n] # None
                 \/ bare[n] = "folder"
                 \/ \E v \in 0..MaxVersion : [name |-> n, ver |-> v] \in outgoing

(* The trust and the settings given to a plugin that was uninstalled do not  *)
(* reach what is installed under the name next - as long as nobody wrote plugins.yaml from *)
(* an old reading and no uninstall died half way.                            *)
SettingsEnd ==
  ~stale /\ faults = 0 =>
    \A n \in Names :
      folder[n] # None /\ (\A e \in Editors : ~Asked(ed[e], n))
        => {switches.set[n], switches.trust[n]} \subseteq {0, life[n]}
=============================================================================
