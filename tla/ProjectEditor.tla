---------------------------- MODULE ProjectEditor ----------------------------
(***************************************************************************)
(* A project's folder in the browser: the editor (dashboard/src/admin/          *)
(* ProjectEditor.tsx), the method it goes through for everything               *)
(* (channels.files in gateway/channels.go) and the files themselves   *)
(* (coord/projectfiles.go), in which agents write while it is open.            *)
(*                                                                         *)
(* The dashboard answers every request on a goroutine of its own, so answers    *)
(* come in any order.  A file is its text and its modification time; each write *)
(* gives it a new time.                                                     *)
(***************************************************************************)
EXTENDS Naturals

CONSTANTS
    Paths,          \* names in the folder
    Slots,          \* requests under way at once
    MaxEdits,       \* bound: texts a person or an agent writes
    MaxAsks,        \* bound: requests the page makes
    MaxWrites       \* bound: writes to the folder

EditorConstants ==
    /\ Slots \subseteq Nat /\ MaxAsks \in Nat
    /\ MaxEdits \in Nat \ {0} /\ MaxWrites \in Nat \ {0}   \* the first text, the first time

VARIABLES
    files,          \* the folder
    clock,          \* the last modification time given out
    typed,          \* the last text made up
    tabs,           \* the open tabs and their buffers (Monaco's models)
    requests,       \* the requests under way
    asks,           \* requests made
    races           \* history: times given inside a request of another's

vars == <<files, clock, typed, tabs, requests, asks, races>>

NoFile == [text |-> 0, mtime |-> 0]

NoTab == [open |-> FALSE]

Idle == [op |-> "none"]

(* A tab just read: dirty FALSE, its buffer the text it came with.              *)
Fresh(text, mtime, of) ==
    [open |-> TRUE, text |-> text, saved |-> text, mtime |-> mtime, of |-> of,
     dirty |-> FALSE, conflict |-> FALSE]

Init ==
    /\ files \in [Paths -> {NoFile, [text |-> 1, mtime |-> 1]}]
    /\ clock = 1
    /\ typed = 1
    /\ tabs = [p \in Paths |-> NoTab]
    /\ requests = [s \in Slots |-> Idle]
    /\ races = {}
    /\ asks = 0

Exists(p) == files[p] # NoFile

Free(s) == requests[s] = Idle

(* The page makes a request; which slot it takes says nothing, so the first.      *)
Ask(s, r) ==
    /\ Free(s) /\ \A t \in Slots : t < s => ~Free(t)
    /\ asks < MaxAsks /\ asks' = asks + 1
    /\ requests' = [requests EXCEPT ![s] = r]

(* Someone is between two looks at the file p.                               *)
Looking(p, self) ==
    \E s \in Slots \ self : requests[s] # Idle /\ requests[s].path = p

(* A write to the file p: a time of its own.                                 *)
Write(p, text, self) ==
    /\ clock < MaxWrites
    /\ clock' = clock + 1
    /\ files' = [files EXCEPT ![p] = [text |-> text, mtime |-> clock + 1]]
    /\ races' = IF Looking(p, self) THEN races \union {clock + 1} ELSE races

-----------------------------------------------------------------------------
(* The page asks.                                                          *)

Reading(p, for) == [op |-> "read", path |-> p, for |-> for, at |-> "sent"]

(* openFile and its read: a tab that is open is only shown.  The person does     *)
(* not open a file whose reading is under way (assumption).                    *)
OpenFile(s, p) ==
    /\ ~tabs[p].open
    /\ \A t \in Slots : requests[t] # Idle => requests[t].path # p
    /\ Ask(s, Reading(p, "open"))
    /\ UNCHANGED <<files, clock, typed, tabs, races>>

(* onChange: the buffer of a tab is edited, or an edit is taken back.            *)
Edit(p) ==
    /\ tabs[p].open
    /\ \/ typed < MaxEdits /\ typed' = typed + 1
          /\ tabs' = [tabs EXCEPT ![p].text = typed + 1, ![p].dirty = TRUE]
       \/ tabs[p].dirty /\ typed' = typed
          /\ tabs' = [tabs EXCEPT ![p].text = tabs[p].saved, ![p].dirty = FALSE]
    /\ UNCHANGED <<files, clock, requests, asks, races>>

(* save: the buffer goes, with the time the tab was read or written at.           *)
Save(s, p, force) ==
    /\ tabs[p].open
    /\ force => tabs[p].conflict
    /\ Ask(s, [op |-> "save", path |-> p, at |-> "sent", for |-> "tab", text |-> tabs[p].text,
               base |-> IF force THEN 0 ELSE tabs[p].mtime,
               of |-> IF force THEN 0 ELSE tabs[p].of])
    /\ UNCHANGED <<files, clock, typed, tabs, races>>

(* reloadFromDisk, the banner's other choice.                                  *)
ReloadFromDisk(s, p) ==
    /\ tabs[p].open /\ tabs[p].conflict
    /\ Ask(s, Reading(p, "reload"))
    /\ UNCHANGED <<files, clock, typed, tabs, races>>

(* newFile: first a look whether the name is taken.                             *)
NewFile(s, p) ==
    /\ ~tabs[p].open
    /\ \A t \in Slots : requests[t] # Idle => requests[t].path # p
    /\ Ask(s, Reading(p, "new"))
    /\ UNCHANGED <<files, clock, typed, tabs, races>>

(* rename: not while a tab of it has unsaved text.                              *)
Renames(p) == ~(tabs[p].open /\ tabs[p].dirty)

Rename(s, p, to) ==
    /\ to # p
    /\ Renames(p)
    /\ Ask(s, [op |-> "rename", path |-> p, to |-> to, at |-> "sent", open |-> tabs[p].open,
               unsaved |-> tabs[p].open /\ tabs[p].dirty])
    /\ UNCHANGED <<files, clock, typed, tabs, races>>

(* remove: the person confirms, unsaved text and all.                           *)
Remove(s, p) ==
    /\ Ask(s, [op |-> "delete", path |-> p, at |-> "sent", open |-> tabs[p].open])
    /\ UNCHANGED <<files, clock, typed, tabs, races>>

(* closeTab: asks first when there is unsaved text.                             *)
CloseTab(p) ==
    /\ tabs[p].open
    /\ tabs' = [tabs EXCEPT ![p] = NoTab]
    /\ UNCHANGED <<files, clock, typed, requests, asks, races>>

-----------------------------------------------------------------------------
(* The dashboard answers (handleProjectFiles), one look or write at a time.      *)

At(s, op, at) == requests[s] # Idle /\ requests[s].op = op /\ requests[s].at = at

Goes(s, r) == requests' = [requests EXCEPT ![s] = r]

Fails(s) == Goes(s, [requests[s] EXCEPT !.at = "failed"])

(* ReadProjectFile.                                                        *)
ReadFile(s) ==
    /\ At(s, "read", "sent")
    /\ LET r == requests[s] IN
       IF ~Exists(r.path) THEN Fails(s)
       ELSE Goes(s, [op |-> "read", path |-> r.path, for |-> r.for, at |-> "read",
                     text |-> files[r.path].text, of |-> files[r.path].mtime])
    /\ UNCHANGED <<files, clock, typed, tabs, asks, races>>

(* ProjectFileMtime, after the text was read or written.                        *)
StatFile(s) ==
    /\ At(s, "read", "read") \/ At(s, "save", "written")
    /\ LET r == requests[s] IN
       Goes(s, [op |-> r.op, path |-> r.path, for |-> r.for, at |-> "done", text |-> r.text,
                of |-> r.of, mtime |-> files[r.path].mtime])
    /\ UNCHANGED <<files, clock, typed, tabs, asks, races>>

(* The conflict check: only when the file is still there to be looked at.        *)
MovedOn(r) == r.base # 0 /\ Exists(r.path) /\ files[r.path].mtime # r.base

CheckSave(s) ==
    /\ At(s, "save", "sent")
    /\ LET r == requests[s] IN
       Goes(s, [r EXCEPT !.at = IF MovedOn(r) THEN "conflict" ELSE "checked"])
    /\ UNCHANGED <<files, clock, typed, tabs, asks, races>>

(* WriteProjectFile: a temporary file renamed over the old one, or a new one.     *)
WriteFile(s) ==
    /\ At(s, "save", "checked")
    /\ LET r == requests[s] IN
       /\ Write(r.path, r.text, {s})
       /\ Goes(s, [op |-> "save", path |-> r.path, for |-> r.for, at |-> "written",
                   text |-> r.text, of |-> clock + 1])
    /\ UNCHANGED <<typed, tabs, asks>>

(* RenameProjectPath: it does not overwrite.                                    *)
RenameFile(s) ==
    /\ At(s, "rename", "sent")
    /\ LET r == requests[s] IN
       IF ~Exists(r.path) \/ Exists(r.to) THEN Fails(s) /\ UNCHANGED <<files, races>>
       ELSE /\ Goes(s, [r EXCEPT !.at = "done"])
            /\ files' = [files EXCEPT ![r.to] = files[r.path], ![r.path] = NoFile]
            /\ races' = IF Looking(r.to, {s}) THEN races \union {files[r.path].mtime} ELSE races
    /\ UNCHANGED <<clock, typed, tabs, asks>>

(* DeleteProjectPath.                                                      *)
DeleteFile(s) ==
    /\ At(s, "delete", "sent")
    /\ LET r == requests[s] IN
       IF ~Exists(r.path) THEN Fails(s) /\ UNCHANGED files
       ELSE Goes(s, [r EXCEPT !.at = "done"]) /\ files' = [files EXCEPT ![r.path] = NoFile]
    /\ UNCHANGED <<clock, typed, tabs, asks, races>>

(* An agent in the same folder.                                              *)
AgentWrites(p) ==
    /\ typed < MaxEdits
    /\ typed' = typed + 1
    /\ Write(p, typed + 1, {})
    /\ UNCHANGED <<tabs, requests, asks>>

-----------------------------------------------------------------------------
(* The page takes the answers.                                                *)

Answered(s, op, for) == At(s, op, "done") /\ requests[s].for = for

TakeOpen(s) ==
    /\ Answered(s, "read", "open")
    /\ LET r == requests[s] IN
       tabs' = [tabs EXCEPT ![r.path] = Fresh(r.text, r.mtime, r.of)]
    /\ Goes(s, Idle)
    /\ UNCHANGED <<files, clock, typed, asks, races>>

(* The reload lands in the buffer as an edit, which undo takes back.             *)
TakeReload(s) ==
    /\ Answered(s, "read", "reload")
    /\ LET r == requests[s] IN
       tabs' = IF tabs[r.path].open
                  THEN [tabs EXCEPT ![r.path] = Fresh(r.text, r.mtime, r.of)]
                  ELSE tabs
    /\ Goes(s, Idle)
    /\ UNCHANGED <<files, clock, typed, asks, races>>

(* The name is taken: newFile stops; it was not: an empty file is written.        *)
TakeLook(s) ==
    /\ requests[s] # Idle /\ requests[s].op = "read" /\ requests[s].for = "new"
    /\ \/ requests[s].at = "done" /\ Goes(s, Idle)
       \/ requests[s].at = "failed"
          /\ Goes(s, [op |-> "save", path |-> requests[s].path, for |-> "new", at |-> "sent",
                      text |-> 0, base |-> 0, of |-> 0])
    /\ UNCHANGED <<files, clock, typed, tabs, asks, races>>

(* The new file is there: open it, if a tab of that name is not.                 *)
TakeNew(s) ==
    /\ Answered(s, "save", "new")
    /\ LET p == requests[s].path IN
       Goes(s, IF tabs[p].open THEN Idle ELSE Reading(p, "open"))
    /\ UNCHANGED <<files, clock, typed, tabs, asks, races>>

(* What the buffer holds now decides whether the tab is still dirty.             *)
SavedTab(tab, r) ==
    [tab EXCEPT !.saved = r.text, !.mtime = r.mtime, !.of = r.of,
                !.dirty = (tab.text # r.text), !.conflict = FALSE]

TakeSave(s) ==
    /\ Answered(s, "save", "tab")
    /\ LET r == requests[s] IN
       tabs' = IF tabs[r.path].open THEN [tabs EXCEPT ![r.path] = SavedTab(@, r)] ELSE tabs
    /\ Goes(s, Idle)
    /\ UNCHANGED <<files, clock, typed, asks, races>>

TakeConflict(s) ==
    /\ At(s, "save", "conflict")
    /\ LET p == requests[s].path IN
       tabs' = IF tabs[p].open THEN [tabs EXCEPT ![p].conflict = TRUE] ELSE tabs
    /\ Goes(s, Idle)
    /\ UNCHANGED <<files, clock, typed, asks, races>>

(* A rename: the tab of the old name closes unasked and opens under the new.      *)
TakeRename(s) ==
    /\ At(s, "rename", "done")
    /\ LET r == requests[s] IN
       /\ tabs' = IF r.open THEN [tabs EXCEPT ![r.path] = NoTab] ELSE tabs
       /\ Goes(s, IF r.open /\ ~tabs[r.to].open THEN Reading(r.to, "open") ELSE Idle)
    /\ UNCHANGED <<files, clock, typed, asks, races>>

TakeDelete(s) ==
    /\ At(s, "delete", "done")
    /\ LET r == requests[s] IN
       tabs' = IF r.open THEN [tabs EXCEPT ![r.path] = NoTab] ELSE tabs
    /\ Goes(s, Idle)
    /\ UNCHANGED <<files, clock, typed, asks, races>>

(* An error is shown, and that is all.                                        *)
TakeError(s) ==
    /\ requests[s] # Idle /\ requests[s].at = "failed"
    /\ ~(requests[s].op = "read" /\ requests[s].for = "new")
    /\ Goes(s, Idle)
    /\ UNCHANGED <<files, clock, typed, tabs, asks, races>>

-----------------------------------------------------------------------------
Asks(s) ==
    \E p \in Paths :
        \/ OpenFile(s, p) \/ ReloadFromDisk(s, p) \/ NewFile(s, p) \/ Remove(s, p)
        \/ \E force \in BOOLEAN : Save(s, p, force)
        \/ \E to \in Paths : Rename(s, p, to)

Answers(s) ==
    \/ ReadFile(s) \/ StatFile(s) \/ CheckSave(s) \/ WriteFile(s)
    \/ RenameFile(s) \/ DeleteFile(s)

Takes(s) ==
    \/ TakeOpen(s) \/ TakeReload(s) \/ TakeLook(s) \/ TakeNew(s) \/ TakeSave(s)
    \/ TakeConflict(s) \/ TakeRename(s) \/ TakeDelete(s) \/ TakeError(s)

Next ==
    \/ \E s \in Slots : Asks(s) \/ Answers(s) \/ Takes(s)
    \/ \E p \in Paths : Edit(p) \/ CloseTab(p) \/ AgentWrites(p)

Spec == Init /\ [][Next]_vars

-----------------------------------------------------------------------------
(* A tab's mtime is a time some look at its file returned, and its text was      *)
(* read or written: coord/projectfiles.go and ProjectEditor.tsx's Tab.           *)
TypeOK ==
    /\ clock \in 1..MaxWrites /\ typed \in 1..MaxEdits
    /\ \A p \in Paths : files[p].text \in 0..typed /\ files[p].mtime \in 0..clock
    /\ \A p \in Paths : tabs[p].open =>
          /\ tabs[p].text \in 0..typed /\ tabs[p].saved \in 0..typed
          /\ tabs[p].mtime \in 0..clock /\ tabs[p].of \in 1..clock

(* A tab the page shows as saved (no dot on it) holds the text of the last read   *)
(* or save it knows of, however saves, reloads and edits overlap                 *)
(* (ProjectEditor.tsx: onChange, save, reloadFromDisk).                          *)
CleanIsSaved ==
    \A p \in Paths : tabs[p].open => (tabs[p].dirty <=> tabs[p].text # tabs[p].saved)

(* A save that was not forced replaces a version of the file whose text the       *)
(* person had before them, except one that was written inside a request: between  *)
(* a look at the text and the look at its time, or between the check and the       *)
(* write (handleProjectFiles, channels.go:283-316).                             *)
NoBlindOverwrite ==
    \A s \in Slots :
          (At(s, "save", "checked") /\ requests'[s] # requests[s]
             /\ requests[s].for = "tab" /\ requests[s].base # 0 /\ Exists(requests[s].path))
          => files[requests[s].path].mtime \in {requests[s].of} \union races

(* A tab with unsaved text is closed only by someone who was asked: closeTab's and  *)
(* remove's questions; a rename, which does not ask, closes one only when the text  *)
(* was typed after it began (ProjectEditor.tsx: closeTab, rename, remove).        *)
EditsAreAskedFor ==
    \A s \in Slots : \A p \in Paths :
          (At(s, "rename", "done") /\ requests[s] # requests'[s]
             /\ requests[s].path = p /\ tabs[p] # tabs'[p])
          => ~requests[s].unsaved

=============================================================================
