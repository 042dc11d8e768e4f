------------------------------- MODULE Preview -------------------------------
(***************************************************************************)
(* The dev server of a project, run and proxied by the dashboard process         *)
(* (gateway/preview.go), and the panel that asks for it (PreviewPanel.tsx).       *)
(* Every call of a page is a goroutine of its own, so two of them overlap.        *)
(***************************************************************************)
EXTENDS Naturals

CONSTANTS
    Panel,          \* the call the open panel makes
    Other,          \* the call of somebody else: a second tab, the buttons
    Main,           \* the dashboard's own end: StopAll
    Found,          \* what bomclaw.json may say at first
    Ports,          \* port numbers
    MaxRuns,        \* bound: dev servers ever started
    MaxAsks,        \* bound: buttons pressed and calls of others
    MaxChanges,     \* bound: times bomclaw.json changes
    MaxFaults       \* bound: calls that fail

PreviewConstants ==
    /\ Ports \subseteq Nat \ {0} /\ MaxRuns \in Nat /\ MaxChanges \in Nat
    /\ Panel # Other /\ Main \notin {Panel, Other}

Calls == {Panel, Other, Main}
Runs == 1..MaxRuns

VARIABLES
    declared,       \* bomclaw.json: "none", "static" or "server"
    run,            \* the dev servers: process, state as told, and the dialling goroutine
    current,        \* m.runs: the channel's run, 0 without one
    listens,        \* who listens on a port: a run, or 0
    call,           \* the calls under way
    panel,          \* what the panel shows, and what it has under way
    down,           \* the dashboard process has ended
    overlapped,     \* history: two starts were under way at once
    asks, changes, faults

vars == <<declared, run, current, listens, call, panel, down, overlapped, asks, changes, faults>>

NoRun == [alive |-> FALSE, done |-> FALSE, state |-> "none", port |-> 0, probe |-> "none", silent |-> FALSE]
NoCall == [at |-> "none", start |-> FALSE, run |-> 0]
Unknown == [kind |-> "unknown", state |-> "unknown"]

Init ==
    /\ declared \in Found
    /\ run = [r \in Runs |-> NoRun]
    /\ current = 0
    /\ listens = [p \in Ports |-> 0]
    /\ call = [c \in Calls |-> NoCall]
    /\ panel = [shown |-> Unknown, auto |-> FALSE, first |-> TRUE, poll |-> Unknown, busy |-> FALSE]
    /\ down = FALSE /\ overlapped = FALSE
    /\ asks = 0 /\ changes = 0 /\ faults = 0

(* What preview.status answers.                                               *)
Status(cur, runs) ==
    [kind |-> declared,
     state |-> CASE declared = "none"   -> "none"
                 [] declared = "static" -> "running"
                 [] OTHER -> IF cur = 0 THEN "stopped" ELSE runs[cur].state]

Declare(kind) ==
    /\ changes < MaxChanges /\ kind # declared
    /\ declared' = kind /\ changes' = changes + 1
    /\ UNCHANGED <<run, current, listens, call, panel, down, overlapped, asks, faults>>

-----------------------------------------------------------------------------
(* The calls.                                                               *)

(* Start reads bomclaw.json first; a static preview has nothing to start.         *)
Starts(c) == [call EXCEPT ![c] = IF declared = "server" THEN [NoCall EXCEPT !.at = "take", !.start = TRUE] ELSE @]

Overlaps == \E c \in Calls : call[c].at # "none" /\ (call[c].start \/ c = Main)

Asks ==
    /\ call[Other] = NoCall
    /\ asks < MaxAsks /\ asks' = asks + 1
    /\ \/ /\ call' = Starts(Other)
          /\ overlapped' = (overlapped \/ Overlaps)
       \/ /\ call' = [call EXCEPT ![Other] = [NoCall EXCEPT !.at = "take"]]
          /\ UNCHANGED overlapped
    /\ call' # call
    /\ UNCHANGED <<declared, run, current, listens, panel, down, changes, faults>>

ShutDown ==
    /\ call[Main] = NoCall
    /\ call' = [call EXCEPT ![Main] = [NoCall EXCEPT !.at = "take"]]
    /\ overlapped' = (overlapped \/ Overlaps)
    /\ UNCHANGED <<declared, run, current, listens, panel, down, asks, changes, faults>>

(* A call is over: the panel shows the answer of its own, and the process ends     *)
(* with StopAll.                                                              *)
Ends(c, cur, runs) ==
    /\ call' = [call EXCEPT ![c] = NoCall]
    /\ panel' = IF c = Panel THEN [panel EXCEPT !.shown = Status(cur, runs), !.busy = FALSE] ELSE panel
    /\ down' = (c = Main)

EndsRun(r) == ~run[r].done

Freed(r) == [p \in Ports |-> IF listens[p] = r THEN 0 ELSE listens[p]]

(* Stop takes the run out of the map, then ends it.                               *)
Take(c) ==
    /\ call[c].at = "take"
    /\ current' = 0
    /\ IF current # 0 /\ EndsRun(current)
       THEN call' = [call EXCEPT ![c].at = "wait", ![c].run = current] /\ UNCHANGED <<panel, down>>
       ELSE IF call[c].start
       THEN call' = [call EXCEPT ![c].at = "launch"] /\ UNCHANGED <<panel, down>>
       ELSE Ends(c, 0, run)
    /\ UNCHANGED <<declared, run, listens, overlapped, asks, changes, faults>>

(* TERM to the group, KILL after three seconds; either way it waits for the end.   *)
Killed(c) ==
    /\ call[c].at = "wait" /\ run[call[c].run].alive
    /\ run' = [run EXCEPT ![call[c].run].alive = FALSE]
    /\ listens' = Freed(call[c].run)
    /\ UNCHANGED <<declared, current, call, panel, down, overlapped, asks, changes, faults>>

Waited(c) ==
    /\ call[c].at = "wait" /\ run[call[c].run].done
    /\ IF call[c].start
       THEN call' = [call EXCEPT ![c].at = "launch", ![c].run = 0] /\ UNCHANGED <<panel, down>>
       ELSE Ends(c, current, run)
    /\ UNCHANGED <<declared, run, current, listens, overlapped, asks, changes, faults>>

(* A free port, a process; or the folder is not there, or nothing starts.          *)
Launch(c) ==
    /\ call[c].at = "launch"
    /\ \/ \E r \in Runs, p \in Ports :
            /\ run[r] = NoRun /\ \A q \in Runs : q < r => run[q] # NoRun
            /\ listens[p] = 0
            /\ run' = [run EXCEPT ![r] = [NoRun EXCEPT !.alive = TRUE, !.state = "starting", !.port = p]]
            /\ call' = [call EXCEPT ![c].at = "register", ![c].run = r]
            /\ UNCHANGED <<panel, down, faults>>
       \/ /\ faults < MaxFaults /\ faults' = faults + 1
          /\ call' = [call EXCEPT ![c] = NoCall]
          /\ panel' = IF c = Panel THEN [panel EXCEPT !.busy = FALSE] ELSE panel
          /\ UNCHANGED <<run, down>>
    /\ UNCHANGED <<declared, current, listens, overlapped, asks, changes>>

Register(c) ==
    /\ call[c].at = "register"
    /\ LET r == call[c].run IN
       /\ current' = r
       /\ run' = [run EXCEPT ![r].probe = "dialling"]
       /\ Ends(c, r, run')
    /\ UNCHANGED <<declared, listens, overlapped, asks, changes, faults>>

-----------------------------------------------------------------------------
(* A dev server and the two goroutines that watch it.                            *)

Listen(r) ==
    /\ run[r].alive /\ listens[run[r].port] = 0
    /\ listens' = [listens EXCEPT ![run[r].port] = r]
    /\ UNCHANGED <<declared, run, current, call, panel, down, overlapped, asks, changes, faults>>

Exits(r) ==
    /\ run[r].alive /\ faults < MaxFaults /\ faults' = faults + 1
    /\ run' = [run EXCEPT ![r].alive = FALSE]
    /\ listens' = Freed(r)
    /\ UNCHANGED <<declared, current, call, panel, down, overlapped, asks, changes>>

(* The goroutines start once the run is in the map.                              *)
Reaped(r) ==
    /\ run[r].probe # "none" /\ ~run[r].alive /\ ~run[r].done
    /\ run' = [run EXCEPT ![r].done = TRUE, ![r].state = "exited"]
    /\ UNCHANGED <<declared, current, listens, call, panel, down, overlapped, asks, changes, faults>>

(* Whatever listens on the port answers the dial.                                *)
Dialled(r) ==
    /\ run[r].probe = "dialling" /\ ~run[r].done
    /\ listens[run[r].port] # 0
    /\ run' = [run EXCEPT ![r].probe = "answered"]
    /\ UNCHANGED <<declared, current, listens, call, panel, down, overlapped, asks, changes, faults>>

(* The dial was answered before; the process may have ended since.                *)
SaysRunning(r) ==
    /\ run[r].probe = "answered"
    /\ run' = [run EXCEPT ![r].probe = "over", ![r].state = "running"]
    /\ UNCHANGED <<declared, current, listens, call, panel, down, overlapped, asks, changes, faults>>

Silent(r) == run[r].state = "starting"

(* The process ended, or five minutes passed and nothing listened.               *)
ProbeEnds(r) ==
    /\ run[r].probe = "dialling"
    /\ run' = [run EXCEPT ![r].probe = "over", ![r].silent = ~run[r].done /\ Silent(r)]
    /\ UNCHANGED <<declared, current, listens, call, panel, down, overlapped, asks, changes, faults>>

-----------------------------------------------------------------------------
(* The panel: one status call at a time, shown when it arrives.                   *)
Poll ==
    /\ panel.poll = Unknown
    /\ panel' = [panel EXCEPT !.poll = Status(current, run)]
    /\ UNCHANGED <<declared, run, current, listens, call, down, overlapped, asks, changes, faults>>

(* Opening the panel starts a server that is not running, and so does an agent      *)
(* declaring one while it is open; once.                                       *)
Wants(now) ==
    /\ ~panel.auto /\ now.kind = "server"
    /\ \/ panel.first /\ now.state \in {"stopped", "exited"}
       \/ panel.shown.kind = "none" /\ now.state = "stopped"

PollArrives ==
    /\ panel.poll # Unknown
    /\ LET now == panel.poll
           starts == Wants(now) /\ call[Panel] = NoCall
       IN /\ call' = IF starts THEN Starts(Panel) ELSE call
          /\ panel' = [panel EXCEPT !.poll = Unknown, !.shown = now, !.first = FALSE,
                                    !.auto = @ \/ Wants(now), !.busy = @ \/ call' # call]
          /\ overlapped' = (overlapped \/ (starts /\ Overlaps))
    /\ UNCHANGED <<declared, run, current, listens, down, asks, changes, faults>>

(* The first status does not come back: no later one counts as the first.          *)
PollFails ==
    /\ panel.poll # Unknown /\ faults < MaxFaults
    /\ faults' = faults + 1
    /\ panel' = [panel EXCEPT !.poll = Unknown, !.first = FALSE]
    /\ UNCHANGED <<declared, run, current, listens, call, down, overlapped, asks, changes>>

Presses(start) ==
    /\ asks < MaxAsks /\ asks' = asks + 1
    /\ ~panel.busy /\ call[Panel] = NoCall /\ panel.shown.kind = "server"
    /\ panel.shown.state \in {"starting", "running"} \/ start
    /\ call' = IF start THEN Starts(Panel) ELSE [call EXCEPT ![Panel] = [NoCall EXCEPT !.at = "take"]]
    /\ call' # call
    /\ panel' = [panel EXCEPT !.busy = TRUE]
    /\ overlapped' = (overlapped \/ (start /\ Overlaps))
    /\ UNCHANGED <<declared, run, current, listens, down, changes, faults>>

-----------------------------------------------------------------------------
Handles(c) == Take(c) \/ Killed(c) \/ Waited(c) \/ Launch(c) \/ Register(c)

Watches(r) == Reaped(r) \/ Dialled(r) \/ SaysRunning(r) \/ ProbeEnds(r)

Next ==
    \/ /\ ~down
       /\ \/ \E kind \in {"none", "static", "server"} : Declare(kind)
          \/ Asks \/ ShutDown
          \/ \E c \in Calls : Handles(c)
          \/ \E r \in Runs : Watches(r)
          \/ Poll \/ PollArrives \/ PollFails
          \/ \E start \in BOOLEAN : Presses(start)
    \/ \E r \in Runs : Listen(r) \/ Exits(r)

Spec == Init /\ [][Next]_vars


-----------------------------------------------------------------------------
(* A port has one listener, alive and told that port; a run told to be running has   *)
(* been dialled, and a finished one is dead.                                     *)
TypeOK ==
    /\ current \in 0..MaxRuns
    /\ current # 0 => run[current].probe # "none"
    /\ \A p \in Ports : listens[p] # 0 => run[listens[p]].alive /\ run[listens[p]].port = p
    /\ \A r \in Runs :
        /\ run[r].state = "running" => run[r].probe = "over"
        /\ run[r].state = "exited" => run[r].done
        /\ run[r].done => ~run[r].alive

Held(r) == \E c \in Calls : call[c].at \in {"wait", "register"} /\ call[c].run = r

(* A living dev server is the channel's, or a call is starting or ending it, and     *)
(* once the dashboard is gone none lives on (preview.go:336), unless two starts, or a   *)
(* start and the dashboard's end, overlapped; a stop cut off by the end is not done.    *)
NothingIsLeftRunning ==
    \A r \in Runs : run[r].alive /\ ~overlapped =>
        \/ Held(r)
        \/ r = current /\ ~down


=============================================================================
