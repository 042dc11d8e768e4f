----------------------------- MODULE PluginKit -----------------------------
(* How one turn's toolkit is settled (internal/plugins/load.go, resolve):    *)
(* each plugin alone first - its manifest, the agent's switches, what the    *)
(* machine lacks - and then, pass after pass over the list until a pass      *)
(* changes nothing, the plugins whose injected needs nobody active provides. *)
(*                                                                           *)
(* A pass collects what is provided once, at its start, and then demotes. A  *)
(* plugin is its number in the list; a capability several plugins may stand  *)
(* in for is Forge. What stops a plugin by itself is one status here:        *)
(* broken, disabled, elsewhere and pending differ only in what is shown.     *)
EXTENDS Naturals

CONSTANTS Last,     \* plugins 1..Last, in name order
          Forge     \* a capability that is not a plugin's name

Plugins == 1..Last

VARIABLES manifest,  \* what each plugin needs and whether it provides Forge
          status,    \* as the passes leave it
          first,     \* history: the plugins nothing stops by itself
          passes, done

vars == <<manifest, status, first, passes, done>>

Manifest(p) == [needs : SUBSET ((Plugins \union {Forge}) \ {p}), forge : BOOLEAN]

Active(st) == {p \in Plugins : st[p] = "active"}

Init ==
  /\ manifest \in {m \in [Plugins -> UNION {Manifest(p) : p \in Plugins}] : \A p \in Plugins : p \notin m[p].needs}
  /\ status \in [Plugins -> {"stopped", "active"}]
  /\ first = Active(status)
  /\ passes = 0 /\ done = FALSE

(* A plugin always provides its own name.                                    *)
Gives(p) == {p} \union {c \in {Forge} : manifest[p].forge}

Provided(S) == UNION {Gives(p) : p \in S}

(* Mutant: one pass is enough.                                               *)
ChangedNever(st, next) == FALSE

(* Whether the pass changed anything, and so is followed by another.         *)
Changed(st, next) == next # st

Waits(st, p) == st[p] = "active" /\ ~(manifest[p].needs \subseteq Provided(Active(st)))

Pass ==
  /\ ~done
  /\ status' = [p \in Plugins |-> IF Waits(status, p) THEN "pending" ELSE status[p]]
  /\ done' = ~Changed(status, status')
  /\ passes' = passes + 1
  /\ UNCHANGED <<manifest, first>>

Next == Pass
Spec == Init /\ [][Next]_vars

----------------------------------------------------------------------------
(* Properties                                                                *)

(* The statuses are the loader's, and the passes end: each but the last      *)
(* demotes somebody.                                                         *)
TypeOK ==
  /\ \A p \in Plugins : manifest[p] \in Manifest(p)
  /\ status \in [Plugins -> {"stopped", "pending", "active"}]
  /\ first \subseteq Plugins
  /\ passes \in 0..(Last + 1) /\ done \in BOOLEAN

(* What runs is all that can: the largest set of plugins in which everybody  *)
(* finds what it needs among the others. Two plugins that need each other    *)
(* run; a chain hanging on a stopped one does not.                           *)
Holds(S) == \A p \in S : manifest[p].needs \subseteq Provided(S)
KitIsGreatest == done => Active(status) = UNION {S \in SUBSET first : Holds(S)}
=============================================================================
