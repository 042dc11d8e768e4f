---------------------------- MODULE PluginHooks ----------------------------
(* `bomclaw hook`: one tool call of a command-line agent, and the plugin     *)
(* hooks the dispatcher runs around it, one after another                    *)
(* (internal/plugins/hooks.go).                                              *)
(*                                                                           *)
(* The backend gives the dispatcher a time limit of its own: the sum of the  *)
(* event's hook timeouts and Slack seconds. A hook that hangs costs its      *)
(* timeout, and up to Drain seconds more while something it left running     *)
(* holds its output open. A dispatcher that is cut off has said nothing, and *)
(* the call goes through.                                                    *)
EXTENDS Naturals, Sequences, FiniteSets

CONSTANTS Behaviours,  \* what a hook does: [act, closed, match], see Behaviour
          MaxHooks,    \* bound: hooks of the event
          Timeout,     \* one hook's timeout, in seconds
          Slack,       \* what eventTimeout adds (5)
          Drain        \* cmd.WaitDelay (1)

Behaviour == [act : {"allow", "deny", "fail", "hang"}, closed : BOOLEAN, match : BOOLEAN]

VARIABLES event, hooks,
          at,       \* the hook that runs next
          spent,    \* seconds since the backend started the dispatcher
          answer    \* what the backend has heard

vars == <<event, hooks, at, spent, answer>>

Limit == Len(hooks) * Timeout + Slack

Init ==
  /\ event \in {"pre_tool", "post_tool"}
  /\ hooks \in UNION {[1..n -> Behaviours] : n \in 0..MaxHooks}
  /\ at = 1 /\ spent = 0 /\ answer = "none"

(* A failed hook refuses only where it asked to, and only before the call.   *)
Refuses(h) == /\ event = "pre_tool"
              /\ h.act = "deny" \/ (h.act \in {"fail", "hang"} /\ h.closed)

Running == answer = "none" /\ at <= Len(hooks)

(* Seconds a hook may take: a hung one is killed at its timeout, and its     *)
(* output is waited for a little longer.                                     *)
Seconds(h) == IF h.act = "hang" THEN {Timeout, Timeout + Drain} ELSE {0}

Skip ==
  /\ Running /\ ~hooks[at].match
  /\ at' = at + 1
  /\ UNCHANGED <<event, hooks, spent, answer>>

(* runOne, and the decision: a refusal ends the run, an error is logged and  *)
(* let through.                                                              *)
RunOne ==
  /\ Running /\ hooks[at].match
  /\ \E s \in Seconds(hooks[at]) :
       /\ spent + s <= Limit
       /\ spent' = spent + s
  /\ answer' = IF Refuses(hooks[at]) THEN "deny" ELSE "none"
  /\ at' = at + 1
  /\ UNCHANGED <<event, hooks>>

(* The backend's limit passes while a hook runs.                             *)
CutOff ==
  /\ Running /\ hooks[at].match
  /\ \E s \in Seconds(hooks[at]) : spent + s > Limit
  /\ answer' = "cut"
  /\ UNCHANGED <<event, hooks, at, spent>>

Allow ==
  /\ answer = "none" /\ at > Len(hooks)
  /\ answer' = "allow"
  /\ UNCHANGED <<event, hooks, at, spent>>

Next == Skip \/ RunOne \/ CutOff \/ Allow
Spec == Init /\ [][Next]_vars

----------------------------------------------------------------------------
(* Properties                                                                *)

(* The run stays inside its list and the backend's limit.                    *)
TypeOK ==
  /\ Behaviours \subseteq Behaviour
  /\ at \in 1..(Len(hooks) + 1)
  /\ spent \in 0..Limit
  /\ answer \in {"none", "allow", "deny", "cut"}

(* What the backend hears is what the hooks say together, whatever their     *)
(* order: refused when some matching hook refuses, let through when none     *)
(* does - a broken hook before or after it changes neither.                  *)
AnswerIsOfAll ==
  answer \in {"allow", "deny"} =>
    (answer = "deny" <=> \E i \in 1..Len(hooks) : hooks[i].match /\ Refuses(hooks[i]))

=============================================================================
