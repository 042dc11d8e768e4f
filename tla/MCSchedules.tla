---------------------------- MODULE MCSchedules ----------------------------
(* Schedules on small instances: which clocks there are. *)
EXTENDS Schedules

CONSTANTS g1, any

Clock(kind, payload, owner, skip) ==
    [kind |-> kind, payload |-> payload, owner |-> owner, skip |-> skip]

(* A reminder, a nightly command, an agent's heartbeat; each tells something  *)
(* of the ladder, the one-shot or the owner apart.                          *)
AllClocks ==
    {Clock("at", "agent", any, FALSE), Clock("at", "command", any, TRUE),
     Clock("every", "agent", any, FALSE), Clock("every", "heartbeat", g1, TRUE)}

OneShots == {c \in AllClocks : c.kind = "at"}

=============================================================================
