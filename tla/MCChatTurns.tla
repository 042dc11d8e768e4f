---------------------------- MODULE MCChatTurns ----------------------------
(* ChatTurns on small instances: one chat, whose lane is its only one. *)
EXTENDS ChatTurns

CONSTANTS chat, reset, new, cancel, switch, web, halt

Kinds == [c \in Commands |-> CASE c = reset -> "reset" [] c = new -> "new"
                               [] c = cancel -> "cancel" [] c = switch -> "switch" [] c = halt -> "stop" [] OTHER -> "web"]

Asked == {{reset}, {cancel}, {web}, {halt}, {new, switch}, {new, reset}}

(* A dashboard turn beside /new, and nothing written. *)
WebAndNew == {{web, new}}

OneChat == [j \in ChatJobs |-> chat]

=============================================================================
