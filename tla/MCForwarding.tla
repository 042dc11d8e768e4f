---------------------------- MODULE MCForwarding ----------------------------
(* Forwarding with a chat and a dead group.  The group is bound once, after the     *)
(* chat, wide open and by a1; the chat is bound by a1 first, for the agents are alike,    *)
(* and then paused, turned back on, given to another agent or removed.          *)
EXTENDS Forwarding, SequencesExt

CONSTANTS group, chat, a1, a2

MCDests == <<group, chat>>

Kept(d) == gw'[d].id = gw[d].id /\ Bound(d)

(* The owner speaks in a thread, or first; one line is a progress line; the dead   *)
(* group is upset enough. *)
EditsChange ==
    /\ room' # room /\ Len(room') = MaxLines => Last(room').by = "agent" \/ Last(room').root # 0
    /\ edits' # edits => gw' # gw
    /\ Bound(group)' => upsets' = 0
    /\ Cardinality({l \in DOMAIN room' : room'[l].is # "said"}) <= 1
    /\ gw'[group] # gw[group] => /\ ~Bound(group) /\ Bound(chat) /\ made = 1
                               /\ gw'[group].mode = "all" /\ gw'[group].carrier = a1
                               /\ gw'[group].since = Len(room)
    /\ gw'[chat] # gw[chat] =>
          \/ Kept(chat) /\ (gw[chat].mode # gw'[chat].mode => "off" \in {gw[chat].mode, gw'[chat].mode})
          \/ /\ ~Bound(chat) /\ gw'[chat].mode # "off" /\ gw'[chat].since = Len(room)
             /\ made = 0 => gw'[chat].carrier = a1
          \/ gw'[chat] = NoGateway

=============================================================================
