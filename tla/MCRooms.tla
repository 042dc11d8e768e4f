------------------------------ MODULE MCRooms ------------------------------
(* A room on a small instance: two agents, a person and a few messages.        *)
EXTENDS Rooms

CONSTANTS tien, hue

MCIds == 1..8

(* The agents are alike: when the first post calls one of them, it is tien.    *)
TienFirst ==
    msgs # <<>> => msgs[1].names \cup msgs[1].unread \cup msgs[1].read # {hue}

=============================================================================
