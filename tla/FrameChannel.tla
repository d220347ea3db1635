---------------------------- MODULE FrameChannel ----------------------------
(***************************************************************************)
(* What the frame layer of the MQTT client promises to the client above    *)
(* it: on one connection the frames of the broker are delivered whole,     *)
(* once and in the order in which they were sent. The promise ends when    *)
(* the byte parser is reset within a frame (sound becomes FALSE) and is    *)
(* taken up again by the next connection.                                  *)
(***************************************************************************)
EXTENDS Naturals, Sequences

VARIABLES
    queue,   \* frames the broker has sent, not yet delivered
    last,    \* the frame delivered last
    sound    \* FALSE: the parser has lost the borders of the frames

channelVars == <<queue, last, sound>>

Init ==
    /\ queue = << >>
    /\ sound = TRUE

(* The broker sends one frame.                                             *)
Send ==
    /\ sound
    /\ Len(queue') = Len(queue) + 1
    /\ SubSeq(queue', 1, Len(queue)) = queue
    /\ UNCHANGED <<last, sound>>

Deliver ==
    /\ sound
    /\ queue # << >>
    /\ last' = Head(queue)
    /\ queue' = Tail(queue)
    /\ UNCHANGED sound

LoseBorders ==
    /\ sound' = FALSE
    /\ queue' = << >>
    /\ UNCHANGED last

(* After the borders are lost any frame may be delivered.                  *)
Garble ==
    /\ ~sound
    /\ UNCHANGED <<queue, sound>>

(* A connection ends or begins: what was under way is gone.                *)
Restart ==
    /\ queue' = << >>
    /\ sound' = TRUE
    /\ UNCHANGED last

Next == Send \/ Deliver \/ LoseBorders \/ Garble \/ Restart

Spec == Init /\ [][Next]_channelVars
=============================================================================
