------------------------------- MODULE Playout -------------------------------
(***************************************************************************)
(* What the output path promises: the frames CoreAudio wrote reach the wire *)
(* in the order they were written, each of them once, in packets between    *)
(* which there may be silence.  Frames are numbered modulo Frames.          *)
(***************************************************************************)
EXTENDS Naturals

CONSTANTS Frames, MaxPacket

VARIABLES
    written,  \* number of the next frame CoreAudio will write
    due,      \* number of the next frame the wire has to carry
    wire      \* the packet that was sent last: its frames, << >> if silent

Pending == (written + Frames - due) % Frames

Init == written = 0 /\ due = 0 /\ wire = << >>

Write ==
    /\ \E k \in 1..(Frames - 1 - Pending) : written' = (written + k) % Frames
    /\ UNCHANGED <<due, wire>>

Play ==
    \E k \in 1..MaxPacket :
        /\ k <= Pending
        /\ wire' = [i \in 1..k |-> (due + i - 1) % Frames]
        /\ due' = (due + k) % Frames
        /\ UNCHANGED written

Silence == wire' = << >> /\ UNCHANGED <<written, due>>

Next == Write \/ Play \/ Silence

Spec == Init /\ [][Next]_<<written, due, wire>>
=============================================================================
