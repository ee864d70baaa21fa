----------------------------- MODULE MessageFifo -----------------------------
(***************************************************************************)
(* What the echo queue promises: messages enter whole or not at all, one    *)
(* after the other, and leave word by word in that order, each word once.   *)
(* There is no flag, no ring of slots and no bound.                         *)
(***************************************************************************)
EXTENDS Naturals, Sequences

CONSTANTS
    Messages,       \* the messages, as sequences of words
    NoData          \* sent when there is nothing to send

VARIABLES
    waiting,        \* words yet to be sent
    wire            \* the word sent last

Init == waiting = <<>> /\ wire = NoData

\* One of the messages is added at the end.
Put ==
    LET after == waiting'
        before == Len(waiting)
    IN  /\ Len(after) > before
        /\ SubSeq(after, 1, before) = waiting
        /\ SubSeq(after, before + 1, Len(after)) \in Messages
        /\ UNCHANGED wire

Send ==
    /\ waiting # <<>>
    /\ wire' = Head(waiting)
    /\ waiting' = Tail(waiting)

SendNothing ==
    /\ wire' = NoData
    /\ UNCHANGED waiting

Next ==
    \/ Put
    \/ Send
    \/ SendNothing

Spec == Init /\ [][Next]_<<waiting, wire>>
=============================================================================
