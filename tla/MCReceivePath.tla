--------------------------- MODULE MCReceivePath ---------------------------
(* Instance of ReceivePath for TLC.                                         *)
EXTENDS ReceivePath

Scene(s, g, t, f, l) ==
    [sizes |-> s, gaps |-> g, pace |-> 1, stall |-> t, failures |-> f, laps |-> l]

MCScenes == {
    Scene({5, 6}, 1, 0, 0, 0),
    Scene({0, 6}, 0, 0, 1, 1),
    Scene({6}, 0, 2, 0, 0)}

MCIdeal == [p \in 0..1 |-> 5 + p]

\* 441 or 480 data blocks in 80 packets, at either rate
ASSUME RateAssumption ==
    \A rate \in {44100, 48000} :
        Cardinality({p \in 0..79 : DataBlocksForPacket(rate, p) = 6}) + 400 = rate \div 100
=============================================================================
