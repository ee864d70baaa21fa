-------------------------- MODULE MCOutputTransmit --------------------------
(* Instances of OutputTransmit: packets of two sizes, as at 44.1 kHz.         *)
EXTENDS OutputTransmit

Mixed == [s \in 0..(N - 1) |-> 1 + (s % 2)]
=============================================================================
