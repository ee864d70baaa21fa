-------------------------- MODULE MCDigiLiveStream --------------------------
(* DigiLiveStream on a few worker blocks. *)
EXTENDS DigiLiveStream, TLC

CONSTANTS w1, w2

\* How many handlers a run may ask of the audio driver and of the power manager
AudioSix == [audio |-> 6, power |-> 0]
AudioSixPowerTwo == [audio |-> 6, power |-> 2]
AudioOnePowerTwo == [audio |-> 1, power |-> 2]
OneEach == [audio |-> 1, power |-> 1]

\* Worker blocks differ only in their names (used by runs without liveness)
WorkerSymmetry == Permutations(Workers)

\* A harvest never walks the receive descriptors of a buffer that was released:
\* StopDigiLiveStreamForAudio clears gDigiLiveRunning and waits for gDigiLiveDrainBusy
\* before it releases the memory.
HarvestOnLiveBuffer == \A t \in Threads : pc[t] = "process" => hold[t] = "live"
=============================================================================
