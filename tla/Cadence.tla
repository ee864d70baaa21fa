------------------------------ MODULE Cadence ------------------------------
(***************************************************************************)
(* What a harvest learns from the sizes of the packets it takes: the order  *)
(* in which packets of 5 and 6 data blocks follow each other (the cadence   *)
(* of the device), and a queue of sizes from which the transmit ring would  *)
(* be refreshed.  The refresh is built as a dry run: it goes through the    *)
(* motions and leaves out the write of the descriptors, so what remains of  *)
(* it is the queue and the phase it learns.                                 *)
(***************************************************************************)
EXTENDS Naturals, Sequences
LOCAL INSTANCE Functions

CONSTANTS
    Period,         \* kDigiLiveRxCadencePeriodPackets, and all other counts of 80 packets
    Ideal,          \* Digi00xDuplexDataBlocksForPacket over one period
    QueuePackets,   \* kDigiLiveSequenceReplayMovingQueuePackets
    TransmitPackets,    \* kDigi00xDuplexITPacketCount
    Counts,         \* range of a data block counter, 256
    None

Sizes == {5, 6}
Phases == 0..Period - 1

ASSUME CadenceAssumption ==
    /\ {Period, QueuePackets, TransmitPackets, Counts} \subseteq Nat \ {0}
    /\ Ideal \in [Phases -> Sizes]
    /\ TransmitPackets % (Period * Counts) = 0

VARIABLES
    transmit,       \* the transmit ring: size and data block counter of every packet
    period,         \* gDigiLiveRxCadencePeriod
    phase,          \* gDigiLiveRxCadenceBestPhase; None until gDigiLiveRxCadenceReady
    replay,         \* gDigiLiveSequenceReplayMovingQueue
    cached          \* gDigiLiveSequenceReplayMovingCachedCadencePhase

cadence == <<transmit, period, phase, replay, cached>>

\* Digi00xDuplexDataBlocksForPacket, as it is for the two rates of the device
DataBlocksForPacket(rate, packet) ==
    LET at == packet % 80
    IN  IF rate = 48000 \/ (at % 2 = 1) # (at = 0 \/ at >= 40) THEN 6 ELSE 5

\* DigiLiveSequenceReplayPeriodDataBlocks
PeriodDataBlocks == SumFunction(Ideal)

\* dataBlockCounter in ConfigureDigiLiveTransmitDescriptors, after p packets
BlocksSent[p \in Nat] ==
    IF p = 0 THEN 0 ELSE (BlocksSent[p - 1] + Ideal[(p - 1) % Period]) % Counts

\* Mutant: the counter of a packet counts the packet itself
CountsAhead(p) == BlocksSent[p + 1]

\* The header of a packet counts the blocks sent before it
DataBlockCounter(p) == BlocksSent[p]

ConfigureTransmit ==
    [p \in 0..TransmitPackets - 1 |->
        [size |-> Ideal[p % Period], dbc |-> DataBlockCounter(p)]]

CadenceInit ==
    /\ transmit = ConfigureTransmit
    /\ period = << >> /\ phase = None /\ replay = << >> /\ cached = None

\* How many sizes are not those of the ideal cadence from phase p on
Mismatches(sizes, p) ==
    Len(SelectSeq([i \in DOMAIN sizes |-> sizes[i] = Ideal[(i - 1 + p) % Period]],
                  LAMBDA same : ~same))

\* The first of the phases with the fewest mismatches
BestPhase(sizes) ==
    CHOOSE p \in Phases :
        \A q \in Phases :
            LET here == Mismatches(sizes, p)
                there == Mismatches(sizes, q)
            IN  here < there \/ (here = there /\ p <= q)

\* Mutant: sizes are captured across a gap
CaptureAnything(size, continuous) ==
    size \in Sizes

Captures(size, continuous) == size \in Sizes /\ continuous

\* ResetDigiLiveRxCadenceCapture
ResetCapture == period' = << >> /\ UNCHANGED phase

\* RecordDigiLiveRxCadencePacket: a period is captured once, from a packet after which
\* none is missing
RecordCadence(size, continuous) ==
    LET captured == Append(period, size)
    IN  IF phase # None THEN UNCHANGED <<period, phase>>
        ELSE IF ~Captures(size, continuous) THEN ResetCapture
        ELSE IF Len(captured) < Period THEN period' = captured /\ UNCHANGED phase
        ELSE IF SumFunction(captured) = PeriodDataBlocks
             THEN period' = captured /\ phase' = BestPhase(captured)
             ELSE ResetCapture

\* AppendDigiLiveMovingReplayPacket: the oldest size makes room, a packet of another size
\* empties the queue, a gap does not
AppendReplay(size) ==
    replay' = IF size \notin Sizes THEN << >>
              ELSE IF Len(replay) < QueuePackets THEN Append(replay, size)
              ELSE Append(Tail(replay), size)

RecordPacket(size, continuous) ==
    /\ RecordCadence(size, continuous)
    /\ AppendReplay(size)
    /\ UNCHANGED <<transmit, cached>>

\* The phase a refresh learns from the first period of the queue, or else the one learned
\* last; the captured phase comes before both
LearnedPhase ==
    LET front == SubSeq(replay, 1, Period)
    IN  IF phase = None /\ SumFunction(front) = PeriodDataBlocks THEN BestPhase(front)
        ELSE cached

\* RefreshDigiLiveMovingSequenceReplay: with a phase, and if the transmit context's command
\* pointer can be used, a period is taken off the queue
Refresh(pointer) ==
    IF Len(replay) < Period THEN UNCHANGED cadence
    ELSE /\ cached' = LearnedPhase
         /\ replay' = IF pointer /\ (phase # None \/ LearnedPhase # None)
                      THEN SubSeq(replay, Period + 1, Len(replay)) ELSE replay
         /\ UNCHANGED <<transmit, period, phase>>
=============================================================================
