---------------------------- MODULE ReceivePath ----------------------------
(***************************************************************************)
(* HarvestDigiLiveIsoStream against the isochronous receive context.  The   *)
(* context fills the descriptors of a ring one after the other, for ever,   *)
(* whether they were emptied or not.  A harvest goes over the descriptors   *)
(* from gDigiLiveIRReadIndex on: it takes the filled ones and empties them, *)
(* stops at an empty one, and jumps over it when the command pointer says   *)
(* that the context is far ahead.                                           *)
(*                                                                          *)
(* One harvest at a time holds gDigiLiveDrainBusy (DigiLiveStream).  The    *)
(* buffer is mapped uncached, so both sides see one memory and a sync is a  *)
(* barrier.  A packet is known by its age: 1 is the one that came last.  Of *)
(* the two 64-bit cursors only the difference matters, and, when the        *)
(* command pointer was invalid, how often the software cursor went round.   *)
(* Cycle numbers count modulo 64000, far more than the ring holds: they say *)
(* whether a packet is the one that followed the packet taken last.         *)
(***************************************************************************)
EXTENDS Cadence, Integers, FiniteSets

CONSTANTS
    N,              \* kDigi00xDuplexIRDescriptorCount
    IrqInterval,    \* kDigiLiveReceiveIRQInterval
    MaxPerPass,     \* kDigiLiveHarvestMaxDescriptorsPerPass
    MissBypass,     \* kDigiLiveIREventGateMissBypassCount
    CatchUpMin,     \* kDigiLiveIRCommandPtrCatchUpMinPackets
    ScanMax,        \* kDigiLiveIRCommandPtrCatchUpScanMaxPackets
    Scenes          \* bounds: what the device and the worker do (SceneAssumption)

Slots == 0..N - 1
Packets == [size: Nat, gap: BOOLEAN]

ASSUME ReceiveAssumption ==
    /\ {N, IrqInterval, MaxPerPass, MissBypass, CatchUpMin, ScanMax} \subseteq Nat \ {0}
    /\ N % IrqInterval = 0

ASSUME EmptyAssumption == None \notin Packets

\* the sizes of the packets (0 without data), how many packets are lost on the bus, how many
\* come between two harvests and how many more while the worker stalls, how often the command
\* pointer cannot be read, and the rounds of the software cursor that are counted
ASSUME SceneAssumption ==
    Scenes \subseteq [sizes: SUBSET (Sizes \cup {0}), gaps: Nat, pace: Nat, stall: Nat,
                     failures: Nat, laps: Nat]

VARIABLES
    scene,          \* which of Scenes this is
    slots,          \* what the descriptors hold: a packet's data blocks, 0 of a packet
                    \* without data, and if the packet before it was lost; None if empty
    hardware,       \* the descriptor the context fills next, which its command pointer shows
    event,          \* the context's bit of the receive event register
    pc,             \* the harvest: "idle", "pointer", "look", "status" or "end"
    readIndex,      \* gDigiLiveIRReadIndex
    laps,           \* rounds of gDigiLiveIRSoftwarePacketCursor that are counted
    pointer,        \* gDigiLiveIRHardwarePacketCursor modulo N; N when it is not valid
    backlog,        \* hardware cursor - software cursor
    misses,         \* gDigiLiveIREventConsecutiveMissCount, up to MissBypass
    lastPackets,    \* gDigiLiveLastHarvestPackets
    pass, packets, seen,    \* locals of the harvest: seen is the size read of a packet
    expected,       \* gDigiLiveRxExpectedDBC: "unset", "next", or "other" after a misread size
    due,            \* gDigiLiveRxExpectedCycle, as the age of the packet after the last taken
    streak,         \* history: packets taken since a gap, up to Period
    overrun,        \* history: a packet was overwritten before it was taken
    since, stalled, failed, lost    \* bounds: packets since the last poll, budgets used

cursors == <<readIndex, laps, pointer, backlog>>
locals == <<pass, packets, seen>>
gate == <<event, misses, lastPackets>>
diagnostics == <<expected, due, streak>>
bounds == <<scene, overrun, since, stalled, failed, lost>>
vars == <<slots, hardware, pc, cursors, locals, gate, diagnostics, bounds, cadence>>

Least(a, b) == IF a <= b THEN a ELSE b
Forward(from, to) == (to + N - from) % N
Unknown == N

\* ConfigureDigiLiveReceiveDescriptors: every descriptor is empty, and the last one of an
\* interval interrupts
EmptyRing == [s \in Slots |-> None]
Interrupts(s) == (s + 1) % IrqInterval = 0

\* ResetDigiLiveReceiveStreamDiagnostics
ResetDiagnostics == expected = "unset" /\ due = 0 /\ streak = 0

\* ResetDigiLiveIRCommandPtrCursor
ResetCursors == readIndex = 0 /\ laps = 0 /\ pointer = Unknown /\ backlog = 0

Init ==
    /\ scene \in Scenes
    /\ slots = EmptyRing /\ hardware = 0 /\ event = FALSE
    /\ pc = "idle" /\ ResetCursors
    /\ misses = 0 /\ lastPackets = 0
    /\ pass = 0 /\ packets = 0 /\ seen = 0
    /\ ResetDiagnostics
    /\ overrun = FALSE /\ since = 0 /\ stalled = 0 /\ failed = 0 /\ lost = 0
    /\ CadenceInit

\* DigiLiveReceivePacketAtIndexIsEmpty
IsEmpty(s) == slots[s] = None

-----------------------------------------------------------------------------
(* The context.                                                             *)

\* The next packet arrives; the last descriptor of an interval raises the event
Receive ==
    /\ \E size \in scene.sizes, gap \in BOOLEAN :
        /\ gap => lost < scene.gaps
        /\ lost' = IF gap THEN lost + 1 ELSE lost
        /\ slots' = [slots EXCEPT ![hardware] = [size |-> size, gap |-> gap]]
    /\ hardware' = (hardware + 1) % N
    /\ event' = (event \/ Interrupts(hardware))
    /\ due' = Least(due + 1, 2 * N)
    /\ overrun' = (overrun \/ ~IsEmpty(hardware))
    /\ since' = since + 1
    /\ IF since < scene.pace THEN UNCHANGED stalled
                       ELSE stalled < scene.stall /\ stalled' = stalled + 1
    /\ UNCHANGED <<pc, cursors, locals, misses, lastPackets, expected, streak, failed, scene,
                   cadence>>

-----------------------------------------------------------------------------
(* The harvest.                                                             *)

\* A harvest without an event is put off, MissBypass - 1 times in a row, unless the
\* last one stopped at its limit
\* Mutant: the misses start again with every poll
NeverBypassed == lastPackets < MaxPerPass

PutOff == lastPackets < MaxPerPass /\ misses + 1 < MissBypass

Poll ==
    /\ pc = "idle"
    /\ since' = 0
    /\ IF event
       THEN event' = FALSE /\ misses' = 0 /\ pc' = "pointer"
       ELSE /\ UNCHANGED event
            /\ misses' = Least(misses + 1, MissBypass)
            /\ pc' = IF PutOff THEN "idle" ELSE "pointer"
    /\ UNCHANGED <<slots, hardware, cursors, locals, lastPackets, diagnostics, scene, overrun,
                   stalled, failed, lost, cadence>>

\* Mutant: a pointer that is valid again counts from the start of the ring
BacklogFromStart(valid) ==
    IF ~valid THEN pointer' = Unknown /\ backlog' = 0
    ELSE /\ pointer' = hardware
         /\ backlog' = IF pointer = Unknown THEN hardware
                                            ELSE backlog + Forward(pointer, hardware)

\* UpdateDigiLiveIRCommandPtrCursor.  The pointer is extended modulo the ring, and it
\* starts at the index again after it was invalid.
UpdateIRCursor(valid) ==
    IF ~valid THEN pointer' = Unknown /\ backlog' = 0
    ELSE /\ pointer' = hardware
         /\ backlog' = IF pointer = Unknown THEN hardware - (readIndex + N * laps)
                                            ELSE backlog + Forward(pointer, hardware)

ReadCommandPtr ==
    /\ pc = "pointer"
    /\ \/ UpdateIRCursor(TRUE) /\ UNCHANGED failed
       \/ failed < scene.failures /\ UpdateIRCursor(FALSE) /\ failed' = failed + 1
    /\ pc' = "look"
    /\ UNCHANGED <<slots, hardware, readIndex, laps, locals, gate, diagnostics, scene, overrun, since,
                   stalled, lost, cadence>>

\* The cursor goes on by distance packets
MoveOn(distance) ==
    /\ readIndex' = (readIndex + distance) % N
    /\ laps' = Least(laps + (readIndex + distance) \div N, scene.laps)
    /\ backlog' = IF pointer = Unknown THEN backlog ELSE backlog - distance

MayCatchUp == pointer # Unknown /\ backlog >= CatchUpMin

\* CatchUpDigiLiveIRReadIndexAfterEmptyDescriptor: to the first filled descriptor within
\* the limits, or else to the command pointer
CatchUpDistance ==
    LET filled == {d \in 1..Least(backlog, ScanMax) - 1 : ~IsEmpty((readIndex + d) % N)}
    IN  IF filled = {} THEN backlog ELSE CHOOSE d \in filled : \A e \in filled : d <= e

\* The byte count of a descriptor is read before the status that tells if it is filled
ReadByteCount ==
    /\ pc = "look" /\ pass < MaxPerPass
    /\ seen' = IF IsEmpty(readIndex) THEN 0 ELSE slots[readIndex].size
    /\ pc' = "status"
    /\ UNCHANGED <<slots, hardware, cursors, pass, packets, gate, diagnostics, bounds, cadence>>

CatchUp ==
    /\ pc = "status" /\ IsEmpty(readIndex) /\ MayCatchUp
    /\ MoveOn(CatchUpDistance)
    /\ pass' = pass + 1 /\ pc' = "look"
    /\ UNCHANGED <<slots, hardware, pointer, packets, seen, gate, diagnostics, bounds, cadence>>

\* An empty descriptor ends the harvest, and so does its limit
StopLooking ==
    /\ \/ pc = "look" /\ pass = MaxPerPass
       \/ pc = "status" /\ IsEmpty(readIndex) /\ ~MayCatchUp
    /\ pc' = "end"
    /\ UNCHANGED <<slots, hardware, cursors, locals, gate, diagnostics, bounds, cadence>>

\* Mutant: the status words are not cleared
DescriptorKeepsStatus == slots

ResetDigiLiveDescriptor == [slots EXCEPT ![readIndex] = None]

Age(s) == Forward(s, (hardware + N - 1) % N) + 1

\* The packet follows the one that was taken before it
Follows(packet) == Age(readIndex) = due /\ ~packet.gap

\* UpdateDigiLiveReceiveTimingDiagnostics: a gap shows in the cycle number, a misread
\* size in the data block counter of the next packet
ContinuousForReplay(packet) == expected = "unset" \/ (expected = "next" /\ Follows(packet))

TakePacket ==
    /\ pc = "status" /\ ~IsEmpty(readIndex)
    /\ LET packet == slots[readIndex]
       IN  /\ RecordPacket(seen, ContinuousForReplay(packet))
           /\ expected' = IF seen = packet.size THEN "next" ELSE "other"
           /\ due' = Age(readIndex) - 1
           /\ streak' = IF seen \notin Sizes THEN 0
                        ELSE IF Follows(packet) THEN Least(streak + 1, Period) ELSE 1
    /\ packets' = IF seen # 0 THEN packets + 1 ELSE packets
    /\ slots' = ResetDigiLiveDescriptor
    /\ MoveOn(1)
    /\ pass' = pass + 1 /\ seen' = 0 /\ pc' = "look"
    /\ UNCHANGED <<hardware, pointer, gate, bounds>>

EndHarvest ==
    /\ pc = "end"
    /\ pc' = "idle" /\ lastPackets' = packets
    /\ pass' = 0 /\ packets' = 0
    /\ IF packets # 0 THEN \E valid \in BOOLEAN : Refresh(valid) ELSE UNCHANGED cadence
    /\ UNCHANGED <<slots, hardware, cursors, seen, event, misses, diagnostics, bounds>>

HarvestDigiLiveIsoStream ==
    \/ Poll \/ ReadCommandPtr \/ ReadByteCount \/ CatchUp \/ StopLooking
    \/ TakePacket \/ EndHarvest

Next == Receive \/ HarvestDigiLiveIsoStream

\* The worker calls the harvest in a loop
Spec == Init /\ [][Next]_vars /\ WF_vars(HarvestDigiLiveIsoStream)

-----------------------------------------------------------------------------
TakesPacket == pc = "status" /\ ~IsEmpty(readIndex) /\ pc' = "look"

\* As long as nothing was overwritten, every packet that a harvest takes is the one that
\* came after the packet taken last: none is left out and none is taken twice, wherever a
\* harvest starts and stops, whatever it reads from the command pointer.
InSequence == [][~overrun /\ TakesPacket => Age(readIndex) = due]_vars

\* A worker that polls at its pace keeps up: neither the event gate, which puts harvests
\* off, nor the limit of a harvest, nor a jump lets the context lap the reader.
NothingOverwritten == scene.stall = 0 => ~overrun

\* The cadence of the device is captured from packets that followed each other: a lost
\* packet, one without data or one whose size was misread starts the capture again.
CadenceGenuine == [][phase = None /\ phase' # None => streak' = Period]_vars

\* A packet in the ring is taken, or overwritten, even when no event announces it: the gate
\* lets a harvest through in the end.
Taken == \A s \in Slots : ~IsEmpty(s) ~> IsEmpty(s) \/ overrun

\* The transmit ring runs in a circle for ever: the data block counter of every packet
\* continues that of the packet before it, also where the ring starts again.
TransmitDBC ==
    \A p \in DOMAIN transmit :
        transmit[(p + 1) % TransmitPackets].dbc = (transmit[p].dbc + transmit[p].size) % Counts

=============================================================================
