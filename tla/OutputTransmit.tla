--------------------------- MODULE OutputTransmit ---------------------------
(***************************************************************************)
(* How PushAudioOutputToDigiLiveTransmit fills the ring of isochronous      *)
(* transmit packets while the OHCI context plays it in an endless loop.     *)
(*                                                                          *)
(* Three actors: the context, which sends slot after slot whether anybody   *)
(* refreshed it or not; CoreAudio's WriteEnd, which appends frames to the   *)
(* output ring; and the one push that gDigiLiveOutputPushInProgress admits  *)
(* (DigiLiveStream models who may push).  A frame is its number modulo      *)
(* Frames.  The two 64-bit cursors of the code are only compared and reduced*)
(* modulo the ring, so the model keeps the hardware cursor as a slot        *)
(* (current) with its laps and the output cursor as its distance from it    *)
(* (ahead).                                                                 *)
(***************************************************************************)
EXTENDS Integers, Sequences

CONSTANTS
    N,              \* kDigi00xDuplexITPacketCount
    Lead,           \* kDigiLiveOutputLeadPackets
    ServiceAhead,   \* kDigiLiveOutputServiceAheadPackets
    SilenceAhead,   \* kDigiLiveOutputSilenceAheadPackets
    MaxPackets,     \* kDigiLiveOutputMaxPacketsPerPush
    Prebuffer,      \* kAudioOutputRingPrebufferFrames
    RingFrames,     \* bound: frames the output ring holds
    Blocks,         \* gDigiLiveTxDataBlocks: frames of the packet in a slot
    Chunks,         \* frame counts of a WriteEnd
    Frames,         \* bound: frames are numbered modulo this
    Service,        \* packets sent between two pushes, if WorkerTimely
    PushTime,       \* packets sent during a push
    Period,         \* packets sent between two WriteEnds that come in time
    Jitter,         \* packets a WriteEnd may come too early or, if WriterTimely, too late
    WorkerTimely, WriterTimely,
    SyncMayFail,    \* the payload sync may report an error
    PointerMayFail, \* the command pointer may be read outside the ring
    MaxLaps         \* bound: laps of the hardware cursor that are told apart

Slots == 0..(N - 1)

ASSUME TransmitRingAssumption ==
    /\ {N, Lead, ServiceAhead, SilenceAhead, MaxPackets} \subseteq Nat \ {0}
    /\ 2 * Lead < N
    /\ Blocks \in [Slots -> Nat \ {0}]
ASSUME OutputRingAssumption ==
    /\ {Prebuffer, RingFrames, Frames} \subseteq Nat \ {0}
    /\ Chunks \subseteq Nat \ {0}
    /\ Prebuffer <= RingFrames
ASSUME TimingAssumption ==
    /\ {Service, PushTime, Period, Jitter} \subseteq Nat
    /\ PushTime <= Lead /\ PushTime <= Service /\ Jitter <= Period
    /\ {WorkerTimely, WriterTimely, SyncMayFail, PointerMayFail} \subseteq BOOLEAN
    /\ MaxLaps \in Nat

VARIABLES
    hw,                     \* the slot the context sends next (its command pointer)
    slots,                  \* payload of every slot: its frames, << >> is silence
    readFrame, writeFrame,  \* the output ring's cursors, modulo Frames
    prebuffered,            \* gAudioOutputRingPrebuffered
    current, laps,          \* gDigiLiveITHardwarePacketCursor: its slot and its laps
    pointerValid,           \* gDigiLiveITHardwareCursorValid
    ahead,                  \* gDigiLiveOutputPacketCursor - hardware cursor
    outValid,               \* gDigiLiveOutputPacketCursorValid
    pc,                     \* "idle" or "write": is a push in progress
    plan,                   \* its locals: audio, budget, left and offset
    clock, quiet,           \* packets sent since the last push began, since a WriteEnd was due
    due,                    \* history: the frame after the last one sent
    sent,                   \* history: slots whose audio was sent since it was written
    withheld                \* history: a push left slots unrefreshed although it had frames

ring == <<readFrame, writeFrame>>
cursor == <<current, laps, pointerValid, ahead, outValid>>
history == <<sent, withheld>>
vars == <<hw, slots, ring, prebuffered, cursor, pc, plan, clock, quiet, due, history>>

Smaller(a, b) == IF a <= b THEN a ELSE b
Idle == [audio |-> FALSE, budget |-> 0, left |-> 0, offset |-> 0]
Padding == Frames   \* the silent frame an underrun puts into a packet

AudioOutputRingFillFrames == (writeFrame + Frames - readFrame) % Frames

Init ==
    /\ hw = 0 /\ slots = [s \in Slots |-> << >>]
    /\ readFrame = 0 /\ writeFrame = 0 /\ prebuffered = FALSE
    /\ current = 0 /\ laps = 0 /\ pointerValid = FALSE
    /\ ahead = 0 /\ outValid = FALSE
    /\ pc = "idle" /\ plan = Idle
    /\ clock = 0 /\ quiet = 0
    /\ due = 0 /\ sent = {} /\ withheld = FALSE

-----------------------------------------------------------------------------
(* The context and CoreAudio.                                               *)

InTime ==
    /\ clock < IF pc = "write" THEN PushTime ELSE Service
    /\ WriterTimely => quiet < Period + Jitter

\* The bus takes the next packet, fresh or not
Transmit ==
    /\ InTime \/ (~WorkerTimely /\ pc = "idle")
    /\ hw' = (hw + 1) % N
    /\ due' = IF slots[hw] = << >> THEN due
              ELSE (slots[hw][Len(slots[hw])] + 1) % Frames
    /\ sent' = IF slots[hw] = << >> THEN sent ELSE sent \cup {hw}
    /\ clock' = Smaller(clock + 1, Service)
    /\ quiet' = Smaller(quiet + 1, Period + Jitter)
    /\ UNCHANGED <<slots, ring, prebuffered, cursor, pc, plan, withheld>>

\* Bound: CoreAudio never overruns the ring here
AppendAudioOutputBufferToRing ==
    /\ quiet >= Period - Jitter
    /\ \E k \in Chunks :
        /\ AudioOutputRingFillFrames + k <= RingFrames
        /\ writeFrame' = (writeFrame + k) % Frames
    /\ quiet' = IF WriterTimely THEN quiet - Period ELSE 0
    /\ UNCHANGED <<hw, slots, readFrame, prebuffered, cursor, pc, plan, clock, due, history>>

-----------------------------------------------------------------------------
(* PushAudioOutputToDigiLiveTransmit.                                       *)

\* Audio starts when enough is queued and goes on until the ring is empty
\* Mutant: playback goes on for ever once the ring was filled
PlaysOn(fill) == prebuffered \/ fill >= Prebuffer

Playing(fill) == fill # 0 /\ (prebuffered \/ fill >= Prebuffer)

\* Where the push starts, counted from the hardware cursor
StartCursor(distance, starts) ==
    IF ~outValid \/ distance < Lead \/ starts THEN Lead ELSE distance

\* Where it has to end
\* Mutant: the whole ring is filled up to the packet before the hardware
FillsRing(playing) == N + Lead

TargetEndCursor(playing) ==
    Smaller(Lead + (IF playing THEN ServiceAhead ELSE SilenceAhead), N - Lead)

\* Packets sent since the hardware cursor was read last: a whole lap is not seen
AdvancedPackets == (hw + N - current) % N

\* The output cursor, counted from the hardware cursor just read.  A hardware cursor that is
\* valid again starts in its first lap, the output cursor keeps those it has made
OutputDistance ==
    IF pointerValid THEN ahead - AdvancedPackets ELSE laps * N + current + ahead - hw

LapsRead ==
    IF ~pointerValid THEN 0
    ELSE IF hw < current THEN Smaller(laps + 1, MaxLaps) ELSE laps

\* The command pointer is in the ring
BeginPush ==
    /\ pc = "idle"
    /\ LET fill == AudioOutputRingFillFrames
           playing == Playing(fill)
           starts == playing /\ ~prebuffered
           start == StartCursor(OutputDistance, starts)
           end == TargetEndCursor(playing)
       IN /\ prebuffered' = playing
          /\ current' = hw /\ laps' = LapsRead /\ pointerValid' = TRUE
          /\ ahead' = start /\ outValid' = TRUE
          /\ IF start < end
             THEN /\ pc' = "write"
                  /\ plan' = [audio |-> playing,
                              budget |-> IF playing THEN fill ELSE 0,
                              left |-> Smaller(end - start, MaxPackets),
                              offset |-> 0]
             ELSE UNCHANGED <<pc, plan>>
    /\ clock' = 0
    /\ UNCHANGED <<hw, slots, ring, quiet, due, history>>

\* It is not: the push returns, with playback begun but the cursors not moved
BeginPushBlind ==
    /\ PointerMayFail
    /\ pc = "idle"
    /\ prebuffered' = Playing(AudioOutputRingFillFrames)
    /\ pointerValid' = FALSE
    /\ clock' = 0
    /\ withheld' = TRUE
    /\ UNCHANGED <<hw, slots, ring, current, laps, ahead, outValid, pc, plan, quiet, due, sent>>

NextSlot == (current + ahead + plan.offset) % N

\* Only whole packets are written
PacketFits == plan.audio => plan.budget >= Blocks[NextSlot]

\* Mutant: the frames are read but the read cursor stays
PopKeeps(k) == readFrame

PopAudioOutputRingFrames(k) ==
    (readFrame + Smaller(k, AudioOutputRingFillFrames)) % Frames

WritePacket ==
    /\ pc = "write"
    /\ plan.left > 0 /\ PacketFits
    /\ LET blocks == Blocks[NextSlot]
       IN IF plan.audio
          THEN /\ slots' = [slots EXCEPT ![NextSlot] =
                    [i \in 1..blocks |-> IF i <= AudioOutputRingFillFrames
                                         THEN (readFrame + i - 1) % Frames
                                         ELSE Padding]]
               /\ readFrame' = PopAudioOutputRingFrames(blocks)
               /\ plan' = [plan EXCEPT !.left = @ - 1, !.offset = @ + 1,
                                       !.budget = @ - blocks]
          ELSE /\ slots' = [slots EXCEPT ![NextSlot] = << >>]
               /\ plan' = [plan EXCEPT !.left = @ - 1, !.offset = @ + 1]
               /\ UNCHANGED readFrame
    /\ sent' = sent \ {NextSlot}
    /\ UNCHANGED <<hw, writeFrame, prebuffered, cursor, pc, clock, quiet, due, withheld>>

\* Mutant: the output cursor is not moved past the packets written
EndInPlace ==
    /\ pc = "write"
    /\ plan.left = 0 \/ ~PacketFits
    /\ pc' = "idle" /\ plan' = Idle
    /\ UNCHANGED <<hw, slots, ring, prebuffered, cursor, clock, quiet, due, history>>

\* Frames are left, fewer than the next packet takes
TailLeft == plan.audio /\ plan.left > 0 /\ plan.budget > 0

\* No packet from the hardware to the end of the push was sent since it was written
Refreshed ==
    \A d \in 0..((ahead + plan.offset) - AdvancedPackets - 1) : (hw + d) % N \notin sent

EndPush ==
    /\ pc = "write"
    /\ plan.left = 0 \/ ~PacketFits
    /\ \E synced \in (IF SyncMayFail /\ plan.offset > 0 THEN BOOLEAN ELSE {TRUE}) :
        /\ ahead' = IF synced THEN ahead + plan.offset ELSE ahead
        /\ withheld' = \/ TailLeft \/ ~synced
                       \/ withheld /\ ~(plan.left = 0 /\ Refreshed)
    /\ pc' = "idle" /\ plan' = Idle
    /\ UNCHANGED <<hw, slots, ring, prebuffered, current, laps, pointerValid, outValid,
                   clock, quiet, due, sent>>

Next ==
    \/ Transmit \/ AppendAudioOutputBufferToRing
    \/ BeginPush \/ BeginPushBlind \/ WritePacket \/ EndPush

Spec == Init /\ [][Next]_vars

\* The context runs by itself and the worker pushes in a loop
FairSpec ==
    /\ Spec
    /\ WF_vars(Transmit)
    /\ WF_vars(BeginPush \/ BeginPushBlind \/ WritePacket \/ EndPush)

-----------------------------------------------------------------------------
\* Every variable has its type.
TypeOK ==
    /\ hw \in Slots /\ current \in Slots
    /\ \A s \in Slots : Len(slots[s]) \in {0, Blocks[s]}
    /\ {readFrame, writeFrame, due} \subseteq 0..(Frames - 1)
    /\ prebuffered \in BOOLEAN /\ outValid \in BOOLEAN
    /\ laps \in 0..MaxLaps /\ pointerValid \in BOOLEAN
    /\ ahead \in (-N)..((MaxLaps + 2) * N)
    /\ pc \in {"idle", "write"}
    /\ plan \in [audio : BOOLEAN, budget : 0..RingFrames, left : 0..MaxPackets,
                 offset : 0..MaxPackets]
    /\ clock \in 0..Service /\ quiet \in (-Jitter)..(Period + Jitter)
    /\ sent \subseteq Slots /\ withheld \in BOOLEAN

\* A push never writes into the packet the controller is sending, nor into one
\* nearer to it than the lead less what is sent during the push, nor so far
\* ahead that it would reach the hardware from behind: the safe window of
\* PushAudioOutputToDigiLiveTransmit, with a hardware that moves meanwhile.
WindowRespected ==
    [][\A s \in Slots : slots'[s] # slots[s] =>
           (s + N - hw) % N \in (Lead - PushTime)..(N - Lead)]_vars

\* The looping ring sends the audio in a slot a second time only after a push left slots
\* unrefreshed although it had frames (it withheld a tail shorter than a packet, found no
\* command pointer or could not sync) and no later push has written all its packets with
\* none sent already before its end.  Whenever the writer stops and resumes, and whatever
\* it writes, nothing else brings the last lap back.
ReplayIsWithheld ==
    [][hw' # hw /\ slots[hw] # << >> /\ hw \in sent => withheld]_vars

\* The wire carries what CoreAudio wrote: in order, nothing twice, nothing lost.
Device == INSTANCE Playout WITH
    MaxPacket <- N, written <- writeFrame, wire <- slots[(hw + N - 1) % N]

PlaysWhatWasWritten == Device!Spec

\* While audio plays, and once the command pointer stays readable, the pushes go on taking
\* frames out of the output ring until what is left is a tail that the next packet is too
\* large for: the prebuffer holds frames back only before playback starts.
ShortOfPacket == AudioOutputRingFillFrames < Blocks[NextSlot]

AudioDrains ==
    <>[]pointerValid =>
        []<>(~prebuffered \/ ShortOfPacket) \/ []<><<readFrame' # readFrame>>_vars
=============================================================================
