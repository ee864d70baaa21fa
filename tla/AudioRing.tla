------------------------------ MODULE AudioRing ------------------------------
(***************************************************************************)
(* The PCM rings between CoreAudio and the FireWire stream, at the grain of *)
(* their loads and stores.  Both rings have this shape: the output ring     *)
(* (WriteEnd appends, the push pops) and the input ring (the harvest        *)
(* appends, BeginRead pops).  One thread appends at a time and one pops: the*)
(* callbacks come one by one, harvest and push are guarded by flags.  The   *)
(* cursors are plain 64-bit globals without a lock, and three threads write *)
(* them: the producer drops the oldest frame of a full ring by moving the   *)
(* consumer's cursor, and a controller (StartDevice, StopDevice,            *)
(* SetPowerState, a rate change, the restart block) clears both.            *)
(*                                                                          *)
(* x++ on such a global is a load and a store.  Frames are numbered by a    *)
(* history variable in the order they are appended.                         *)
(***************************************************************************)
EXTENDS Naturals

CONSTANTS
    R,              \* frames of the ring
    Modulus,        \* the difference of two cursors is unsigned: 2^64
    MaxFrames,      \* bound: frames appended
    MaxClears,      \* bound: resets
    ClearsMeetIO    \* a reset may come while a frame is appended or popped

ASSUME RingAssumption ==
    /\ {R, Modulus} \subseteq Nat \ {0}
    /\ {MaxFrames, MaxClears} \subseteq Nat
    /\ R < Modulus /\ MaxFrames < Modulus
    /\ ClearsMeetIO \in BOOLEAN

VARIABLES
    read, write,        \* gAudio(Output)RingReadFrame, gAudio(Output)RingWriteFrame
    slots,              \* gAudio(Output)RingPCM: the number of the frame in a slot
    producer, consumer, controller,  \* the step each thread takes next
    loaded,             \* what each thread has loaded for its ++ or assignment
    appended, popped,   \* history: frames appended, the last frame popped
    dropped,            \* history: frames appended when the ring was last cleared
    overrun,            \* history: the producer found the ring full
    clears              \* resets so far (bound)

cursors == <<read, write>>
history == <<appended, popped, dropped, overrun>>
vars == <<cursors, slots, producer, consumer, controller, loaded, history, clears>>

Fill == IF read <= write THEN write - read ELSE Modulus - (read - write)

Init ==
    /\ read = 0 /\ write = 0
    /\ slots = [s \in 0..(R - 1) |-> 0]
    /\ producer = "idle" /\ consumer = "idle" /\ controller = "idle"
    /\ loaded = [producer |-> 0, consumer |-> 0, controller |-> 0]
    /\ appended = 0 /\ popped = 0 /\ dropped = 0 /\ overrun = FALSE
    /\ clears = 0

-----------------------------------------------------------------------------
(* AppendPCMFrameToAudioOutputRing, AppendPCMFrameToAudioRing.              *)

BeginAppend ==
    /\ producer = "idle" /\ appended < MaxFrames
    /\ ~ClearsMeetIO => controller = "idle"
    /\ producer' = IF Fill >= R THEN "loadRead" ELSE "copy"
    /\ overrun' = (overrun \/ Fill >= R)
    /\ UNCHANGED <<cursors, slots, consumer, controller, loaded, appended, popped, dropped, clears>>

LoadReadToDrop ==
    /\ producer = "loadRead"
    /\ loaded' = [loaded EXCEPT !.producer = read]
    /\ producer' = "drop"
    /\ UNCHANGED <<cursors, slots, consumer, controller, history, clears>>

DropOldest ==
    /\ producer = "drop"
    /\ read' = loaded.producer + 1
    /\ producer' = "copy"
    /\ UNCHANGED <<write, slots, consumer, controller, loaded, history, clears>>

CopyIn ==
    /\ producer = "copy"
    /\ slots' = [slots EXCEPT ![write % R] = appended + 1]
    /\ appended' = appended + 1
    /\ producer' = "loadWrite"
    /\ UNCHANGED <<cursors, consumer, controller, loaded, popped, dropped, overrun, clears>>

LoadWrite ==
    /\ producer = "loadWrite"
    /\ loaded' = [loaded EXCEPT !.producer = write]
    /\ producer' = "publish"
    /\ UNCHANGED <<cursors, slots, consumer, controller, history, clears>>

Publish ==
    /\ producer = "publish"
    /\ write' = loaded.producer + 1
    /\ producer' = "idle"
    /\ UNCHANGED <<read, slots, consumer, controller, loaded, history, clears>>

-----------------------------------------------------------------------------
(* PopAudioOutputRingFrame, the loop of FillAudioInputBuffer.               *)

\* Mutant: a frame is popped although the ring is empty
PopBlindly ==
    /\ consumer = "idle"
    /\ ~ClearsMeetIO => controller = "idle"
    /\ consumer' = "copy"
    /\ UNCHANGED <<cursors, slots, producer, controller, loaded, history, clears>>

\* Mutant: the last frame stays in the ring
PopAllButOne ==
    /\ consumer = "idle"
    /\ ~ClearsMeetIO => controller = "idle"
    /\ read + 1 < write
    /\ consumer' = "copy"
    /\ UNCHANGED <<cursors, slots, producer, controller, loaded, history, clears>>

BeginPop ==
    /\ consumer = "idle"
    /\ ~ClearsMeetIO => controller = "idle"
    /\ read < write
    /\ consumer' = "copy"
    /\ UNCHANGED <<cursors, slots, producer, controller, loaded, history, clears>>

CopyOut ==
    /\ consumer = "copy"
    /\ popped' = slots[read % R]
    /\ consumer' = "loadRead"
    /\ UNCHANGED <<cursors, slots, producer, controller, loaded, appended, dropped, overrun, clears>>

LoadRead ==
    /\ consumer = "loadRead"
    /\ loaded' = [loaded EXCEPT !.consumer = read]
    /\ consumer' = "advance"
    /\ UNCHANGED <<cursors, slots, producer, controller, history, clears>>

\* Mutant: the cursor jumps to the producer's
AdvanceToWrite ==
    /\ consumer = "advance"
    /\ read' = write
    /\ consumer' = "idle"
    /\ UNCHANGED <<write, slots, producer, controller, loaded, history, clears>>

Advance ==
    /\ consumer = "advance"
    /\ read' = loaded.consumer + 1
    /\ consumer' = "idle"
    /\ UNCHANGED <<write, slots, producer, controller, loaded, history, clears>>

-----------------------------------------------------------------------------
(* ResetAudioRingBuffer, ResetAudioOutputRingBuffer, the tail that StopDevice *)
(* drops.                                                                    *)

MayClear ==
    /\ controller = "idle" /\ clears < MaxClears
    /\ ~ClearsMeetIO => producer = "idle" /\ consumer = "idle"

ClearWrite ==
    /\ MayClear
    /\ write' = 0
    /\ controller' = "clearRead"
    /\ clears' = clears + 1 /\ dropped' = appended
    /\ UNCHANGED <<read, slots, producer, consumer, loaded, appended, popped, overrun>>

ClearRead ==
    /\ controller = "clearRead"
    /\ read' = 0
    /\ controller' = "idle"
    /\ UNCHANGED <<write, slots, producer, consumer, loaded, history, clears>>

LoadTail ==
    /\ MayClear
    /\ loaded' = [loaded EXCEPT !.controller = write]
    /\ controller' = "dropTail"
    /\ clears' = clears + 1 /\ dropped' = appended
    /\ UNCHANGED <<cursors, slots, producer, consumer, appended, popped, overrun>>

DropTail ==
    /\ controller = "dropTail"
    /\ read' = loaded.controller
    /\ controller' = "idle"
    /\ UNCHANGED <<write, slots, producer, consumer, loaded, history, clears>>

Append == BeginAppend \/ LoadReadToDrop \/ DropOldest \/ CopyIn \/ LoadWrite \/ Publish
Pop == BeginPop \/ CopyOut \/ LoadRead \/ Advance
Clear == ClearWrite \/ ClearRead \/ LoadTail \/ DropTail

Quiet == producer = "idle" /\ consumer = "idle" /\ controller = "idle"

\* Every frame was appended; nothing more can happen
Finished == Quiet /\ appended = MaxFrames /\ UNCHANGED vars

Next == Append \/ Pop \/ Clear \/ Finished

Spec == Init /\ [][Next]_vars

\* Callbacks and worker keep coming, and a thread that began a frame goes on
FairSpec == Spec /\ WF_vars(Append) /\ WF_vars(Pop) /\ WF_vars(ClearRead \/ DropTail)

-----------------------------------------------------------------------------
Steps == {"idle", "loadRead", "drop", "copy", "loadWrite", "publish", "advance",
          "clearRead", "dropTail"}

\* Every variable has its type.
TypeOK ==
    /\ {read, write, appended, popped, dropped, clears} \subseteq Nat
    /\ slots \in [0..(R - 1) -> Nat]
    /\ overrun \in BOOLEAN
    /\ {producer, consumer, controller} \subseteq Steps
    /\ loaded \in [{"producer", "consumer", "controller"} -> Nat]

\* Between two frames the read cursor is not ahead of the write cursor: else the
\* unsigned fill count is enormous, every append moves the read cursor on as if
\* the ring were full, and no frame is ever popped again.
ReadBehindWrite == Quiet => read <= write

\* While the ring never overran, frames are popped in the order they were appended,
\* each of them, once; only a reset of the ring skips frames.  (After an overrun the
\* two threads that move the read cursor may make it skip or repeat a frame.)
InOrder ==
    [][CopyOut /\ ~overrun =>
           popped' = (IF popped < dropped THEN dropped ELSE popped) + 1]_vars

\* Every frame is popped in the end, unless the ring was reset or overran.
FramesArrive ==
    \A f \in 1..MaxFrames : appended = f ~> popped >= f \/ dropped >= f \/ overrun
=============================================================================
