--------------------------- MODULE ControlSurface ---------------------------
(***************************************************************************)
(* The 003's control surface as the driver sees it.  In slot 0 of each data *)
(* block the console sends fragments of MIDI messages, of its own buttons   *)
(* and faders (port 14) and of its MIDI sockets.  The harvest puts them     *)
(* together port by port, keeps what it must know of the surface and queues *)
(* feedback: the position of a fader, so that its motor holds it there, the *)
(* lights of buttons.  Clients queue messages of their own.  The push sends *)
(* the queued words back in slot 0 of the data blocks it writes, from the   *)
(* end of a start, which pops words itself while it fills the ring, to the  *)
(* next one.  Each block written counts as sent once.                       *)
(*                                                                          *)
(* A message is a sequence of bytes, as in the code.  Fragments may be lost *)
(* on their way to the driver.  The console is external: it is assumed to   *)
(* read what it is sent the way the driver reads what the console sends.    *)
(***************************************************************************)
EXTENDS EchoQueue

CONSTANTS
    Strips,         \* channel strips, of kDigiLiveControlChannelStripCount = 8
    Stride,         \* kDigiLiveMidiEchoFaderMoveFeedbackStride
    MinDelta,       \* kDigiLiveMidiEchoFaderMoveFeedbackMinDelta
    Ports,          \* ports of the console
    Scenes,         \* what may be done at the console: its messages, as <<port, bytes>>
    Commands,       \* byte strings clients may send to port 14
    None,
    MaxSent,        \* bound: messages of the console
    MaxCommands,    \* bound: commands of clients
    MaxLost         \* bound: fragments lost

ControlPort == 14       \* kDigiLiveMidiControlPortNibble

Byte == 0..255
\* kDigiLiveMidiBytesPerMessage: a status byte and two data bytes
MidiMessages == (128..255) \X (0..127) \X (0..127)

ASSUME SurfaceAssumption ==
    /\ Strips \subseteq 0..7
    /\ ControlPort \in Ports
    /\ {Stride, MinDelta} \subseteq Nat \ {0}
    /\ {MaxSent, MaxCommands, MaxLost} \subseteq Nat
    /\ \A s \in Scenes : s \subseteq Ports \X MidiMessages
    /\ None \notin Byte \cup MidiMessages

VARIABLES
    scene,          \* console: what is done there in this behaviour
    sending,        \* console: the message of each port and its fragments still to come
    pending,        \* gDigiLiveMidiPendingBytes, gDigiLiveMidiPendingByteCount
    play,           \* gDigiLiveControlPlayPressed
    faderMove,      \* gDigiLiveControlChannelFader(ControlNumber, Value, UpdateCount # 0)
    toggle,         \* gDigiLiveControlMotorTestToggle
    since,          \* gDigiLiveControlFaderFeedbackMovesSinceSend
    lastSent,       \* gDigiLiveControlFaderFeedbackLastSent(Value, Valid)
    ledNote,        \* gDigiLiveControlNavigationModeLedNote
    ledsQueued,     \* QueueDigiLiveNavigationModeLed: queued
    todo,           \* messages each thread has yet to append in its current call
    resting,        \* history: strips that were let go and not moved since
    refused,        \* history: an append failed (gDigiLiveMidiEchoDropCount or BusyCount # 0)
    heard, motor, leds,     \* console: bytes read, fader positions, navigation lights
    sentCount, commandCount, lostCount      \* bounds

surface == <<play, faderMove, toggle>>
history == <<resting, refused>>
feedback == <<since, lastSent, ledNote, ledsQueued, history>>
console == <<heard, motor, leds>>
bounds == <<sentCount, commandCount, lostCount>>
vars == <<queueVars, scene, sending, pending, surface, feedback, todo, console, bounds>>

-----------------------------------------------------------------------------
(* Bytes                                                                    *)

Command(m) == (m[1] \div 16) * 16
Pressed(m) == (m[3] \div 64) % 2 = 1
Group(m) == m[3] % 16
Channel(m) == IF Command(m) = 176 THEN m[2] % 8 ELSE m[3] % 8

\* The words of a message: two bytes each, one in the last if the count is odd.
Words(port, bytes) ==
    [i \in 1..((Len(bytes) + 1) \div 2) |->
        [port |-> port, bytes |-> SubSeq(bytes, 2 * i - 1,
                                         IF 2 * i <= Len(bytes) THEN 2 * i ELSE Len(bytes))]]

\* Mutant: a status byte inside a message is ignored.
AddByteInside(r, byte) ==
    LET bytes == IF r.bytes = <<>> THEN (IF byte >= 128 THEN <<byte>> ELSE <<>>)
                 ELSE IF byte >= 128 THEN r.bytes ELSE Append(r.bytes, byte)
    IN IF Len(bytes) = 3 THEN [bytes |-> <<>>, message |-> bytes]
       ELSE [r EXCEPT !.bytes = bytes]

\* A status byte begins a message, a data byte without one is dropped.
AddByte(r, byte) ==
    LET bytes == IF byte >= 128 THEN <<byte>>
                 ELSE IF r.bytes = <<>> THEN <<>> ELSE Append(r.bytes, byte)
    IN IF Len(bytes) = 3 THEN [bytes |-> <<>>, message |-> bytes]
       ELSE [r EXCEPT !.bytes = bytes]

\* What a fragment of one or two bytes leaves pending, and the message it completes, or <<>>.
Assemble(bytes, fragment) ==
    LET first == AddByte([bytes |-> bytes, message |-> <<>>], fragment[1])
    IN  IF Len(fragment) = 1 THEN first ELSE AddByte(first, fragment[2])

-----------------------------------------------------------------------------
(* Buttons and faders                                                       *)

IsStripNote(m, note) == Command(m) = 144 /\ m[2] = note /\ Group(m) < 8
IsFaderMove(m) == Command(m) = 176 /\ m[2] <= 63
IsModeButton(m) == Group(m) = 13 /\ m[2] \in 2..4

MotorTest(m) == IsStripNote(m, 0) /\ Pressed(m) /\ play
Release(m) == IsStripNote(m, 3) /\ ~Pressed(m)

\* An append and what it is for: "fader", "led", "motor", "echo" or "command".
Entry(bytes, purpose, note) == [bytes |-> bytes, purpose |-> purpose, note |-> note]

\* QueueDigiLiveFaderMotorTarget: ten bits of position in a control number and a value.
MotorTarget(channel, target) == <<176, (target % 8) * 8 + channel, target \div 8>>

Distance(a, b) == IF a > b THEN a - b ELSE b - a

\* Mutant: only a rise counts as a large move.
FeedBackRise(channel, value) ==
    \/ lastSent[channel] = None
    \/ since[channel] + 1 >= Stride
    \/ value - lastSent[channel] >= MinDelta

\* A move is fed back if it is the first, the Stride-th since the last one, or large.
FeedBackMove(channel, value) ==
    \/ lastSent[channel] = None
    \/ since[channel] + 1 >= Stride
    \/ Distance(value, lastSent[channel]) >= MinDelta

\* Mutant: the loop begins at Nudge.
ModeLedsButBank(note) ==
    [i \in 1..2 |-> Entry(<<144, i + 2, IF i + 2 = note THEN 13 + 32 ELSE 13>>, "led", note)]

\* QueueDigiLiveNavigationModeLed: the button's light on, those of the other modes off.
ModeLeds(note) ==
    [i \in 1..3 |-> Entry(<<144, i + 1, IF i + 1 = note THEN 13 + 32 ELSE 13>>, "led", note)]

\* Mutant: letting go queues nothing.
MappedAppendsNoFlush(m) ==
    IF MotorTest(m)
    THEN <<Entry(MotorTarget(Channel(m), IF toggle[Channel(m)] THEN 256 ELSE 768), "motor", None)>>
    ELSE <<>>

\* What ObserveDigiLiveMappedControlState queues, before anything else.
MappedAppends(m) ==
    IF MotorTest(m)
    THEN <<Entry(MotorTarget(Channel(m), IF toggle[Channel(m)] THEN 256 ELSE 768), "motor", None)>>
    ELSE IF Release(m) /\ faderMove[Channel(m)] # None
    THEN <<Entry(faderMove[Channel(m)], "fader", None)>>
    ELSE <<>>

IsNote(m) == Command(m) \in {128, 144}

\* Select and solo of a strip, and the groups that must not be lit from here.
IsKeptSilent(m) ==
    \/ m[2] <= 1 /\ Group(m) < 8
    \/ Group(m) \in {12, 15}
    \/ Group(m) = 11 /\ m[2] = 8

\* QueueDigiLiveDecodedMidiFeedback
FeedbackAppends(m) ==
    IF IsFaderMove(m)
    THEN IF FeedBackMove(Channel(m), m[3]) THEN <<Entry(m, "fader", None)>> ELSE <<>>
    ELSE IF ~IsNote(m) \/ IsKeptSilent(m) THEN <<>>
    ELSE IF IsModeButton(m)
    THEN IF (m[3] \div 32) % 4 # 0 THEN ModeLeds(m[2]) ELSE <<>>
    ELSE <<Entry(m, "echo", None)>>

-----------------------------------------------------------------------------
Init ==
    /\ QueueInit
    /\ scene \in Scenes
    /\ sending = [p \in Ports |-> [message |-> <<>>, fragments |-> <<>>]]
    /\ pending = [p \in Ports |-> <<>>]
    /\ play = FALSE
    /\ faderMove = [c \in Strips |-> None]
    /\ toggle = [c \in Strips |-> FALSE]
    /\ since = [c \in Strips |-> 0]
    /\ lastSent = [c \in Strips |-> None]
    /\ ledNote = None /\ ledsQueued = FALSE
    /\ resting = {} /\ refused = FALSE
    /\ todo = [t \in Threads |-> <<>>]
    /\ heard = <<>> /\ motor = [c \in Strips |-> None] /\ leds = {}
    /\ sentCount = 0 /\ commandCount = 0 /\ lostCount = 0

-----------------------------------------------------------------------------
(* The console sends.  What it does while the harvest is busy makes no      *)
(* difference: a fragment waits in its data block until the harvest takes it.*)

SendMessage(p, m) ==
    /\ todo[Harvest] = <<>>
    /\ sending[p].fragments = <<>> /\ sentCount < MaxSent
    /\ sending' = [sending EXCEPT ![p] = [message |-> m, fragments |-> Words(p, m)]]
    /\ sentCount' = sentCount + 1
    /\ UNCHANGED <<queueVars, scene, pending, surface, feedback, todo, console,
                   commandCount, lostCount>>

LoseFragment(p) ==
    /\ todo[Harvest] = <<>>
    /\ sending[p].fragments # <<>> /\ lostCount < MaxLost
    /\ sending' = [sending EXCEPT ![p].fragments = Tail(@)]
    /\ lostCount' = lostCount + 1
    /\ UNCHANGED <<queueVars, scene, pending, surface, feedback, todo, console,
                   sentCount, commandCount>>

-----------------------------------------------------------------------------
(* The harvest receives                                                     *)

\* ObserveDigiLiveMidiSlot0 takes the next fragment of a port.
TakeFragment(p) ==
    /\ todo[Harvest] = <<>> /\ sending[p].fragments # <<>>
    /\ sending' = [sending EXCEPT ![p].fragments = Tail(@)]
    /\ UNCHANGED <<queueVars, scene, console, bounds>>

Assembled(p) == Assemble(pending[p], Head(sending[p].fragments).bytes)

\* A fragment that completes no message.
ReceivePart(p) ==
    /\ TakeFragment(p)
    /\ Assembled(p).message = <<>>
    /\ pending' = [pending EXCEPT ![p] = Assembled(p).bytes]
    /\ UNCHANGED <<surface, feedback, todo>>

Decode(p) ==
    /\ TakeFragment(p)
    /\ Assembled(p).message # <<>>
    /\ pending' = [pending EXCEPT ![p] = Assembled(p).bytes]

\* A message of a MIDI socket changes nothing and is not answered.
ReceiveElsewhere(p) ==
    /\ p # ControlPort
    /\ Decode(p)
    /\ UNCHANGED <<surface, feedback, todo>>

\* ObserveDigiLiveMappedControlState and the decision what to feed back; the
\* appends follow.
ObserveControls(m) ==
    /\ play' = IF Command(m) = 144 /\ Group(m) = 14 /\ m[2] = 10 THEN Pressed(m) ELSE play
    /\ faderMove' = IF IsFaderMove(m) THEN [faderMove EXCEPT ![Channel(m)] = m] ELSE faderMove
    /\ toggle' = IF MotorTest(m) THEN [toggle EXCEPT ![Channel(m)] = ~@] ELSE toggle
    /\ since' = IF IsFaderMove(m) THEN [since EXCEPT ![Channel(m)] = @ + 1] ELSE since
    /\ ledsQueued' = TRUE
    /\ resting' = IF Release(m) /\ faderMove[Channel(m)] # None THEN resting \cup {Channel(m)}
                  ELSE IF IsFaderMove(m) THEN resting \ {Channel(m)} ELSE resting
    /\ todo' = [todo EXCEPT ![Harvest] = MappedAppends(m) \o FeedbackAppends(m)]
    /\ UNCHANGED <<lastSent, ledNote, refused>>

ReceiveControl(p) ==
    /\ p = ControlPort
    /\ Decode(p)
    /\ ObserveControls(Assembled(p).message)

-----------------------------------------------------------------------------
(* Appends and what follows from them                                       *)

\* ExternalMethod, SetProperties: one message of a client.
BeginCommand(t, bytes) ==
    /\ todo[t] = <<>> /\ commandCount < MaxCommands
    /\ todo' = [todo EXCEPT ![t] = <<Entry(bytes, "command", None)>>]
    /\ commandCount' = commandCount + 1
    /\ UNCHANGED <<queueVars, scene, sending, pending, surface, feedback, console,
                   sentCount, lostCount>>

\* QueueDigiLiveFaderMoveFeedback remembers a position that was queued.
RememberSent(e) ==
    IF e.purpose = "fader"
    THEN /\ since' = [since EXCEPT ![Channel(e.bytes)] = 0]
         /\ lastSent' = [lastSent EXCEPT ![Channel(e.bytes)] = e.bytes[3]]
    ELSE UNCHANGED <<since, lastSent>>

Queued(t) ==
    LET e == Head(todo[t])
    IN  /\ todo' = [todo EXCEPT ![t] = Tail(@)]
        /\ RememberSent(e)
        /\ ledNote' = IF e.purpose = "led" /\ e.bytes[2] = 4 /\ ledsQueued
                      THEN e.note ELSE ledNote
        /\ resting' = IF IsFaderMove(e.bytes) /\ e.purpose # "fader"
                      THEN resting \ {Channel(e.bytes)} ELSE resting
        /\ UNCHANGED <<ledsQueued, refused>>

NotQueued(t) ==
    /\ todo' = [todo EXCEPT ![t] = Tail(@)]
    /\ ledsQueued' = (ledsQueued /\ Head(todo[t]).purpose # "led")
    /\ refused' = TRUE
    /\ UNCHANGED <<since, lastSent, ledNote, resting>>

Elsewhere == <<scene, sending, pending, surface, console, bounds>>

AppendStep(t) ==
    /\ todo[t] # <<>>
    /\ \/ AppendBusy(t) /\ NotQueued(t)
       \/ AppendLock(t, Words(ControlPort, Head(todo[t]).bytes)) /\ UNCHANGED <<feedback, todo>>
       \/ AppendFull(t) /\ NotQueued(t)
       \/ StoreWord(t) /\ UNCHANGED <<feedback, todo>>
       \/ AppendDone(t) /\ Queued(t)
    /\ UNCHANGED Elsewhere

-----------------------------------------------------------------------------
(* The push sends, the console hears: WriteDigiLiveOutputTransmitDataBlock  *)
(* and WriteDigiLiveSilentTransmitDataBlock, called by the push             *)

HearWord(word) ==
    LET r == Assemble(heard, word.bytes)
        m == r.message
    IN  /\ heard' = r.bytes
        /\ motor' = IF m # <<>> /\ IsFaderMove(m)
                    THEN [motor EXCEPT ![Channel(m)] = m] ELSE motor
        /\ leds' = IF m = <<>> \/ ~IsNote(m) \/ ~IsModeButton(m) THEN leds
                   ELSE IF (m[3] \div 32) % 2 = 1 THEN leds \cup {m[2]} ELSE leds \ {m[2]}

Pop ==
    /\ \/ PopBusy /\ UNCHANGED console
       \/ PopLock /\ UNCHANGED console
       \/ PopEmpty /\ UNCHANGED console
       \/ PopWord /\ HearWord(queue[readIndex])
    /\ UNCHANGED <<scene, sending, pending, surface, feedback, todo, bounds>>

-----------------------------------------------------------------------------
Receive(p) == ReceivePart(p) \/ ReceiveElsewhere(p) \/ ReceiveControl(p)

Next ==
    \/ \E message \in scene : SendMessage(message[1], message[2])
    \/ \E p \in Ports : LoseFragment(p) \/ Receive(p)
    \/ \E t \in Clients : \E bytes \in Commands : BeginCommand(t, bytes)
    \/ \E t \in Clients \cup {Harvest} : AppendStep(t)
    \/ Pop

Spec == Init /\ [][Next]_vars

-----------------------------------------------------------------------------
\* What is sent from a port
From(p) == {message[2] : message \in {n \in UNION Scenes : n[1] = p}}
\* What the driver may take for a message of the controls: once two fragments were lost,
\* the beginning of one may meet the end of another.
Controls ==
    IF MaxLost <= 1 THEN From(ControlPort)
    ELSE {<<begin[1], begin[2], end[3]>> : begin, end \in From(ControlPort)}
Lights == UNION {{ModeLeds(note)[i].bytes : i \in DOMAIN ModeLeds(note)} : note \in 2..4}
MotorTargets == {MotorTarget(c, target) : c \in Strips, target \in {256, 768}}
OutgoingBytes == Commands \cup Controls \cup Lights \cup MotorTargets
\* What is ever appended: the value of Message.
Outgoing == {Words(ControlPort, bytes) : bytes \in OutgoingBytes}
Word == {NoData} \cup UNION {{message[i] : i \in DOMAIN message} : message \in Message}

(* Every variable keeps its type; a message half put together has at most    *)
(* two bytes (2623-2669), a queue slot a word some caller built.             *)
TypeOK ==
    /\ queue \in [Slots -> Word] /\ slot \in Word
    /\ writeIndex \in Slots /\ readIndex \in Slots /\ queueCount \in 0..QueueSize
    /\ busy \in {0, 1}
    /\ \A t \in Threads :
        /\ step[t] \in {"idle", "locked", "storing", "popping"}
        /\ \A i \in DOMAIN left[t] : left[t][i] \in Word
        /\ \A i \in DOMAIN todo[t] : todo[t][i].bytes \in OutgoingBytes
    /\ \A p \in Ports : Len(pending[p]) < 3
    /\ play \in BOOLEAN /\ toggle \in [Strips -> BOOLEAN]
    /\ faderMove \in [Strips -> {None} \cup Controls]
    /\ since \in [Strips -> 0..MaxSent]
    /\ lastSent \in [Strips -> {None} \cup Byte]
    /\ ledNote \in {None} \cup 2..4 /\ leds \subseteq 2..4
    /\ Len(heard) < 3

\* The words of messages that are complete: not those of an append under way.
Stored == UNION {{Len(Words(ControlPort, Head(todo[t]).bytes)) - Len(left[t])} :
                    t \in {u \in Threads : step[u] = "storing"}}
Complete == SubSeq(Waiting, 1, queueCount - (IF Stored = {} THEN 0 ELSE CHOOSE n \in Stored : TRUE))

Fifo == INSTANCE MessageFifo WITH
    Messages <- Message, NoData <- NoData, waiting <- Complete, wire <- slot

(* Whatever harvest, push and clients do at the same time, the console is    *)
(* sent whole messages, one after the other, each once and in the order they *)
(* were queued; a message that meets a full queue or a taken flag leaves no  *)
(* word behind (2688-2717, 3222-3244).                                       *)
WholeMessages == Fifo!Spec

(* A lost fragment costs the message it belonged to and no other: what a     *)
(* fragment completes is the message the console is sending on that port,    *)
(* not half of one and half of the next (2623-2669).                         *)
NoMixture ==
    \A p \in Ports :
        sending[p].fragments # <<>> /\ Assembled(p).message # <<>> =>
            Assembled(p).message = sending[p].message

(* As long as no append fails, the console is never behind a fader by        *)
(* MinDelta or by Stride moves once a move is dealt with (2815-2861).        *)
FeedbackIsFresh ==
    ~refused /\ todo[Harvest] = <<>> =>
        \A c \in Strips : faderMove[c] # None =>
            /\ lastSent[c] # None /\ since[c] < Stride
            /\ Distance(faderMove[c][3], lastSent[c]) < MinDelta

Quiet == queueCount = 0 /\ \A t \in Threads : todo[t] = <<>>

(* When everything queued has been sent and no append failed, the console    *)
(* shows the navigation mode the driver believes in and no other             *)
(* (2751-2777, 2927-2936).                                                   *)
OneModeLit == Quiet /\ ~refused => leds = {ledNote} \ {None}

(* When everything queued has been sent and no append failed, the motor of a *)
(* fader that was let go has been told to stay exactly where it was left,    *)
(* fed-back moves and motor tests before that notwithstanding (2341-2412,    *)
(* 2815-2877).                                                               *)
ReleaseHolds == Quiet /\ ~refused => \A c \in resting : motor[c] = faderMove[c]
=============================================================================
