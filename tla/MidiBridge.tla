----------------------------- MODULE MidiBridge -----------------------------
(***************************************************************************)
(* digi003-midi-bridge: the process between the driver and CoreMIDI.  Its   *)
(* main thread polls the driver's ring of decoded control messages, hands   *)
(* each to CoreMIDI and then sends the driver what the host wants shown.    *)
(* CoreMIDI's thread calls midi_read_proc with the host's messages: they    *)
(* are filtered and queued.  The queue has a lock, everything else the two  *)
(* threads share (which lights are on, what is due when) has none.          *)
(*                                                                          *)
(* One of the two tracked notes is modelled (they share no state).  A note  *)
(* of the same number that belongs to a button elsewhere on the console is  *)
(* "other": the driver is sent it as the light of the strip its low bits    *)
(* name.  Which display texts are held back is left open.  Times are        *)
(* counted in polls, as what remains of a delay or, up to its limit, as an  *)
(* age; two time stamps are compared by remembering which came last.        *)
(* The driver, the host and the person at the console are external.         *)
(***************************************************************************)
EXTENDS Naturals, Sequences, FiniteSets

CONSTANTS
    Channels,       \* of kChannelStripFeedbackChannels = 8
    RingSize,       \* length of the driver's ring, kDigiLiveMidiDecodedRecentMessageCount
    QueueCap,       \* kDriverFeedbackQueueCapacity
    DrainPerPoll,   \* kDriverFeedbackQueueDrainPerPoll
    RelatchDelay,   \* kReleaseLedRelatchDelayNs
    SyncDelay,      \* kLedStateSyncDelayNs
    EchoWindow,     \* kReleaseEchoSuppressWindowNs
    StartupHold,    \* kStartupLedHoldNs
    FaderStep,      \* the least change of a fader that is forwarded at once
    FaderGap,       \* the age after which a lesser change is forwarded
    MissedLimit,    \* max_missed_polls
    None,
    Scenes          \* bounds: what happens around the bridge (SceneAssumption)

HostMessage == [type: {"note", "other"}, ch: Channels, on: BOOLEAN]
                 \cup [type: {"fader"}, value: Nat]
                 \cup [type: {"text"}]

\* a message the driver decoded: its number, the button, whether it went down
Entry == [id: Nat, ch: Channels, down: BOOLEAN]

\* the fader's position forwarded last, and how old it is
Position == [value: Nat, age: Nat]

ASSUME BridgeAssumption ==
    /\ Channels \subseteq Nat /\ IsFiniteSet(Channels) /\ Channels # {}
    /\ {RingSize, QueueCap, DrainPerPoll, MissedLimit, FaderStep} \subseteq Nat \ {0}
    /\ {RelatchDelay, SyncDelay, EchoWindow, StartupHold, FaderGap} \subseteq Nat
    /\ None \notin Nat \cup Entry \cup Position

\* what the host may send unasked and how often, the buttons used and how often, how
\* often the driver fails, whether it publishes between the reads of a poll, whether
\* the host answers the buttons
ASSUME SceneAssumption ==
    Scenes \subseteq [speaks: SUBSET HostMessage, words: Nat, buttons: SUBSET Channels,
                     moves: Nat, faults: Nat, tears: BOOLEAN, replies: BOOLEAN]

VARIABLES
    scene,          \* which of Scenes this is
    driver,         \* "running", "idle" (ProbeDigiLiveRunning = 0) or "gone"
    log,            \* what the driver decoded since it started, each with its number
    held,           \* buttons held down
    main,           \* main thread: pc, and what the poll under way has read
    lastCount,      \* last_count
    missed,         \* missed_polls
    forwarded,      \* numbers of the messages sent to CoreMIDI
    inbox, hostOut, \* host: messages from the bridge, messages to it
    hostLed, hostFader,     \* host: what it wants shown
    cb,             \* midi_read_proc: pc and message
    queue,          \* g_driver_feedback_queue
    active,         \* g_feedback_button_active
    lastPress,      \* g_physical_button_last_press_channel, None before the first
    onLast,         \* g_feedback_button_on_ns >= g_physical_button_press_ns
    released,       \* g_physical_button_release_ns: its age, None before the first
    button,         \* g_physical_button_press_ns: "never", before ("up") or after the release ("down")
    relatch,        \* g_pending_release_relatched_led_ns: 0, or what remains plus 1
    sync,           \* g_pending_led_state_sync_ns: 0, or what remains plus 1
    hold,           \* g_startup_led_hold_until_ns: what remains
    fader,          \* g_fader_feedback_last_*: [value, age], None before the first
    told, toldFader,        \* the last values the driver accepted
    unsure,         \* history: lights a failed or overtaken snapshot, or another button, leaves open
    faderLost,      \* history: the fader's last forwarded value did not get through
    overlap,        \* history: the person or the host did not wait for the other
    torn,           \* history: the driver published within a poll
    gap,            \* history: the ring overran between two polls, or was lost
    moves, words, faults        \* bounds

poll == <<main, lastCount, missed, forwarded>>
lights == <<active, lastPress, onLast, released, button, relatch, sync, hold>>
host == <<inbox, hostOut, hostLed, hostFader>>
shown == <<told, toldFader, unsure, faderLost>>
history == <<overlap, torn, gap>>
bounds == <<scene, moves, words, faults>>
vars == <<driver, log, held, poll, host, cb, queue, lights, fader, shown, history, bounds>>

-----------------------------------------------------------------------------
(* Messages and the ring *)

Note(c, on) == [type |-> "note", ch |-> c, on |-> on]
Fader(v) == [type |-> "fader", value |-> v]
Other(c, on) == [type |-> "other", ch |-> c, on |-> on]
Text == [type |-> "text"]
IsNote(m) == m.type = "note"
IsOther(m) == m.type = "other"
IsFader(m) == m.type = "fader"

Least(a, b) == IF a < b THEN a ELSE b
Apart(a, b) == IF a > b THEN a - b ELSE b - a

\* slot i of the driver's ring: the last message stored there, None if there is none
Slot(l, i) ==
    LET at == {n \in 1..Len(l) : (n - 1) % RingSize = i}
    IN  IF at = {} THEN None ELSE l[CHOOSE n \in at : \A k \in at : k <= n]
Ring(l) == [i \in 0..RingSize - 1 |-> Slot(l, i)]
RingCount(l) == Least(Len(l), RingSize)

\* Mutant: the slots in the order of the array
Unordered(index, count) == [k \in 1..count |-> k - 1]

\* the slots in the order of arrival, as the index and the count tell it
Ordered(index, count) ==
    [k \in 1..count |-> IF count = RingSize THEN (index + k - 1) % RingSize ELSE k - 1]

\* what a poll goes through of the ring it read
Newest(m, ring) ==
    LET delta == Least(m.count - lastCount, m.recent)
        slots == Ordered(m.index, m.recent)
    IN  [k \in 1..delta |-> ring[slots[m.recent - delta + k]]]
MainAt(pc) == main.pc = pc
Goto(pc) == main' = [main EXCEPT !.pc = pc]
FirstOf(todo) == CHOOSE c \in todo : \A d \in todo : c <= d

\* no message about the light c is queued or about to be
Settled(c) ==
    /\ \A i \in DOMAIN queue : ~(IsNote(queue[i]) /\ queue[i].ch = c)
    /\ ~(cb.pc = "queue" /\ IsNote(cb.msg) /\ cb.msg.ch = c)

\* a message about the button or the light c is under way
Busy(c) == \/ \E i \in DOMAIN log : /\ log[i].ch = c
                                    /\ \A k \in DOMAIN forwarded : forwarded[k] # log[i].id
           \/ \E i \in DOMAIN main.news : main.news[i] # None /\ main.news[i].ch = c
           \/ \E i \in DOMAIN inbox : inbox[i].ch = c
           \/ \E i \in DOMAIN hostOut : IsNote(hostOut[i]) /\ hostOut[i].ch = c
           \/ cb.pc # "idle" /\ IsNote(cb.msg) /\ cb.msg.ch = c

Init ==
    /\ driver = "running" /\ log = <<>> /\ held = {}
    /\ main = [pc |-> "setup", todo |-> Channels, count |-> 0, index |-> 0, recent |-> 0,
               news |-> <<>>, left |-> 0]
    /\ lastCount = 0 /\ missed = 0 /\ forwarded = <<>>
    /\ inbox = <<>> /\ hostOut = <<>>
    /\ hostLed = [c \in Channels |-> FALSE] /\ hostFader = None
    /\ cb = [pc |-> "idle", msg |-> Note(FirstOf(Channels), FALSE)]
    /\ queue = <<>>
    /\ active = [c \in Channels |-> FALSE]
    /\ lastPress = None
    /\ onLast = [c \in Channels |-> TRUE]
    /\ released = [c \in Channels |-> None]
    /\ button = [c \in Channels |-> "never"]
    /\ relatch = [c \in Channels |-> 0]
    /\ sync = 0 /\ hold = 0
    /\ fader = None
    /\ told = [c \in Channels |-> TRUE] /\ toldFader = None
    /\ unsure = Channels /\ faderLost = FALSE
    /\ overlap = FALSE /\ torn = FALSE /\ gap = FALSE
    /\ scene \in Scenes /\ moves = 0 /\ words = 0 /\ faults = 0

-----------------------------------------------------------------------------
(* Environment: the person at the console, the driver, the host *)

\* what is done at the console the driver decodes and publishes
\* only reading tells when: what is published earlier is as if published on waking up
Publish(l) ==
    /\ MainAt("count") \/ (scene.tears /\ main.pc \in {"index", "recent", "data"})
    /\ log' = l /\ torn' = (torn \/ ~MainAt("count"))

Decode(c, down) ==
    /\ driver = "running"
    /\ Publish(Append(log, [id |-> moves, ch |-> c, down |-> down]))
    /\ UNCHANGED <<driver, poll, inbox, hostOut, hostLed, hostFader, cb, queue, lights, fader,
                   shown, gap, scene, words, faults>>

\* nothing is under way about the button, nor was it just let go
Calm(c) ==
    /\ main.pc \notin {"start", "clear"}
    /\ c \notin held /\ ~Busy(c) /\ released[c] \notin 0..EchoWindow

Press(c) ==
    /\ c \in scene.buttons \ held /\ moves < scene.moves
    /\ held' = held \cup {c}
    /\ moves' = moves + 1
    /\ overlap' = (overlap \/ held # {} \/ \E d \in Channels : Busy(d))
    /\ Decode(c, TRUE)

Release(c) ==
    /\ c \in held
    /\ held' = held \ {c}
    /\ moves' = moves + 1
    /\ UNCHANGED overlap
    /\ Decode(c, FALSE)

\* the stream stops or starts, or the driver leaves and comes back with an empty ring
DriverChange ==
    \/ /\ driver = "running" /\ faults < scene.faults
       /\ driver' \in {"idle", "gone"} /\ faults' = faults + 1
       /\ UNCHANGED <<log, torn, gap>>
    \/ /\ driver = "idle" /\ driver' = "running" /\ UNCHANGED <<log, torn, gap, faults>>
    \/ /\ driver = "gone" /\ driver' = "running" /\ Publish(<<>>) /\ gap' = TRUE
       /\ UNCHANGED faults

DriverFault ==
    /\ DriverChange
    /\ UNCHANGED <<held, poll, host, cb, queue, lights, fader, shown, overlap,
                   scene, moves, words>>

\* the host is as late as it likes, so its messages need no delay of their own
HostFree == hostOut = <<>> /\ cb.pc = "idle"

\* a press turns a light over, or makes it the only one; a release may be echoed as off
HostAnswers ==
    /\ HostFree /\ scene.replies
    /\ inbox # <<>> /\ inbox' = Tail(inbox)
    /\ LET c == Head(inbox).ch
       IN  \/ /\ Head(inbox).down
              /\ hostLed' = [hostLed EXCEPT ![c] = ~@]
              /\ hostOut' = Append(hostOut, Note(c, hostLed'[c]))
           \/ /\ Head(inbox).down
              /\ hostLed' = [d \in Channels |-> d = c]
              /\ \E d \in Channels \ {c} :
                    /\ \A e \in Channels \ {c, d} : ~hostLed[e]
                    /\ hostOut' = hostOut \o <<Note(d, FALSE), Note(c, TRUE)>>
           \/ /\ ~Head(inbox).down
              /\ hostOut' \in {hostOut, Append(hostOut, Note(c, FALSE))}
              /\ UNCHANGED hostLed
    /\ UNCHANGED <<driver, log, held, poll, hostFader, cb, queue, lights, fader, shown,
                   history, bounds>>

\* the host speaks for itself: a light, its fader, another button's light, a text
HostSpeaks ==
    /\ HostFree
    /\ words < scene.words /\ words' = words + 1
    /\ \E m \in scene.speaks :
          /\ hostOut' = Append(hostOut, m)
          /\ hostLed' = IF IsNote(m) THEN [hostLed EXCEPT ![m.ch] = m.on] ELSE hostLed
          /\ hostFader' = IF IsFader(m) THEN m.value ELSE hostFader
          /\ overlap' = (overlap \/ (IsNote(m) /\ ~Calm(m.ch)))
    /\ UNCHANGED <<driver, log, held, poll, inbox, cb, queue, lights, fader, shown,
                   torn, gap, scene, moves, faults>>

-----------------------------------------------------------------------------
(* CoreMIDI's thread: midi_read_proc, one message at a time *)

\* should_forward_short_message_to_driver
ForwardFader(v) ==
    \/ fader = None
    \/ Apart(v, fader.value) >= FaderStep
    \/ v # fader.value /\ fader.age >= FaderGap

\* Mutant: what is not forwarded is remembered too
RememberEveryFader(v) ==
    fader' = [value |-> v, age |-> IF ForwardFader(v) THEN 0 ELSE fader.age]

RememberFader(v) == fader' = IF ForwardFader(v) THEN [value |-> v, age |-> 0] ELSE fader

cbRest == <<driver, log, held, poll, inbox, hostLed, hostFader, told, toldFader, unsure,
            history, bounds>>

Receive ==
    /\ cb.pc = "idle" /\ hostOut # <<>>
    /\ hostOut' = Tail(hostOut)
    /\ LET m == Head(hostOut)
       IN  \/ /\ IsNote(m)
              /\ cb' = [pc |-> "state", msg |-> m]
              /\ UNCHANGED fader
           \/ /\ IsFader(m) /\ RememberFader(m.value)
              /\ cb' = [pc |-> IF ForwardFader(m.value) THEN "queue" ELSE "idle", msg |-> m]
           \/ /\ IsOther(m)
              /\ cb' = [pc |-> "queue", msg |-> m]
              /\ UNCHANGED fader
           \/ /\ m = Text
              /\ cb' \in [pc: {"queue", "idle"}, msg: {m}]
              /\ UNCHANGED fader
    /\ UNCHANGED <<cbRest, queue, lights, faderLost>>

\* Mutant: an off is taken for an echo whatever was pressed since
IsLateOff(c) == released[c] \in 0..EchoWindow

\* should_suppress_release_echo: an off soon after a release answers no press
IsReleaseEcho(c) ==
    /\ released[c] \in 0..EchoWindow
    /\ onLast[c]
    /\ lastPress \in {None, c}

NoteOn ==
    /\ cb.pc = "state" /\ cb.msg.on
    /\ active' = [active EXCEPT ![cb.msg.ch] = TRUE]
    /\ onLast' = [onLast EXCEPT ![cb.msg.ch] = TRUE]
    /\ cb' = [cb EXCEPT !.pc = "due"]
    /\ UNCHANGED <<cbRest, hostOut, queue, lastPress, released, button, relatch, sync, hold,
                   fader, faderLost>>

SuppressEcho ==
    /\ cb.pc = "state" /\ ~cb.msg.on /\ IsReleaseEcho(cb.msg.ch)
    /\ cb' = [cb EXCEPT !.pc = "idle"]
    /\ UNCHANGED <<cbRest, hostOut, queue, lights, fader, faderLost>>

NoteOff ==
    /\ cb.pc = "state" /\ ~cb.msg.on /\ ~IsReleaseEcho(cb.msg.ch)
    /\ active' = [active EXCEPT ![cb.msg.ch] = FALSE]
    /\ relatch' = [relatch EXCEPT ![cb.msg.ch] = 0]
    /\ cb' = [cb EXCEPT !.pc = "due"]
    /\ UNCHANGED <<cbRest, hostOut, queue, lastPress, onLast, released, button, sync, hold,
                   fader, faderLost>>

\* schedule_led_state_sync
SyncDue == 1 + (IF SyncDelay < hold THEN hold ELSE SyncDelay)

\* Mutant: only a light that goes on schedules a snapshot
ScheduleSyncForOn ==
    /\ cb.pc = "due"
    /\ sync' = IF cb.msg.on THEN SyncDue ELSE sync
    /\ LET c == cb.msg.ch
       IN  relatch' = IF cb.msg.on /\ button[c] = "up" /\ released[c] \in 0..EchoWindow
                      THEN [relatch EXCEPT ![c] = RelatchDelay + 1] ELSE relatch
    /\ cb' = [cb EXCEPT !.pc = IF hold > 0 THEN "idle" ELSE "queue"]
    /\ UNCHANGED <<cbRest, hostOut, queue, active, lastPress, onLast, released, button, hold,
                   fader, faderLost>>

\* the snapshot is scheduled; a message of the start-up is held back, any other queued
ScheduleSync ==
    /\ cb.pc = "due"
    /\ sync' = SyncDue
    /\ LET c == cb.msg.ch
       IN  relatch' = IF cb.msg.on /\ button[c] = "up" /\ released[c] \in 0..EchoWindow
                      THEN [relatch EXCEPT ![c] = RelatchDelay + 1] ELSE relatch
    /\ cb' = [cb EXCEPT !.pc = IF hold > 0 THEN "idle" ELSE "queue"]
    /\ UNCHANGED <<cbRest, hostOut, queue, active, lastPress, onLast, released, button, hold,
                   fader, faderLost>>

\* enqueue_driver_feedback_*: the lock is only tried, and a full queue refuses
Enqueue ==
    /\ cb.pc = "queue"
    /\ cb' = [cb EXCEPT !.pc = "idle"]
    /\ \/ /\ Len(queue) < QueueCap
          /\ queue' = Append(queue, cb.msg)
          /\ faderLost' = (faderLost /\ ~IsFader(cb.msg))
       \/ /\ Len(queue) = QueueCap \/ MainAt("drain")
          /\ faderLost' = (faderLost \/ IsFader(cb.msg))
          /\ UNCHANGED queue
    /\ UNCHANGED <<cbRest, hostOut, lights, fader>>

Callback == Receive \/ NoteOn \/ SuppressEcho \/ NoteOff \/ ScheduleSync \/ Enqueue

-----------------------------------------------------------------------------
(* Main thread *)

\* send_debug_midi fails when the driver is not running, and may fail when it is
Send(ok) ==
    \/ ok /\ driver = "running" /\ UNCHANGED faults
    \/ ~ok /\ driver # "running" /\ UNCHANGED faults
    \/ ~ok /\ driver = "running" /\ faults < scene.faults /\ faults' = faults + 1

\* a light is sent on its own, past the queue
SendLight(c, on, ok) ==
    /\ Send(ok)
    /\ told' = IF ok THEN [told EXCEPT ![c] = on] ELSE told

mainRest == <<driver, log, held, hostOut, hostLed, hostFader, cb, fader, scene, moves, words,
              overlap>>

\* main up to its loop: without the driver or without CoreMIDI the process ends
SetUp ==
    /\ MainAt("setup")
    /\ (Goto("start") /\ driver # "gone") \/ Goto("done")
    /\ UNCHANGED <<mainRest, lastCount, missed, forwarded, inbox, queue, lights, shown, torn, gap,
                   faults>>

\* clear_channel_strip_leds_on_startup
StartClear ==
    /\ MainAt("start")
    /\ hold' = StartupHold
    /\ lastCount' \in {0, Len(log)}
    /\ main' = [main EXCEPT !.pc = "clear", !.todo = Channels]
    /\ UNCHANGED <<mainRest, missed, forwarded, inbox, queue, active, lastPress, onLast, released,
                   button, relatch, sync, shown, torn, gap, faults>>

ClearLight ==
    /\ MainAt("clear") /\ main.todo # {}
    /\ LET c == FirstOf(main.todo)
       IN  /\ active' = [active EXCEPT ![c] = FALSE]
           /\ relatch' = [relatch EXCEPT ![c] = 0]
           /\ \E ok \in BOOLEAN : SendLight(c, FALSE, ok)
           /\ main' = [main EXCEPT !.todo = @ \ {c}]
    /\ UNCHANGED <<mainRest, lastCount, missed, forwarded, inbox, queue, lastPress, onLast,
                   released, button, sync, hold, toldFader, unsure, faderLost, torn, gap>>

ClearDone ==
    /\ MainAt("clear") /\ main.todo = {}
    /\ sync' = SyncDue
    /\ Goto("count")
    /\ UNCHANGED <<mainRest, lastCount, missed, forwarded, inbox, queue, active, lastPress, onLast,
                   released, button, relatch, hold, shown, torn, gap, faults>>

pollRest == <<mainRest, queue, lights, shown, faults>>

ReadFails ==
    /\ main.pc \in {"count", "index", "recent"} /\ driver = "gone"
    /\ missed' = missed + 1
    /\ Goto(IF missed' >= MissedLimit THEN "done" ELSE "sleep")
    /\ UNCHANGED <<pollRest, lastCount, forwarded, inbox, torn, gap>>

ReadCount ==
    /\ MainAt("count") /\ driver # "gone"
    /\ main' = [main EXCEPT !.pc = "index", !.count = Len(log)]
    /\ UNCHANGED <<pollRest, lastCount, missed, forwarded, inbox, torn, gap>>

ReadIndex ==
    /\ MainAt("index") /\ driver # "gone"
    /\ main' = [main EXCEPT !.pc = "recent", !.index = Len(log) % RingSize]
    /\ UNCHANGED <<pollRest, lastCount, missed, forwarded, inbox, torn, gap>>

ReadRecent ==
    /\ MainAt("recent") /\ driver # "gone"
    /\ missed' = 0
    /\ lastCount' = Least(lastCount, main.count)
    /\ gap' = (gap \/ main.count > lastCount + RingSize)
    /\ main' = [main EXCEPT !.recent = RingCount(log),
                            !.pc = IF main.count > lastCount' THEN "data" ELSE "drain",
                            !.left = DrainPerPoll]
    /\ UNCHANGED <<pollRest, forwarded, inbox, torn>>

\* the messages are copied; when that fails there are none
ReadData ==
    /\ MainAt("data")
    /\ main' = [main EXCEPT !.pc = "forward",
                            !.news = IF driver = "gone" THEN <<>> ELSE Newest(main, Ring(log))]
    /\ gap' = (gap \/ driver = "gone")
    /\ UNCHANGED <<pollRest, lastCount, missed, forwarded, inbox, torn>>

\* observe_physical_message_to_coremidi
Observe(c, down) ==
    \/ /\ down
       /\ lastPress' = c
       /\ onLast' = [onLast EXCEPT ![c] = FALSE]
       /\ button' = [button EXCEPT ![c] = "down"]
       /\ UNCHANGED <<released, relatch>>
    \/ /\ ~down
       /\ released' = [released EXCEPT ![c] = 0]
       /\ button' = [button EXCEPT ![c] = IF @ = "never" THEN @ ELSE "up"]
       /\ relatch' = IF active[c] /\ onLast[c]
                     THEN [relatch EXCEPT ![c] = RelatchDelay + 1] ELSE relatch
       /\ UNCHANGED <<lastPress, onLast>>

ForwardMessage ==
    /\ MainAt("forward") /\ main.news # <<>> /\ Head(main.news) # None
    /\ LET m == Head(main.news)
       IN  /\ Observe(m.ch, m.down)
           /\ inbox' = Append(inbox, m)
           /\ forwarded' = Append(forwarded, m.id)
    /\ main' = [main EXCEPT !.news = Tail(@)]
    /\ UNCHANGED <<mainRest, lastCount, missed, queue, active, sync, hold, shown, torn, gap, faults>>

\* an empty slot
SkipEmpty ==
    /\ MainAt("forward") /\ main.news # <<>> /\ Head(main.news) = None
    /\ main' = [main EXCEPT !.news = Tail(@)]
    /\ UNCHANGED <<pollRest, lastCount, missed, forwarded, inbox, torn, gap>>

ForwardDone ==
    /\ MainAt("forward") /\ main.news = <<>>
    /\ lastCount' = main.count
    /\ Goto("drain")
    /\ UNCHANGED <<pollRest, missed, forwarded, inbox, torn, gap>>

\* translate_short_feedback_for_driver: every note becomes a strip's light, whichever
\* button it was meant for
Lights(m) == IsNote(m) \/ IsOther(m)

\* service_queued_driver_feedback: what is popped and cannot be sent is gone
DrainOne ==
    /\ MainAt("drain") /\ main.left > 0 /\ queue # <<>>
    /\ queue' = Tail(queue)
    /\ main' = [main EXCEPT !.left = @ - 1]
    /\ LET m == Head(queue)
       IN  \E ok \in BOOLEAN :
             /\ Send(ok)
             /\ told' = IF ok /\ Lights(m) THEN [told EXCEPT ![m.ch] = m.on] ELSE told
             /\ unsure' = IF ok /\ IsOther(m) THEN unsure \cup {m.ch} ELSE unsure
             /\ toldFader' = IF ok /\ IsFader(m) THEN m.value ELSE toldFader
             /\ faderLost' = (faderLost \/ (~ok /\ IsFader(m)
                                /\ ~ \E i \in DOMAIN queue' : IsFader(queue'[i])))
    /\ UNCHANGED <<mainRest, lastCount, missed, forwarded, inbox, lights, torn, gap>>

DrainDone ==
    /\ MainAt("drain") /\ (main.left = 0 \/ queue = <<>>)
    /\ main' = [main EXCEPT !.pc = "relatch", !.left = 0]
    /\ UNCHANGED <<pollRest, lastCount, missed, forwarded, inbox, torn, gap>>

\* service_pending_release_led_relatches: a light that went out meanwhile stays out
Relatch ==
    /\ MainAt("relatch")
    /\ \E c \in Channels :
        /\ relatch[c] = 1
        /\ \A d \in Channels : relatch[d] = 1 => c <= d
        /\ relatch' = [relatch EXCEPT ![c] = 0]
        /\ \/ active[c] /\ \E ok \in BOOLEAN : SendLight(c, TRUE, ok)
           \/ ~active[c] /\ UNCHANGED <<told, faults>>
    /\ UNCHANGED <<mainRest, main, lastCount, missed, forwarded, inbox, queue, active, lastPress,
                   onLast, released, button, sync, hold, toldFader, unsure, faderLost, torn,
                   gap>>

RelatchDone ==
    /\ MainAt("relatch") /\ \A c \in Channels : relatch[c] # 1
    /\ Goto(IF sync = 1 THEN "sync" ELSE "sleep")
    /\ UNCHANGED <<pollRest, lastCount, missed, forwarded, inbox, torn, gap>>

\* service_led_state_sync: the schedule is cleared, then the lights are read and sent
StartSync ==
    /\ MainAt("sync")
    /\ sync' = 0
    /\ main' = [main EXCEPT !.pc = "snapshot", !.todo = Channels]
    /\ UNCHANGED <<mainRest, lastCount, missed, forwarded, inbox, queue, active, lastPress, onLast,
                   released, button, relatch, hold, shown, torn, gap, faults>>

Snapshot ==
    /\ MainAt("snapshot")
    /\ LET c == FirstOf(main.todo)
       IN  /\ main' = [main EXCEPT !.todo = @ \ {c},
                                   !.pc = IF main.todo = {c} THEN "sleep" ELSE "snapshot"]
           /\ \E ok \in BOOLEAN :
                /\ SendLight(c, active[c], ok)
                /\ unsure' = IF ok /\ Settled(c) THEN unsure \ {c} ELSE unsure \cup {c}
    /\ UNCHANGED <<mainRest, lastCount, missed, forwarded, inbox, queue, lights, toldFader,
                   faderLost, torn, gap>>

Shorter(delay) == IF delay > 1 THEN delay - 1 ELSE delay
Older(age, limit) == IF age = None \/ age > limit THEN age ELSE age + 1

\* the sleep between two polls, the only time that is counted
Sleep ==
    /\ MainAt("sleep")
    /\ Goto("count")
    /\ relatch' = [c \in Channels |-> Shorter(relatch[c])]
    /\ sync' = Shorter(sync)
    /\ hold' = IF hold > 0 THEN hold - 1 ELSE 0
    /\ released' = [c \in Channels |-> Older(released[c], EchoWindow)]
    /\ fader' = IF fader = None THEN None
                ELSE [fader EXCEPT !.age = Least(@ + 1, FaderGap)]
    /\ overlap' = (overlap \/ \E c \in Channels : released[c] = EchoWindow /\ Busy(c))
    /\ UNCHANGED <<driver, log, held, hostOut, hostLed, hostFader, cb, scene, moves, words, lastCount,
                   missed, forwarded, inbox, queue, active, lastPress, onLast, button, shown,
                   torn, gap, faults>>

\* a signal ends the loop
Quit ==
    /\ MainAt("count")
    /\ Goto("done")
    /\ UNCHANGED <<pollRest, lastCount, missed, forwarded, inbox, torn, gap>>

Main ==
    \/ SetUp \/ StartClear \/ ClearLight \/ ClearDone
    \/ ReadFails \/ ReadCount \/ ReadIndex \/ ReadRecent \/ ReadData
    \/ ForwardMessage \/ SkipEmpty \/ ForwardDone \/ DrainOne \/ DrainDone
    \/ Relatch \/ RelatchDone \/ StartSync \/ Snapshot \/ Sleep

Environment ==
    \/ \E c \in Channels : Press(c) \/ Release(c)
    \/ DriverFault \/ HostAnswers \/ HostSpeaks

\* nothing calls the process before its endpoints exist or once they are gone
Next == Main \/ Quit \/ (main.pc \notin {"setup", "done"} /\ (Callback \/ Environment))

Spec == Init /\ [][Next]_vars /\ WF_vars(Main) /\ WF_vars(Callback)

-----------------------------------------------------------------------------
(* Properties *)

\* Once the host is silent and nothing is pending, the driver was last told of every
\* light what the bridge keeps: whichever order the two threads touch the schedule in,
\* and whatever the start-up held back or the busy queue refused.  Left out are lights
\* whose snapshot could not be sent or was overtaken by an older message of the queue,
\* and lights that another button's note has set since their snapshot.
LightsAgree ==
    (/\ MainAt("sleep") /\ sync = 0
     /\ cb.pc = "idle" /\ hostOut = <<>>
     /\ \A c \in Channels : Settled(c))
    => \A c \in Channels \ unsure : told[c] = active[c]

\* The lights the bridge keeps are the host's, although the host answers a release with
\* an off it does not mean, as long as buttons are used one at a time, each answered in
\* time, and the host does not change a light of its own just after its release.
LightsFollowHost ==
    (/\ ~overlap /\ main.pc \notin {"setup", "start", "clear", "done"}
     /\ inbox = <<>> /\ hostOut = <<>> /\ cb.pc = "idle")
    => active = hostLed

\* The fader the driver was last told of stays within a step of the host's: changes too
\* small to forward never add up.
FaderClose ==
    (/\ cb.pc = "idle" /\ hostOut = <<>> /\ ~faderLost /\ hostFader # None
     /\ \A i \in DOMAIN queue : ~IsFader(queue[i]))
    => Apart(toldFader, hostFader) < FaderStep

\* Messages of the console reach the host in order and at most once, and none is missed
\* unless the ring overran or was lost with the driver: as long as the driver publishes
\* nothing between the four reads of a poll.
OnceInOrder ==
    ~torn => \A i \in 1..Len(forwarded) - 1 :
                IF gap THEN forwarded[i] < forwarded[i + 1] ELSE forwarded[i + 1] = forwarded[i] + 1
=============================================================================
