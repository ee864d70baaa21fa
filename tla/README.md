# TLA+ models of the FireWireOHCIProbe driver

Models and proofs for the digi003 driver, a DriverKit system extension that
streams audio to and from a Digidesign 003 over FireWire, and for the process
that connects its control surface to CoreMIDI.  The driver is one file,
`src/Source/FireWireOHCIProbe.cpp`; line numbers below refer to it unless
another file is named.  `PROJECT.json` maps every definition to the lines it
stands for.

## The system

    CoreAudio ──StartDevice / StopDevice / rate change──► control handlers
        │                                                    │ start, stop
        │ BeginRead / WriteEnd callbacks                     ▼
        ▼                                             live stream (flags, buffer)
    PCM input ring ◄──harvest── IR context ◄── 003          │
    PCM output ring ──push────► IT context ──► 003          │ begin / finish
        ▲                          ▲                        ▼
        └──── refresh worker (harvest, push, every 1 ms)   async transactions ◄─► 003
                           └─ one-shot capture ────────────►┘

    power manager ──SetPowerState──► control handlers, restart block
    DriverKit ──Start / Stop──► OHCI controller, buffers, audio device
    003 MIDI slot 0 ──► mapped controls, echo queue ──► IT packets
                              │ decoded ring      ▲ commands
                              ▼                   │
                       digi003-midi-bridge ◄──► CoreMIDI host

| Component | State it keeps | Operations | What makes it correct |
| --- | --- | --- | --- |
| Live stream life cycle | `gDigiLiveRunning`, `Ready`, `Starting`, `Stopping`, `gDigiLiveBuffer`, the context run bits, `gDigiLiveDrainBusy`, `gDigiLiveOutputPushInProgress`, worker counters, restart and power flags | `StartDevice`, `StopDevice`, `HandleChangeSampleRate`, `SetPowerState`, callbacks, worker, restart block | nobody uses a released buffer; one harvest, one push, one worker, one restart at a time; a stopped or sleeping device is quiet; handlers finish |
| Output transmit path | output ring, packet slots, hardware and output cursors | `WriteEnd`, `PushAudioOutputToDigiLiveTransmit`, the looping IT context | what was written is played once, in order; no write near the hardware |
| PCM rings | two cursors and an array each | append (with overrun), pop, reset | cursors stay in order; frames leave in order |
| Receive path (IR harvest) | read index, software and hardware cursor, event gate counters, descriptors | `HarvestDigiLiveIsoStream`, catch-up, event gate | no packet taken twice or left out; the context does not lap the reader; packets are taken without events |
| Packet cadence, DBC, sequence replay | transmit packet headers, captured sizes and phase, replay queue | configure, record, refresh (dry run in this build) | block counters continue round the ring; the cadence is learned from packets that follow each other |
| Asynchronous transactions | three buffers and contexts, labels, begin and finish sequences | quadlet read and write with attempts | what is reported done is done; answers find their memory; calls end |
| Duplex probe | capture buffer and contexts | one-shot capture: begin, record, finish | contexts stop before their buffer goes |
| DMA buffers | mapping handles | create in two attempts, complete, release | partial creation is undone |
| Driver start and stop | PCI session, OHCI registers, self-ID and ROM buffers, destination, audio device | `Start`, `Stop` | memory outlives the link; nothing is left after `Stop`; the device is addressed on an identified bus |
| MIDI and control echo | 4096-word queue, try-lock | observe, feed back, pop | whole messages, in order; overflow drops whole messages |
| Control surface state | fader positions, feedback thresholds, navigation mode | observe, feed back | a fader that is let go stays; one mode lit |
| CoreMIDI bridge (`src/Tools/digi003-midi-bridge.c`) | feedback queue, light and fader state, schedules | poll, `midi_read_proc`, drain, snapshot | host and console agree on lights and faders; console messages once, in order |
| User client, interrupts, diagnostics, DigiDot, tools, loader | | | left out (below) |

Hard behaviours, by kind: the handlers run on dispatch queues while CoreAudio's
real-time callbacks, the refresh worker and a restart block touch the same plain
globals; there are no locks but two busy flags and bounded waits; transactions
with the 003 and allocations may fail half-way through a start, requests and
answers may be lost or late; a start goes on after most failures; the transmit
and receive contexts go round their rings whether anybody refreshes them or not;
cursors are 64-bit counters incremented by two threads; the bridge reads a ring
that is published under it, and its two threads share schedules without a lock.

## Modules

| Module | Models |
| --- | --- |
| `DigiLiveStream` | life cycle of the stream at the grain of accesses to shared flags |
| `MCDigiLiveStream` | its TLC instance (worker symmetry, state properties of the findings) |
| `DigiLiveStream_proofs` | types, drain lock and restart flag; then the stream while its controllers take turns |
| `OutputTransmit` | output ring → push → packet slots → looping context |
| `Playout` | the abstract specification: what the wire promises CoreAudio |
| `MCOutputTransmit` | its TLC instance: packets of two sizes (44.1 kHz) |
| `OutputTransmit_proofs` | the window of the push, and that only withheld frames bring a replay, for all constants |
| `AudioRing` | the PCM rings at the grain of loads and stores |
| `AudioRing_proofs` | types, order of the cursors and of the frames |
| `EchoQueue` | the queue of control words and its try-lock |
| `MessageFifo` | the abstract specification: whole messages, in order |
| `ControlSurface` | extends `EchoQueue`: fragments in, feedback, commands, words out |
| `MCControlSurface` | its TLC instance: what is done at the console |
| `ControlSurface_proofs` | the queue alone and in the surface, its refinement of `MessageFifo`, reassembly, feedback of the faders, motors that hold, lights of the modes |
| `Cadence` | what a harvest learns from packet sizes; headers of the transmit ring |
| `ReceivePath` | extends `Cadence`: the receive context and the harvest |
| `MCReceivePath` | its TLC instance; the block counts of the two rates |
| `ReceivePath_proofs` | order and pace of the harvest, cadence, counters of the transmit ring |
| `DMABuffer` | the life of a DMA buffer as operators on its handles |
| `AsyncSession` | uses `DMABuffer`: begin, finish and capture, attempt by attempt |
| `MCAsyncSession`, `AsyncSession_proofs` | its TLC instance; the memory of its contexts, and what a call reports |
| `DriverLife` | uses `DMABuffer`: the driver from `Start` to `Stop`, and again |
| `DriverLife_proofs` | memory in place, identified bus, for all constants |
| `MidiBridge`, `MCMidiBridge` | the bridge's two threads, driver and host around it; scenes for TLC |
| `MidiBridge_proofs` | fader, lights told to the driver, order of the messages, the host's lights |

### DigiLiveStream

Threads are the control queue (CoreAudio's and the power manager's handlers),
the restart block, refresh workers, and the I/O callback.  Each thread has a
list of calls still to make, with the step inside the current call at its head.
A handler pushes the calls its code makes (`StartDeviceCalls`, `StopDeviceCalls`,
`PowerOffCalls`, `PowerOnCalls`, `ChangeLiveRateCalls`, `ChangeIdleRateCalls`,
`RestartedCalls`), and every function has one action per access to a shared flag:

* stop (11362): `StopDigiLiveStreamForAudio` tests the flags, `MarkStopping`
  clears running/ready, `StopContexts`, `AwaitDrain` (bounded wait),
  `ReleaseLiveBuffer`, `StopDone`;
* start (10857): tests, `MarkStarting`, begin transactions, buffer, descriptors,
  `RunContexts`, `StartDone`; or `StartFailed` and `UndoStart`;
* harvest (10936): the running test, `TakeDrainLock`, `SyncForCPU`,
  `ProcessDescriptors`, which releases the flag; `HarvestAgain` and
  `HarvestEnough` are the loops around it;
* push (8732): the running test, `TakePushGuard`, `SkipPush` or `PlanPackets`
  and `WritePackets`;
* worker (12458): `StartAudioRefreshWorker`, `DispatchWorker`, `WorkerLoop`,
  `WorkerPush`, `WorkerExit`; `StopAudioRefreshWorker` and `AwaitWorkerExit`;
* one-shot capture (12374, 10022) and restart (12553).

The buffer is a generation number: a thread that read it before a release
holds a number that is no longer mapped (`Invalidated`).  Audio data, descriptors
and diagnostics are left out; the harvest's own decisions are nondeterministic.

`power` is "on", "off", or "revived": off, but `StartDevice` was called since.  No handler of
CoreAudio looks at the power or at what was started before (14305, 14373, 14440), so any of
them may come at any time; `MaxOps` bounds the handlers of each queue.

Switches say what the environment may do: `HALQuiesces` (CoreAudio makes no I/O
callbacks during its handlers), `HandlersOverlap` (power and audio handlers on
two queues), `StartMayFail`, `WaitsExpire` (the bounded waits run out).

### OutputTransmit and Playout

`Transmit` is the OHCI context sending slot `hw`; it never stops.
`AppendAudioOutputBufferToRing` is WriteEnd.  A push is `BeginPush` (fill count,
prebuffer decision, window computed from one read of the command pointer), one
`WritePacket` per packet and `EndPush` (sync and cursor); or `BeginPushBlind`, the return
when the command pointer is not in the ring (8785–8789), with the prebuffer decision made and
no cursor moved.  The code's two 64-bit cursors are represented by the hardware slot `current`
with its `laps`, and by the distance `ahead` of the output cursor.  After an unreadable
pointer the hardware cursor begins at its slot again, without its laps, and the output cursor
keeps those it has made (8315–8323), so that the distance is whole laps too large (`OutputDistance`).  `clock` counts packets sent since the push
began; `Service`, `PushTime`, `Period`, `Jitter` bound how late worker, push and
writer come, `WorkerTimely` and `WriterTimely` switch the bounds off.  A slot
keeps its payload until it is rewritten: this is what can be replayed.  Two histories say
when: `sent` has the slots whose audio was sent since it was written, `withheld` is set while
a push has left slots alone although there were frames, and no later one has made up for it.

`Playout` has no ring, no slots and no push: CoreAudio writes frames, the wire
carries a packet of the next frames, or silence.  The refinement maps `wire` to
the slot sent last.

### AudioRing

`x++` of a global is a load and a store.  A producer that finds the ring full
moves the consumer's cursor; a controller clears both.  The history variables
`appended`, `popped`, `dropped`, `overrun` number the frames.

### EchoQueue, ControlSurface and MessageFifo

`EchoQueue` has one action per step of `AppendDigiLiveMidiEchoWordsBE` and
`PopDigiLiveMidiEchoWordBE`: taking the flag or giving up, refusing a message that does
not fit, storing a word, letting go.  The drain flag and the push guard of
`DigiLiveStream` admit one harvest and one push at a time, but these run on
different threads, and clients on a third: `Harvest`, `Push`, `Clients`.

`ControlSurface` keeps messages as bytes.  The console's messages travel as fragments
of one or two bytes, which may be lost; `Assemble` puts them together for each port.
`ObserveControls` is the state change of a decoded message; what it queues
(`MappedAppends`, then `FeedbackAppends`) becomes the harvest's list `todo`, and
`Queued` and `NotQueued` are what the code does with the outcome of each append.  The
lights and motors of the console are external and only record what they are told.
Pressed states that no decision reads are left out.

The queue is modelled from the end of a start's ring fill to the reset of the next start.
`ConfigureDigiLiveTransmitDescriptors` pops words into the ring it fills, on the control
thread (10633–10634), and `StartDigiLiveIsoStream` clears the indices without taking the flag
(5892–5895); neither is here, and what that can do is listed among the hazards.

`MessageFifo` has no flag, slots or bound.  The refinement hides the words of an
append under way: they count when the flag is let go.

### ReceivePath and Cadence

`Receive` is the OHCI context: it fills the next descriptor, emptied or not.  A
harvest is `Poll` (the event gate, 10949–11000), `ReadCommandPtr`, and for each
descriptor `ReadByteCount` and then `TakePacket`, `CatchUp` or `StopLooking`, until
`EndHarvest`.  The size is read before the status (11063, 11070), with the context
in between: a packet that arrives there is taken with size 0.  A packet is known by
its age, so the model's states repeat; of the two 64-bit cursors only the difference
is kept, and the rounds of a software cursor whose hardware cursor was never valid.
The history `due` says which packet follows the last one taken.

`RecordPacket` and `Refresh` (from `Cadence`) are what the harvest does with the sizes:
it captures `Period` sizes without a gap, picks the phase with the fewest mismatches
(`BestPhase`), and keeps a replay queue.  `kDigiLiveSequenceReplayMovingDryRunEnabled`
makes the refresh a dry run, so the queue and the phase are all it leaves.
`BlocksSent` is the running `dataBlockCounter` of `ConfigureDigiLiveTransmitDescriptors`,
`DataBlockCounter` the header it writes from it.

### DMABuffer and AsyncSession

`DMABuffer` has no variables: `CreateDMABuffer` returns the buffers that the function
may leave, for the answers the system may give (`Outcome`).

`AsyncSession` is one call after another on the driver's thread.  A call has a list of
steps (`Operation`: rate, channels, streaming state up or down), each a transaction of
a few attempts; `Send` stops, re-arms and starts the contexts, `Poll` and `GiveUp` end
the wait, `Judge` is what the code does with the answer.  Labels, the wish to repeat,
the step left out (`Skipped`) and the steps whose failure does not count (`Counts`) are
the code's.  `Prepare` releases what a capture left before any context is stopped
(10227–10229), so contexts may run on memory that is "left" to them without a mapping and then
on memory that is "released" (`Unmapped`, `Abandoned`).  `Transmit`, `Execute` and `Arrive` are controller, bus and device:
requests, acknowledgements and answers are lost, refused or late, in any order.
`IsoProbe` is the capture's recording between its begin and its finish.

### DriverLife

`pc` goes through `Start` (12795) one failure point at a time: open, BAR, soft reset,
buffers, link, short resets with their retries, a long reset, self-ID, destination,
audio device.  What the code publishes and ignores is ignored here: a soft reset or a PHY
access that fails does not end the start.  `Identify`, `ResetByOthers` and `Unplug` come
at any time; an adapter that is gone reads as ones.  A `RegisterService` that fails makes
`Start` return an error with session, link, buffers and audio device in place (14296–14301):
the model stays "refused".  `Stop` (14551) is four steps; it disables the link only if
`GetBARInfo` answers (14563) and closes the session either way (`pci.unreached`).  The
stream is three steps (`RunDigiLiveBeginTransactions`, `StartDigiLiveIsoStream`,
`StopDevice`), so that a restart block may have passed its tests when `Stop` comes, and
end after it, or in the next `Start`.

### MidiBridge

The main thread's loop has one action per access that another thread or the driver may
come between: `ReadCount`, `ReadIndex`, `ReadRecent`, `ReadData`, one `ForwardMessage` or
`SkipEmpty` per slot read, one `DrainOne` per queued message, `Relatch`, `StartSync` and `Snapshot` per light,
`Sleep`.  CoreMIDI's thread is `Receive`, `NoteOn`, `SuppressEcho`, `NoteOff`,
`ScheduleSync`, `Enqueue`.  A host note whose button is not on a strip but whose number is a
strip's (`Other`) is queued like any message and drained as that strip's light
(`Lights`, 545–565).  Which texts of the displays are held back (220–358) is left open, since
nothing else depends on it.  Times are ages and remaining polls.  The driver publishes
messages while a poll reads (`tears`), fails, or restarts; the host answers buttons or
speaks unasked.  `told` records what the driver was last told of each light.

## Runs

| Run | Shows | Bounds |
| --- | --- | --- |
| `stream_callbacks` | start, stop, rate change with worker and callbacks: `NoStaleUse`, `OnePusher`, `OneWorker`; every handler finishes without its wait bounds (`HandlersFinish`) | two workers, 6 handlers, 3 callbacks |
| `stream_failures` | failing transactions, allocations and super calls, power off: `RunningHasContexts`, `ContextsOnBuffer`, `OneTransaction`, `StoppedIsQuiet`, `OffIsQuiet` | 6 handlers of CoreAudio in any order, 2 power offs, 2 harvest attempts, 2 silence pushes |
| `stream_restarts` | restarts by callback and wake-up, callbacks in the middle of handlers: `TypeOK`, `DrainLock`, `OneRestart`, `RestartFinishes` | 1 handler of CoreAudio, 2 of the power manager, 1 callback |
| `harvest_after_stop` | counterexample (Findings) | 1 handler of each queue, 1 callback |
| `output_steady` | exact-rate writer with jitter, two packet sizes, readable pointer: refinement of `Playout`, `WindowRespected` | ring of 10 slots, lead 2, service 2, prebuffer 9 frames |
| `output_pause` | writer stops and resumes, in the middle of a packet too, pointer may be unreadable: `AudioDrains`, `ReplayIsWithheld` | ring of 4 slots, lead 1, service 2, packets of 1 and 2 frames, writes of 3, 1 lap told apart |
| `ring_in_turn` | overruns, resets between frames: `ReadBehindWrite`, `InOrder`, `FramesArrive` | 3 slots, 7 frames, 2 resets |
| `control_echo` | harvest, push and a client on one queue, lost fragments: refinement of `MessageFifo`, `QueueOrdered`, `NoMixture`; and what feedback achieves: `FeedbackIsFresh`, `ReleaseHolds`, `OneModeLit` | queue of 5 words, 3 messages out of one of three scenes, 1 command of 3 words, 1 lost fragment |
| `receive_path` | `InSequence`, `NothingOverwritten`, `CadenceGenuine`, `Taken`, `TransmitDBC` | 4 descriptors, 3 per harvest; scenes with a gap, with empty packets and an unreadable pointer, with a stall of 2 packets; transmit ring of 22 packets |
| `async_session` | begin, finish, capture and rate changes: `ReportedDone`, `OnBuffers`, `CallsEnd` | two attempts per step, answers late by one attempt, two outcomes of a buffer |
| `driver_life` | two starts and stops, refused ones among them: `InPlace`, `Identified` | the 4 attempts of the code, 2 faults, 2 resets by others |
| `bridge_feedback` | the bridge between driver and host: `LightsAgree`, `LightsFollowHost`, `FaderClose`, `OnceInOrder` | two channels, ring and queue of 2, delays of 1 poll, five scenes |

Deadlock is not checked in the two runs whose system may stop: the driver may stay
started, refused or off once its starts are used up (`driver_life`), and a signal ends the
bridge (`bridge_feedback`).

Why the bounds are enough.  Two workers are the number needed for a worker that
outlives its stop to meet its successor; six handlers allow two whole
start/stop/rate rounds, and every flag of the stream is back to a state seen
before after one; three callbacks can be in different places of harvest and push
only one after the other, as CoreAudio serialises them.  The transmit ring needs
twice the lead plus a service window to have all three regions, and the frames
are numbered modulo more than the packets ahead of the context and the output ring hold
together, so a replayed packet cannot be taken for a new one.  In `output_pause` the ring is the smallest that has two
leads and a service window; writes of 3 frames meet packets of 1 and 2 and a writer that
stops anywhere, so that a tail is left before a packet too large for it; replays are told by
`sent` there and not by the numbers of the frames.  The PCM ring is filled twice over.  The
width of the cursors (2^64) is `Modulus`, larger than any count in a run, since
what matters is the unsigned difference of cursors that crossed.

In `control_echo` five words are one less than the three lights of a mode button, so
that a message is refused in the middle of a group, and an odd message shifts the
indices.  Three moves show both thresholds of the feedback (`Stride` is 2 there, 4 in
the code); the scenes are fader moves and release, motor test, and mode buttons with
a MIDI socket.

The receive ring goes round without bound, since packets are known by age; a harvest
of 3 descriptors does not reach round it, as the code's 512 do not, so that a
harvest ends at its limit, at an empty descriptor and after a jump.  Two attempts are the
number at which an answer to the first can meet the second; the labels and their stride
are the code's (64, 6).  In `driver_life` a second start meets everything the first one
can leave, and two faults suffice for a retry that fails again.  In the bridge a
ring and a queue of two overrun after three messages, and the delays are one poll
because only their order matters.

### What the strong properties depend on

Varying a switch or a bound shows which assumption each property needs.  These are
limits of the code, found as counterexamples and then ruled out in the runs:

* Stream.  When the 1000 × 10 ms wait for the worker or the 1000 × 10 µs wait for the
  drain flag runs out (`WaitsExpire`), `OneWorker`, `OnePusher` and `NoStaleUse` fail: the
  waits are the only thing that keeps them.  If a restart block runs while a handler does,
  most of them fail as well: start and stop test their flags in separate steps and
  exclude nobody; `stream_restarts` checks what still holds there.  So neither expired
  waits nor overlapping starts are caught by any property.  `OffIsQuiet` is
  about what a power off ends, and ends itself with the next `StartDevice`, which does not
  look at the power; it says nothing of restart blocks: callbacks that come after the power
  went off start the stream again, although that is meant as a hard stop (NOTES.md 2239).
* Output.  The write window needs only that a push lasts less than the lead (256
  packets, 32 ms).  A tail shorter than the next packet keeps the push from writing anything,
  silence included, and the last lap's audio is sent again (below): with the
  5 and 6 frame packets of 44.1 kHz when CoreAudio stops in the middle of a packet, at 48 kHz
  with writes that are not multiples of 6.  What remains true is that nothing but withheld
  frames does it, as long as the worker keeps up and a write has at least what is sent between
  two pushes (`ReplayIsWithheld`).  An unreadable pointer counts as withholding; after it the
  distance of the cursors may be laps too large, and no push writes until the hardware has made
  them up, or audio starts anew.  `output_steady` assumes that the pointer can be read,
  `AudioDrains` that it can from some time on.  Exact playback needs the prebuffer (1024 frames) to exceed the frames in the service window (128 packets, 768
  frames at 48 kHz) plus a period and its jitter.  With less, the output ring drains to 0
  while audio still waits in slots, and the next fill moves the cursor back over it.
* PCM ring.  A power-off that clears the rings while a callback is between the load and
  the store of its `++` (`ClearsMeetIO`) leaves the read cursor ahead of the write
  cursor; the unsigned fill count reads full until the next reset.
* Receive.  `NothingOverwritten` is about a worker that keeps its pace.  After a stall
  of more than a lap the distance of the cursors, taken modulo the ring, reads small or
  0, harvests stop at an empty descriptor, and what was overwritten is gone unnoticed
  (NOTES.md 343).
* Transactions.  With answers late by two attempts (`Late = 2`) `ReportedDone` fails: the
  label of the last step of a begin comes round again in a finish.  A capture leaves its
  contexts running (12438–12440), and until the first attempt of the next call stops them
  (9815) they run on what was unmapped, and from that call's `Prepare` on, on what was released: an
  answer of that time is written to memory that is gone.  `OnBuffers` says that there is no
  other such window.
* Start and Stop.  If the soft reset may fail and a restart may run during `Stop`,
  `InPlace` fails: the run bit is left on, the next soft reset does not clear it, and
  the link is enabled over released memory.  Each alone is harmless.  A `Stop` whose
  `GetBARInfo` fails leaves the link enabled and releases the memory of self-ID and ROM all the
  same; `InPlace` excepts it (`pci.unreached`) until the next soft reset.  A start refused by
  `RegisterService` holds everything it has; `InPlace` promises of it that the memory is
  there, and of one that was not that nothing is held.
* Control surface.  With two lost fragments in a row `NoMixture` fails: the code
  keeps a half message until a status byte comes.  `FeedbackIsFresh`, `ReleaseHolds` and
  `OneModeLit` say nothing once an append was refused: the code does not try again, so a
  fader may spring back (NOTES.md 2202) and two modes may be lit until the next press.  Words
  queued while a stream starts may be dropped by the reset or popped into blocks of the first
  fill, and a block that the looping ring replays carries its control word again: each word
  written into a packet counts as sent once here.
* Bridge.  `LightsAgree` leaves out a light whose snapshot could not be sent
  (it is not tried again), and one that another button's note has set since its snapshot
  (below).  `FaderClose` says nothing once the last position was refused after
  the bridge remembered it (389, 702–711).  `LightsFollowHost` leaves out what the host itself turns
  off within the window of an echo, needs buttons used one at a time and
  answered in time; `OnceInOrder` fails when the driver publishes between the reads
  of one poll, as the bridge reads count, index and entries separately.

### Fairness

`FairSpec` of `DigiLiveStream` gives weak fairness to every thread's next step:
they are threads that run until they return, and none holds another up except
through the waits that are modelled.  Beginning a handler or a callback is not fair:
nobody has to call the driver.  The waits have no bound in these runs, so
`HandlersFinish` says the bounds are not what ends them.  In `OutputTransmit` the
context is fair (the controller runs by itself) and so is the push (the worker
calls it every millisecond); WriteEnd is not.  In `AudioRing`, appends and pops
keep coming, and a reset that began ends.  In `ReceivePath` only the harvest is fair (the
worker loops); the context need not go on, and `Taken` holds all the same.  In
`AsyncSession` only the driver's own steps are: device, bus and controller may be
silent for ever, since every wait has a bound, and nobody need call.  The bridge's two threads
are fair.  `DriverLife` has no liveness property.

## Findings

* `harvest_after_stop`: a harvest tests `gDigiLiveRunning` (10938) before it takes
  the drain flag (10945) and not again.  A stop in between waits for a flag nobody
  holds and releases the buffer.

Disagreements with the notes that were seen while modelling, beside the limits above, and have
no run of their own:

* NOTES.md 1570–1573: "the driver continuously refreshes future FireWire transmit payload slots
  with either CoreAudio PCM or explicit silence.  This prevents old static payload slots from
  being replayed".  A push of audio breaks off at a packet larger than the frames left (8861)
  and leaves it and all after it as they were.  TLC finds the replay in `OutputTransmit` with no
  fault at all, if `withheld` is left out of `ReplayIsWithheld`.
* NOTES.md 2241–2243: "On wake, if CoreAudio still has the device started, the driver requests
  the same asynchronous restart".  The power on tests only the flag that the power off set
  (12692); a `StopDevice` in between does not clear it, and the stream of a stopped device is
  restarted.
* CONTROL_SURFACE.md 41–45 and 95 tell SELECT of a strip from PAN, EQ and the like by the low
  bits of the data.  The driver is sent strip `data2 & 7` for all of them
  (digi003-midi-bridge.c 564), and since the note is not tracked (403–405), no snapshot puts it
  right: hence the exception in `LightsAgree`.
* CONTROL_SURFACE.md 174 and NOTES.md 2304 say the 0D and 0E blocks are not echoed by the
  driver; the code (2918–2943) keeps only 0C, 0F and DISPLAY MODE silent, and echoes the
  notes of 0E and, but for the mode buttons, of 0D.  The model follows the code
  (`IsKeptSilent`).

## Proofs

TLAPS proves what follows for all values of the constants that satisfy the `ASSUME` of the
module; what a theorem assumes beside that is named here and in its `ASSUME`.  Each
invariant is inductive, and was checked on the run's instance before it was proved.

### The stream (`DigiLiveStream_proofs`)

`TypeCorrect`, `DrainLockHolds`, `OneRestartHolds` hold for every setting of the switches:
waits that expire, overlapping handlers, callbacks in the middle of handlers.  Type
correctness is not inductive by itself: a thread's list of calls must be well formed.
`DrainLock` is strengthened by the equivalence between the flag and a thread being inside the
harvest loop; `OneRestart` by counting the block.

The eight other invariants need what the code relies on: CoreAudio makes no callback during a
handler and handlers do not overlap (`Quiesces`), and the bounded waits end because what they
wait for happened (`~WaitsExpire`).  Under these, `NoStaleUseHolds`, `OnePusherHolds`,
`OneWorkerHolds`, `OneTransactionHolds`, `RunningHasContextsHolds`, `ContextsOnBufferHolds`,
`StoppedIsQuietHolds` and `OffIsQuietHolds` say

    Spec /\ [](~restarting) => []X

for any workers, callbacks, failures and rate changes: X holds in a behaviour in which no
restart block is dispatched.  The antecedent is the limit described under Runs: a
restart block tests flags that a handler is changing.  Two theorems say when it is
true by itself: `NoCallbackNoRestart` (a machine without I/O callbacks whose power does not
come back, whatever fails and whichever starts, stops and rate changes follow) and `NoFailureNoRestart` (a device that answers, allocations that
succeed, power that stays on, any number of callbacks: the stream is up whenever a callback
looks, which takes the invariant `UInv` about where each handler leaves it).  From these,
`SafeWithoutCallbacks` and `SafeWithoutFailures` state the eight properties of `Spec` alone.

The invariant (`SInv`) has a part per question: where each thread may be, given that the
others wait for it or it for them (`Placed`, `Alone`, `PowerKnown`); the counters of
dispatched and exited workers (`WorkersCounted`, `WorkersStopped`); who holds the push guard
(`PushLocked`) and the drain flag; which threads hold an address in the live buffer (`Held`);
what the flags mean at every point of a start or stop (`FlagsMean`, `StreamGone`,
`StreamKnown`).

### The transmit ring and the PCM rings

* `OutputTransmit_proofs`: `WindowHolds`, for every ring and window size, a worker
  that comes arbitrarily late, any writer, and failing syncs; assumption: a push
  ends before a lead's worth of packets is sent (`PushTime <= Lead`).  The property
  speaks of slots modulo the ring.  The invariant (`InWindow`) says that since the
  push read the cursor the context has moved by `clock` packets, and that offset
  plus packets left stay below the safe end; lemmas about remainders turn distances
  of slots into differences of offsets (`SlotDistance`).  Unreadable pointers are included.
  `ReplayIsWithheldHolds`: under `KeepsUp` (below) the looping ring sends audio again only
  after a push withheld frames, whatever the writer does and whichever syncs and pointer reads
  fail.
* `AudioRing_proofs`: `RingTypeCorrect`, for any interleaving; and `ReadStaysBehind` and
  `InOrderHolds` when no reset comes in the middle of a frame (`~ClearsMeetIO`).
  `ReadBehindWrite` speaks of quiet moments; the invariant must say what each thread has
  loaded and how far it may still move the cursor (`ProducerBehind`, `ConsumerBehind`,
  `ResetAlone`).  `InOrder` needs what is in the slots: as long as the producer never found
  the ring full, the slots between the cursors hold the frames not yet popped, in order
  (`TurnInv`), which a reset between frames keeps by emptying the ring.

`ReplayIsWithheldHolds` is about a ring that loops for ever over slots nobody clears, so its
invariant must say what lies ahead of the hardware.  It has two halves.

* The pace (`PaceInv`).  A push leaves the cursor at the end of its window, or short of it by no
  more than was sent since the push before if it emptied the ring (`Resting`, and
  `Filling` while it writes).  So unless frames were withheld the context does not reach the end
  of what the pushes have written.
* What was sent (`Fresh`).  Unless frames were withheld, no slot from the hardware to that
  end was sent since it was written.

`KeepsUp(m)`, where `m` is the largest number of frames of a packet, names what this takes:

* the worker comes in time, and the windows fit: two worker periods in the service window, one in
  the window of silence, the service window in one push, and it with both leads in the ring;
* the prebuffer and every write of CoreAudio have at least the frames that are sent between two
  pushes: if a push empties the ring, the next finds enough or nothing.

The code's numbers satisfy it for a worker period of up to 64 packets (8 ms) if CoreAudio writes
at least 384 frames at a time (48 for the worker's millisecond): 20480 packets, leads
of 256, service 128, silence 256, 512 packets per push, a prebuffer of 1024 frames, and packets of
at most 6.  Sizes of packets and writes need not match.  The constants of `output_pause`
satisfy it.

### The receive path (`ReceivePath_proofs`)

* `InSequenceHolds`, for every ring and harvest, every pace, stall and unreadable pointer,
  until the context overwrote a packet: the filled descriptors are the packets due, begin at
  `gDigiLiveIRReadIndex`, and the pointer never shows more of them than there are
  (`InTurn`).  It follows that an empty descriptor at the index means that nothing is due, so
  the jump is never taken before an overrun: `CatchUpOnlyBehind`.
* `NothingOverwrittenHolds`: if the worker polls at a pace that gate and limit sustain
  (`Sustainable`: what comes in `MissBypass` polls fits into one harvest, and into the ring with
  one more poll).  With 4 misses, 512 descriptors a harvest and a ring of 2048 that is a
  poll every 128 packets, 16 ms; the worker polls every millisecond.  `Behind` bounds what is due by the
  polls put off.
* `CadenceGenuineHolds`, with nothing assumed: the capture is never longer than the packets
  that followed each other (`CInv`).
* `TransmitDBCHolds`, for every cadence of 5 and 6 blocks and every ring that is a multiple of
  `Period * Counts` packets (20480 = 80 * 256): counters shift by the blocks of a period
  from period to period (`PeriodLater`), so `Counts` periods add a multiple of `Counts`
  (`RingCloses`).  `BlocksSent` is a recursive function; that there is a function of its
  equation is proved with it (`BlocksSentIs`), from the least number of a set.

### Transactions (`AsyncSession_proofs`) and the driver's life (`DriverLife_proofs`)

* `OnBuffersHolds`, for any rates, attempts, labels and delays: contexts run on prepared
  buffers, but from the end of a capture to the first attempt of the next call.  The
  invariant says on what the contexts run at every point of a call (`Armed`), and that
  the capture's contexts run only while its buffer is mapped (`Mapped`).
* `ReportedDoneHolds`: with the driver's labels (`DriversNumbers`), 2 to 6 attempts per step of
  a live call and 1 to 6 of a capture, answers late by one attempt.  The two bounds are
  needed: with one attempt in a live call, or answers late by two, the last step of a begin
  shares its label with a step of the finish.  The invariant (`SessionInv`) connects the call
  with the device: which attempts the requests and answers under way belong to, that labels
  tell them apart (`Past`, `Only`), that a request executed late only reads or does what the
  step under way is to do, and what the steps done so far have written (`Progress`).
* `IdentifiedHolds`, for any number of starts, attempts, faults and
  resets by others: a sign of identification is in the registers only while the bus is
  identified (`SignsTrue`), and no destination is known before one was seen (`Told`).
* `InPlaceHolds`, under the assumption that soft resets succeed (`"reset" \notin MayFail`),
  with restarts during `Stop`, refused starts, and a link that `Stop` may not reach, which
  `InPlace` excepts.  `InPlace` speaks of the enabled link; the invariant says
  where the link is certainly off (`LinkOff`), where its buffers must exist already
  (`LinkOn`), that a restart under way found no stream buffer (`Streaming`), and what
  `Start` may rely on (`Clean`).

Both modules begin with the lemmas about creating and releasing a buffer that they use.

### The control surface (`ControlSurface_proofs`)

* `QueueHolds`, about `QueueSpec`, the queue used by threads that append anything at any time,
  for every size, number of clients and messages: one thread at a time works on it, the flag
  is never left taken, indices and count agree, an append that began has room to finish.
  `QueueOrderedHolds` carries this over to the surface: what it appends are messages, and an
  append holds the words of the first message of its thread's list (`Appending`).
* `WholeMessagesHold`: the surface implements `MessageFifo`, step by step: an append that
  lets the flag go maps to its message being put, a pop to a word sent, an empty or refused
  pop to no data, everything else to a stutter.  The mapping leaves out the words of an
  append under way.
* `NoMixtureHolds`, for any ports and messages with at most one fragment lost
  (`MaxLost <= 1`; false with two): what the assembly holds is a prefix of what the
  console has sent of the message (`Wire`).
* `FeedbackIsFreshHolds`, for any moves, buttons, commands and losses, any `MinDelta` and
  `Stride`: a position to be fed back is at the head of the harvest's list and is that of the
  last move, or none is due (`FreshOrDue`).
* `ReleaseHoldsHolds` and `OneModeLitHolds` relate the console to everything queued before.
  The invariants do not compute what the console will show, but look at the line of bytes on
  their way to it (`Line`: what it has read of a message, and the words that count): every
  message of interest that begins in it is there to its end (`Framed`), and the last one that
  concerns a motor or a light says the right thing, or there is none and the console is right
  already (`LastTold`).  An append adds to the end of the line (`EndedTells`), a pop takes
  from its head (`PoppedTells`).  For a fader that was let go: its position is next in the
  harvest's list, or is the last told (`HoldInv`).  For the lights: they are those of
  `ledNote`, or the harvest is appending those of a mode that becomes `ledNote` with the last
  one (`ModeInv`).

Assumptions: `Strips = 0..7`, which is `kDigiLiveControlChannelStripCount`, since a message
names its strip in three bits; and, for the queue, `Outgoing \subseteq Message`: what the
surface and its clients may send is a message of the queue's.  `ReleaseHoldsHolds` and
`OneModeLitHolds` also assume of the clients what they need and no code enforces: a command is
a whole message or has no status byte of a fader (of a note: `Apart`), since the console would
take the end of one for the beginning of the next, and, for `OneModeLit`, is no light of a
mode (`LightsApart`).  A command that moves a fader is allowed: it ends the promise about that
fader.

### The bridge (`MidiBridge_proofs`)

For any channels, ring, queue, delays and scenes, refused and failed sends, and restarts of
the driver; the last result alone makes assumptions of the constants:

* `FaderCloseHolds`: the last message of the fader that is queued, or else the position last
  sent, has the value the bridge remembers (`Carries`), which is within a step of the host's
  (`FaderInv`).
* `LightsAgreeHolds`: for every light not left open by a snapshot, nor set since by another
  button's note, the driver was told what
  the bridge keeps, or a snapshot is coming, or CoreMIDI's thread is about to ask for one
  (`Agrees`); and what is queued for it ends in the right state, or a snapshot is coming
  (`LightInv`).
* `OnceInOrderHolds`: as long as nothing was published between a poll's reads, what is read is
  the ring as it was at the first read (`Reading`, `Window`), newer than everything forwarded
  (`Fresh`), and follows it directly unless the ring overran (`Whole`).
* `LightsFollowHostHolds`: `LightsFollowHost`, as long as no message of the console was lost or
  torn (`~gap`, `~torn`).  Console and host take turns, at most one press being on its way
  (`Turn`); what the host has not answered is about the button pressed last (`Answering`); and
  a light has at most one note pending, in the callback or before it (`OneNote`).  Then, light
  by light, the note pending brings the light the bridge keeps to the host's, and without one
  they are the same; an off is suppressed as an echo exactly if the host's light stays on
  (`Follows`, `Heard`).  `FollowInv` is all of these together.  What a lost or torn message of
  the console does to the lights is not proved.
* `LightsFollowHostAlways`: `LightsFollowHost` as it stands, where every scene has a driver that
  neither fails nor publishes during a poll (`Sound`; a ring of two slots then loses nothing
  while users take turns, `NothingOverruns`), nobody at the console (`Unattended`), or a host
  without lights (`Lightless`).  All scenes of the run are of these kinds.

The host is outside the repository; one that turns the other lights off is modelled with at
most one of those on when a press arrives, which is what such a host keeps itself.

### Only model-checked

* Liveness (`HandlersFinish`, `RestartFinishes`, `AudioDrains`, `FramesArrive`, `Taken`, `CallsEnd`)
  needs fairness, which is out of the prover's reach.
* The refinement of `Playout` (`PlaysWhatWasWritten`): that nothing at all is lost, with packets
  of two sizes and a writer in time, needs frame counts of every stretch of the ring, which are
  sums over slots: induction over data.

## Not modelled

* Of `Start`: the register contents no later step reads (1394a setup, filters, the words of
  the configuration ROM) and the publication of results (13241–14290).  Of
  `ConfigureAudioDevice`: the properties of the DriverKit objects.
* `RunAsyncConfigROMRead` (11427–12371) and the isochronous probe of the start: compiled in and
  never called, since `kFastKnownDigi003InitEnabled` is 1.
* `Stop` at the grain of `DigiLiveStream`, with its accesses to shared flags one by one
  against a start under way; `DriverLife` has it with the stream in three steps.
* Diagnostics (1875–2265, 3847–5200): publication of counters; nothing reads them
  back.
* Interrupt dispatch (3765–3845, 14479–14548): compiled in, disabled by a constant.
* DigiDot (3322–3380): a stateful permutation of sample bytes; no property depends
  on sample values.
* User client: the checking of its arguments; its commands are appends to the echo queue.
* The loader application, the other tools and the scripts: pure I/O.
* Reset of the cursors on a stopped stream is left out of `OutputTransmit`; there
  is one stream.

## Plan

What is left is proof, in this order:

1. the refinement of `Playout` step by step, for packets of one size first, where a stretch of
   the ring has a number of frames that is a product and not a sum;
2. the stream with a restart block: which of the eight properties survive when the block
   runs between handlers only.
