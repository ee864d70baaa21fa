--------------------------- MODULE DigiLiveStream ---------------------------
(***************************************************************************)
(* The life of the live FireWire stream of src/Source/FireWireOHCIProbe.cpp:*)
(* who may start it, stop it, drain it and write into it, and when its DMA  *)
(* buffer is mapped.                                                        *)
(*                                                                          *)
(* Threads.  "audio" runs StartDevice, StopDevice and HandleChangeSampleRate*)
(* (the work queue of the audio driver), "power" runs SetPowerState, "io"   *)
(* runs the CoreAudio callbacks of ioOperation, "restart" is the block that *)
(* RequestAudioRuntimeRestart dispatches and every member of Workers one    *)
(* block that StartAudioRefreshWorker dispatches.  gAudioRefreshQueue is    *)
(* created with kIODispatchQueueReentrant, so its blocks may overlap; a     *)
(* schedule that runs them one after the other is one of the interleavings. *)
(*                                                                          *)
(* pc[t] is the call thread t executes next, op[t] the handler it runs.  A  *)
(* handler is the table (StartDeviceCalls, ...) saying what it calls next.  *)
(* A step is one test or one update of the shared flags, or a test-and-set; *)
(* flags stored one right after the other are stored in one step.  What     *)
(* happens to the frames inside a step is modelled by other modules.        *)
(***************************************************************************)
EXTENDS Naturals, FiniteSets

CONSTANTS
    Workers,          \* identities of the worker blocks on the refresh queue
    AudioOps,         \* handlers "audio" may be asked to run
    PowerOps,         \* handlers "power" may be asked to run
    MaxOps,           \* bounds: handlers run on "audio" and on "power"
    MaxCallbacks,     \* bound: callbacks run on "io"
    HarvestAttempts,  \* bound of a harvest loop (2000 and 4 in the code)
    SilencePushes,    \* kDigiLiveOutputStopSilencePushCount
    StartMayFail,     \* device transactions, allocations, super calls fail
    WaitsExpire,      \* the two bounded waits may run out of iterations
    HALQuiesces,      \* CoreAudio runs no callback during a handler
    HandlersOverlap   \* "audio" and "power" are two queues, not one

Controllers == {"audio", "power"}
Threads == Controllers \cup {"io", "restart"} \cup Workers

ASSUME WorkersAssumption ==
    /\ IsFiniteSet(Workers)
    /\ Workers \cap {"audio", "power", "io", "restart", "ohci"} = {}
ASSUME BoundsAssumption ==
    /\ MaxOps \in [Controllers -> Nat]
    /\ {MaxCallbacks, HarvestAttempts, SilencePushes} \subseteq Nat
ASSUME SwitchesAssumption ==
    {StartMayFail, WaitsExpire, HALQuiesces, HandlersOverlap} \subseteq BOOLEAN
ASSUME OpsAssumption ==
    /\ AudioOps \subseteq {"StartDevice", "StopDevice", "ChangeSampleRate"}
    /\ PowerOps \subseteq {"PowerOff", "PowerOn"}

VARIABLES
    running, ready,       \* gDigiLiveRunning, gDigiLiveReady
    starting, stopping,   \* gDigiLiveStarting, gDigiLiveStopping
    buffer,               \* gDigiLiveBuffer: "none" or "mapped"
    hold,                 \* who holds an address in the buffer, and if it is stale
    drainBusy,            \* gDigiLiveDrainBusy
    pushBusy,             \* gDigiLiveOutputPushInProgress
    workerRunning,        \* gAudioRefreshWorkerRunning
    dispatched, exited,   \* ...WorkerDispatchCount, ...WorkerExitCount
    capture,              \* gAudioRefreshCaptureInProgress
    restarting,           \* gAudioRuntimeRestartInProgress
    deviceStarted,        \* gAudioRuntimeDeviceStarted
    armed,                \* gPowerStateRestartArmed
    ioActive,             \* CoreAudio has the device started
    power,                \* "on", "off", or "revived": off, but StartDevice was called since
    pc, op, n, expected,  \* per thread: next call, handler, loop count, exits to wait for
    ops, callbacks        \* how many handlers and callbacks were run (bounds)

live == <<running, ready, starting, stopping>>
dma == <<buffer, hold>>
locks == <<drainBusy, pushBusy>>
worker == <<workerRunning, dispatched, exited, capture>>
device == <<deviceStarted, armed, ioActive, power>>
budget == <<ops, callbacks>>
vars == <<live, dma, locks, worker, restarting, device, pc, op, n, expected, budget>>

-----------------------------------------------------------------------------
(* The handlers: which call follows which. *)

Calls == {"stopWorker", "stopLive", "silence", "reset", "startOK",
          "startFailed", "harvestLoop", "harvest", "push", "capture",
          "startWorker", "request", "super"}

Finish == [c \in Calls |-> "finish"]

StartDeviceCalls == [Finish EXCEPT
    !.stopWorker = "stopLive", !.stopLive = "reset", !.reset = "startLive",
    !.startOK = "harvestLoop", !.startFailed = "capture",
    !.harvest = "harvestLoop", !.harvestLoop = "startWorker",
    !.capture = "startWorker", !.startWorker = "super"]

\* Mutant: StopDevice does not stop the live stream
StopDeviceLeavesStream == [Finish EXCEPT
    !.super = "stopWorker", !.stopWorker = "silence", !.push = "silence"]

StopDeviceCalls == [Finish EXCEPT
    !.super = "stopWorker", !.stopWorker = "silence", !.push = "silence",
    !.silence = "stopLive"]

\* Mutant: SetPowerState stops only the worker
PowerOffLeavesStream == [Finish EXCEPT !.stopWorker = "reset", !.reset = "super"]

PowerOffCalls == [Finish EXCEPT
    !.stopWorker = "stopLive", !.stopLive = "reset", !.reset = "super"]

PowerOnCalls == Finish

RestartedCalls == [Finish EXCEPT
    !.startOK = "harvestLoop", !.harvest = "harvestLoop",
    !.harvestLoop = "startWorker"]

ChangeLiveRateCalls == [RestartedCalls EXCEPT
    !.stopWorker = "stopLive", !.stopLive = "reset", !.reset = "super",
    !.super = "startLive"]

ChangeIdleRateCalls == Finish

WorkerCalls == [Finish EXCEPT
    !.harvest = "workerPush", !.capture = "workerPush", !.push = "loop"]

BeginReadCalls == [Finish EXCEPT
    !.request = "harvestLoop", !.harvest = "harvestLoop"]

WriteEndCalls == [Finish EXCEPT !.request = "push"]

Handlers == [StartDevice |-> StartDeviceCalls, StopDevice |-> StopDeviceCalls,
             PowerOff |-> PowerOffCalls, PowerOn |-> PowerOnCalls,
             ChangeLiveRate |-> ChangeLiveRateCalls,
             ChangeIdleRate |-> ChangeIdleRateCalls,
             Restart |-> RestartedCalls, Worker |-> WorkerCalls,
             BeginRead |-> BeginReadCalls, WriteEnd |-> WriteEndCalls]

\* A call that only enters its first step
Entries == {"finish", "stopWorker", "stopLive", "silence", "reset",
            "startLive", "harvestLoop", "harvest", "push", "workerPush",
            "capture", "startWorker", "loop", "request", "super", "restart"}

Inner == {"stopWait", "markStopping", "stopContexts", "drainWait", "release", "stopped",
          "markStarting", "transactions", "createBuffer", "configure",
          "runContexts", "startFail", "undoStart", "startDone", "startUndone",
          "harvestLock", "sync", "process", "pushLock", "plan", "write",
          "markCapture", "capturing", "dispatch", "requestTake"}

Goto(t, s) == pc' = [pc EXCEPT ![t] = s]
Return(t, call) == Goto(t, Handlers[op[t]][call])

\* The buffer is given back: every address in it is from now on stale
Invalidated(h) == [x \in DOMAIN h |-> IF h[x] = "live" THEN "stale" ELSE h[x]]
Holding(t, h) == hold' = [hold EXCEPT ![t] = h]

DigiLiveStreamMayNeedStop ==
    running \/ ready \/ starting \/ stopping \/ buffer # "none"

MayFail == IF StartMayFail THEN BOOLEAN ELSE {TRUE}

Init ==
    /\ running = FALSE /\ ready = FALSE /\ starting = FALSE /\ stopping = FALSE
    /\ buffer = "none" /\ hold = [x \in Threads \cup {"ohci"} |-> "none"]
    /\ drainBusy = FALSE /\ pushBusy = FALSE
    /\ workerRunning = FALSE /\ dispatched = 0 /\ exited = 0 /\ capture = FALSE
    /\ restarting = FALSE
    /\ deviceStarted = FALSE /\ armed = FALSE /\ ioActive = FALSE /\ power = "on"
    /\ pc = [t \in Threads |-> "idle"]
    /\ op = [t \in Threads |-> "StopDevice"]
    /\ n = [t \in Threads |-> 0]
    /\ expected = [t \in Threads |-> 0]
    /\ ops = [c \in Controllers |-> 0] /\ callbacks = 0

-----------------------------------------------------------------------------
(* Requests of CoreAudio and of the power manager. *)

ControllersIdle == \A c \in Controllers : pc[c] = "idle"

MayBegin(t) ==
    /\ pc[t] = "idle"
    /\ ops[t] < MaxOps[t]
    /\ HandlersOverlap \/ ControllersIdle
    /\ HALQuiesces => pc["io"] = "idle"

Begin(t, o, first) ==
    /\ op' = [op EXCEPT ![t] = o]
    /\ Goto(t, first)
    /\ ops' = [ops EXCEPT ![t] = @ + 1]
    /\ UNCHANGED <<live, dma, locks, worker, restarting, n, expected, callbacks>>

\* Looks neither at the power nor at what was started before
BeginStartDevice ==
    /\ "StartDevice" \in AudioOps
    /\ MayBegin("audio")
    /\ power' = IF power = "off" THEN "revived" ELSE power
    /\ Begin("audio", "StartDevice", "stopWorker")
    /\ UNCHANGED <<deviceStarted, armed, ioActive>>

BeginStopDevice ==
    /\ "StopDevice" \in AudioOps
    /\ MayBegin("audio")
    /\ deviceStarted' = FALSE
    /\ Begin("audio", "StopDevice", "super")
    /\ UNCHANGED <<armed, ioActive, power>>

\* The new rate differs from the current one; a live stream is stopped for it
BeginChangeSampleRate ==
    /\ "ChangeSampleRate" \in AudioOps
    /\ MayBegin("audio")
    /\ IF workerRunning \/ DigiLiveStreamMayNeedStop
       THEN Begin("audio", "ChangeLiveRate", "stopWorker")
       ELSE Begin("audio", "ChangeIdleRate", "super")
    /\ UNCHANGED device

BeginPowerOff ==
    /\ "PowerOff" \in PowerOps
    /\ MayBegin("power")
    /\ power' = "off"
    /\ armed' = (armed \/ deviceStarted \/ workerRunning \/ DigiLiveStreamMayNeedStop)
    /\ Begin("power", "PowerOff", "stopWorker")
    /\ UNCHANGED <<deviceStarted, ioActive>>

BeginPowerOn ==
    /\ "PowerOn" \in PowerOps
    /\ MayBegin("power")
    /\ power' = "on"
    /\ Begin("power", "PowerOn", "super")
    /\ UNCHANGED <<deviceStarted, armed, ioActive>>

BeginCallback(o) ==
    /\ pc["io"] = "idle" /\ ioActive
    /\ callbacks < MaxCallbacks
    /\ HALQuiesces => ControllersIdle
    /\ op' = [op EXCEPT !["io"] = o]
    /\ Goto("io", IF workerRunning /\ running /\ ready
                  THEN IF o = "BeginRead" THEN "harvestLoop" ELSE "push"
                  ELSE "request")
    /\ callbacks' = callbacks + 1
    /\ UNCHANGED <<live, dma, locks, worker, restarting, device, n, expected, ops>>

SuperSucceeds(t) ==
    /\ pc[t] = "super"
    /\ deviceStarted' = (deviceStarted \/ op[t] = "StartDevice")
    /\ ioActive' = CASE op[t] = "StartDevice" -> TRUE
                     [] op[t] = "StopDevice" -> FALSE
                     [] OTHER -> ioActive
    /\ IF op[t] = "PowerOn" /\ armed
       THEN /\ armed' = FALSE
            /\ Goto(t, "request")
       ELSE /\ Return(t, "super")
            /\ UNCHANGED armed
    /\ UNCHANGED <<live, dma, locks, worker, restarting, power, op, n, expected, budget>>

\* Only StopDevice goes on when the framework's own method fails
SuperFails(t) ==
    /\ pc[t] = "super"
    /\ StartMayFail
    /\ IF op[t] = "StopDevice"
       THEN Return(t, "super") /\ ioActive' = FALSE
       ELSE Goto(t, "finish") /\ UNCHANGED ioActive
    /\ UNCHANGED <<live, dma, locks, worker, restarting, deviceStarted, armed, power,
                   op, n, expected, budget>>

\* Mutant: the restart block does not give its token back
FinishKeepsToken(t) ==
    /\ pc[t] = "finish"
    /\ Goto(t, "idle")
    /\ n' = [n EXCEPT ![t] = 0]
    /\ UNCHANGED <<live, dma, locks, worker, restarting, device, op, expected, budget>>

FinishHandler(t) ==
    /\ pc[t] = "finish"
    /\ Goto(t, "idle")
    /\ n' = [n EXCEPT ![t] = 0]
    /\ restarting' = (restarting /\ t # "restart")
    /\ UNCHANGED <<live, dma, locks, worker, device, op, expected, budget>>

-----------------------------------------------------------------------------
(* StopAudioRefreshWorker, StopDigiLiveStreamForAudio and the resets. *)

StopAudioRefreshWorker(t) ==
    /\ pc[t] = "stopWorker"
    /\ expected' = [expected EXCEPT ![t] = dispatched]
    /\ workerRunning' = FALSE
    /\ IF workerRunning \/ capture \/ exited < dispatched
       THEN Goto(t, "stopWait")
       ELSE Return(t, "stopWorker")
    /\ UNCHANGED <<live, dma, locks, dispatched, exited, capture, restarting, device,
                   op, n, budget>>

WorkerStopped(t) == exited >= expected[t] /\ ~capture

\* Mutant: the caller goes on while the worker may still run
AwaitNoWorker(t) ==
    /\ pc[t] = "stopWait"
    /\ Return(t, "stopWorker")
    /\ UNCHANGED <<live, dma, locks, worker, restarting, device, op, n, expected, budget>>

AwaitWorkerExit(t) ==
    /\ pc[t] = "stopWait"
    /\ WorkerStopped(t) \/ WaitsExpire
    /\ Return(t, "stopWorker")
    /\ UNCHANGED <<live, dma, locks, worker, restarting, device, op, n, expected, budget>>

\* The silence that StopDevice pushes before it stops the stream
PushStopSilence(t) ==
    /\ pc[t] = "silence"
    /\ IF n[t] < SilencePushes /\ (running \/ n[t] > 0)
       THEN Goto(t, "push") /\ n' = [n EXCEPT ![t] = @ + 1]
       ELSE Return(t, "silence") /\ n' = [n EXCEPT ![t] = 0]
    /\ UNCHANGED <<live, dma, locks, worker, restarting, device, op, expected, budget>>

StopDigiLiveStreamForAudio(t) ==
    /\ pc[t] = "stopLive"
    /\ IF stopping \/ ~DigiLiveStreamMayNeedStop
       THEN Return(t, "stopLive")
       ELSE Goto(t, "markStopping")
    /\ UNCHANGED <<live, dma, locks, worker, restarting, device, op, n, expected, budget>>

\* Mutant: the stream is not marked as stopped before it is torn down
StopStaysRunning(t) ==
    /\ pc[t] = "markStopping"
    /\ stopping' = TRUE
    /\ Goto(t, "stopContexts")
    /\ UNCHANGED <<running, ready, starting, dma, locks, worker, restarting, device,
                   op, n, expected, budget>>

MarkStopping(t) ==
    /\ pc[t] = "markStopping"
    /\ stopping' = TRUE /\ running' = FALSE /\ ready' = FALSE
    /\ Goto(t, "stopContexts")
    /\ UNCHANGED <<starting, dma, locks, worker, restarting, device, op, n, expected, budget>>

\* Mutant: the contexts keep running while the buffer is released
StopLeavesContexts(t) ==
    /\ pc[t] = "stopContexts"
    /\ Goto(t, "drainWait")
    /\ UNCHANGED <<live, dma, locks, worker, restarting, device, op, n, expected, budget>>

StopContexts(t) ==
    /\ pc[t] = "stopContexts"
    /\ Holding("ohci", "none")
    /\ Goto(t, "drainWait")
    /\ UNCHANGED <<live, buffer, locks, worker, restarting, device, op, n, expected, budget>>

AwaitDrain(t) ==
    /\ pc[t] = "drainWait"
    /\ ~drainBusy \/ WaitsExpire
    /\ Goto(t, "release")
    /\ UNCHANGED <<live, dma, locks, worker, restarting, device, op, n, expected, budget>>

ReleaseLiveBuffer(t) ==
    /\ pc[t] = "release"
    /\ buffer' = "none" /\ hold' = Invalidated(hold)
    /\ Goto(t, "stopped")
    /\ UNCHANGED <<live, locks, worker, restarting, device, op, n, expected, budget>>

StopDone(t) ==
    /\ pc[t] = "stopped"
    /\ running' = FALSE /\ ready' = FALSE /\ stopping' = FALSE
    /\ Return(t, "stopLive")
    /\ UNCHANGED <<starting, dma, locks, worker, restarting, device, op, n, expected, budget>>

\* ResetDigiLiveOutputState clears the push lock whoever holds it
ResetDigiLiveOutputState(t) ==
    /\ pc[t] = "reset"
    /\ pushBusy' = FALSE
    /\ Return(t, "reset")
    /\ UNCHANGED <<live, dma, drainBusy, worker, restarting, device, op, n, expected, budget>>

-----------------------------------------------------------------------------
(* StartDigiLiveStreamForAudio. *)

StartDigiLiveStreamForAudio(t) ==
    /\ pc[t] = "startLive"
    /\ CASE running -> Return(t, "startOK")
         [] ~running /\ starting -> Return(t, "startFailed")
         [] OTHER -> Goto(t, "markStarting")
    /\ UNCHANGED <<live, dma, locks, worker, restarting, device, op, n, expected, budget>>

MarkStarting(t) ==
    /\ pc[t] = "markStarting"
    /\ starting' = TRUE /\ ready' = FALSE
    /\ pushBusy' = FALSE
    /\ Goto(t, "transactions")
    /\ UNCHANGED <<running, stopping, dma, drainBusy, worker, restarting, device,
                   op, n, expected, budget>>

RunDigiLiveBeginTransactions(t) ==
    /\ pc[t] = "transactions"
    /\ \E ok \in MayFail : Goto(t, IF ok THEN "createBuffer" ELSE "startFail")
    /\ UNCHANGED <<live, dma, locks, worker, restarting, device, op, n, expected, budget>>

\* CreateUncachedDMABuffer releases what the buffer held before
CreateLiveBuffer(t) ==
    /\ pc[t] = "createBuffer"
    /\ \E ok \in MayFail :
        /\ buffer' = IF ok THEN "mapped" ELSE "none"
        /\ hold' = [Invalidated(hold) EXCEPT ![t] = IF ok THEN "live" ELSE "none"]
        /\ Goto(t, IF ok THEN "configure" ELSE "startFail")
    /\ UNCHANGED <<live, locks, worker, restarting, device, op, n, expected, budget>>

\* Descriptors are written, then the sync for the device fails if the buffer is gone
ConfigureDescriptors(t) ==
    /\ pc[t] = "configure"
    /\ \E ok \in MayFail :
        IF ok /\ buffer = "mapped"
        THEN Goto(t, "runContexts") /\ UNCHANGED hold
        ELSE Goto(t, "startFail") /\ Holding(t, "none")
    /\ UNCHANGED <<live, buffer, locks, worker, restarting, device, op, n, expected, budget>>

\* The contexts run on the address that was read when the buffer was created
RunContexts(t) ==
    /\ pc[t] = "runContexts"
    /\ hold' = [hold EXCEPT !["ohci"] = hold[t], ![t] = "none"]
    /\ ready' = TRUE /\ running' = TRUE
    /\ Goto(t, "startDone")
    /\ UNCHANGED <<starting, stopping, buffer, locks, worker, restarting, device,
                   op, n, expected, budget>>

StartFailed(t) ==
    /\ pc[t] = "startFail"
    /\ running' = FALSE /\ ready' = FALSE
    /\ Goto(t, "undoStart")
    /\ UNCHANGED <<starting, stopping, dma, locks, worker, restarting, device,
                   op, n, expected, budget>>

\* After the finish transactions, which are tried and may fail
UndoStart(t) ==
    /\ pc[t] = "undoStart"
    /\ buffer' = "none" /\ hold' = Invalidated(hold)
    /\ Goto(t, "startUndone")
    /\ UNCHANGED <<live, locks, worker, restarting, device, op, n, expected, budget>>

StartDone(t) ==
    /\ pc[t] \in {"startDone", "startUndone"}
    /\ starting' = FALSE
    /\ Return(t, IF pc[t] = "startDone" THEN "startOK" ELSE "startFailed")
    /\ UNCHANGED <<running, ready, stopping, dma, locks, worker, restarting, device,
                   op, n, expected, budget>>

-----------------------------------------------------------------------------
(* HarvestDigiLiveIsoStream and PushAudioOutputToDigiLiveTransmit.          *)

\* PrebufferDigiLiveAudio and HarvestDigiLiveForAudioCallback harvest until
\* the input ring holds enough or the attempts are used up
HarvestAgain(t) ==
    /\ pc[t] = "harvestLoop"
    /\ running /\ n[t] < HarvestAttempts
    /\ n' = [n EXCEPT ![t] = @ + 1]
    /\ Goto(t, "harvest")
    /\ UNCHANGED <<live, dma, locks, worker, restarting, device, op, expected, budget>>

HarvestEnough(t) ==
    /\ pc[t] = "harvestLoop"
    /\ n' = [n EXCEPT ![t] = 0]
    /\ Return(t, "harvestLoop")
    /\ UNCHANGED <<live, dma, locks, worker, restarting, device, op, expected, budget>>

HarvestDigiLiveIsoStream(t) ==
    /\ pc[t] = "harvest"
    /\ IF running /\ buffer = "mapped"
       THEN Goto(t, "harvestLock")
       ELSE Return(t, "harvest")
    /\ UNCHANGED <<live, dma, locks, worker, restarting, device, op, n, expected, budget>>

\* Mutant: the flag is set without looking at its old value
TakeDrainLockBlindly(t) ==
    /\ pc[t] = "harvestLock"
    /\ drainBusy' = TRUE
    /\ Goto(t, "sync")
    /\ UNCHANGED <<live, dma, pushBusy, worker, restarting, device, op, n, expected, budget>>

TakeDrainLock(t) ==
    /\ pc[t] = "harvestLock"
    /\ drainBusy' = TRUE
    /\ IF drainBusy THEN Return(t, "harvest") ELSE Goto(t, "sync")
    /\ UNCHANGED <<live, dma, pushBusy, worker, restarting, device, op, n, expected, budget>>

\* No receive event yet, or the buffer went away since the first check
SkipHarvest(t) ==
    /\ pc[t] = "sync"
    /\ drainBusy' = FALSE
    /\ Return(t, "harvest")
    /\ UNCHANGED <<live, dma, pushBusy, worker, restarting, device, op, n, expected, budget>>

SyncForCPU(t) ==
    /\ pc[t] = "sync"
    /\ buffer = "mapped"
    /\ Holding(t, "live")
    /\ Goto(t, "process")
    /\ UNCHANGED <<live, buffer, locks, worker, restarting, device, op, n, expected, budget>>

ProcessDescriptors(t) ==
    /\ pc[t] = "process"
    /\ Holding(t, "none")
    /\ drainBusy' = FALSE
    /\ Return(t, "harvest")
    /\ UNCHANGED <<live, buffer, pushBusy, worker, restarting, device, op, n, expected, budget>>

PushAudioOutputToDigiLiveTransmit(t) ==
    /\ pc[t] = "push"
    /\ IF running /\ buffer = "mapped"
       THEN Goto(t, "pushLock")
       ELSE Return(t, "push")
    /\ UNCHANGED <<live, dma, locks, worker, restarting, device, op, n, expected, budget>>

\* Mutant: a push goes on although another one is in progress
TakePushGuardBlindly(t) ==
    /\ pc[t] = "pushLock"
    /\ pushBusy' = TRUE
    /\ Goto(t, "plan")
    /\ UNCHANGED <<live, dma, drainBusy, worker, restarting, device, op, n, expected, budget>>

TakePushGuard(t) ==
    /\ pc[t] = "pushLock"
    /\ pushBusy' = TRUE
    /\ IF pushBusy THEN Return(t, "push") ELSE Goto(t, "plan")
    /\ UNCHANGED <<live, dma, drainBusy, worker, restarting, device, op, n, expected, budget>>

\* Nothing to write in the window; the guard's destructor clears the flag
SkipPush(t) ==
    /\ pc[t] = "plan"
    /\ pushBusy' = FALSE
    /\ Return(t, "push")
    /\ UNCHANGED <<live, dma, drainBusy, worker, restarting, device, op, n, expected, budget>>

\* A command pointer of a released buffer is out of range, hence skipped above
PlanPackets(t) ==
    /\ pc[t] = "plan"
    /\ buffer = "mapped"
    /\ Holding(t, "live")
    /\ Goto(t, "write")
    /\ UNCHANGED <<live, buffer, locks, worker, restarting, device, op, n, expected, budget>>

WritePackets(t) ==
    /\ pc[t] = "write"
    /\ Holding(t, "none")
    /\ pushBusy' = FALSE
    /\ Return(t, "push")
    /\ UNCHANGED <<live, buffer, drainBusy, worker, restarting, device, op, n, expected, budget>>

-----------------------------------------------------------------------------
(* RefreshDigiCaptureForAudio, the worker and the restart block.            *)

RefreshDigiCaptureForAudio(t) ==
    /\ pc[t] = "capture"
    /\ IF capture THEN Return(t, "capture") ELSE Goto(t, "markCapture")
    /\ UNCHANGED <<live, dma, locks, worker, restarting, device, op, n, expected, budget>>

MarkCapture(t) ==
    /\ pc[t] = "markCapture"
    /\ capture' = TRUE
    /\ Goto(t, "capturing")
    /\ UNCHANGED <<live, dma, locks, workerRunning, dispatched, exited, restarting,
                   device, op, n, expected, budget>>

\* If its buffers were created the probe runs and stops the contexts of the live stream
RunDigiDuplexProbe(t) ==
    /\ pc[t] = "capturing"
    /\ capture' = FALSE
    /\ \E created \in MayFail : IF created THEN Holding("ohci", "none") ELSE UNCHANGED hold
    /\ Return(t, "capture")
    /\ UNCHANGED <<live, buffer, locks, workerRunning, dispatched, exited, restarting,
                   device, op, n, expected, budget>>

StartAudioRefreshWorker(t) ==
    /\ pc[t] = "startWorker"
    /\ IF workerRunning THEN Return(t, "startWorker") ELSE Goto(t, "dispatch")
    /\ UNCHANGED <<live, dma, locks, worker, restarting, device, op, n, expected, budget>>

DispatchWorker(t) ==
    /\ pc[t] = "dispatch"
    /\ workerRunning' = TRUE
    /\ dispatched' = dispatched + 1
    /\ \E w \in Workers :
        /\ pc[w] = "idle"
        /\ op' = [op EXCEPT ![w] = "Worker"]
        /\ pc' = [pc EXCEPT ![w] = "loop", ![t] = Handlers[op[t]]["startWorker"]]
    /\ UNCHANGED <<live, dma, locks, exited, capture, restarting, device, n, expected, budget>>

\* Mutant: the loop does not look at its running flag
WorkerIgnoresStop(w) ==
    /\ pc[w] = "loop"
    /\ Goto(w, IF running THEN "harvest" ELSE "capture")
    /\ UNCHANGED <<live, dma, locks, worker, restarting, device, op, n, expected, budget>>

WorkerLoop(w) ==
    /\ pc[w] = "loop"
    /\ workerRunning
    /\ Goto(w, IF running THEN "harvest" ELSE "capture")
    /\ UNCHANGED <<live, dma, locks, worker, restarting, device, op, n, expected, budget>>

\* Mutant: the exit counter counts down
WorkerExitCountsDown(w) ==
    /\ pc[w] = "loop"
    /\ ~workerRunning
    /\ exited' = exited - 1
    /\ Goto(w, "idle")
    /\ UNCHANGED <<live, dma, locks, workerRunning, dispatched, capture, restarting,
                   device, op, n, expected, budget>>

WorkerExit(w) ==
    /\ pc[w] = "loop"
    /\ ~workerRunning
    /\ exited' = exited + 1
    /\ Goto(w, "idle")
    /\ UNCHANGED <<live, dma, locks, workerRunning, dispatched, capture, restarting,
                   device, op, n, expected, budget>>

WorkerPush(w) ==
    /\ pc[w] = "workerPush"
    /\ Goto(w, IF running THEN "push" ELSE "loop")
    /\ UNCHANGED <<live, dma, locks, worker, restarting, device, op, n, expected, budget>>

RequestAudioRuntimeRestart(t) ==
    /\ pc[t] = "request"
    /\ IF (running /\ ready /\ workerRunning) \/ starting \/ stopping
       THEN Return(t, "request")
       ELSE Goto(t, "requestTake")
    /\ UNCHANGED <<live, dma, locks, worker, restarting, device, op, n, expected, budget>>

TakeRestart(t) ==
    /\ pc[t] = "requestTake"
    /\ restarting' = TRUE
    /\ IF restarting
       THEN Return(t, "request") /\ UNCHANGED op
       ELSE /\ op' = [op EXCEPT !["restart"] = "Restart"]
            /\ pc' = [pc EXCEPT !["restart"] = "restart", ![t] = Handlers[op[t]]["request"]]
    /\ UNCHANGED <<live, dma, locks, worker, device, n, expected, budget>>

\* Mutant: the block releases its token when it begins, not when it ends
RestartReleasesEarly(t) ==
    /\ pc[t] = "restart"
    /\ restarting' = FALSE
    /\ IF running /\ ready
       THEN Goto(t, "startWorker") /\ UNCHANGED pushBusy
       ELSE Goto(t, "startLive") /\ pushBusy' = FALSE
    /\ UNCHANGED <<live, dma, drainBusy, worker, device, op, n, expected, budget>>

RestartBlock(t) ==
    /\ pc[t] = "restart"
    /\ IF running /\ ready
       THEN Goto(t, "startWorker") /\ UNCHANGED pushBusy
       ELSE Goto(t, "startLive") /\ pushBusy' = FALSE
    /\ UNCHANGED <<live, dma, drainBusy, worker, restarting, device, op, n, expected, budget>>

-----------------------------------------------------------------------------
Stop(t) ==
    \/ StopAudioRefreshWorker(t) \/ AwaitWorkerExit(t) \/ PushStopSilence(t)
    \/ StopDigiLiveStreamForAudio(t) \/ MarkStopping(t) \/ StopContexts(t)
    \/ AwaitDrain(t) \/ ReleaseLiveBuffer(t) \/ StopDone(t) \/ ResetDigiLiveOutputState(t)

Start(t) ==
    \/ StartDigiLiveStreamForAudio(t) \/ MarkStarting(t)
    \/ RunDigiLiveBeginTransactions(t) \/ CreateLiveBuffer(t)
    \/ ConfigureDescriptors(t) \/ RunContexts(t) \/ StartFailed(t)
    \/ UndoStart(t) \/ StartDone(t)

Harvest(t) ==
    \/ HarvestAgain(t) \/ HarvestEnough(t) \/ HarvestDigiLiveIsoStream(t)
    \/ TakeDrainLock(t) \/ SkipHarvest(t) \/ SyncForCPU(t) \/ ProcessDescriptors(t)

Push(t) ==
    \/ PushAudioOutputToDigiLiveTransmit(t) \/ TakePushGuard(t) \/ SkipPush(t)
    \/ PlanPackets(t) \/ WritePackets(t)

Refresh(t) ==
    \/ RefreshDigiCaptureForAudio(t) \/ MarkCapture(t) \/ RunDigiDuplexProbe(t)
    \/ StartAudioRefreshWorker(t) \/ DispatchWorker(t)
    \/ RequestAudioRuntimeRestart(t) \/ TakeRestart(t) \/ RestartBlock(t)

WorkerBlock(w) == WorkerLoop(w) \/ WorkerExit(w) \/ WorkerPush(w)

ThreadStep(t) ==
    \/ SuperSucceeds(t) \/ SuperFails(t) \/ FinishHandler(t)
    \/ Stop(t) \/ Start(t) \/ Harvest(t) \/ Push(t) \/ Refresh(t)

Request ==
    \/ BeginStartDevice \/ BeginStopDevice \/ BeginChangeSampleRate
    \/ BeginPowerOff \/ BeginPowerOn
    \/ \E o \in {"BeginRead", "WriteEnd"} : BeginCallback(o)

\* Every handler was run and every block has ended; nothing more can happen
Quiescent == \A t \in Threads : pc[t] = "idle"

Next ==
    \/ Request
    \/ \E t \in Threads : ThreadStep(t)
    \/ \E w \in Workers : WorkerBlock(w)
    \/ Quiescent /\ UNCHANGED vars

Spec == Init /\ [][Next]_vars

Fairness ==
    /\ \A t \in Threads : WF_vars(ThreadStep(t))
    /\ \A w \in Workers : WF_vars(WorkerBlock(w))

FairSpec == Spec /\ Fairness

-----------------------------------------------------------------------------
HandlerNames == {"StartDevice", "StopDevice", "PowerOff", "PowerOn", "ChangeLiveRate",
                 "ChangeIdleRate", "Restart", "Worker", "BeginRead", "WriteEnd"}

InDrain(t) == pc[t] \in {"sync", "process"}
InPush(t) == pc[t] \in {"plan", "write"}
InTransactions(t) == pc[t] \in {"transactions", "undoStart", "capturing"}

FlagsTyped ==
    /\ running \in BOOLEAN /\ ready \in BOOLEAN
    /\ starting \in BOOLEAN /\ stopping \in BOOLEAN
    /\ drainBusy \in BOOLEAN /\ pushBusy \in BOOLEAN
    /\ workerRunning \in BOOLEAN /\ capture \in BOOLEAN /\ restarting \in BOOLEAN
    /\ deviceStarted \in BOOLEAN /\ armed \in BOOLEAN
    /\ ioActive \in BOOLEAN /\ power \in {"on", "off", "revived"}

DataTyped ==
    /\ buffer \in {"none", "mapped"}
    /\ hold \in [Threads \cup {"ohci"} -> {"none", "live", "stale"}]
    /\ dispatched \in Nat /\ exited \in Nat
    /\ n \in [Threads -> Nat] /\ expected \in [Threads -> Nat]
    /\ ops \in [Controllers -> Nat] /\ callbacks \in Nat

ControlTyped ==
    /\ pc \in [Threads -> Entries \cup Inner \cup {"idle"}]
    /\ op \in [Threads -> HandlerNames]

\* Every variable has its type.
TypeOK == FlagsTyped /\ DataTyped /\ ControlTyped

\* gDigiLiveDrainBusy is set exactly while one harvest is between its
\* test-and-set and its release: the worker, the read callback and the two
\* prebuffer loops never walk the receive descriptors together.
DrainLock ==
    /\ \A t, u \in Threads : InDrain(t) /\ InDrain(u) => t = u
    /\ drainBusy <=> \E t \in Threads : InDrain(t)

\* gAudioRuntimeRestartInProgress is set exactly while a restart block waits or
\* runs: a callback never queues a second one, and none is lost.
OneRestart == restarting <=> pc["restart"] # "idle"

\* Two pushes never fill the transmit ring at the same time: the worker, the
\* write callback and the silence of StopDevice share one cursor.
OnePusher == \A t, u \in Threads : InPush(t) /\ InPush(u) => t = u

\* Two threads never drive the shared asynchronous buffers (gAsyncTxBuffer and
\* the receive buffers) at once: begin, finish and capture each recreate them.
OneTransaction == \A t, u \in Threads : InTransactions(t) /\ InTransactions(u) => t = u

\* StartAudioRefreshWorker is never called while an earlier worker still runs.
OneWorker == \A w, x \in Workers : pc[w] # "idle" /\ pc[x] # "idle" => w = x

\* No thread uses an address in gDigiLiveBuffer after the buffer was released.
NoStaleUse == \A t \in Threads : hold[t] # "stale"

\* The controller never runs a context whose descriptors were released.
ContextsOnBuffer == hold["ohci"] # "stale"

\* While the stream says it runs, the contexts run in its buffer, not in one that is
\* gone and not stopped behind its back by a capture.
RunningHasContexts == running => hold["ohci"] = "live"

\* When StopDevice has returned, nothing of the stream is left, and nothing is
\* on its way to bring it back.
StoppedIsQuiet ==
    pc["audio"] = "idle" /\ op["audio"] = "StopDevice" =>
        ~running /\ ~starting /\ ~workerRunning /\ buffer = "none"

\* After SetPowerState with a state other than "on" has returned, whatever was running
\* or half started is stopped, and no rate change and no second StopDevice brings it back;
\* only the power, or a StartDevice, which does not look at the power, ends this.
OffIsQuiet ==
    pc["power"] = "idle" /\ power = "off" => ~running /\ ~workerRunning /\ buffer = "none"

\* A handler returns, although it waits for the worker and for the drain lock:
\* without counting on the bound of these waits.
HandlersFinish == \A t \in Controllers : pc[t] # "idle" ~> pc[t] = "idle"

\* A restart that was requested comes to an end and can be requested again.
RestartFinishes == restarting ~> ~restarting
=============================================================================
