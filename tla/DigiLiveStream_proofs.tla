------------------------ MODULE DigiLiveStream_proofs ------------------------
(***************************************************************************)
(* For every set of workers, every bound and every choice of the switches:  *)
(* the drain flag is a lock, and at most one restart block exists.          *)
(*                                                                          *)
(* TypeOK, DrainLock and OneRestart are inductive together.  A step moves   *)
(* one thread, and nearly all of them neither enter nor leave the code that *)
(* the drain flag guards (lemma MoveKeeps); what is left are the            *)
(* test-and-set, the releases, the requests and the end of a handler, and   *)
(* the two actions that put a block on a queue, where OneRestart says that  *)
(* the block was not running yet.  The second part is about the stream      *)
(* while its controllers take turns.                                        *)
(***************************************************************************)
EXTENDS DigiLiveStream, TLAPS

\* The two flags, which only typed states can speak of
IInv == TypeOK /\ DrainLock /\ OneRestart

\* Where a thread may be without holding the drain lock and without resting
Elsewhere == (Entries \cup Inner) \ {"sync", "process"}

\* A handler's table names an entry for every call of the handler, and none of them asks
\* for a restart: callbacks begin with that, SetPowerState decides it itself.
LEMMA Tables ==
    \A h \in HandlerNames : Handlers[h] \in [Calls -> Entries \ {"request"}]
<1>. USE DEF Calls, Entries
<1>1. Finish \in [Calls -> Entries \ {"request"}]
  BY DEF Finish
<1>2. StartDeviceCalls \in [Calls -> Entries \ {"request"}]
  BY <1>1 DEF StartDeviceCalls
<1>3. StopDeviceCalls \in [Calls -> Entries \ {"request"}]
  BY <1>1 DEF StopDeviceCalls
<1>4. PowerOffCalls \in [Calls -> Entries \ {"request"}]
  BY <1>1 DEF PowerOffCalls
<1>5. RestartedCalls \in [Calls -> Entries \ {"request"}]
  BY <1>1 DEF RestartedCalls
<1>6. ChangeLiveRateCalls \in [Calls -> Entries \ {"request"}]
  BY <1>5 DEF ChangeLiveRateCalls
<1>7. WorkerCalls \in [Calls -> Entries \ {"request"}]
  BY <1>1 DEF WorkerCalls
<1>8. BeginReadCalls \in [Calls -> Entries \ {"request"}]
  BY <1>1 DEF BeginReadCalls
<1>9. WriteEndCalls \in [Calls -> Entries \ {"request"}]
  BY <1>1 DEF WriteEndCalls
<1>10. PowerOnCalls \in [Calls -> Entries \ {"request"}] /\ ChangeIdleRateCalls \in [Calls -> Entries \ {"request"}]
  BY <1>1 DEF PowerOnCalls, ChangeIdleRateCalls
<1>. HIDE DEF Calls, Entries
<1>. QED
  BY <1>2, <1>3, <1>4, <1>5, <1>6, <1>7, <1>8, <1>9, <1>10 DEF Handlers, HandlerNames

\* A call returns into an entry of the handler its thread runs, not into a request.
LEMMA ReturnsToEntry ==
    ASSUME ControlTyped, NEW t \in Threads, NEW c \in Calls
    PROVE  Handlers[op[t]][c] \in Entries \ {"request"}
BY Tables DEF ControlTyped

\* A thread that moves outside the drain, and is neither put to rest nor woken,
\* disturbs no lock.
LEMMA MoveKeeps ==
    ASSUME IInv, NEW t \in Threads, pc[t] \notin {"idle", "sync", "process"},
           NEW s \in Elsewhere, Goto(t, s), UNCHANGED <<drainBusy, restarting, op>>
    PROVE  ControlTyped' /\ DrainLock' /\ OneRestart'
<1>1. pc' = [pc EXCEPT ![t] = s] /\ pc \in [Threads -> Entries \cup Inner \cup {"idle"}]
  BY DEF Goto, IInv, TypeOK, ControlTyped
<1>2. \A u \in Threads : InDrain(u)' <=> InDrain(u)
  BY <1>1 DEF InDrain, Elsewhere
<1>3. "restart" \in Threads /\ s # "idle"
  BY DEF Threads, Entries, Inner, Elsewhere
<1>4. pc'["restart"] = "idle" <=> pc["restart"] = "idle"
  BY <1>1, <1>3
<1>5. ControlTyped'
  BY <1>1 DEF IInv, TypeOK, ControlTyped, Elsewhere
<1>. QED
  BY <1>2, <1>4, <1>5 DEF IInv, DrainLock, OneRestart

\* The framework's own method returns, or the handler ends.
LEMMA HandlerKeeps ==
    ASSUME IInv, NEW t \in Threads,
           SuperSucceeds(t) \/ SuperFails(t) \/ FinishHandler(t)
    PROVE  IInv'
<1>. USE DEF IInv, TypeOK
<1>1. CASE SuperSucceeds(t)
  <2>1. PICK s \in Elsewhere : Goto(t, s)
    BY <1>1, ReturnsToEntry DEF SuperSucceeds, Return, Calls, Inner, Entries, Elsewhere
  <2>2. pc[t] \notin {"idle", "sync", "process"} /\ UNCHANGED <<drainBusy, restarting, op>>
    BY <1>1 DEF SuperSucceeds, locks
  <2>3. FlagsTyped'
    BY <1>1, ZenonT(60) DEF SuperSucceeds, FlagsTyped, live, locks, worker, device
  <2>4. DataTyped'
    BY <1>1 DEF SuperSucceeds, DataTyped, Invalidated, Holding, dma, worker, budget
  <2>. QED
    BY <2>1, <2>2, <2>3, <2>4, MoveKeeps DEF IInv, TypeOK
<1>2. CASE SuperFails(t)
  <2>1. PICK s \in Elsewhere : Goto(t, s)
    BY <1>2, ReturnsToEntry DEF SuperFails, Return, Calls, Inner, Entries, Elsewhere
  <2>2. pc[t] \notin {"idle", "sync", "process"} /\ UNCHANGED <<drainBusy, restarting, op>>
    BY <1>2 DEF SuperFails, locks
  <2>3. FlagsTyped'
    <3>1. /\ UNCHANGED <<running, ready, starting, stopping, drainBusy, pushBusy>>
          /\ UNCHANGED <<workerRunning, capture, restarting, deviceStarted, armed, power>>
      BY <1>2 DEF SuperFails, live, locks, worker
    <3>2. ioActive' \in BOOLEAN
      <4>1. CASE op[t] = "StopDevice"
        BY <1>2, <4>1 DEF SuperFails
      <4>2. CASE op[t] # "StopDevice"
        BY <1>2, <4>2 DEF SuperFails, FlagsTyped
      <4>. QED
        BY <4>1, <4>2
    <3>. QED
      BY <3>1, <3>2 DEF FlagsTyped
  <2>4. DataTyped'
    BY <1>2 DEF SuperFails, DataTyped, Invalidated, Holding, dma, worker, budget
  <2>. QED
    BY <2>1, <2>2, <2>3, <2>4, MoveKeeps DEF IInv, TypeOK
<1>3. CASE FinishHandler(t)
  <2>1. pc' = [pc EXCEPT ![t] = "idle"] /\ pc[t] = "finish"
    BY <1>3 DEF FinishHandler, Goto
  <2>2. FlagsTyped'
    BY <1>3 DEF FinishHandler, FlagsTyped, live, locks, worker, device
  <2>3. DataTyped' /\ ControlTyped'
    BY <1>3, <2>1 DEF FinishHandler, DataTyped, ControlTyped, dma, worker, budget
  <2>4. DrainLock'
    BY <1>3, <2>1 DEF FinishHandler, DrainLock, InDrain, ControlTyped, locks
  <2>5. OneRestart'
    BY <1>3, <2>1 DEF FinishHandler, OneRestart, ControlTyped, FlagsTyped, Threads
  <2>. QED
    BY <2>2, <2>3, <2>4, <2>5
<1>. QED
  BY <1>1, <1>2, <1>3

\* Stopping the worker and the stream leaves the locks alone.
LEMMA StopKeeps ==
    ASSUME IInv, NEW t \in Threads, Stop(t)
    PROVE  IInv'
<1>. USE DEF IInv, TypeOK
<1>1. CASE StopAudioRefreshWorker(t)
  <2>1. PICK s \in Elsewhere : Goto(t, s)
    BY <1>1, ReturnsToEntry DEF StopAudioRefreshWorker, Return, Calls, Inner, Entries, Elsewhere
  <2>2. pc[t] \notin {"idle", "sync", "process"} /\ UNCHANGED <<drainBusy, restarting, op>>
    BY <1>1 DEF StopAudioRefreshWorker, locks
  <2>3. FlagsTyped'
    BY <1>1, ZenonT(60) DEF StopAudioRefreshWorker, FlagsTyped, live, locks, worker, device
  <2>4. DataTyped'
    BY <1>1 DEF StopAudioRefreshWorker, DataTyped, Invalidated, Holding, dma, worker, budget
  <2>. QED
    BY <2>1, <2>2, <2>3, <2>4, MoveKeeps DEF IInv, TypeOK
<1>2. CASE AwaitWorkerExit(t)
  <2>1. PICK s \in Elsewhere : Goto(t, s)
    BY <1>2, ReturnsToEntry DEF AwaitWorkerExit, Return, Calls, Inner, Entries, Elsewhere
  <2>2. pc[t] \notin {"idle", "sync", "process"} /\ UNCHANGED <<drainBusy, restarting, op>>
    BY <1>2 DEF AwaitWorkerExit, locks
  <2>3. FlagsTyped'
    BY <1>2 DEF AwaitWorkerExit, FlagsTyped, live, locks, worker, device
  <2>4. DataTyped'
    BY <1>2 DEF AwaitWorkerExit, DataTyped, Invalidated, Holding, dma, worker, budget
  <2>. QED
    BY <2>1, <2>2, <2>3, <2>4, MoveKeeps DEF IInv, TypeOK
<1>3. CASE PushStopSilence(t)
  <2>1. PICK s \in Elsewhere : Goto(t, s)
    BY <1>3, ReturnsToEntry DEF PushStopSilence, Return, Calls, Inner, Entries, Elsewhere
  <2>2. pc[t] \notin {"idle", "sync", "process"} /\ UNCHANGED <<drainBusy, restarting, op>>
    BY <1>3 DEF PushStopSilence, locks
  <2>3. FlagsTyped'
    BY <1>3 DEF PushStopSilence, FlagsTyped, live, locks, worker, device
  <2>4. DataTyped'
    BY <1>3 DEF PushStopSilence, DataTyped, Invalidated, Holding, dma, worker, budget
  <2>. QED
    BY <2>1, <2>2, <2>3, <2>4, MoveKeeps DEF IInv, TypeOK
<1>4. CASE StopDigiLiveStreamForAudio(t)
  <2>1. PICK s \in Elsewhere : Goto(t, s)
    BY <1>4, ReturnsToEntry DEF StopDigiLiveStreamForAudio, Return, Calls, Inner, Entries, Elsewhere
  <2>2. pc[t] \notin {"idle", "sync", "process"} /\ UNCHANGED <<drainBusy, restarting, op>>
    BY <1>4 DEF StopDigiLiveStreamForAudio, locks
  <2>3. FlagsTyped'
    BY <1>4 DEF StopDigiLiveStreamForAudio, FlagsTyped, live, locks, worker, device
  <2>4. DataTyped'
    BY <1>4 DEF StopDigiLiveStreamForAudio, DataTyped, Invalidated, Holding, dma, worker, budget
  <2>. QED
    BY <2>1, <2>2, <2>3, <2>4, MoveKeeps DEF IInv, TypeOK
<1>5. CASE MarkStopping(t)
  <2>1. PICK s \in Elsewhere : Goto(t, s)
    BY <1>5, ReturnsToEntry DEF MarkStopping, Return, Calls, Inner, Entries, Elsewhere
  <2>2. pc[t] \notin {"idle", "sync", "process"} /\ UNCHANGED <<drainBusy, restarting, op>>
    BY <1>5 DEF MarkStopping, locks
  <2>3. FlagsTyped'
    BY <1>5, ZenonT(60) DEF MarkStopping, FlagsTyped, live, locks, worker, device
  <2>4. DataTyped'
    BY <1>5 DEF MarkStopping, DataTyped, Invalidated, Holding, dma, worker, budget
  <2>. QED
    BY <2>1, <2>2, <2>3, <2>4, MoveKeeps DEF IInv, TypeOK
<1>6. CASE StopContexts(t)
  <2>1. PICK s \in Elsewhere : Goto(t, s)
    BY <1>6, ReturnsToEntry DEF StopContexts, Return, Calls, Inner, Entries, Elsewhere
  <2>2. pc[t] \notin {"idle", "sync", "process"} /\ UNCHANGED <<drainBusy, restarting, op>>
    BY <1>6 DEF StopContexts, locks
  <2>3. FlagsTyped'
    BY <1>6 DEF StopContexts, FlagsTyped, live, locks, worker, device
  <2>4. DataTyped'
    BY <1>6 DEF StopContexts, DataTyped, Invalidated, Holding, dma, worker, budget
  <2>. QED
    BY <2>1, <2>2, <2>3, <2>4, MoveKeeps DEF IInv, TypeOK
<1>7. CASE AwaitDrain(t)
  <2>1. PICK s \in Elsewhere : Goto(t, s)
    BY <1>7, ReturnsToEntry DEF AwaitDrain, Return, Calls, Inner, Entries, Elsewhere
  <2>2. pc[t] \notin {"idle", "sync", "process"} /\ UNCHANGED <<drainBusy, restarting, op>>
    BY <1>7 DEF AwaitDrain, locks
  <2>3. FlagsTyped'
    BY <1>7 DEF AwaitDrain, FlagsTyped, live, locks, worker, device
  <2>4. DataTyped'
    BY <1>7 DEF AwaitDrain, DataTyped, Invalidated, Holding, dma, worker, budget
  <2>. QED
    BY <2>1, <2>2, <2>3, <2>4, MoveKeeps DEF IInv, TypeOK
<1>8. CASE ReleaseLiveBuffer(t)
  <2>1. PICK s \in Elsewhere : Goto(t, s)
    BY <1>8, ReturnsToEntry DEF ReleaseLiveBuffer, Return, Calls, Inner, Entries, Elsewhere
  <2>2. pc[t] \notin {"idle", "sync", "process"} /\ UNCHANGED <<drainBusy, restarting, op>>
    BY <1>8 DEF ReleaseLiveBuffer, locks
  <2>3. FlagsTyped'
    BY <1>8 DEF ReleaseLiveBuffer, FlagsTyped, live, locks, worker, device
  <2>4. DataTyped'
    BY <1>8 DEF ReleaseLiveBuffer, DataTyped, Invalidated, Holding, dma, worker, budget
  <2>. QED
    BY <2>1, <2>2, <2>3, <2>4, MoveKeeps DEF IInv, TypeOK
<1>9. CASE StopDone(t)
  <2>1. PICK s \in Elsewhere : Goto(t, s)
    BY <1>9, ReturnsToEntry DEF StopDone, Return, Calls, Inner, Entries, Elsewhere
  <2>2. pc[t] \notin {"idle", "sync", "process"} /\ UNCHANGED <<drainBusy, restarting, op>>
    BY <1>9 DEF StopDone, locks
  <2>3. FlagsTyped'
    BY <1>9, ZenonT(60) DEF StopDone, FlagsTyped, live, locks, worker, device
  <2>4. DataTyped'
    BY <1>9 DEF StopDone, DataTyped, Invalidated, Holding, dma, worker, budget
  <2>. QED
    BY <2>1, <2>2, <2>3, <2>4, MoveKeeps DEF IInv, TypeOK
<1>10. CASE ResetDigiLiveOutputState(t)
  <2>1. PICK s \in Elsewhere : Goto(t, s)
    BY <1>10, ReturnsToEntry DEF ResetDigiLiveOutputState, Return, Calls, Inner, Entries, Elsewhere
  <2>2. pc[t] \notin {"idle", "sync", "process"} /\ UNCHANGED <<drainBusy, restarting, op>>
    BY <1>10 DEF ResetDigiLiveOutputState, locks
  <2>3. FlagsTyped'
    BY <1>10, ZenonT(60) DEF ResetDigiLiveOutputState, FlagsTyped, live, locks, worker, device
  <2>4. DataTyped'
    BY <1>10 DEF ResetDigiLiveOutputState, DataTyped, Invalidated, Holding, dma, worker, budget
  <2>. QED
    BY <2>1, <2>2, <2>3, <2>4, MoveKeeps DEF IInv, TypeOK
<1>. QED
  BY <1>1, <1>2, <1>3, <1>4, <1>5, <1>6, <1>7, <1>8, <1>9, <1>10 DEF Stop

\* So does starting the stream.
LEMMA StartKeeps ==
    ASSUME IInv, NEW t \in Threads, Start(t)
    PROVE  IInv'
<1>. USE DEF IInv, TypeOK
<1>1. CASE StartDigiLiveStreamForAudio(t)
  <2>1. PICK s \in Elsewhere : Goto(t, s)
    BY <1>1, ReturnsToEntry DEF StartDigiLiveStreamForAudio, Return, Calls, Inner, Entries, Elsewhere
  <2>2. pc[t] \notin {"idle", "sync", "process"} /\ UNCHANGED <<drainBusy, restarting, op>>
    BY <1>1 DEF StartDigiLiveStreamForAudio, locks
  <2>3. FlagsTyped'
    BY <1>1 DEF StartDigiLiveStreamForAudio, FlagsTyped, live, locks, worker, device
  <2>4. DataTyped'
    BY <1>1 DEF StartDigiLiveStreamForAudio, DataTyped, Invalidated, Holding, dma, worker, budget
  <2>. QED
    BY <2>1, <2>2, <2>3, <2>4, MoveKeeps DEF IInv, TypeOK
<1>2. CASE MarkStarting(t)
  <2>1. PICK s \in Elsewhere : Goto(t, s)
    BY <1>2, ReturnsToEntry DEF MarkStarting, Return, Calls, Inner, Entries, Elsewhere
  <2>2. pc[t] \notin {"idle", "sync", "process"} /\ UNCHANGED <<drainBusy, restarting, op>>
    BY <1>2 DEF MarkStarting, locks
  <2>3. FlagsTyped'
    BY <1>2, ZenonT(60) DEF MarkStarting, FlagsTyped, live, locks, worker, device
  <2>4. DataTyped'
    BY <1>2 DEF MarkStarting, DataTyped, Invalidated, Holding, dma, worker, budget
  <2>. QED
    BY <2>1, <2>2, <2>3, <2>4, MoveKeeps DEF IInv, TypeOK
<1>3. CASE RunDigiLiveBeginTransactions(t)
  <2>1. PICK s \in Elsewhere : Goto(t, s)
    BY <1>3, ReturnsToEntry DEF RunDigiLiveBeginTransactions, Return, Calls, Inner, Entries, Elsewhere
  <2>2. pc[t] \notin {"idle", "sync", "process"} /\ UNCHANGED <<drainBusy, restarting, op>>
    BY <1>3 DEF RunDigiLiveBeginTransactions, locks
  <2>3. FlagsTyped'
    BY <1>3 DEF RunDigiLiveBeginTransactions, FlagsTyped, live, locks, worker, device
  <2>4. DataTyped'
    BY <1>3 DEF RunDigiLiveBeginTransactions, DataTyped, Invalidated, Holding, dma, worker, budget
  <2>. QED
    BY <2>1, <2>2, <2>3, <2>4, MoveKeeps DEF IInv, TypeOK
<1>4. CASE CreateLiveBuffer(t)
  <2>1. PICK s \in Elsewhere : Goto(t, s)
    BY <1>4, ReturnsToEntry DEF CreateLiveBuffer, Return, Calls, Inner, Entries, Elsewhere
  <2>2. pc[t] \notin {"idle", "sync", "process"} /\ UNCHANGED <<drainBusy, restarting, op>>
    BY <1>4 DEF CreateLiveBuffer, locks
  <2>3. FlagsTyped'
    BY <1>4 DEF CreateLiveBuffer, FlagsTyped, live, locks, worker, device
  <2>4. DataTyped'
    BY <1>4 DEF CreateLiveBuffer, DataTyped, Invalidated, Holding, dma, worker, budget
  <2>. QED
    BY <2>1, <2>2, <2>3, <2>4, MoveKeeps DEF IInv, TypeOK
<1>5. CASE ConfigureDescriptors(t)
  <2>1. PICK s \in Elsewhere : Goto(t, s)
    BY <1>5, ReturnsToEntry DEF ConfigureDescriptors, Return, Calls, Inner, Entries, Elsewhere
  <2>2. pc[t] \notin {"idle", "sync", "process"} /\ UNCHANGED <<drainBusy, restarting, op>>
    BY <1>5 DEF ConfigureDescriptors, locks
  <2>3. FlagsTyped'
    BY <1>5 DEF ConfigureDescriptors, FlagsTyped, live, locks, worker, device
  <2>4. DataTyped'
    BY <1>5 DEF ConfigureDescriptors, DataTyped, Invalidated, Holding, dma, worker, budget
  <2>. QED
    BY <2>1, <2>2, <2>3, <2>4, MoveKeeps DEF IInv, TypeOK
<1>6. CASE RunContexts(t)
  <2>1. PICK s \in Elsewhere : Goto(t, s)
    BY <1>6, ReturnsToEntry DEF RunContexts, Return, Calls, Inner, Entries, Elsewhere
  <2>2. pc[t] \notin {"idle", "sync", "process"} /\ UNCHANGED <<drainBusy, restarting, op>>
    BY <1>6 DEF RunContexts, locks
  <2>3. FlagsTyped'
    BY <1>6 DEF RunContexts, FlagsTyped, live, locks, worker, device
  <2>4. DataTyped'
    BY <1>6 DEF RunContexts, DataTyped, Invalidated, Holding, dma, worker, budget
  <2>. QED
    BY <2>1, <2>2, <2>3, <2>4, MoveKeeps DEF IInv, TypeOK
<1>7. CASE StartFailed(t)
  <2>1. PICK s \in Elsewhere : Goto(t, s)
    BY <1>7, ReturnsToEntry DEF StartFailed, Return, Calls, Inner, Entries, Elsewhere
  <2>2. pc[t] \notin {"idle", "sync", "process"} /\ UNCHANGED <<drainBusy, restarting, op>>
    BY <1>7 DEF StartFailed, locks
  <2>3. FlagsTyped'
    BY <1>7, ZenonT(60) DEF StartFailed, FlagsTyped, live, locks, worker, device
  <2>4. DataTyped'
    BY <1>7 DEF StartFailed, DataTyped, Invalidated, Holding, dma, worker, budget
  <2>. QED
    BY <2>1, <2>2, <2>3, <2>4, MoveKeeps DEF IInv, TypeOK
<1>8. CASE UndoStart(t)
  <2>1. PICK s \in Elsewhere : Goto(t, s)
    BY <1>8, ReturnsToEntry DEF UndoStart, Return, Calls, Inner, Entries, Elsewhere
  <2>2. pc[t] \notin {"idle", "sync", "process"} /\ UNCHANGED <<drainBusy, restarting, op>>
    BY <1>8 DEF UndoStart, locks
  <2>3. FlagsTyped'
    BY <1>8 DEF UndoStart, FlagsTyped, live, locks, worker, device
  <2>4. DataTyped'
    BY <1>8 DEF UndoStart, DataTyped, Invalidated, Holding, dma, worker, budget
  <2>. QED
    BY <2>1, <2>2, <2>3, <2>4, MoveKeeps DEF IInv, TypeOK
<1>9. CASE StartDone(t)
  <2>1. PICK s \in Elsewhere : Goto(t, s)
    BY <1>9, ReturnsToEntry DEF StartDone, Return, Calls, Inner, Entries, Elsewhere
  <2>2. pc[t] \notin {"idle", "sync", "process"} /\ UNCHANGED <<drainBusy, restarting, op>>
    BY <1>9 DEF StartDone, locks
  <2>3. FlagsTyped'
    BY <1>9, ZenonT(60) DEF StartDone, FlagsTyped, live, locks, worker, device
  <2>4. DataTyped'
    BY <1>9 DEF StartDone, DataTyped, Invalidated, Holding, dma, worker, budget
  <2>. QED
    BY <2>1, <2>2, <2>3, <2>4, MoveKeeps DEF IInv, TypeOK
<1>. QED
  BY <1>1, <1>2, <1>3, <1>4, <1>5, <1>6, <1>7, <1>8, <1>9 DEF Start

\* A harvest takes the drain lock if it is free and releases only its own.
LEMMA HarvestKeeps ==
    ASSUME IInv, NEW t \in Threads, Harvest(t)
    PROVE  IInv'
<1>. USE DEF IInv, TypeOK
<1>1. CASE HarvestAgain(t)
  <2>1. PICK s \in Elsewhere : Goto(t, s)
    BY <1>1, ReturnsToEntry DEF HarvestAgain, Return, Calls, Inner, Entries, Elsewhere
  <2>2. pc[t] \notin {"idle", "sync", "process"} /\ UNCHANGED <<drainBusy, restarting, op>>
    BY <1>1 DEF HarvestAgain, locks
  <2>3. FlagsTyped'
    BY <1>1 DEF HarvestAgain, FlagsTyped, live, locks, worker, device
  <2>4. DataTyped'
    BY <1>1 DEF HarvestAgain, DataTyped, Invalidated, Holding, dma, worker, budget
  <2>. QED
    BY <2>1, <2>2, <2>3, <2>4, MoveKeeps DEF IInv, TypeOK
<1>2. CASE HarvestEnough(t)
  <2>1. PICK s \in Elsewhere : Goto(t, s)
    BY <1>2, ReturnsToEntry DEF HarvestEnough, Return, Calls, Inner, Entries, Elsewhere
  <2>2. pc[t] \notin {"idle", "sync", "process"} /\ UNCHANGED <<drainBusy, restarting, op>>
    BY <1>2 DEF HarvestEnough, locks
  <2>3. FlagsTyped'
    BY <1>2 DEF HarvestEnough, FlagsTyped, live, locks, worker, device
  <2>4. DataTyped'
    BY <1>2 DEF HarvestEnough, DataTyped, Invalidated, Holding, dma, worker, budget
  <2>. QED
    BY <2>1, <2>2, <2>3, <2>4, MoveKeeps DEF IInv, TypeOK
<1>3. CASE HarvestDigiLiveIsoStream(t)
  <2>1. PICK s \in Elsewhere : Goto(t, s)
    BY <1>3, ReturnsToEntry DEF HarvestDigiLiveIsoStream, Return, Calls, Inner, Entries, Elsewhere
  <2>2. pc[t] \notin {"idle", "sync", "process"} /\ UNCHANGED <<drainBusy, restarting, op>>
    BY <1>3 DEF HarvestDigiLiveIsoStream, locks
  <2>3. FlagsTyped'
    BY <1>3 DEF HarvestDigiLiveIsoStream, FlagsTyped, live, locks, worker, device
  <2>4. DataTyped'
    BY <1>3 DEF HarvestDigiLiveIsoStream, DataTyped, Invalidated, Holding, dma, worker, budget
  <2>. QED
    BY <2>1, <2>2, <2>3, <2>4, MoveKeeps DEF IInv, TypeOK
<1>4. CASE TakeDrainLock(t)
  <2>1. PICK s \in Entries \cup Inner : pc' = [pc EXCEPT ![t] = s]
    BY <1>4, ReturnsToEntry DEF TakeDrainLock, Goto, Return, Calls, Inner
  <2>2. FlagsTyped'
    BY <1>4 DEF TakeDrainLock, FlagsTyped, live, locks, worker, device
  <2>3. DataTyped'
    BY <1>4 DEF TakeDrainLock, DataTyped, Holding, dma, worker, budget
  <2>4. ControlTyped'
    BY <1>4, <2>1 DEF TakeDrainLock, ControlTyped
  <2>5. DrainLock'
    <3>1. CASE drainBusy
      <4>1. s \in Entries /\ pc[t] = "harvestLock" /\ drainBusy'
        BY <1>4, <2>1, <3>1, ReturnsToEntry DEF TakeDrainLock, Return, Goto, Calls, ControlTyped
      <4>2. \A u \in Threads : InDrain(u)' <=> InDrain(u)
        BY <2>1, <4>1 DEF InDrain, ControlTyped, Entries
      <4>. QED
        BY <3>1, <4>1, <4>2 DEF DrainLock
    <3>2. CASE ~drainBusy
      <4>1. s = "sync" /\ drainBusy'
        BY <1>4, <2>1, <3>2 DEF TakeDrainLock, Goto, ControlTyped
      <4>2. \A u \in Threads : InDrain(u)' <=> u = t
        BY <2>1, <3>2, <4>1 DEF InDrain, ControlTyped, DrainLock
      <4>. QED
        BY <4>1, <4>2 DEF DrainLock
    <3>. QED
      BY <3>1, <3>2
  <2>6. OneRestart'
    BY <1>4, <2>1 DEF TakeDrainLock, OneRestart, ControlTyped, Entries, Inner
  <2>. QED
    BY <2>2, <2>3, <2>4, <2>5, <2>6
<1>5. CASE SkipHarvest(t)
  <2>1. PICK s \in Entries \cup Inner : pc' = [pc EXCEPT ![t] = s]
    BY <1>5, ReturnsToEntry DEF SkipHarvest, Goto, Return, Calls, Inner
  <2>2. FlagsTyped'
    BY <1>5, ZenonT(60) DEF SkipHarvest, FlagsTyped, live, locks, worker, device
  <2>3. DataTyped'
    BY <1>5 DEF SkipHarvest, DataTyped, Holding, dma, worker, budget
  <2>4. ControlTyped'
    BY <1>5, <2>1 DEF SkipHarvest, ControlTyped
  <2>5. DrainLock'
    <3>1. InDrain(t) /\ ~drainBusy' /\ s \in Entries
      BY <1>5, <2>1, ReturnsToEntry DEF SkipHarvest, InDrain, Return, Goto, Calls, ControlTyped
    <3>2. \A u \in Threads : ~InDrain(u)'
      BY <2>1, <3>1 DEF InDrain, ControlTyped, DrainLock, Entries
    <3>. QED
      BY <3>1, <3>2 DEF DrainLock
  <2>6. OneRestart'
    BY <1>5, <2>1 DEF SkipHarvest, OneRestart, ControlTyped, Entries, Inner
  <2>. QED
    BY <2>2, <2>3, <2>4, <2>5, <2>6
<1>6. CASE SyncForCPU(t)
  <2>1. PICK s \in Entries \cup Inner : pc' = [pc EXCEPT ![t] = s]
    BY <1>6, ReturnsToEntry DEF SyncForCPU, Goto, Return, Calls, Inner
  <2>2. FlagsTyped'
    BY <1>6 DEF SyncForCPU, FlagsTyped, live, locks, worker, device
  <2>3. DataTyped'
    BY <1>6 DEF SyncForCPU, DataTyped, Holding, dma, worker, budget
  <2>4. ControlTyped'
    BY <1>6, <2>1 DEF SyncForCPU, ControlTyped
  <2>5. DrainLock'
    <3>1. s = "process" /\ pc[t] = "sync" /\ drainBusy' = drainBusy
      BY <1>6, <2>1 DEF SyncForCPU, Goto, ControlTyped, locks
    <3>2. \A u \in Threads : InDrain(u)' <=> InDrain(u)
      BY <2>1, <3>1 DEF InDrain, ControlTyped
    <3>. QED
      BY <3>1, <3>2 DEF DrainLock
  <2>6. OneRestart'
    BY <1>6, <2>1 DEF SyncForCPU, OneRestart, ControlTyped, Entries, Inner
  <2>. QED
    BY <2>2, <2>3, <2>4, <2>5, <2>6
<1>7. CASE ProcessDescriptors(t)
  <2>1. PICK s \in Entries \cup Inner : pc' = [pc EXCEPT ![t] = s]
    BY <1>7, ReturnsToEntry DEF ProcessDescriptors, Goto, Return, Calls, Inner
  <2>2. FlagsTyped'
    BY <1>7, ZenonT(60) DEF ProcessDescriptors, FlagsTyped, live, locks, worker, device
  <2>3. DataTyped'
    BY <1>7 DEF ProcessDescriptors, DataTyped, Holding, dma, worker, budget
  <2>4. ControlTyped'
    BY <1>7, <2>1 DEF ProcessDescriptors, ControlTyped
  <2>5. DrainLock'
    <3>1. InDrain(t) /\ ~drainBusy' /\ s \in Entries
      BY <1>7, <2>1, ReturnsToEntry DEF ProcessDescriptors, InDrain, Return, Goto, Calls, ControlTyped
    <3>2. \A u \in Threads : ~InDrain(u)'
      BY <2>1, <3>1 DEF InDrain, ControlTyped, DrainLock, Entries
    <3>. QED
      BY <3>1, <3>2 DEF DrainLock
  <2>6. OneRestart'
    BY <1>7, <2>1 DEF ProcessDescriptors, OneRestart, ControlTyped, Entries, Inner
  <2>. QED
    BY <2>2, <2>3, <2>4, <2>5, <2>6
<1>. QED
  BY <1>1, <1>2, <1>3, <1>4, <1>5, <1>6, <1>7 DEF Harvest

\* A push has a flag of its own.
LEMMA PushKeeps ==
    ASSUME IInv, NEW t \in Threads, Push(t)
    PROVE  IInv'
<1>. USE DEF IInv, TypeOK
<1>1. CASE PushAudioOutputToDigiLiveTransmit(t)
  <2>1. PICK s \in Elsewhere : Goto(t, s)
    BY <1>1, ReturnsToEntry DEF PushAudioOutputToDigiLiveTransmit, Return, Calls, Inner, Entries, Elsewhere
  <2>2. pc[t] \notin {"idle", "sync", "process"} /\ UNCHANGED <<drainBusy, restarting, op>>
    BY <1>1 DEF PushAudioOutputToDigiLiveTransmit, locks
  <2>3. FlagsTyped'
    BY <1>1 DEF PushAudioOutputToDigiLiveTransmit, FlagsTyped, live, locks, worker, device
  <2>4. DataTyped'
    BY <1>1 DEF PushAudioOutputToDigiLiveTransmit, DataTyped, Invalidated, Holding, dma, worker, budget
  <2>. QED
    BY <2>1, <2>2, <2>3, <2>4, MoveKeeps DEF IInv, TypeOK
<1>2. CASE TakePushGuard(t)
  <2>1. PICK s \in Elsewhere : Goto(t, s)
    BY <1>2, ReturnsToEntry DEF TakePushGuard, Return, Calls, Inner, Entries, Elsewhere
  <2>2. pc[t] \notin {"idle", "sync", "process"} /\ UNCHANGED <<drainBusy, restarting, op>>
    BY <1>2 DEF TakePushGuard, locks
  <2>3. FlagsTyped'
    BY <1>2 DEF TakePushGuard, FlagsTyped, live, locks, worker, device
  <2>4. DataTyped'
    BY <1>2 DEF TakePushGuard, DataTyped, Invalidated, Holding, dma, worker, budget
  <2>. QED
    BY <2>1, <2>2, <2>3, <2>4, MoveKeeps DEF IInv, TypeOK
<1>3. CASE SkipPush(t)
  <2>1. PICK s \in Elsewhere : Goto(t, s)
    BY <1>3, ReturnsToEntry DEF SkipPush, Return, Calls, Inner, Entries, Elsewhere
  <2>2. pc[t] \notin {"idle", "sync", "process"} /\ UNCHANGED <<drainBusy, restarting, op>>
    BY <1>3 DEF SkipPush, locks
  <2>3. FlagsTyped'
    BY <1>3, ZenonT(60) DEF SkipPush, FlagsTyped, live, locks, worker, device
  <2>4. DataTyped'
    BY <1>3 DEF SkipPush, DataTyped, Invalidated, Holding, dma, worker, budget
  <2>. QED
    BY <2>1, <2>2, <2>3, <2>4, MoveKeeps DEF IInv, TypeOK
<1>4. CASE PlanPackets(t)
  <2>1. PICK s \in Elsewhere : Goto(t, s)
    BY <1>4, ReturnsToEntry DEF PlanPackets, Return, Calls, Inner, Entries, Elsewhere
  <2>2. pc[t] \notin {"idle", "sync", "process"} /\ UNCHANGED <<drainBusy, restarting, op>>
    BY <1>4 DEF PlanPackets, locks
  <2>3. FlagsTyped'
    BY <1>4 DEF PlanPackets, FlagsTyped, live, locks, worker, device
  <2>4. DataTyped'
    BY <1>4 DEF PlanPackets, DataTyped, Invalidated, Holding, dma, worker, budget
  <2>. QED
    BY <2>1, <2>2, <2>3, <2>4, MoveKeeps DEF IInv, TypeOK
<1>5. CASE WritePackets(t)
  <2>1. PICK s \in Elsewhere : Goto(t, s)
    BY <1>5, ReturnsToEntry DEF WritePackets, Return, Calls, Inner, Entries, Elsewhere
  <2>2. pc[t] \notin {"idle", "sync", "process"} /\ UNCHANGED <<drainBusy, restarting, op>>
    BY <1>5 DEF WritePackets, locks
  <2>3. FlagsTyped'
    BY <1>5, ZenonT(60) DEF WritePackets, FlagsTyped, live, locks, worker, device
  <2>4. DataTyped'
    BY <1>5 DEF WritePackets, DataTyped, Invalidated, Holding, dma, worker, budget
  <2>. QED
    BY <2>1, <2>2, <2>3, <2>4, MoveKeeps DEF IInv, TypeOK
<1>. QED
  BY <1>1, <1>2, <1>3, <1>4, <1>5 DEF Push

\* A worker that is dispatched rested; a restart block is dispatched only if none
\* is waiting or running.
LEMMA RefreshKeeps ==
    ASSUME IInv, NEW t \in Threads, Refresh(t)
    PROVE  IInv'
<1>. USE DEF IInv, TypeOK
<1>1. CASE RefreshDigiCaptureForAudio(t)
  <2>1. PICK s \in Elsewhere : Goto(t, s)
    BY <1>1, ReturnsToEntry DEF RefreshDigiCaptureForAudio, Return, Calls, Inner, Entries, Elsewhere
  <2>2. pc[t] \notin {"idle", "sync", "process"} /\ UNCHANGED <<drainBusy, restarting, op>>
    BY <1>1 DEF RefreshDigiCaptureForAudio, locks
  <2>3. FlagsTyped'
    BY <1>1 DEF RefreshDigiCaptureForAudio, FlagsTyped, live, locks, worker, device
  <2>4. DataTyped'
    BY <1>1 DEF RefreshDigiCaptureForAudio, DataTyped, Invalidated, Holding, dma, worker, budget
  <2>. QED
    BY <2>1, <2>2, <2>3, <2>4, MoveKeeps DEF IInv, TypeOK
<1>2. CASE MarkCapture(t)
  <2>1. PICK s \in Elsewhere : Goto(t, s)
    BY <1>2, ReturnsToEntry DEF MarkCapture, Return, Calls, Inner, Entries, Elsewhere
  <2>2. pc[t] \notin {"idle", "sync", "process"} /\ UNCHANGED <<drainBusy, restarting, op>>
    BY <1>2 DEF MarkCapture, locks
  <2>3. FlagsTyped'
    BY <1>2 DEF MarkCapture, FlagsTyped, live, locks, worker, device
  <2>4. DataTyped'
    BY <1>2 DEF MarkCapture, DataTyped, Invalidated, Holding, dma, worker, budget
  <2>. QED
    BY <2>1, <2>2, <2>3, <2>4, MoveKeeps DEF IInv, TypeOK
<1>3. CASE RunDigiDuplexProbe(t)
  <2>1. PICK s \in Elsewhere : Goto(t, s)
    BY <1>3, ReturnsToEntry DEF RunDigiDuplexProbe, Return, Calls, Inner, Entries, Elsewhere
  <2>2. pc[t] \notin {"idle", "sync", "process"} /\ UNCHANGED <<drainBusy, restarting, op>>
    BY <1>3 DEF RunDigiDuplexProbe, locks
  <2>3. FlagsTyped'
    BY <1>3, ZenonT(60) DEF RunDigiDuplexProbe, FlagsTyped, live, locks, worker, device
  <2>4. DataTyped'
    BY <1>3 DEF RunDigiDuplexProbe, DataTyped, Invalidated, Holding, dma, worker, budget
  <2>. QED
    BY <2>1, <2>2, <2>3, <2>4, MoveKeeps DEF IInv, TypeOK
<1>4. CASE StartAudioRefreshWorker(t)
  <2>1. PICK s \in Elsewhere : Goto(t, s)
    BY <1>4, ReturnsToEntry DEF StartAudioRefreshWorker, Return, Calls, Inner, Entries, Elsewhere
  <2>2. pc[t] \notin {"idle", "sync", "process"} /\ UNCHANGED <<drainBusy, restarting, op>>
    BY <1>4 DEF StartAudioRefreshWorker, locks
  <2>3. FlagsTyped'
    BY <1>4 DEF StartAudioRefreshWorker, FlagsTyped, live, locks, worker, device
  <2>4. DataTyped'
    BY <1>4 DEF StartAudioRefreshWorker, DataTyped, Invalidated, Holding, dma, worker, budget
  <2>. QED
    BY <2>1, <2>2, <2>3, <2>4, MoveKeeps DEF IInv, TypeOK
<1>5. CASE DispatchWorker(t)
  <2>1. PICK w \in Workers :
          /\ pc[w] = "idle"
          /\ op' = [op EXCEPT ![w] = "Worker"]
          /\ pc' = [pc EXCEPT ![w] = "loop", ![t] = Handlers[op[t]]["startWorker"]]
    BY <1>5 DEF DispatchWorker
  <2>2. Handlers[op[t]]["startWorker"] \in Entries /\ "loop" \in Entries
    BY ReturnsToEntry DEF Calls, Entries
  <2>3. w \in Threads /\ w # "restart" /\ "restart" \in Threads /\ pc[t] = "dispatch"
    BY <1>5, WorkersAssumption DEF DispatchWorker, Threads
  <2>4. FlagsTyped'
    BY <1>5 DEF DispatchWorker, FlagsTyped, live, locks, device
  <2>5. DataTyped'
    BY <1>5 DEF DispatchWorker, DataTyped, dma, budget
  <2>6. ControlTyped'
    BY <2>1, <2>2, <2>3 DEF ControlTyped, HandlerNames
  <2>7. \A u \in Threads : InDrain(u)' <=> InDrain(u)
    BY <2>1, <2>2, <2>3 DEF InDrain, ControlTyped, Entries
  <2>8. pc'["restart"] = "idle" <=> pc["restart"] = "idle"
    BY <2>1, <2>2, <2>3 DEF ControlTyped, Entries
  <2>9. UNCHANGED <<drainBusy, restarting>>
    BY <1>5 DEF DispatchWorker, locks
  <2>. QED
    BY <2>4, <2>5, <2>6, <2>7, <2>8, <2>9 DEF DrainLock, OneRestart
<1>6. CASE RequestAudioRuntimeRestart(t)
  <2>1. PICK s \in Elsewhere : Goto(t, s)
    BY <1>6, ReturnsToEntry DEF RequestAudioRuntimeRestart, Return, Calls, Inner, Entries, Elsewhere
  <2>2. pc[t] \notin {"idle", "sync", "process"} /\ UNCHANGED <<drainBusy, restarting, op>>
    BY <1>6 DEF RequestAudioRuntimeRestart, locks
  <2>3. FlagsTyped'
    BY <1>6 DEF RequestAudioRuntimeRestart, FlagsTyped, live, locks, worker, device
  <2>4. DataTyped'
    BY <1>6 DEF RequestAudioRuntimeRestart, DataTyped, Invalidated, Holding, dma, worker, budget
  <2>. QED
    BY <2>1, <2>2, <2>3, <2>4, MoveKeeps DEF IInv, TypeOK
<1>7. CASE TakeRestart(t)
  <2>1. Handlers[op[t]]["request"] \in Entries /\ "restart" \in Entries
    BY ReturnsToEntry DEF Calls, Entries
  <2>2. "restart" \in Threads /\ pc[t] = "requestTake"
    BY <1>7 DEF TakeRestart, Threads
  <2>3. FlagsTyped'
    BY <1>7 DEF TakeRestart, FlagsTyped, live, locks, worker, device
  <2>4. DataTyped'
    BY <1>7 DEF TakeRestart, DataTyped, dma, worker, budget
  <2>5. UNCHANGED drainBusy /\ restarting'
    BY <1>7 DEF TakeRestart, locks
  <2>6. CASE restarting
    <3>1. pc' = [pc EXCEPT ![t] = Handlers[op[t]]["request"]] /\ UNCHANGED op
      BY <1>7, <2>6 DEF TakeRestart, Return, Goto
    <3>2. ControlTyped'
      BY <2>1, <3>1 DEF ControlTyped
    <3>3. \A u \in Threads : InDrain(u)' <=> InDrain(u)
      BY <2>1, <2>2, <3>1 DEF InDrain, ControlTyped, Entries
    <3>4. pc'["restart"] # "idle"
      BY <2>1, <2>2, <2>6, <3>1 DEF OneRestart, ControlTyped, Entries
    <3>. QED
      BY <2>3, <2>4, <2>5, <3>2, <3>3, <3>4 DEF DrainLock, OneRestart
  <2>7. CASE ~restarting
    <3>1. /\ pc' = [pc EXCEPT !["restart"] = "restart", ![t] = Handlers[op[t]]["request"]]
          /\ op' = [op EXCEPT !["restart"] = "Restart"]
          /\ pc["restart"] = "idle"
      BY <1>7, <2>7 DEF TakeRestart, OneRestart
    <3>2. ControlTyped'
      BY <2>1, <2>2, <3>1 DEF ControlTyped, HandlerNames
    <3>3. \A u \in Threads : InDrain(u)' <=> InDrain(u)
      BY <2>1, <2>2, <3>1 DEF InDrain, ControlTyped, Entries
    <3>4. pc'["restart"] # "idle"
      BY <2>1, <2>2, <3>1 DEF ControlTyped, Entries
    <3>. QED
      BY <2>3, <2>4, <2>5, <3>2, <3>3, <3>4 DEF DrainLock, OneRestart
  <2>. QED
    BY <2>6, <2>7
<1>8. CASE RestartBlock(t)
  <2>1. PICK s \in Elsewhere : Goto(t, s)
    BY <1>8, ReturnsToEntry DEF RestartBlock, Return, Calls, Inner, Entries, Elsewhere
  <2>2. pc[t] \notin {"idle", "sync", "process"} /\ UNCHANGED <<drainBusy, restarting, op>>
    BY <1>8 DEF RestartBlock, locks
  <2>3. FlagsTyped'
    BY <1>8, ZenonT(60) DEF RestartBlock, FlagsTyped, live, locks, worker, device
  <2>4. DataTyped'
    BY <1>8 DEF RestartBlock, DataTyped, Invalidated, Holding, dma, worker, budget
  <2>. QED
    BY <2>1, <2>2, <2>3, <2>4, MoveKeeps DEF IInv, TypeOK
<1>. QED
  BY <1>1, <1>2, <1>3, <1>4, <1>5, <1>6, <1>7, <1>8 DEF Refresh

\* The worker's own steps.
LEMMA WorkerKeeps ==
    ASSUME IInv, NEW w \in Workers, WorkerBlock(w)
    PROVE  IInv'
<1>. USE DEF IInv, TypeOK
<1>0. w \in Threads /\ w # "restart"
  BY WorkersAssumption DEF Threads
<1>1. CASE WorkerLoop(w)
  <2>1. PICK s \in Elsewhere : Goto(w, s)
    BY <1>1, ReturnsToEntry DEF WorkerLoop, Return, Calls, Inner, Entries, Elsewhere
  <2>2. pc[w] \notin {"idle", "sync", "process"} /\ UNCHANGED <<drainBusy, restarting, op>>
    BY <1>1 DEF WorkerLoop, locks
  <2>3. FlagsTyped'
    BY <1>1 DEF WorkerLoop, FlagsTyped, live, locks, worker, device
  <2>4. DataTyped'
    BY <1>1 DEF WorkerLoop, DataTyped, Invalidated, Holding, dma, worker, budget
  <2>. QED
    BY <1>0, <2>1, <2>2, <2>3, <2>4, MoveKeeps DEF IInv, TypeOK
<1>2. CASE WorkerPush(w)
  <2>1. PICK s \in Elsewhere : Goto(w, s)
    BY <1>2, ReturnsToEntry DEF WorkerPush, Return, Calls, Inner, Entries, Elsewhere
  <2>2. pc[w] \notin {"idle", "sync", "process"} /\ UNCHANGED <<drainBusy, restarting, op>>
    BY <1>2 DEF WorkerPush, locks
  <2>3. FlagsTyped'
    BY <1>2 DEF WorkerPush, FlagsTyped, live, locks, worker, device
  <2>4. DataTyped'
    BY <1>2 DEF WorkerPush, DataTyped, Invalidated, Holding, dma, worker, budget
  <2>. QED
    BY <1>0, <2>1, <2>2, <2>3, <2>4, MoveKeeps DEF IInv, TypeOK
<1>3. CASE WorkerExit(w)
  <2>1. pc' = [pc EXCEPT ![w] = "idle"] /\ pc[w] = "loop"
    BY <1>3 DEF WorkerExit, Goto
  <2>2. FlagsTyped'
    BY <1>3 DEF WorkerExit, FlagsTyped, live, locks, device
  <2>3. DataTyped' /\ ControlTyped'
    BY <1>0, <1>3, <2>1 DEF WorkerExit, DataTyped, ControlTyped, dma, budget
  <2>4. DrainLock'
    BY <1>3, <2>1 DEF WorkerExit, DrainLock, InDrain, ControlTyped, locks
  <2>5. OneRestart'
    BY <1>0, <1>3, <2>1 DEF WorkerExit, OneRestart, ControlTyped, Threads
  <2>. QED
    BY <2>2, <2>3, <2>4, <2>5
<1>. QED
  BY <1>1, <1>2, <1>3 DEF WorkerBlock

\* A request wakes "audio", "power" or "io", never the restart block.
LEMMA WakeKeeps ==
    ASSUME IInv, NEW c \in Controllers \cup {"io"}, NEW o \in HandlerNames,
           NEW s \in Elsewhere, Goto(c, s), op' = [op EXCEPT ![c] = o], pc[c] = "idle",
           UNCHANGED <<drainBusy, restarting>>
    PROVE  ControlTyped' /\ DrainLock' /\ OneRestart'
<1>. USE DEF IInv, TypeOK
<1>1. c \in Threads /\ c # "restart" /\ "restart" \in Threads
  BY DEF Threads, Controllers
<1>2. pc' = [pc EXCEPT ![c] = s] /\ s \in Entries \cup Inner /\ s \notin {"sync", "process"}
  BY DEF Goto, Elsewhere
<1>3. ControlTyped'
  BY <1>1, <1>2 DEF ControlTyped
<1>4. \A u \in Threads : InDrain(u)' <=> InDrain(u)
  BY <1>1, <1>2 DEF InDrain, ControlTyped
<1>5. pc'["restart"] = pc["restart"]
  BY <1>1, <1>2 DEF ControlTyped
<1>. QED
  BY <1>3, <1>4, <1>5 DEF DrainLock, OneRestart

\* Every request of CoreAudio or of the power manager is such a wake-up.
LEMMA RequestKeeps ==
    ASSUME IInv, Request
    PROVE  IInv'
<1>. USE DEF IInv, TypeOK
<1>1. CASE BeginStartDevice
  <2>1. FlagsTyped'
    BY <1>1 DEF BeginStartDevice, Begin, FlagsTyped, live, locks, worker, device
  <2>2. DataTyped'
    BY <1>1 DEF BeginStartDevice, Begin, DataTyped, Controllers, dma, worker, budget
  <2>3. pc["audio"] = "idle" /\ UNCHANGED <<drainBusy, restarting>>
    BY <1>1 DEF BeginStartDevice, Begin, MayBegin, locks
  <2>4. op' = [op EXCEPT !["audio"] = "StartDevice"] /\ Goto("audio", "stopWorker")
    BY <1>1 DEF BeginStartDevice, Begin
  <2>. QED
    BY <2>1, <2>2, <2>3, <2>4, WakeKeeps DEF Controllers, HandlerNames, Elsewhere, Entries
<1>2. CASE BeginStopDevice
  <2>1. FlagsTyped'
    BY <1>2, ZenonT(60) DEF BeginStopDevice, Begin, FlagsTyped, live, locks, worker, device
  <2>2. DataTyped'
    BY <1>2 DEF BeginStopDevice, Begin, DataTyped, Controllers, dma, worker, budget
  <2>3. pc["audio"] = "idle" /\ UNCHANGED <<drainBusy, restarting>>
    BY <1>2 DEF BeginStopDevice, Begin, MayBegin, locks
  <2>4. op' = [op EXCEPT !["audio"] = "StopDevice"] /\ Goto("audio", "super")
    BY <1>2 DEF BeginStopDevice, Begin
  <2>. QED
    BY <2>1, <2>2, <2>3, <2>4, WakeKeeps DEF Controllers, HandlerNames, Elsewhere, Entries
<1>3. CASE BeginChangeSampleRate
  <2>1. FlagsTyped'
    BY <1>3 DEF BeginChangeSampleRate, Begin, FlagsTyped, live, locks, worker, device
  <2>2. DataTyped'
    BY <1>3 DEF BeginChangeSampleRate, Begin, DataTyped, Controllers, dma, worker, budget
  <2>3. pc["audio"] = "idle" /\ UNCHANGED <<drainBusy, restarting>>
    BY <1>3 DEF BeginChangeSampleRate, Begin, MayBegin, locks
  <2>4. PICK o \in HandlerNames, s \in Elsewhere :
          op' = [op EXCEPT !["audio"] = o] /\ Goto("audio", s)
    BY <1>3 DEF BeginChangeSampleRate, Begin, HandlerNames, Elsewhere, Entries
  <2>. QED
    BY <2>1, <2>2, <2>3, <2>4, WakeKeeps DEF Controllers
<1>4. CASE BeginPowerOff
  <2>1. FlagsTyped'
    BY <1>4, ZenonT(60) DEF BeginPowerOff, Begin, FlagsTyped, live, locks, worker, device
  <2>2. DataTyped'
    BY <1>4 DEF BeginPowerOff, Begin, DataTyped, Controllers, dma, worker, budget
  <2>3. pc["power"] = "idle" /\ UNCHANGED <<drainBusy, restarting>>
    BY <1>4 DEF BeginPowerOff, Begin, MayBegin, locks
  <2>4. op' = [op EXCEPT !["power"] = "PowerOff"] /\ Goto("power", "stopWorker")
    BY <1>4 DEF BeginPowerOff, Begin
  <2>. QED
    BY <2>1, <2>2, <2>3, <2>4, WakeKeeps DEF Controllers, HandlerNames, Elsewhere, Entries
<1>5. CASE BeginPowerOn
  <2>1. FlagsTyped'
    BY <1>5 DEF BeginPowerOn, Begin, FlagsTyped, live, locks, worker, device
  <2>2. DataTyped'
    BY <1>5 DEF BeginPowerOn, Begin, DataTyped, Controllers, dma, worker, budget
  <2>3. pc["power"] = "idle" /\ UNCHANGED <<drainBusy, restarting>>
    BY <1>5 DEF BeginPowerOn, Begin, MayBegin, locks
  <2>4. op' = [op EXCEPT !["power"] = "PowerOn"] /\ Goto("power", "super")
    BY <1>5 DEF BeginPowerOn, Begin
  <2>. QED
    BY <2>1, <2>2, <2>3, <2>4, WakeKeeps DEF Controllers, HandlerNames, Elsewhere, Entries
<1>6. ASSUME NEW o \in {"BeginRead", "WriteEnd"}, BeginCallback(o)
      PROVE  IInv'
  <2>1. FlagsTyped'
    BY <1>6 DEF BeginCallback, FlagsTyped, live, locks, worker, device
  <2>2. DataTyped'
    BY <1>6 DEF BeginCallback, DataTyped, dma, worker, budget
  <2>3. pc["io"] = "idle" /\ UNCHANGED <<drainBusy, restarting>>
    BY <1>6 DEF BeginCallback, locks
  <2>4. PICK s \in Elsewhere : op' = [op EXCEPT !["io"] = o] /\ Goto("io", s)
    BY <1>6 DEF BeginCallback, Elsewhere, Entries
  <2>. QED
    BY <2>1, <2>2, <2>3, <2>4, WakeKeeps DEF HandlerNames
<1>. QED
  BY <1>1, <1>2, <1>3, <1>4, <1>5, <1>6 DEF Request

\* At rest nobody holds a lock and no restart is pending.
LEMMA InitEstablishes == Init => IInv
<1>. SUFFICES ASSUME Init PROVE IInv
  OBVIOUS
<1>1. FlagsTyped /\ DataTyped
  BY DEF Init, FlagsTyped, DataTyped
<1>2. ControlTyped
  BY DEF Init, ControlTyped, HandlerNames
<1>3. DrainLock
  BY DEF Init, DrainLock, InDrain
<1>4. OneRestart
  BY DEF Init, OneRestart, Threads
<1>. QED
  BY <1>1, <1>2, <1>3, <1>4 DEF IInv, TypeOK

\* No step breaks the invariant.
LEMMA NextKeeps ==
    ASSUME IInv, [Next]_vars
    PROVE  IInv'
<1>1. ASSUME NEW t \in Threads, ThreadStep(t) PROVE IInv'
  BY <1>1, HandlerKeeps, StopKeeps, StartKeeps, HarvestKeeps, PushKeeps, RefreshKeeps
  DEF ThreadStep
<1>2. CASE UNCHANGED vars
  <2>1. FlagsTyped'
    BY <1>2 DEF vars, live, locks, worker, device, IInv, TypeOK, FlagsTyped
  <2>2. DataTyped'
    BY <1>2 DEF vars, dma, worker, budget, IInv, TypeOK, DataTyped
  <2>3. ControlTyped' /\ DrainLock' /\ OneRestart'
    BY <1>2 DEF vars, locks, IInv, TypeOK, ControlTyped, DrainLock, InDrain, OneRestart
  <2>. QED
    BY <2>1, <2>2, <2>3 DEF IInv, TypeOK
<1>. QED
  BY <1>1, <1>2, WorkerKeeps, RequestKeeps DEF Next

\* The invariant holds in every reachable state.
LEMMA Inductive == Spec => []IInv
BY InitEstablishes, NextKeeps, PTL DEF Spec

\* Every variable of the stream keeps its type, whatever handlers, callbacks and
\* blocks run and however the device answers.
THEOREM TypeCorrect == Spec => []TypeOK
<1>1. IInv => TypeOK
  BY DEF IInv
<1>. QED
  BY <1>1, Inductive, PTL

\* Harvests exclude each other (gDigiLiveDrainBusy), however many workers,
\* callbacks and prebuffer loops call HarvestDigiLiveIsoStream.
THEOREM DrainLockHolds == Spec => []DrainLock
<1>1. IInv => DrainLock
  BY DEF IInv
<1>. QED
  BY <1>1, Inductive, PTL

\* gAudioRuntimeRestartInProgress is set exactly while a restart block waits or
\* runs, whoever requests restarts.
THEOREM OneRestartHolds == Spec => []OneRestart
<1>1. IInv => OneRestart
  BY DEF IInv
<1>. QED
  BY <1>1, Inductive, PTL

-----------------------------------------------------------------------------
(***************************************************************************)
(* The live stream while its controllers take turns: CoreAudio runs no      *)
(* callback during a handler, no two handlers run at once, and the two      *)
(* bounded waits end because what they wait for has happened.               *)
(*                                                                          *)
(* Until a restart block is dispatched, no thread touches memory that was   *)
(* released, pushes and transactions never overlap, the contexts run in the *)
(* live buffer while the stream runs, and a stop leaves nothing behind.     *)
(* None of this is inductive by itself.  The invariant SInv adds where each *)
(* thread may be in its handler (Placed), which of them may be awake        *)
(* together (Alone, WorkersStopped), what the counters of StopAudioRefresh- *)
(* Worker say of the worker blocks (WorkersCounted), and what each flag     *)
(* says of the stream (FlagsMean, StreamGone, StreamKnown).                 *)
(*                                                                          *)
(* The last part shows two cases in which a restart is never asked for.     *)
(***************************************************************************)

\* CoreAudio runs no callback during a handler, and no two handlers run at once.
Quiesces == HALQuiesces /\ ~HandlersOverlap

-----------------------------------------------------------------------------
(* The code of the handlers, as the calls that each may execute. *)

Drains == {"harvest", "harvestLock", "sync", "process"}
Pushes == {"push", "pushLock", "plan", "write"}
Captures == {"capture", "markCapture", "capturing"}
Stopping == {"stopContexts", "drainWait", "release", "stopped"}
Stops == {"stopLive", "markStopping"} \cup Stopping
Starting == {"transactions", "createBuffer", "configure", "runContexts",
             "startFail", "undoStart", "startDone", "startUndone"}
Starts == {"startLive", "markStarting"} \cup Starting

StartDeviceCode ==
    {"stopWorker", "stopWait", "reset", "harvestLoop", "startWorker", "dispatch",
     "super", "finish"} \cup Stops \cup Starts \cup Drains \cup Captures
StopDeviceCode ==
    {"super", "stopWorker", "stopWait", "silence", "finish"} \cup Pushes \cup Stops
PowerOffCode == {"stopWorker", "stopWait", "reset", "super", "finish"} \cup Stops
PowerOnCode == {"super", "request", "requestTake", "finish"}
ChangeLiveRateCode ==
    {"stopWorker", "stopWait", "reset", "super", "harvestLoop", "startWorker",
     "dispatch", "finish"} \cup Stops \cup Starts \cup Drains
ChangeIdleRateCode == {"super", "finish"}
WorkerCode == {"loop", "workerPush"} \cup Drains \cup Pushes \cup Captures
BeginReadCode == {"request", "requestTake", "harvestLoop", "finish"} \cup Drains
WriteEndCode == {"request", "requestTake", "finish"} \cup Pushes

\* Thread t may execute call s of handler o
Places(t, o, s) ==
    \/ t = "audio" /\ o = "StartDevice" /\ s \in StartDeviceCode
    \/ t = "audio" /\ o = "StopDevice" /\ s \in StopDeviceCode
    \/ t = "audio" /\ o = "ChangeLiveRate" /\ s \in ChangeLiveRateCode
    \/ t = "audio" /\ o = "ChangeIdleRate" /\ s \in ChangeIdleRateCode
    \/ t = "power" /\ o = "PowerOff" /\ s \in PowerOffCode
    \/ t = "power" /\ o = "PowerOn" /\ s \in PowerOnCode
    \/ t = "io" /\ o = "BeginRead" /\ s \in BeginReadCode
    \/ t = "io" /\ o = "WriteEnd" /\ s \in WriteEndCode
    \/ t \in Workers /\ o = "Worker" /\ s \in WorkerCode

\* Every thread is in the code of the handler it runs
Placed == \A t \in Threads : pc[t] # "idle" => Places(t, op[t], pc[t])

-----------------------------------------------------------------------------
(* The invariant. *)

\* Controllers and callbacks take turns; the worker blocks may run beside them
Alone ==
    /\ pc["audio"] # "idle" => pc["power"] = "idle"
    /\ pc["io"] # "idle" => pc["audio"] = "idle" /\ pc["power"] = "idle"
    /\ pc["restart"] = "idle"

\* Which handlers the controllers ran last; with the power off only a StartDevice starts
\* anything
PowerKnown ==
    /\ op["audio"] \in {"StartDevice", "StopDevice", "ChangeLiveRate", "ChangeIdleRate"}
    /\ op["power"] \in {"PowerOff", "PowerOn", "StopDevice"}
    /\ power # "on" <=> op["power"] = "PowerOff"
    /\ power = "off" => pc["audio"] = "idle" \/ op["audio"] \in {"StopDevice", "ChangeIdleRate"}

\* Controller c has ended its handler by stopping the stream
Ended(c, o, s, p) ==
    /\ s \in {"finish", "idle"}
    /\ (c = "audio" /\ o = "StopDevice") \/ (c = "power" /\ o = "PowerOff" /\ p = "off")

\* Calls that a controller makes after it has stopped the worker
Past == Stops \cup Starts \cup Drains \cup Pushes \cup Captures
        \cup {"reset", "silence", "harvestLoop", "startWorker", "dispatch"}

\* Where a controller knows that no worker runs and none is to go on
NoWorkerAt(c, o, s, p) ==
    \/ s \in Past
    \/ s = "super" /\ o \in {"PowerOff", "ChangeLiveRate"}
    \/ Ended(c, o, s, p)

\* The dispatch and the exit counter differ by the one worker block there is
WorkersCounted ==
    /\ OneWorker
    /\ (\A w \in Workers : pc[w] = "idle") => dispatched = exited
    /\ (\E w \in Workers : pc[w] # "idle") => dispatched = exited + 1
    /\ \A c \in Controllers : pc[c] = "stopWait" => ~workerRunning /\ expected[c] = dispatched

WorkersStopped ==
    \A c \in Controllers :
        NoWorkerAt(c, op[c], pc[c], power) => ~workerRunning /\ \A w \in Workers : pc[w] = "idle"

\* Whoever is in the push holds gDigiLiveOutputPushInProgress
PushLocked == OnePusher /\ \A t \in Threads : InPush(t) => pushBusy

\* Calls made with an address in the live buffer at hand
Addressing == {"process", "write", "configure", "runContexts"}

Held == \A t \in Threads : hold[t] = IF pc[t] \in Addressing THEN "live" ELSE "none"

\* gDigiLiveStopping and gDigiLiveStarting are set exactly during a stop and a start
FlagsMean ==
    /\ stopping <=> \E c \in Controllers : pc[c] \in Stopping
    /\ starting <=> \E c \in Controllers : pc[c] \in Starting

\* Calls made only while the stream does not run
NotRunningAt == (Starts \ {"startLive", "startDone"}) \cup Stopping \cup Captures

\* Where a controller knows that the stream is stopped and its memory is given back
GoneAt(c, o, s, p) ==
    \/ s \in {"reset", "markStarting", "transactions", "createBuffer"}
    \/ s = "super" /\ o \in {"PowerOff", "ChangeLiveRate"}
    \/ Ended(c, o, s, p)

StreamGone == \A c \in Controllers : GoneAt(c, op[c], pc[c], power) => ~running /\ buffer = "none"

\* Calls made while the buffer may be mapped although the stream does not run
MappedAt == {"stopContexts", "drainWait", "release", "configure", "runContexts",
             "startFail", "undoStart"}

\* What gDigiLiveRunning says of the contexts and of the buffer
StreamKnown ==
    /\ \A t \in Threads : pc[t] \in NotRunningAt => ~running
    /\ running => hold["ohci"] = "live"
    /\ hold["ohci"] = "live" => running \/ \E c \in Controllers : pc[c] = "stopContexts"
    /\ hold["ohci"] # "stale"
    /\ buffer = "mapped" => running \/ \E c \in Controllers : pc[c] \in MappedAt
    /\ ready => running

SInv ==
    /\ TypeOK /\ Placed /\ Alone /\ PowerKnown
    /\ WorkersCounted /\ WorkersStopped /\ PushLocked
    /\ Held /\ FlagsMean /\ StreamGone /\ StreamKnown

USE DEF Drains, Pushes, Captures, Stopping, Stops, Starting, Starts

\* Names of threads are different.
LEMMA Names ==
    /\ "audio" \in Threads /\ "power" \in Threads /\ "io" \in Threads /\ "restart" \in Threads
    /\ "ohci" \notin Threads /\ Controllers = {"audio", "power"}
    /\ \A w \in Workers : w \in Threads
          /\ w # "audio" /\ w # "power" /\ w # "io" /\ w # "restart" /\ w # "ohci"
    /\ \A t \in Threads : t = "audio" \/ t = "power" \/ t = "io" \/ t = "restart" \/ t \in Workers
BY WorkersAssumption DEF Threads, Controllers

\* What a handler calls next, for the calls that it makes.
LEMMA TableValues ==
    /\ LET h == Handlers["StartDevice"] IN
       /\ h["stopWorker"] = "stopLive" /\ h["stopLive"] = "reset" /\ h["reset"] = "startLive"
       /\ h["startOK"] = "harvestLoop" /\ h["startFailed"] = "capture"
       /\ h["harvest"] = "harvestLoop" /\ h["harvestLoop"] = "startWorker"
       /\ h["capture"] = "startWorker" /\ h["startWorker"] = "super" /\ h["super"] = "finish"
    /\ LET h == Handlers["StopDevice"] IN
       /\ h["super"] = "stopWorker" /\ h["stopWorker"] = "silence" /\ h["push"] = "silence"
       /\ h["silence"] = "stopLive" /\ h["stopLive"] = "finish"
    /\ LET h == Handlers["PowerOff"] IN
       /\ h["stopWorker"] = "stopLive" /\ h["stopLive"] = "reset"
       /\ h["reset"] = "super" /\ h["super"] = "finish"
    /\ LET h == Handlers["PowerOn"] IN h["super"] = "finish" /\ h["request"] = "finish"
    /\ LET h == Handlers["ChangeLiveRate"] IN
       /\ h["stopWorker"] = "stopLive" /\ h["stopLive"] = "reset" /\ h["reset"] = "super"
       /\ h["super"] = "startLive" /\ h["startOK"] = "harvestLoop" /\ h["startFailed"] = "finish"
       /\ h["harvest"] = "harvestLoop" /\ h["harvestLoop"] = "startWorker"
       /\ h["startWorker"] = "finish"
    /\ LET h == Handlers["ChangeIdleRate"] IN h["super"] = "finish"
    /\ LET h == Handlers["Worker"] IN
       h["harvest"] = "workerPush" /\ h["capture"] = "workerPush" /\ h["push"] = "loop"
    /\ LET h == Handlers["BeginRead"] IN
       h["request"] = "harvestLoop" /\ h["harvest"] = "harvestLoop" /\ h["harvestLoop"] = "finish"
    /\ LET h == Handlers["WriteEnd"] IN h["request"] = "push" /\ h["push"] = "finish"
BY DEF Handlers, StartDeviceCalls, StopDeviceCalls, PowerOffCalls, PowerOnCalls,
       ChangeLiveRateCalls, RestartedCalls, ChangeIdleRateCalls, WorkerCalls,
       BeginReadCalls, WriteEndCalls, Finish, Calls

\* A controller past the stop of the worker is alone.
LEMMA Solitude ==
    ASSUME SInv, NEW c \in Controllers, pc[c] \in Past
    PROVE  \A t \in Threads \ {c} : pc[t] = "idle"
<1>1. pc[c] # "idle" /\ NoWorkerAt(c, op[c], pc[c], power)
  BY DEF Past, NoWorkerAt
<1>2. \A w \in Workers : pc[w] = "idle"
  BY <1>1 DEF SInv, WorkersStopped
<1>. QED
  BY <1>1, <1>2, Names DEF SInv, Alone

\* A step of one thread that leaves the stream, the worker and the flags of the life
\* cycle alone.
LEMMA LocalKeeps ==
    ASSUME SInv, TypeOK', NEW t \in Threads, pc[t] # "idle", NEW s,
           Goto(t, s), UNCHANGED <<live, buffer, op, expected, power>>,
           UNCHANGED <<workerRunning, dispatched, exited>>,
           s # "idle" => Places(t, op[t], s),
           s = "idle" => t \notin Workers,
           \/ hold' = [hold EXCEPT ![t] = IF s \in Addressing THEN "live" ELSE "none"]
           \/ /\ ~running
              /\ hold' = [hold EXCEPT ![t] = IF s \in Addressing THEN "live" ELSE "none",
                                     !["ohci"] = "none"],
           s \in {"plan", "write"} => pushBusy' /\ (InPush(t) \/ ~pushBusy),
           pushBusy /\ ~InPush(t) => pushBusy',
           s \in Stopping <=> pc[t] \in Stopping, s \in Starting <=> pc[t] \in Starting,
           s = "stopContexts" <=> pc[t] = "stopContexts",
           pc[t] \in MappedAt /\ buffer = "mapped" => s \in MappedAt,
           s \in NotRunningAt => ~running,
           t \in Controllers /\ NoWorkerAt(t, op[t], s, power) =>
               ~workerRunning /\ \A w \in Workers : pc[w] = "idle",
           t \in Controllers /\ GoneAt(t, op[t], s, power) => ~running /\ buffer = "none",
           s # "stopWait"
    PROVE  SInv'
<1>. USE DEF SInv
<1>1. pc' = [pc EXCEPT ![t] = s] /\ DOMAIN pc = Threads /\ DOMAIN hold = Threads \cup {"ohci"}
  BY DEF Goto, TypeOK, ControlTyped, DataTyped
<1>2. /\ UNCHANGED <<running, ready, starting, stopping, buffer, workerRunning, dispatched,
                     exited, op, expected, power>>
      /\ hold'["ohci"] = hold["ohci"] \/ (~running /\ hold'["ohci"] = "none")
      /\ \A u \in Threads \ {t} : hold'[u] = hold[u]
      /\ hold'[t] = IF s \in Addressing THEN "live" ELSE "none"
  <2>1. UNCHANGED <<running, ready, starting, stopping, buffer, workerRunning, dispatched,
                    exited, op, expected, power>>
    BY DEF live
  <2>2. t # "ohci" /\ t \in DOMAIN hold /\ "ohci" \notin Threads
    BY <1>1, Names
  <2>. QED
    BY <1>1, <2>1, <2>2
<1>3. Placed'
  BY <1>1, <1>2 DEF Placed, Places
<1>4. Alone'
  BY <1>1, <1>2, Names DEF Alone
<1>5. PowerKnown'
  BY <1>1, <1>2, Names DEF PowerKnown
<1>6. WorkersCounted'
  BY <1>1, <1>2, Names DEF WorkersCounted, OneWorker
<1>7. WorkersStopped'
  BY <1>1, <1>2, Names DEF WorkersStopped
<1>8. PushLocked'
  BY <1>1, <1>2 DEF PushLocked, OnePusher, InPush
<1>9. Held'
  BY <1>1, <1>2 DEF Held
<1>10. FlagsMean'
  BY <1>1, <1>2, Names DEF FlagsMean
<1>11. StreamGone'
  BY <1>1, <1>2, Names DEF StreamGone
<1>12. StreamKnown'
  BY <1>1, <1>2, Names DEF StreamKnown
<1>. QED
  BY <1>3, <1>4, <1>5, <1>6, <1>7, <1>8, <1>9, <1>10, <1>11, <1>12

\* A step of a controller that is alone, and may change the stream.
LEMMA SoloKeeps ==
    ASSUME SInv, TypeOK', NEW c \in Controllers, pc[c] \in Past,
           NEW s, s \in Past \cup {"super", "finish"},
           Goto(c, s), UNCHANGED <<worker, op, expected, power>>,
           Places(c, op[c], s),
           \A t \in Threads : hold'[t] = IF t = c /\ s \in Addressing THEN "live" ELSE "none",
           s \notin {"plan", "write"},
           stopping' <=> s \in Stopping, starting' <=> s \in Starting,
           s \in NotRunningAt => ~running',
           running' => op[c] \in {"StartDevice", "ChangeLiveRate"} \/ running,
           buffer' = "mapped" => op[c] \in {"StartDevice", "ChangeLiveRate"} \/ buffer = "mapped",
           GoneAt(c, op[c], s, power) => ~running' /\ buffer' = "none",
           running' => hold'["ohci"] = "live",
           hold'["ohci"] = "live" => running' \/ s = "stopContexts",
           hold'["ohci"] # "stale",
           buffer' = "mapped" => running' \/ s \in MappedAt,
           ready' => running'
    PROVE  SInv'
<1>0. \A t \in Threads \ {c} : pc[t] = "idle"
  BY Solitude
<1>. USE DEF SInv
<1>1. pc' = [pc EXCEPT ![c] = s] /\ DOMAIN pc = Threads /\ DOMAIN hold = Threads \cup {"ohci"}
  BY DEF Goto, TypeOK, ControlTyped, DataTyped
<1>2. /\ UNCHANGED <<workerRunning, dispatched, exited, capture, op, expected, power>>
      /\ pc[c] # "idle" /\ s # "idle" /\ s # "stopWait"
  BY DEF worker, Past
<1>3. \A t \in Threads \ {c} : pc[t] = "idle" /\ pc'[t] = "idle"
  BY <1>0, <1>1
<1>4. ~workerRunning
  BY DEF WorkersStopped, NoWorkerAt
<1>5. c \in Threads /\ pc'[c] = s
  BY <1>1, Names
<1>6. Placed'
  BY <1>1, <1>2, <1>3 DEF Placed, Places
<1>7. Alone'
  BY <1>1, <1>2, <1>3, Names DEF Alone
<1>8. PowerKnown'
  BY <1>1, <1>2, Names DEF PowerKnown
<1>9. WorkersCounted'
  BY <1>1, <1>2, <1>3, Names DEF WorkersCounted, OneWorker
<1>10. WorkersStopped'
  BY <1>1, <1>2, <1>3, <1>4, Names DEF WorkersStopped
<1>11. PushLocked'
  BY <1>1, <1>2, <1>3 DEF PushLocked, OnePusher, InPush
<1>12. Held'
  BY <1>1, <1>2, <1>3 DEF Held, Addressing
<1>13. FlagsMean'
  BY <1>3, <1>5, Names DEF FlagsMean
<1>14. StreamGone'
  <2>1. GoneAt(c, op[c], s, power)' => ~running' /\ buffer' = "none"
    BY <1>2 DEF GoneAt, Ended
  <2>2. ASSUME NEW d \in Controllers, d # c, GoneAt(d, op[d], pc[d], power)'
        PROVE  ~running' /\ buffer' = "none"
    <3>1. pc[d] = "idle" /\ pc'[d] = "idle" /\ op' = op
      BY <1>2, <1>3, <2>2, Names
    <3>2. Ended(d, op[d], "idle", power)
      BY <2>2, <3>1 DEF GoneAt, Ended
    <3>3. ~running /\ buffer = "none"
      BY <3>1, <3>2 DEF StreamGone, GoneAt
    <3>4. op[c] \notin {"StartDevice", "ChangeLiveRate"}
      BY <1>2, <3>2, Names DEF PowerKnown, Ended
    <3>. QED
      BY <3>3, <3>4 DEF TypeOK, DataTyped
  <2>. QED
    BY <1>2, <1>5, <2>1, <2>2 DEF StreamGone
<1>15. StreamKnown'
  BY <1>1, <1>3, <1>5, Names DEF StreamKnown, NotRunningAt, MappedAt
<1>. QED
  BY <1>6, <1>7, <1>8, <1>9, <1>10, <1>11, <1>12, <1>13, <1>14, <1>15


\* A step that only moves its thread on.
LEMMA QuietKeeps ==
    ASSUME SInv, TypeOK', NEW t \in Threads, NEW s, Goto(t, s),
           UNCHANGED <<live, dma, pushBusy, op, expected, power>>,
           UNCHANGED <<workerRunning, dispatched, exited>>,
           pc[t] \notin {"idle", "plan", "stopContexts", "configure"} \cup Addressing,
           s \notin {"plan", "stopContexts", "stopWait"} \cup Addressing,
           s # "idle" => Places(t, op[t], s),
           s = "idle" => t \notin Workers,
           s \in Stopping <=> pc[t] \in Stopping, s \in Starting <=> pc[t] \in Starting,
           pc[t] \in MappedAt /\ buffer = "mapped" => s \in MappedAt,
           s \in NotRunningAt => ~running,
           t \in Controllers /\ NoWorkerAt(t, op[t], s, power) =>
               ~workerRunning /\ \A w \in Workers : pc[w] = "idle",
           t \in Controllers /\ GoneAt(t, op[t], s, power) => ~running /\ buffer = "none"
    PROVE  SInv'
<1>1. hold' = [hold EXCEPT ![t] = IF s \in Addressing THEN "live" ELSE "none"]
  BY DEF dma, SInv, Held, TypeOK, DataTyped
<1>2. /\ s \in {"plan", "write"} => pushBusy' /\ (InPush(t) \/ ~pushBusy)
      /\ pushBusy /\ ~InPush(t) => pushBusy'
  BY DEF Addressing
<1>. QED
  BY <1>1, <1>2, LocalKeeps DEF dma, worker

USE DEF StartDeviceCode, StopDeviceCode, PowerOffCode, PowerOnCode, ChangeLiveRateCode,
        ChangeIdleRateCode, WorkerCode, BeginReadCode, WriteEndCode,
        Addressing, MappedAt, NotRunningAt, Past

\* The framework's own method returns, or the handler ends.
LEMMA HandlerSerial ==
    ASSUME SInv, TypeOK', NEW t \in Threads,
           SuperSucceeds(t) \/ SuperFails(t) \/ FinishHandler(t)
    PROVE  SInv'
<1>1. CASE SuperSucceeds(t) \/ SuperFails(t)
  <2>1. /\ pc[t] = "super"
        /\ \/ t = "power" /\ op[t] \in {"PowerOn", "PowerOff"}
           \/ t = "audio" /\ op[t] \in {"StartDevice", "StopDevice", "ChangeLiveRate",
                                        "ChangeIdleRate"}
    BY <1>1 DEF SInv, SuperSucceeds, SuperFails, Placed, Places
  <2>2. PICK s : /\ Goto(t, s)
                 /\ \/ s = "request" /\ op[t] = "PowerOn"
                    \/ s = Handlers[op[t]]["super"]
                    \/ s = "finish" /\ op[t] # "StopDevice"
    BY <1>1 DEF SuperSucceeds, SuperFails, Return
  <2>3. \/ t = "power" /\ op[t] = "PowerOn" /\ s \in {"request", "finish"}
        \/ t = "audio" /\ op[t] = "StartDevice" /\ s = "finish"
        \/ t = "audio" /\ op[t] = "StopDevice" /\ s = "stopWorker"
        \/ t = "power" /\ op[t] = "PowerOff" /\ s = "finish"
        \/ t = "audio" /\ op[t] = "ChangeLiveRate" /\ s \in {"startLive", "finish"}
        \/ t = "audio" /\ op[t] = "ChangeIdleRate" /\ s = "finish"
    BY <2>1, <2>2, TableValues
  <2>4. UNCHANGED <<live, dma, pushBusy, worker, op, expected, power>>
    BY <1>1, Zenon DEF SuperSucceeds, SuperFails, locks
  <2>5. Places(t, op[t], s)
    BY <2>3 DEF Places
  <2>6. /\ t \in Controllers /\ NoWorkerAt(t, op[t], s, power) =>
               ~workerRunning /\ \A w \in Workers : pc[w] = "idle"
        /\ t \in Controllers /\ GoneAt(t, op[t], s, power) => ~running /\ buffer = "none"
    BY <2>1, <2>3 DEF SInv, WorkersStopped, NoWorkerAt, StreamGone, GoneAt, Ended
  <2>. QED
    BY <2>1, <2>2, <2>3, <2>4, <2>5, <2>6, QuietKeeps DEF worker
<1>2. CASE FinishHandler(t)
  <2>1. Goto(t, "idle") /\ pc[t] = "finish" /\ t \notin Workers
    BY <1>2, Names DEF FinishHandler, SInv, Placed, Places
  <2>2. UNCHANGED <<live, dma, pushBusy, worker, op, expected, power>>
    BY <1>2 DEF FinishHandler, device, locks
  <2>3. /\ t \in Controllers /\ NoWorkerAt(t, op[t], "idle", power) =>
               ~workerRunning /\ \A w \in Workers : pc[w] = "idle"
        /\ t \in Controllers /\ GoneAt(t, op[t], "idle", power) => ~running /\ buffer = "none"
    BY <2>1 DEF SInv, WorkersStopped, NoWorkerAt, StreamGone, GoneAt, Ended
  <2>. QED
    BY <2>1, <2>2, <2>3, QuietKeeps DEF worker
<1>. QED
  BY <1>1, <1>2

\* Stopping the worker and the stream.
LEMMA StopSerial ==
    ASSUME SInv, TypeOK', NEW t \in Threads, Stop(t), ~WaitsExpire
    PROVE  SInv'
<1>1. CASE StopAudioRefreshWorker(t)
  <2>1. /\ pc[t] = "stopWorker" /\ ~workerRunning'
        /\ expected' = [expected EXCEPT ![t] = dispatched]
        /\ UNCHANGED <<live, dma, locks, dispatched, exited, op, power>>
    BY <1>1 DEF StopAudioRefreshWorker, device
  <2>2. \/ t = "audio" /\ op[t] \in {"StartDevice", "StopDevice", "ChangeLiveRate"}
        \/ t = "power" /\ op[t] = "PowerOff"
    BY <2>1 DEF SInv, Placed, Places
  <2>3. PICK s : /\ Goto(t, s)
                 /\ \/ s = "stopWait"
                    \/ /\ s = IF op[t] = "StopDevice" THEN "silence" ELSE "stopLive"
                       /\ exited >= dispatched
    BY <1>1, <2>2, TableValues
    DEF StopAudioRefreshWorker, Return, SInv, TypeOK, DataTyped
  <2>4. /\ pc' = [pc EXCEPT ![t] = s] /\ DOMAIN pc = Threads /\ t \in Controllers
        /\ t \notin Workers
    BY <2>2, <2>3, Names DEF Goto, SInv, TypeOK, ControlTyped
  <2>5. s # "stopWait" => \A w \in Workers : pc[w] = "idle"
    BY <2>3 DEF SInv, WorkersCounted, TypeOK, DataTyped
  <2>6. Placed'
    BY <2>1, <2>2, <2>3, <2>4 DEF SInv, Placed, Places
  <2>7. Alone' /\ PowerKnown'
    BY <2>1, <2>3, <2>4, Names DEF SInv, Alone, PowerKnown
  <2>8. WorkersCounted'
    <3>1. \A c \in Controllers \ {t} : pc'[c] = "idle"
      BY <2>1, <2>4, Names DEF SInv, Alone
    <3>2. expected'[t] = dispatched
      BY <2>1, <2>4 DEF SInv, TypeOK, DataTyped
    <3>. QED
      BY <2>1, <2>3, <2>4, <3>1, <3>2, Names DEF SInv, WorkersCounted, OneWorker
  <2>9. WorkersStopped'
    <3>1. ASSUME NEW c \in Controllers, NoWorkerAt(c, op[c], pc[c], power)'
          PROVE  \A w \in Workers : pc[w] = "idle"
      <4>1. CASE c = t
        BY <2>4, <2>5, <3>1, <4>1, Names DEF NoWorkerAt, Ended
      <4>2. CASE c # t
        BY <2>1, <2>4, <3>1, <4>2, Names DEF SInv, WorkersStopped, NoWorkerAt, Ended
      <4>. QED
        BY <4>1, <4>2
    <3>. QED
      BY <2>1, <2>4, <3>1, Names DEF WorkersStopped
  <2>10. PushLocked' /\ Held'
    BY <2>1, <2>3, <2>4 DEF SInv, PushLocked, OnePusher, InPush, Held, locks, dma
  <2>11. FlagsMean'
    BY <2>1, <2>3, <2>4 DEF SInv, FlagsMean, live
  <2>12. StreamGone'
    BY <2>1, <2>3, <2>4 DEF SInv, StreamGone, GoneAt, Ended, live, dma
  <2>13. StreamKnown'
    BY <2>1, <2>3, <2>4 DEF SInv, StreamKnown, live, dma
  <2>. QED
    BY <2>6, <2>7, <2>8, <2>9, <2>10, <2>11, <2>12, <2>13 DEF SInv
<1>2. CASE AwaitWorkerExit(t)
  <2>1. pc[t] = "stopWait" /\ exited >= expected[t]
        /\ UNCHANGED <<live, dma, pushBusy, worker, op, expected, power>>
    BY <1>2 DEF AwaitWorkerExit, WorkerStopped, device, locks
  <2>2. \/ t = "audio" /\ op[t] \in {"StartDevice", "StopDevice", "ChangeLiveRate"}
        \/ t = "power" /\ op[t] = "PowerOff"
    BY <2>1 DEF SInv, Placed, Places
  <2>3. PICK s : /\ Goto(t, s)
                 /\ s = IF op[t] = "StopDevice" THEN "silence" ELSE "stopLive"
    BY <1>2, <2>2, TableValues DEF AwaitWorkerExit, Return
  <2>4. ~workerRunning /\ \A w \in Workers : pc[w] = "idle"
    BY <2>1, <2>2 DEF SInv, WorkersCounted, Controllers, TypeOK, DataTyped
  <2>5. Places(t, op[t], s)
    BY <2>2, <2>3 DEF Places
  <2>6. ~GoneAt(t, op[t], s, power)
    BY <2>3 DEF GoneAt, Ended
  <2>. QED
    BY <2>1, <2>3, <2>4, <2>5, <2>6, QuietKeeps DEF worker
<1>3. CASE PushStopSilence(t)
  <2>1. /\ pc[t] = "silence"
        /\ UNCHANGED <<live, dma, pushBusy, worker, op, expected, power>>
    BY <1>3 DEF PushStopSilence, device, locks
  <2>2. t = "audio" /\ op[t] = "StopDevice"
    BY <2>1 DEF SInv, Placed, Places
  <2>3. PICK s \in {"push", "stopLive"} : Goto(t, s)
    BY <1>3, <2>2, TableValues DEF PushStopSilence, Return
  <2>4. ~workerRunning /\ \A w \in Workers : pc[w] = "idle"
    BY <2>1, <2>2 DEF SInv, WorkersStopped, NoWorkerAt, Controllers
  <2>5. Places(t, op[t], s)
    BY <2>2, <2>3 DEF Places
  <2>6. ~GoneAt(t, op[t], s, power)
    BY <2>3 DEF GoneAt, Ended
  <2>. QED
    BY <2>1, <2>3, <2>4, <2>5, <2>6, QuietKeeps DEF worker
<1>4. CASE StopDigiLiveStreamForAudio(t)
  <2>1. /\ pc[t] = "stopLive"
        /\ UNCHANGED <<live, dma, pushBusy, worker, op, expected, power>>
    BY <1>4 DEF StopDigiLiveStreamForAudio, device, locks
  <2>2. \/ t = "audio" /\ op[t] \in {"StartDevice", "StopDevice", "ChangeLiveRate"}
        \/ t = "power" /\ op[t] = "PowerOff"
    BY <2>1 DEF SInv, Placed, Places
  <2>3. \A c \in Threads \ {t} : pc[c] = "idle"
    BY <2>1, <2>2, Solitude DEF Controllers
  <2>4. ~stopping
    BY <2>1, <2>3, Names DEF SInv, FlagsMean
  <2>5. PICK s : /\ Goto(t, s)
                 /\ \/ s = "markStopping"
                    \/ /\ s = IF op[t] = "StopDevice" THEN "finish" ELSE "reset"
                       /\ ~running /\ buffer = "none"
    BY <1>4, <2>2, <2>4, TableValues
    DEF StopDigiLiveStreamForAudio, Return, DigiLiveStreamMayNeedStop
  <2>6. ~workerRunning /\ \A w \in Workers : pc[w] = "idle"
    BY <2>1, <2>2 DEF SInv, WorkersStopped, NoWorkerAt, Controllers
  <2>7. Places(t, op[t], s)
    BY <2>2, <2>5 DEF Places
  <2>8. GoneAt(t, op[t], s, power) => ~running /\ buffer = "none"
    BY <2>5 DEF GoneAt, Ended
  <2>. QED
    BY <2>1, <2>5, <2>6, <2>7, <2>8, QuietKeeps DEF worker
<1>7. CASE AwaitDrain(t)
  <2>1. /\ pc[t] = "drainWait" /\ Goto(t, "release")
        /\ UNCHANGED <<live, dma, pushBusy, worker, op, expected, power>>
    BY <1>7 DEF AwaitDrain, device, locks
  <2>2. \/ t = "audio" /\ op[t] \in {"StartDevice", "StopDevice", "ChangeLiveRate"}
        \/ t = "power" /\ op[t] = "PowerOff"
    BY <2>1 DEF SInv, Placed, Places
  <2>3. ~workerRunning /\ \A w \in Workers : pc[w] = "idle"
    BY <2>1, <2>2 DEF SInv, WorkersStopped, NoWorkerAt, Controllers
  <2>4. ~running
    BY <2>1, Names DEF SInv, StreamKnown
  <2>5. Places(t, op[t], "release")
    BY <2>2 DEF Places
  <2>6. ~GoneAt(t, op[t], "release", power)
    BY DEF GoneAt, Ended
  <2>. QED
    BY <2>1, <2>3, <2>4, <2>5, <2>6, QuietKeeps DEF worker
<1>5. CASE MarkStopping(t)
  <2>1. /\ pc[t] = "markStopping" /\ Goto(t, "stopContexts")
        /\ stopping' /\ ~running' /\ ~ready'
        /\ UNCHANGED <<starting, dma, worker, locks, op, expected, power>>
    BY <1>5, Zenon DEF MarkStopping, device
  <2>2. \/ t = "audio" /\ op[t] \in {"StartDevice", "StopDevice", "ChangeLiveRate"}
        \/ t = "power" /\ op[t] = "PowerOff"
    BY <2>1 DEF SInv, Placed, Places
  <2>3. \A u \in Threads \ {t} : pc[u] = "idle"
    BY <2>1, <2>2, Solitude DEF Controllers
  <2>4. Places(t, op[t], "stopContexts")
    BY <2>2 DEF Places
  <2>5. \A u \in Threads : hold'[u] = "none"
    BY <2>1, <2>3 DEF SInv, Held, dma
  <2>6. ~starting /\ ~GoneAt(t, op[t], "stopContexts", power)
    BY <2>1, <2>2, <2>3, Names DEF SInv, FlagsMean, GoneAt, Ended
  <2>. QED
    BY <2>1, <2>2, <2>4, <2>5, <2>6, SoloKeeps DEF SInv, StreamKnown, dma, Controllers
<1>6. CASE StopContexts(t)
  <2>1. /\ pc[t] = "stopContexts" /\ Goto(t, "drainWait")
        /\ hold' = [hold EXCEPT !["ohci"] = "none"]
        /\ UNCHANGED <<live, buffer, worker, locks, op, expected, power>>
    BY <1>6 DEF StopContexts, Holding, device
  <2>2. \/ t = "audio" /\ op[t] \in {"StartDevice", "StopDevice", "ChangeLiveRate"}
        \/ t = "power" /\ op[t] = "PowerOff"
    BY <2>1 DEF SInv, Placed, Places
  <2>3. \A u \in Threads \ {t} : pc[u] = "idle"
    BY <2>1, <2>2, Solitude DEF Controllers
  <2>4. Places(t, op[t], "drainWait")
    BY <2>2 DEF Places
  <2>5. hold'["ohci"] = "none" /\ \A u \in Threads : hold'[u] = "none"
    BY <2>1, <2>3, Names DEF SInv, Held, TypeOK, DataTyped
  <2>6. stopping' /\ ~ready' /\ ~starting' /\ ~running'
    BY <2>1, <2>2, <2>3, Names DEF SInv, FlagsMean, StreamKnown, live
  <2>7. ~GoneAt(t, op[t], "drainWait", power)
    BY DEF GoneAt, Ended
  <2>. QED
    BY <2>1, <2>2, <2>4, <2>5, <2>6, <2>7, SoloKeeps DEF Controllers
<1>8. CASE ReleaseLiveBuffer(t)
  <2>1. /\ pc[t] = "release" /\ Goto(t, "stopped")
        /\ hold' = Invalidated(hold) /\ buffer' = "none"
        /\ UNCHANGED <<live, worker, locks, op, expected, power>>
    BY <1>8 DEF ReleaseLiveBuffer, device
  <2>2. \/ t = "audio" /\ op[t] \in {"StartDevice", "StopDevice", "ChangeLiveRate"}
        \/ t = "power" /\ op[t] = "PowerOff"
    BY <2>1 DEF SInv, Placed, Places
  <2>3. \A u \in Threads \ {t} : pc[u] = "idle"
    BY <2>1, <2>2, Solitude DEF Controllers
  <2>4. Places(t, op[t], "stopped")
    BY <2>2 DEF Places
  <2>5. stopping' /\ ~ready' /\ ~starting' /\ ~running /\ ~running'
    BY <2>1, <2>2, <2>3, Names DEF SInv, FlagsMean, StreamKnown, live
  <2>6. hold["ohci"] = "none"
    BY <2>1, <2>3, <2>5, Names DEF SInv, StreamKnown, TypeOK, DataTyped
  <2>7. hold'["ohci"] = "none" /\ \A u \in Threads : hold'[u] = "none"
    BY <2>1, <2>3, <2>6 DEF SInv, Held, TypeOK, DataTyped, Invalidated
  <2>8. ~GoneAt(t, op[t], "stopped", power)
    BY DEF GoneAt, Ended
  <2>. QED
    BY <2>1, <2>2, <2>4, <2>5, <2>7, <2>8, SoloKeeps DEF Controllers
<1>9. CASE StopDone(t)
  <2>1. /\ pc[t] = "stopped"
        /\ ~running' /\ ~ready' /\ ~stopping'
        /\ UNCHANGED <<starting, dma, worker, locks, op, expected, power>>
    BY <1>9, Zenon DEF StopDone, device
  <2>2. \/ t = "audio" /\ op[t] \in {"StartDevice", "StopDevice", "ChangeLiveRate"}
        \/ t = "power" /\ op[t] = "PowerOff"
    BY <2>1 DEF SInv, Placed, Places
  <2>3. \A u \in Threads \ {t} : pc[u] = "idle"
    BY <2>1, <2>2, Solitude DEF Controllers
  <2>4. PICK s : Goto(t, s) /\ s = IF op[t] = "StopDevice" THEN "finish" ELSE "reset"
    BY <1>9, <2>2, TableValues DEF StopDone, Return
  <2>5. Places(t, op[t], s)
    BY <2>2, <2>4 DEF Places
  <2>6. ~starting' /\ ~running /\ hold["ohci"] = "none" /\ buffer = "none"
    BY <2>1, <2>2, <2>3, Names DEF SInv, FlagsMean, StreamKnown, TypeOK, DataTyped
  <2>7. hold'["ohci"] = "none" /\ \A u \in Threads : hold'[u] = "none"
    BY <2>1, <2>3, <2>6 DEF SInv, Held, dma
  <2>. QED
    BY <2>1, <2>2, <2>4, <2>5, <2>6, <2>7, SoloKeeps DEF Controllers, dma
<1>10. CASE ResetDigiLiveOutputState(t)
  <2>1. /\ pc[t] = "reset"
        /\ UNCHANGED <<live, dma, worker, op, expected, power>>
    BY <1>10 DEF ResetDigiLiveOutputState, device
  <2>2. \/ t = "audio" /\ op[t] \in {"StartDevice", "ChangeLiveRate"}
        \/ t = "power" /\ op[t] = "PowerOff"
    BY <2>1 DEF SInv, Placed, Places
  <2>3. \A u \in Threads \ {t} : pc[u] = "idle"
    BY <2>1, <2>2, Solitude DEF Controllers
  <2>4. PICK s : Goto(t, s) /\ s = IF op[t] = "StartDevice" THEN "startLive" ELSE "super"
    BY <1>10, <2>2, TableValues DEF ResetDigiLiveOutputState, Return
  <2>5. Places(t, op[t], s)
    BY <2>2, <2>4 DEF Places
  <2>6. ~running /\ buffer = "none"
    BY <2>1, <2>2 DEF SInv, StreamGone, GoneAt, Controllers
  <2>7. ~ready /\ ~starting /\ ~stopping /\ hold["ohci"] = "none"
    BY <2>1, <2>2, <2>3, <2>6, Names DEF SInv, FlagsMean, StreamKnown, TypeOK, DataTyped
  <2>8. hold'["ohci"] = "none" /\ \A u \in Threads : hold'[u] = "none"
    BY <2>1, <2>3, <2>7 DEF SInv, Held, dma
  <2>. QED
    BY <2>1, <2>2, <2>4, <2>5, <2>6, <2>7, <2>8, SoloKeeps DEF Controllers, dma, live
<1>. QED
  BY <1>1, <1>2, <1>3, <1>4, <1>5, <1>6, <1>7, <1>8, <1>9, <1>10 DEF Stop

\* Starting the stream.
LEMMA StartSerial ==
    ASSUME SInv, TypeOK', NEW t \in Threads, Start(t)
    PROVE  SInv'
<1>. DEFINE Op == t = "audio" /\ op[t] \in {"StartDevice", "ChangeLiveRate"}
<1>0. /\ Op /\ pc[t] \in Starts
      /\ \A u \in Threads \ {t} : pc[u] = "idle"
  <2>1. pc[t] \in Starts
    BY DEF Start, StartDigiLiveStreamForAudio, MarkStarting, RunDigiLiveBeginTransactions,
           CreateLiveBuffer, ConfigureDescriptors, RunContexts, StartFailed, UndoStart, StartDone
  <2>2. Op
    BY <2>1 DEF SInv, Placed, Places
  <2>. QED
    BY <2>1, <2>2, Solitude DEF Controllers
<1>1. CASE StartDigiLiveStreamForAudio(t)
  <2>1. /\ pc[t] = "startLive"
        /\ UNCHANGED <<live, dma, pushBusy, worker, op, expected, power>>
    BY <1>1 DEF StartDigiLiveStreamForAudio, device, locks
  <2>2. ~starting /\ ~stopping
    BY <1>0, <2>1, Names DEF SInv, FlagsMean
  <2>3. PICK s : /\ Goto(t, s)
                 /\ \/ s = "harvestLoop"
                    \/ s = "markStarting" /\ ~running
    BY <1>0, <1>1, <2>2, TableValues DEF StartDigiLiveStreamForAudio, Return, SInv, TypeOK, FlagsTyped
  <2>4. s = "markStarting" => buffer = "none"
    BY <1>0, <2>1, <2>3, Names DEF SInv, StreamKnown, TypeOK, DataTyped
  <2>5. ~workerRunning /\ \A w \in Workers : pc[w] = "idle"
    BY <1>0, <2>1 DEF SInv, WorkersStopped, NoWorkerAt, Controllers
  <2>6. Places(t, op[t], s)
    BY <1>0, <2>3 DEF Places
  <2>7. GoneAt(t, op[t], s, power) => ~running /\ buffer = "none"
    BY <2>3, <2>4 DEF GoneAt, Ended
  <2>. QED
    BY <2>1, <2>3, <2>5, <2>6, <2>7, QuietKeeps DEF worker
<1>2. CASE MarkStarting(t)
  <2>1. /\ pc[t] = "markStarting" /\ Goto(t, "transactions") /\ starting' /\ ~ready'
        /\ UNCHANGED <<running, stopping, dma, worker, op, expected, power>>
    BY <1>2, Zenon DEF MarkStarting, device
  <2>2. ~running /\ buffer = "none" /\ ~stopping /\ hold["ohci"] = "none"
    BY <1>0, <2>1, Names
    DEF SInv, StreamGone, GoneAt, FlagsMean, StreamKnown, TypeOK, DataTyped, Controllers
  <2>3. hold'["ohci"] = "none" /\ \A u \in Threads : hold'[u] = "none"
    BY <1>0, <2>1, <2>2 DEF SInv, Held, dma
  <2>4. Places(t, op[t], "transactions")
    BY <1>0 DEF Places
  <2>. QED
    BY <1>0, <2>1, <2>2, <2>3, <2>4, SoloKeeps DEF Controllers, dma
<1>3. CASE RunDigiLiveBeginTransactions(t)
  <2>1. /\ pc[t] = "transactions"
        /\ UNCHANGED <<live, dma, pushBusy, worker, op, expected, power>>
    BY <1>3 DEF RunDigiLiveBeginTransactions, device, locks
  <2>2. PICK s \in {"createBuffer", "startFail"} : Goto(t, s)
    BY <1>3 DEF RunDigiLiveBeginTransactions
  <2>3. ~workerRunning /\ \A w \in Workers : pc[w] = "idle"
    BY <1>0, <2>1 DEF SInv, WorkersStopped, NoWorkerAt, Controllers
  <2>4. ~running /\ buffer = "none"
    BY <1>0, <2>1 DEF SInv, StreamGone, GoneAt, Controllers
  <2>5. Places(t, op[t], s)
    BY <1>0, <2>2 DEF Places
  <2>. QED
    BY <2>1, <2>2, <2>3, <2>4, <2>5, QuietKeeps DEF worker
<1>4. CASE CreateLiveBuffer(t)
  <2>1. /\ pc[t] = "createBuffer"
        /\ UNCHANGED <<live, worker, locks, op, expected, power>>
    BY <1>4 DEF CreateLiveBuffer, device
  <2>2. PICK ok \in BOOLEAN :
          /\ buffer' = IF ok THEN "mapped" ELSE "none"
          /\ hold' = [Invalidated(hold) EXCEPT ![t] = IF ok THEN "live" ELSE "none"]
          /\ Goto(t, IF ok THEN "configure" ELSE "startFail")
    BY <1>4 DEF CreateLiveBuffer, MayFail
  <2>3. ~ready' /\ ~running' /\ ~stopping' /\ starting' /\ ~running /\ buffer = "none" /\ hold["ohci"] = "none"
    BY <1>0, <2>1, Names
    DEF SInv, StreamGone, GoneAt, FlagsMean, StreamKnown, live, TypeOK, DataTyped, Controllers
  <2>4. \A u \in Threads : hold[u] = "none"
    BY <1>0, <2>1 DEF SInv, Held
  <2>5. /\ hold'["ohci"] = "none"
        /\ \A u \in Threads : hold'[u] = IF u = t /\ ok THEN "live" ELSE "none"
    BY <2>2, <2>3, <2>4, Names DEF SInv, TypeOK, DataTyped, Invalidated
  <2>6. CASE ok
    <3>1. Places(t, op[t], "configure") /\ ~GoneAt(t, op[t], "configure", power)
      BY <1>0 DEF Places, GoneAt, Ended
    <3>. QED
      BY <1>0, <2>1, <2>2, <2>3, <2>5, <2>6, <3>1, SoloKeeps DEF Controllers
  <2>7. CASE ~ok
    <3>1. Places(t, op[t], "startFail") /\ ~GoneAt(t, op[t], "startFail", power)
      BY <1>0 DEF Places, GoneAt, Ended
    <3>. QED
      BY <1>0, <2>1, <2>2, <2>3, <2>5, <2>7, <3>1, SoloKeeps DEF Controllers
  <2>. QED
    BY <2>6, <2>7
<1>5. CASE ConfigureDescriptors(t)
  <2>1. /\ pc[t] = "configure"
        /\ UNCHANGED <<live, buffer, worker, locks, op, expected, power>>
    BY <1>5 DEF ConfigureDescriptors, device
  <2>2. PICK s \in {"runContexts", "startFail"} :
          /\ Goto(t, s)
          /\ hold' = IF s = "runContexts" THEN hold ELSE [hold EXCEPT ![t] = "none"]
    BY <1>5 DEF ConfigureDescriptors, Holding
  <2>3. ~ready' /\ ~running' /\ ~stopping' /\ starting' /\ ~running /\ hold["ohci"] = "none"
    BY <1>0, <2>1, Names DEF SInv, FlagsMean, StreamKnown, live, TypeOK, DataTyped
  <2>4. /\ hold'["ohci"] = "none"
        /\ \A u \in Threads : hold'[u] = IF u = t /\ s = "runContexts" THEN "live" ELSE "none"
    BY <1>0, <2>1, <2>2, <2>3, Names DEF SInv, Held, TypeOK, DataTyped
  <2>5. Places(t, op[t], s) /\ ~GoneAt(t, op[t], s, power)
    BY <1>0, <2>2 DEF Places, GoneAt, Ended
  <2>. QED
    BY <1>0, <2>1, <2>2, <2>3, <2>4, <2>5, SoloKeeps DEF Controllers
<1>6. CASE RunContexts(t)
  <2>1. /\ pc[t] = "runContexts" /\ Goto(t, "startDone") /\ running'
        /\ hold' = [hold EXCEPT !["ohci"] = hold[t], ![t] = "none"]
        /\ UNCHANGED <<starting, stopping, buffer, worker, locks, op, expected, power>>
    BY <1>6, Zenon DEF RunContexts, device
  <2>2. ~stopping /\ starting
    BY <1>0, <2>1, Names DEF SInv, FlagsMean
  <2>3. hold'["ohci"] = "live" /\ \A u \in Threads : hold'[u] = "none"
    BY <1>0, <2>1, Names DEF SInv, Held, TypeOK, DataTyped
  <2>4. Places(t, op[t], "startDone") /\ ~GoneAt(t, op[t], "startDone", power)
    BY <1>0 DEF Places, GoneAt, Ended
  <2>5. /\ "startDone" \in Starting /\ "startDone" \notin Stopping
        /\ "startDone" \in Past /\ "startDone" \notin {"plan", "write"} \cup Addressing
        /\ "startDone" \notin NotRunningAt /\ pc[t] \in Past
    BY <2>1
  <2>6. UNCHANGED <<worker, op, expected, power>> /\ (starting' <=> starting)
        /\ (stopping' <=> stopping)
    BY <2>1
  <2>7. /\ \A u \in Threads : hold'[u] = IF u = t /\ "startDone" \in Addressing THEN "live" ELSE "none"
        /\ stopping' <=> "startDone" \in Stopping
        /\ starting' <=> "startDone" \in Starting
    BY <2>2, <2>3, <2>5, <2>6
  <2>8. running' => op[t] \in {"StartDevice", "ChangeLiveRate"} \/ running
    BY <1>0
  <2>9. buffer' = "mapped" => op[t] \in {"StartDevice", "ChangeLiveRate"} \/ buffer = "mapped"
    BY <1>0
  <2>10. hold'["ohci"] # "stale" /\ t \in Controllers
    BY <1>0, <2>3 DEF Controllers
  <2>. QED
    BY <2>1, <2>3, <2>4, <2>5, <2>6, <2>7, <2>8, <2>9, <2>10, SoloKeeps,
       ZenonT(60)
<1>7. CASE StartFailed(t)
  <2>1. /\ pc[t] = "startFail" /\ Goto(t, "undoStart") /\ ~running' /\ ~ready'
        /\ UNCHANGED <<starting, stopping, dma, worker, locks, op, expected, power>>
    BY <1>7, Zenon DEF StartFailed, device
  <2>2. ~stopping /\ starting /\ hold["ohci"] = "none"
    BY <1>0, <2>1, Names DEF SInv, FlagsMean, StreamKnown, TypeOK, DataTyped
  <2>3. hold'["ohci"] = "none" /\ \A u \in Threads : hold'[u] = "none"
    BY <1>0, <2>1, <2>2 DEF SInv, Held, dma
  <2>4. Places(t, op[t], "undoStart") /\ ~GoneAt(t, op[t], "undoStart", power)
    BY <1>0 DEF Places, GoneAt, Ended
  <2>. QED
    BY <1>0, <2>1, <2>2, <2>3, <2>4, SoloKeeps DEF Controllers, dma
<1>8. CASE UndoStart(t)
  <2>1. /\ pc[t] = "undoStart" /\ Goto(t, "startUndone") /\ buffer' = "none"
        /\ hold' = Invalidated(hold)
        /\ UNCHANGED <<live, worker, locks, op, expected, power>>
    BY <1>8 DEF UndoStart, device
  <2>2. ~ready' /\ ~running' /\ ~stopping' /\ starting' /\ hold["ohci"] = "none"
    BY <1>0, <2>1, Names DEF SInv, FlagsMean, StreamKnown, live, TypeOK, DataTyped
  <2>3. hold'["ohci"] = "none" /\ \A u \in Threads : hold'[u] = "none"
    BY <1>0, <2>1, <2>2 DEF SInv, Held, Invalidated, TypeOK, DataTyped
  <2>4. Places(t, op[t], "startUndone") /\ ~GoneAt(t, op[t], "startUndone", power)
    BY <1>0 DEF Places, GoneAt, Ended
  <2>. QED
    BY <1>0, <2>1, <2>2, <2>3, <2>4, SoloKeeps DEF Controllers
<1>9. CASE StartDone(t)
  <2>1. /\ pc[t] \in {"startDone", "startUndone"} /\ ~starting'
        /\ UNCHANGED <<running, ready, stopping, dma, worker, locks, op, expected, power>>
    BY <1>9, Zenon DEF StartDone, device
  <2>2. ~stopping /\ (pc[t] = "startUndone" => ~running)
    BY <1>0, <2>1, Names DEF SInv, FlagsMean, StreamKnown
  <2>3. PICK s : /\ Goto(t, s)
                 /\ \/ s = "harvestLoop"
                    \/ ~running /\ op[t] = "StartDevice" /\ s = "capture"
                    \/ ~running /\ op[t] = "ChangeLiveRate" /\ s = "finish"
    BY <1>0, <1>9, <2>2, TableValues DEF StartDone, Return
  <2>4. \A u \in Threads : hold'[u] = "none"
    BY <1>0, <2>1 DEF SInv, Held, dma
  <2>5. /\ ready => running
        /\ running => hold["ohci"] = "live"
        /\ hold["ohci"] = "live" => running
        /\ hold["ohci"] # "stale"
        /\ buffer = "mapped" => running
    BY <1>0, <2>1, Names DEF SInv, StreamKnown
  <2>6. Places(t, op[t], s) /\ ~GoneAt(t, op[t], s, power)
    BY <1>0, <2>3 DEF Places, GoneAt, Ended
  <2>. QED
    BY <1>0, <2>1, <2>2, <2>3, <2>4, <2>5, <2>6, SoloKeeps DEF Controllers, dma
<1>. QED
  BY <1>1, <1>2, <1>3, <1>4, <1>5, <1>6, <1>7, <1>8, <1>9 DEF Start

\* Harvesting, by whichever thread.
LEMMA HarvestSerial ==
    ASSUME SInv, TypeOK', NEW t \in Threads, Harvest(t)
    PROVE  SInv'
<1>1. pc[t] \in Drains \cup {"harvestLoop"}
  BY DEF Harvest, HarvestAgain, HarvestEnough, HarvestDigiLiveIsoStream, TakeDrainLock,
         SkipHarvest, SyncForCPU, ProcessDescriptors
<1>2. \/ t = "audio" /\ op[t] \in {"StartDevice", "ChangeLiveRate"}
      \/ t = "io" /\ op[t] = "BeginRead"
      \/ t \in Workers /\ op[t] = "Worker" /\ pc[t] # "harvestLoop"
  BY <1>1 DEF SInv, Placed, Places
<1>3. t \in Controllers => ~workerRunning /\ \A w \in Workers : pc[w] = "idle"
  BY <1>1 DEF SInv, WorkersStopped, NoWorkerAt
<1>4. /\ pc[t] \notin {"idle", "plan", "write", "stopContexts", "configure", "runContexts"}
      /\ pc[t] \notin Stopping \cup Starting \cup MappedAt
  BY <1>1
<1>5. ASSUME NEW s \in Drains \cup {"harvestLoop", "startWorker", "workerPush", "finish"},
             s = "harvestLoop" => t \notin Workers, s = "startWorker" => t = "audio",
             s = "workerPush" => t \in Workers, s = "finish" => t = "io"
      PROVE  /\ Places(t, op[t], s) /\ s # "idle"
             /\ t \in Controllers => ~GoneAt(t, op[t], s, power)
  BY <1>2, <1>5, Names DEF Places, GoneAt, Ended
<1>6. CASE HarvestAgain(t)
  <2>1. /\ pc[t] = "harvestLoop" /\ Goto(t, "harvest")
        /\ UNCHANGED <<live, dma, pushBusy, worker, op, expected, power>>
    BY <1>6 DEF HarvestAgain, device, locks
  <2>. QED
    BY <1>3, <1>4, <1>5, <2>1, QuietKeeps DEF worker
<1>7. CASE HarvestEnough(t)
  <2>1. /\ pc[t] = "harvestLoop"
        /\ UNCHANGED <<live, dma, pushBusy, worker, op, expected, power>>
    BY <1>7 DEF HarvestEnough, device, locks
  <2>2. PICK s : Goto(t, s) /\ s = IF t = "audio" THEN "startWorker" ELSE "finish"
    BY <1>2, <1>7, <2>1, TableValues, Names DEF HarvestEnough, Return
  <2>3. t \notin Workers
    BY <1>2, <2>1, Names
  <2>4. t = "audio" \/ t = "io"
    BY <1>2, <2>3
  <2>. QED
    BY <1>3, <1>4, <1>5, <2>1, <2>2, <2>3, <2>4, QuietKeeps DEF worker
<1>8. ASSUME NEW s, Goto(t, s), s = Handlers[op[t]]["harvest"] \/ s \in {"harvestLock", "sync"},
             UNCHANGED <<live, buffer, pushBusy, worker, op, expected, power>>,
             \/ UNCHANGED hold /\ pc[t] # "process"
             \/ hold' = [hold EXCEPT ![t] = "none"] /\ pc[t] = "process"
      PROVE  SInv'
  <2>1. \/ s \in {"harvestLock", "sync"}
        \/ s = "harvestLoop" /\ t \notin Workers
        \/ s = "workerPush" /\ t \in Workers
    BY <1>2, <1>8, TableValues, Names
  <2>2. s \notin Addressing
    BY <2>1
  <2>3. hold' = [hold EXCEPT ![t] = IF s \in Addressing THEN "live" ELSE "none"]
    BY <1>4, <1>8, <2>2 DEF SInv, Held, TypeOK, DataTyped
  <2>4. Places(t, op[t], s) /\ s # "idle" /\ (t \in Controllers => ~GoneAt(t, op[t], s, power))
    BY <1>5, <2>1
  <2>. QED
    BY <1>3, <1>4, <1>8, <2>1, <2>3, <2>4, LocalKeeps DEF InPush, worker
<1>9. CASE HarvestDigiLiveIsoStream(t) \/ TakeDrainLock(t) \/ SkipHarvest(t)
  <2>1. /\ UNCHANGED <<live, buffer, hold, pushBusy, worker, op, expected, power>>
        /\ pc[t] # "process"
    BY <1>9 DEF HarvestDigiLiveIsoStream, TakeDrainLock, SkipHarvest, device, locks, dma
  <2>2. PICK s : Goto(t, s) /\ (s = Handlers[op[t]]["harvest"] \/ s \in {"harvestLock", "sync"})
    BY <1>9 DEF HarvestDigiLiveIsoStream, TakeDrainLock, SkipHarvest, Return
  <2>. QED
    BY <1>8, <2>1, <2>2
<1>10. CASE ProcessDescriptors(t)
  <2>1. UNCHANGED <<live, buffer, pushBusy, worker, op, expected, power>>
    BY <1>10 DEF ProcessDescriptors, device
  <2>2. hold' = [hold EXCEPT ![t] = "none"] /\ pc[t] = "process"
    BY <1>10 DEF ProcessDescriptors, Holding
  <2>3. Goto(t, Handlers[op[t]]["harvest"])
    BY <1>10 DEF ProcessDescriptors, Return
  <2>. QED
    BY <1>8, <2>1, <2>2, <2>3
<1>11. CASE SyncForCPU(t)
  <2>1. /\ UNCHANGED <<live, buffer, pushBusy, worker, op, expected, power>>
        /\ Goto(t, "process") /\ hold' = [hold EXCEPT ![t] = "live"]
    BY <1>11 DEF SyncForCPU, Holding, device, locks
  <2>2. Places(t, op[t], "process") /\ (t \in Controllers => ~GoneAt(t, op[t], "process", power))
    BY <1>5
  <2>. QED
    BY <1>3, <1>4, <2>1, <2>2, LocalKeeps DEF InPush, worker
<1>. QED
  BY <1>6, <1>7, <1>9, <1>10, <1>11 DEF Harvest

\* Pushing, by whichever thread.
LEMMA PushSerial ==
    ASSUME SInv, TypeOK', NEW t \in Threads, Push(t)
    PROVE  SInv'
<1>1. pc[t] \in Pushes
  BY DEF Push, PushAudioOutputToDigiLiveTransmit, TakePushGuard, SkipPush, PlanPackets, WritePackets
<1>2. \/ t = "audio" /\ op[t] = "StopDevice"
      \/ t = "io" /\ op[t] = "WriteEnd"
      \/ t \in Workers /\ op[t] = "Worker"
  BY <1>1 DEF SInv, Placed, Places
<1>3. t \in Controllers => ~workerRunning /\ \A w \in Workers : pc[w] = "idle"
  BY <1>1 DEF SInv, WorkersStopped, NoWorkerAt
<1>4. /\ pc[t] \notin {"idle", "process", "stopContexts", "configure", "runContexts"}
      /\ pc[t] \notin Stopping \cup Starting \cup MappedAt
  BY <1>1
<1>5. ASSUME NEW s \in Pushes \cup {"silence", "loop", "finish"},
             s = "silence" => t = "audio", s = "loop" => t \in Workers, s = "finish" => t = "io"
      PROVE  /\ Places(t, op[t], s) /\ s # "idle"
             /\ t \in Controllers => ~GoneAt(t, op[t], s, power)
  BY <1>2, <1>5, Names DEF Places, GoneAt, Ended
<1>6. ASSUME NEW s, Goto(t, s), s = Handlers[op[t]]["push"] \/ s \in {"pushLock", "plan"},
             UNCHANGED <<live, buffer, worker, op, expected, power>>,
             \/ UNCHANGED hold /\ pc[t] # "write"
             \/ hold' = [hold EXCEPT ![t] = "none"] /\ pc[t] = "write",
             s = "plan" => pushBusy' /\ ~pushBusy,
             pushBusy /\ ~InPush(t) => pushBusy'
      PROVE  SInv'
  <2>1. \/ s \in {"pushLock", "plan"}
        \/ s = "silence" /\ t = "audio"
        \/ s = "loop" /\ t \in Workers
        \/ s = "finish" /\ t = "io"
    BY <1>2, <1>6, TableValues, Names
  <2>2. s \notin Addressing
    BY <2>1
  <2>3. hold' = [hold EXCEPT ![t] = IF s \in Addressing THEN "live" ELSE "none"]
    BY <1>4, <1>6, <2>2 DEF SInv, Held, TypeOK, DataTyped
  <2>4. Places(t, op[t], s) /\ s # "idle" /\ (t \in Controllers => ~GoneAt(t, op[t], s, power))
    BY <1>5, <2>1, Names
  <2>. QED
    BY <1>3, <1>4, <1>6, <2>1, <2>3, <2>4, LocalKeeps DEF worker
<1>7. CASE PushAudioOutputToDigiLiveTransmit(t) \/ TakePushGuard(t)
  <2>1. /\ UNCHANGED <<live, buffer, hold, worker, op, expected, power>>
        /\ pc[t] \in {"push", "pushLock"}
    BY <1>7 DEF PushAudioOutputToDigiLiveTransmit, TakePushGuard, device, dma
  <2>2. PICK s : /\ Goto(t, s)
                 /\ \/ s = Handlers[op[t]]["push"]
                    \/ s = "pushLock"
                    \/ s = "plan" /\ pushBusy' /\ ~pushBusy
    BY <1>7 DEF PushAudioOutputToDigiLiveTransmit, TakePushGuard, Return
  <2>3. pushBusy => pushBusy'
    BY <1>7 DEF PushAudioOutputToDigiLiveTransmit, TakePushGuard, locks
  <2>4. s = "plan" => pushBusy' /\ ~pushBusy
    <3>1. Handlers[op[t]]["push"] # "plan"
      BY <1>2, TableValues
    <3>. QED
      BY <2>2, <3>1
  <2>. QED
    BY <1>6, <2>1, <2>2, <2>3, <2>4
<1>8. CASE SkipPush(t) \/ WritePackets(t)
  <2>1. /\ UNCHANGED <<live, buffer, worker, op, expected, power>>
        /\ InPush(t)
        /\ \/ UNCHANGED hold /\ pc[t] # "write"
           \/ hold' = [hold EXCEPT ![t] = "none"] /\ pc[t] = "write"
    BY <1>8 DEF SkipPush, WritePackets, Holding, device, dma, InPush
  <2>2. Goto(t, Handlers[op[t]]["push"]) /\ Handlers[op[t]]["push"] # "plan"
    BY <1>2, <1>8, TableValues DEF SkipPush, WritePackets, Return
  <2>. QED
    BY <1>6, <2>1, <2>2
<1>9. CASE PlanPackets(t)
  <2>1. /\ UNCHANGED <<live, buffer, pushBusy, worker, op, expected, power>>
        /\ Goto(t, "write") /\ hold' = [hold EXCEPT ![t] = "live"] /\ InPush(t)
    BY <1>9 DEF PlanPackets, Holding, device, locks, InPush
  <2>2. Places(t, op[t], "write") /\ (t \in Controllers => ~GoneAt(t, op[t], "write", power))
    BY <1>5
  <2>3. pushBusy
    BY <2>1 DEF SInv, PushLocked
  <2>. QED
    BY <1>3, <1>4, <2>1, <2>2, <2>3, LocalKeeps DEF worker
<1>. QED
  BY <1>7, <1>8, <1>9 DEF Push

\* The capture probe, the dispatch of the worker and the request of a restart, as long as
\* no restart is taken.
LEMMA RefreshSerial ==
    ASSUME SInv, TypeOK', ~restarting', NEW t \in Threads, Refresh(t)
    PROVE  SInv'
<1>1. CASE RefreshDigiCaptureForAudio(t) \/ MarkCapture(t) \/ RunDigiDuplexProbe(t)
  <2>1. pc[t] \in Captures
    BY <1>1 DEF RefreshDigiCaptureForAudio, MarkCapture, RunDigiDuplexProbe
  <2>2. (t = "audio" /\ op[t] = "StartDevice") \/ (t \in Workers /\ op[t] = "Worker")
    BY <2>1 DEF SInv, Placed, Places
  <2>3. ~running
    BY <2>1 DEF SInv, StreamKnown
  <2>4. t \in Controllers => ~workerRunning /\ \A w \in Workers : pc[w] = "idle"
    BY <2>1 DEF SInv, WorkersStopped, NoWorkerAt
  <2>5. UNCHANGED <<live, buffer, pushBusy, workerRunning, dispatched, exited, op, expected,
                    power>>
    BY <1>1, Zenon DEF RefreshDigiCaptureForAudio, MarkCapture, RunDigiDuplexProbe, device, locks,
                dma, worker
  <2>6. hold' = hold \/ hold' = [hold EXCEPT !["ohci"] = "none"]
    BY <1>1 DEF RefreshDigiCaptureForAudio, MarkCapture, RunDigiDuplexProbe, Holding, dma
  <2>7. PICK s : /\ Goto(t, s)
                 /\ s \in {"markCapture", "capturing"} \/ s = Handlers[op[t]]["capture"]
    BY <1>1 DEF RefreshDigiCaptureForAudio, MarkCapture, RunDigiDuplexProbe, Return
  <2>8. \/ s \in {"markCapture", "capturing"}
        \/ s = "startWorker" /\ t = "audio"
        \/ s = "workerPush" /\ t \in Workers
    BY <2>2, <2>7, TableValues
  <2>9. Places(t, op[t], s) /\ (t \in Controllers => ~GoneAt(t, op[t], s, power)) /\ s # "idle"
    BY <2>2, <2>8, Names DEF Places, GoneAt, Ended
  <2>10. /\ s \notin Addressing /\ s \notin {"plan", "stopWait"} \cup MappedAt
         /\ s \notin Stopping \cup Starting
         /\ pc[t] \notin {"idle", "plan", "write"} \cup MappedAt \cup Addressing
         /\ pc[t] \notin Stopping \cup Starting
    BY <2>1, <2>8
  <2>11. \/ hold' = [hold EXCEPT ![t] = IF s \in Addressing THEN "live" ELSE "none"]
         \/ /\ ~running
            /\ hold' = [hold EXCEPT ![t] = IF s \in Addressing THEN "live" ELSE "none",
                                   !["ohci"] = "none"]
    <3>1. hold[t] = "none" /\ t # "ohci"
      BY <2>10, Names DEF SInv, Held
    <3>. QED
      BY <2>3, <2>6, <2>10, <3>1 DEF SInv, TypeOK, DataTyped
  <2>. QED
    BY <2>3, <2>4, <2>5, <2>7, <2>9, <2>10, <2>11, LocalKeeps DEF InPush
<1>2. CASE StartAudioRefreshWorker(t)
  <2>1. /\ pc[t] = "startWorker"
        /\ UNCHANGED <<live, dma, pushBusy, worker, op, expected, power>>
    BY <1>2 DEF StartAudioRefreshWorker, device, locks
  <2>2. t = "audio" /\ op[t] \in {"StartDevice", "ChangeLiveRate"}
    BY <2>1 DEF SInv, Placed, Places
  <2>3. ~workerRunning /\ \A w \in Workers : pc[w] = "idle"
    BY <2>1, <2>2 DEF SInv, WorkersStopped, NoWorkerAt, Controllers
  <2>4. Goto(t, "dispatch")
    BY <1>2, <2>3 DEF StartAudioRefreshWorker
  <2>5. Places(t, op[t], "dispatch") /\ ~GoneAt(t, op[t], "dispatch", power)
    BY <2>2 DEF Places, GoneAt, Ended
  <2>. QED
    BY <2>1, <2>3, <2>4, <2>5, QuietKeeps DEF worker
<1>3. CASE DispatchWorker(t)
  <2>1. /\ pc[t] = "dispatch" /\ dispatched' = dispatched + 1
        /\ UNCHANGED <<live, dma, locks, exited, n, expected, power>>
    BY <1>3 DEF DispatchWorker, device
  <2>2. t = "audio" /\ op[t] \in {"StartDevice", "ChangeLiveRate"}
    BY <2>1 DEF SInv, Placed, Places
  <2>3. PICK s \in {"super", "finish"}, w \in Workers :
          /\ pc' = [pc EXCEPT ![w] = "loop", ![t] = s]
          /\ op' = [op EXCEPT ![w] = "Worker"]
          /\ s = "super" <=> op[t] = "StartDevice"
    <3>1. PICK w \in Workers :
            /\ pc' = [pc EXCEPT ![w] = "loop", ![t] = Handlers[op[t]]["startWorker"]]
            /\ op' = [op EXCEPT ![w] = "Worker"]
      BY <1>3 DEF DispatchWorker
    <3>2. Handlers[op[t]]["startWorker"] = IF op[t] = "StartDevice" THEN "super" ELSE "finish"
      BY <2>2, TableValues
    <3>. QED
      BY <3>1, <3>2
  <2>4. \A u \in Threads \ {t} : pc[u] = "idle"
    BY <2>1, <2>2, Solitude DEF Controllers
  <2>5. /\ DOMAIN pc = Threads /\ DOMAIN op = Threads /\ w \in Threads \ {t}
        /\ w \notin {"audio", "power", "io", "restart"} /\ t \in Threads
    BY <2>2, Names DEF SInv, TypeOK, ControlTyped
  <2>6. /\ pc'[w] = "loop" /\ pc'[t] = s /\ \A u \in Threads \ {t, w} : pc'[u] = "idle"
        /\ op'[w] = "Worker" /\ \A u \in Threads \ {w} : op'[u] = op[u]
    BY <2>3, <2>4, <2>5
  <2>7. power # "off"
    BY <2>1, <2>2 DEF SInv, PowerKnown
  <2>8. Placed'
    <3>1. Places(t, op'[t], pc'[t])
      BY <2>2, <2>3, <2>5, <2>6 DEF Places
    <3>2. Places(w, op'[w], pc'[w])
      BY <2>6 DEF Places
    <3>. QED
      BY <2>6, <3>1, <3>2 DEF Placed
  <2>9. Alone'
    BY <2>2, <2>5, <2>6, Names DEF SInv, Alone
  <2>10. PowerKnown'
    BY <2>1, <2>2, <2>5, <2>6, <2>7, Names DEF SInv, PowerKnown
  <2>11. WorkersCounted'
    <3>1. dispatched = exited
      BY <2>2, <2>4, Names DEF SInv, WorkersCounted
    <3>2. \A x \in Workers : pc'[x] # "idle" => x = w
      BY <2>2, <2>6, Names
    <3>3. \A c \in Controllers : pc'[c] # "stopWait"
      BY <2>2, <2>3, <2>5, <2>6, Names
    <3>. QED
      BY <2>1, <2>6, <3>1, <3>2, <3>3 DEF WorkersCounted, OneWorker
  <2>12. WorkersStopped'
    BY <2>1, <2>2, <2>3, <2>5, <2>6, <2>7, Names DEF SInv, PowerKnown, WorkersStopped, NoWorkerAt, Ended
  <2>13. PushLocked' /\ Held'
    BY <2>1, <2>3, <2>4, <2>5, <2>6
    DEF SInv, PushLocked, OnePusher, InPush, Held, locks, dma
  <2>14. FlagsMean'
    BY <2>1, <2>2, <2>3, <2>4, <2>5, <2>6, Names DEF SInv, FlagsMean, live
  <2>15. StreamGone'
    BY <2>1, <2>2, <2>3, <2>5, <2>6, <2>7, Names DEF SInv, PowerKnown, live, dma, StreamGone, GoneAt, Ended
  <2>16. StreamKnown'
    BY <2>1, <2>2, <2>3, <2>4, <2>5, <2>6, Names DEF SInv, StreamKnown, live, dma
  <2>. QED
    BY <2>8, <2>9, <2>10, <2>11, <2>12, <2>13, <2>14, <2>15, <2>16 DEF SInv
<1>4. CASE RequestAudioRuntimeRestart(t)
  <2>1. /\ pc[t] = "request"
        /\ UNCHANGED <<live, dma, pushBusy, worker, op, expected, power>>
    BY <1>4 DEF RequestAudioRuntimeRestart, device, locks
  <2>2. \/ t = "power" /\ op[t] = "PowerOn"
        \/ t = "io" /\ op[t] \in {"BeginRead", "WriteEnd"}
    BY <2>1 DEF SInv, Placed, Places
  <2>3. PICK s : /\ Goto(t, s)
                 /\ \/ s = "requestTake"
                    \/ t = "power" /\ s = "finish"
                    \/ t = "io" /\ op[t] = "BeginRead" /\ s = "harvestLoop"
                    \/ t = "io" /\ op[t] = "WriteEnd" /\ s = "push"
    BY <1>4, <2>2, TableValues DEF RequestAudioRuntimeRestart, Return
  <2>4. Places(t, op[t], s) /\ s # "idle"
    BY <2>2, <2>3 DEF Places
  <2>5. t \in Controllers => ~GoneAt(t, op[t], s, power) /\ ~NoWorkerAt(t, op[t], s, power)
    BY <2>2, <2>3 DEF GoneAt, NoWorkerAt, Ended, Controllers
  <2>. QED
    BY <2>1, <2>3, <2>4, <2>5, QuietKeeps DEF worker
<1>5. ~TakeRestart(t)
  BY DEF TakeRestart
<1>6. ~RestartBlock(t)
  BY DEF RestartBlock, SInv, Placed, Places
<1>. QED
  BY <1>1, <1>2, <1>3, <1>4, <1>5, <1>6 DEF Refresh

\* The worker's own steps.
LEMMA WorkerSerial ==
    ASSUME SInv, TypeOK', NEW w \in Workers, WorkerBlock(w)
    PROVE  SInv'
<1>1. pc[w] \in {"loop", "workerPush"} /\ w \in Threads /\ w \notin Controllers
  BY Names DEF WorkerBlock, WorkerLoop, WorkerExit, WorkerPush
<1>2. op[w] = "Worker"
  BY <1>1, Names DEF SInv, Placed, Places
<1>3. CASE WorkerLoop(w) \/ WorkerPush(w)
  <2>1. UNCHANGED <<live, dma, pushBusy, worker, op, expected, power>>
    BY <1>3 DEF WorkerLoop, WorkerPush, device, locks
  <2>2. PICK s \in {"harvest", "capture", "push", "loop"} :
          Goto(w, s) /\ (s = "capture" => ~running)
    BY <1>3 DEF WorkerLoop, WorkerPush
  <2>3. Places(w, op[w], s)
    BY <1>2, <2>2 DEF Places
  <2>. QED
    BY <1>1, <2>1, <2>2, <2>3, QuietKeeps DEF worker
<1>4. CASE WorkerExit(w)
  <2>1. /\ pc' = [pc EXCEPT ![w] = "idle"] /\ exited' = exited + 1 /\ pc[w] = "loop"
        /\ UNCHANGED <<live, dma, locks, workerRunning, dispatched, op, expected, power>>
    BY <1>4 DEF WorkerExit, Goto, device
  <2>2. DOMAIN pc = Threads
    BY DEF SInv, TypeOK, ControlTyped
  <2>3. \A c \in Controllers : pc'[c] = pc[c]
    BY <1>1, <2>1, <2>2, Names
  <2>4. Placed' /\ Alone' /\ PowerKnown'
    BY <1>1, <2>1, <2>2, Names DEF SInv, Placed, Places, Alone, PowerKnown
  <2>5. WorkersCounted'
    <3>1. dispatched = exited + 1 /\ \A x \in Workers \ {w} : pc[x] = "idle"
      BY <1>1, <2>1 DEF SInv, WorkersCounted, OneWorker
    <3>2. \A x \in Workers : pc'[x] = "idle"
      BY <1>1, <2>1, <2>2, <3>1, Names
    <3>. QED
      BY <2>1, <2>3, <3>1, <3>2 DEF SInv, WorkersCounted, OneWorker
  <2>6. WorkersStopped'
    BY <1>1, <2>1, <2>3 DEF SInv, WorkersStopped
  <2>7. PushLocked' /\ Held'
    BY <1>1, <2>1, <2>2 DEF SInv, PushLocked, OnePusher, InPush, Held, locks, dma
  <2>8. FlagsMean' /\ StreamGone'
    BY <2>1, <2>3 DEF SInv, FlagsMean, StreamGone, live, dma
  <2>9. StreamKnown'
    BY <1>1, <2>1, <2>2, <2>3 DEF SInv, StreamKnown, live, dma
  <2>. QED
    BY <2>4, <2>5, <2>6, <2>7, <2>8, <2>9 DEF SInv
<1>. QED
  BY <1>3, <1>4 DEF WorkerBlock

\* A request that wakes a thread while the others rest.
LEMMA WakeSerial ==
    ASSUME SInv, TypeOK', NEW c \in Controllers \cup {"io"}, NEW o, NEW s,
           pc["audio"] = "idle", pc["power"] = "idle", pc["io"] = "idle",
           Goto(c, s), op' = [op EXCEPT ![c] = o], PowerKnown',
           UNCHANGED <<live, dma, locks, worker, expected>>,
           Places(c, o, s), s \in {"stopWorker", "super", "harvestLoop", "push", "request"},
           c \in Controllers =>
               s = "stopWorker" \/ (s = "super" /\ o \notin {"PowerOff", "ChangeLiveRate"}),
           c # "power" /\ power' = "off" => power = "off"
    PROVE  SInv'
<1>1. /\ pc' = [pc EXCEPT ![c] = s] /\ DOMAIN pc = Threads /\ DOMAIN op = Threads
      /\ c \in Threads /\ c \notin Workers /\ c # "restart" /\ pc[c] = "idle"
  BY Names DEF Goto, SInv, TypeOK, ControlTyped
<1>2. /\ pc'[c] = s /\ op'[c] = o
      /\ \A t \in Threads \ {c} : pc'[t] = pc[t] /\ op'[t] = op[t]
  BY <1>1
<1>3. Placed'
  BY <1>2 DEF SInv, Placed, Places
<1>4. Alone'
  BY <1>1, <1>2, Names DEF SInv, Alone
<1>5. WorkersCounted'
  BY <1>1, <1>2, Names DEF SInv, WorkersCounted, OneWorker, worker
<1>6. WorkersStopped'
  <2>1. ASSUME NEW d \in Controllers, NoWorkerAt(d, op'[d], pc'[d], power')
        PROVE  ~workerRunning /\ \A w \in Workers : pc[w] = "idle"
    <3>1. d # c
      BY <1>2, <2>1 DEF NoWorkerAt, GoneAt, Ended
    <3>. QED
      BY <1>2, <2>1, <3>1, Names DEF SInv, WorkersStopped, NoWorkerAt, Ended
  <2>. QED
    BY <1>1, <1>2, <2>1, Names DEF WorkersStopped, worker
<1>7. PushLocked' /\ Held'
  BY <1>1, <1>2 DEF SInv, PushLocked, OnePusher, InPush, Held, locks, dma
<1>8. FlagsMean'
  BY <1>1, <1>2, Names DEF SInv, FlagsMean, live
<1>9. StreamGone'
  <2>1. ASSUME NEW d \in Controllers, GoneAt(d, op'[d], pc'[d], power')
        PROVE  ~running /\ buffer = "none"
    <3>1. d # c
      BY <1>2, <2>1 DEF NoWorkerAt, GoneAt, Ended
    <3>. QED
      BY <1>2, <2>1, <3>1, Names DEF SInv, StreamGone, GoneAt, Ended
  <2>. QED
    BY <2>1 DEF StreamGone, live, dma
<1>10. StreamKnown'
  BY <1>1, <1>2, Names DEF SInv, StreamKnown, live, dma
<1>. QED
  BY <1>3, <1>4, <1>5, <1>6, <1>7, <1>8, <1>9, <1>10 DEF SInv

\* Every request is such a wake-up.
LEMMA RequestSerial ==
    ASSUME SInv, TypeOK', Quiesces, Request
    PROVE  SInv'
<1>. USE DEF Quiesces
<1>1. ASSUME NEW c \in Controllers, MayBegin(c)
      PROVE  pc["audio"] = "idle" /\ pc["power"] = "idle" /\ pc["io"] = "idle"
  BY <1>1, Names DEF MayBegin, ControllersIdle
<1>2. "audio" \in Controllers /\ "power" \in Controllers
  BY DEF Controllers
<1>3. DOMAIN op = Threads /\ "audio" \in Threads /\ "power" \in Threads /\ "io" \in Threads
  BY Names DEF SInv, TypeOK, ControlTyped
<1>4. CASE BeginStartDevice
  <2>1. /\ MayBegin("audio") /\ Goto("audio", "stopWorker")
        /\ power' = IF power = "off" THEN "revived" ELSE power
        /\ op' = [op EXCEPT !["audio"] = "StartDevice"]
        /\ UNCHANGED <<live, dma, locks, worker, expected>>
    BY <1>4 DEF BeginStartDevice, Begin
  <2>2. PowerKnown' /\ power' # "off"
    BY <1>3, <2>1 DEF SInv, PowerKnown
  <2>3. Places("audio", "StartDevice", "stopWorker")
    BY DEF Places
  <2>. QED
    BY <1>1, <1>2, <2>1, <2>2, <2>3, WakeSerial
<1>5. CASE BeginStopDevice
  <2>1. /\ MayBegin("audio") /\ Goto("audio", "super")
        /\ op' = [op EXCEPT !["audio"] = "StopDevice"]
        /\ UNCHANGED <<live, dma, locks, worker, expected, power>>
    BY <1>5 DEF BeginStopDevice, Begin
  <2>2. PowerKnown'
    BY <1>3, <2>1 DEF SInv, PowerKnown
  <2>3. Places("audio", "StopDevice", "super")
    BY DEF Places
  <2>. QED
    BY <1>1, <1>2, <2>1, <2>2, <2>3, WakeSerial
<1>6. CASE BeginChangeSampleRate
  <2>1. PICK o \in {"ChangeLiveRate", "ChangeIdleRate"} :
        /\ MayBegin("audio")
        /\ Goto("audio", IF o = "ChangeLiveRate" THEN "stopWorker" ELSE "super")
        /\ op' = [op EXCEPT !["audio"] = o]
        /\ UNCHANGED <<live, dma, locks, worker, expected, power>>
    BY <1>6 DEF BeginChangeSampleRate, Begin, device
  <2>2. PowerKnown'
    <3>1. CASE power = "off"
      <4>1. pc["audio"] = "idle" /\ pc["power"] = "idle" /\ op["power"] = "PowerOff"
        BY <1>1, <1>2, <2>1, <3>1 DEF SInv, PowerKnown
      <4>2. Ended("power", op["power"], pc["power"], power)
        BY <3>1, <4>1 DEF Ended
      <4>3. ~running /\ buffer = "none" /\ ~workerRunning
        BY <1>2, <4>2 DEF SInv, WorkersStopped, StreamGone, NoWorkerAt, GoneAt
      <4>4. ~ready /\ ~starting /\ ~stopping
        BY <4>1, <4>3, Names DEF SInv, StreamKnown, FlagsMean
      <4>5. op' = [op EXCEPT !["audio"] = "ChangeIdleRate"]
        BY <1>6, <4>3, <4>4 DEF BeginChangeSampleRate, DigiLiveStreamMayNeedStop, Begin
      <4>. QED
        BY <1>3, <2>1, <4>5 DEF SInv, PowerKnown
    <3>2. CASE power # "off"
      BY <1>3, <2>1, <3>2 DEF SInv, PowerKnown
    <3>. QED
      BY <3>1, <3>2
  <2>3. CASE o = "ChangeLiveRate"
    <3>1. Places("audio", o, "stopWorker")
      BY <2>3 DEF Places
    <3>. QED
      BY <1>1, <1>2, <2>1, <2>2, <2>3, <3>1, WakeSerial
  <2>4. CASE o = "ChangeIdleRate"
    <3>1. Places("audio", o, "super")
      BY <2>4 DEF Places
    <3>. QED
      BY <1>1, <1>2, <2>1, <2>2, <2>4, <3>1, WakeSerial
  <2>. QED
    BY <2>3, <2>4
<1>7. CASE BeginPowerOff
  <2>1. /\ MayBegin("power") /\ Goto("power", "stopWorker") /\ power' = "off"
        /\ op' = [op EXCEPT !["power"] = "PowerOff"]
        /\ UNCHANGED <<live, dma, locks, worker, expected>>
    BY <1>7 DEF BeginPowerOff, Begin
  <2>2. pc'["audio"] = "idle"
    BY <1>1, <1>2, <1>3, <2>1 DEF Goto, SInv, TypeOK, ControlTyped
  <2>3. PowerKnown'
    BY <1>3, <2>1, <2>2 DEF SInv, PowerKnown
  <2>4. Places("power", "PowerOff", "stopWorker")
    BY DEF Places
  <2>. QED
    BY <1>1, <1>2, <2>1, <2>3, <2>4, WakeSerial
<1>8. CASE BeginPowerOn
  <2>1. /\ MayBegin("power") /\ Goto("power", "super") /\ power' = "on"
        /\ op' = [op EXCEPT !["power"] = "PowerOn"]
        /\ UNCHANGED <<live, dma, locks, worker, expected>>
    BY <1>8 DEF BeginPowerOn, Begin
  <2>2. PowerKnown'
    BY <1>3, <2>1 DEF SInv, PowerKnown
  <2>3. Places("power", "PowerOn", "super")
    BY DEF Places
  <2>. QED
    BY <1>1, <1>2, <2>1, <2>2, <2>3, WakeSerial
<1>9. ASSUME NEW o \in {"BeginRead", "WriteEnd"}, BeginCallback(o)
      PROVE  SInv'
  <2>1. PICK s : /\ Goto("io", s)
                 /\ \/ s = "request"
                    \/ o = "BeginRead" /\ s = "harvestLoop"
                    \/ o = "WriteEnd" /\ s = "push"
    BY <1>9 DEF BeginCallback
  <2>2. /\ op' = [op EXCEPT !["io"] = o]
        /\ UNCHANGED <<live, dma, locks, worker, expected, power>>
    BY <1>9 DEF BeginCallback, device
  <2>3. pc["audio"] = "idle" /\ pc["power"] = "idle" /\ pc["io"] = "idle"
    BY <1>2, <1>9 DEF BeginCallback, ControllersIdle
  <2>4. PowerKnown'
    BY <1>3, <2>1, <2>2, <2>3 DEF SInv, PowerKnown, Goto, TypeOK, ControlTyped
  <2>5. Places("io", o, s) /\ "io" \notin Controllers
    BY <2>1 DEF Places, Controllers
  <2>. QED
    BY <2>1, <2>2, <2>3, <2>4, <2>5, WakeSerial
<1>. QED
  BY <1>4, <1>5, <1>6, <1>7, <1>8, <1>9 DEF Request

\* At rest nothing runs.
LEMMA InitSerial == Init => SInv
<1>. SUFFICES ASSUME Init PROVE SInv
  OBVIOUS
<1>1. TypeOK
  BY InitEstablishes DEF IInv
<1>2. Placed /\ Alone /\ PowerKnown
  BY Names DEF Init, Placed, Alone, PowerKnown
<1>3. WorkersCounted /\ WorkersStopped
  BY Names DEF Init, WorkersCounted, OneWorker, WorkersStopped
<1>4. PushLocked /\ Held /\ FlagsMean
  BY Names DEF Init, PushLocked, OnePusher, InPush, Held, FlagsMean
<1>5. StreamGone /\ StreamKnown
  BY Names DEF Init, StreamGone, StreamKnown
<1>. QED
  BY <1>1, <1>2, <1>3, <1>4, <1>5 DEF SInv

\* No step breaks the invariant but one that takes a restart.
LEMMA NextSerial ==
    ASSUME SInv, TypeOK', ~restarting', Quiesces, ~WaitsExpire, [Next]_vars
    PROVE  SInv'
<1>1. ASSUME NEW t \in Threads, ThreadStep(t) PROVE SInv'
  BY <1>1, HandlerSerial, StopSerial, StartSerial, HarvestSerial, PushSerial, RefreshSerial
  DEF ThreadStep
<1>2. CASE UNCHANGED vars
  <2>1. UNCHANGED <<live, dma, locks, worker, pc, op, expected, power>>
    BY <1>2 DEF vars, device
  <2>2. Placed' /\ Alone' /\ PowerKnown'
    BY <2>1 DEF SInv, Placed, Alone, PowerKnown
  <2>3. WorkersCounted' /\ WorkersStopped'
    BY <2>1 DEF SInv, WorkersCounted, OneWorker, WorkersStopped, worker
  <2>4. PushLocked' /\ Held' /\ FlagsMean'
    BY <2>1 DEF SInv, PushLocked, OnePusher, InPush, Held, FlagsMean, live, locks, dma
  <2>5. StreamGone' /\ StreamKnown'
    BY <2>1 DEF SInv, StreamGone, StreamKnown, live, dma
  <2>. QED
    BY <2>2, <2>3, <2>4, <2>5 DEF SInv
<1>. QED
  BY <1>1, <1>2, WorkerSerial, RequestSerial DEF Next

\* Until a restart is dispatched, SInv is invariant.
LEMMA Serial ==
    ASSUME Quiesces, ~WaitsExpire
    PROVE  Spec /\ [](~restarting) => []SInv
<1>1. SInv /\ TypeOK' /\ ~restarting' /\ [Next]_vars => SInv'
  BY NextSerial
<1>. QED
  BY <1>1, InitSerial, TypeCorrect, PTL DEF Spec

\* What the invariant says of a state.
LEMMA SerialMeans ==
    ASSUME SInv
    PROVE  /\ NoStaleUse /\ OnePusher /\ OneWorker /\ OneTransaction
           /\ RunningHasContexts /\ ContextsOnBuffer /\ StoppedIsQuiet /\ OffIsQuiet
<1>1. NoStaleUse
  BY DEF SInv, Held, NoStaleUse
<1>2. OnePusher /\ OneWorker
  BY DEF SInv, PushLocked, WorkersCounted
<1>3. OneTransaction
  <2>1. ASSUME NEW t \in Threads, InTransactions(t)
        PROVE  t = "audio" \/ (t \in Workers /\ pc["audio"] \notin Past)
    <3>1. t = "audio" \/ t \in Workers
      BY <2>1 DEF InTransactions, SInv, Placed, Places
    <3>2. pc["audio"] \in Past => \A w \in Workers : pc[w] = "idle"
      BY Names DEF SInv, WorkersStopped, NoWorkerAt
    <3>. QED
      BY <2>1, <3>1, <3>2 DEF InTransactions
  <2>2. ASSUME NEW t \in Threads, NEW u \in Threads, InTransactions(t), InTransactions(u)
        PROVE  t = u
    <3>1. CASE t \in Workers /\ u \in Workers
      BY <2>2, <3>1 DEF SInv, WorkersCounted, OneWorker, InTransactions
    <3>2. CASE t = "audio" /\ u = "audio"
      BY <3>2
    <3>3. InTransactions("audio") => pc["audio"] \in Past
      BY DEF InTransactions
    <3>. QED
      BY <2>1, <2>2, <3>1, <3>2, <3>3, Names
  <2>. QED
    BY <2>2 DEF OneTransaction
<1>4. RunningHasContexts /\ ContextsOnBuffer
  BY DEF SInv, StreamKnown, RunningHasContexts, ContextsOnBuffer
<1>5. StoppedIsQuiet
  <2>1. SUFFICES ASSUME pc["audio"] = "idle", op["audio"] = "StopDevice"
                 PROVE  ~running /\ ~starting /\ ~workerRunning /\ buffer = "none"
    BY DEF StoppedIsQuiet
  <2>2. NoWorkerAt("audio", op["audio"], pc["audio"], power) /\ GoneAt("audio", op["audio"], pc["audio"], power)
    BY <2>1 DEF NoWorkerAt, GoneAt, Ended
  <2>3. pc["power"] \notin Starting
    BY Names DEF SInv, Placed, Places
  <2>. QED
    BY <2>1, <2>2, <2>3, Names DEF SInv, WorkersStopped, StreamGone, FlagsMean
<1>6. OffIsQuiet
  <2>1. SUFFICES ASSUME pc["power"] = "idle", power = "off"
                 PROVE  ~running /\ ~workerRunning /\ buffer = "none"
    BY DEF OffIsQuiet
  <2>2. op["power"] = "PowerOff"
    BY <2>1 DEF SInv, PowerKnown
  <2>3. NoWorkerAt("power", op["power"], pc["power"], power) /\ GoneAt("power", op["power"], pc["power"], power)
    BY <2>1, <2>2 DEF NoWorkerAt, GoneAt, Ended
  <2>. QED
    BY <2>3, Names DEF SInv, WorkersStopped, StreamGone
<1>. QED
  BY <1>1, <1>2, <1>3, <1>4, <1>5, <1>6

-----------------------------------------------------------------------------
(* Who asks for a restart: a callback that finds no stream, and SetPowerState. *)

Asks == {"request", "requestTake"}

\* Thread t goes on, and does not ask for a restart.
GoesOn(t) ==
    /\ \E s \in (Entries \cup Inner \cup {"idle"}) \ Asks : Goto(t, s)
    /\ UNCHANGED op /\ (restarting' => restarting)

\* No step of a stop, a start, a harvest or a push asks for a restart.
LEMMA StreamGoesOn ==
    ASSUME TypeOK, NEW t \in Threads, Stop(t) \/ Start(t) \/ Harvest(t) \/ Push(t)
    PROVE  GoesOn(t)
<1>1. \A c \in Calls : Handlers[op[t]][c] \in (Entries \cup Inner \cup {"idle"}) \ Asks
  BY ReturnsToEntry DEF TypeOK, Entries, Inner, Asks
<1>. USE <1>1 DEF GoesOn, Return, Calls, Entries, Inner, Asks
<1>2. CASE Stop(t)
  <2>1. CASE StopAudioRefreshWorker(t)
    BY <2>1 DEF StopAudioRefreshWorker
  <2>2. CASE AwaitWorkerExit(t)
    BY <2>2 DEF AwaitWorkerExit
  <2>3. CASE PushStopSilence(t)
    BY <2>3 DEF PushStopSilence
  <2>4. CASE StopDigiLiveStreamForAudio(t)
    BY <2>4 DEF StopDigiLiveStreamForAudio
  <2>5. CASE MarkStopping(t)
    BY <2>5 DEF MarkStopping
  <2>6. CASE StopContexts(t)
    BY <2>6 DEF StopContexts
  <2>7. CASE AwaitDrain(t)
    BY <2>7 DEF AwaitDrain
  <2>8. CASE ReleaseLiveBuffer(t)
    BY <2>8 DEF ReleaseLiveBuffer
  <2>9. CASE StopDone(t)
    BY <2>9 DEF StopDone
  <2>10. CASE ResetDigiLiveOutputState(t)
    BY <2>10 DEF ResetDigiLiveOutputState
  <2>. QED
    BY <1>2, <2>1, <2>2, <2>3, <2>4, <2>5, <2>6, <2>7, <2>8, <2>9, <2>10 DEF Stop
<1>3. CASE Start(t)
  <2>1. CASE StartDigiLiveStreamForAudio(t)
    BY <2>1 DEF StartDigiLiveStreamForAudio
  <2>2. CASE MarkStarting(t)
    BY <2>2 DEF MarkStarting
  <2>3. CASE RunDigiLiveBeginTransactions(t)
    BY <2>3 DEF RunDigiLiveBeginTransactions
  <2>4. CASE CreateLiveBuffer(t)
    BY <2>4 DEF CreateLiveBuffer
  <2>5. CASE ConfigureDescriptors(t)
    BY <2>5 DEF ConfigureDescriptors
  <2>6. CASE RunContexts(t)
    BY <2>6 DEF RunContexts
  <2>7. CASE StartFailed(t)
    BY <2>7 DEF StartFailed
  <2>8. CASE UndoStart(t)
    BY <2>8 DEF UndoStart
  <2>9. CASE StartDone(t)
    BY <2>9 DEF StartDone
  <2>. QED
    BY <1>3, <2>1, <2>2, <2>3, <2>4, <2>5, <2>6, <2>7, <2>8, <2>9 DEF Start
<1>4. CASE Harvest(t)
  <2>1. CASE HarvestAgain(t)
    BY <2>1 DEF HarvestAgain
  <2>2. CASE HarvestEnough(t)
    BY <2>2 DEF HarvestEnough
  <2>3. CASE HarvestDigiLiveIsoStream(t)
    BY <2>3 DEF HarvestDigiLiveIsoStream
  <2>4. CASE TakeDrainLock(t)
    BY <2>4 DEF TakeDrainLock
  <2>5. CASE SkipHarvest(t)
    BY <2>5 DEF SkipHarvest
  <2>6. CASE SyncForCPU(t)
    BY <2>6 DEF SyncForCPU
  <2>7. CASE ProcessDescriptors(t)
    BY <2>7 DEF ProcessDescriptors
  <2>. QED
    BY <1>4, <2>1, <2>2, <2>3, <2>4, <2>5, <2>6, <2>7 DEF Harvest
<1>5. CASE Push(t)
  <2>1. CASE PushAudioOutputToDigiLiveTransmit(t)
    BY <2>1 DEF PushAudioOutputToDigiLiveTransmit
  <2>2. CASE TakePushGuard(t)
    BY <2>2 DEF TakePushGuard
  <2>3. CASE SkipPush(t)
    BY <2>3 DEF SkipPush
  <2>4. CASE PlanPackets(t)
    BY <2>4 DEF PlanPackets
  <2>5. CASE WritePackets(t)
    BY <2>5 DEF WritePackets
  <2>. QED
    BY <1>5, <2>1, <2>2, <2>3, <2>4, <2>5 DEF Push
<1>. QED
  BY <1>2, <1>3, <1>4, <1>5

\* Nor does a step of a handler, of a capture or of a worker, but for the requests.
LEMMA RestGoesOn ==
    ASSUME TypeOK, NEW t \in Threads, pc[t] \notin Asks, op[t] # "PowerOn",
           pc["restart"] = "idle",
           \/ SuperSucceeds(t) \/ SuperFails(t) \/ FinishHandler(t)
           \/ Refresh(t) \/ WorkerBlock(t)
    PROVE  \/ GoesOn(t)
           \/ DispatchWorker(t)
<1>1. \A c \in Calls : Handlers[op[t]][c] \in (Entries \cup Inner \cup {"idle"}) \ Asks
  BY ReturnsToEntry DEF TypeOK, Entries, Inner, Asks
<1>. USE <1>1 DEF GoesOn, Return, Calls, Entries, Inner, Asks
<1>2. CASE SuperSucceeds(t)
  BY <1>2 DEF SuperSucceeds
<1>3. CASE SuperFails(t)
  BY <1>3 DEF SuperFails
<1>4. CASE FinishHandler(t)
  BY <1>4 DEF FinishHandler
<1>5. CASE Refresh(t)
  <2>1. CASE RefreshDigiCaptureForAudio(t)
    BY <2>1 DEF RefreshDigiCaptureForAudio
  <2>2. CASE MarkCapture(t)
    BY <2>2 DEF MarkCapture
  <2>3. CASE RunDigiDuplexProbe(t)
    BY <2>3 DEF RunDigiDuplexProbe
  <2>4. CASE StartAudioRefreshWorker(t)
    BY <2>4 DEF StartAudioRefreshWorker
  <2>5. CASE RequestAudioRuntimeRestart(t) \/ TakeRestart(t)
    BY <2>5 DEF RequestAudioRuntimeRestart, TakeRestart
  <2>6. CASE RestartBlock(t)
    BY <2>6 DEF RestartBlock
  <2>. QED
    BY <1>5, <2>1, <2>2, <2>3, <2>4, <2>5, <2>6 DEF Refresh
<1>6. CASE WorkerBlock(t)
  BY <1>6 DEF WorkerBlock, WorkerLoop, WorkerExit, WorkerPush
<1>. QED
  BY <1>2, <1>3, <1>4, <1>5, <1>6

\* No restart was asked for, and no thread is about to ask.
NeverAsked ==
    /\ ~restarting
    /\ \A t \in Threads : pc[t] \notin Asks /\ op[t] # "PowerOn"

\* Only a callback can be the first to ask, when the power stays off once it is off.
LEMMA NextUnasked ==
    ASSUME TypeOK, OneRestart, NeverAsked, [Next]_vars, "PowerOn" \notin PowerOps,
           \A o \in {"BeginRead", "WriteEnd"} : BeginCallback(o) => pc'["io"] # "request"
    PROVE  NeverAsked'
<1>1. DOMAIN pc = Threads /\ DOMAIN op = Threads
  BY DEF TypeOK, ControlTyped
<1>2. ASSUME NEW t \in Threads, GoesOn(t)
      PROVE  NeverAsked'
  BY <1>1, <1>2 DEF GoesOn, Goto, NeverAsked
<1>3. ASSUME NEW t \in Threads, DispatchWorker(t)
      PROVE  NeverAsked'
  <2>1. Handlers[op[t]]["startWorker"] \notin Asks
    BY ReturnsToEntry DEF TypeOK, Entries, Asks, Calls
  <2>2. PICK w \in Workers :
            /\ op' = [op EXCEPT ![w] = "Worker"]
            /\ pc' = [pc EXCEPT ![w] = "loop", ![t] = Handlers[op[t]]["startWorker"]]
    BY <1>3 DEF DispatchWorker
  <2>3. UNCHANGED restarting
    BY <1>3 DEF DispatchWorker
  <2>. QED
    BY <1>1, <2>1, <2>2, <2>3 DEF NeverAsked, Asks
<1>4. ASSUME NEW t \in Threads, ThreadStep(t) \/ WorkerBlock(t)
      PROVE  NeverAsked'
  BY <1>2, <1>3, <1>4, StreamGoesOn, RestGoesOn DEF ThreadStep, NeverAsked, OneRestart
<1>5. CASE Request
  <2>1. ASSUME NEW t \in Threads, NEW o, NEW s \in {"stopWorker", "super"}, Begin(t, o, s),
               o # "PowerOn"
        PROVE  NeverAsked'
    BY <1>1, <2>1 DEF Begin, Goto, NeverAsked, Asks
  <2>2. ASSUME NEW o \in {"BeginRead", "WriteEnd"}, BeginCallback(o)
        PROVE  NeverAsked'
    <3>1. PICK s \in {"harvestLoop", "push", "request"} : Goto("io", s)
      BY <2>2 DEF BeginCallback
    <3>2. "io" \in Threads
      BY Names
    <3>. QED
      BY <1>1, <2>2, <3>1, <3>2 DEF BeginCallback, Goto, NeverAsked, Asks
  <2>. QED
    BY <1>5, <2>1, <2>2, Names DEF Request, BeginStartDevice, BeginStopDevice,
       BeginChangeSampleRate, BeginPowerOff, BeginPowerOn
<1>6. CASE UNCHANGED vars
  BY <1>6 DEF vars, NeverAsked
<1>. QED
  BY <1>4, <1>5, <1>6, Names DEF Next

\* Without callbacks and without a return of the power no restart ever begins.
THEOREM NoCallbackNoRestart ==
    ASSUME MaxCallbacks = 0, "PowerOn" \notin PowerOps
    PROVE  Spec => [](~restarting)
<1>1. Init => NeverAsked
  BY DEF Init, NeverAsked, Asks
<1>2. TypeOK /\ OneRestart /\ NeverAsked /\ [Next]_vars => NeverAsked'
  <2>1. TypeOK => \A o \in {"BeginRead", "WriteEnd"} : ~BeginCallback(o)
    BY DEF BeginCallback, TypeOK, DataTyped
  <2>. QED
    BY <2>1, NextUnasked
<1>3. NeverAsked => ~restarting
  BY DEF NeverAsked
<1>. QED
  BY <1>1, <1>2, <1>3, TypeCorrect, OneRestartHolds, PTL DEF Spec

-----------------------------------------------------------------------------
(* Without failures a callback always finds the stream. *)

\* The stream runs, and so does its worker
Up == running /\ ready /\ workerRunning

\* Calls made only with a running stream, and calls made only after a failure
FlowsAt == {"startDone", "harvestLoop", "startWorker", "dispatch"} \cup Drains
FailsAt == {"startFail", "undoStart", "startUndone"} \cup Captures

\* Where a handler that starts the stream has started it and the worker
UpAt(o, s) ==
    \/ o = "StartDevice" /\ s \in {"super", "finish"}
    \/ o = "ChangeLiveRate" /\ s = "finish"

\* What "audio" at call s of handler o knows when nothing fails
Sound(o, s) ==
    /\ s \notin FailsAt
    /\ s = "startLive" => ~running
    /\ s \in {"configure", "runContexts"} => buffer = "mapped"
    /\ s \in FlowsAt => running /\ ready
    /\ UpAt(o, s) => Up
    /\ o = "StopDevice" /\ s # "super" => ~ioActive
    /\ ioActive /\ (s = "idle" \/ o = "ChangeIdleRate") => Up

\* With SInv, inductive when nothing fails
UInv ==
    /\ NeverAsked
    /\ pc["power"] = "idle"
    /\ Sound(op["audio"], pc["audio"])

\* "audio" keeps what it knows.
LEMMA AudioSound ==
    ASSUME SInv, UInv, ~StartMayFail, ThreadStep("audio")
    PROVE  Sound(op["audio"], pc["audio"])'
<1>1. /\ DOMAIN pc = Threads /\ DOMAIN op = Threads /\ "audio" \in Threads
      /\ "audio" \in Controllers /\ "audio" \notin Workers /\ pc["power"] = "idle"
      /\ Controllers = {"audio", "power"}
  BY Names DEF SInv, TypeOK, ControlTyped, UInv
<1>2. /\ op["audio"] \in {"StartDevice", "StopDevice", "ChangeLiveRate", "ChangeIdleRate"}
      /\ pc["audio"] # "idle" => Places("audio", op["audio"], pc["audio"])
  BY <1>1 DEF SInv, PowerKnown, Placed
<1>3. /\ pc["audio"] \notin FailsAt \cup Asks
      /\ Sound(op["audio"], pc["audio"])
  BY <1>1 DEF UInv, Sound, NeverAsked
<1>4. ~starting \/ pc["audio"] \in Starting
  BY <1>1 DEF SInv, FlagsMean
<1>5. GoneAt("audio", op["audio"], pc["audio"], power) => ~running /\ buffer = "none"
  BY <1>1 DEF SInv, StreamGone
<1>6. NoWorkerAt("audio", op["audio"], pc["audio"], power) => ~workerRunning
  BY <1>1 DEF SInv, WorkersStopped
<1>7. ASSUME NEW s, Goto("audio", s), UNCHANGED op, Sound(op["audio"], s)'
      PROVE  Sound(op["audio"], pc["audio"])'
  BY <1>1, <1>7 DEF Goto
<1>8. MayFail = {TRUE}
  BY DEF MayFail
<1>9. CASE SuperSucceeds("audio") \/ SuperFails("audio") \/ FinishHandler("audio")
  <2>1. CASE SuperSucceeds("audio")
    <3>1. pc["audio"] = "super" /\ UNCHANGED <<live, buffer, workerRunning, op>>
      BY <2>1 DEF SuperSucceeds, dma, worker
    <3>2. /\ Goto("audio", Handlers[op["audio"]]["super"])
          /\ op["audio"] = "StopDevice" => ~ioActive'
          /\ op["audio"] \in {"ChangeLiveRate", "ChangeIdleRate"} => ioActive' = ioActive
      BY <1>1, <2>1 DEF SuperSucceeds, Return, UInv, NeverAsked
    <3>. QED
      BY <1>2, <1>3, <1>5, <1>7, <3>1, <3>2, TableValues
      DEF Sound, Up, UpAt, GoneAt, FlowsAt, FailsAt, live, Places
  <2>2. CASE SuperFails("audio")
    BY <2>2 DEF SuperFails
  <2>3. CASE FinishHandler("audio")
    <3>1. pc["audio"] = "finish" /\ UNCHANGED <<live, buffer, workerRunning, op, ioActive>>
      BY <2>3 DEF FinishHandler, dma, worker, device
    <3>2. Goto("audio", "idle")
      BY <2>3 DEF FinishHandler
    <3>. QED
      BY <1>2, <1>3, <1>7, <3>1, <3>2 DEF Sound, Up, UpAt, FlowsAt, FailsAt, live, Places
  <2>. QED
    BY <1>9, <2>1, <2>2, <2>3
<1>10. CASE Stop("audio")
  <2>1. CASE StopAudioRefreshWorker("audio")
    <3>1. pc["audio"] = "stopWorker" /\ UNCHANGED <<live, buffer, op, ioActive>>
      BY <2>1 DEF StopAudioRefreshWorker, dma, device
    <3>2. \E s : /\ Goto("audio", s)
                 /\ \/ s \in {"stopWait", "stopLive"}
                    \/ s = "silence" /\ op["audio"] = "StopDevice"
      BY <1>2, <2>1, TableValues DEF StopAudioRefreshWorker, Return, Places
    <3>. QED
      BY <1>2, <1>3, <1>7, <3>1, <3>2 DEF Sound, Up, UpAt, FlowsAt, FailsAt, live, Places
  <2>2. CASE AwaitWorkerExit("audio")
    <3>1. pc["audio"] = "stopWait" /\ UNCHANGED <<live, buffer, workerRunning, op, ioActive>>
      BY <2>2 DEF AwaitWorkerExit, dma, worker, device
    <3>2. \E s : /\ Goto("audio", s)
                 /\ s = "stopLive" \/ (s = "silence" /\ op["audio"] = "StopDevice")
      BY <1>2, <2>2, TableValues DEF AwaitWorkerExit, Return, Places
    <3>. QED
      BY <1>2, <1>3, <1>7, <3>1, <3>2 DEF Sound, Up, UpAt, FlowsAt, FailsAt, live, Places
  <2>3. CASE PushStopSilence("audio")
    <3>1. pc["audio"] = "silence" /\ UNCHANGED <<live, buffer, workerRunning, op, ioActive>>
      BY <2>3 DEF PushStopSilence, dma, worker, device
    <3>2. \E s \in {"push", "stopLive"} : Goto("audio", s)
      BY <1>2, <2>3, TableValues DEF PushStopSilence, Return, Places
    <3>. QED
      BY <1>2, <1>3, <1>7, <3>1, <3>2 DEF Sound, Up, UpAt, FlowsAt, FailsAt, live, Places
  <2>4. CASE StopDigiLiveStreamForAudio("audio")
    <3>1. pc["audio"] = "stopLive" /\ UNCHANGED <<live, buffer, workerRunning, op, ioActive>>
      BY <2>4 DEF StopDigiLiveStreamForAudio, dma, worker, device
    <3>2. \E s \in {"markStopping", "reset", "finish"} :
              Goto("audio", s) /\ (s = "finish" => op["audio"] = "StopDevice")
      BY <1>2, <2>4, TableValues DEF StopDigiLiveStreamForAudio, Return, Places
    <3>. QED
      BY <1>2, <1>3, <1>7, <3>1, <3>2 DEF Sound, Up, UpAt, FlowsAt, FailsAt, live, Places
  <2>5. CASE MarkStopping("audio")
    <3>1. pc["audio"] = "markStopping" /\ UNCHANGED <<buffer, workerRunning, op, ioActive>>
      BY <2>5 DEF MarkStopping, dma, worker, device
    <3>2. Goto("audio", "stopContexts")
      BY <1>2, <2>5, TableValues DEF MarkStopping, Return, Places
    <3>. QED
      BY <1>2, <1>3, <1>7, <3>1, <3>2 DEF Sound, Up, UpAt, FlowsAt, FailsAt, live, Places
  <2>6. CASE StopContexts("audio")
    <3>1. pc["audio"] = "stopContexts" /\ UNCHANGED <<live, buffer, workerRunning, op, ioActive>>
      BY <2>6 DEF StopContexts, dma, worker, device
    <3>2. Goto("audio", "drainWait")
      BY <1>2, <2>6, TableValues DEF StopContexts, Return, Places
    <3>. QED
      BY <1>2, <1>3, <1>7, <3>1, <3>2 DEF Sound, Up, UpAt, FlowsAt, FailsAt, live, Places
  <2>7. CASE AwaitDrain("audio")
    <3>1. pc["audio"] = "drainWait" /\ UNCHANGED <<live, buffer, workerRunning, op, ioActive>>
      BY <2>7 DEF AwaitDrain, dma, worker, device
    <3>2. Goto("audio", "release")
      BY <1>2, <2>7, TableValues DEF AwaitDrain, Return, Places
    <3>. QED
      BY <1>2, <1>3, <1>7, <3>1, <3>2 DEF Sound, Up, UpAt, FlowsAt, FailsAt, live, Places
  <2>8. CASE ReleaseLiveBuffer("audio")
    <3>1. pc["audio"] = "release" /\ UNCHANGED <<live, workerRunning, op, ioActive>>
      BY <2>8 DEF ReleaseLiveBuffer, dma, worker, device
    <3>2. Goto("audio", "stopped")
      BY <1>2, <2>8, TableValues DEF ReleaseLiveBuffer, Return, Places
    <3>. QED
      BY <1>2, <1>3, <1>7, <3>1, <3>2 DEF Sound, Up, UpAt, FlowsAt, FailsAt, live, Places
  <2>9. CASE StopDone("audio")
    <3>1. pc["audio"] = "stopped" /\ UNCHANGED <<buffer, workerRunning, op, ioActive>>
      BY <2>9 DEF StopDone, dma, worker, device
    <3>2. \E s \in {"reset", "finish"} :
              Goto("audio", s) /\ (s = "finish" => op["audio"] = "StopDevice")
      BY <1>2, <2>9, TableValues DEF StopDone, Return, Places
    <3>. QED
      BY <1>2, <1>3, <1>7, <3>1, <3>2 DEF Sound, Up, UpAt, FlowsAt, FailsAt, live, Places
  <2>10. CASE ResetDigiLiveOutputState("audio")
    <3>1. pc["audio"] = "reset" /\ UNCHANGED <<live, buffer, workerRunning, op, ioActive>>
      BY <2>10 DEF ResetDigiLiveOutputState, dma, worker, device
    <3>2. \E s \in {"startLive", "super"} :
              Goto("audio", s) /\ (s = "super" => op["audio"] = "ChangeLiveRate")
      BY <1>2, <2>10, TableValues DEF ResetDigiLiveOutputState, Return, Places
    <3>. QED
      BY <1>2, <1>3, <1>5, <1>7, <3>1, <3>2
      DEF Sound, Up, UpAt, FlowsAt, FailsAt, live, Places, GoneAt
  <2>. QED
    BY <1>10, <2>1, <2>2, <2>3, <2>4, <2>5, <2>6, <2>7, <2>8, <2>9, <2>10 DEF Stop
<1>11. CASE Start("audio")
  <2>1. CASE StartDigiLiveStreamForAudio("audio")
    <3>1. pc["audio"] = "startLive" /\ UNCHANGED <<live, buffer, workerRunning, op, ioActive>>
      BY <2>1 DEF StartDigiLiveStreamForAudio, dma, worker, device
    <3>2. Goto("audio", "markStarting")
      BY <1>3, <1>4, <2>1, <3>1 DEF StartDigiLiveStreamForAudio, Sound
    <3>. QED
      BY <1>2, <1>3, <1>7, <3>1, <3>2 DEF Sound, Up, UpAt, FlowsAt, FailsAt, live, Places
  <2>2. CASE MarkStarting("audio")
    <3>1. pc["audio"] = "markStarting" /\ UNCHANGED <<running, buffer, workerRunning, op, ioActive>>
      BY <2>2 DEF MarkStarting, dma, worker, device
    <3>2. Goto("audio", "transactions")
      BY <1>2, <2>2, TableValues DEF MarkStarting, Return, Places
    <3>. QED
      BY <1>2, <1>3, <1>7, <3>1, <3>2 DEF Sound, Up, UpAt, FlowsAt, FailsAt, live, Places
  <2>3. CASE RunDigiLiveBeginTransactions("audio")
    <3>1. pc["audio"] = "transactions" /\ UNCHANGED <<live, buffer, workerRunning, op, ioActive>>
      BY <2>3 DEF RunDigiLiveBeginTransactions, dma, worker, device
    <3>2. Goto("audio", "createBuffer")
      BY <1>8, <2>3 DEF RunDigiLiveBeginTransactions
    <3>. QED
      BY <1>2, <1>3, <1>7, <3>1, <3>2 DEF Sound, Up, UpAt, FlowsAt, FailsAt, live, Places
  <2>4. CASE CreateLiveBuffer("audio")
    <3>1. pc["audio"] = "createBuffer" /\ UNCHANGED <<live, workerRunning, op, ioActive>>
      BY <2>4 DEF CreateLiveBuffer, dma, worker, device
    <3>2. Goto("audio", "configure") /\ buffer' = "mapped"
      BY <1>8, <2>4 DEF CreateLiveBuffer
    <3>. QED
      BY <1>2, <1>3, <1>7, <3>1, <3>2 DEF Sound, Up, UpAt, FlowsAt, FailsAt, live, Places
  <2>5. CASE ConfigureDescriptors("audio")
    <3>1. pc["audio"] = "configure" /\ UNCHANGED <<live, buffer, workerRunning, op, ioActive>>
      BY <2>5 DEF ConfigureDescriptors, dma, worker, device
    <3>2. Goto("audio", "runContexts")
      BY <1>3, <1>8, <2>5, <3>1 DEF ConfigureDescriptors, Sound
    <3>. QED
      BY <1>2, <1>3, <1>7, <3>1, <3>2 DEF Sound, Up, UpAt, FlowsAt, FailsAt, live, Places
  <2>6. CASE RunContexts("audio")
    <3>1. pc["audio"] = "runContexts" /\ UNCHANGED <<buffer, workerRunning, op, ioActive>>
      BY <2>6 DEF RunContexts, dma, worker, device
    <3>2. Goto("audio", "startDone") /\ running' /\ ready'
      BY <1>2, <2>6, TableValues DEF RunContexts, Return, Places
    <3>. QED
      BY <1>2, <1>3, <1>7, <3>1, <3>2 DEF Sound, Up, UpAt, FlowsAt, FailsAt, live, Places
  <2>7. CASE StartFailed("audio")
    BY <1>3, <2>7 DEF StartFailed, FailsAt
  <2>8. CASE UndoStart("audio")
    BY <1>3, <2>8 DEF UndoStart, FailsAt
  <2>9. CASE StartDone("audio")
    <3>1. pc["audio"] = "startDone" /\ UNCHANGED <<running, ready, buffer, workerRunning, op, ioActive>>
      BY <1>3, <2>9 DEF StartDone, FailsAt, dma, worker, device
    <3>2. Goto("audio", "harvestLoop")
      BY <1>2, <2>9, <3>1, TableValues DEF StartDone, Return, Places
    <3>. QED
      BY <1>2, <1>3, <1>7, <3>1, <3>2 DEF Sound, Up, UpAt, FlowsAt, FailsAt, live, Places
  <2>. QED
    BY <1>11, <2>1, <2>2, <2>3, <2>4, <2>5, <2>6, <2>7, <2>8, <2>9 DEF Start
<1>12. CASE Harvest("audio")
  <2>1. CASE HarvestAgain("audio")
    <3>1. pc["audio"] \in FlowsAt /\ UNCHANGED <<live, buffer, workerRunning, op, ioActive>>
      BY <2>1 DEF HarvestAgain, dma, worker, device, FlowsAt
    <3>2. Goto("audio", "harvest")
      BY <1>2, <2>1, TableValues DEF HarvestAgain, Return, Places
    <3>. QED
      BY <1>2, <1>3, <1>7, <3>1, <3>2 DEF Sound, Up, UpAt, FlowsAt, FailsAt, live, Places
  <2>2. CASE HarvestEnough("audio")
    <3>1. pc["audio"] \in FlowsAt /\ UNCHANGED <<live, buffer, workerRunning, op, ioActive>>
      BY <2>2 DEF HarvestEnough, dma, worker, device, FlowsAt
    <3>2. Goto("audio", "startWorker")
      BY <1>2, <2>2, TableValues DEF HarvestEnough, Return, Places
    <3>. QED
      BY <1>2, <1>3, <1>7, <3>1, <3>2 DEF Sound, Up, UpAt, FlowsAt, FailsAt, live, Places
  <2>3. CASE HarvestDigiLiveIsoStream("audio")
    <3>1. pc["audio"] \in FlowsAt /\ UNCHANGED <<live, buffer, workerRunning, op, ioActive>>
      BY <2>3 DEF HarvestDigiLiveIsoStream, dma, worker, device, FlowsAt
    <3>2. \E s \in {"harvestLock", "harvestLoop"} : Goto("audio", s)
      BY <1>2, <2>3, TableValues DEF HarvestDigiLiveIsoStream, Return, Places
    <3>. QED
      BY <1>2, <1>3, <1>7, <3>1, <3>2 DEF Sound, Up, UpAt, FlowsAt, FailsAt, live, Places
  <2>4. CASE TakeDrainLock("audio")
    <3>1. pc["audio"] \in FlowsAt /\ UNCHANGED <<live, buffer, workerRunning, op, ioActive>>
      BY <2>4 DEF TakeDrainLock, dma, worker, device, FlowsAt
    <3>2. \E s \in {"sync", "harvestLoop"} : Goto("audio", s)
      BY <1>2, <2>4, TableValues DEF TakeDrainLock, Return, Places
    <3>. QED
      BY <1>2, <1>3, <1>7, <3>1, <3>2 DEF Sound, Up, UpAt, FlowsAt, FailsAt, live, Places
  <2>5. CASE SkipHarvest("audio")
    <3>1. pc["audio"] \in FlowsAt /\ UNCHANGED <<live, buffer, workerRunning, op, ioActive>>
      BY <2>5 DEF SkipHarvest, dma, worker, device, FlowsAt
    <3>2. Goto("audio", "harvestLoop")
      BY <1>2, <2>5, TableValues DEF SkipHarvest, Return, Places
    <3>. QED
      BY <1>2, <1>3, <1>7, <3>1, <3>2 DEF Sound, Up, UpAt, FlowsAt, FailsAt, live, Places
  <2>6. CASE SyncForCPU("audio")
    <3>1. pc["audio"] \in FlowsAt /\ UNCHANGED <<live, buffer, workerRunning, op, ioActive>>
      BY <2>6 DEF SyncForCPU, dma, worker, device, FlowsAt
    <3>2. Goto("audio", "process")
      BY <1>2, <2>6, TableValues DEF SyncForCPU, Return, Places
    <3>. QED
      BY <1>2, <1>3, <1>7, <3>1, <3>2 DEF Sound, Up, UpAt, FlowsAt, FailsAt, live, Places
  <2>7. CASE ProcessDescriptors("audio")
    <3>1. pc["audio"] \in FlowsAt /\ UNCHANGED <<live, buffer, workerRunning, op, ioActive>>
      BY <2>7 DEF ProcessDescriptors, dma, worker, device, FlowsAt
    <3>2. Goto("audio", "harvestLoop")
      BY <1>2, <2>7, TableValues DEF ProcessDescriptors, Return, Places
    <3>. QED
      BY <1>2, <1>3, <1>7, <3>1, <3>2 DEF Sound, Up, UpAt, FlowsAt, FailsAt, live, Places
  <2>. QED
    BY <1>12, <2>1, <2>2, <2>3, <2>4, <2>5, <2>6, <2>7 DEF Harvest
<1>13. CASE Push("audio")
  <2>1. CASE PushAudioOutputToDigiLiveTransmit("audio")
    <3>1. pc["audio"] \in Pushes /\ UNCHANGED <<live, buffer, workerRunning, op, ioActive>>
      BY <2>1 DEF PushAudioOutputToDigiLiveTransmit, dma, worker, device
    <3>2. \E s \in {"pushLock", "silence"} : Goto("audio", s)
      BY <1>2, <2>1, TableValues DEF PushAudioOutputToDigiLiveTransmit, Return, Places
    <3>. QED
      BY <1>2, <1>3, <1>7, <3>1, <3>2 DEF Sound, Up, UpAt, FlowsAt, FailsAt, live, Places
  <2>2. CASE TakePushGuard("audio")
    <3>1. pc["audio"] \in Pushes /\ UNCHANGED <<live, buffer, workerRunning, op, ioActive>>
      BY <2>2 DEF TakePushGuard, dma, worker, device
    <3>2. \E s \in {"plan", "silence"} : Goto("audio", s)
      BY <1>2, <2>2, TableValues DEF TakePushGuard, Return, Places
    <3>. QED
      BY <1>2, <1>3, <1>7, <3>1, <3>2 DEF Sound, Up, UpAt, FlowsAt, FailsAt, live, Places
  <2>3. CASE SkipPush("audio")
    <3>1. pc["audio"] \in Pushes /\ UNCHANGED <<live, buffer, workerRunning, op, ioActive>>
      BY <2>3 DEF SkipPush, dma, worker, device
    <3>2. Goto("audio", "silence")
      BY <1>2, <2>3, TableValues DEF SkipPush, Return, Places
    <3>. QED
      BY <1>2, <1>3, <1>7, <3>1, <3>2 DEF Sound, Up, UpAt, FlowsAt, FailsAt, live, Places
  <2>4. CASE PlanPackets("audio")
    <3>1. pc["audio"] \in Pushes /\ UNCHANGED <<live, buffer, workerRunning, op, ioActive>>
      BY <2>4 DEF PlanPackets, dma, worker, device
    <3>2. Goto("audio", "write")
      BY <1>2, <2>4, TableValues DEF PlanPackets, Return, Places
    <3>. QED
      BY <1>2, <1>3, <1>7, <3>1, <3>2 DEF Sound, Up, UpAt, FlowsAt, FailsAt, live, Places
  <2>5. CASE WritePackets("audio")
    <3>1. pc["audio"] \in Pushes /\ UNCHANGED <<live, buffer, workerRunning, op, ioActive>>
      BY <2>5 DEF WritePackets, dma, worker, device
    <3>2. Goto("audio", "silence")
      BY <1>2, <2>5, TableValues DEF WritePackets, Return, Places
    <3>. QED
      BY <1>2, <1>3, <1>7, <3>1, <3>2 DEF Sound, Up, UpAt, FlowsAt, FailsAt, live, Places
  <2>. QED
    BY <1>13, <2>1, <2>2, <2>3, <2>4, <2>5 DEF Push
<1>14. CASE Refresh("audio")
  <2>1. CASE StartAudioRefreshWorker("audio")
    <3>1. pc["audio"] = "startWorker" /\ UNCHANGED <<live, buffer, workerRunning, op, ioActive>>
      BY <2>1 DEF StartAudioRefreshWorker, dma, worker, device
    <3>2. Goto("audio", "dispatch")
      BY <1>6, <2>1, <3>1 DEF StartAudioRefreshWorker, NoWorkerAt, Past
    <3>. QED
      BY <1>2, <1>3, <1>7, <3>1, <3>2 DEF Sound, Up, UpAt, FlowsAt, FailsAt, live, Places
  <2>2. CASE DispatchWorker("audio")
    <3>1. /\ pc["audio"] = "dispatch" /\ workerRunning'
          /\ UNCHANGED <<running, ready, buffer, ioActive>>
      BY <2>2 DEF DispatchWorker, live, dma, device
    <3>2. op'["audio"] = op["audio"] /\ pc'["audio"] = Handlers[op["audio"]]["startWorker"]
      BY <1>1, <2>2 DEF DispatchWorker
    <3>. QED
      BY <1>2, <1>3, <3>1, <3>2, TableValues DEF Sound, Up, UpAt, FlowsAt, FailsAt, Places
  <2>3. ~RefreshDigiCaptureForAudio("audio") /\ ~MarkCapture("audio") /\ ~RunDigiDuplexProbe("audio")
    BY <1>3 DEF RefreshDigiCaptureForAudio, MarkCapture, RunDigiDuplexProbe, FailsAt
  <2>4. ~RequestAudioRuntimeRestart("audio") /\ ~TakeRestart("audio") /\ ~RestartBlock("audio")
    BY <1>2, <1>3 DEF RequestAudioRuntimeRestart, TakeRestart, RestartBlock, Asks, Places
  <2>. QED
    BY <1>14, <2>1, <2>2, <2>3, <2>4 DEF Refresh
<1>. QED
  BY <1>9, <1>10, <1>11, <1>12, <1>13, <1>14 DEF ThreadStep

\* The other threads do not change what "audio" knows: callbacks and workers store none
\* of these flags.
LEMMA OthersSound ==
    ASSUME SInv, UInv, NEW t \in Threads \ {"audio"},
           ThreadStep(t) \/ (t \in Workers /\ WorkerBlock(t))
    PROVE  Sound(op["audio"], pc["audio"])' /\ pc'["power"] = "idle"
<1>1. /\ DOMAIN pc = Threads /\ DOMAIN op = Threads /\ pc["power"] = "idle"
      /\ pc["restart"] = "idle" /\ "audio" \in Threads /\ "power" \in Threads
      /\ "audio" \notin Workers /\ "power" \notin Workers
      /\ pc[t] # "idle" => t \notin Controllers /\ Places(t, op[t], pc[t])
  BY Names DEF SInv, TypeOK, ControlTyped, UInv, Alone, Placed
<1>2. Sound(op["audio"], pc["audio"]) /\ pc[t] \notin Asks
  BY DEF UInv, NeverAsked
<1>3. pc[t] # "idle"
      => pc[t] \in {"loop", "workerPush", "harvestLoop", "finish"}
                   \cup Drains \cup Pushes \cup Captures
  BY <1>1, <1>2 DEF Places, BeginReadCode, WriteEndCode, WorkerCode, Asks, Controllers
<1>4. ASSUME NEW s, Goto(t, s), pc[t] # "idle", UNCHANGED op,
             UNCHANGED <<live, buffer, workerRunning, ioActive>>
      PROVE  Sound(op["audio"], pc["audio"])' /\ pc'["power"] = "idle"
  <2>1. pc'["audio"] = pc["audio"] /\ pc'["power"] = pc["power"]
    BY <1>1, <1>4 DEF Goto, Controllers
  <2>. QED
    BY <1>1, <1>2, <1>4, <2>1 DEF Sound, Up, live
<1>5. ~SuperSucceeds(t) /\ ~SuperFails(t)
  BY <1>3 DEF SuperSucceeds, SuperFails
<1>6. CASE FinishHandler(t)
  BY <1>4, <1>6 DEF FinishHandler, worker, dma, device
<1>7. ~Stop(t)
  BY <1>3 DEF Stop, StopAudioRefreshWorker, AwaitWorkerExit, PushStopSilence,
     StopDigiLiveStreamForAudio, MarkStopping, StopContexts, AwaitDrain,
     ReleaseLiveBuffer, StopDone, ResetDigiLiveOutputState
<1>8. ~Start(t)
  BY <1>3 DEF Start, StartDigiLiveStreamForAudio, MarkStarting,
     RunDigiLiveBeginTransactions, CreateLiveBuffer, ConfigureDescriptors, RunContexts,
     StartFailed, UndoStart, StartDone
<1>9. CASE Harvest(t)
  <2>1. CASE HarvestAgain(t)
    BY <1>4, <2>1 DEF HarvestAgain, Return, worker, dma, device
  <2>2. CASE HarvestEnough(t)
    BY <1>4, <2>2 DEF HarvestEnough, Return, worker, dma, device
  <2>3. CASE HarvestDigiLiveIsoStream(t)
    BY <1>4, <2>3 DEF HarvestDigiLiveIsoStream, Return, worker, dma, device
  <2>4. CASE TakeDrainLock(t)
    BY <1>4, <2>4 DEF TakeDrainLock, Return, worker, dma, device
  <2>5. CASE SkipHarvest(t)
    BY <1>4, <2>5 DEF SkipHarvest, Return, worker, dma, device
  <2>6. CASE SyncForCPU(t)
    BY <1>4, <2>6 DEF SyncForCPU, Return, worker, dma, device
  <2>7. CASE ProcessDescriptors(t)
    BY <1>4, <2>7 DEF ProcessDescriptors, Return, worker, dma, device
  <2>. QED
    BY <1>9, <2>1, <2>2, <2>3, <2>4, <2>5, <2>6, <2>7 DEF Harvest
<1>10. CASE Push(t)
  <2>1. CASE PushAudioOutputToDigiLiveTransmit(t)
    BY <1>4, <2>1 DEF PushAudioOutputToDigiLiveTransmit, Return, worker, dma, device
  <2>2. CASE TakePushGuard(t)
    BY <1>4, <2>2 DEF TakePushGuard, Return, worker, dma, device
  <2>3. CASE SkipPush(t)
    BY <1>4, <2>3 DEF SkipPush, Return, worker, dma, device
  <2>4. CASE PlanPackets(t)
    BY <1>4, <2>4 DEF PlanPackets, Return, worker, dma, device
  <2>5. CASE WritePackets(t)
    BY <1>4, <2>5 DEF WritePackets, Return, worker, dma, device
  <2>. QED
    BY <1>10, <2>1, <2>2, <2>3, <2>4, <2>5 DEF Push
<1>11. CASE Refresh(t)
  <2>1. CASE RefreshDigiCaptureForAudio(t)
    BY <1>4, <2>1 DEF RefreshDigiCaptureForAudio, Return, worker, dma, device
  <2>2. CASE MarkCapture(t)
    BY <1>4, <2>2 DEF MarkCapture, dma, device
  <2>3. CASE RunDigiDuplexProbe(t)
    BY <1>4, <2>3 DEF RunDigiDuplexProbe, Return, device
  <2>4. ~StartAudioRefreshWorker(t) /\ ~DispatchWorker(t) /\ ~RestartBlock(t)
    BY <1>3 DEF StartAudioRefreshWorker, DispatchWorker, RestartBlock
  <2>5. ~RequestAudioRuntimeRestart(t) /\ ~TakeRestart(t)
    BY <1>2 DEF RequestAudioRuntimeRestart, TakeRestart, Asks
  <2>. QED
    BY <1>11, <2>1, <2>2, <2>3, <2>4, <2>5 DEF Refresh
<1>12. CASE WorkerBlock(t)
  <2>1. CASE WorkerLoop(t)
    BY <1>4, <2>1 DEF WorkerLoop, worker, dma, device
  <2>2. CASE WorkerExit(t)
    BY <1>4, <2>2 DEF WorkerExit, dma, device
  <2>3. CASE WorkerPush(t)
    BY <1>4, <2>3 DEF WorkerPush, worker, dma, device
  <2>. QED
    BY <1>12, <2>1, <2>2, <2>3 DEF WorkerBlock
<1>. QED
  BY <1>5, <1>6, <1>7, <1>8, <1>9, <1>10, <1>11, <1>12 DEF ThreadStep

\* No step asks for a restart, or brings the stream down under the device.
LEMMA NextSound ==
    ASSUME SInv, OneRestart, UInv, ~StartMayFail, PowerOps = {}, Quiesces, [Next]_vars
    PROVE  UInv'
<1>1. ASSUME NEW o \in {"BeginRead", "WriteEnd"}, BeginCallback(o)
      PROVE  pc'["io"] # "request"
  <2>1. pc["audio"] = "idle" /\ ioActive
    BY <1>1, Names DEF BeginCallback, Quiesces, ControllersIdle
  <2>2. running /\ ready /\ workerRunning
    BY <2>1 DEF UInv, Sound, Up
  <2>3. "io" \in DOMAIN pc
    BY Names DEF SInv, TypeOK, ControlTyped
  <2>. QED
    BY <1>1, <2>2, <2>3 DEF BeginCallback, Goto
<1>2. NeverAsked'
  BY <1>1, NextUnasked DEF UInv, SInv
<1>3. /\ DOMAIN pc = Threads /\ DOMAIN op = Threads /\ "audio" \in Threads /\ "power" \in Threads
      /\ Sound(op["audio"], pc["audio"]) /\ pc["power"] = "idle"
  BY Names DEF SInv, TypeOK, ControlTyped, UInv
<1>4. ASSUME NEW t \in Threads, ThreadStep(t) \/ (t \in Workers /\ WorkerBlock(t))
      PROVE  Sound(op["audio"], pc["audio"])' /\ pc'["power"] = "idle"
  <2>1. CASE t = "audio"
    <3>1. ThreadStep("audio") /\ "audio" \notin Workers
      BY <1>4, <2>1, Names
    <3>2. ASSUME GoesOn("audio")
          PROVE  pc'["power"] = "idle"
      BY <1>3, <3>2 DEF GoesOn, Goto
    <3>3. ASSUME DispatchWorker("audio")
          PROVE  pc'["power"] = "idle"
      BY <1>3, <3>3, Names DEF DispatchWorker
    <3>4. TypeOK /\ pc["audio"] \notin Asks /\ op["audio"] # "PowerOn" /\ pc["restart"] = "idle"
      BY <1>3 DEF SInv, Alone, UInv, NeverAsked
    <3>5. pc'["power"] = "idle"
      BY <1>3, <3>1, <3>2, <3>3, <3>4, StreamGoesOn, RestGoesOn DEF ThreadStep
    <3>. QED
      BY <3>1, <3>5, AudioSound
  <2>. QED
    BY <1>4, <2>1, OthersSound
<1>5. ASSUME Request
      PROVE  Sound(op["audio"], pc["audio"])' /\ pc'["power"] = "idle"
  <2>1. ASSUME NEW o, NEW s, Begin("audio", o, s), UNCHANGED ioActive, pc["audio"] = "idle",
               \/ o = "StartDevice" /\ s = "stopWorker"
               \/ o = "StopDevice" /\ s = "super"
               \/ o = "ChangeLiveRate" /\ s = "stopWorker"
               \/ o = "ChangeIdleRate" /\ s = "super" /\ ~workerRunning
        PROVE  Sound(op["audio"], pc["audio"])' /\ pc'["power"] = "idle"
    <3>1. /\ op'["audio"] = o /\ pc'["audio"] = s /\ pc'["power"] = pc["power"]
          /\ UNCHANGED <<running, ready, buffer, workerRunning>>
      BY <1>3, <2>1 DEF Begin, Goto, live, dma, worker
    <3>. QED
      BY <1>3, <2>1, <3>1 DEF Sound, Up, UpAt, FlowsAt, FailsAt
  <2>2. ASSUME NEW o \in {"BeginRead", "WriteEnd"}, BeginCallback(o)
        PROVE  Sound(op["audio"], pc["audio"])' /\ pc'["power"] = "idle"
    <3>1. /\ op'["audio"] = op["audio"] /\ pc'["audio"] = pc["audio"] /\ pc'["power"] = pc["power"]
          /\ UNCHANGED <<running, ready, buffer, workerRunning, ioActive>>
      BY <1>3, <2>2 DEF BeginCallback, Goto, live, dma, worker, device
    <3>. QED
      BY <1>3, <3>1 DEF Sound, Up
  <2>3. ~BeginPowerOff /\ ~BeginPowerOn
    BY DEF BeginPowerOff, BeginPowerOn
  <2>4. CASE BeginStartDevice
    BY <2>1, <2>4 DEF BeginStartDevice, MayBegin, device
  <2>5. CASE BeginStopDevice
    BY <2>1, <2>5 DEF BeginStopDevice, MayBegin
  <2>6. CASE BeginChangeSampleRate
    BY <2>1, <2>6 DEF BeginChangeSampleRate, MayBegin, device
  <2>. QED
    BY <1>5, <2>2, <2>3, <2>4, <2>5, <2>6 DEF Request
<1>6. ASSUME UNCHANGED vars
      PROVE  Sound(op["audio"], pc["audio"])' /\ pc'["power"] = "idle"
  <2>1. UNCHANGED <<running, ready, workerRunning, buffer, ioActive, pc, op>>
    BY <1>6 DEF vars, live, dma, worker, device
  <2>. QED
    BY <1>3, <2>1 DEF Sound, Up
<1>. QED
  BY <1>2, <1>4, <1>5, <1>6, Names DEF Next, UInv

\* When nothing fails and the power stays on, CoreAudio's callbacks never ask for a restart:
\* whenever the device is started and no handler runs, stream and worker are up.
THEOREM NoFailureNoRestart ==
    ASSUME Quiesces, ~WaitsExpire, ~StartMayFail, PowerOps = {}
    PROVE  Spec => [](~restarting)
<1>1. Init => UInv
  <2>1. SUFFICES ASSUME Init PROVE UInv
    OBVIOUS
  <2>2. NeverAsked
    BY <2>1 DEF Init, NeverAsked, Asks
  <2>3. /\ op["audio"] = "StopDevice" /\ pc["audio"] = "idle" /\ pc["power"] = "idle"
        /\ ~ioActive
    BY <2>1, Names DEF Init
  <2>. QED
    BY <2>2, <2>3 DEF UInv, Sound, UpAt, FlowsAt, FailsAt
<1>2. SInv /\ OneRestart /\ TypeOK' /\ UInv /\ [Next]_vars => SInv' /\ UInv'
  BY NextSound, NextSerial DEF UInv, NeverAsked
<1>3. UInv => ~restarting
  BY DEF UInv, NeverAsked
<1>. QED
  BY <1>1, <1>2, <1>3, InitSerial, TypeCorrect, OneRestartHolds, PTL DEF Spec

-----------------------------------------------------------------------------
(* The theorems: for all workers, bounds, operations and failures of the device, until *)
(* a restart block is dispatched.                                                       *)

\* No thread uses an address in gDigiLiveBuffer after StopDigiLiveStreamForAudio, a failed
\* start or a new CreateUncachedDMABuffer released it.
THEOREM NoStaleUseHolds ==
    ASSUME Quiesces, ~WaitsExpire
    PROVE  Spec /\ [](~restarting) => []NoStaleUse
BY Serial, SerialMeans, PTL

\* PushAudioOutputToDigiLiveTransmit is never in its plan or its writes twice, although
\* ResetDigiLiveOutputState and a start clear its flag whoever holds it.
THEOREM OnePusherHolds ==
    ASSUME Quiesces, ~WaitsExpire
    PROVE  Spec /\ [](~restarting) => []OnePusher
BY Serial, SerialMeans, PTL

\* StopAudioRefreshWorker, by its counters, waits until the worker block has left: the
\* next StartAudioRefreshWorker never makes a second one.
THEOREM OneWorkerHolds ==
    ASSUME Quiesces, ~WaitsExpire
    PROVE  Spec /\ [](~restarting) => []OneWorker
BY Serial, SerialMeans, PTL

\* RunDigiLiveBeginTransactions, the finish transactions and a capture never drive the
\* shared asynchronous buffers at once.
THEOREM OneTransactionHolds ==
    ASSUME Quiesces, ~WaitsExpire
    PROVE  Spec /\ [](~restarting) => []OneTransaction
BY Serial, SerialMeans, PTL

\* While gDigiLiveRunning is set the contexts run, and run in the live buffer; a capture
\* never stops them behind its back.
THEOREM RunningHasContextsHolds ==
    ASSUME Quiesces, ~WaitsExpire
    PROVE  Spec /\ [](~restarting) => []RunningHasContexts
BY Serial, SerialMeans, PTL

\* The buffer is never released under a running context.
THEOREM ContextsOnBufferHolds ==
    ASSUME Quiesces, ~WaitsExpire
    PROVE  Spec /\ [](~restarting) => []ContextsOnBuffer
BY Serial, SerialMeans, PTL

\* StopDevice leaves no stream, no worker, no start and no buffer, also when the
\* framework's own method failed.
THEOREM StoppedIsQuietHolds ==
    ASSUME Quiesces, ~WaitsExpire
    PROVE  Spec /\ [](~restarting) => []StoppedIsQuiet
BY Serial, SerialMeans, PTL

\* With the power off nothing runs, and nothing is mapped, whatever was half done when it
\* went and whichever rate change or stop follows, until StartDevice is called.
THEOREM OffIsQuietHolds ==
    ASSUME Quiesces, ~WaitsExpire
    PROVE  Spec /\ [](~restarting) => []OffIsQuiet
BY Serial, SerialMeans, PTL

\* All of it in every behaviour, whatever fails, of a machine on which no callback runs
\* and the power does not come back.
THEOREM SafeWithoutCallbacks ==
    ASSUME Quiesces, ~WaitsExpire, MaxCallbacks = 0, "PowerOn" \notin PowerOps
    PROVE  Spec => [](/\ NoStaleUse /\ OnePusher /\ OneWorker /\ OneTransaction
                      /\ RunningHasContexts /\ ContextsOnBuffer
                      /\ StoppedIsQuiet /\ OffIsQuiet)
BY Serial, SerialMeans, NoCallbackNoRestart, PTL

\* All of it in every behaviour, with any number of callbacks and rate changes, of a
\* machine whose device answers and whose power stays on.
THEOREM SafeWithoutFailures ==
    ASSUME Quiesces, ~WaitsExpire, ~StartMayFail, PowerOps = {}
    PROVE  Spec => [](/\ NoStaleUse /\ OnePusher /\ OneWorker /\ OneTransaction
                      /\ RunningHasContexts /\ ContextsOnBuffer
                      /\ StoppedIsQuiet /\ OffIsQuiet)
BY Serial, SerialMeans, NoFailureNoRestart, PTL
=============================================================================
