------------------------ MODULE AsyncSession_proofs ------------------------
(***************************************************************************)
(* Theorems about AsyncSession: the contexts, asynchronous and isochronous, *)
(* have the memory they run on, but between a capture and the first attempt *)
(* after it, for any rates, numbers of attempts, labels and delays; and     *)
(* what a call reports done is done, with the labels of the driver.         *)
(***************************************************************************)
EXTENDS AsyncSession, SequenceTheorems, TLAPS

\* A buffer that can be used is one that the controller may use.
LEMMA CreatedBuffer ==
    ASSUME NEW b, NEW outcomes, NEW n \in CreateDMABuffer(b, outcomes)
    PROVE  n.usable => n.prepared
<1> DEFINE Tried(x, o) == CreateDMABufferWithMaxAddressBits(x, o)
<1>1. ASSUME NEW x, NEW o
      PROVE  Tried(x, o).usable => Tried(x, o).prepared
  <2>1. Tried(x, o).usable = (o = "good")
    BY DEF CreateDMABufferWithMaxAddressBits, ReleaseDMABuffer, NoBuffer
  <2>2. o = "good" => Tried(x, o).prepared
    BY DEF CreateDMABufferWithMaxAddressBits, ReleaseDMABuffer, NoBuffer
  <2> QED
    BY <2>1, <2>2
<1>2. PICK low \in outcomes : n \in (IF low \in {"scattered", "good"} THEN {Tried(b, low)}
                                    ELSE {Tried(Tried(b, low), o) : o \in outcomes})
  BY DEF CreateDMABuffer
<1>3. \E x, o : n = Tried(x, o)
  BY <1>2
<1> HIDE DEF Tried
<1> QED
  BY <1>1, <1>3

Kinds == {"begin", "finish", "capture"}

Fields == {"kind", "step", "attempt", "ok", "state"}

Shape ==
    /\ call = [f \in Fields |-> call[f]]
    /\ pc # "idle" => call.kind \in Kinds
    /\ iso = [f \in {"mapped", "running"} |-> iso[f]]

Recording == {"iso", "program", "record", "halt"}

\* The contexts run from the first attempt of a call to its end; those that a capture left
\* running are stopped by the first attempt of the next call, or by its end.
Armed ==
    /\ pc \in {"idle", "prepare", "send", "wait", "stop", "unmap"} \cup Recording
    /\ contexts \in {"stopped", "buffers", "left", "released"}
    /\ pc \in {"idle", "prepare"} => contexts # "buffers"
    /\ pc \in {"wait"} \cup Recording => contexts = "buffers"
    /\ pc = "unmap" => contexts = IF call.kind = "capture" THEN "buffers" ELSE "stopped"
    /\ pc = "stop" => call.kind # "capture"
    /\ call.kind = "finish" => ~Exposed
    /\ \/ Exposed /\ pc # "idle"
       \/ contexts = "stopped" /\ pc \in {"prepare", "send"}
       => call.step = FirstStep(call.kind) /\ call.attempt = 0

\* From the attempt on that needs them to the end of the call the buffers are prepared.
Backed ==
    pc \in {"send", "wait"} \cup Recording \/ contexts = "buffers" =>
        \A b \in {"rx", "reqRx", "tx"} : buffers[b].prepared

\* The isochronous contexts run while the capture records, on a buffer that is mapped.
Mapped ==
    /\ iso.running => pc \in {"record", "halt"}
    /\ pc \in {"program", "record", "halt"} => iso.mapped

\* A step that is over leads to the next one, to the recording, or to the end of the call.
LEMMA EndStepShape ==
    ASSUME Shape, pc \in {"wait", "send"}, NEW success, NEW value, EndStep(success, value)
    PROVE  /\ call' = [f \in Fields |-> call'[f]] /\ call'.kind = call.kind
           /\ pc' \in {"unmap", "stop", "iso", "send"}
           /\ pc' = "unmap" => call.kind = "capture"
           /\ pc' = "stop" => call.kind # "capture"
<1> DEFINE c == [call EXCEPT !.ok = @ /\ (success \/ ~Counts(call)),
                             !.state = IF call.kind # "finish" /\ call.step = 2 /\ success
                                       THEN value ELSE @]
<1>1. c = [f \in Fields |-> c[f]] /\ c.kind = call.kind
  BY DEF Shape, Fields
<1>2. \/ /\ pc' = IF call.kind = "capture" THEN "unmap" ELSE "stop"
         /\ call' = c
      \/ /\ pc' = IF call.kind = "capture" /\ call.step = 4 /\ c.ok THEN "iso" ELSE "send"
         /\ call' = [c EXCEPT !.step = @ + 1, !.attempt = 0]
  BY DEF EndStep
<1> HIDE DEF c
<1> QED
  BY <1>1, <1>2 DEF Fields

\* An attempt that is over is followed by another one, or its step is over.
LEMMA JudgeShape ==
    ASSUME Shape, pc = "wait", Judge
    PROVE  /\ call' = [f \in Fields |-> call'[f]] /\ call'.kind = call.kind
           /\ pc' \in {"unmap", "stop", "iso", "send"}
           /\ pc' = "unmap" => call.kind = "capture"
           /\ pc' = "stop" => call.kind # "capture"
           /\ UNCHANGED <<contexts, iso>>
<1>1. UNCHANGED <<contexts, iso>>
  BY DEF Judge
<1>2. CASE EndStep(TRUE, rx.value) \/ EndStep(FALSE, 0)
  BY <1>1, <1>2, EndStepShape
<1>3. CASE pc' = "send" /\ call' = [call EXCEPT !.attempt = @ + 1]
  BY <1>1, <1>3 DEF Shape, Fields
<1> QED
  BY <1>2, <1>3 DEF Judge

\* A call begins with its first step, whatever the contexts were left on.
LEMMA EnterStep ==
    ASSUME Shape, Armed, Mapped, NEW kind \in {"begin", "capture"}, Enter(kind)
    PROVE  Shape' /\ Armed' /\ Mapped'
  BY DEF Shape, Fields, Kinds, Armed, Exposed, Recording, Mapped, Enter, Starting

\* Contexts that still run lose their memory here; none of them was armed by this call.
LEMMA PrepareStep ==
    ASSUME Shape, Armed, Mapped, Prepare
    PROVE  Shape' /\ Armed' /\ Mapped'
<1>1. /\ pc = "prepare" /\ iso' = iso /\ contexts' \in {"stopped", "released"}
      /\ contexts' = "stopped" <=> ~Exposed
      /\ contexts' = "released" <=> Exposed
  BY DEF Prepare, Armed, Abandoned, Exposed
<1>2. \/ pc' = "send" /\ call' = call
      \/ pc' = "stop" /\ call' = [call EXCEPT !.ok = FALSE] /\ call.kind # "capture"
      \/ pc' = "idle" /\ call' = NoCall
  BY DEF Prepare, Return
<1>3. call' = [f \in Fields |-> call'[f]] /\ (pc' # "idle" => call'.kind = call.kind)
      /\ (pc' # "idle" => call'.step = call.step /\ call'.attempt = call.attempt)
  BY <1>2 DEF Shape, Fields, NoCall
<1>4. pc' \in {"send", "stop", "idle"} /\ (pc' = "stop" => call.kind # "capture")
  BY <1>2
<1>5. pc' = "idle" => call'.kind # "finish"
  BY <1>2, <1>4 DEF NoCall
<1>6. /\ contexts' # "buffers" /\ (Exposed' <=> Exposed)
      /\ call.step = FirstStep(call.kind) /\ call.attempt = 0
  <2>1. contexts \in {"stopped", "left", "released"}
    BY <1>1 DEF Armed
  <2> QED
    BY <1>1, <2>1 DEF Exposed, Armed
<1>7. Armed'
  BY <1>1, <1>3, <1>4, <1>5, <1>6 DEF Armed, Recording
<1> QED
  BY <1>1, <1>3, <1>4, <1>7 DEF Shape, Mapped

\* An attempt arms the contexts on the buffers just made.
LEMMA SendStep ==
    ASSUME Shape, Armed, Mapped, Send
    PROVE  Shape' /\ Armed' /\ Mapped'
  BY DEF Shape, Armed, Exposed, Recording, Mapped, Send

\* The step that may be skipped is not the first one.
LEMMA SkipStep ==
    ASSUME Shape, Armed, Mapped, Skip
    PROVE  Shape' /\ Armed' /\ Mapped'
<1>1. pc = "send" /\ EndStep(TRUE, 0) /\ UNCHANGED <<contexts, iso>>
  BY DEF Skip
<1>2. call' = [f \in Fields |-> call'[f]] /\ call'.kind = call.kind
      /\ pc' \in {"unmap", "stop", "iso", "send"} /\ (pc' = "unmap" => call.kind = "capture")
      /\ (pc' = "stop" => call.kind # "capture")
  BY <1>1, EndStepShape
<1>3. contexts = "buffers"
  BY <1>1 DEF Skip, Skipped, Armed, Exposed, FirstStep
<1> QED
  BY <1>1, <1>2, <1>3 DEF Shape, Armed, Exposed, Recording, Mapped

\* While an answer is waited for the contexts keep their buffers.
LEMMA WaitStep ==
    ASSUME Shape, Armed, Mapped, Poll \/ GiveUp
    PROVE  Shape' /\ Armed' /\ Mapped'
<1>1. pc = "wait" /\ Judge
  BY DEF Poll, GiveUp
<1>2. call' = [f \in Fields |-> call'[f]] /\ call'.kind = call.kind
      /\ pc' \in {"unmap", "stop", "iso", "send"} /\ (pc' = "unmap" => call.kind = "capture")
      /\ (pc' = "stop" => call.kind # "capture")
      /\ UNCHANGED <<contexts, iso>>
  BY <1>1, JudgeShape
<1> QED
  BY <1>1, <1>2 DEF Shape, Armed, Exposed, Recording, Mapped

\* The recording starts its contexts on a mapped buffer and stops them before it unmaps it.
LEMMA IsoProbeStep ==
    ASSUME Shape, Armed, Mapped, IsoProbe
    PROVE  Shape' /\ Armed' /\ Mapped'
<1>1. call' = call /\ contexts' = contexts
  BY DEF IsoProbe, PrepareIso, RunContexts, Record, Halt, session
<1>2. pc \in Recording /\ pc' \in Recording \cup {"send"}
  BY DEF IsoProbe, PrepareIso, RunContexts, Record, Halt, Recording
<1>3. (Shape /\ Mapped)'
  <2>1. CASE PrepareIso
    <3>1. PICK b \in CreateDMABuffer(NoBuffer, Outcomes) :
            /\ iso' = [iso EXCEPT !.mapped = b.prepared]
            /\ pc' = IF b.usable THEN "program" ELSE "send"
      BY <2>1 DEF PrepareIso
    <3>2. b.usable => b.prepared
      BY CreatedBuffer
    <3> QED
      BY <1>1, <2>1, <3>1, <3>2 DEF Shape, Mapped, PrepareIso
  <2>2. CASE RunContexts
    BY <1>1, <2>2 DEF Shape, Mapped, RunContexts
  <2>3. CASE Record
    BY <1>1, <2>3 DEF Shape, Mapped, Record
  <2>4. CASE Halt
    BY <1>1, <2>4 DEF Shape, Mapped, Halt
  <2> QED
    BY <2>1, <2>2, <2>3, <2>4 DEF IsoProbe
<1> QED
  BY <1>1, <1>2, <1>3 DEF Armed, Exposed, Recording

\* Once stopped the contexts stay stopped, until the next call's first attempt; only the
\* capture goes without.
LEMMA EndStepOfCall ==
    ASSUME Shape, Armed, Mapped, StopContexts \/ CompleteMappings
    PROVE  Shape' /\ Armed' /\ Mapped'
<1>1. CASE CompleteMappings
  <2>1. contexts' = IF call.kind = "capture" THEN "left" ELSE "stopped"
    BY <1>1 DEF CompleteMappings, Unmapped, Armed
  <2>2. \/ pc' = "idle" /\ call' = NoCall
        \/ pc' = "prepare" /\ call' = Starting("finish") /\ call.kind = "begin"
    BY <1>1 DEF CompleteMappings, Return
  <2>3. pc = "unmap" /\ iso' = iso
    BY <1>1 DEF CompleteMappings
  <2>4. Shape'
    BY <2>2, <2>3 DEF Shape, Fields, Kinds, NoCall, Starting
  <2>5. Armed'
    BY <2>1, <2>2 DEF Armed, Exposed, Recording, Starting, NoCall
  <2>6. Mapped'
    BY <2>2, <2>3 DEF Mapped
  <2> QED
    BY <2>4, <2>5, <2>6
<1>2. CASE StopContexts
  BY <1>2 DEF StopContexts, Shape, Armed, Exposed, Recording, Mapped
<1> QED
  BY <1>1, <1>2

\* Usable buffers are prepared ones, and the contexts run on them until they are unmapped.
LEMMA BackedStep ==
    ASSUME Shape, Armed, Backed, [Next]_vars
    PROVE  Backed'
<1> USE DEF Backed, Recording
<1>1. CASE UNCHANGED <<buffers, contexts>> /\ (pc' \in {"send", "wait"} \cup Recording =>
                                                pc \in {"send", "wait"} \cup Recording)
  BY <1>1
<1>2. CASE UNCHANGED vars
  BY <1>1, <1>2 DEF vars
<1>3. CASE Begin \/ Capture \/ ChangeRate
  BY <1>1, <1>3 DEF Begin, Capture, ChangeRate, Enter
<1>4. CASE Outside
  BY <1>1, <1>4 DEF Outside, Transmit, Execute, Arrive, outside
<1>5. CASE Prepare
  <2>1. PICK r \in CreateDMABuffer(buffers.rx, Outcomes), q \in CreateDMABuffer(buffers.reqRx, Outcomes),
             t \in CreateDMABuffer(buffers.tx, Outcomes) :
             /\ buffers' = [rx |-> r, reqRx |-> q, tx |-> t]
             /\ pc' = "send" => r.usable /\ q.usable /\ t.usable
             /\ pc' \in {"send", "stop", "idle"}
    BY <1>5 DEF Prepare, Return
  <2>2. pc' = "send" => r.prepared /\ q.prepared /\ t.prepared
    BY <2>1, CreatedBuffer
  <2>3. contexts' # "buffers"
    BY <1>5 DEF Prepare, Abandoned
  <2> QED
    BY <2>1, <2>2, <2>3
<1>6. CASE Send
  BY <1>6 DEF Send
<1>7. CASE Skip
  BY <1>1, <1>7 DEF Skip
<1>8. CASE Poll \/ GiveUp
  BY <1>1, <1>8, Zenon DEF Poll, GiveUp, Judge
<1>9. CASE IsoProbe
  BY <1>1, <1>9 DEF IsoProbe, PrepareIso, RunContexts, Record, Halt, session
<1>10. CASE StopContexts
  BY <1>10 DEF StopContexts
<1>11. CASE CompleteMappings
  BY <1>11 DEF CompleteMappings, Unmapped, Return
<1> QED
  BY <1>2, <1>3, <1>4, <1>5, <1>6, <1>7, <1>8, <1>9, <1>10, <1>11 DEF Next, DriverStep

\* There are always three buffers.
LEMMA NamesStep ==
    ASSUME DOMAIN buffers = {"rx", "reqRx", "tx"}, [Next]_vars
    PROVE  DOMAIN buffers' = {"rx", "reqRx", "tx"}
<1>1. CASE UNCHANGED buffers
  BY <1>1
<1>2. CASE UNCHANGED vars
  BY <1>2 DEF vars
<1>3. CASE Begin \/ Capture \/ ChangeRate \/ Outside
  BY <1>1, <1>3 DEF Begin, Capture, ChangeRate, Enter, Outside, Transmit, Execute, Arrive, outside
<1>4. CASE Prepare
  BY <1>4 DEF Prepare
<1>5. CASE Send \/ Skip \/ IsoProbe \/ StopContexts
  BY <1>1, <1>5 DEF Send, Skip, IsoProbe, PrepareIso, RunContexts, Record, Halt, session, StopContexts
<1>6. CASE Poll \/ GiveUp
  BY <1>1, <1>6, Zenon DEF Poll, GiveUp, Judge
<1>7. CASE CompleteMappings
  BY <1>7 DEF CompleteMappings
<1> QED
  BY <1>2, <1>3, <1>4, <1>5, <1>6, <1>7 DEF Next, DriverStep

\* The controller, the bus and the device leave the driver's own state alone.
LEMMA OutsideStep ==
    ASSUME Outside
    PROVE  UNCHANGED outside
  BY DEF Outside, Transmit, Execute, Arrive

\* For any number of attempts, however late or wrong the answers: contexts run on prepared
\* buffers, but those that a capture left running (12438-12440), which lose them until the
\* next call's first attempt, or its end, stops them.
THEOREM OnBuffersHolds == Spec => []OnBuffers
<1> DEFINE Inv == Shape /\ Armed /\ Mapped
           Memory == Backed /\ DOMAIN buffers = {"rx", "reqRx", "tx"}
<1>1. Init => Inv /\ Memory
  BY DEF Init, Shape, Fields, Armed, Exposed, Recording, Mapped, Backed, NoCall
<1>2. Inv /\ [Next]_vars => Inv'
  <2> SUFFICES ASSUME Shape, Armed, Mapped, [Next]_vars
               PROVE  Shape' /\ Armed' /\ Mapped'
    OBVIOUS
  <2>1. CASE UNCHANGED outside \/ ChangeRate
    BY <2>1 DEF outside, ChangeRate, Shape, Armed, Exposed, Mapped
  <2>2. CASE UNCHANGED vars
    BY <2>1, <2>2 DEF vars, outside
  <2>3. CASE Outside
    BY <2>1, <2>3, OutsideStep
  <2>4. CASE Begin \/ Capture
    BY <2>4, EnterStep DEF Begin, Capture
  <2>5. CASE DriverStep
    BY <2>5, PrepareStep, SendStep, SkipStep, WaitStep, IsoProbeStep, EndStepOfCall DEF DriverStep
  <2> QED
    BY <2>1, <2>2, <2>3, <2>4, <2>5 DEF Next
<1>3. Inv /\ Memory /\ [Next]_vars => Memory'
  BY BackedStep, NamesStep
<1>4. Inv /\ Memory => OnBuffers
  <2> SUFFICES ASSUME Shape, Armed, Mapped, Memory
               PROVE  OnBuffers
    OBVIOUS
  <2>1. Exposed /\ pc # "idle" => pc \in {"prepare", "send", "stop"}
    BY DEF Armed, Recording, Shape, Exposed
  <2> QED
    BY <2>1 DEF OnBuffers, Armed, AtFirstAttempt, Mapped, Backed, Recording
<1> QED
  BY <1>1, <1>2, <1>3, <1>4, PTL DEF Spec

-----------------------------------------------------------------------------
(* What is reported done is done.  The property relates the result of a     *)
(* call to the device's registers; the invariant is about what may still be *)
(* under way between the two: which attempts the requests and answers       *)
(* belong to, that the labels tell them apart, and that a request that is   *)
(* executed late does no harm.                                              *)

\* The driver's labels, with any numbers of attempts that leave them apart (the code makes 2
\* and 6): two at least in a live call, since with one the last step of a begin has the label
\* of the first step of a finish.  Answers are late by one attempt at most.
DriversNumbers ==
    /\ Stride = 6 /\ Labels = 64 /\ CaptureBase = 1 /\ LiveBase = 57
    /\ LiveAttempts \in 2..6 /\ CaptureAttempts \in 1..6
    /\ Late <= 1

Registers == {"rate", "channels", "streaming"}

Operations ==
    {Read(reg) : reg \in Registers} \cup {Write("rate", r) : r \in Rates}
    \cup {Write("channels", n) : n \in 0..1} \cup {Write("streaming", n) : n \in 0..3}

Requests == [what: Operations, label: 0..63, answered: BOOLEAN, age: 0..1]

Answers == [op: {"read", "write"}, label: 0..63, ok: BOOLEAN, value: Rates \cup 0..3, age: 0..1]

Calls == [kind: Kinds, step: 0..8, attempt: 0..5, ok: BOOLEAN, state: 0..3]

CallTyped ==
    pc # "idle" =>
    /\ call \in Calls
    /\ FirstStep(call.kind) <= call.step /\ call.step <= LastStep[call.kind]
    /\ call.attempt < AttemptCount(call.kind)
    /\ pc = "prepare" => call.step = FirstStep(call.kind) /\ call.attempt = 0
    /\ pc \in Recording => call.kind = "capture" /\ call.step = 5 /\ call.attempt = 0 /\ call.ok
    /\ pc = "wait" \/ call.attempt > 0 => ~Skipped(call)
    /\ pc = "stop" => call.kind # "capture"

Typed ==
    /\ pc \in {"idle", "prepare", "send", "wait", "stop", "unmap"} \cup Recording
    /\ requests \in Seq(Requests)
    /\ answers \subseteq Answers
    /\ contexts = "buffers" => sent \in [what: Operations, label: 0..63]
    /\ localRate \in Rates
    /\ device \in [rate: Rates, channels: 0..1, streaming: 0..3]

\* An answer to the attempt under way: nothing is left to be executed.
OfAttempt(a) ==
    /\ a.label = sent.label /\ requests = <<>> /\ tx # "queued"
    /\ a.ok => IF sent.what.op = "write" THEN device[sent.what.reg] = sent.what.value
               ELSE sent.what.reg = "streaming" => a.value \in 0..3

\* While an attempt is waited for, its request is the last one, its answer the only one with
\* its label.
Attempt ==
    pc = "wait" =>
    /\ sent = [what |-> Operation(call), label |-> Label(call)]
    /\ \A i \in DOMAIN requests :
          IF requests[i].age = 0
          THEN i = Len(requests) /\ tx # "queued" /\ requests[i].what = sent.what
               /\ requests[i].label = sent.label
          ELSE requests[i].label # sent.label
    /\ \A a \in answers : IF a.age = 0 THEN OfAttempt(a) ELSE a.label # sent.label
    /\ \A a, b \in answers : a.age = 0 /\ b.age = 0 => a = b
    /\ rx # None => IF rx.age = 0 THEN OfAttempt(rx) /\ \A a \in answers : a.age # 0
                    ELSE rx.label # sent.label

Lab(kind, step, attempt) == (TLabelBase(kind) + 6 * step + attempt) % 64

Final(kind, step) == Lab(kind, step, AttemptCount(kind) - 1)

\* the labels that the last attempt of a call can have
Ends == {Final("begin", 3), Final("begin", 4), Final("finish", 7), Final("capture", 8)}

\* The labels of the attempt before the next one of call c at p.
Before(p, c, l) ==
    IF p \in {"idle", "prepare", "stop", "unmap"} \/ (c.step = FirstStep(c.kind) /\ c.attempt = 0)
    THEN l \in Ends
    ELSE IF c.attempt > 0 THEN l = Lab(c.kind, c.step, c.attempt - 1)
    ELSE l = Final(c.kind, c.step - 1) \/ (c.step = 5 /\ l = Final(c.kind, 3))

Pending == contexts = "buffers" /\ tx = "queued"

\* Between two attempts, what is not older is of the last one.
Past ==
    pc # "wait" =>
    /\ \A i \in DOMAIN requests : requests[i].age = 0 => Before(pc, call, requests[i].label)
    /\ \A a \in answers : a.age = 0 => Before(pc, call, a.label)
    /\ Pending => Before(pc, call, sent.label)

\* A request that may be executed any time: it reads, or is this step's own.
Harmless(w) ==
    w.op = "read" \/ (pc \in {"send", "wait"} /\ ~Skipped(call) /\ w = Operation(call))

\* The call has done a step.
Ahead ==
    \/ pc \in Recording \cup {"stop"}
    \/ pc \in {"send", "wait"} /\ call.step > FirstStep(call.kind)
    \/ pc = "unmap" /\ call.kind = "capture"

\* In a call that succeeds no step is left behind with its request under way.
Only ==
    call.ok /\ Ahead =>
    /\ \A i \in DOMAIN requests : Harmless(requests[i].what)
    /\ Pending => Harmless(sent.what)

\* What the steps done so far have written.
Written ==
    IF call.kind = "finish"
    THEN /\ call.step >= 5 => device.streaming = AtRest
         /\ call.step >= 6 => device.channels = 0
    ELSE /\ call.step \in 1..4 => device.rate = localRate
         /\ call.step \in 2..4 => device.channels = Session
         /\ Skipped(call) => device.streaming = Streams
         /\ call.step >= 6 => device.streaming = AtRest
         /\ call.step >= 7 => device.channels = 0

Progress ==
    call.ok =>
    /\ pc \in {"send", "wait"} => Written
    /\ pc \in Recording => Streaming
    /\ pc = "stop" => IF call.kind = "begin" THEN Streaming ELSE Quiet
    /\ pc = "unmap" /\ call.kind = "capture" => Quiet

SessionInv == CallTyped /\ Typed /\ Attempt /\ Past /\ Only /\ Progress

\* What the steps write and read.
LEMMA OperationIs ==
    ASSUME call \in Calls, FirstStep(call.kind) <= call.step, call.step <= LastStep[call.kind]
    PROVE  /\ call.kind = "finish" =>
              /\ call.step \in 4..7
              /\ call.step = 4 => Operation(call) = Write("streaming", AtRest)
              /\ call.step = 5 => Operation(call) = Write("channels", 0)
              /\ call.step = 6 => Operation(call) = Read("streaming")
              /\ call.step = 7 => Operation(call) = Read("channels")
           /\ call.kind # "finish" =>
              /\ call.step \in 0..8 /\ (call.kind = "begin" => call.step \in 0..4)
              /\ call.step = 0 => Operation(call) = Write("rate", localRate)
              /\ call.step = 1 => Operation(call) = Write("channels", Session)
              /\ call.step = 2 => Operation(call) = Read("streaming")
              /\ call.step = 3 => Operation(call) = Write("streaming", BeginSetFirst(call.state))
              /\ call.step = 4 => Operation(call) = Write("streaming", BeginSetFirst(call.state) - 1)
              /\ call.step = 5 => Operation(call) = Write("streaming", AtRest)
              /\ call.step = 6 => Operation(call) = Write("channels", 0)
              /\ call.step = 7 => Operation(call) = Read("streaming")
              /\ call.step = 8 => Operation(call) = Read("channels")
<1>1. CASE call.kind = "finish"
  <2>1. call.step \in 4..7 /\ Operation(call) = FinishOperation(call.step - 3)
    BY <1>1 DEF Operation, Calls, FirstStep, LastStep
  <2> QED
    BY <1>1, <2>1 DEF FinishOperation
<1>2. CASE call.kind # "finish" /\ call.step < 5
  <2>1. Operation(call) = BeginOperation(call) /\ call.step \in 0..4
    BY <1>2 DEF Operation, Calls
  <2> QED
    BY <1>2, <2>1 DEF BeginOperation
<1>3. CASE call.kind # "finish" /\ call.step >= 5
  <2>1. Operation(call) = FinishOperation(call.step - 4) /\ call.step \in 5..8 /\ call.kind = "capture"
    BY <1>3 DEF Operation, Calls, Kinds, LastStep
  <2> QED
    BY <1>3, <2>1 DEF FinishOperation
<1> QED
  BY <1>1, <1>2, <1>3 DEF Calls

\* The first of the last two states is 1 or 2.
LEMMA LowerState ==
    ASSUME NEW state \in 0..3
    PROVE  BeginSetFirst(state) \in {1, 2}
  BY DEF BeginSetFirst

\* Every step is an operation on one of three registers.
LEMMA OperationTyped ==
    ASSUME CallTyped, pc # "idle", localRate \in Rates
    PROVE  Operation(call) \in Operations
<1>1. call \in Calls /\ FirstStep(call.kind) <= call.step /\ call.step <= LastStep[call.kind]
  BY DEF CallTyped
<1>2. BeginSetFirst(call.state) \in {1, 2}
  BY <1>1, LowerState DEF Calls
<1>3. /\ Write("rate", localRate) \in Operations
      /\ \A n \in 0..1 : Write("channels", n) \in Operations
      /\ \A n \in 0..3 : Write("streaming", n) \in Operations
      /\ \A reg \in Registers : Read(reg) \in Operations
  BY DEF Operations
<1>4. /\ Write("channels", Session) \in Operations /\ Write("channels", 0) \in Operations
      /\ Write("streaming", AtRest) \in Operations
      /\ Write("streaming", BeginSetFirst(call.state)) \in Operations
      /\ Write("streaming", BeginSetFirst(call.state) - 1) \in Operations
      /\ Read("streaming") \in Operations /\ Read("channels") \in Operations
  BY <1>2, <1>3 DEF Session, AtRest, Registers
<1>5. call.step \in 0..8
  BY <1>1 DEF Calls
<1>6. CASE call.kind = "finish"
  BY <1>1, <1>4, <1>6, OperationIs
<1>7. CASE call.kind # "finish"
  BY <1>1, <1>3, <1>4, <1>5, <1>7, OperationIs
<1> QED
  BY <1>6, <1>7

\* An operation writes a value its register can have.
LEMMA OperationsAre ==
    ASSUME NEW w \in Operations
    PROVE  /\ w.op \in {"read", "write"} /\ w.reg \in Registers
           /\ w.op = "write" => /\ w.reg = "rate" => w.value \in Rates
                                /\ w.reg = "channels" => w.value \in 0..1
                                /\ w.reg = "streaming" => w.value \in 0..3
  BY DEF Operations, Read, Write, Registers

\* The label of an attempt in plain numbers.
LEMMA LabelIs ==
    ASSUME DriversNumbers, CallTyped, pc # "idle"
    PROVE  /\ Label(call) = Lab(call.kind, call.step, call.attempt)
           /\ Label(call) \in 0..63
           /\ call.step \in 0..8 /\ call.attempt \in 0..(AttemptCount(call.kind) - 1)
           /\ AttemptCount(call.kind) \in 1..6 /\ TLabelBase(call.kind) \in 0..63
<1>1. call \in Calls /\ call.attempt < AttemptCount(call.kind)
  BY DEF CallTyped
<1>2. AttemptCount(call.kind) \in 1..6 /\ TLabelBase(call.kind) \in 0..63
  BY DEF DriversNumbers, AttemptCount, TLabelBase
<1>3. call.step \in 0..8 /\ call.attempt \in 0..(AttemptCount(call.kind) - 1)
  BY <1>1, <1>2 DEF Calls
<1>4. Label(call) = Lab(call.kind, call.step, call.attempt)
  BY DEF Label, Lab, DriversNumbers
<1>5. Lab(call.kind, call.step, call.attempt) \in 0..63
  BY <1>2, <1>3 DEF Lab
<1> QED
  BY <1>2, <1>3, <1>4, <1>5

\* An attempt's label is not the one of the attempt before.
LEMMA LabelIsNew ==
    ASSUME DriversNumbers, CallTyped, pc = "send", ~Skipped(call), NEW l, Before(pc, call, l)
    PROVE  l # Label(call)
<1>1. call.kind \in Kinds /\ FirstStep(call.kind) <= call.step /\ call.step <= LastStep[call.kind]
  BY DEF CallTyped, Calls
<1>2. Label(call) = Lab(call.kind, call.step, call.attempt)
      /\ call.step \in 0..8 /\ call.attempt \in 0..(AttemptCount(call.kind) - 1)
      /\ AttemptCount(call.kind) \in 1..6 /\ TLabelBase(call.kind) \in 0..63
  BY LabelIs
<1>3. CASE call.step = FirstStep(call.kind) /\ call.attempt = 0
  <2>1. l \in Ends
    BY <1>3 DEF Before
  <2>2. LiveAttempts \in 2..6 /\ CaptureAttempts \in 1..6
    BY DEF DriversNumbers
  <2>3. l \in 11..16 \cup 18..22 \cup 36..40 \cup 49..54
    BY <2>1, <2>2 DEF Ends, Final, Lab, TLabelBase, AttemptCount, DriversNumbers
  <2>4. Label(call) \in {57, 17, 1}
    BY <1>1, <1>2, <1>3 DEF Lab, TLabelBase, FirstStep, Kinds, DriversNumbers
  <2> QED
    BY <2>3, <2>4
<1>4. CASE call.attempt > 0
  <2>1. l = Lab(call.kind, call.step, call.attempt - 1)
    BY <1>4 DEF Before
  <2> DEFINE b == TLabelBase(call.kind) + 6 * call.step
  <2>2. b \in Nat /\ call.attempt \in 1..6
    BY <1>2, <1>4
  <2>3. l = (b + (call.attempt - 1)) % 64 /\ Label(call) = (b + call.attempt) % 64
    BY <1>2, <2>1 DEF Lab
  <2> HIDE DEF b
  <2> QED
    BY <2>2, <2>3
<1>5. CASE ~(call.step = FirstStep(call.kind)) /\ call.attempt = 0
  <2>1. l = Final(call.kind, call.step - 1) \/ (call.step = 5 /\ l = Final(call.kind, 3))
    BY <1>5 DEF Before
  <2> DEFINE b == TLabelBase(call.kind) + 6 * call.step
             n == AttemptCount(call.kind)
  <2>2. b \in Nat /\ n \in 1..6
    BY <1>2
  <2>3. Label(call) = b % 64
    BY <1>2, <1>5 DEF Lab
  <2>4. l = (b - 6 + (n - 1)) % 64 \/ l = (b - 12 + (n - 1)) % 64
    <3>1. b - 6 = TLabelBase(call.kind) + 6 * (call.step - 1)
      BY <1>2
    <3>2. call.step = 5 => b - 12 = TLabelBase(call.kind) + 6 * 3
      BY <1>2
    <3> HIDE DEF b
    <3> QED
      BY <2>1, <3>1, <3>2 DEF Final, Lab
  <2> HIDE DEF b, n
  <2> QED
    BY <2>2, <2>3, <2>4
<1> QED
  BY <1>2, <1>3, <1>4, <1>5

\* The end of a step, field by field.
LEMMA EndStepIs ==
    ASSUME CallTyped, pc \in {"send", "wait"}, NEW success \in BOOLEAN, NEW value,
           call.kind # "finish" /\ call.step = 2 /\ success => value \in 0..3,
           EndStep(success, value)
    PROVE  /\ call' \in Calls /\ call'.kind = call.kind
           /\ call'.ok => call.ok /\ (success \/ ~Counts(call))
           /\ call'.state = IF call.kind # "finish" /\ call.step = 2 /\ success THEN value
                            ELSE call.state
           /\ \/ /\ call.step = LastStep[call.kind]
                 /\ pc' = IF call.kind = "capture" THEN "unmap" ELSE "stop"
                 /\ call'.step = call.step /\ call'.attempt = call.attempt
              \/ /\ call.step < LastStep[call.kind]
                 /\ pc' = IF call.kind = "capture" /\ call.step = 4 /\ call'.ok THEN "iso" ELSE "send"
                 /\ call'.step = call.step + 1 /\ call'.attempt = 0
<1> DEFINE c == [call EXCEPT !.ok = @ /\ (success \/ ~Counts(call)),
                             !.state = IF call.kind # "finish" /\ call.step = 2 /\ success
                                       THEN value ELSE @]
<1>1. call \in Calls /\ call.step <= LastStep[call.kind]
  BY DEF CallTyped
<1>2. Counts(call) \in BOOLEAN
  BY DEF Counts
<1>3. c \in Calls /\ c.kind = call.kind /\ c.step = call.step /\ c.attempt = call.attempt
      /\ (c.ok <=> call.ok /\ (success \/ ~Counts(call)))
      /\ c.state = IF call.kind # "finish" /\ call.step = 2 /\ success THEN value ELSE call.state
  <2>1. (call.ok /\ (success \/ ~Counts(call))) \in BOOLEAN
    BY <1>1, <1>2 DEF Calls
  <2>2. (IF call.kind # "finish" /\ call.step = 2 /\ success THEN value ELSE call.state) \in 0..3
    BY <1>1 DEF Calls
  <2> QED
    BY <1>1, <2>1, <2>2 DEF Calls
<1>4. \/ /\ call.step = LastStep[call.kind]
         /\ pc' = IF call.kind = "capture" THEN "unmap" ELSE "stop"
         /\ call' = c
      \/ /\ call.step < LastStep[call.kind]
         /\ pc' = IF call.kind = "capture" /\ call.step = 4 /\ c.ok THEN "iso" ELSE "send"
         /\ call' = [c EXCEPT !.step = @ + 1, !.attempt = 0]
  BY DEF EndStep
<1> HIDE DEF c
<1>5. CASE call' = c
  BY <1>1, <1>3, <1>4, <1>5 DEF Calls
<1>6. CASE call' = [c EXCEPT !.step = @ + 1, !.attempt = 0] /\ call.step < LastStep[call.kind]
  <2>1. call.step + 1 \in 0..8
    <3>1. LastStep[call.kind] \in 4..8 /\ call.step \in 0..8
      BY <1>1 DEF Calls, Kinds, LastStep
    <3> QED
      BY <1>6, <3>1
  <2>2. call' \in Calls /\ call'.kind = c.kind /\ call'.ok = c.ok /\ call'.state = c.state
        /\ call'.step = call.step + 1 /\ call'.attempt = 0
    <3>1. c = [kind |-> c.kind, step |-> c.step, attempt |-> c.attempt, ok |-> c.ok,
               state |-> c.state]
          /\ c.kind \in Kinds /\ c.ok \in BOOLEAN /\ c.state \in 0..3
      BY <1>3 DEF Calls
    <3>2. call' = [kind |-> c.kind, step |-> call.step + 1, attempt |-> 0, ok |-> c.ok,
                   state |-> c.state]
      BY <1>3, <1>6, <3>1
    <3> QED
      BY <2>1, <3>1, <3>2 DEF Calls
  <2> QED
    BY <1>3, <1>4, <1>6, <2>2
<1> QED
  BY <1>4, <1>5, <1>6

\* The call after a step is as well formed as before.
LEMMA EndStepTyped ==
    ASSUME DriversNumbers, CallTyped, pc \in {"send", "wait"}, NEW success \in BOOLEAN, NEW value,
           call.kind # "finish" /\ call.step = 2 /\ success => value \in 0..3,
           EndStep(success, value)
    PROVE  CallTyped' /\ pc' \in {"send", "stop", "unmap", "iso"}
<1>1. call \in Calls /\ FirstStep(call.kind) <= call.step /\ call.attempt < AttemptCount(call.kind)
      /\ (call.attempt > 0 => ~Skipped(call)) /\ (pc = "wait" => ~Skipped(call))
  BY DEF CallTyped
<1>2. /\ call' \in Calls /\ call'.kind = call.kind
      /\ call'.state = call.state \/ call.step = 2
      /\ \/ /\ call.step = LastStep[call.kind]
            /\ pc' = IF call.kind = "capture" THEN "unmap" ELSE "stop"
            /\ call'.step = call.step /\ call'.attempt = call.attempt
         \/ /\ call.step < LastStep[call.kind]
            /\ pc' = IF call.kind = "capture" /\ call.step = 4 /\ call'.ok THEN "iso" ELSE "send"
            /\ call'.step = call.step + 1 /\ call'.attempt = 0
  BY EndStepIs
<1>3. AttemptCount(call.kind) \in 1..6
  BY DEF AttemptCount, DriversNumbers
<1>4. CASE call.step = LastStep[call.kind] /\ call'.step = call.step /\ call'.attempt = call.attempt
           /\ pc' = IF call.kind = "capture" THEN "unmap" ELSE "stop"
  <2>1. call'.attempt > 0 => ~Skipped(call')
    BY <1>1, <1>2, <1>4 DEF Skipped, LastStep, Kinds, Calls
  <2> QED
    BY <1>1, <1>2, <1>4, <2>1 DEF CallTyped, Recording
<1>5. CASE call.step < LastStep[call.kind] /\ call'.step = call.step + 1 /\ call'.attempt = 0
           /\ pc' = IF call.kind = "capture" /\ call.step = 4 /\ call'.ok THEN "iso" ELSE "send"
  <2>1. call.step \in Nat /\ FirstStep(call.kind) \in Nat /\ LastStep[call.kind] \in Nat
    BY <1>1 DEF Calls, Kinds, FirstStep, LastStep
  <2>2. FirstStep(call'.kind) <= call'.step /\ call'.step <= LastStep[call'.kind]
    BY <1>1, <1>2, <1>5, <2>1
  <2>3. call'.attempt < AttemptCount(call'.kind)
    BY <1>2, <1>3, <1>5
  <2>4. pc' \in {"iso", "send"} /\ (pc' = "iso" => call'.kind = "capture" /\ call'.step = 5 /\ call'.ok)
    BY <1>2, <1>5
  <2> QED
    BY <1>2, <1>5, <2>2, <2>3, <2>4 DEF CallTyped, Recording
<1> QED
  BY <1>2, <1>4, <1>5

\* After a step given up its last label is the one of the attempt before the next.
LEMMA LabelGivenUp ==
    ASSUME DriversNumbers, CallTyped, pc = "wait", EndStep(FALSE, 0),
           call.attempt + 1 >= AttemptCount(call.kind)
    PROVE  Before(pc', call', Label(call))
<1>1. call.kind \in Kinds /\ FirstStep(call.kind) <= call.step /\ call.step <= LastStep[call.kind]
      /\ ~Skipped(call)
  BY DEF CallTyped, Calls
<1>2. /\ call'.kind = call.kind
      /\ \/ /\ call.step = LastStep[call.kind]
            /\ pc' = IF call.kind = "capture" THEN "unmap" ELSE "stop"
         \/ /\ call.step < LastStep[call.kind]
            /\ pc' \in {"iso", "send"}
            /\ call'.step = call.step + 1 /\ call'.attempt = 0
  BY EndStepIs
<1>3. Label(call) = Lab(call.kind, call.step, call.attempt)
      /\ call.attempt \in 0..(AttemptCount(call.kind) - 1) /\ AttemptCount(call.kind) \in 1..6
      /\ call.step \in 0..8
  BY LabelIs
<1>4. call.attempt = AttemptCount(call.kind) - 1
  BY <1>3
<1>5. Label(call) = Final(call.kind, call.step)
  BY <1>3, <1>4 DEF Final
<1>6. CASE call.step = LastStep[call.kind]
  <2>1. Label(call) \in Ends
    BY <1>1, <1>5, <1>6 DEF Ends, Kinds, LastStep
  <2>2. pc' \in {"unmap", "stop"}
    BY <1>2, <1>6, <1>3
  <2> QED
    BY <2>1, <2>2 DEF Before
<1>7. CASE call.step < LastStep[call.kind]
  <2>1. pc' \in {"iso", "send"} /\ call'.step = call.step + 1 /\ call'.attempt = 0
    BY <1>2, <1>7, <1>3
  <2>2. FirstStep(call'.kind) # call'.step
    BY <1>1, <1>2, <1>3, <2>1 DEF FirstStep
  <2>3. Label(call) = Final(call'.kind, call'.step - 1)
    BY <1>2, <1>3, <1>5, <2>1
  <2> QED
    BY <2>1, <2>2, <2>3 DEF Before
<1> QED
  BY <1>1, <1>3, <1>6, <1>7 DEF LastStep, Kinds

\* A step left out changes nothing about the attempt before.
LEMMA LabelSkipped ==
    ASSUME DriversNumbers, CallTyped, pc = "send", Skipped(call), EndStep(TRUE, 0),
           NEW l, Before(pc, call, l)
    PROVE  Before(pc', call', l)
<1>1. call.kind \in {"begin", "capture"} /\ call.step = 4 /\ call.attempt = 0
  BY DEF CallTyped, Calls, Kinds, Skipped
<1>2. /\ call'.kind = call.kind
      /\ \/ /\ call.step = LastStep[call.kind]
            /\ pc' = IF call.kind = "capture" THEN "unmap" ELSE "stop"
         \/ /\ call.step < LastStep[call.kind]
            /\ pc' \in {"iso", "send"}
            /\ call'.step = call.step + 1 /\ call'.attempt = 0
  <2>1. TRUE \in BOOLEAN /\ 0 \in 0..3
    OBVIOUS
  <2>2. pc \in {"send", "wait"}
    OBVIOUS
  <2> QED
    BY <2>1, <2>2, EndStepIs
<1>3. l = Final(call.kind, 3)
  BY <1>1 DEF Before, FirstStep
<1>4. CASE call.kind = "begin"
  BY <1>2, <1>3, <1>4, <1>1 DEF Before, Ends, LastStep
<1>5. CASE call.kind = "capture"
  BY <1>2, <1>3, <1>5, <1>1 DEF Before, FirstStep, LastStep
<1> QED
  BY <1>1, <1>4, <1>5

\* An answer that is accepted is the attempt's own: nothing of the call is under way any more,
\* and the device has done what it was asked to.
LEMMA AcceptedIs ==
    ASSUME CallTyped, Attempt, pc = "wait", Accepted(rx), localRate \in Rates
    PROVE  /\ requests = <<>> /\ tx # "queued" /\ \A a \in answers : a.age # 0
           /\ Operation(call).op = "write" => device[Operation(call).reg] = Operation(call).value
           /\ Operation(call) = Read("streaming") => rx.value \in 0..3
<1>1. rx # None /\ rx.label = Label(call) /\ rx.ok
  BY DEF Accepted
<1>2. sent = [what |-> Operation(call), label |-> Label(call)]
      /\ (IF rx.age = 0 THEN OfAttempt(rx) /\ \A a \in answers : a.age # 0 ELSE rx.label # sent.label)
  BY <1>1 DEF Attempt
<1>3. sent.what = Operation(call) /\ sent.label = Label(call)
  BY <1>2
<1>4. OfAttempt(rx) /\ \A a \in answers : a.age # 0
  BY <1>1, <1>2, <1>3
<1>5. Operation(call).op = "write" => device[Operation(call).reg] = Operation(call).value
  BY <1>1, <1>3, <1>4 DEF OfAttempt
<1>6. Operation(call) = Read("streaming") => rx.value \in 0..3
  BY <1>1, <1>3, <1>4 DEF OfAttempt, Read
<1> QED
  BY <1>4, <1>5, <1>6 DEF OfAttempt

\* An operation depends on the call's step and state, and on the rate.
LEMMA SameStep ==
    ASSUME call'.kind = call.kind, call'.step = call.step, call'.state = call.state,
           localRate' = localRate
    PROVE  Operation(call)' = Operation(call) /\ (Skipped(call)' <=> Skipped(call))
<1>1. Skipped(call)' <=> Skipped(call)
  BY DEF Skipped
<1>2. BeginOperation(call)' = BeginOperation(call)
  BY DEF BeginOperation
<1>3. Operation(call)' = Operation(call)
  BY <1>2 DEF Operation
<1> QED
  BY <1>1, <1>3

\* Controller, bus and device leave what is said of the call.
LEMMA OutsideFrame ==
    ASSUME UNCHANGED outside
    PROVE  /\ UNCHANGED <<pc, call, localRate, contexts>>
           /\ CallTyped => CallTyped'
           /\ Operation(call)' = Operation(call) /\ Label(call)' = Label(call)
           /\ \A l : Before(pc, call, l)' <=> Before(pc, call, l)
           /\ \A w : Harmless(w)' <=> Harmless(w)
           /\ Ahead' <=> Ahead
<1>1. UNCHANGED <<pc, call, localRate, contexts>>
  BY DEF outside
<1>2. Operation(call)' = Operation(call) /\ (Skipped(call)' <=> Skipped(call))
  BY <1>1, SameStep
<1>3. CallTyped => CallTyped'
  BY <1>1, <1>2 DEF CallTyped
<1>4. Label(call)' = Label(call)
  BY <1>1 DEF Label
<1>5. \A l : Before(pc, call, l)' <=> Before(pc, call, l)
  BY <1>1 DEF Before
<1>6. \A w : Harmless(w)' <=> Harmless(w)
  BY <1>1, <1>2 DEF Harmless
<1>7. Ahead' <=> Ahead
  BY <1>1 DEF Ahead
<1> QED
  BY <1>1, <1>2, <1>3, <1>4, <1>5, <1>6, <1>7

\* Nothing is written while the device executes nothing.
LEMMA ProgressFrame ==
    ASSUME Progress, UNCHANGED <<pc, call, localRate, device>>
    PROVE  Progress'
<1>1. Written' <=> Written
  BY DEF Written, Skipped
<1>2. (Streaming' <=> Streaming) /\ (Quiet' <=> Quiet)
  BY DEF Streaming, Quiet
<1> QED
  BY <1>1, <1>2 DEF Progress

\* The request goes out, or is lost.
LEMMA TransmitDone ==
    ASSUME SessionInv, NEW received \in BOOLEAN, NEW status \in {"missing", "pending", "complete"},
           Transmit(received, status)
    PROVE  SessionInv'
<1>1. Pending /\ tx' = status /\ tx' # "queued" /\ UNCHANGED outside
      /\ UNCHANGED <<sent, rx, answers, device>>
  BY DEF Transmit, Pending
<1> DEFINE r == [what |-> sent.what, label |-> sent.label, answered |-> status # "complete", age |-> 0]
<1>2. requests \in Seq(Requests) /\ sent \in [what: Operations, label: 0..63]
  BY <1>1 DEF SessionInv, Typed, Pending
<1>3. r \in Requests /\ r.what = sent.what /\ r.label = sent.label /\ r.age = 0
  BY <1>2 DEF Requests
<1>4. requests' = requests \/ requests' = Append(requests, r)
  BY DEF Transmit
<1> HIDE DEF r
<1>5. /\ requests' \in Seq(Requests)
      /\ \A i \in DOMAIN requests' : \/ i \in DOMAIN requests /\ requests'[i] = requests[i]
                                     \/ i = Len(requests') /\ requests'[i] = r
  <2>1. CASE requests' = Append(requests, r)
    <3>1. requests' \in Seq(Requests) /\ Len(requests') = Len(requests) + 1
      BY <1>2, <1>3, <2>1
    <3>2. /\ DOMAIN requests' = 1..(Len(requests) + 1) /\ DOMAIN requests = 1..Len(requests)
          /\ Len(requests) \in Nat
      BY <1>2, <3>1, LenProperties
    <3>3. \A i \in 1..Len(requests) : requests'[i] = requests[i]
      BY <1>2, <1>3, <2>1
    <3>4. requests'[Len(requests) + 1] = r
      BY <1>2, <1>3, <2>1
    <3> QED
      BY <3>1, <3>2, <3>3, <3>4
  <2> QED
    BY <1>2, <1>4, <2>1
<1>6. CallTyped'
  BY <1>1, OutsideFrame DEF SessionInv
<1>7. Typed'
  BY <1>1, <1>5, OutsideFrame DEF SessionInv, Typed
<1>8. Attempt'
  <2> SUFFICES ASSUME pc = "wait"
               PROVE  Attempt'
    BY <1>1, OutsideFrame DEF Attempt
  <2>1. /\ sent = [what |-> Operation(call), label |-> Label(call)]
        /\ \A i \in DOMAIN requests : requests[i].age # 0 /\ requests[i].label # sent.label
        /\ \A a \in answers : a.age # 0 /\ a.label # sent.label
        /\ rx # None => rx.age # 0 /\ rx.label # sent.label
    BY <1>1 DEF SessionInv, Attempt, OfAttempt, Pending
  <2>2. sent' = [what |-> Operation(call)', label |-> Label(call)']
    BY <1>1, <2>1, OutsideFrame
  <2>3. \A i \in DOMAIN requests' :
          IF requests'[i].age = 0
          THEN i = Len(requests') /\ tx' # "queued" /\ requests'[i].what = sent'.what
               /\ requests'[i].label = sent'.label
          ELSE requests'[i].label # sent'.label
    BY <1>1, <1>3, <1>5, <2>1
  <2>4. /\ \A a \in answers' : a.age # 0 /\ a.label # sent'.label
        /\ rx' # None => rx'.age # 0 /\ rx'.label # sent'.label
    BY <1>1, <2>1
  <2> QED
    BY <2>2, <2>3, <2>4 DEF Attempt
<1>9. Past'
  <2>1. \A l : Before(pc, call, l)' <=> Before(pc, call, l)
    BY <1>1, OutsideFrame
  <2>2. pc' = pc /\ ~Pending'
    BY <1>1 DEF outside, Pending
  <2> QED
    BY <1>1, <1>3, <1>5, <2>1, <2>2 DEF SessionInv, Past
<1>10. Only'
  <2>1. (\A w : Harmless(w)' <=> Harmless(w)) /\ (Ahead' <=> Ahead) /\ call' = call
    BY <1>1, OutsideFrame
  <2>2. ~Pending'
    BY <1>1 DEF Pending
  <2> QED
    BY <1>1, <1>3, <1>5, <2>1, <2>2 DEF SessionInv, Only
<1>11. Progress'
  BY <1>1, OutsideFrame, ProgressFrame DEF SessionInv
<1> QED
  BY <1>6, <1>7, <1>8, <1>9, <1>10, <1>11 DEF SessionInv

\* An answer comes in.
LEMMA ArriveDone ==
    ASSUME SessionInv, NEW a \in answers, Arrive(a)
    PROVE  SessionInv'
<1>1. /\ UNCHANGED outside /\ UNCHANGED <<sent, tx, requests, device>>
      /\ answers' = answers \ {a} /\ (rx' = rx \/ (rx = None /\ rx' = a))
  BY DEF Arrive
<1>2. CallTyped'
  BY <1>1, OutsideFrame DEF SessionInv
<1>3. Typed'
  BY <1>1, OutsideFrame DEF SessionInv, Typed
<1>4. Attempt'
  <2>1. UNCHANGED <<pc, call>> /\ Operation(call)' = Operation(call) /\ Label(call)' = Label(call)
    BY <1>1, OutsideFrame
  <2>2. \A b : OfAttempt(b)' <=> OfAttempt(b)
    BY <1>1 DEF OfAttempt
  <2> SUFFICES ASSUME pc = "wait"
               PROVE  Attempt'
    BY <2>1 DEF Attempt
  <2>3. /\ sent' = [what |-> Operation(call)', label |-> Label(call)']
        /\ \A i \in DOMAIN requests' :
             IF requests'[i].age = 0
             THEN i = Len(requests') /\ tx' # "queued" /\ requests'[i].what = sent'.what
                  /\ requests'[i].label = sent'.label
             ELSE requests'[i].label # sent'.label
    BY <1>1, <2>1 DEF SessionInv, Attempt
  <2>4. /\ \A b \in answers : IF b.age = 0 THEN OfAttempt(b) ELSE b.label # sent.label
        /\ \A b, c \in answers : b.age = 0 /\ c.age = 0 => b = c
        /\ rx # None => IF rx.age = 0 THEN OfAttempt(rx) /\ \A b \in answers : b.age # 0
                        ELSE rx.label # sent.label
    BY DEF SessionInv, Attempt
  <2>5. /\ \A b \in answers' : IF b.age = 0 THEN OfAttempt(b)' ELSE b.label # sent'.label
        /\ \A b, c \in answers' : b.age = 0 /\ c.age = 0 => b = c
    BY <1>1, <2>2, <2>4
  <2>6. rx' # None => IF rx'.age = 0 THEN OfAttempt(rx)' /\ \A b \in answers' : b.age # 0
                      ELSE rx'.label # sent'.label
    <3>1. CASE rx' = rx
      <4>1. OfAttempt(rx)' <=> OfAttempt(rx)
        BY <1>1, <3>1 DEF OfAttempt
      <4> QED
        BY <1>1, <2>4, <3>1, <4>1
    <3>2. CASE rx' = a
      <4>1. OfAttempt(rx)' <=> OfAttempt(a)
        BY <1>1, <3>2 DEF OfAttempt
      <4> QED
        BY <1>1, <2>4, <3>2, <4>1
    <3> QED
      BY <1>1, <3>1, <3>2
  <2> QED
    BY <2>3, <2>5, <2>6 DEF Attempt
<1>5. Past'
  BY <1>1, OutsideFrame DEF SessionInv, Past, Pending
<1>6. Only'
  BY <1>1, OutsideFrame DEF SessionInv, Only, Pending
<1>7. Progress'
  BY <1>1, OutsideFrame, ProgressFrame DEF SessionInv
<1> QED
  BY <1>2, <1>3, <1>4, <1>5, <1>6, <1>7 DEF SessionInv

\* A request that is executed late only reads, or does what the step under way is to do.
LEMMA LateWrite ==
    ASSUME SessionInv, NEW w \in Operations, w.op = "write", call.ok => (Ahead => Harmless(w)),
           device' = [device EXCEPT ![w.reg] = w.value], UNCHANGED outside
    PROVE  Progress'
<1>1. UNCHANGED <<pc, call, localRate>> /\ (Skipped(call)' <=> Skipped(call))
  BY DEF outside, Skipped
<1> SUFFICES ASSUME call.ok
             PROVE  Progress'
  BY <1>1 DEF Progress
<1>2. CASE Ahead
  <2>1. pc \in {"send", "wait"} /\ ~Skipped(call) /\ w = Operation(call)
    BY <1>2 DEF Harmless
  <2>2. /\ call \in Calls /\ FirstStep(call.kind) <= call.step /\ call.step <= LastStep[call.kind]
        /\ device \in [rate: Rates, channels: 0..1, streaming: 0..3] /\ Written
    BY <2>1 DEF SessionInv, CallTyped, Typed, Progress, Recording
  <2>3. /\ w.reg = "rate" => device'.rate = w.value
        /\ w.reg # "rate" => device'.rate = device.rate
        /\ w.reg = "channels" => device'.channels = w.value
        /\ w.reg # "channels" => device'.channels = device.channels
        /\ w.reg = "streaming" => device'.streaming = w.value
        /\ w.reg # "streaming" => device'.streaming = device.streaming
    BY <2>2
  <2>4. CASE call.kind = "finish"
    <3>1. /\ call.step \in 4..7
          /\ call.step = 4 => w.reg = "streaming"
          /\ call.step = 5 => w.reg = "channels"
          /\ call.step \notin 6..7
      BY <2>1, <2>2, <2>4, OperationIs DEF Write, Read
    <3>2. Written'
      BY <1>1, <2>2, <2>3, <2>4, <3>1 DEF Written
    <3> QED
      BY <1>1, <2>1, <3>2 DEF Progress, Recording
  <2>5. CASE call.kind # "finish"
    <3>1. /\ call.step \in 0..8
          /\ call.step = 0 => w = Write("rate", localRate)
          /\ call.step = 1 => w.reg = "channels"
          /\ call.step \notin {2, 7, 8}
          /\ call.step \in {3, 4, 5} => w.reg = "streaming"
          /\ call.step = 6 => w.reg = "channels"
      BY <2>1, <2>2, <2>5, OperationIs DEF Write, Read
    <3>2. Written'
      BY <1>1, <2>1, <2>2, <2>3, <2>5, <3>1 DEF Written, Write
    <3> QED
      BY <1>1, <2>1, <3>2 DEF Progress, Recording
  <2> QED
    BY <2>4, <2>5
<1>3. CASE ~Ahead
  <2>1. pc \notin Recording \cup {"stop"} /\ ~(pc = "unmap" /\ call.kind = "capture")
    BY <1>3 DEF Ahead
  <2>2. pc \in {"send", "wait"} => Written'
    <3> SUFFICES ASSUME pc \in {"send", "wait"}
                 PROVE  Written'
      OBVIOUS
    <3>1. call \in Calls /\ FirstStep(call.kind) <= call.step /\ ~(call.step > FirstStep(call.kind))
      BY <1>3 DEF SessionInv, CallTyped, Ahead
    <3>2. call.step = IF call.kind = "finish" THEN 4 ELSE 0
      BY <3>1 DEF Calls, FirstStep
    <3> QED
      BY <1>1, <3>2 DEF Written, Skipped
  <2> QED
    BY <1>1, <2>1, <2>2 DEF Progress
<1> QED
  BY <1>2, <1>3

\* The device executes or refuses the first request it has.
LEMMA ExecuteDone ==
    ASSUME SessionInv, NEW ok \in BOOLEAN, Execute(ok)
    PROVE  SessionInv'
<1> DEFINE r == Head(requests)
           value == IF r.what.op = "read" THEN device[r.what.reg] ELSE 0
           new == [op |-> r.what.op, label |-> r.label, ok |-> ok, value |-> value, age |-> r.age]
<1>1. /\ UNCHANGED outside /\ UNCHANGED <<sent, tx, rx>>
      /\ requests # <<>> /\ requests' = Tail(requests)
      /\ device' = IF ok /\ r.what.op = "write" THEN [device EXCEPT ![r.what.reg] = r.what.value]
                   ELSE device
      /\ answers' = answers \/ answers' = answers \cup {new}
  BY DEF Execute
<1>2. requests \in Seq(Requests) /\ answers \subseteq Answers
      /\ device \in [rate: Rates, channels: 0..1, streaming: 0..3]
  BY DEF SessionInv, Typed
<1>3. /\ r = requests[1] /\ r \in Requests /\ 1 \in DOMAIN requests
      /\ requests' \in Seq(Requests) /\ Len(requests') = Len(requests) - 1
      /\ Len(requests) \in Nat \ {0}
      /\ DOMAIN requests' = 1..(Len(requests) - 1) /\ DOMAIN requests = 1..Len(requests)
      /\ \A i \in 1..(Len(requests) - 1) : requests'[i] = requests[i + 1]
  BY <1>1, <1>2, HeadTailProperties, LenProperties, EmptySeq
<1>4. r.what \in Operations /\ r.label \in 0..63 /\ r.age \in 0..1
  BY <1>3 DEF Requests
<1> HIDE DEF r
<1>5. /\ r.what.op \in {"read", "write"} /\ r.what.reg \in Registers
      /\ r.what.op = "write" => /\ r.what.reg = "rate" => r.what.value \in Rates
                                /\ r.what.reg = "channels" => r.what.value \in 0..1
                                /\ r.what.reg = "streaming" => r.what.value \in 0..3
  BY <1>4, OperationsAre
<1>6. value \in Rates \cup 0..3 /\ (r.what.op = "read" /\ r.what.reg = "streaming" => value \in 0..3)
  BY <1>2, <1>5 DEF Registers
<1>7. new.ok = ok /\ new.value = value /\ new.label = r.label /\ new.age = r.age /\ new \in Answers
  BY <1>4, <1>5, <1>6 DEF Answers
<1> HIDE DEF new
<1>8. PICK a0 \in Answers :
        /\ a0.ok = ok /\ a0.value = value /\ a0.label = r.label /\ a0.age = r.age
        /\ answers' = answers \/ answers' = answers \cup {a0}
  BY <1>1, <1>7
<1> HIDE DEF value
<1>9. \A i \in DOMAIN requests' : /\ i + 1 \in DOMAIN requests /\ requests'[i] = requests[i + 1]
                                  /\ i = Len(requests') <=> i + 1 = Len(requests)
  BY <1>3
<1>10. CallTyped'
  BY <1>1, OutsideFrame DEF SessionInv
<1>11. Typed'
  <2>1. device' \in [rate: Rates, channels: 0..1, streaming: 0..3]
    BY <1>1, <1>2, <1>5 DEF Registers
  <2>2. answers' \subseteq Answers
    BY <1>1, <1>2, <1>8
  <2> QED
    BY <1>1, <1>3, <2>1, <2>2, OutsideFrame DEF SessionInv, Typed
<1>12. Attempt'
  <2>1. UNCHANGED <<pc, call>> /\ Operation(call)' = Operation(call) /\ Label(call)' = Label(call)
    BY <1>1, OutsideFrame
  <2> SUFFICES ASSUME pc = "wait"
               PROVE  Attempt'
    BY <2>1 DEF Attempt
  <2>2. /\ sent = [what |-> Operation(call), label |-> Label(call)]
        /\ \A i \in DOMAIN requests :
             IF requests[i].age = 0
             THEN i = Len(requests) /\ tx # "queued" /\ requests[i].what = sent.what
                  /\ requests[i].label = sent.label
             ELSE requests[i].label # sent.label
        /\ \A a \in answers : a.age # 0 /\ a.label # sent.label
        /\ rx # None => rx.age # 0 /\ rx.label # sent.label
    BY <1>1 DEF SessionInv, Attempt, OfAttempt
  <2>3. sent' = [what |-> Operation(call)', label |-> Label(call)']
    BY <1>1, <2>1, <2>2
  <2>4. \A i \in DOMAIN requests' :
          IF requests'[i].age = 0
          THEN i = Len(requests') /\ tx' # "queued" /\ requests'[i].what = sent'.what
               /\ requests'[i].label = sent'.label
          ELSE requests'[i].label # sent'.label
    BY <1>1, <1>9, <2>2
  <2>5. IF a0.age = 0 THEN OfAttempt(a0)' ELSE a0.label # sent'.label
    <3>1. CASE r.age = 0
      <4>1. 1 = Len(requests) /\ tx # "queued" /\ r.what = sent.what /\ r.label = sent.label
        BY <1>3, <2>2, <3>1
      <4>2. requests' = <<>>
        <5>1. Len(requests') = 0
          <6>1. Len(requests') = Len(requests) - 1
            BY <1>3, Zenon
          <6>2. Len(requests) = 1
            BY <4>1, Zenon
          <6> QED
            BY <6>1, <6>2
        <5> QED
          BY <1>3, <5>1, EmptySeq, Zenon
      <4>3. a0.ok => IF sent.what.op = "write" THEN device'[sent.what.reg] = sent.what.value
                     ELSE sent.what.reg = "streaming" => a0.value \in 0..3
        BY <1>1, <1>2, <1>5, <1>6, <1>8, <4>1 DEF Registers
      <4> QED
        BY <1>1, <1>8, <3>1, <4>1, <4>2, <4>3 DEF OfAttempt
    <3>2. CASE r.age # 0
      BY <1>1, <1>3, <1>8, <2>2, <3>2
    <3> QED
      BY <3>1, <3>2
  <2>6. /\ \A a \in answers' : IF a.age = 0 THEN OfAttempt(a)' ELSE a.label # sent'.label
        /\ \A a, b \in answers' : a.age = 0 /\ b.age = 0 => a = b
    BY <1>1, <1>8, <2>2, <2>5
  <2>7. rx' # None => rx'.age # 0 /\ rx'.label # sent'.label
    BY <1>1, <2>2
  <2> QED
    BY <2>3, <2>4, <2>6, <2>7 DEF Attempt
<1>13. Past'
  <2>1. pc' = pc /\ (Pending' <=> Pending) /\ \A l : Before(pc, call, l)' <=> Before(pc, call, l)
    BY <1>1, OutsideFrame DEF Pending
  <2> SUFFICES ASSUME pc # "wait"
               PROVE  Past'
    BY <2>1 DEF Past
  <2>2. /\ \A i \in DOMAIN requests : requests[i].age = 0 => Before(pc, call, requests[i].label)
        /\ \A a \in answers : a.age = 0 => Before(pc, call, a.label)
        /\ Pending => Before(pc, call, sent.label)
    BY DEF SessionInv, Past
  <2>3. /\ \A i \in DOMAIN requests' : requests'[i].age = 0 => Before(pc, call, requests'[i].label)
        /\ \A a \in answers' : a.age = 0 => Before(pc, call, a.label)
        /\ Pending' => Before(pc, call, sent'.label)
    BY <1>1, <1>3, <1>8, <1>9, <2>1, <2>2
  <2> QED
    BY <2>1, <2>3 DEF Past
<1>14. Only'
  <2>1. (Pending' <=> Pending) /\ (\A w : Harmless(w)' <=> Harmless(w)) /\ (Ahead' <=> Ahead)
        /\ call' = call /\ sent' = sent
    BY <1>1, OutsideFrame DEF Pending
  <2> QED
    BY <1>9, <2>1 DEF SessionInv, Only
<1>15. Progress'
  <2>1. CASE device' = device
    BY <1>1, <2>1, OutsideFrame, ProgressFrame DEF SessionInv
  <2>2. CASE device' = [device EXCEPT ![r.what.reg] = r.what.value] /\ r.what.op = "write"
    <3>1. call.ok => (Ahead => Harmless(r.what))
      BY <1>3 DEF SessionInv, Only
    <3> QED
      BY <1>1, <1>4, <2>2, <3>1, LateWrite
  <2> QED
    BY <1>1, <2>1, <2>2
<1> QED
  BY <1>10, <1>11, <1>12, <1>13, <1>14, <1>15 DEF SessionInv

\* What is under way when an attempt begins is older afterwards, and known by its label.
LEMMA SendDone ==
    ASSUME DriversNumbers, SessionInv, Send
    PROVE  SessionInv'
<1>1. /\ pc = "send" /\ ~Skipped(call) /\ pc' = "wait" /\ UNCHANGED <<call, localRate, device>>
      /\ contexts' = "buffers" /\ rx' = None
      /\ sent' = [what |-> Operation(call), label |-> Label(call)]
      /\ answers' = {Older(a) : a \in {b \in answers : ~Overdue(b)}}
  BY DEF Send
<1>2. /\ CallTyped /\ requests \in Seq(Requests) /\ answers \subseteq Answers /\ localRate \in Rates
      /\ \A i \in DOMAIN requests : requests[i].age = 0 => Before(pc, call, requests[i].label)
      /\ \A a \in answers : a.age = 0 => Before(pc, call, a.label)
  BY <1>1 DEF SessionInv, Typed, Past
<1>3. Operation(call)' = Operation(call) /\ (Skipped(call)' <=> Skipped(call))
      /\ Label(call)' = Label(call)
  BY <1>1, SameStep DEF Label
<1>4. Late \in {0, 1}
  BY SessionAssumption DEF DriversNumbers
<1>5. PICK gone \in 0..Len(requests) :
        /\ \A i \in DOMAIN requests : Overdue(requests[i]) <=> i <= gone
        /\ requests' = Aged(requests, gone)
  BY DEF Send
<1>6. \A x \in Requests : ~Overdue(x) => /\ x.age = 0 /\ Older(x) \in Requests
                                         /\ Older(x).age = 1 /\ Older(x).label = x.label
                                         /\ Older(x).what = x.what
  BY <1>4 DEF Requests, Overdue, Older
<1>7. \A x \in Answers : ~Overdue(x) => /\ x.age = 0 /\ Older(x) \in Answers
                                        /\ Older(x).age = 1 /\ Older(x).label = x.label
  <2> SUFFICES ASSUME NEW x \in Answers, ~Overdue(x)
               PROVE  /\ x.age = 0 /\ Older(x) \in Answers
                      /\ Older(x).age = 1 /\ Older(x).label = x.label
    OBVIOUS
  <2>1. x.age = 0
    BY <1>4 DEF Answers, Overdue
  <2>2. /\ x = [op |-> x.op, label |-> x.label, ok |-> x.ok, value |-> x.value, age |-> x.age]
        /\ x.op \in {"read", "write"} /\ x.label \in 0..63 /\ x.ok \in BOOLEAN
        /\ x.value \in Rates \cup 0..3
    BY DEF Answers
  <2>3. Older(x) = [op |-> x.op, label |-> x.label, ok |-> x.ok, value |-> x.value, age |-> 1]
    BY <2>1, <2>2 DEF Older
  <2> QED
    BY <2>1, <2>2, <2>3 DEF Answers
<1>8. /\ requests' \in Seq(Requests)
      /\ \A i \in DOMAIN requests' : \E j \in DOMAIN requests :
            /\ requests[j].age = 0 /\ requests'[i].age = 1
            /\ requests'[i].label = requests[j].label /\ requests'[i].what = requests[j].what
  <2>1. Len(requests) \in Nat /\ DOMAIN requests = 1..Len(requests)
        /\ \A j \in DOMAIN requests : requests[j] \in Requests
    BY <1>2, LenProperties, ElementOfSeq
  <2>2. requests' = [i \in 1..(Len(requests) - gone) |-> Older(requests[gone + i])]
    BY <1>5 DEF Aged
  <2>3. \A i \in 1..(Len(requests) - gone) :
          /\ gone + i \in DOMAIN requests /\ requests[gone + i] \in Requests
          /\ ~Overdue(requests[gone + i])
    BY <1>5, <2>1
  <2>4. \A i \in 1..(Len(requests) - gone) :
          /\ requests'[i] \in Requests /\ requests'[i].age = 1 /\ requests[gone + i].age = 0
          /\ requests'[i].label = requests[gone + i].label
          /\ requests'[i].what = requests[gone + i].what
    BY <1>6, <2>2, <2>3
  <2>5. Len(requests) - gone \in Nat
    BY <1>5, <2>1
  <2>6. requests' \in [1..(Len(requests) - gone) -> Requests]
    BY <2>2, <2>4
  <2>7. requests' \in Seq(Requests)
    <3> DEFINE n == Len(requests) - gone
    <3>1. n \in Nat /\ requests' \in [1..n -> Requests]
      BY <2>5, <2>6
    <3> HIDE DEF n
    <3>2. requests' \in UNION {[1..m -> Requests] : m \in Nat}
      BY <3>1
    <3> QED
      BY <3>2, SeqDef
  <2>8. DOMAIN requests' = 1..(Len(requests) - gone)
    BY <2>2
  <2> QED
    BY <2>3, <2>4, <2>7, <2>8
<1>9. \A a \in answers' : \E b \in answers : b.age = 0 /\ a.age = 1 /\ a.label = b.label /\ a \in Answers
  BY <1>1, <1>2, <1>7
<1>10. \A l : Before(pc, call, l) => l # Label(call)
  BY <1>1, <1>2, LabelIsNew
<1>11. sent'.what = Operation(call) /\ sent'.label = Label(call)
  BY <1>1
<1>12. CallTyped'
  BY <1>1, <1>2, <1>3 DEF CallTyped, Recording
<1>13. Typed'
  <2>1. sent' \in [what: Operations, label: 0..63]
    BY <1>1, <1>2, OperationTyped, LabelIs
  <2> QED
    BY <1>1, <1>8, <1>9, <2>1 DEF SessionInv, Typed
<1>14. Attempt'
  <2>1. \A i \in DOMAIN requests' : requests'[i].age # 0 /\ requests'[i].label # sent'.label
    BY <1>2, <1>8, <1>10, <1>11
  <2>2. \A a \in answers' : a.age # 0 /\ a.label # sent'.label
    BY <1>2, <1>9, <1>10, <1>11
  <2> QED
    BY <1>1, <1>3, <2>1, <2>2 DEF Attempt
<1>15. Past'
  BY <1>1 DEF Past
<1>16. Only'
  <2>1. Ahead' <=> Ahead
    BY <1>1 DEF Ahead, Recording
  <2>2. \A w : Harmless(w) => Harmless(w)'
    BY <1>1, <1>3 DEF Harmless
  <2>3. Harmless(sent.what)'
    BY <1>1, <1>3, <1>11 DEF Harmless
  <2>4. call.ok /\ Ahead => \A i \in DOMAIN requests : Harmless(requests[i].what)
    BY DEF SessionInv, Only
  <2>5. call.ok /\ Ahead => \A i \in DOMAIN requests' : Harmless(requests[i].what)'
    BY <1>8, <2>2, <2>4
  <2> QED
    BY <1>1, <2>1, <2>3, <2>5 DEF Only
<1>17. Progress'
  <2>1. Written' <=> Written
    BY <1>1 DEF Written, Skipped
  <2> QED
    BY <1>1, <2>1 DEF SessionInv, Progress, Recording
<1> QED
  BY <1>12, <1>13, <1>14, <1>15, <1>16, <1>17 DEF SessionInv

\* A step that is done, left out or does not count brings the call where its next one begins,
\* or its end.
LEMMA EndStepProgress ==
    ASSUME DriversNumbers, CallTyped, pc \in {"send", "wait"}, call.ok => Written,
           device \in [rate: Rates, channels: 0..1, streaming: 0..3],
           NEW success \in BOOLEAN, NEW value,
           call.kind # "finish" /\ call.step = 2 /\ success => value \in 0..3,
           EndStep(success, value), UNCHANGED <<localRate, device>>,
           call.ok /\ (success \/ ~Counts(call)) =>
              Skipped(call) \/ (~Skipped(call) /\ (Operation(call).op = "write"
                                    => device[Operation(call).reg] = Operation(call).value))
    PROVE  Progress'
<1>1. call \in Calls /\ FirstStep(call.kind) <= call.step /\ call.step <= LastStep[call.kind]
  BY DEF CallTyped
<1>2. /\ call' \in Calls /\ call'.kind = call.kind
      /\ call'.ok => call.ok /\ (success \/ ~Counts(call))
      /\ call'.state = IF call.kind # "finish" /\ call.step = 2 /\ success THEN value ELSE call.state
      /\ \/ /\ call.step = LastStep[call.kind]
            /\ pc' = IF call.kind = "capture" THEN "unmap" ELSE "stop"
            /\ call'.step = call.step /\ call'.attempt = call.attempt
         \/ /\ call.step < LastStep[call.kind]
            /\ pc' = IF call.kind = "capture" /\ call.step = 4 /\ call'.ok THEN "iso" ELSE "send"
            /\ call'.step = call.step + 1 /\ call'.attempt = 0
  BY EndStepIs
<1> SUFFICES ASSUME call'.ok
             PROVE  Progress'
  BY DEF Progress
<1>3. call.ok /\ Written
      /\ (Skipped(call) \/ (~Skipped(call) /\ (Operation(call).op = "write"
                                => device[Operation(call).reg] = Operation(call).value)))
  BY <1>2
<1>4. CASE call.kind = "finish"
  <2>1. /\ call.step \in 4..7 /\ ~Skipped(call) /\ LastStep[call.kind] = 7
        /\ call.step = 4 => Operation(call) = Write("streaming", AtRest)
        /\ call.step = 5 => Operation(call) = Write("channels", 0)
    BY <1>1, <1>4, OperationIs DEF Skipped, LastStep
  <2>2. /\ call.step >= 4 => device.streaming = AtRest
        /\ call.step >= 5 => device.channels = 0
    BY <1>3, <1>4, <2>1 DEF Write, Written
  <2>3. CASE call.step = 7
    <3>1. pc' = "stop" /\ Quiet'
      BY <1>2, <1>4, <2>1, <2>2, <2>3 DEF Quiet
    <3> QED
      BY <1>2, <1>4, <3>1 DEF Progress, Recording
  <2>4. CASE call.step < 7
    <3>1. pc' = "send" /\ call'.step = call.step + 1
      BY <1>2, <1>4, <2>1, <2>4
    <3>2. Written'
      BY <1>2, <1>4, <2>1, <2>2, <3>1 DEF Written
    <3> QED
      BY <3>1, <3>2 DEF Progress, Recording
  <2> QED
    BY <2>1, <2>3, <2>4
<1>5. CASE call.kind # "finish"
  <2>1. /\ call.step \in 0..8 /\ (call.kind = "begin" => call.step \in 0..4)
        /\ LastStep[call.kind] = IF call.kind = "begin" THEN 4 ELSE 8
        /\ call.kind \in {"begin", "capture"}
        /\ call.step = 0 => Operation(call) = Write("rate", localRate)
        /\ call.step = 1 => Operation(call) = Write("channels", Session)
        /\ call.step = 3 => Operation(call) = Write("streaming", BeginSetFirst(call.state))
        /\ call.step = 4 => Operation(call) = Write("streaming", BeginSetFirst(call.state) - 1)
        /\ call.step = 5 => Operation(call) = Write("streaming", AtRest)
        /\ call.step = 6 => Operation(call) = Write("channels", 0)
    BY <1>1, <1>5, OperationIs DEF LastStep, Calls, Kinds
  <2>2. BeginSetFirst(call.state) \in {1, 2}
    BY <1>1, LowerState DEF Calls
  <2>3. Skipped(call) <=> call.step = 4 /\ BeginSetFirst(call.state) = 1
    BY <1>5 DEF Skipped
  <2>4. /\ call.step \in 0..4 => device.rate = localRate
        /\ call.step \in 1..4 => device.channels = Session
        /\ call.step = 3 => device.streaming = BeginSetFirst(call.state)
        /\ call.step = 4 => device.streaming = Streams
        /\ call.step >= 5 => device.streaming = AtRest
        /\ call.step >= 6 => device.channels = 0
    <3>1. CASE call.step = 4
      BY <1>3, <1>5, <2>1, <2>2, <2>3, <3>1 DEF Write, Written, Streams
    <3>2. CASE call.step \in 0..3
      BY <1>3, <1>5, <2>1, <2>3, <3>2 DEF Write, Written
    <3>3. CASE call.step \in 5..8
      BY <1>3, <1>5, <2>1, <2>3, <3>3 DEF Write, Written
    <3> QED
      BY <2>1, <3>1, <3>2, <3>3
  <2>5. call.step = 4 => Streaming'
    <3>1. device = [rate |-> device.rate, channels |-> device.channels, streaming |-> device.streaming]
      OBVIOUS
    <3> QED
      BY <2>1, <2>4, <3>1 DEF Streaming
  <2>6. CASE call.step = LastStep[call.kind]
    <3>1. CASE call.kind = "begin"
      BY <1>2, <2>1, <2>5, <2>6, <3>1 DEF Progress, Recording
    <3>2. CASE call.kind = "capture"
      <4>1. pc' = "unmap" /\ Quiet'
        BY <1>2, <2>1, <2>4, <2>6, <3>2 DEF Quiet
      <4> QED
        BY <4>1 DEF Progress, Recording
    <3> QED
      BY <2>1, <3>1, <3>2
  <2>7. CASE call.step < LastStep[call.kind]
    <3>1. call'.step = call.step + 1
          /\ pc' = IF call.kind = "capture" /\ call.step = 4 THEN "iso" ELSE "send"
      BY <1>2, <2>1, <2>7
    <3>2. pc' = "iso" => Streaming'
      BY <2>5, <3>1
    <3>3. Skipped(call)' => device.streaming = Streams
      <4>1. Skipped(call)' => call'.step = 4 /\ BeginSetFirst(call'.state) = 1
        BY DEF Skipped
      <4>2. call.step = 3 => call'.state = call.state
        BY <1>2
      <4> QED
        BY <2>1, <2>4, <3>1, <4>1, <4>2 DEF Streams
    <3>4. pc' = "send" => Written'
      BY <1>2, <1>5, <2>1, <2>4, <3>1, <3>3 DEF Written
    <3> QED
      BY <3>1, <3>2, <3>4 DEF Progress, Recording
  <2> QED
    BY <2>1, <2>6, <2>7
<1> QED
  BY <1>4, <1>5

\* The wait for an attempt ends.
LEMMA JudgeDone ==
    ASSUME DriversNumbers, SessionInv, pc = "wait", Judge
    PROVE  SessionInv'
<1>1. UNCHANGED <<localRate, contexts, sent, tx, rx, requests, answers, device>>
  BY DEF Judge
<1>2. /\ CallTyped /\ Attempt /\ ~Skipped(call) /\ localRate \in Rates
      /\ device \in [rate: Rates, channels: 0..1, streaming: 0..3]
      /\ call.ok => Written
      /\ call \in Calls /\ FirstStep(call.kind) <= call.step /\ call.step <= LastStep[call.kind]
  BY DEF SessionInv, Typed, Progress, CallTyped
<1>3. /\ sent.what = Operation(call) /\ sent.label = Label(call)
      /\ \A i \in DOMAIN requests : requests[i].age = 0 => requests[i].label = Label(call)
      /\ \A a \in answers : a.age = 0 => a.label = Label(call)
  BY <1>2 DEF Attempt, OfAttempt
<1>4. pc' # "wait" /\ CallTyped' /\ Progress' /\ Past' /\ Only'
      /\ pc' \in {"send", "stop", "unmap"} \cup Recording
  <2>1. CASE Accepted(rx) /\ EndStep(TRUE, rx.value)
    <3>1. /\ requests = <<>> /\ tx # "queued" /\ \A a \in answers : a.age # 0
          /\ Operation(call).op = "write" => device[Operation(call).reg] = Operation(call).value
          /\ Operation(call) = Read("streaming") => rx.value \in 0..3
      BY <1>2, <2>1, AcceptedIs
    <3>2. call.kind # "finish" /\ call.step = 2 => rx.value \in 0..3
      BY <1>2, <3>1, OperationIs
    <3>3. TRUE \in BOOLEAN /\ pc \in {"send", "wait"}
      OBVIOUS
    <3>4. CallTyped' /\ pc' \in {"send", "stop", "unmap", "iso"}
      BY <1>2, <2>1, <3>2, <3>3, EndStepTyped
    <3>5. Progress'
      BY <1>1, <1>2, <2>1, <3>1, <3>2, <3>3, EndStepProgress
    <3>6. requests' = <<>> /\ ~Pending' /\ \A a \in answers' : a.age # 0
      BY <1>1, <3>1 DEF Pending
    <3>7. DOMAIN requests' = {}
      BY <3>6
    <3>8. Past' /\ Only'
      BY <3>6, <3>7 DEF Past, Only
    <3> QED
      BY <3>4, <3>5, <3>8 DEF Recording
  <2>2. CASE /\ call.attempt + 1 < AttemptCount(call.kind)
             /\ pc' = "send" /\ call' = [call EXCEPT !.attempt = @ + 1]
    <3>1. call.attempt + 1 \in 1..5
      BY <1>2, <2>2 DEF Calls, AttemptCount, DriversNumbers
    <3>2. /\ call = [kind |-> call.kind, step |-> call.step, attempt |-> call.attempt, ok |-> call.ok,
                     state |-> call.state]
          /\ call.kind \in Kinds /\ call.step \in 0..8 /\ call.ok \in BOOLEAN /\ call.state \in 0..3
      BY <1>2 DEF Calls
    <3>3. call' = [kind |-> call.kind, step |-> call.step, attempt |-> call.attempt + 1,
                   ok |-> call.ok, state |-> call.state]
      BY <2>2, <3>2
    <3>4. /\ call' \in Calls /\ call'.kind = call.kind /\ call'.step = call.step /\ call'.ok = call.ok
          /\ call'.state = call.state /\ call'.attempt = call.attempt + 1 /\ call'.attempt > 0
      BY <3>1, <3>2, <3>3 DEF Calls
    <3>5. Operation(call)' = Operation(call) /\ ~Skipped(call)'
      BY <1>1, <1>2, <3>4, SameStep
    <3>6. CallTyped'
      BY <1>2, <2>2, <3>4, <3>5 DEF CallTyped, Recording
    <3>7. Written' <=> Written
      BY <1>1, <3>4 DEF Written, Skipped
    <3>8. Progress'
      BY <1>2, <2>2, <3>4, <3>7 DEF Progress, Recording
    <3>9. Before(pc', call', Label(call))
      <4>1. Label(call) = Lab(call.kind, call.step, call.attempt)
        BY <1>2, LabelIs
      <4>2. call'.attempt - 1 = call.attempt
        <5>1. call.attempt \in 0..5
          BY <1>2 DEF Calls
        <5> QED
          BY <3>4, <5>1
      <4> QED
        BY <2>2, <3>4, <4>1, <4>2 DEF Before
    <3>10. Past'
      BY <1>1, <1>3, <3>9 DEF Past
    <3>11. Only'
      <4>1. Ahead' => Ahead
        BY <2>2, <3>4 DEF Ahead, Recording
      <4>2. \A w : Harmless(w) => Harmless(w)'
        BY <1>2, <2>2, <3>5 DEF Harmless
      <4>3. Pending' => Pending
        BY <1>1 DEF Pending
      <4> QED
        BY <1>1, <3>4, <4>1, <4>2, <4>3 DEF SessionInv, Only
    <3> QED
      BY <2>2, <3>6, <3>8, <3>10, <3>11
  <2>3. CASE call.attempt + 1 >= AttemptCount(call.kind) /\ EndStep(FALSE, 0)
    <3>1. FALSE \in BOOLEAN /\ pc \in {"send", "wait"} /\ 0 \in 0..3
      OBVIOUS
    <3>2. CallTyped' /\ pc' \in {"send", "stop", "unmap", "iso"}
      BY <1>2, <2>3, <3>1, EndStepTyped
    <3>3. call.ok /\ ~Counts(call) => Operation(call).op = "read"
      <4>1. ~Counts(call) => call.kind = "finish" /\ ~(call.step < 6)
        BY DEF Counts
      <4> QED
        BY <1>2, <4>1, OperationIs DEF Read
    <3>4. call.ok /\ (FALSE \/ ~Counts(call)) =>
              Skipped(call) \/ (~Skipped(call) /\ (Operation(call).op = "write"
                                    => device[Operation(call).reg] = Operation(call).value))
      BY <1>2, <3>3
    <3>5. Progress'
      BY <1>1, <1>2, <2>3, <3>1, <3>4, EndStepProgress
    <3>6. Before(pc', call', Label(call))
      BY <1>2, <2>3, LabelGivenUp
    <3>7. Past'
      BY <1>1, <1>3, <3>6 DEF Past
    <3>8. Only'
      <4> SUFFICES ASSUME call'.ok
                   PROVE  Only'
        BY DEF Only
      <4>1. call.ok /\ ~Counts(call)
        BY <1>2, <2>3, <3>1, EndStepIs
      <4>2. call.step > FirstStep(call.kind)
        BY <1>2, <4>1 DEF Counts, FirstStep, Calls
      <4>3. Operation(call).op = "read" /\ Ahead
        BY <3>3, <4>1, <4>2 DEF Ahead
      <4>4. \A w : Harmless(w) => w.op = "read"
        BY <4>3 DEF Harmless
      <4>5. /\ \A i \in DOMAIN requests : requests[i].what.op = "read"
            /\ Pending => sent.what.op = "read"
        BY <4>1, <4>3, <4>4 DEF SessionInv, Only
      <4>6. \A w : w.op = "read" => Harmless(w)'
        BY DEF Harmless
      <4>7. Pending' => Pending
        BY <1>1 DEF Pending
      <4> QED
        BY <1>1, <4>5, <4>6, <4>7 DEF Only
    <3> QED
      BY <3>2, <3>5, <3>7, <3>8 DEF Recording
  <2> QED
    BY <2>1, <2>2, <2>3 DEF Judge
<1>5. Typed'
  BY <1>1, <1>4 DEF SessionInv, Typed
<1>6. Attempt'
  BY <1>4 DEF Attempt
<1> QED
  BY <1>4, <1>5, <1>6 DEF SessionInv

\* The last state is left out when the device is in it already.
LEMMA SkipDone ==
    ASSUME DriversNumbers, SessionInv, Skip
    PROVE  SessionInv'
<1>1. pc = "send" /\ Skipped(call) /\ EndStep(TRUE, 0)
      /\ UNCHANGED <<localRate, contexts, sent, tx, rx, requests, answers, device>>
  BY DEF Skip
<1>2. /\ CallTyped /\ localRate \in Rates
      /\ device \in [rate: Rates, channels: 0..1, streaming: 0..3]
      /\ call.ok => Written
      /\ call.step = 4 /\ call.kind # "finish"
  BY <1>1 DEF SessionInv, Typed, Progress, Skipped
<1>3. TRUE \in BOOLEAN /\ pc \in {"send", "wait"} /\ 0 \in 0..3
  BY <1>1
<1>4. CallTyped' /\ pc' \in {"send", "stop", "unmap", "iso"}
  BY <1>1, <1>2, <1>3, EndStepTyped
<1>5. Progress'
  BY <1>1, <1>2, <1>3, EndStepProgress
<1>6. \A l : Before(pc, call, l) => Before(pc', call', l)
  BY <1>1, <1>2, LabelSkipped
<1>7. Pending' => Pending
  BY <1>1 DEF Pending
<1>8. Past'
  BY <1>1, <1>6, <1>7 DEF SessionInv, Past
<1>9. Only'
  <2> SUFFICES ASSUME call'.ok
               PROVE  Only'
    BY DEF Only
  <2>1. call.ok
    BY <1>1, <1>2, <1>3, EndStepIs
  <2>2. Ahead
    BY <1>1, <1>2 DEF Ahead, FirstStep
  <2>3. \A w : Harmless(w) => Harmless(w)'
    BY <1>1 DEF Harmless
  <2> QED
    BY <1>1, <1>7, <2>1, <2>2, <2>3 DEF SessionInv, Only
<1>10. Typed'
  BY <1>1, <1>4 DEF SessionInv, Typed, Recording
<1>11. Attempt'
  BY <1>4 DEF Attempt
<1> QED
  BY <1>4, <1>5, <1>8, <1>9, <1>10, <1>11 DEF SessionInv

\* A call begins with its first step and nothing done.
LEMMA StartingIs ==
    ASSUME DriversNumbers, NEW kind \in Kinds
    PROVE  /\ Starting(kind) \in Calls /\ Starting(kind).kind = kind
           /\ Starting(kind).step = FirstStep(kind) /\ Starting(kind).attempt = 0
           /\ FirstStep(kind) <= LastStep[kind] /\ 0 < AttemptCount(kind)
<1>1. FirstStep(kind) \in 0..8 /\ FirstStep(kind) <= LastStep[kind]
  BY DEF FirstStep, LastStep, Kinds
<1>2. 0 < AttemptCount(kind)
  BY DEF AttemptCount, DriversNumbers
<1> QED
  BY <1>1, <1>2 DEF Starting, Calls

\* Between calls, and until a call's first attempt, only old answers are under way.
LEMMA BetweenCalls ==
    ASSUME SessionInv, pc \in {"idle", "prepare", "unmap", "stop"}, ~Pending',
           pc' \in {"idle", "prepare", "unmap", "stop"}
           \/ (pc' = "send" /\ call'.step = FirstStep(call'.kind) /\ call'.attempt = 0),
           UNCHANGED <<requests, answers>>
    PROVE  Past' /\ Attempt'
<1>1. \A l : Before(pc, call, l) => Before(pc', call', l)
  BY DEF Before
<1>2. Past'
  BY <1>1 DEF SessionInv, Past
<1> QED
  BY <1>2 DEF Attempt

\* A call is made, or the rate changed between two.
LEMMA EnterDone ==
    ASSUME DriversNumbers, SessionInv, Begin \/ Capture \/ ChangeRate
    PROVE  SessionInv'
<1>1. pc = "idle" /\ UNCHANGED <<contexts, sent, tx, rx, requests, answers, device>>
  BY DEF Begin, Capture, Enter, ChangeRate
<1>2. CASE Begin \/ Capture
  <2>1. PICK kind \in Kinds : pc' = "prepare" /\ call' = Starting(kind) /\ localRate' = localRate
    BY <1>2 DEF Begin, Capture, Enter, Kinds
  <2>2. /\ call' \in Calls /\ call'.kind = kind /\ call'.step = FirstStep(kind) /\ call'.attempt = 0
        /\ FirstStep(kind) <= LastStep[kind] /\ 0 < AttemptCount(kind)
    BY <2>1, StartingIs
  <2>3. FirstStep(kind) \in Nat
    BY DEF FirstStep
  <2>4. CallTyped'
    BY <2>1, <2>2, <2>3 DEF CallTyped, Recording
  <2>5. Typed'
    BY <1>1, <2>1 DEF SessionInv, Typed
  <2>6. Past' /\ Attempt'
    <3>1. \A l : Before(pc, call, l) => Before(pc', call', l)
      BY <1>1, <2>1 DEF Before
    <3> QED
      BY <1>1, <2>1, <3>1 DEF SessionInv, Past, Attempt, Pending
  <2>7. Only' /\ Progress'
    BY <2>1 DEF Only, Progress, Ahead, Recording
  <2> QED
    BY <2>4, <2>5, <2>6, <2>7 DEF SessionInv
<1>3. CASE ChangeRate
  <2>1. pc' = "idle" /\ call' = call /\ localRate' \in Rates
    BY <1>1, <1>3 DEF ChangeRate
  <2>2. CallTyped' /\ Only' /\ Progress' /\ Attempt'
    BY <2>1 DEF CallTyped, Only, Progress, Attempt, Ahead, Recording
  <2>3. Typed'
    BY <1>1, <2>1 DEF SessionInv, Typed
  <2>4. Past'
    <3>1. \A l : Before(pc, call, l) => Before(pc', call', l)
      BY <1>1, <2>1 DEF Before
    <3> QED
      BY <1>1, <2>1, <3>1 DEF SessionInv, Past, Pending
  <2> QED
    BY <2>2, <2>3, <2>4 DEF SessionInv
<1> QED
  BY <1>2, <1>3

\* The buffers are made, or cannot be had.
LEMMA PrepareDone ==
    ASSUME DriversNumbers, SessionInv, Prepare
    PROVE  SessionInv'
<1>1. /\ pc = "prepare" /\ UNCHANGED <<localRate, sent, tx, rx, requests, answers, device>>
      /\ contexts' = Abandoned
  BY DEF Prepare
<1>2. contexts' # "buffers"
  BY <1>1 DEF Abandoned
<1>3. \/ pc' = "send" /\ call' = call
      \/ pc' = "stop" /\ call' = [call EXCEPT !.ok = FALSE] /\ call.kind # "capture"
      \/ pc' = "idle"
  BY DEF Prepare, Return
<1>4. CallTyped /\ call \in Calls /\ call.step = FirstStep(call.kind) /\ call.attempt = 0
  BY <1>1 DEF SessionInv, CallTyped
<1>5. pc' # "idle" => /\ call' \in Calls /\ call'.kind = call.kind /\ call'.step = call.step
                      /\ call'.attempt = 0
  BY <1>3, <1>4 DEF Calls
<1>6. pc' = "stop" => ~call'.ok
  BY <1>3, <1>4 DEF Calls
<1>7. CallTyped'
  <2>1. /\ FirstStep(call.kind) <= call.step /\ call.step <= LastStep[call.kind]
        /\ call.attempt < AttemptCount(call.kind)
    BY <1>1, <1>4 DEF CallTyped
  <2>2. pc' # "idle" => /\ FirstStep(call'.kind) <= call'.step /\ call'.step <= LastStep[call'.kind]
                        /\ call'.attempt < AttemptCount(call'.kind)
    BY <1>4, <1>5, <2>1
  <2>3. pc' \in {"idle", "send", "stop"} /\ (pc' = "stop" => call'.kind # "capture")
    BY <1>3, <1>5
  <2>4. pc' # "idle" => call'.attempt = 0 /\ call' \in Calls
    BY <1>5
  <2> QED
    BY <2>2, <2>3, <2>4 DEF CallTyped, Recording
<1>8. Typed'
  BY <1>1, <1>2, <1>3 DEF SessionInv, Typed
<1>9. ~Pending'
  BY <1>2 DEF Pending
<1>10. Past' /\ Attempt'
  BY <1>1, <1>3, <1>4, <1>5, <1>9, BetweenCalls
<1>11. Only'
  <2>1. call'.ok => ~Ahead'
    BY <1>3, <1>4, <1>5, <1>6 DEF Ahead, Recording, Calls, FirstStep
  <2> QED
    BY <2>1 DEF Only
<1>12. Progress'
  <2>1. pc' = "send" => Written'
    BY <1>4, <1>5 DEF Written, Skipped, FirstStep
  <2> QED
    BY <1>3, <1>6, <2>1 DEF Progress, Recording
<1> QED
  BY <1>7, <1>8, <1>10, <1>11, <1>12 DEF SessionInv

\* The capture records.
LEMMA IsoProbeDone ==
    ASSUME SessionInv, IsoProbe
    PROVE  SessionInv'
<1>1. UNCHANGED <<call, localRate, contexts, sent, tx, rx, requests, answers, device>>
  BY DEF IsoProbe, PrepareIso, RunContexts, Record, Halt, session
<1>2. pc \in Recording /\ pc' \in Recording \cup {"send"}
  BY DEF IsoProbe, PrepareIso, RunContexts, Record, Halt, Recording
<1>3. CallTyped /\ call.kind = "capture" /\ call.step = 5 /\ call.attempt = 0
  BY <1>2 DEF SessionInv, CallTyped, Recording
<1>4. Skipped(call)' <=> Skipped(call)
  BY <1>1 DEF Skipped
<1>5. CallTyped'
  BY <1>1, <1>2, <1>3, <1>4 DEF CallTyped, Recording
<1>6. Typed'
  BY <1>1, <1>2 DEF SessionInv, Typed
<1>7. Attempt'
  BY <1>2 DEF Attempt, Recording
<1>8. Past'
  <2>1. \A l : Before(pc, call, l) => Before(pc', call', l)
    BY <1>1, <1>2, <1>3 DEF Before, Recording, FirstStep
  <2> QED
    BY <1>1, <1>2, <2>1 DEF SessionInv, Past, Pending, Recording
<1>9. Only'
  <2>1. Ahead
    BY <1>2 DEF Ahead
  <2>2. \A w : Harmless(w) => Harmless(w)'
    BY <1>2 DEF Harmless, Recording
  <2> QED
    BY <1>1, <2>1, <2>2 DEF SessionInv, Only, Pending
<1>10. Progress'
  <2>1. Written'
    BY <1>1, <1>3 DEF Written, Skipped
  <2>2. Streaming' <=> Streaming
    BY <1>1 DEF Streaming
  <2> QED
    BY <1>1, <1>2, <2>1, <2>2 DEF SessionInv, Progress, Recording
<1> QED
  BY <1>5, <1>6, <1>7, <1>8, <1>9, <1>10 DEF SessionInv

\* A call ends, and a begin may be followed by a finish.
LEMMA EndOfCallDone ==
    ASSUME DriversNumbers, SessionInv, StopContexts \/ CompleteMappings
    PROVE  SessionInv'
<1>1. UNCHANGED <<localRate, requests, answers, device>>
  BY DEF StopContexts, CompleteMappings
<1>2. CASE StopContexts
  <2>1. pc = "stop" /\ pc' = "unmap" /\ call' = call /\ contexts' = "stopped"
    BY <1>2 DEF StopContexts
  <2>2. ~Pending' /\ contexts' # "buffers"
    BY <2>1 DEF Pending
  <2>3. CallTyped' /\ call.kind # "capture"
    BY <2>1 DEF SessionInv, CallTyped, Skipped, Recording
  <2>4. Typed'
    BY <1>1, <2>1, <2>2 DEF SessionInv, Typed
  <2>5. Past' /\ Attempt'
    BY <1>1, <2>1, <2>2, BetweenCalls
  <2>6. Only' /\ Progress'
    BY <2>1, <2>3 DEF Only, Progress, Ahead, Recording
  <2> QED
    BY <2>3, <2>4, <2>5, <2>6 DEF SessionInv
<1>3. CASE CompleteMappings
  <2>1. /\ pc = "unmap" /\ contexts' = Unmapped
        /\ pc' = "idle" \/ (pc' = "prepare" /\ call' = Starting("finish"))
    BY <1>3 DEF CompleteMappings, Return
  <2>2. contexts' # "buffers" /\ ~Pending'
    BY <2>1 DEF Unmapped, Pending
  <2>3. CallTyped'
    <3>1. "finish" \in Kinds /\ FirstStep("finish") \in Nat
      BY DEF Kinds, FirstStep
    <3>2. /\ Starting("finish") \in Calls /\ Starting("finish").kind = "finish"
          /\ Starting("finish").step = FirstStep("finish") /\ Starting("finish").attempt = 0
          /\ FirstStep("finish") <= LastStep["finish"] /\ 0 < AttemptCount("finish")
      BY <3>1, StartingIs
    <3> QED
      BY <2>1, <3>1, <3>2 DEF CallTyped, Recording
  <2>4. Typed'
    BY <1>1, <2>1, <2>2 DEF SessionInv, Typed
  <2>5. Past' /\ Attempt'
    BY <1>1, <2>1, <2>2, BetweenCalls
  <2>6. Only' /\ Progress'
    BY <2>1 DEF Only, Progress, Ahead, Recording
  <2> QED
    BY <2>3, <2>4, <2>5, <2>6 DEF SessionInv
<1> QED
  BY <1>2, <1>3

\* With the driver's labels, for any numbers of attempts its stride allows, two at least in a live
\* call, and answers late by one attempt at most: a call that reports success has brought the
\* device where it says, whatever was lost, refused, attempted again or answered late; and
\* the capture records from a device that streams.
THEOREM ReportedDoneHolds ==
    ASSUME DriversNumbers
    PROVE  Spec => []ReportedDone
<1>1. Init => SessionInv
  <2> SUFFICES ASSUME Init
               PROVE  SessionInv
    OBVIOUS
  <2>1. CallTyped /\ Attempt /\ Only /\ Progress
    BY DEF Init, CallTyped, Attempt, Only, Progress, Ahead, Recording
  <2>2. Typed
    <3>1. requests \in Seq(Requests)
      BY DEF Init
    <3>2. device \in [rate: Rates, channels: 0..1, streaming: 0..3]
      BY DEF Init
    <3> QED
      BY <3>1, <3>2 DEF Init, Typed
  <2>3. Past
    BY DEF Init, Past, Pending
  <2> QED
    BY <2>1, <2>2, <2>3 DEF SessionInv
<1>2. SessionInv /\ [Next]_vars => SessionInv'
  <2> SUFFICES ASSUME SessionInv, [Next]_vars
               PROVE  SessionInv'
    OBVIOUS
  <2>1. CASE UNCHANGED vars
    <3>1. UNCHANGED outside /\ UNCHANGED <<sent, tx, rx, requests, answers, device>>
      BY <2>1 DEF vars, outside
    <3>2. CallTyped' /\ Progress'
      BY <3>1, OutsideFrame, ProgressFrame DEF SessionInv
    <3>3. Typed'
      BY <3>1, OutsideFrame DEF SessionInv, Typed
    <3>4. Attempt'
      <4>1. (\A a : OfAttempt(a)' <=> OfAttempt(a)) /\ (OfAttempt(rx)' <=> OfAttempt(rx))
        BY <3>1 DEF OfAttempt
      <4> QED
        BY <3>1, <4>1, OutsideFrame DEF SessionInv, Attempt
    <3>5. Past'
      BY <3>1, OutsideFrame DEF SessionInv, Past, Pending
    <3>6. Only'
      BY <3>1, OutsideFrame DEF SessionInv, Only, Pending
    <3> QED
      BY <3>2, <3>3, <3>4, <3>5, <3>6 DEF SessionInv
  <2>2. CASE Begin \/ Capture \/ ChangeRate
    BY <2>2, EnterDone
  <2>3. CASE DriverStep
    <3>1. CASE Poll \/ GiveUp
      <4>1. pc = "wait" /\ Judge
        BY <3>1 DEF Poll, GiveUp
      <4> QED
        BY <4>1, JudgeDone
    <3> QED
      BY <2>3, <3>1, PrepareDone, SendDone, SkipDone, IsoProbeDone, EndOfCallDone DEF DriverStep
  <2>4. CASE Outside
    BY <2>4, TransmitDone, ExecuteDone, ArriveDone DEF Outside
  <2> QED
    BY <2>1, <2>2, <2>3, <2>4 DEF Next
<1>3. SessionInv => ReportedDone
  BY DEF SessionInv, Progress, ReportedDone, Recording, CallTyped
<1> QED
  BY <1>1, <1>2, <1>3, PTL DEF Spec

=============================================================================
