---------------------------- MODULE AsyncSession ----------------------------
(***************************************************************************)
(* The asynchronous transactions by which the driver starts and stops the   *)
(* device's streaming: RunDigiLiveBeginTransactions, its counterpart        *)
(* RunDigiLiveFinishTransactions (called when a start fails), and the       *)
(* capture, which begins, records for a moment and finishes again.  A call  *)
(* is a sequence of steps, a step one register access that is attempted a   *)
(* few times; every attempt stops and re-arms the three contexts, sends one *)
(* request and waits for the first answer that comes.                       *)
(*                                                                          *)
(* External: the controller (what the transmit descriptor's status says,    *)
(* which answer is in the receive buffer), the bus, and the device, which   *)
(* executes what it received in order and may answer late: a request or an  *)
(* answer is gone once Late more attempts have been sent.  How long a wait  *)
(* lasts is not counted: it may end any time.                               *)
(***************************************************************************)
EXTENDS Naturals, Sequences, DMABuffer

CONSTANTS
    Rates,          \* local rate indices in use
    LiveAttempts,   \* kDigiLiveAsyncAttemptCount
    CaptureAttempts,\* kAsyncReadAttemptCount, as the number of attempts
    Stride,         \* kAsyncReadAttemptCount, as the distance of two steps' labels
    Labels,         \* number of transaction labels, 64
    CaptureBase,    \* tlabelBase of RunDigiDuplexProbe
    LiveBase,       \* DigiLiveTLabelBase
    Outcomes,       \* bound: what may happen when a buffer is created
    Late,           \* bound: see above
    None

ASSUME SessionAssumption ==
    /\ {LiveAttempts, CaptureAttempts, Stride, Labels} \subseteq Nat \ {0}
    /\ {CaptureBase, LiveBase, Late} \subseteq Nat
    /\ LiveAttempts <= Stride /\ CaptureAttempts <= Stride /\ 9 * Stride <= Labels
    /\ Outcomes \subseteq Outcome /\ "good" \in Outcomes
    /\ Rates # {}

VARIABLES
    pc,         \* "idle", "prepare", "send", "wait", "stop" or "unmap"; while a capture
                \* records also "iso", "program", "record" and "halt"
    call,       \* the call under way: its kind, step and attempt, whether all the steps
                \* that count succeeded, the streaming state read
    localRate,  \* gDigi00xCurrentLocalRateIndex
    buffers,    \* gAsyncRxBuffer, gAsyncReqRxBuffer, gAsyncTxBuffer
    contexts,   \* "stopped", or running: on these "buffers", on buffers "left" to them whose
                \* mappings were completed, or on memory "released" under them
    iso,        \* gDigiDuplexBuffer is mapped, and the isochronous contexts run on it
    sent,       \* the request in gAsyncTxBuffer
    tx,         \* status in its descriptor
    rx,         \* first answer in the receive buffer, or None
    requests,   \* what the device received and did not execute yet
    answers,    \* on their way to the controller
    device      \* its registers

vars == <<pc, call, localRate, buffers, contexts, iso, sent, tx, rx, requests, answers, device>>

-----------------------------------------------------------------------------
(* What a call does, step by step.                                          *)

Session == 1        \* sessionChannelsBusValue: the two isochronous channels
Streams == 1        \* the streaming register of a device that streams
AtRest == 3         \* and of one that was told to finish

FirstStep(kind) == IF kind = "finish" THEN 4 ELSE 0

LastStep == [begin |-> 4, finish |-> 7, capture |-> 8]

AttemptCount(kind) == IF kind = "capture" THEN CaptureAttempts ELSE LiveAttempts

TLabelBase(kind) == IF kind = "capture" THEN CaptureBase ELSE LiveBase

Label(c) == (TLabelBase(c.kind) + Stride * c.step + c.attempt) % Labels

Starting(kind) ==
    [kind |-> kind, step |-> FirstStep(kind), attempt |-> 0, ok |-> TRUE, state |-> 0]

NoCall == [kind |-> "none", step |-> 0, attempt |-> 0, ok |-> TRUE, state |-> 0]

\* a device whose state is unknown or 0 is taken to be in state 2; the state is then
\* lowered to 1, through 2 when it is 3
BeginSetFirst(state) ==
    LET current == IF state = 0 THEN 2 ELSE state
    IN  IF current > 1 THEN current - 1 ELSE 1

Write(reg, value) == [op |-> "write", reg |-> reg, value |-> value]
Read(reg) == [op |-> "read", reg |-> reg, value |-> 0]

BeginOperation(c) ==
    CASE c.step = 0 -> Write("rate", localRate)
      [] c.step = 1 -> Write("channels", Session)
      [] c.step = 2 -> Read("streaming")
      [] c.step = 3 -> Write("streaming", BeginSetFirst(c.state))
      [] c.step = 4 -> Write("streaming", BeginSetFirst(c.state) - 1)

FinishOperation(n) ==
    <<Write("streaming", AtRest), Write("channels", 0), Read("streaming"), Read("channels")>>[n]

Operation(c) ==
    CASE c.kind = "finish" -> FinishOperation(c.step - 3)
      [] c.kind # "finish" /\ c.step < 5 -> BeginOperation(c)
      [] c.kind # "finish" /\ c.step >= 5 -> FinishOperation(c.step - 4)

\* kDigiDuplexOpSkip: the first write already was the last state
Skipped(c) == c.kind # "finish" /\ c.step = 4 /\ BeginSetFirst(c.state) = 1

\* whether the call's result depends on this step
Counts(c) == c.kind = "finish" => c.step < 6

-----------------------------------------------------------------------------
Init ==
    /\ pc = "idle" /\ call = NoCall
    /\ localRate \in Rates
    /\ buffers = [b \in {"rx", "reqRx", "tx"} |-> NoBuffer]
    /\ contexts = "stopped" /\ iso = [mapped |-> FALSE, running |-> FALSE]
    /\ sent = None /\ tx = "none" /\ rx = None
    /\ requests = <<>> /\ answers = {}
    /\ device \in [rate: Rates, channels: {0}, streaming: 0..3]

\* the three users of transactions: the start of the live stream, the capture of a worker
\* that finds no live stream, a change of the sample rate while there is none
Enter(kind) ==
    /\ pc = "idle"
    /\ pc' = "prepare" /\ call' = Starting(kind)
    /\ UNCHANGED <<localRate, buffers, contexts, iso, sent, tx, rx, requests, answers, device>>

Begin == Enter("begin")
Capture == Enter("capture")

ChangeRate ==
    /\ pc = "idle"
    /\ localRate' \in Rates \ {localRate}
    /\ UNCHANGED <<pc, call, buffers, contexts, iso, sent, tx, rx, requests, answers, device>>

Return == pc' = "idle" /\ call' = NoCall

\* contexts that still run go on using what is unmapped, or given back, under them
Unmapped == IF contexts = "buffers" THEN "left" ELSE contexts
Abandoned == IF contexts = "stopped" THEN "stopped" ELSE "released"

\* what the buffers held before is released first, before any context is stopped; all three
\* buffers are created whatever becomes of the first; only the live calls
\* clean up when one is unusable
Prepare ==
    /\ pc = "prepare"
    /\ \E r \in CreateDMABuffer(buffers.rx, Outcomes), q \in CreateDMABuffer(buffers.reqRx, Outcomes),
          t \in CreateDMABuffer(buffers.tx, Outcomes) :
          /\ buffers' = [rx |-> r, reqRx |-> q, tx |-> t]
          /\ \/ /\ r.usable /\ q.usable /\ t.usable
                /\ pc' = "send" /\ UNCHANGED call
             \/ /\ ~(r.usable /\ q.usable /\ t.usable) /\ call.kind # "capture"
                /\ pc' = "stop" /\ call' = [call EXCEPT !.ok = FALSE]
             \/ /\ ~(r.usable /\ q.usable /\ t.usable) /\ call.kind = "capture"
                /\ Return
    /\ contexts' = Abandoned
    /\ UNCHANGED <<localRate, iso, sent, tx, rx, requests, answers, device>>

\* what is too old to be answered is gone
Overdue(item) == item.age >= Late
Older(item) == [item EXCEPT !.age = @ + 1]

\* the requests are in the order they were sent in, so the first ones are too old
Aged(queue, gone) == [i \in 1..(Len(queue) - gone) |-> Older(queue[gone + i])]

\* one attempt: the contexts are stopped, the receive buffers re-armed and emptied, the
\* request written, the contexts started
Send ==
    /\ pc = "send" /\ ~Skipped(call)
    /\ pc' = "wait"
    /\ contexts' = "buffers" /\ tx' = "queued" /\ rx' = None
    /\ sent' = [what |-> Operation(call), label |-> Label(call)]
    /\ \E gone \in 0..Len(requests) :
          /\ \A i \in DOMAIN requests : Overdue(requests[i]) <=> i <= gone
          /\ requests' = Aged(requests, gone)
    /\ answers' = {Older(a) : a \in {b \in answers : ~Overdue(b)}}
    /\ UNCHANGED <<call, localRate, buffers, iso, device>>

EndStep(success, value) ==
    LET c == [call EXCEPT !.ok = @ /\ (success \/ ~Counts(call)),
                          !.state = IF call.kind # "finish" /\ call.step = 2 /\ success
                                    THEN value ELSE @]
    IN  \/ /\ call.step = LastStep[call.kind]
           /\ pc' = IF call.kind = "capture" THEN "unmap" ELSE "stop"
           /\ call' = c
        \/ /\ call.step < LastStep[call.kind]
           /\ pc' = IF call.kind = "capture" /\ call.step = 4 /\ c.ok THEN "iso" ELSE "send"
           /\ call' = [c EXCEPT !.step = @ + 1, !.attempt = 0]

Skip ==
    /\ pc = "send" /\ Skipped(call)
    /\ EndStep(TRUE, 0)
    /\ UNCHANGED <<localRate, buffers, contexts, iso, sent, tx, rx, requests, answers, device>>

\* Mutant: an answer to any attempt is taken
AcceptedByKind(answer) == answer # None /\ answer.op = Operation(call).op /\ answer.ok

\* the answer in the buffer is the one to this attempt, and says that all went well
Accepted(answer) ==
    /\ answer # None
    /\ answer.op = Operation(call).op
    /\ answer.label = Label(call)
    /\ answer.ok

Judge ==
    /\ \/ /\ Accepted(rx)
          /\ EndStep(TRUE, rx.value)
       \/ /\ ~Accepted(rx) /\ call.attempt + 1 < AttemptCount(call.kind)
          /\ pc' = "send" /\ call' = [call EXCEPT !.attempt = @ + 1]
       \/ /\ ~Accepted(rx) /\ call.attempt + 1 >= AttemptCount(call.kind)
          /\ EndStep(FALSE, 0)
    /\ UNCHANGED <<localRate, buffers, contexts, iso, sent, tx, rx, requests, answers, device>>

\* the wait ends with any answer, or when none is to come
Poll ==
    /\ pc = "wait"
    /\ rx # None \/ tx \in {"missing", "complete"}
    /\ Judge

\* Mutant: an acknowledged request is waited for without end
WaitsOn == pc = "wait" /\ rx = None /\ tx = "queued" /\ Judge

\* or when it has lasted waitLoopsPerAttempt
GiveUp ==
    /\ pc = "wait" /\ rx = None /\ tx \in {"queued", "pending"}
    /\ Judge

\* RunDigiDuplexIsoProbe: what is below is unchanged while it records
session == <<call, localRate, buffers, contexts, sent, tx, rx, requests, answers, device>>

\* the buffer, and in it the programs of both contexts; nothing is recorded into a buffer
\* that cannot be used
PrepareIso ==
    /\ pc = "iso"
    /\ \E b \in CreateDMABuffer(NoBuffer, Outcomes) :
          /\ iso' = [iso EXCEPT !.mapped = b.prepared]
          /\ pc' = IF b.usable THEN "program" ELSE "send"
    /\ UNCHANGED session

\* stops the contexts, points them at their programs and starts them, if the controller
\* has them at all
RunContexts ==
    /\ pc = "program"
    /\ \/ pc' = "record" /\ iso' = [iso EXCEPT !.running = TRUE]
       \/ pc' = "send" /\ iso' = [iso EXCEPT !.mapped = FALSE]
    /\ UNCHANGED session

\* what came in is summed up while the contexts go on
Record == pc = "record" /\ pc' = "halt" /\ UNCHANGED <<session, iso>>

\* the contexts are stopped before the buffer is unmapped
Halt ==
    /\ pc = "halt" /\ pc' = "send"
    /\ iso' = [mapped |-> FALSE, running |-> FALSE]
    /\ UNCHANGED session

IsoProbe == PrepareIso \/ RunContexts \/ Record \/ Halt

\* Mutant: the contexts are left running
LeaveContexts ==
    /\ pc = "stop" /\ pc' = "unmap"
    /\ UNCHANGED <<call, localRate, buffers, contexts, iso, sent, tx, rx, requests, answers, device>>

StopContexts ==
    /\ pc = "stop" /\ pc' = "unmap"
    /\ contexts' = "stopped" /\ sent' = None /\ tx' = "none" /\ rx' = None
    /\ UNCHANGED <<call, localRate, buffers, iso, requests, answers, device>>

\* a begin is followed by a finish when it failed, or the isochronous contexts did not start
CompleteMappings ==
    /\ pc = "unmap"
    /\ buffers' = [b \in DOMAIN buffers |-> CompleteDMABufferMapping(buffers[b])]
    /\ contexts' = Unmapped
    /\ \/ /\ call.kind = "begin" => call.ok
          /\ Return
       \/ /\ call.kind = "begin"
          /\ pc' = "prepare" /\ call' = Starting("finish")
    /\ UNCHANGED <<localRate, iso, sent, tx, rx, requests, answers, device>>

-----------------------------------------------------------------------------
(* The controller, the bus and the device.                                  *)

outside == <<pc, call, localRate, buffers, contexts, iso>>

\* the request is lost; or received, and the acknowledgement says that an answer follows,
\* or that none will (of a write), or is lost itself
Transmit(received, status) ==
    /\ contexts = "buffers" /\ tx = "queued"
    /\ received \/ status = "missing"
    /\ status = "complete" => sent.what.op = "write"
    /\ tx' = status
    /\ requests' = IF received
                   THEN Append(requests, [what |-> sent.what, label |-> sent.label,
                                          answered |-> status # "complete", age |-> 0])
                   ELSE requests
    /\ UNCHANGED <<outside, sent, rx, answers, device>>

\* the device executes a request, or refuses it
Execute(ok) ==
    /\ requests # <<>> /\ requests' = Tail(requests)
    /\ LET r == Head(requests)
       IN  /\ device' = IF ok /\ r.what.op = "write"
                        THEN [device EXCEPT ![r.what.reg] = r.what.value]
                        ELSE device
           /\ answers' = IF r.answered
                         THEN answers \cup {[op |-> r.what.op, label |-> r.label, ok |-> ok,
                                value |-> IF r.what.op = "read" THEN device[r.what.reg] ELSE 0,
                                age |-> r.age]}
                         ELSE answers
    /\ UNCHANGED <<outside, sent, tx, rx>>

\* an answer comes in, and is lost when the contexts do not run; the buffers keep the first
Arrive(answer) ==
    /\ answers' = answers \ {answer}
    /\ rx' = IF contexts = "buffers" /\ rx = None THEN answer ELSE rx
    /\ UNCHANGED <<outside, sent, tx, requests, device>>

DriverStep == Prepare \/ Send \/ Skip \/ Poll \/ GiveUp \/ IsoProbe \/ StopContexts \/ CompleteMappings

Outside ==
    \/ \E received \in BOOLEAN, status \in {"missing", "pending", "complete"} : Transmit(received, status)
    \/ \E ok \in BOOLEAN : Execute(ok)
    \/ \E a \in answers : Arrive(a)

Next == Begin \/ Capture \/ ChangeRate \/ DriverStep \/ Outside

\* only the driver's thread is certain to go on
Spec == Init /\ [][Next]_vars /\ WF_vars(DriverStep)

-----------------------------------------------------------------------------
(* What the calls promise.                                                  *)

Streaming == device = [rate |-> localRate, channels |-> Session, streaming |-> Streams]
Quiet == device.channels = 0 /\ device.streaming = AtRest

\* A call that reports success has brought the device where it says: after a begin, and
\* when the capture records, the device streams, at the rate and on the channels asked for,
\* after a finish it is at rest; whatever was lost, refused, attempted twice or answered late.
ReportedDone ==
    /\ pc = "stop" /\ call.ok => IF call.kind = "begin" THEN Streaming ELSE Quiet
    /\ pc \in {"iso", "program", "record", "halt"} => Streaming
    /\ pc = "unmap" /\ call.kind = "capture" /\ call.ok => Quiet

Exposed == contexts \in {"left", "released"}
AtFirstAttempt == call.step = FirstStep(call.kind) /\ call.attempt = 0

\* An answer, however late, finds the memory it is written to, but for one window, which a
\* capture opens by completing its mappings under running contexts (12438-12440): until the
\* first attempt of the next call stops them they run on what is no longer mapped, and from
\* that call's PrepareDigiAsyncTransactionBuffers on, on memory that was released.  No other
\* call opens the window, no second attempt and no finish meets it, and no recording runs
\* its isochronous contexts on a buffer that is not mapped.
OnBuffers ==
    /\ contexts = "buffers" => \A b \in DOMAIN buffers : buffers[b].prepared
    /\ pc = "unmap" /\ call.kind # "capture" => contexts = "stopped"
    /\ Exposed /\ pc # "idle" =>
          call.kind # "finish" /\ AtFirstAttempt /\ pc \in {"prepare", "send", "stop"}
    /\ iso.running => iso.mapped

\* A start that gets no answers still ends: no call waits for the device for ever.
CallsEnd == pc # "idle" ~> pc = "idle"
=============================================================================
