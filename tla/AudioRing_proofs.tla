--------------------------- MODULE AudioRing_proofs ---------------------------
(***************************************************************************)
(* Theorems about the PCM rings of AudioRing for every ring size: the types *)
(* are kept whatever the threads do, and if a reset never comes in the      *)
(* middle of a frame, the read cursor never passes the write cursor, even   *)
(* when the producer finds the ring full and drops frames that the consumer *)
(* is about to pop; and while it never finds the ring full, every frame is  *)
(* popped in its turn.                                                      *)
(***************************************************************************)
EXTENDS AudioRing, Integers, TLAPS

\* The data that no load or store may leave outside its type
DataTyped ==
    /\ read \in Nat /\ write \in Nat
    /\ appended \in Nat /\ popped \in Nat /\ dropped \in Nat /\ clears \in Nat
    /\ slots \in [0..(R - 1) -> Nat]
    /\ overrun \in BOOLEAN
    /\ loaded \in [{"producer", "consumer", "controller"} -> Nat]

\* Which step a thread may be at
ProducerSteps == {"idle", "loadRead", "drop", "copy", "loadWrite", "publish"}
ConsumerSteps == {"idle", "copy", "loadRead", "advance"}
ControllerSteps == {"idle", "clearRead", "dropTail"}

StepsTyped ==
    /\ producer \in ProducerSteps
    /\ consumer \in ConsumerSteps
    /\ controller \in ControllerSteps

Typed == DataTyped /\ StepsTyped

\* A slot number is one of the ring's: the array is never indexed outside.
LEMMA SlotInRing ==
    ASSUME NEW c \in Nat
    PROVE  c % R \in 0..(R - 1)
  BY RingAssumption

\* The initial state is typed: empty ring, idle threads.
LEMMA InitTyped == Init => Typed
<1> SUFFICES ASSUME Init PROVE Typed
  OBVIOUS
<1>1. overrun \in BOOLEAN
  BY Zenon DEF Init
<1>2. /\ slots \in [0..(R - 1) -> Nat]
      /\ loaded \in [{"producer", "consumer", "controller"} -> Nat]
  BY DEF Init
<1> QED
  BY <1>1, <1>2 DEF Init, Typed, DataTyped, StepsTyped, ProducerSteps, ConsumerSteps,
                    ControllerSteps

\* The steps of AppendPCMFrameToAudioOutputRing keep the types.
LEMMA AppendTyped == Typed /\ Append => Typed'
<1> SUFFICES ASSUME Typed, Append PROVE Typed'
  OBVIOUS
<1> USE DEF Typed, DataTyped, StepsTyped
<1>1. CASE BeginAppend
  BY <1>1 DEF BeginAppend, cursors, history, ProducerSteps
<1>2. CASE LoadReadToDrop
  BY <1>2 DEF LoadReadToDrop, cursors, history, ProducerSteps
<1>3. CASE DropOldest
  BY <1>3 DEF DropOldest, history, ProducerSteps
<1>4. CASE CopyIn
  <2>1. slots' \in [0..(R - 1) -> Nat]
    <3>1. slots' = [slots EXCEPT ![write % R] = appended + 1]
      BY <1>4 DEF CopyIn
    <3>2. appended + 1 \in Nat /\ slots \in [0..(R - 1) -> Nat]
      OBVIOUS
    <3> HIDE DEF Typed, DataTyped, StepsTyped
    <3> QED
      BY <3>1, <3>2, Zenon
  <2> QED
    BY <1>4, <2>1 DEF CopyIn, cursors, ProducerSteps
<1>5. CASE LoadWrite
  BY <1>5 DEF LoadWrite, cursors, history, ProducerSteps
<1>6. CASE Publish
  BY <1>6 DEF Publish, history, ProducerSteps
<1> QED
  BY <1>1, <1>2, <1>3, <1>4, <1>5, <1>6 DEF Append

\* The steps of PopAudioOutputRingFrame keep the types.
LEMMA PopTyped == Typed /\ Pop => Typed'
<1> SUFFICES ASSUME Typed, Pop PROVE Typed'
  OBVIOUS
<1> USE DEF Typed, DataTyped, StepsTyped
<1>1. CASE BeginPop
  BY <1>1 DEF BeginPop, cursors, history, ConsumerSteps
<1>2. CASE CopyOut
  <2>1. slots[read % R] \in Nat
    BY SlotInRing
  <2> QED
    BY <1>2, <2>1 DEF CopyOut, cursors, ConsumerSteps
<1>3. CASE LoadRead
  BY <1>3 DEF LoadRead, cursors, history, ConsumerSteps
<1>4. CASE Advance
  BY <1>4 DEF Advance, history, ConsumerSteps
<1> QED
  BY <1>1, <1>2, <1>3, <1>4 DEF Pop

\* The resets keep the types.
LEMMA ClearTyped == Typed /\ Clear => Typed'
<1> SUFFICES ASSUME Typed, Clear PROVE Typed'
  OBVIOUS
<1> USE DEF Typed, DataTyped, StepsTyped
<1>1. CASE ClearWrite
  BY <1>1 DEF ClearWrite, ControllerSteps
<1>2. CASE ClearRead
  BY <1>2 DEF ClearRead, history, ControllerSteps
<1>3. CASE LoadTail
  BY <1>3 DEF LoadTail, cursors, ControllerSteps
<1>4. CASE DropTail
  BY <1>4 DEF DropTail, history, ControllerSteps
<1> QED
  BY <1>1, <1>2, <1>3, <1>4 DEF Clear

\* Whatever the threads do, the types are kept.
LEMMA StepTyped == Typed /\ [Next]_vars => Typed'
<1> SUFFICES ASSUME Typed, [Next]_vars PROVE Typed'
  OBVIOUS
<1>1. CASE UNCHANGED vars
  BY <1>1 DEF vars, cursors, history, Typed, DataTyped, StepsTyped
<1>2. CASE Finished
  BY <1>1, <1>2 DEF Finished
<1> QED
  BY <1>1, <1>2, AppendTyped, PopTyped, ClearTyped DEF Next

\* No interleaving of the threads takes a cursor, a slot or a step outside its
\* type: a popped frame always comes from a slot of the ring's array.
THEOREM RingTypeCorrect == Spec => []TypeOK
<1>1. Typed => TypeOK
  BY DEF Typed, DataTyped, StepsTyped, TypeOK, ProducerSteps, ConsumerSteps,
         ControllerSteps, Steps
<1> QED
  BY <1>1, InitTyped, StepTyped, PTL DEF Spec

-----------------------------------------------------------------------------
(* The cursors, when a reset does not come in the middle of a frame.        *)

\* The producer has not claimed a slot yet; after that it may have moved the
\* read cursor past a write cursor it is still to publish
Unclaimed == producer \in {"idle", "loadRead", "drop"}

\* What is left in the ring at each step of the producer, which moves the read
\* cursor of a full ring by one before it publishes the new frame
ProducerBehind ==
    /\ Unclaimed => read <= write
    /\ ~Unclaimed => read <= write + 1
    /\ producer = "publish" => loaded["producer"] = write
    /\ producer = "drop" =>
        \/ loaded["producer"] < write
        \/ loaded["producer"] = write /\ read = write /\ consumer = "idle"
    /\ producer = "loadRead" /\ consumer # "idle" => read < write

\* The consumer's frame is still there when its cursor is moved on
ConsumerBehind ==
    /\ consumer \in {"copy", "loadRead"} =>
        IF Unclaimed THEN read < write ELSE read <= write
    /\ consumer = "advance" =>
        IF Unclaimed THEN loaded["consumer"] < write ELSE loaded["consumer"] <= write

\* A reset runs alone
ResetAlone ==
    /\ controller # "idle" => producer = "idle" /\ consumer = "idle"
    /\ controller = "clearRead" => write = 0
    /\ controller = "dropTail" => loaded["controller"] = write

CursorsInv ==
    /\ Typed
    /\ ResetAlone
    /\ controller = "idle" => ProducerBehind /\ ConsumerBehind

\* Empty and idle, the ring satisfies the invariant.
LEMMA InitCursors == Init => CursorsInv
  BY InitTyped DEF Init, CursorsInv, ResetAlone, ProducerBehind, ConsumerBehind,
                   Unclaimed

\* A full ring is not an empty one, which is why a producer that drops the
\* oldest frame never takes it from a consumer that saw none.
LEMMA FullIsNotEmpty ==
    ASSUME Typed, read <= write, Fill >= R
    PROVE  read < write
  BY RingAssumption DEF Fill, Typed, DataTyped

\* Appending a frame keeps the cursors in order.
LEMMA AppendKeepsCursors ==
    ASSUME ~ClearsMeetIO
    PROVE  CursorsInv /\ Append => CursorsInv'
<1> SUFFICES ASSUME CursorsInv, Append PROVE CursorsInv'
  OBVIOUS
<1>1. Typed /\ Typed'
  BY AppendTyped DEF CursorsInv
<1>2. controller = "idle" /\ controller' = "idle"
  BY DEF CursorsInv, ResetAlone, Append, BeginAppend, LoadReadToDrop, DropOldest,
         CopyIn, LoadWrite, Publish
<1>3. ResetAlone'
  BY <1>2 DEF ResetAlone
<1>4. ProducerBehind /\ ConsumerBehind
  BY <1>2 DEF CursorsInv
<1> SUFFICES ProducerBehind' /\ ConsumerBehind'
  BY <1>1, <1>3 DEF CursorsInv
<1> USE <1>1, <1>4 DEF ProducerBehind, ConsumerBehind, Unclaimed, Typed, DataTyped,
        StepsTyped, ProducerSteps, ConsumerSteps
<1>5. CASE BeginAppend
  BY <1>5, FullIsNotEmpty DEF BeginAppend, cursors, history
<1>6. CASE LoadReadToDrop
  BY <1>6 DEF LoadReadToDrop, cursors, history
<1>7. CASE DropOldest
  BY <1>7 DEF DropOldest, history
<1>8. CASE CopyIn
  BY <1>8 DEF CopyIn, cursors
<1>9. CASE LoadWrite
  BY <1>9 DEF LoadWrite, cursors, history
<1>10. CASE Publish
  BY <1>10 DEF Publish, history
<1> QED
  BY <1>5, <1>6, <1>7, <1>8, <1>9, <1>10 DEF Append

\* Popping a frame keeps the cursors in order.
LEMMA PopKeepsCursors ==
    ASSUME ~ClearsMeetIO
    PROVE  CursorsInv /\ Pop => CursorsInv'
<1> SUFFICES ASSUME CursorsInv, Pop PROVE CursorsInv'
  OBVIOUS
<1>1. Typed /\ Typed'
  BY PopTyped DEF CursorsInv
<1>2. controller = "idle" /\ controller' = "idle"
  BY DEF CursorsInv, ResetAlone, Pop, BeginPop, CopyOut, LoadRead, Advance
<1>3. ResetAlone'
  BY <1>2 DEF ResetAlone
<1>4. ProducerBehind /\ ConsumerBehind
  BY <1>2 DEF CursorsInv
<1> SUFFICES ProducerBehind' /\ ConsumerBehind'
  BY <1>1, <1>3 DEF CursorsInv
<1> USE <1>1, <1>4 DEF ProducerBehind, ConsumerBehind, Unclaimed, Typed, DataTyped,
        StepsTyped, ProducerSteps, ConsumerSteps
<1>5. CASE BeginPop
  BY <1>5 DEF BeginPop, cursors, history
<1>6. CASE CopyOut
  BY <1>6 DEF CopyOut, cursors
<1>7. CASE LoadRead
  BY <1>7 DEF LoadRead, cursors, history
<1>8. CASE Advance
  BY <1>8 DEF Advance, history
<1> QED
  BY <1>5, <1>6, <1>7, <1>8 DEF Pop

\* A reset that runs alone keeps the cursors in order.
LEMMA ClearKeepsCursors ==
    ASSUME ~ClearsMeetIO
    PROVE  CursorsInv /\ Clear => CursorsInv'
<1> SUFFICES ASSUME CursorsInv, Clear PROVE CursorsInv'
  OBVIOUS
<1>1. Typed /\ Typed'
  BY ClearTyped DEF CursorsInv
<1> USE <1>1 DEF CursorsInv, ResetAlone, ProducerBehind, ConsumerBehind, Unclaimed,
        Typed, DataTyped
<1>2. CASE ClearWrite
  BY <1>2 DEF ClearWrite, MayClear
<1>3. CASE ClearRead
  BY <1>3 DEF ClearRead, history
<1>4. CASE LoadTail
  BY <1>4 DEF LoadTail, MayClear, cursors
<1>5. CASE DropTail
  BY <1>5 DEF DropTail, history
<1> QED
  BY <1>2, <1>3, <1>4, <1>5 DEF Clear

\* The invariant is inductive as long as no reset comes in the middle of a frame.
LEMMA StepKeepsCursors ==
    ASSUME ~ClearsMeetIO
    PROVE  CursorsInv /\ [Next]_vars => CursorsInv'
<1> SUFFICES ASSUME CursorsInv, [Next]_vars PROVE CursorsInv'
  OBVIOUS
<1>1. CASE UNCHANGED vars
  BY <1>1 DEF vars, cursors, history, CursorsInv, Typed, DataTyped, StepsTyped,
              ResetAlone, ProducerBehind, ConsumerBehind, Unclaimed
<1>2. CASE Finished
  BY <1>1, <1>2 DEF Finished
<1> QED
  BY <1>1, <1>2, AppendKeepsCursors, PopKeepsCursors, ClearKeepsCursors DEF Next

\* The producer may drop frames under the consumer's hands, and the consumer may
\* then move the read cursor back: it still never passes the write cursor, so
\* the unsigned fill count never wraps.  Only a reset in the middle of a frame
\* can do that (a counterexample TLC finds with ClearsMeetIO).
THEOREM ReadStaysBehind ==
    ASSUME ~ClearsMeetIO
    PROVE  Spec => []ReadBehindWrite
<1>1. CursorsInv => ReadBehindWrite
  BY DEF CursorsInv, ProducerBehind, Unclaimed, Quiet, ReadBehindWrite
<1>2. CursorsInv /\ [Next]_vars => CursorsInv'
  BY StepKeepsCursors
<1> QED
  BY <1>1, <1>2, InitCursors, PTL DEF Spec
-----------------------------------------------------------------------------
(* The order of the frames, while the ring does not overrun.                *)

\* The frame after which the next one is due: the last one popped, or the last one that a
\* reset dropped
Last == IF popped < dropped THEN dropped ELSE popped

\* Where the next frame will be copied to, and from: the cursors, but for a frame that is
\* copied and not counted yet
Copied == IF producer \in {"loadWrite", "publish"} THEN write + 1 ELSE write
Taken == IF consumer \in {"loadRead", "advance"} THEN read + 1 ELSE read

\* The ring holds the last frames appended, in order, and the next one to be popped is the
\* one that is due.
Sequence ==
    /\ Last + Copied = appended + Taken
    /\ Taken <= write /\ Copied <= read + R
    /\ \A i \in Nat : read <= i /\ i < Copied => slots[i % R] + Copied = (appended + i) + 1

\* What the threads know at each step, if no frame has to be dropped
AtStep ==
    /\ Unclaimed => producer = "idle"
    /\ producer = "copy" => write < read + R
    /\ producer = "publish" => loaded["producer"] = write
    /\ consumer = "copy" => read < write
    /\ consumer = "advance" => loaded["consumer"] = read

\* A reset forgets everything that was appended before it
Forgotten == controller # "idle" => dropped = appended

InTurn ==
    /\ popped <= appended /\ dropped <= appended
    /\ AtStep /\ ResetAlone /\ Forgotten
    /\ controller = "idle" => Sequence

TurnInv == Typed /\ (~overrun => InTurn)

\* Frames less than a ring apart are in different slots.
LEMMA SlotsApart ==
    ASSUME NEW i \in Nat, NEW j \in Nat, i < j, j < i + R
    PROVE  i % R # j % R
<1> DEFINE p == i \div R
           q == j \div R
           a == i % R
           b == j % R
<1>1. R \in Nat \ {0}
  BY RingAssumption
<1>2. /\ i = R * p + a /\ a \in 0..(R - 1) /\ p \in Int
      /\ j = R * q + b /\ b \in 0..(R - 1) /\ q \in Int
  BY <1>1, Z3
<1> HIDE DEF p, q, a, b
<1> SUFFICES ASSUME a = b PROVE FALSE
  BY DEF a, b
<1>3. j - i = R * (q - p)
  BY <1>1, <1>2, Z3
<1>4. CASE q - p <= 0
  <2>1. R * (q - p) <= 0
    BY <1>1, <1>2, <1>4, Z3
  <2> QED
    BY <1>3, <2>1
<1>5. CASE q - p >= 1
  <2>1. R * (q - p) >= R
    BY <1>1, <1>2, <1>5, Z3
  <2> QED
    BY <1>1, <1>3, <2>1
<1> QED
  BY <1>2, <1>4, <1>5

\* Empty and idle, the ring is in order.
LEMMA InitTurn == Init => TurnInv
<1> SUFFICES ASSUME Init PROVE TurnInv
  OBVIOUS
<1>1. Typed
  BY InitTyped
<1>2. R \in Nat \ {0}
  BY RingAssumption
<1>3. AtStep /\ ResetAlone /\ Forgotten
  BY DEF Init, AtStep, ResetAlone, Forgotten, Unclaimed
<1>4. Sequence
  BY <1>2 DEF Init, Sequence, Last, Copied, Taken
<1> QED
  BY <1>1, <1>3, <1>4 DEF Init, TurnInv, InTurn

\* A ring that is not full has room for a frame.
LEMMA RoomLeft ==
    ASSUME Typed, read <= write, ~(Fill >= R)
    PROVE  write < read + R
  BY RingAssumption DEF Fill, Typed, DataTyped

\* A frame is appended behind the others, in a slot that none of them is in.
LEMMA AppendInTurn ==
    ASSUME ~ClearsMeetIO, TurnInv, Append, ~overrun'
    PROVE  InTurn'
<1>1. Typed /\ R \in Nat \ {0}
  BY RingAssumption DEF TurnInv
<1>2. ~overrun
  BY DEF Append, BeginAppend, LoadReadToDrop, DropOldest, CopyIn, LoadWrite, Publish, history
<1>3. InTurn
  BY <1>2 DEF TurnInv
<1>4. controller = "idle" /\ controller' = "idle" /\ Sequence
  BY <1>3 DEF InTurn, ResetAlone, Append, BeginAppend, LoadReadToDrop, DropOldest,
              CopyIn, LoadWrite, Publish
<1>5. ResetAlone' /\ Forgotten'
  BY <1>4 DEF ResetAlone, Forgotten
<1>6. producer \notin {"loadRead", "drop"}
  BY <1>3 DEF InTurn, AtStep, Unclaimed
<1> SUFFICES popped' <= appended' /\ dropped' <= appended' /\ AtStep' /\ Sequence'
  BY <1>5 DEF InTurn
<1>7. popped <= appended /\ dropped <= appended /\ AtStep
  BY <1>3 DEF InTurn
<1> USE <1>1, <1>4, <1>7 DEF Typed, DataTyped, StepsTyped
<1>8. CASE BeginAppend
  <2>1. read <= write
    BY DEF Sequence, Taken
  <2>2. write < read + R /\ producer' = "copy"
    <3>1. ~(Fill >= R)
      BY <1>8 DEF BeginAppend
    <3> QED
      BY <1>8, <2>1, <3>1, RoomLeft DEF BeginAppend
  <2>3. /\ producer = "idle"
        /\ UNCHANGED <<read, write, slots, consumer, loaded, appended, popped, dropped>>
    BY <1>8 DEF BeginAppend, cursors
  <2>4. AtStep'
    BY <2>2, <2>3 DEF AtStep, Unclaimed
  <2>5. Sequence'
    BY <2>2, <2>3 DEF Sequence, Last, Copied, Taken
  <2> QED
    BY <2>3, <2>4, <2>5
<1>9. CASE CopyIn
  <2>1. /\ producer = "copy" /\ producer' = "loadWrite"
        /\ slots' = [slots EXCEPT ![write % R] = appended + 1]
        /\ appended' = appended + 1
        /\ UNCHANGED <<read, write, consumer, loaded, popped, dropped>>
    BY <1>9 DEF CopyIn, cursors
  <2>2. AtStep'
    BY <2>1 DEF AtStep, Unclaimed
  <2>3. Copied = write /\ Copied' = write + 1 /\ Taken' = Taken /\ Last' = Last
    BY <2>1 DEF Copied, Taken, Last
  <2>4. write < read + R
    BY <2>1 DEF AtStep
  <2>5. ASSUME NEW i \in Nat, read' <= i, i < Copied'
        PROVE  slots'[i % R] + Copied' = (appended' + i) + 1
    <3>1. CASE i = write
      <4>1. slots'[i % R] = appended + 1
        <5>1. write % R \in 0..(R - 1)
          BY SlotInRing
        <5> QED
          BY <2>1, <3>1, <5>1, Zenon
      <4> QED
        BY <2>1, <2>3, <3>1, <4>1
    <3>2. CASE i # write
      <4>1. read <= i /\ i < write /\ write < i + R
        BY <2>1, <2>3, <2>4, <2>5, <3>2
      <4>2. i % R # write % R /\ i % R \in 0..(R - 1)
        BY <4>1, SlotsApart, SlotInRing
      <4>3. slots'[i % R] = slots[i % R]
        BY <2>1, <4>2, Zenon
      <4>4. slots[i % R] + Copied = (appended + i) + 1
        BY <2>3, <4>1 DEF Sequence
      <4> DEFINE frame == slots[i % R]
      <4>5. frame \in Nat /\ slots'[i % R] = frame /\ frame + Copied = (appended + i) + 1
        BY <4>2, <4>3, <4>4
      <4> HIDE DEF frame
      <4>6. frame + (write + 1) = ((appended + 1) + i) + 1
        BY <2>3, <4>5
      <4> QED
        BY <2>1, <2>3, <4>5, <4>6, Zenon
    <3> QED
      BY <3>1, <3>2
  <2>6. Last' + Copied' = appended' + Taken' /\ Taken' <= write' /\ Copied' <= read' + R
    <3>1. Last \in Nat /\ Taken \in Nat
      BY DEF Last, Taken
    <3> QED
      BY <2>1, <2>3, <2>4, <3>1 DEF Sequence
  <2>7. Sequence'
    BY <2>5, <2>6 DEF Sequence
  <2> QED
    BY <2>1, <2>2, <2>7
<1>10. CASE LoadWrite
  <2>1. /\ producer = "loadWrite" /\ producer' = "publish"
        /\ loaded' = [loaded EXCEPT !.producer = write]
        /\ UNCHANGED <<read, write, slots, consumer, appended, popped, dropped>>
    BY <1>10 DEF LoadWrite, cursors, history
  <2>2. AtStep'
    BY <2>1 DEF AtStep, Unclaimed
  <2>3. Sequence'
    BY <2>1 DEF Sequence, Last, Copied, Taken
  <2> QED
    BY <2>1, <2>2, <2>3
<1>11. CASE Publish
  <2>1. /\ producer = "publish" /\ producer' = "idle" /\ write' = write + 1
        /\ UNCHANGED <<read, slots, consumer, loaded, appended, popped, dropped>>
    BY <1>11 DEF Publish, history, AtStep
  <2>2. AtStep'
    BY <2>1 DEF AtStep, Unclaimed
  <2>3. Copied' = Copied /\ Last' = Last /\ Taken' = Taken
    BY <2>1 DEF Copied, Last, Taken
  <2>4. Sequence'
    <3>1. Taken \in Nat
      BY DEF Taken
    <3> QED
      BY <2>1, <2>3, <3>1 DEF Sequence
  <2> QED
    BY <2>1, <2>2, <2>4
<1> QED
  BY <1>6, <1>8, <1>9, <1>10, <1>11 DEF Append, LoadReadToDrop, DropOldest

\* The frame popped is the one that is due.
LEMMA FrameDue ==
    ASSUME Typed, InTurn, consumer = "copy"
    PROVE  slots[read % R] = Last + 1
<1>1. R \in Nat \ {0}
  BY RingAssumption
<1>2. controller = "idle" /\ Sequence /\ read < write
  BY DEF InTurn, ResetAlone, AtStep
<1>3. Taken = read /\ Copied >= write /\ Copied \in Nat
  BY <1>2 DEF Taken, Copied, Typed, DataTyped
<1>4. slots[read % R] + Copied = (appended + read) + 1
  BY <1>2, <1>3 DEF Sequence, Typed, DataTyped
<1>5. Last + Copied = appended + read
  BY <1>2, <1>3 DEF Sequence
<1>6. slots[read % R] \in Nat /\ Last \in Nat
  BY SlotInRing DEF Typed, DataTyped, Last
<1> QED
  BY <1>3, <1>4, <1>5, <1>6 DEF Typed, DataTyped

\* Popping keeps the order: the frame after the one popped is due next.
LEMMA PopInTurn ==
    ASSUME ~ClearsMeetIO, TurnInv, Pop, ~overrun'
    PROVE  InTurn'
<1>1. Typed /\ R \in Nat \ {0}
  BY RingAssumption DEF TurnInv
<1>2. ~overrun
  BY DEF Pop, BeginPop, CopyOut, LoadRead, Advance, history
<1>3. InTurn
  BY <1>2 DEF TurnInv
<1>4. controller = "idle" /\ controller' = "idle" /\ Sequence
  BY <1>3 DEF InTurn, ResetAlone, Pop, BeginPop, CopyOut, LoadRead, Advance
<1>5. ResetAlone' /\ Forgotten'
  BY <1>4 DEF ResetAlone, Forgotten
<1> SUFFICES popped' <= appended' /\ dropped' <= appended' /\ AtStep' /\ Sequence'
  BY <1>5 DEF InTurn
<1>6. popped <= appended /\ dropped <= appended /\ AtStep
  BY <1>3 DEF InTurn
<1> USE <1>1, <1>4, <1>6 DEF Typed, DataTyped, StepsTyped
<1>7. CASE BeginPop
  <2>1. /\ read < write /\ consumer = "idle" /\ consumer' = "copy"
        /\ UNCHANGED <<read, write, slots, producer, loaded, appended, popped, dropped>>
    BY <1>7 DEF BeginPop, cursors, history
  <2>2. AtStep'
    BY <2>1 DEF AtStep, Unclaimed
  <2>3. Sequence'
    BY <2>1 DEF Sequence, Last, Copied, Taken
  <2> QED
    BY <2>1, <2>2, <2>3
<1>8. CASE CopyOut
  <2>1. /\ consumer = "copy" /\ consumer' = "loadRead" /\ popped' = slots[read % R]
        /\ UNCHANGED <<read, write, slots, producer, loaded, appended, dropped>>
    BY <1>8 DEF CopyOut, cursors
  <2>2. popped' = Last + 1
    BY <1>3, <2>1, FrameDue
  <2>3. read < write /\ Copied >= write /\ Copied \in Nat /\ Taken = read /\ Last \in Nat
    BY <2>1 DEF AtStep, Copied, Taken, Last
  <2>4. Last' = Last + 1 /\ Taken' = read + 1 /\ Copied' = Copied
    BY <2>1, <2>2 DEF Last, Taken, Copied
  <2>5. Last + Copied = appended + read
    BY <2>3 DEF Sequence
  <2>6. popped' <= appended' /\ dropped' <= appended'
    BY <2>1, <2>2, <2>3, <2>5
  <2>7. AtStep'
    BY <2>1 DEF AtStep, Unclaimed
  <2>8. Last' + Copied' = appended' + Taken' /\ Taken' <= write' /\ Copied' <= read' + R
    BY <2>1, <2>3, <2>4, <2>5 DEF Sequence
  <2>9. \A i \in Nat : read' <= i /\ i < Copied' =>
            slots'[i % R] + Copied' = (appended' + i) + 1
    BY <2>1, <2>4, Zenon DEF Sequence
  <2>10. Sequence'
    BY <2>8, <2>9 DEF Sequence
  <2> QED
    BY <2>6, <2>7, <2>10
<1>9. CASE LoadRead
  <2>1. /\ consumer = "loadRead" /\ consumer' = "advance"
        /\ loaded' = [loaded EXCEPT !.consumer = read]
        /\ UNCHANGED <<read, write, slots, producer, appended, popped, dropped>>
    BY <1>9 DEF LoadRead, cursors, history
  <2>2. AtStep'
    BY <2>1 DEF AtStep, Unclaimed
  <2>3. Sequence'
    BY <2>1 DEF Sequence, Last, Copied, Taken
  <2> QED
    BY <2>1, <2>2, <2>3
<1>10. CASE Advance
  <2>1. /\ consumer = "advance" /\ consumer' = "idle" /\ read' = read + 1
        /\ UNCHANGED <<write, slots, producer, loaded, appended, popped, dropped>>
    BY <1>10 DEF Advance, history, AtStep
  <2>2. AtStep'
    BY <2>1 DEF AtStep, Unclaimed
  <2>3. Copied' = Copied /\ Last' = Last /\ Taken' = Taken /\ Taken \in Nat /\ Copied \in Nat
    BY <2>1 DEF Copied, Last, Taken
  <2>4. Last' + Copied' = appended' + Taken' /\ Taken' <= write' /\ Copied' <= read' + R
    BY <2>1, <2>3 DEF Sequence
  <2>5. ASSUME NEW i \in Nat, read' <= i, i < Copied'
        PROVE  slots'[i % R] + Copied' = (appended' + i) + 1
    <3>1. read <= i /\ i < Copied
      BY <2>1, <2>3, <2>5
    <3>2. slots[i % R] + Copied = (appended + i) + 1
      BY <3>1 DEF Sequence
    <3> QED
      BY <2>1, <2>3, <3>2, Zenon
  <2>6. Sequence'
    BY <2>4, <2>5 DEF Sequence
  <2> QED
    BY <2>1, <2>2, <2>6
<1> QED
  BY <1>7, <1>8, <1>9, <1>10 DEF Pop

\* A reset that runs alone leaves an empty ring, and the frame after those it dropped is
\* due next.
LEMMA ClearInTurn ==
    ASSUME ~ClearsMeetIO, TurnInv, Clear, ~overrun'
    PROVE  InTurn'
<1>1. Typed /\ R \in Nat \ {0}
  BY RingAssumption DEF TurnInv
<1>2. ~overrun
  BY DEF Clear, ClearWrite, ClearRead, LoadTail, DropTail, history
<1>3. InTurn
  BY <1>2 DEF TurnInv
<1>4. popped <= appended /\ dropped <= appended /\ AtStep /\ ResetAlone /\ Forgotten
  BY <1>3 DEF InTurn
<1>5. /\ producer = "idle" /\ consumer = "idle"
      /\ UNCHANGED <<producer, consumer, slots, appended, popped>>
  BY <1>4 DEF Clear, ClearWrite, ClearRead, LoadTail, DropTail, MayClear, ResetAlone,
              history, cursors
<1>6. AtStep'
  BY <1>5 DEF AtStep, Unclaimed
<1> USE <1>1, <1>4, <1>5 DEF Typed, DataTyped
<1>7. CASE ClearWrite \/ LoadTail
  <2>1. controller' # "idle" /\ dropped' = appended
    BY <1>7 DEF ClearWrite, LoadTail
  <2>2. ResetAlone'
    BY <1>7 DEF ClearWrite, LoadTail, ResetAlone, cursors
  <2> QED
    BY <1>6, <2>1, <2>2 DEF InTurn, Forgotten
<1>8. CASE ClearRead \/ DropTail
  <2>1. /\ controller' = "idle" /\ dropped = appended /\ dropped' = dropped
        /\ read' = write' /\ write' \in Nat
    BY <1>8 DEF ClearRead, DropTail, history, ResetAlone, Forgotten
  <2>2. Last' = appended
    BY <2>1 DEF Last
  <2>3. Copied' = write' /\ Taken' = write'
    BY <2>1 DEF Copied, Taken
  <2>4. Last' + Copied' = appended' + Taken' /\ Taken' <= write' /\ Copied' <= read' + R
    <3>1. Last' + Copied' = appended' + Taken'
      BY <1>5, <2>2, <2>3
    <3>2. Taken' <= write' /\ Copied' <= read' + R
      <4>1. ASSUME NEW w \in Nat PROVE w <= w /\ w <= w + R
        BY <1>1
      <4> QED
        BY <2>1, <2>3, <4>1, Zenon
    <3> QED
      BY <3>1, <3>2
  <2>5. \A i \in Nat : ~(read' <= i /\ i < Copied')
    BY <2>1, <2>3
  <2>6. Sequence'
    BY <2>4, <2>5, Zenon DEF Sequence
  <2> QED
    BY <1>6, <2>1, <2>6 DEF InTurn, ResetAlone, Forgotten
<1> QED
  BY <1>7, <1>8 DEF Clear

\* The invariant is inductive as long as no reset comes in the middle of a frame.
LEMMA StepInTurn ==
    ASSUME ~ClearsMeetIO
    PROVE  TurnInv /\ [Next]_vars => TurnInv'
<1> SUFFICES ASSUME TurnInv, [Next]_vars, ~overrun' PROVE InTurn'
  BY StepTyped DEF TurnInv
<1>1. CASE UNCHANGED vars
  BY <1>1 DEF vars, cursors, history, TurnInv, InTurn, AtStep, Unclaimed, ResetAlone,
              Forgotten, Sequence, Last, Copied, Taken
<1>2. CASE Finished
  BY <1>1, <1>2 DEF Finished
<1> QED
  BY <1>1, <1>2, AppendInTurn, PopInTurn, ClearInTurn DEF Next

\* The stream order of the ring, for every ring size and any number of frames and resets:
\* as long as the producer never found it full, the consumer is given the frames one after
\* the other, from slots that hold them still, and after a reset the first frame appended
\* since.
THEOREM InOrderHolds ==
    ASSUME ~ClearsMeetIO
    PROVE  Spec => InOrder
<1>1. TurnInv /\ [Next]_vars => TurnInv'
  BY StepInTurn
<1>2. TurnInv => [CopyOut /\ ~overrun =>
          popped' = (IF popped < dropped THEN dropped ELSE popped) + 1]_vars
  <2> SUFFICES ASSUME TurnInv, CopyOut, ~overrun PROVE popped' = Last + 1
    BY DEF Last
  <2> QED
    BY FrameDue DEF TurnInv, CopyOut
<1> QED
  BY <1>1, <1>2, InitTurn, PTL DEF Spec, InOrder
=============================================================================
