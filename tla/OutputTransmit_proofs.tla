------------------------ MODULE OutputTransmit_proofs ------------------------
(***************************************************************************)
(* For every size of the transmit ring and of the windows, however late the *)
(* worker comes and whether syncs fail or not: a push that is over before   *)
(* the context has sent a lead's worth of packets writes only into slots    *)
(* that are safely ahead of it.                                             *)
(*                                                                          *)
(* The invariant relates the locals of a push to the hardware: it started at*)
(* the cursor it read, the context has since moved by clock packets, and    *)
(* what is left to write ends before the safe end.                          *)
(*                                                                          *)
(* When the worker keeps up, the looping ring sends a packet again only after *)
(* a push withheld frames it had: whatever CoreAudio writes and whenever it  *)
(* stops, and also for packets of several sizes and syncs that fail.          *)
(***************************************************************************)
EXTENDS OutputTransmit, TLAPS

\* A remainder of a number below twice the modulus, the number in two parts
LEMMA ModTwice ==
    \A m \in Nat \ {0} : \A a \in 0..(2 * m - 1) :
        a % m = IF a < m THEN a ELSE a - m
<1> SUFFICES ASSUME NEW m \in Nat \ {0}, NEW a \in 0..(2 * m - 1)
             PROVE  a % m = IF a < m THEN a ELSE a - m
  OBVIOUS
<1> DEFINE q == a \div m
           r == a % m
<1>1. a = m * q + r /\ r \in 0..(m - 1) /\ q \in Int
  BY Z3
<1>2. CASE q <= -1
  <2>1. m * q <= -m
    BY <1>1, <1>2, Z3
  <2> QED
    BY <1>1, <2>1
<1>3. CASE q >= 2
  <2>1. m * q >= 2 * m
    BY <1>1, <1>3, Z3
  <2> QED
    BY <1>1, <2>1
<1>4. CASE q = 0
  BY <1>1, <1>4
<1>5. CASE q = 1
  BY <1>1, <1>5
<1> QED
  BY <1>1, <1>2, <1>3, <1>4, <1>5

\* Two slots d and k packets after a third are d - k packets apart.
LEMMA SlotDistance ==
    ASSUME NEW m \in Nat \ {0}, NEW c \in 0..(m - 1), NEW d \in 0..(m - 1), NEW k \in 0..d
    PROVE  (((c + d) % m) + m - ((c + k) % m)) % m = d - k
<1> DEFINE far == (c + d) % m
           near == (c + k) % m
<1>1. far = IF c + d < m THEN c + d ELSE (c + d) - m
  <2>1. c + d \in 0..(2 * m - 1)
    OBVIOUS
  <2> QED
    BY <2>1, ModTwice, Zenon
<1>2. near = IF c + k < m THEN c + k ELSE (c + k) - m
  <2>1. c + k \in 0..(2 * m - 1)
    OBVIOUS
  <2> QED
    BY <2>1, ModTwice, Zenon
<1> HIDE DEF far, near
<1> DEFINE apart == far + m - near
<1>3. apart = d - k \/ apart = d - k + m
  BY <1>1, <1>2
<1>4. apart \in 0..(2 * m - 1) /\ apart = (IF apart < m THEN d - k ELSE (d - k) + m)
  BY <1>3
<1> HIDE DEF apart
<1>5. apart % m = IF apart < m THEN apart ELSE apart - m
  BY <1>4, ModTwice, Zenon
<1>6. apart % m = d - k
  BY <1>4, <1>5
<1> QED
  BY <1>6 DEF apart, far, near

\* The context sends its packets one after the other.
LEMMA NextPacket ==
    ASSUME NEW m \in Nat \ {0}, NEW c \in 0..(m - 1), NEW k \in 0..(m - 2)
    PROVE  (((c + k) % m) + 1) % m = (c + (k + 1)) % m
<1> DEFINE here == (c + k) % m
           sum == c + (k + 1)
<1>1. c + k \in 0..(2 * m - 1)
  OBVIOUS
<1>2. here = IF c + k < m THEN c + k ELSE (c + k) - m
  BY <1>1, ModTwice, Zenon
<1>3. sum \in 0..(2 * m - 1) /\ sum = (c + k) + 1
  OBVIOUS
<1> HIDE DEF here, sum
<1> DEFINE after == here + 1
<1>4. after \in 0..(2 * m - 1)
  BY <1>2
<1>5. after = IF c + k < m THEN sum ELSE sum - m
  BY <1>2, <1>3
<1> HIDE DEF after
<1>6. after % m = IF after < m THEN after ELSE after - m
  BY <1>4, ModTwice, Zenon
<1>7. sum % m = IF sum < m THEN sum ELSE sum - m
  BY <1>3, ModTwice, Zenon
<1>8. after % m = sum % m
  BY <1>3, <1>4, <1>5, <1>6, <1>7
<1> QED
  BY <1>8 DEF after, here, sum

\* What a push may rely on: the ring of slots, the cursors and its locals
Typed ==
    /\ hw \in Slots /\ current \in Slots
    /\ ahead \in Int /\ laps \in Nat /\ pointerValid \in BOOLEAN /\ clock \in Nat
    /\ readFrame \in Nat /\ writeFrame \in Nat
    /\ prebuffered \in BOOLEAN
    /\ slots = [s \in Slots |-> slots[s]]
    /\ pc \in {"idle", "write"}
    /\ plan \in [audio : BOOLEAN, budget : Int, left : Nat, offset : Nat]

\* A push started at the slot it read, and ends before the safe end
InWindow ==
    pc = "write" =>
        /\ Lead <= ahead /\ ahead + plan.offset + plan.left <= N - Lead
        /\ clock <= PushTime
        /\ hw = (current + clock) % N

WindowInv == Typed /\ InWindow

\* The assumptions on the constants, one by one
LEMMA Sizes ==
    /\ N \in Nat \ {0} /\ Lead \in Nat \ {0} /\ MaxPackets \in Nat /\ 2 * Lead < N
    /\ ServiceAhead \in Nat /\ SilenceAhead \in Nat
    /\ Frames \in Nat \ {0}
    /\ Service \in Nat /\ PushTime \in Nat /\ PushTime <= Lead /\ PushTime <= Service
<1>1. /\ N \in Nat \ {0} /\ Lead \in Nat \ {0} /\ MaxPackets \in Nat /\ 2 * Lead < N
      /\ ServiceAhead \in Nat /\ SilenceAhead \in Nat
  BY TransmitRingAssumption
<1>2. Frames \in Nat \ {0}
  BY OutputRingAssumption
<1>3. Service \in Nat /\ PushTime \in Nat /\ PushTime <= Lead /\ PushTime <= Service
  BY TimingAssumption
<1> QED
  BY <1>1, <1>2, <1>3

\* The remainders of the model are slots and frame numbers.
LEMMA Remainders ==
    /\ \A a \in Int : a % N \in Slots
    /\ \A a \in Int : a % Frames \in Nat
<1>1. \A m \in Nat \ {0} : \A a \in Int : a % m \in 0..(m - 1)
  BY Z3
<1>2. \A a \in Int : a % N \in Slots
  BY <1>1, Sizes, Zenon DEF Slots
<1>3. \A a \in Int : a % Frames \in 0..(Frames - 1)
  BY <1>1, Sizes, Zenon
<1>4. 0..(Frames - 1) \subseteq Nat
  BY Sizes
<1> QED
  BY <1>2, <1>3, <1>4

\* The hardware has not moved yet when a push begins.
LEMMA NoDistance == \A s \in Slots : (s + 0) % N = s
<1> SUFFICES ASSUME NEW s \in Slots PROVE (s + 0) % N = s
  OBVIOUS
<1> DEFINE there == s + 0
<1>1. there = s /\ there \in 0..(2 * N - 1) /\ there < N
  BY Sizes DEF Slots
<1> HIDE DEF there
<1>2. there % N = IF there < N THEN there ELSE there - N
  BY <1>1, ModTwice, Sizes, Zenon
<1>3. there % N = s
  BY <1>1, <1>2
<1> QED
  BY <1>3 DEF there

\* Nothing is in progress at the beginning.
LEMMA InitInWindow == Init => WindowInv
<1> SUFFICES ASSUME Init PROVE WindowInv
  OBVIOUS
<1>1. Idle \in [audio : BOOLEAN, budget : Int, left : Nat, offset : Nat]
  BY DEF Idle
<1>2. 0 \in Slots
  BY Sizes DEF Slots
<1>3. slots = [s \in Slots |-> slots[s]]
  BY DEF Init
<1> QED
  BY <1>1, <1>2, <1>3 DEF Init, WindowInv, Typed, InWindow

\* A push that goes on to write starts behind the lead and ends before the safe end.
LEMMA BeginKeeps == WindowInv /\ BeginPush => WindowInv'
<1> SUFFICES ASSUME WindowInv, BeginPush PROVE WindowInv'
  OBVIOUS
<1> DEFINE fill == AudioOutputRingFillFrames
           playing == Playing(fill)
           starts == playing /\ ~prebuffered
           start == StartCursor(OutputDistance, starts)
           end == TargetEndCursor(playing)
           budget == IF playing THEN fill ELSE 0
           left == Smaller(end - start, MaxPackets)
<1>1. /\ prebuffered' = playing /\ current' = hw /\ ahead' = start /\ clock' = 0
      /\ laps' = LapsRead /\ pointerValid' = TRUE
      /\ UNCHANGED <<hw, slots, readFrame, writeFrame>>
  BY DEF BeginPush, ring
<1>2. fill \in Int /\ AdvancedPackets \in Int
  <2>1. \A a \in Int : a % Frames \in Int /\ a % N \in Int
    BY Remainders, Sizes DEF Slots
  <2>2. writeFrame + Frames - readFrame \in Int /\ hw + N - current \in Int
    <3>1. /\ writeFrame \in Nat /\ readFrame \in Nat
          /\ hw \in 0..(N - 1) /\ current \in 0..(N - 1)
      BY DEF WindowInv, Typed, Slots
    <3> QED
      BY <3>1, Sizes
  <2> QED
    BY <2>1, <2>2, Zenon DEF AudioOutputRingFillFrames, AdvancedPackets
<1>3. start \in Int /\ Lead <= start
  <2>1. OutputDistance \in Int
    <3>1. /\ ahead \in Int /\ laps \in Nat /\ hw \in 0..(N - 1) /\ current \in 0..(N - 1)
      BY DEF WindowInv, Typed, Slots
    <3> DEFINE lap == laps * N
    <3>2. lap \in Int
      BY <3>1, Sizes
    <3>3. OutputDistance = IF pointerValid THEN ahead - AdvancedPackets ELSE lap + current + ahead - hw
      BY DEF OutputDistance
    <3> HIDE DEF lap
    <3> QED
      BY <1>2, <3>1, <3>2, <3>3
  <2> QED
    BY <2>1, Sizes DEF StartCursor
<1>13. laps' \in Nat /\ pointerValid' \in BOOLEAN
  <2>1. laps \in Nat /\ MaxLaps \in Nat
    BY TimingAssumption DEF WindowInv, Typed
  <2> QED
    BY <1>1, <2>1 DEF LapsRead, Smaller
<1>4. end \in Int /\ end <= N - Lead
  BY Sizes DEF TargetEndCursor, Smaller
<1>5. playing \in BOOLEAN
  BY DEF Playing, WindowInv, Typed
<1>6. CASE start < end
  <2>1. /\ pc' = "write"
        /\ plan' = [audio |-> playing, budget |-> budget, left |-> left, offset |-> 0]
    BY <1>6 DEF BeginPush
  <2>2. left \in Nat /\ left <= end - start
    <3>1. \A a, b \in Nat : Smaller(a, b) \in Nat /\ Smaller(a, b) <= a
      BY DEF Smaller
    <3>2. end - start \in Nat
      <4> HIDE DEF start, end
      <4> QED
        BY <1>3, <1>4, <1>6
    <3> QED
      BY <3>1, <3>2, Sizes, Zenon
  <2>3. budget \in Int
    BY <1>2
  <2> HIDE DEF fill, playing, start, end, budget, left
  <2>4. plan' \in [audio : BOOLEAN, budget : Int, left : Nat, offset : Nat]
    BY <1>5, <2>1, <2>2, <2>3
  <2>5. Typed'
    BY <1>1, <1>3, <1>13, <1>5, <2>1, <2>4 DEF WindowInv, Typed
  <2>6. hw' = (current' + clock') % N
    <3>1. (hw + 0) % N = hw
      BY NoDistance DEF WindowInv, Typed
    <3> QED
      BY <1>1, <3>1, Zenon
  <2>7. plan'.left = left /\ plan'.offset = 0
    BY <2>1
  <2>8. /\ ahead' + plan'.offset + plan'.left <= N - Lead
        /\ Lead <= ahead' /\ clock' <= PushTime
    BY <1>1, <1>3, <1>4, <2>2, <2>7, Sizes
  <2> QED
    BY <2>5, <2>6, <2>8 DEF WindowInv, InWindow
<1>7. CASE ~(start < end)
  <2>1. UNCHANGED <<pc, plan>> /\ pc = "idle"
    BY <1>7 DEF BeginPush
  <2> HIDE DEF fill, playing, start, end
  <2>2. Typed' /\ pc' # "write"
    BY <1>1, <1>3, <1>13, <1>5, <2>1 DEF WindowInv, Typed
  <2> QED
    BY <2>2 DEF WindowInv, InWindow
<1> QED
  BY <1>6, <1>7

\* The context moves under a push, but no further than a push takes.
LEMMA TransmitKeeps == WindowInv /\ Transmit => WindowInv'
<1> SUFFICES ASSUME WindowInv, Transmit PROVE WindowInv'
  OBVIOUS
<1>1. /\ hw' = (hw + 1) % N /\ clock' = Smaller(clock + 1, Service)
      /\ UNCHANGED <<slots, readFrame, writeFrame, prebuffered, current, laps, pointerValid, ahead, pc, plan>>
  BY DEF Transmit, ring, cursor
<1>2. hw' \in Slots
  <2>1. hw \in 0..(N - 1)
    BY DEF WindowInv, Typed, Slots
  <2>2. hw + 1 \in Int
    BY <2>1, Sizes
  <2> QED
    BY <1>1, <2>2, Remainders, Zenon
<1>3. clock' \in Nat
  BY <1>1, Sizes DEF WindowInv, Typed, Smaller
<1>4. Typed'
  BY <1>1, <1>2, <1>3 DEF WindowInv, Typed
<1>5. ASSUME pc = "write" PROVE clock' <= PushTime /\ hw' = (current' + clock') % N
  <2>1. clock < PushTime
    BY <1>5 DEF Transmit, InTime
  <2>2. clock' = clock + 1 /\ clock \in 0..(N - 2)
    BY <1>1, <2>1, Sizes DEF WindowInv, Typed, Smaller
  <2>3. hw = (current + clock) % N /\ current \in 0..(N - 1)
    BY <1>5 DEF WindowInv, Typed, InWindow, Slots
  <2>4. (((current + clock) % N) + 1) % N = (current + (clock + 1)) % N
    BY <2>2, <2>3, Sizes, NextPacket, Zenon
  <2>5. hw' = (current + (clock + 1)) % N
    BY <1>1, <2>3, <2>4, Zenon
  <2>6. hw' = (current' + clock') % N
    BY <1>1, <2>2, <2>5, Zenon
  <2>7. clock' <= PushTime
    BY <2>1, <2>2, Sizes
  <2> QED
    BY <2>6, <2>7
<1>6. InWindow'
  BY <1>1, <1>5 DEF WindowInv, InWindow
<1> QED
  BY <1>4, <1>6 DEF WindowInv

\* CoreAudio only moves the write cursor.
LEMMA AppendKeeps == WindowInv /\ AppendAudioOutputBufferToRing => WindowInv'
<1> SUFFICES ASSUME WindowInv, AppendAudioOutputBufferToRing PROVE WindowInv'
  OBVIOUS
<1>1. UNCHANGED <<hw, slots, readFrame, prebuffered, current, laps, pointerValid, ahead, pc, plan, clock>>
  BY DEF AppendAudioOutputBufferToRing, cursor
<1>2. writeFrame' \in Nat
  <2>1. PICK k \in Chunks : writeFrame' = (writeFrame + k) % Frames
    BY DEF AppendAudioOutputBufferToRing
  <2>2. writeFrame + k \in Int
    BY OutputRingAssumption DEF WindowInv, Typed
  <2> QED
    BY <2>1, <2>2, Remainders, Zenon
<1> QED
  BY <1>1, <1>2 DEF WindowInv, Typed, InWindow

\* A written packet moves the end of the push no further.
LEMMA WriteKeeps == WindowInv /\ WritePacket => WindowInv'
<1> SUFFICES ASSUME WindowInv, WritePacket PROVE WindowInv'
  OBVIOUS
<1>1. /\ pc = "write" /\ plan.left > 0
      /\ UNCHANGED <<hw, writeFrame, prebuffered, current, laps, pointerValid, ahead, pc, clock>>
  BY DEF WritePacket, cursor
<1>2. NextSlot \in Slots /\ Blocks[NextSlot] \in Nat
  <2>1. current + ahead + plan.offset \in Int
    BY DEF WindowInv, Typed, Slots
  <2>2. NextSlot \in Slots
    BY <2>1, Remainders, Zenon DEF NextSlot
  <2> QED
    BY <2>2, TransmitRingAssumption
<1>3. slots' = [s \in Slots |-> slots'[s]]
  BY DEF WritePacket, WindowInv, Typed
<1>4. readFrame' \in Nat
  <2>1. readFrame + Smaller(Blocks[NextSlot], AudioOutputRingFillFrames) \in Int
    <3>1. writeFrame + Frames - readFrame \in Int
      BY Sizes DEF WindowInv, Typed
    <3>2. AudioOutputRingFillFrames \in Nat
      BY <3>1, Remainders, Zenon DEF AudioOutputRingFillFrames
    <3> QED
      BY <1>2, <3>2 DEF Smaller, WindowInv, Typed
  <2>2. PopAudioOutputRingFrames(Blocks[NextSlot]) \in Nat
    BY <2>1, Remainders, Zenon DEF PopAudioOutputRingFrames
  <2> QED
    BY <2>2 DEF WritePacket, WindowInv, Typed
<1>5. /\ plan'.left = plan.left - 1 /\ plan'.offset = plan.offset + 1
      /\ plan' \in [audio : BOOLEAN, budget : Int, left : Nat, offset : Nat]
  <2>1. \/ plan' = [plan EXCEPT !.left = @ - 1, !.offset = @ + 1, !.budget = @ - Blocks[NextSlot]]
        \/ plan' = [plan EXCEPT !.left = @ - 1, !.offset = @ + 1]
    BY DEF WritePacket
  <2>2. plan \in [audio : BOOLEAN, budget : Int, left : Nat, offset : Nat]
    BY DEF WindowInv, Typed
  <2> DEFINE blocks == Blocks[NextSlot]
  <2>3. blocks \in Nat
    BY <1>2
  <2> HIDE DEF blocks
  <2>4. \/ plan' = [audio |-> plan.audio, budget |-> plan.budget - blocks,
                    left |-> plan.left - 1, offset |-> plan.offset + 1]
        \/ plan' = [audio |-> plan.audio, budget |-> plan.budget,
                    left |-> plan.left - 1, offset |-> plan.offset + 1]
    <3>1. CASE plan' = [plan EXCEPT !.left = @ - 1, !.offset = @ + 1, !.budget = @ - blocks]
      BY <2>2, <3>1
    <3>2. CASE plan' = [plan EXCEPT !.left = @ - 1, !.offset = @ + 1]
      BY <2>2, <3>2
    <3> QED
      BY <2>1, <3>1, <3>2 DEF blocks
  <2>5. /\ plan.audio \in BOOLEAN /\ plan.budget \in Int /\ plan.budget - blocks \in Int
        /\ plan.left - 1 \in Nat /\ plan.offset + 1 \in Nat
    BY <1>1, <2>2, <2>3
  <2>6. plan'.left = plan.left - 1 /\ plan'.offset = plan.offset + 1
    BY <2>4
  <2> QED
    BY <2>4, <2>5, <2>6
<1>6. Typed'
  BY <1>1, <1>3, <1>4, <1>5 DEF WindowInv, Typed
<1>7. InWindow'
  <2>1. plan \in [audio : BOOLEAN, budget : Int, left : Nat, offset : Nat] /\ ahead \in Int
    BY DEF WindowInv, Typed
  <2>2. /\ Lead <= ahead /\ ahead + plan.offset + plan.left <= N - Lead
        /\ clock <= PushTime /\ hw = (current + clock) % N
    BY <1>1 DEF WindowInv, InWindow
  <2>3. ahead' + plan'.offset + plan'.left = ahead + plan.offset + plan.left
    BY <1>1, <1>5, <2>1
  <2> QED
    BY <1>1, <2>2, <2>3 DEF InWindow
<1> QED
  BY <1>6, <1>7 DEF WindowInv

\* The end of a push leaves no push behind.
LEMMA EndKeeps == WindowInv /\ EndPush => WindowInv'
<1> SUFFICES ASSUME WindowInv, EndPush PROVE WindowInv'
  OBVIOUS
<1>1. /\ pc' = "idle" /\ plan' = Idle
      /\ UNCHANGED <<hw, slots, readFrame, writeFrame, prebuffered, current, laps, pointerValid, clock>>
  BY DEF EndPush, ring
<1>2. ahead' \in Int
  BY DEF EndPush, WindowInv, Typed
<1>3. Idle \in [audio : BOOLEAN, budget : Int, left : Nat, offset : Nat]
  BY DEF Idle
<1>4. Typed' /\ pc' # "write"
  BY <1>1, <1>2, <1>3 DEF WindowInv, Typed
<1> QED
  BY <1>4 DEF WindowInv, InWindow

\* A push without a command pointer writes nothing.
LEMMA BlindKeeps == WindowInv /\ BeginPushBlind => WindowInv'
<1> SUFFICES ASSUME WindowInv, BeginPushBlind PROVE WindowInv'
  OBVIOUS
<1>1. /\ pc = "idle" /\ prebuffered' = Playing(AudioOutputRingFillFrames)
      /\ pointerValid' = FALSE /\ clock' = 0
      /\ UNCHANGED <<hw, slots, readFrame, writeFrame, current, laps, ahead, pc, plan>>
  BY DEF BeginPushBlind, ring
<1>2. prebuffered' \in BOOLEAN
  BY <1>1 DEF Playing, WindowInv, Typed
<1> QED
  BY <1>1, <1>2 DEF WindowInv, Typed, InWindow

\* A step that changes nothing keeps the invariant.
LEMMA StutterKeeps == WindowInv /\ UNCHANGED vars => WindowInv'
  BY DEF WindowInv, Typed, InWindow, vars, ring, cursor

\* The invariant is inductive.
LEMMA WindowInductive == Spec => []WindowInv
<1>1. WindowInv /\ [Next]_vars => WindowInv'
  BY BeginKeeps, BlindKeeps, TransmitKeeps, AppendKeeps, WriteKeeps, EndKeeps, StutterKeeps DEF Next
<1> QED
  BY <1>1, InitInWindow, PTL DEF Spec

\* Only a push writes, and only into its next slot.
LEMMA OnlyNextSlotChanges ==
    ASSUME WindowInv, [Next]_vars, NEW s \in Slots, slots'[s] # slots[s]
    PROVE  pc = "write" /\ plan.left > 0 /\ s = NextSlot
<1>1. CASE WritePacket
  <2>1. pc = "write" /\ plan.left > 0
    BY <1>1 DEF WritePacket
  <2>2. PICK packet : slots' = [slots EXCEPT ![NextSlot] = packet]
    BY <1>1 DEF WritePacket
  <2>3. s = NextSlot
    <3> HIDE DEF NextSlot
    <3> QED
      BY <2>2 DEF WindowInv, Typed
  <2> QED
    BY <2>1, <2>3
<1>2. CASE UNCHANGED slots
  BY <1>2
<1> QED
  BY <1>1, <1>2 DEF Next, Transmit, AppendAudioOutputBufferToRing, BeginPush, BeginPushBlind, EndPush, vars

\* The slot a push writes next is as far from the hardware as the push has left it.
LEMMA NextSlotDistance ==
    ASSUME WindowInv, pc = "write", plan.left > 0
    PROVE  (NextSlot + N - hw) % N = (ahead + plan.offset) - clock
<1> DEFINE far == ahead + plan.offset
<1>1. plan \in [audio : BOOLEAN, budget : Int, left : Nat, offset : Nat]
      /\ ahead \in Int /\ clock \in Nat /\ current \in 0..(N - 1)
  BY DEF WindowInv, Typed, Slots
<1>2. /\ Lead <= ahead /\ ahead + plan.offset + plan.left <= N - Lead
      /\ clock <= PushTime /\ hw = (current + clock) % N
  BY DEF WindowInv, InWindow
<1>3. far \in 0..(N - 1) /\ clock \in 0..far /\ current + ahead + plan.offset = current + far
  BY <1>1, <1>2, Sizes
<1>4. NextSlot = (current + far) % N
  BY <1>3, Zenon DEF NextSlot
<1> HIDE DEF far
<1>5. (((current + far) % N) + N - ((current + clock) % N)) % N = far - clock
  BY <1>1, <1>3, Sizes, SlotDistance, Zenon
<1> QED
  BY <1>2, <1>4, <1>5, Zenon DEF far

\* No packet is written into the slots the controller is about to send, nor
\* beyond the safe end, for every ring, window and lateness of the worker.
THEOREM WindowHolds == Spec => WindowRespected
<1>1. ASSUME WindowInv, [Next]_vars, NEW s \in Slots, slots'[s] # slots[s]
      PROVE  (s + N - hw) % N \in (Lead - PushTime)..(N - Lead)
  <2>1. pc = "write" /\ plan.left > 0 /\ s = NextSlot
    BY <1>1, OnlyNextSlotChanges
  <2>2. (s + N - hw) % N = (ahead + plan.offset) - clock
    BY <1>1, <2>1, NextSlotDistance
  <2>3. /\ plan \in [audio : BOOLEAN, budget : Int, left : Nat, offset : Nat]
        /\ ahead \in Int /\ clock \in Nat
    BY <1>1 DEF WindowInv, Typed
  <2>4. /\ Lead <= ahead /\ ahead + plan.offset + plan.left <= N - Lead
        /\ clock <= PushTime
    BY <1>1, <2>1 DEF WindowInv, InWindow
  <2>5. (ahead + plan.offset) - clock \in (Lead - PushTime)..(N - Lead)
    BY <2>1, <2>3, <2>4, Sizes
  <2> QED
    BY <2>2, <2>5, Zenon
<1>2. WindowInv /\ [Next]_vars =>
        [\A s \in Slots : slots'[s] # slots[s] =>
            (s + N - hw) % N \in (Lead - PushTime)..(N - Lead)]_vars
  BY <1>1
<1> QED
  BY <1>2, WindowInductive, PTL DEF Spec, WindowRespected

-----------------------------------------------------------------------------
(* What the looping ring sends                                              *)

\* Distances of frame numbers
Dist(a, b) == (a + Frames - b) % Frames
FrameNumbers == 0..(Frames - 1)

\* A distance is the difference, or what is left of a lap.
LEMMA DistValue ==
    ASSUME NEW a \in FrameNumbers, NEW b \in FrameNumbers
    PROVE  /\ Dist(a, b) = IF a >= b THEN a - b ELSE a + Frames - b
           /\ Dist(a, b) \in FrameNumbers
<1>1. Frames \in Nat \ {0}
  BY Sizes
<1> DEFINE x == a + Frames - b
<1>2. x \in 0..(2 * Frames - 1) /\ x = (IF a >= b THEN (a - b) + Frames ELSE x) /\ x = a + Frames - b
  BY <1>1 DEF FrameNumbers
<1>3. x < Frames <=> a < b
  BY <1>1 DEF FrameNumbers
<1> HIDE DEF x
<1>4. x % Frames = IF x < Frames THEN x ELSE x - Frames
  BY <1>1, <1>2, ModTwice, Zenon
<1>5. Dist(a, b) = x % Frames
  BY DEF Dist, x
<1> QED
  BY <1>1, <1>2, <1>3, <1>4, <1>5 DEF FrameNumbers

\* The number k frames further on
LEMMA FrameAfter ==
    ASSUME NEW a \in FrameNumbers, NEW k \in FrameNumbers
    PROVE  /\ (a + k) % Frames = IF a + k < Frames THEN a + k ELSE (a + k) - Frames
           /\ (a + k) % Frames \in FrameNumbers
<1>1. Frames \in Nat \ {0}
  BY Sizes
<1>2. a + k \in 0..(2 * Frames - 1)
  BY <1>1 DEF FrameNumbers
<1>3. (a + k) % Frames = IF a + k < Frames THEN a + k ELSE (a + k) - Frames
  BY <1>1, <1>2, ModTwice, Zenon
<1> QED
  BY <1>1, <1>2, <1>3 DEF FrameNumbers

\* k more frames are appended, or k fewer are left.
LEMMA DistMoves ==
    ASSUME NEW a \in FrameNumbers, NEW b \in FrameNumbers, NEW k \in FrameNumbers
    PROVE  /\ Dist(a, b) + k < Frames => Dist((a + k) % Frames, b) = Dist(a, b) + k
           /\ k <= Dist(a, b) => Dist(a, (b + k) % Frames) = Dist(a, b) - k
           /\ Dist((a + k) % Frames, a) = k
           /\ Dist(a, a) = 0
<1>1. Frames \in Nat \ {0}
  BY Sizes
<1> DEFINE x == (a + k) % Frames
           y == (b + k) % Frames
<1>2. /\ x = (IF a + k < Frames THEN a + k ELSE (a + k) - Frames) /\ x \in FrameNumbers
      /\ y = (IF b + k < Frames THEN b + k ELSE (b + k) - Frames) /\ y \in FrameNumbers
  BY FrameAfter
<1> HIDE DEF x, y
<1>3. /\ Dist(x, b) = IF x >= b THEN x - b ELSE x + Frames - b
      /\ Dist(a, y) = IF a >= y THEN a - y ELSE a + Frames - y
      /\ Dist(x, a) = IF x >= a THEN x - a ELSE x + Frames - a
      /\ Dist(a, b) = IF a >= b THEN a - b ELSE a + Frames - b
      /\ Dist(a, a) = IF a >= a THEN a - a ELSE a + Frames - a
  BY <1>2, DistValue
<1>4. Dist(a, b) + k < Frames => Dist(x, b) = Dist(a, b) + k
  BY <1>1, <1>2, <1>3 DEF FrameNumbers
<1>5. k <= Dist(a, b) => Dist(a, y) = Dist(a, b) - k
  BY <1>1, <1>2, <1>3 DEF FrameNumbers
<1>6. Dist(x, a) = k /\ Dist(a, a) = 0
  BY <1>1, <1>2, <1>3 DEF FrameNumbers
<1> QED
  BY <1>4, <1>5, <1>6 DEF x, y

\* k slots beyond the one that is j beyond c
LEMMA SlotAfter ==
    ASSUME NEW m \in Nat \ {0}, NEW c \in 0..(m - 1), NEW j \in 0..m, NEW k \in 0..m, j + k < 2 * m - c
    PROVE  (((c + j) % m) + k) % m = (c + (j + k)) % m
<1> DEFINE here == (c + j) % m
           sum == c + (j + k)
           after == here + k
<1>1. c + j \in 0..(2 * m - 1)
  OBVIOUS
<1>2. here = IF c + j < m THEN c + j ELSE (c + j) - m
  BY <1>1, ModTwice, Zenon
<1>3. sum \in 0..(2 * m - 1) /\ sum = (c + j) + k
  OBVIOUS
<1>4. after = here + k
  OBVIOUS
<1> HIDE DEF here, sum, after
<1>5. after \in 0..(2 * m - 1) /\ after = IF c + j < m THEN sum ELSE sum - m
  BY <1>1, <1>2, <1>3, <1>4
<1>6. after % m = IF after < m THEN after ELSE after - m
  BY <1>5, ModTwice, Zenon
<1>7. sum % m = IF sum < m THEN sum ELSE sum - m
  BY <1>3, ModTwice, Zenon
<1>8. after % m = sum % m
  BY <1>3, <1>5, <1>6, <1>7
<1> QED
  BY <1>8 DEF after, here, sum

\* Two slots at different distances are different.
LEMMA SlotsApart ==
    ASSUME NEW m \in Nat \ {0}, NEW c \in 0..(m - 1), NEW j \in 0..(m - 1), NEW k \in 0..(m - 1),
           (c + j) % m = (c + k) % m
    PROVE  j = k
<1> DEFINE x == (c + j) % m
           y == (c + k) % m
<1>1. c + j \in 0..(2 * m - 1) /\ c + k \in 0..(2 * m - 1)
  OBVIOUS
<1>2. x = (IF c + j < m THEN c + j ELSE (c + j) - m) /\ y = (IF c + k < m THEN c + k ELSE (c + k) - m)
  BY <1>1, ModTwice, Zenon
<1>3. x = y
  OBVIOUS
<1> HIDE DEF x, y
<1> QED
  BY <1>2, <1>3

\* The conditions: the worker comes twice while the service window is sent, which fits into one
\* push and between the leads; the prebuffer and every write of CoreAudio take at least what is
\* sent between two pushes, in packets of at most m frames; and the frames in the output ring
\* are told apart.
KeepsUp(m) ==
    /\ WorkerTimely
    /\ 2 * Service <= ServiceAhead /\ Service <= SilenceAhead
    /\ ServiceAhead <= MaxPackets /\ 2 * Lead + ServiceAhead <= N
    /\ \A s \in Slots : Blocks[s] <= m
    /\ Service * m <= Prebuffer /\ \A k \in Chunks : Service * m <= k
    /\ RingFrames < Frames

\* Where a push of audio ends
Full == Lead + ServiceAhead

\* The frames in the output ring
Fill == Dist(writeFrame, readFrame)

\* A cursor that is valid is as far behind the hardware as the clock says.
Clocked == clock <= Service /\ (pointerValid => hw = (current + clock) % N)

\* The ring of frames is never overrun.
Counted ==
    /\ readFrame \in FrameNumbers /\ writeFrame \in FrameNumbers
    /\ Fill <= RingFrames

\* Without an output cursor nothing was written yet.
Silent ==
    /\ outValid \in BOOLEAN /\ withheld \in BOOLEAN
    /\ ~outValid => pc = "idle" /\ sent = {} /\ \A s \in Slots : slots[s] = << >>

\* A push that withheld nothing leaves the cursor at the end of its window, or at least the
\* packets ahead that are sent before the next one, having emptied the ring
Resting(m) ==
    pc = "idle" =>
        /\ plan = Idle
        /\ ~withheld =>
              /\ ahead <= N - Lead
              /\ ~outValid => ~prebuffered
              /\ outValid => pointerValid
              /\ outValid => \/ ahead >= Full
                             \/ /\ ahead >= Lead + Service
                                /\ ~prebuffered \/ Fill = 0 \/ Fill >= Service * m

\* A push writes to the end of its window, or else has the frames for what is sent
\* before the next one
Filling(m) ==
    pc = "write" =>
        /\ pointerValid /\ outValid /\ plan.audio = prebuffered
        /\ ~plan.audio => ahead + plan.offset + plan.left >= Lead + Service
        /\ plan.audio =>
              /\ ahead + plan.offset + plan.left >= Full
              /\ plan.budget \in Nat
              /\ Fill = plan.budget \/ Fill >= plan.budget + Service * m
              /\ ~withheld => (Lead + Service - (ahead + plan.offset)) * m <= plan.budget

\* The pace: writer, push and context stay within each other's windows.
PaceInv(m) == Clocked /\ Counted /\ Silent /\ Resting(m) /\ Filling(m)

\* How far ahead of the hardware the push has written
Reach == (ahead + plan.offset) - clock

\* No packet up to there was sent since it was written.
Fresh == ~withheld => \A d \in 0..(Reach - 1) : (hw + d) % N \notin sent

\* The constants that matter, with their product
LEMMA PaceSizes ==
    ASSUME NEW m \in Nat, KeepsUp(m)
    PROVE  /\ {N, Lead, ServiceAhead, SilenceAhead, MaxPackets, Prebuffer, RingFrames, Frames} \subseteq Nat \ {0}
           /\ Service \in Nat /\ PushTime \in Nat /\ PushTime <= Lead /\ PushTime <= Service
           /\ 2 * Service <= ServiceAhead /\ Service <= SilenceAhead /\ ServiceAhead <= MaxPackets
           /\ Full \in Nat /\ Full = Lead + ServiceAhead /\ Full <= N - Lead /\ Service <= N - 2
           /\ Service * m \in Nat /\ Service * m <= Prebuffer
           /\ \A k \in Chunks : k \in Nat /\ Service * m <= k
           /\ \A s \in Slots : Blocks[s] \in Nat \ {0} /\ Blocks[s] <= m
           /\ RingFrames < Frames
<1>1. /\ {N, Lead, ServiceAhead, SilenceAhead, MaxPackets} \subseteq Nat \ {0} /\ 2 * Lead < N
      /\ \A s \in Slots : Blocks[s] \in Nat \ {0}
  BY TransmitRingAssumption
<1>2. {Prebuffer, RingFrames, Frames} \subseteq Nat \ {0} /\ Chunks \subseteq Nat \ {0}
  BY OutputRingAssumption
<1>3. Service \in Nat /\ PushTime \in Nat /\ PushTime <= Lead /\ PushTime <= Service
  BY TimingAssumption
<1>4. Full = Lead + ServiceAhead
  BY DEF Full
<1>5. Service * m \in Nat
  BY <1>3
<1> QED
  BY <1>1, <1>2, <1>3, <1>4, <1>5 DEF KeepsUp

\* What the ring of frames holds
LEMMA FillTyped ==
    ASSUME Counted
    PROVE  Fill \in Nat /\ Fill \in FrameNumbers /\ AudioOutputRingFillFrames = Fill
<1>1. Fill \in FrameNumbers
  BY DistValue DEF Fill, Counted
<1> QED
  BY <1>1, Sizes DEF FrameNumbers, AudioOutputRingFillFrames, Fill, Dist

\* Nothing was written or sent at the beginning.
LEMMA InitPace ==
    ASSUME NEW m \in Nat, KeepsUp(m), Init
    PROVE  PaceInv(m) /\ Fresh
<1>1. 0 \in FrameNumbers /\ N \in Nat \ {0} /\ Service \in Nat /\ RingFrames \in Nat /\ Lead \in Nat /\ 2 * Lead < N
  BY PaceSizes, Sizes DEF FrameNumbers
<1>2. Fill = 0
  BY <1>1, DistMoves DEF Fill, Init
<1>3. Clocked /\ Counted
  BY <1>1, <1>2 DEF Init, Clocked, Counted
<1>4. Silent
  BY DEF Init, Silent
<1>5. ahead <= N - Lead
  BY <1>1 DEF Init
<1>6. Resting(m) /\ Filling(m)
  BY <1>5 DEF Init, Resting, Filling
<1>7. Fresh
  BY DEF Init, Fresh
<1> QED
  BY <1>3, <1>4, <1>6, <1>7 DEF PaceInv

\* The hardware has advanced by the packets the clock counts.
LEMMA AdvancedIsClock ==
    ASSUME NEW m \in Nat, KeepsUp(m), WindowInv, Clocked, pointerValid
    PROVE  AdvancedPackets = clock
<1>1. clock \in 0..(N - 1) /\ 0 \in 0..clock /\ current \in 0..(N - 1) /\ N \in Nat \ {0}
  <2>1. clock \in Nat /\ clock <= Service /\ current \in 0..(N - 1)
    BY Zenon DEF Clocked, WindowInv, Typed, Slots
  <2> QED
    BY <2>1, PaceSizes
<1>2. (((current + clock) % N) + N - ((current + 0) % N)) % N = clock - 0
  BY <1>1, SlotDistance, Zenon
<1>3. (current + 0) % N = current
  BY <1>1, NoDistance DEF Slots
<1>4. hw = (current + clock) % N /\ clock - 0 = clock
  BY <1>1 DEF Clocked
<1> QED
  BY <1>2, <1>3, <1>4, Zenon DEF AdvancedPackets

\* While nothing is withheld a push starts where the last one ended, or at the lead and no
\* nearer to the hardware.
LEMMA BeginFacts ==
    ASSUME NEW m \in Nat, KeepsUp(m), WindowInv, PaceInv(m), BeginPush
    PROVE  LET playing == Playing(Fill)
               end == TargetEndCursor(playing)
           IN  /\ pc = "idle" /\ plan = Idle /\ prebuffered' = playing /\ outValid' = TRUE
               /\ current' = hw /\ clock' = 0 /\ pointerValid' = TRUE
               /\ UNCHANGED <<hw, slots, readFrame, writeFrame, sent, withheld>>
               /\ ahead' \in Int /\ Lead <= ahead'
               /\ ~outValid \/ (playing /\ ~prebuffered) => ahead' = Lead
               /\ outValid /\ ~withheld =>
                    /\ pointerValid /\ Lead <= ahead - clock /\ ahead' <= ahead - clock
                    /\ (playing => prebuffered) => ahead' = ahead - clock
               /\ IF ahead' < end
                  THEN /\ pc' = "write" /\ plan'.audio = playing /\ plan'.offset = 0
                       /\ plan'.budget = IF playing THEN Fill ELSE 0
                       /\ plan'.left = Smaller(end - ahead', MaxPackets)
                  ELSE pc' = pc /\ plan' = plan
<1> DEFINE playing == Playing(Fill)
           starts == playing /\ ~prebuffered
           start == StartCursor(OutputDistance, starts)
           end == TargetEndCursor(playing)
<1>1. AudioOutputRingFillFrames = Fill
  BY DEF AudioOutputRingFillFrames, Fill, Dist
<1>2. pc = "idle" /\ plan = Idle /\ outValid \in BOOLEAN /\ Clocked /\ Resting(m)
  BY DEF BeginPush, PaceInv, Resting, Silent
<1>3. /\ prebuffered' = playing /\ outValid' = TRUE /\ current' = hw /\ clock' = 0 /\ pointerValid' = TRUE
      /\ UNCHANGED <<hw, slots, readFrame, writeFrame, sent, withheld>> /\ ahead' = start
      /\ IF start < end
         THEN pc' = "write" /\ plan' = [audio |-> playing, budget |-> IF playing THEN Fill ELSE 0,
                                        left |-> Smaller(end - start, MaxPackets), offset |-> 0]
         ELSE UNCHANGED <<pc, plan>>
  BY <1>1 DEF BeginPush, ring, history
<1>4. pointerValid => OutputDistance = ahead - clock
  BY <1>2, AdvancedIsClock DEF OutputDistance
<1>5. ahead \in Int /\ clock \in Nat /\ clock <= Service /\ prebuffered \in BOOLEAN
  BY <1>2 DEF WindowInv, Typed, Clocked
<1>6. outValid /\ ~withheld => pointerValid /\ ahead - clock >= Lead
  BY <1>2, <1>5, PaceSizes DEF Resting
<1>7. ahead' \in Int /\ Lead <= ahead'
  <2>1. WindowInv'
    BY BeginKeeps
  <2>2. ahead' \in Int
    BY <2>1 DEF WindowInv, Typed
  <2>3. ahead' = StartCursor(OutputDistance, starts)
    BY <1>3
  <2> DEFINE distance == OutputDistance
  <2>4. ahead' = IF ~outValid \/ distance < Lead \/ starts THEN Lead ELSE distance
    BY <2>3 DEF StartCursor
  <2>5. Lead \in Int
    BY Sizes
  <2> HIDE DEF distance, starts
  <2>6. CASE ~outValid \/ distance < Lead \/ starts
    BY <2>4, <2>5, <2>6
  <2>7. CASE ~(~outValid \/ distance < Lead \/ starts)
    <3>1. ahead' = distance /\ ~(distance < Lead)
      BY <2>4, <2>7
    <3> QED
      BY <2>2, <2>5, <3>1
  <2> QED
    BY <2>2, <2>6, <2>7
<1>8. start = IF ~outValid \/ OutputDistance < Lead \/ starts THEN Lead ELSE OutputDistance
  BY DEF StartCursor
<1>9. Lead \in Nat
  BY Sizes
<1> HIDE DEF playing, starts, end, start
<1>10. ~outValid \/ (playing /\ ~prebuffered) => start = Lead
  BY <1>8 DEF starts
<1>11. outValid /\ ~withheld =>
         /\ start <= ahead - clock
         /\ (playing => prebuffered) => start = ahead - clock
  BY <1>4, <1>5, <1>6, <1>8, <1>9 DEF starts
<1>12. IF start < end
       THEN /\ pc' = "write" /\ plan'.audio = playing /\ plan'.offset = 0
            /\ plan'.budget = IF playing THEN Fill ELSE 0
            /\ plan'.left = Smaller(end - start, MaxPackets)
       ELSE pc' = pc /\ plan' = plan
  BY <1>3
<1> QED
  BY <1>2, <1>3, <1>6, <1>7, <1>10, <1>11, <1>12 DEF playing, end

\* A push has the frames for the packets sent before the next one.
LEMMA BeginPaces ==
    ASSUME NEW m \in Nat, KeepsUp(m), WindowInv, PaceInv(m), BeginPush
    PROVE  PaceInv(m)'
<1> DEFINE playing == Playing(Fill)
           end == TargetEndCursor(playing)
           left == Smaller(end - ahead', MaxPackets)
<1>1. /\ pc = "idle" /\ plan = Idle /\ prebuffered' = playing /\ outValid' = TRUE
      /\ current' = hw /\ clock' = 0 /\ pointerValid' = TRUE
      /\ UNCHANGED <<hw, slots, readFrame, writeFrame, sent, withheld>>
      /\ ahead' \in Int /\ Lead <= ahead'
      /\ ~outValid \/ (playing /\ ~prebuffered) => ahead' = Lead
      /\ outValid /\ ~withheld =>
           /\ pointerValid /\ Lead <= ahead - clock /\ ahead' <= ahead - clock
           /\ (playing => prebuffered) => ahead' = ahead - clock
      /\ IF ahead' < end
         THEN /\ pc' = "write" /\ plan'.audio = playing /\ plan'.offset = 0
              /\ plan'.budget = IF playing THEN Fill ELSE 0
              /\ plan'.left = Smaller(end - ahead', MaxPackets)
         ELSE pc' = pc /\ plan' = plan
  BY BeginFacts
<1>2. /\ Fill \in Nat /\ Fill <= RingFrames /\ Fill' = Fill
      /\ clock \in Nat /\ clock <= Service /\ ahead \in Int
      /\ prebuffered \in BOOLEAN /\ outValid \in BOOLEAN /\ withheld \in BOOLEAN
  <2>1. Fill \in Nat /\ Fill <= RingFrames
    BY FillTyped DEF PaceInv, Counted
  <2>2. Fill' = Fill
    BY <1>1 DEF Fill
  <2> QED
    BY <2>1, <2>2 DEF PaceInv, Clocked, Silent, WindowInv, Typed
<1>3. playing \in BOOLEAN /\ (playing => Fill # 0) /\ (playing /\ ~prebuffered => Fill >= Prebuffer)
  BY <1>2 DEF Playing
<1>4. end = IF playing THEN Full ELSE Smaller(Lead + SilenceAhead, N - Lead)
  BY <1>3, PaceSizes DEF TargetEndCursor, Smaller, Full
<1>5. end >= Lead + Service /\ end \in Nat /\ end <= N - Lead
  BY <1>3, <1>4, PaceSizes DEF Smaller
<1>6. Clocked'
  <2>1. (hw + 0) % N = hw
    BY NoDistance DEF WindowInv, Typed
  <2> QED
    BY <1>1, <2>1, PaceSizes DEF Clocked
<1>7. Counted' /\ Silent'
  BY <1>1, <1>2 DEF PaceInv, Counted, Silent
<1> HIDE DEF playing, end, left
<1>8. ~withheld => ahead' <= N - Lead
  <2> SUFFICES ASSUME ~withheld PROVE ahead' <= N - Lead
    OBVIOUS
  <2>1. ahead <= N - Lead
    BY <1>1 DEF PaceInv, Resting
  <2>2. Lead <= N - Lead
    BY PaceSizes
  <2> QED
    BY <1>1, <1>2, <2>1, <2>2, PaceSizes
<1>9. playing /\ ~withheld => (Lead + Service - ahead') * m <= Fill
  <2> SUFFICES ASSUME playing, ~withheld PROVE (Lead + Service - ahead') * m <= Fill
    OBVIOUS
  <2>1. CASE ahead' >= Lead + Service
    <3>1. (ahead' - (Lead + Service)) * m >= 0
      BY <1>1, <2>1, PaceSizes
    <3>2. (Lead + Service - ahead') * m = -((ahead' - (Lead + Service)) * m)
      BY <1>1, PaceSizes
    <3>3. (ahead' - (Lead + Service)) * m \in Int
      BY <1>1, PaceSizes
    <3> QED
      BY <1>2, <3>1, <3>2, <3>3
  <2>2. CASE ahead' < Lead + Service
    <3>1. Fill >= Service * m
      <4>1. CASE ~prebuffered
        BY <1>2, <1>3, <4>1, PaceSizes
      <4>2. CASE prebuffered
        <5>1. outValid
          BY <1>1, <4>2 DEF PaceInv, Resting
        <5>2. ahead < Lead + 2 * Service
          BY <1>1, <1>2, <2>2, <4>2, <5>1, PaceSizes
        <5>3. ~(ahead >= Full)
          BY <1>2, <5>2, PaceSizes
        <5> QED
          BY <1>1, <1>3, <4>2, <5>1, <5>3 DEF PaceInv, Resting
      <4> QED
        BY <1>2, <4>1, <4>2
    <3>2. (Service - (Lead + Service - ahead')) * m >= 0
      BY <1>1, PaceSizes
    <3>3. (Service - (Lead + Service - ahead')) * m = Service * m - (Lead + Service - ahead') * m
      BY <1>1, PaceSizes
    <3>4. (Lead + Service - ahead') * m \in Int
      BY <1>1, PaceSizes
    <3> QED
      BY <1>2, <3>1, <3>2, <3>3, <3>4, PaceSizes
  <2> QED
    BY <1>1, <2>1, <2>2, PaceSizes
<1>10. CASE ahead' < end
  <2>1. /\ pc' = "write" /\ plan'.audio = playing /\ plan'.offset = 0
        /\ plan'.budget = (IF playing THEN Fill ELSE 0) /\ plan'.left = left
    BY <1>1, <1>10 DEF left
  <2>2. ahead' + 0 + left >= Lead + Service /\ (playing => ahead' + 0 + left >= Full)
    <3>1. left = end - ahead' \/ left = MaxPackets
      BY DEF left, Smaller
    <3>2. PICK a \in Int : a = ahead'
      BY <1>1
    <3>3. /\ Lead <= a /\ a < end /\ end >= Lead + Service /\ end \in Nat /\ (playing => end = Full)
          /\ left = end - a \/ left = MaxPackets
      BY <1>1, <1>4, <1>5, <1>10, <3>1, <3>2
    <3>4. /\ Lead \in Nat /\ Service \in Nat /\ ServiceAhead \in Nat /\ MaxPackets \in Nat
          /\ 2 * Service <= ServiceAhead /\ ServiceAhead <= MaxPackets /\ Full = Lead + ServiceAhead
      BY PaceSizes
    <3>5. a + 0 + left >= Lead + Service /\ (playing => a + 0 + left >= Full)
      BY <3>3, <3>4
    <3> QED
      BY <3>2, <3>5
  <2>3. Lead + Service - (ahead' + 0) = Lead + Service - ahead'
    BY <1>1
  <2>4. Filling(m)'
    BY <1>1, <1>2, <1>3, <1>9, <2>1, <2>2, <2>3 DEF Filling
  <2>5. Resting(m)'
    BY <2>1 DEF Resting
  <2> QED
    BY <1>6, <1>7, <2>4, <2>5 DEF PaceInv
<1>11. CASE ahead' >= end
  <2>1. pc' = "idle" /\ plan' = Idle
    BY <1>1, <1>5, <1>11
  <2>2. playing => ahead' >= Full
    BY <1>4, <1>11
  <2>3. ahead' >= Lead + Service
    BY <1>1, <1>5, <1>11, PaceSizes
  <2>4. Resting(m)'
    BY <1>1, <1>3, <1>8, <2>1, <2>2, <2>3 DEF Resting
  <2>5. Filling(m)'
    BY <2>1 DEF Filling
  <2> QED
    BY <1>6, <1>7, <2>4, <2>5 DEF PaceInv
<1> QED
  BY <1>1, <1>5, <1>10, <1>11

\* A push without a command pointer withholds.
LEMMA BlindPaces ==
    ASSUME NEW m \in Nat, KeepsUp(m), WindowInv, PaceInv(m), BeginPushBlind
    PROVE  PaceInv(m)' /\ Fresh'
<1>1. /\ pc = "idle" /\ pc' = "idle" /\ plan' = plan /\ withheld' = TRUE
      /\ pointerValid' = FALSE /\ clock' = 0
      /\ UNCHANGED <<hw, slots, readFrame, writeFrame, outValid, sent>>
  BY DEF BeginPushBlind, ring
<1>2. Fill' = Fill
  BY <1>1 DEF Fill
<1>3. Clocked' /\ Counted' /\ Silent'
  BY <1>1, <1>2, Sizes DEF PaceInv, Clocked, Counted, Silent
<1>4. Resting(m)' /\ Filling(m)' /\ Fresh'
  BY <1>1 DEF PaceInv, Resting, Filling, Fresh
<1> QED
  BY <1>3, <1>4 DEF PaceInv

\* The clock counts what the context sends.
LEMMA TransmitClock ==
    ASSUME NEW m \in Nat, KeepsUp(m), WindowInv, PaceInv(m), Transmit
    PROVE  /\ clock' = clock + 1 /\ clock \in Nat /\ clock < Service
           /\ pc = "write" => clock < PushTime
           /\ hw' = (hw + 1) % N
           /\ UNCHANGED <<slots, readFrame, writeFrame, prebuffered, current, pointerValid, ahead,
                          outValid, pc, plan, withheld>>
           /\ sent' = IF slots[hw] = << >> THEN sent ELSE sent \cup {hw}
<1>1. /\ hw' = (hw + 1) % N /\ clock' = Smaller(clock + 1, Service)
      /\ UNCHANGED <<slots, readFrame, writeFrame, prebuffered, current, pointerValid, ahead,
                     outValid, pc, plan, withheld>>
      /\ sent' = IF slots[hw] = << >> THEN sent ELSE sent \cup {hw}
  BY DEF Transmit, ring, cursor
<1>2. clock \in Nat
  BY DEF WindowInv, Typed
<1>3. clock < Service /\ (pc = "write" => clock < PushTime)
  <2>1. WorkerTimely
    BY DEF KeepsUp
  <2>2. clock < IF pc = "write" THEN PushTime ELSE Service
    BY <2>1 DEF Transmit, InTime
  <2> QED
    BY <1>2, <2>2, PaceSizes
<1>4. clock' = clock + 1
  <2>1. Service \in Nat
    BY Sizes
  <2> QED
    BY <1>1, <1>2, <1>3, <2>1 DEF Smaller
<1> QED
  BY <1>1, <1>2, <1>3, <1>4

\* The context keeps the pace.
LEMMA TransmitPaces ==
    ASSUME NEW m \in Nat, KeepsUp(m), WindowInv, PaceInv(m), Transmit
    PROVE  PaceInv(m)'
<1>1. /\ clock' = clock + 1 /\ clock \in Nat /\ clock < Service /\ hw' = (hw + 1) % N
      /\ UNCHANGED <<slots, readFrame, writeFrame, prebuffered, current, pointerValid, ahead,
                     outValid, pc, plan, withheld>>
      /\ sent' = IF slots[hw] = << >> THEN sent ELSE sent \cup {hw}
  BY TransmitClock
<1>2. Clocked'
  <2>1. N \in Nat \ {0} /\ current \in 0..(N - 1) /\ clock \in 0..(N - 2)
    <3>1. current \in 0..(N - 1)
      BY Zenon DEF WindowInv, Typed, Slots
    <3>2. N \in Nat \ {0} /\ Service \in Nat /\ Service <= N - 2
      BY PaceSizes
    <3> QED
      BY <1>1, <3>1, <3>2
  <2>2. (((current + clock) % N) + 1) % N = (current + (clock + 1)) % N
    BY <2>1, NextPacket, Zenon
  <2>3. pointerValid => hw' = (current' + clock') % N
    <3> SUFFICES ASSUME pointerValid PROVE hw' = (current' + clock') % N
      OBVIOUS
    <3>1. hw = (current + clock) % N
      BY DEF PaceInv, Clocked
    <3> QED
      BY <1>1, <2>2, <3>1, Zenon
  <2>4. clock' <= Service /\ pointerValid' = pointerValid
    BY <1>1, Sizes
  <2> QED
    BY <2>3, <2>4 DEF Clocked
<1>3. Fill' = Fill
  BY <1>1 DEF Fill
<1>4. Counted'
  BY <1>1, <1>3 DEF PaceInv, Counted
<1>5. Silent'
  <2>1. ~outValid => slots[hw] = << >>
    BY DEF PaceInv, Silent, WindowInv, Typed
  <2> QED
    BY <1>1, <2>1 DEF PaceInv, Silent
<1>6. Resting(m)' /\ Filling(m)'
  BY <1>1, <1>3 DEF PaceInv, Resting, Filling
<1> QED
  BY <1>2, <1>4, <1>5, <1>6 DEF PaceInv

\* CoreAudio adds what is sent between two pushes, or more.
LEMMA AppendPaces ==
    ASSUME NEW m \in Nat, KeepsUp(m), WindowInv, PaceInv(m), AppendAudioOutputBufferToRing
    PROVE  PaceInv(m)'
<1>1. UNCHANGED <<hw, slots, readFrame, prebuffered, current, pointerValid, ahead, outValid, pc, plan,
                  clock, sent, withheld>>
  BY DEF AppendAudioOutputBufferToRing, cursor, history
<1>2. Fill \in Nat /\ AudioOutputRingFillFrames = Fill
  BY FillTyped DEF PaceInv
<1>3. PICK k \in Chunks : Fill + k <= RingFrames /\ writeFrame' = (writeFrame + k) % Frames
  BY <1>2 DEF AppendAudioOutputBufferToRing
<1>4. k \in Nat /\ Service * m <= k
  BY PaceSizes
<1>5. k \in FrameNumbers /\ Fill + k < Frames /\ readFrame \in FrameNumbers /\ writeFrame \in FrameNumbers
  BY <1>2, <1>3, <1>4, PaceSizes DEF FrameNumbers, PaceInv, Counted
<1>6. Dist((writeFrame + k) % Frames, readFrame) = Dist(writeFrame, readFrame) + k
      /\ (writeFrame + k) % Frames \in FrameNumbers
  BY <1>5, DistMoves, FrameAfter DEF Fill
<1>7. Fill' = Fill + k
  BY <1>1, <1>3, <1>6 DEF Fill
<1> DEFINE enough == Service * m
<1>8. enough \in Nat /\ Fill' \in Nat /\ Fill' >= Fill + enough /\ Fill' <= RingFrames
  BY <1>2, <1>3, <1>4, <1>7, PaceSizes
<1> HIDE DEF enough
<1>9. Clocked' /\ Counted' /\ Silent'
  BY <1>1, <1>3, <1>6, <1>8 DEF PaceInv, Clocked, Counted, Silent
<1>10. Resting(m)'
  <2>1. Fill' >= Service * m
    BY <1>2, <1>8 DEF enough
  <2> QED
    BY <1>1, <2>1 DEF PaceInv, Resting
<1>11. Filling(m)'
  <2>1. pc = "write" /\ plan.audio => Fill' >= plan.budget + Service * m
    <3> SUFFICES ASSUME pc = "write", plan.audio PROVE Fill' >= plan.budget + enough
      BY DEF enough
    <3>1. plan.budget \in Nat /\ (Fill = plan.budget \/ Fill >= plan.budget + enough)
      BY DEF PaceInv, Filling, enough
    <3> QED
      BY <1>2, <1>8, <3>1
  <2> QED
    BY <1>1, <2>1 DEF PaceInv, Filling
<1> QED
  BY <1>9, <1>10, <1>11 DEF PaceInv

\* One packet is read from the ring of frames and written into a slot, or silence is.
LEMMA WriteFacts ==
    ASSUME NEW m \in Nat, KeepsUp(m), WindowInv, PaceInv(m), WritePacket
    PROVE  /\ pc = "write" /\ plan.left > 0 /\ plan.left \in Nat /\ plan.offset \in Nat
           /\ UNCHANGED <<hw, writeFrame, prebuffered, current, pointerValid, ahead, outValid, pc, clock, withheld>>
           /\ sent' = sent \ {NextSlot}
           /\ plan'.audio = plan.audio /\ plan'.left = plan.left - 1 /\ plan'.offset = plan.offset + 1
           /\ plan.audio =>
                \E k \in Nat : /\ k <= m /\ k <= plan.budget /\ plan'.budget = plan.budget - k
                               /\ readFrame' \in FrameNumbers /\ Fill >= plan.budget /\ Fill' = Fill - k
           /\ ~plan.audio => readFrame' = readFrame /\ Fill' = Fill
<1>1. /\ pc = "write" /\ plan.left > 0 /\ sent' = sent \ {NextSlot}
      /\ UNCHANGED <<hw, writeFrame, prebuffered, current, pointerValid, ahead, outValid, pc, clock, withheld>>
  BY DEF WritePacket, cursor
<1>2. plan \in [audio : BOOLEAN, budget : Int, left : Nat, offset : Nat]
  BY DEF WindowInv, Typed
<1> DEFINE k == Blocks[NextSlot]
<1>3. k \in Nat /\ k <= m
  <2>1. NextSlot \in Slots
    <3>1. current + ahead + plan.offset \in Int
      BY <1>2 DEF WindowInv, Typed, Slots
    <3> QED
      BY <3>1, Remainders, Zenon DEF NextSlot
  <2> QED
    BY <2>1, PaceSizes
<1>4. CASE plan.audio
  <2>1. /\ plan.budget \in Nat /\ plan.budget >= k
        /\ readFrame' = PopAudioOutputRingFrames(k)
        /\ plan' = [plan EXCEPT !.left = @ - 1, !.offset = @ + 1, !.budget = @ - k]
    BY <1>1, <1>4 DEF WritePacket, PacketFits, PaceInv, Filling
  <2> HIDE DEF k
  <2>2. Fill >= plan.budget /\ Fill \in Nat /\ Fill \in FrameNumbers /\ AudioOutputRingFillFrames = Fill
    <3> DEFINE enough == Service * m
    <3>1. enough \in Nat
      BY PaceSizes
    <3>2. Fill = plan.budget \/ Fill >= plan.budget + enough
      BY <1>1, <1>4 DEF PaceInv, Filling
    <3>3. Fill \in Nat /\ Fill \in FrameNumbers /\ AudioOutputRingFillFrames = Fill
      BY FillTyped DEF PaceInv
    <3> HIDE DEF enough
    <3> QED
      BY <2>1, <3>1, <3>2, <3>3
  <2>3. k <= Fill /\ k \in FrameNumbers
    BY <1>3, <2>1, <2>2, Sizes DEF FrameNumbers
  <2>4. readFrame' = (readFrame + k) % Frames
    BY <2>1, <2>2, <2>3 DEF PopAudioOutputRingFrames, Smaller
  <2>5. readFrame \in FrameNumbers /\ writeFrame \in FrameNumbers
    BY DEF PaceInv, Counted
  <2>6. Dist(writeFrame, (readFrame + k) % Frames) = Dist(writeFrame, readFrame) - k
        /\ (readFrame + k) % Frames \in FrameNumbers
    BY <2>3, <2>5, DistMoves, FrameAfter DEF Fill
  <2>7. Fill' = Fill - k /\ readFrame' \in FrameNumbers
    BY <1>1, <2>4, <2>6 DEF Fill
  <2>8. /\ plan'.audio = plan.audio /\ plan'.left = plan.left - 1 /\ plan'.offset = plan.offset + 1
        /\ plan'.budget = plan.budget - k
    BY <1>2, <2>1
  <2>9. \E j \in Nat : /\ j <= m /\ j <= plan.budget /\ plan'.budget = plan.budget - j
                       /\ readFrame' \in FrameNumbers /\ Fill >= plan.budget /\ Fill' = Fill - j
    BY <1>3, <2>1, <2>2, <2>7, <2>8
  <2> QED
    BY <1>1, <1>2, <1>4, <2>8, <2>9
<1>5. CASE ~plan.audio
  <2>1. /\ readFrame' = readFrame
        /\ plan' = [plan EXCEPT !.left = @ - 1, !.offset = @ + 1]
    BY <1>5 DEF WritePacket
  <2>2. plan'.audio = plan.audio /\ plan'.left = plan.left - 1 /\ plan'.offset = plan.offset + 1
    BY <1>2, <2>1
  <2>3. Fill' = Fill
    BY <1>1, <2>1 DEF Fill
  <2> QED
    BY <1>1, <1>2, <1>5, <2>1, <2>2, <2>3
<1> QED
  BY <1>2, <1>4, <1>5

\* A packet takes no more frames than are counted for it.
LEMMA WritePaces ==
    ASSUME NEW m \in Nat, KeepsUp(m), WindowInv, PaceInv(m), WritePacket
    PROVE  PaceInv(m)'
<1>1. /\ pc = "write" /\ plan.left > 0 /\ plan.left \in Nat /\ plan.offset \in Nat
      /\ UNCHANGED <<hw, writeFrame, prebuffered, current, pointerValid, ahead, outValid, pc, clock, withheld>>
      /\ plan'.audio = plan.audio /\ plan'.left = plan.left - 1 /\ plan'.offset = plan.offset + 1
  BY WriteFacts
<1>2. ahead \in Int /\ plan.audio \in BOOLEAN /\ Fill \in Nat /\ Fill <= RingFrames
  BY FillTyped DEF WindowInv, Typed, PaceInv, Counted
<1>3. /\ ahead' + plan'.offset + plan'.left = ahead + plan.offset + plan.left
      /\ ahead' + plan'.offset = ahead + plan.offset + 1
  BY <1>1, <1>2
<1>4. /\ pointerValid /\ outValid /\ plan.audio = prebuffered
      /\ ~plan.audio => ahead + plan.offset + plan.left >= Lead + Service
      /\ plan.audio =>
            /\ ahead + plan.offset + plan.left >= Full
            /\ plan.budget \in Nat
            /\ Fill = plan.budget \/ Fill >= plan.budget + Service * m
            /\ ~withheld => (Lead + Service - (ahead + plan.offset)) * m <= plan.budget
  BY <1>1 DEF PaceInv, Filling
<1>5. Clocked' /\ Silent' /\ Resting(m)'
  BY <1>1, <1>4 DEF PaceInv, Clocked, Silent, Resting
<1>6. CASE plan.audio
  <2>1. PICK k \in Nat : /\ k <= m /\ k <= plan.budget /\ plan'.budget = plan.budget - k
                         /\ readFrame' \in FrameNumbers /\ Fill >= plan.budget /\ Fill' = Fill - k
    BY <1>6, WriteFacts
  <2>2. Counted'
    <3>1. Fill - k <= RingFrames
      BY <1>2, <2>1, PaceSizes
    <3> QED
      BY <1>1, <2>1, <3>1 DEF PaceInv, Counted
  <2>3. plan'.budget \in Nat
    BY <1>4, <1>6, <2>1
  <2>4. Fill' = plan'.budget \/ Fill' >= plan'.budget + Service * m
    <3> DEFINE enough == Service * m
    <3>1. enough \in Nat /\ (Fill = plan.budget \/ Fill >= plan.budget + enough)
      BY <1>4, <1>6, PaceSizes
    <3> HIDE DEF enough
    <3>2. Fill' = plan'.budget \/ Fill' >= plan'.budget + enough
      BY <1>2, <1>4, <1>6, <2>1, <3>1
    <3> QED
      BY <3>2 DEF enough
  <2>5. ~withheld => (Lead + Service - (ahead' + plan'.offset)) * m <= plan'.budget
    <3> SUFFICES ASSUME ~withheld PROVE (Lead + Service - (ahead' + plan'.offset)) * m <= plan'.budget
      OBVIOUS
    <3> DEFINE behind == Lead + Service - (ahead + plan.offset)
               need == behind * m
    <3>1. behind \in Int /\ need \in Int /\ need <= plan.budget
      BY <1>1, <1>2, <1>4, <1>6, PaceSizes
    <3>2. (behind - 1) * m = need - m
      BY <3>1
    <3>3. Lead + Service - (ahead' + plan'.offset) = behind - 1
      BY <1>1, <1>2, <1>3, PaceSizes
    <3> HIDE DEF need, behind
    <3>4. need - m <= plan'.budget
      BY <1>4, <1>6, <2>1, <3>1
    <3> QED
      BY <3>2, <3>3, <3>4
  <2>6. Filling(m)'
    BY <1>1, <1>3, <1>4, <1>6, <2>3, <2>4, <2>5 DEF Filling
  <2> QED
    BY <1>5, <2>2, <2>6 DEF PaceInv
<1>7. CASE ~plan.audio
  <2>1. readFrame' = readFrame /\ Fill' = Fill
    BY <1>7, WriteFacts
  <2>2. Counted'
    BY <1>1, <2>1 DEF PaceInv, Counted
  <2>3. Filling(m)'
    BY <1>1, <1>3, <1>4, <1>7 DEF Filling
  <2> QED
    BY <1>5, <2>2, <2>3 DEF PaceInv
<1> QED
  BY <1>2, <1>6, <1>7

\* A push that withholds nothing ends at the end of its window, or has emptied the ring.
LEMMA EndFacts ==
    ASSUME NEW m \in Nat, KeepsUp(m), WindowInv, PaceInv(m), EndPush
    PROVE  /\ pc = "write" /\ pc' = "idle" /\ plan' = Idle /\ clock' = clock
           /\ UNCHANGED <<hw, slots, readFrame, writeFrame, prebuffered, current, pointerValid, outValid, sent>>
           /\ withheld' \in BOOLEAN
           /\ ~withheld' =>
                 /\ ahead' = ahead + plan.offset
                 /\ withheld => plan.left = 0 /\ Refreshed
                 /\ plan.left = 0 \/ (plan.audio /\ ~withheld /\ plan.budget = 0)
<1>1. /\ pc = "write" /\ pc' = "idle" /\ plan' = Idle /\ clock' = clock
      /\ UNCHANGED <<hw, slots, readFrame, writeFrame, prebuffered, current, pointerValid, outValid, sent>>
      /\ plan.left = 0 \/ ~PacketFits
  BY DEF EndPush, ring
<1>2. PICK synced \in BOOLEAN :
        /\ ahead' = IF synced THEN ahead + plan.offset ELSE ahead
        /\ withheld' = (TailLeft \/ ~synced \/ (withheld /\ ~(plan.left = 0 /\ Refreshed)))
  BY DEF EndPush
<1>3. withheld' \in BOOLEAN
  BY <1>2
<1>4. ~withheld' => synced /\ ~TailLeft /\ (withheld => plan.left = 0 /\ Refreshed)
  BY <1>2
<1>5. plan.audio => plan.budget \in Nat
  BY <1>1 DEF PaceInv, Filling
<1>6. plan.left \in Nat
  BY DEF WindowInv, Typed
<1>7. ~withheld' => plan.left = 0 \/ (plan.audio /\ ~withheld /\ plan.budget = 0)
  <2> SUFFICES ASSUME ~withheld', plan.left # 0 PROVE plan.audio /\ ~withheld /\ plan.budget = 0
    OBVIOUS
  <2>1. ~PacketFits /\ ~withheld
    BY <1>1, <1>4
  <2>2. plan.audio
    BY <2>1 DEF PacketFits
  <2>3. ~(plan.left > 0 /\ plan.budget > 0)
    BY <1>4, <2>2 DEF TailLeft
  <2> QED
    BY <1>5, <1>6, <2>1, <2>2, <2>3
<1> QED
  BY <1>1, <1>2, <1>3, <1>4, <1>7

\* Where it ends it waits for the next one.
LEMMA EndPaces ==
    ASSUME NEW m \in Nat, KeepsUp(m), WindowInv, PaceInv(m), EndPush
    PROVE  PaceInv(m)'
<1>1. /\ pc = "write" /\ pc' = "idle" /\ plan' = Idle /\ clock' = clock
      /\ UNCHANGED <<hw, slots, readFrame, writeFrame, prebuffered, current, pointerValid, outValid, sent>>
      /\ withheld' \in BOOLEAN
      /\ ~withheld' =>
            /\ ahead' = ahead + plan.offset
            /\ withheld => plan.left = 0 /\ Refreshed
            /\ plan.left = 0 \/ (plan.audio /\ ~withheld /\ plan.budget = 0)
  BY EndFacts
<1>2. plan \in [audio : BOOLEAN, budget : Int, left : Nat, offset : Nat] /\ ahead \in Int /\ prebuffered \in BOOLEAN
  BY DEF WindowInv, Typed
<1>3. Fill' = Fill /\ Fill \in Nat
  BY <1>1, FillTyped DEF Fill, PaceInv
<1>4. /\ pointerValid /\ outValid /\ plan.audio = prebuffered
      /\ ~plan.audio => ahead + plan.offset + plan.left >= Lead + Service
      /\ plan.audio =>
            /\ ahead + plan.offset + plan.left >= Full
            /\ plan.budget \in Nat
            /\ Fill = plan.budget \/ Fill >= plan.budget + Service * m
            /\ ~withheld => (Lead + Service - (ahead + plan.offset)) * m <= plan.budget
  BY <1>1 DEF PaceInv, Filling
<1>5. Clocked' /\ Counted' /\ Silent' /\ Filling(m)'
  BY <1>1, <1>3, <1>4 DEF PaceInv, Clocked, Counted, Silent, Filling
<1>6. ~withheld' => ahead' <= N - Lead
  <2>1. ahead + plan.offset + plan.left <= N - Lead
    BY <1>1 DEF WindowInv, InWindow
  <2> QED
    BY <1>1, <1>2, <2>1, PaceSizes
<1>7. ~withheld' => \/ ahead' >= Full
                    \/ /\ ahead' >= Lead + Service
                       /\ ~prebuffered \/ Fill = 0 \/ Fill >= Service * m
  <2> SUFFICES ASSUME ~withheld'
               PROVE  \/ ahead' >= Full
                      \/ /\ ahead' >= Lead + Service
                         /\ ~prebuffered \/ Fill = 0 \/ Fill >= Service * m
    OBVIOUS
  <2>1. CASE plan.left = 0
    <3>1. ahead' = ahead + plan.offset + plan.left
      BY <1>1, <1>2, <2>1
    <3> QED
      BY <1>2, <1>4, <3>1
  <2>2. CASE plan.audio /\ ~withheld /\ plan.budget = 0
    <3> DEFINE behind == Lead + Service - (ahead + plan.offset)
    <3>1. behind * m <= 0 /\ behind \in Int
      BY <1>2, <1>4, <2>2, PaceSizes
    <3>2. behind <= 0
      <4>1. m >= 1
        <5>1. \A s \in Slots : Blocks[s] \in Nat \ {0} /\ Blocks[s] <= m
          BY PaceSizes
        <5>2. PICK b \in Nat \ {0} : b <= m
          <6>1. hw \in Slots
            BY DEF WindowInv, Typed
          <6> QED
            BY <5>1, <6>1
        <5> QED
          BY <5>2
      <4> HIDE DEF behind
      <4>2. ~(behind >= 1)
        <5> SUFFICES ASSUME behind >= 1 PROVE FALSE
          OBVIOUS
        <5>1. behind * m >= 1
          BY <3>1, <4>1
        <5>2. behind * m \in Int
          BY <3>1
        <5> QED
          BY <3>1, <5>1, <5>2
      <4> QED
        BY <3>1, <4>2
    <3>3. ahead' >= Lead + Service
      BY <1>1, <1>2, <3>2, PaceSizes
    <3>4. Fill = 0 \/ Fill >= Service * m
      <4> DEFINE enough == Service * m
      <4>1. Fill = plan.budget \/ Fill >= plan.budget + enough
        BY <1>4, <2>2
      <4>2. enough \in Nat
        BY PaceSizes
      <4> HIDE DEF enough
      <4>3. Fill = 0 \/ Fill >= enough
        BY <1>3, <2>2, <4>1, <4>2
      <4> QED
        BY <4>3 DEF enough
    <3> QED
      BY <3>3, <3>4
  <2> QED
    BY <1>1, <2>1, <2>2
<1>8. Resting(m)'
  BY <1>1, <1>3, <1>4, <1>6, <1>7 DEF Resting
<1> QED
  BY <1>5, <1>8 DEF PaceInv

\* A step that changes nothing keeps pace and freshness.
LEMMA StutterPaces ==
    ASSUME NEW m \in Nat, PaceInv(m), Fresh, UNCHANGED vars
    PROVE  PaceInv(m)' /\ Fresh'
<1>1. UNCHANGED <<hw, slots, readFrame, writeFrame, prebuffered, current, pointerValid, ahead,
                  outValid, pc, plan, clock, sent, withheld>>
  BY DEF vars, ring, cursor, history
<1>2. Fill' = Fill /\ Reach' = Reach
  BY <1>1 DEF Fill, Reach
<1>3. Clocked' /\ Counted' /\ Silent'
  BY <1>1, <1>2 DEF PaceInv, Clocked, Counted, Silent
<1>4. Resting(m)' /\ Filling(m)'
  BY <1>1, <1>2 DEF PaceInv, Resting, Filling
<1>5. Fresh'
  BY <1>1, <1>2 DEF Fresh
<1> QED
  BY <1>3, <1>4, <1>5 DEF PaceInv

\* What was written ahead of the hardware fits into the ring, and there is always some
LEMMA Reaches ==
    ASSUME NEW m \in Nat, KeepsUp(m), WindowInv, PaceInv(m), ~withheld
    PROVE  /\ ahead + plan.offset \in Int /\ Reach \in Int /\ Reach = (ahead + plan.offset) - clock
           /\ ahead + plan.offset <= N - Lead /\ Reach < N
           /\ Transmit /\ outValid => Reach >= 1
<1>1. plan \in [audio : BOOLEAN, budget : Int, left : Nat, offset : Nat] /\ ahead \in Int /\ clock \in Nat
      /\ pc \in {"idle", "write"}
  BY DEF WindowInv, Typed
<1>2. CASE pc = "idle"
  <2>1. plan.offset = 0 /\ ahead <= N - Lead
    BY <1>2 DEF PaceInv, Resting, Idle
  <2>2. outValid => ahead >= Lead + Service
    BY <1>1, <1>2, PaceSizes DEF PaceInv, Resting
  <2>3. Transmit => clock < Service
    BY TransmitClock
  <2>4. N \in Nat /\ Lead \in Nat \ {0} /\ Service \in Nat
    BY PaceSizes
  <2> QED
    BY <1>1, <2>1, <2>2, <2>3, <2>4 DEF Reach
<1>3. CASE pc = "write"
  <2>1. Lead <= ahead /\ ahead + plan.offset + plan.left <= N - Lead
    BY <1>3 DEF WindowInv, InWindow
  <2>2. Transmit => clock < PushTime
    BY <1>3, TransmitClock
  <2>3. N \in Nat /\ Lead \in Nat \ {0} /\ PushTime \in Nat /\ PushTime <= Lead
    BY PaceSizes
  <2> QED
    BY <1>1, <2>1, <2>2, <2>3 DEF Reach
<1> QED
  BY <1>1, <1>2, <1>3

\* A push begins no further ahead than the last one ended.
LEMMA BeginFresh ==
    ASSUME NEW m \in Nat, KeepsUp(m), WindowInv, PaceInv(m), Fresh, BeginPush
    PROVE  Fresh'
<1>1. /\ plan = Idle /\ clock' = 0 /\ UNCHANGED <<hw, sent, withheld>> /\ ahead' \in Int
      /\ outValid /\ ~withheld => ahead' <= ahead - clock
      /\ plan'.offset = 0
  <2>1. /\ plan = Idle /\ clock' = 0 /\ UNCHANGED <<hw, sent, withheld>> /\ ahead' \in Int
        /\ outValid /\ ~withheld => ahead' <= ahead - clock
        /\ plan'.offset = 0 \/ plan' = plan
    BY BeginFacts, Zenon
  <2>2. Idle.offset = 0
    BY DEF Idle
  <2> QED
    BY <2>1, <2>2
<1>4. PICK a \in Int : a = ahead'
  BY <1>1
<1>5. Reach' = (a + 0) - 0
  BY <1>1, <1>4 DEF Reach
<1> SUFFICES ASSUME ~withheld', NEW d \in 0..((a + 0) - 0 - 1) PROVE (hw' + d) % N \notin sent'
  BY <1>5 DEF Fresh
<1>2. CASE ~outValid
  BY <1>1, <1>2 DEF PaceInv, Silent
<1>3. CASE outValid
  <2>1. a <= ahead - clock /\ ~withheld
    BY <1>1, <1>3, <1>4
  <2>2. Reach = (ahead + 0) - clock /\ ahead \in Int /\ clock \in Nat
    BY <1>1 DEF Reach, Idle, WindowInv, Typed
  <2> DEFINE r == Reach
  <2>3. r = ahead - clock
    BY <2>2
  <2> HIDE DEF r
  <2>4. d \in 0..(r - 1)
    BY <2>1, <2>2, <2>3
  <2> QED
    BY <1>1, <2>1, <2>4 DEF Fresh, r
<1> QED
  BY <1>2, <1>3

\* The slot just sent is now the farthest.
LEMMA TransmitFresh ==
    ASSUME NEW m \in Nat, KeepsUp(m), WindowInv, PaceInv(m), Fresh, Transmit
    PROVE  Fresh'
<1>1. /\ clock' = clock + 1 /\ clock \in Nat /\ hw' = (hw + 1) % N
      /\ UNCHANGED <<ahead, plan, withheld>>
      /\ sent' = IF slots[hw] = << >> THEN sent ELSE sent \cup {hw}
  BY TransmitClock
<1> SUFFICES ASSUME ~withheld' PROVE Fresh'
  BY DEF Fresh
<1>2. ~withheld
  BY <1>1
<1> DEFINE far == ahead + plan.offset
           r == Reach
<1>3. far \in Int /\ r = far - clock /\ r \in Int /\ r < N
  BY <1>2, Reaches, Zenon
<1>4. Reach' = far - clock'
  BY <1>1 DEF Reach
<1> HIDE DEF far, r
<1>10. PICK c \in Int : c = clock' /\ c = clock + 1
  BY <1>1
<1>11. Reach' = far - c
  BY <1>4, <1>10, Zenon
<1> SUFFICES ASSUME NEW d \in 0..(far - c - 1) PROVE (hw' + d) % N \notin sent'
  BY <1>11 DEF Fresh
<1>5. hw \in 0..(N - 1) /\ N \in Nat \ {0}
  BY Sizes DEF WindowInv, Typed, Slots
<1>6. d + 1 \in 0..(r - 1) /\ d + 1 \in 1..(N - 1) /\ d \in 0..(N - 2)
  BY <1>1, <1>3, <1>5, <1>10
<1>7. (hw' + d) % N = (hw + (d + 1)) % N
  <2>1. 1 \in 0..N /\ d \in 0..N /\ 1 + d < 2 * N - hw /\ 1 + d = d + 1
    BY <1>5, <1>6
  <2>2. (((hw + 1) % N) + d) % N = (hw + (1 + d)) % N
    BY <1>5, <2>1, SlotAfter
  <2> QED
    BY <1>1, <2>1, <2>2, Zenon
<1>8. (hw + (d + 1)) % N \notin sent
  BY <1>2, <1>6 DEF Fresh, r
<1>9. (hw + (d + 1)) % N # hw
  <2> SUFFICES ASSUME (hw + (d + 1)) % N = hw PROVE FALSE
    OBVIOUS
  <2>1. (hw + 0) % N = hw
    BY NoDistance DEF WindowInv, Typed
  <2>2. d + 1 \in 0..(N - 1) /\ 0 \in 0..(N - 1)
    BY <1>5, <1>6
  <2>3. d + 1 = 0
    BY <1>5, <2>1, <2>2, SlotsApart
  <2> QED
    BY <1>6, <2>3
<1> QED
  BY <1>1, <1>7, <1>8, <1>9

\* The packet written is the next one ahead.
LEMMA WriteFresh ==
    ASSUME NEW m \in Nat, KeepsUp(m), WindowInv, PaceInv(m), Fresh, WritePacket
    PROVE  Fresh'
<1>1. /\ pc = "write" /\ plan.left > 0
      /\ UNCHANGED <<hw, ahead, clock, withheld>>
      /\ sent' = sent \ {NextSlot} /\ plan'.offset = plan.offset + 1
  BY WriteFacts
<1> SUFFICES ASSUME ~withheld' PROVE Fresh'
  BY DEF Fresh
<1>2. ~withheld
  BY <1>1
<1> DEFINE r == Reach
<1>3. r \in Int /\ r < N /\ ahead \in Int /\ plan.offset \in Nat /\ clock \in Nat
      /\ ahead + plan.offset <= N - Lead /\ ahead + plan.offset \in Int
      /\ r = (ahead + plan.offset) - clock
  BY <1>2, Reaches DEF WindowInv, Typed
<1>4. PICK o \in Int : o = plan'.offset /\ o = plan.offset + 1
  BY <1>1, <1>3
<1>8. Reach' = (ahead + o) - clock
  BY <1>1, <1>4 DEF Reach
<1> HIDE DEF r
<1> SUFFICES ASSUME NEW d \in 0..((ahead + o) - clock - 1) PROVE (hw' + d) % N \notin sent'
  BY <1>8 DEF Fresh
<1>5. CASE d \in 0..(r - 1)
  BY <1>1, <1>2, <1>5 DEF Fresh, r
<1>6. CASE d = r
  <2>1. /\ hw = (current + clock) % N /\ current \in 0..(N - 1)
        /\ Lead <= ahead /\ clock <= PushTime
    BY <1>1 DEF WindowInv, InWindow, Typed, Slots
  <2> DEFINE far == ahead + plan.offset
  <2>2. current + ahead + plan.offset = current + far
    BY <1>3, <2>1
  <2>3. NextSlot = (current + far) % N
    BY <2>2, Zenon DEF NextSlot
  <2>4. /\ N \in Nat \ {0} /\ clock \in 0..N /\ r \in 0..N /\ clock + r = far
        /\ clock + r < 2 * N - current
    BY <1>3, <2>1, Sizes
  <2> HIDE DEF far
  <2>5. (((current + clock) % N) + r) % N = (current + (clock + r)) % N
    BY <2>1, <2>4, SlotAfter
  <2>6. (hw + r) % N = NextSlot
    BY <2>1, <2>3, <2>4, <2>5, Zenon
  <2> QED
    BY <1>1, <1>6, <2>6
<1>7. d \in 0..(r - 1) \/ d = r
  BY <1>3, <1>4
<1> QED
  BY <1>5, <1>6, <1>7

\* A push that ends a time of withholding has found everything fresh.
LEMMA EndFresh ==
    ASSUME NEW m \in Nat, KeepsUp(m), WindowInv, PaceInv(m), Fresh, EndPush
    PROVE  Fresh'
<1>1. /\ pc = "write" /\ plan' = Idle /\ clock' = clock
      /\ UNCHANGED <<hw, sent>>
      /\ ~withheld' => ahead' = ahead + plan.offset /\ (withheld => Refreshed)
  BY EndFacts
<1> SUFFICES ASSUME ~withheld' PROVE Fresh'
  BY DEF Fresh
<1>2. ahead \in Int /\ plan.offset \in Nat /\ clock \in Nat
  BY DEF WindowInv, Typed
<1> DEFINE far == ahead + plan.offset
<1>3. Reach' = (far + 0) - clock /\ Reach = far - clock /\ far \in Int
  <2>1. Idle.offset = 0
    BY DEF Idle
  <2>2. Reach' = (far + 0) - clock
    BY <1>1, <2>1 DEF Reach
  <2> QED
    BY <1>2, <2>2 DEF Reach
<1>4. PICK r \in Int : r = far - clock
  BY <1>2
<1> HIDE DEF far
<1>7. Reach' = r /\ Reach = r
  BY <1>2, <1>3, <1>4
<1> SUFFICES ASSUME NEW d \in 0..(r - 1) PROVE (hw' + d) % N \notin sent'
  BY <1>7 DEF Fresh
<1>5. CASE ~withheld
  BY <1>1, <1>5, <1>7 DEF Fresh
<1>6. CASE withheld
  <2>1. AdvancedPackets = clock
    <3>1. pointerValid /\ Clocked
      BY <1>1 DEF PaceInv, Filling
    <3> QED
      BY <3>1, AdvancedIsClock
  <2>2. \A e \in 0..(r - 1) : (hw + e) % N \notin sent
    <3>1. Refreshed
      BY <1>1, <1>6
    <3>2. r = (ahead + plan.offset) - AdvancedPackets
      BY <1>4, <2>1 DEF far
    <3> QED
      BY <3>1, <3>2 DEF Refreshed
  <2> QED
    BY <1>1, <2>2, Zenon
<1> QED
  BY <1>5, <1>6

\* The pace is kept, and with it the freshness.
LEMMA FreshStep ==
    ASSUME NEW m \in Nat, KeepsUp(m), WindowInv, PaceInv(m), Fresh, [Next]_vars
    PROVE  PaceInv(m)' /\ Fresh'
<1>1. CASE Transmit
  BY <1>1, TransmitPaces, TransmitFresh
<1>2. CASE AppendAudioOutputBufferToRing
  <2>1. PaceInv(m)'
    BY <1>2, AppendPaces
  <2>2. UNCHANGED <<hw, ahead, plan, clock, sent, withheld>>
    BY <1>2 DEF AppendAudioOutputBufferToRing, cursor, history
  <2> QED
    BY <2>1, <2>2 DEF Fresh, Reach
<1>3. CASE BeginPush
  BY <1>3, BeginPaces, BeginFresh
<1>4. CASE BeginPushBlind
  BY <1>4, BlindPaces
<1>5. CASE WritePacket
  BY <1>5, WritePaces, WriteFresh
<1>6. CASE EndPush
  BY <1>6, EndPaces, EndFresh
<1>7. CASE UNCHANGED vars
  BY <1>7, StutterPaces
<1> QED
  BY <1>1, <1>2, <1>3, <1>4, <1>5, <1>6, <1>7 DEF Next

\* A slot the context sends again is one a push withheld frames from: whatever CoreAudio writes
\* and whenever it pauses, for packets of every mix of sizes up to m frames, and whether syncs
\* and command pointers fail or not, as long as the worker keeps up.
THEOREM ReplayIsWithheldHolds ==
    ASSUME NEW m \in Nat, KeepsUp(m)
    PROVE  Spec => ReplayIsWithheld
<1>1. Init => PaceInv(m) /\ Fresh
  BY InitPace
<1>2. WindowInv /\ PaceInv(m) /\ Fresh /\ [Next]_vars => (PaceInv(m) /\ Fresh)'
  BY FreshStep
<1>3. WindowInv /\ PaceInv(m) /\ Fresh /\ [Next]_vars =>
        [hw' # hw /\ slots[hw] # << >> /\ hw \in sent => withheld]_vars
  <2> SUFFICES ASSUME WindowInv, PaceInv(m), Fresh, [Next]_vars, hw' # hw, slots[hw] # << >>, ~withheld
               PROVE  hw \notin sent
    OBVIOUS
  <2>1. Transmit
    BY DEF Next, AppendAudioOutputBufferToRing, BeginPush, BeginPushBlind, WritePacket, EndPush, vars
  <2>2. CASE ~outValid
    BY <2>2 DEF PaceInv, Silent
  <2>3. CASE outValid
    <3>1. Reach \in Int /\ Reach >= 1
      BY <2>1, <2>3, Reaches
    <3>2. (hw + 0) % N = hw
      BY NoDistance DEF WindowInv, Typed
    <3>3. (hw + 0) % N \notin sent
      BY <3>1 DEF Fresh
    <3> QED
      BY <3>2, <3>3
  <2> QED
    BY <2>2, <2>3
<1> QED
  BY <1>1, <1>2, <1>3, WindowInductive, PTL DEF Spec, ReplayIsWithheld
=============================================================================
