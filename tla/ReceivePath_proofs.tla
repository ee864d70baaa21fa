------------------------- MODULE ReceivePath_proofs -------------------------
(***************************************************************************)
(* The harvest of the receive context, for every size of the ring and every *)
(* limit of the harvest.                                                    *)
(*                                                                          *)
(* As long as nothing was overwritten the filled descriptors are the last   *)
(* "due" packets, they begin at gDigiLiveIRReadIndex, and the command       *)
(* pointer never shows more of them than there are (InTurn).  So the packet *)
(* at the index is the one due, and an empty descriptor there means that    *)
(* none is.  How many may be due is bounded by the pace of the worker: the  *)
(* polls since the last harvest, and what it has taken so far (Behind).     *)
(*                                                                          *)
(* The capture of the cadence does not depend on any of this: it holds no   *)
(* more packets than followed each other without a gap (CInv).              *)
(*                                                                          *)
(* The transmit ring is written once.  Its counters close the circle because *)
(* the blocks of k periods are k times those of one (PeriodsLater).          *)
(***************************************************************************)
EXTENDS ReceivePath, NaturalsInduction, WellFoundedInduction, TLAPS

\* The types of what a harvest computes with
Typed ==
    /\ hardware \in Slots /\ readIndex \in Slots /\ pointer \in Slots \cup {Unknown}
    /\ laps \in Nat /\ backlog \in Int /\ due \in Nat
    /\ slots \in [Slots -> Packets \cup {None}]
    /\ pass \in Nat /\ misses \in Nat /\ since \in Nat /\ stalled \in Nat
    /\ scene \in Scenes

\* The filled descriptors are the packets that came since the last one taken
InTurn ==
    /\ due <= N
    /\ hardware = readIndex + due \/ hardware = (readIndex + due) - N
    /\ \A s \in Slots : ~IsEmpty(s) <=> Age(s) <= due
    /\ pointer # Unknown => backlog + Forward(pointer, hardware) <= due

IInv == overrun \in BOOLEAN /\ (~overrun => Typed /\ InTurn)

-----------------------------------------------------------------------------
(* Arithmetic of the ring. *)

\* A remainder of a number below twice the modulus.
LEMMA ModTwice ==
    ASSUME NEW a \in 0..(2 * N - 1)
    PROVE  a % N = IF a < N THEN a ELSE a - N
<1>. DEFINE q == a \div N
            r == a % N
<1>1. N \in Nat \ {0}
  BY ReceiveAssumption
<1>2. a = N * q + r /\ r \in 0..(N - 1) /\ q \in Int
  BY <1>1, Z3
<1>3. CASE q <= -1
  <2>1. N * q <= -N
    BY <1>1, <1>2, <1>3, Z3
  <2>. QED
    BY <1>1, <1>2, <2>1
<1>4. CASE q >= 2
  <2>1. N * q >= 2 * N
    BY <1>1, <1>2, <1>4, Z3
  <2>. QED
    BY <1>1, <1>2, <2>1
<1>5. CASE q = 0
  BY <1>1, <1>2, <1>5
<1>6. CASE q = 1
  BY <1>1, <1>2, <1>6
<1>. QED
  BY <1>2, <1>3, <1>4, <1>5, <1>6

\* The next slot.
LEMMA NextSlot ==
    ASSUME NEW s \in Slots
    PROVE  /\ (s + 1) % N = IF s = N - 1 THEN 0 ELSE s + 1
           /\ (s + 1) % N \in Slots
           /\ (s + 1) \div N = IF s = N - 1 THEN 1 ELSE 0
<1>1. N \in Nat \ {0} /\ s \in 0..N - 1
  BY ReceiveAssumption DEF Slots
<1>2. (s + 1) % N = IF s + 1 < N THEN s + 1 ELSE (s + 1) - N
  <2>1. s + 1 \in 0..(2 * N - 1)
    BY <1>1
  <2>. QED
    BY <2>1, ModTwice, Zenon
<1>3. (s + 1) \div N = IF s = N - 1 THEN 1 ELSE 0
  <2>1. CASE s = N - 1
    BY <1>1, <2>1, Z3
  <2>2. CASE s # N - 1
    BY <1>1, <2>2, Z3
  <2>. QED
    BY <2>1, <2>2
<1>. QED
  BY <1>1, <1>2, <1>3 DEF Slots

\* How far one slot is ahead of another.
LEMMA Distance ==
    ASSUME NEW from \in Slots, NEW to \in Slots
    PROVE  Forward(from, to) = IF from <= to THEN to - from ELSE (to - from) + N
<1>1. N \in Nat \ {0} /\ from \in 0..N - 1 /\ to \in 0..N - 1
  BY ReceiveAssumption DEF Slots
<1>. DEFINE apart == to + N - from
<1>2. apart \in 0..(2 * N - 1) /\ apart = (to - from) + N
  BY <1>1
<1>3. apart % N = IF apart < N THEN apart ELSE apart - N
  <2>. HIDE DEF apart
  <2>. QED
    BY <1>2, ModTwice, Zenon
<1>. QED
  BY <1>1, <1>2, <1>3 DEF Forward

\* How long ago the context at h filled a slot, if it has not come by since.
LEMMA SlotAge ==
    ASSUME NEW s \in Slots, NEW h \in Slots
    PROVE  Forward(s, (h + N - 1) % N) + 1 = IF s < h THEN h - s ELSE (h - s) + N
<1>1. N \in Nat \ {0} /\ s \in 0..N - 1 /\ h \in 0..N - 1
  BY ReceiveAssumption DEF Slots
<1>. DEFINE last == (h + N - 1) % N
<1>2. last = IF h = 0 THEN N - 1 ELSE h - 1
  <2>. DEFINE a == h + N - 1
  <2>1. a \in 0..(2 * N - 1) /\ a = (h - 1) + N
    BY <1>1
  <2>2. a % N = IF a < N THEN a ELSE a - N
    <3>. HIDE DEF a
    <3>. QED
      BY <2>1, ModTwice, Zenon
  <2>. QED
    BY <1>1, <2>1, <2>2
<1>3. last \in Slots
  BY <1>1, <1>2 DEF Slots
<1>4. Forward(s, last) = IF s <= last THEN last - s ELSE (last - s) + N
  <2>. HIDE DEF last
  <2>. QED
    BY <1>3, Distance
<1>. QED
  BY <1>1, <1>2, <1>4

-----------------------------------------------------------------------------
(* InTurn is kept until a packet is overwritten. *)

\* At first the ring is empty and the context at the index.
LEMMA InitInTurn == Init => IInv
<1>. SUFFICES ASSUME Init PROVE IInv
  OBVIOUS
<1>1. N \in Nat \ {0} /\ 0 \in Slots
  BY ReceiveAssumption DEF Slots
<1>2. overrun = FALSE
  BY DEF Init
<1>3. Typed
  BY <1>1 DEF Init, Typed, ResetCursors, ResetDiagnostics, EmptyRing
<1>4. hardware = 0 /\ due = 0 /\ readIndex = 0 /\ pointer = Unknown /\ slots = EmptyRing
  BY DEF Init, ResetCursors, ResetDiagnostics
<1>5. ASSUME NEW s \in Slots
      PROVE  IsEmpty(s) /\ ~(Age(s) <= 0)
  <2>1. s \in 0..N - 1 /\ IsEmpty(s)
    BY <1>4 DEF Slots, EmptyRing, IsEmpty
  <2>2. Age(s) = N - s
    BY <1>1, <1>4, <2>1, SlotAge DEF Age
  <2>. QED
    BY <1>1, <2>1, <2>2
<1>6. InTurn
  BY <1>1, <1>4, <1>5 DEF InTurn
<1>. QED
  BY <1>2, <1>3, <1>6 DEF IInv

\* A packet arrives in the slot that is next.  If that is filled, the ring is full.
LEMMA ReceiveInTurn ==
    ASSUME Typed, InTurn, ~overrun, Receive, ~overrun'
    PROVE  Typed' /\ InTurn' /\ due < N /\ due' = due + 1
<1>. USE DEF Typed
<1>1. /\ N \in Nat \ {0} /\ hardware \in 0..N - 1 /\ readIndex \in 0..N - 1
      /\ hardware' = IF hardware = N - 1 THEN 0 ELSE hardware + 1
      /\ hardware' \in Slots
  BY ReceiveAssumption, NextSlot DEF Receive, Slots
<1>2. /\ UNCHANGED <<readIndex, pointer, laps, backlog, pass, misses, scene>>
      /\ due' = Least(due + 1, 2 * N)
      /\ IsEmpty(hardware)
  BY DEF Receive, cursors, locals
<1>3. PICK p \in Packets : slots' = [slots EXCEPT ![hardware] = p]
  <2>1. scene.sizes \in SUBSET (Sizes \cup {0})
    BY SceneAssumption
  <2>2. PICK size \in scene.sizes, gap \in BOOLEAN :
            slots' = [slots EXCEPT ![hardware] = [size |-> size, gap |-> gap]]
    BY DEF Receive
  <2>3. [size |-> size, gap |-> gap] \in Packets
    BY <2>1, <2>2 DEF Packets, Sizes
  <2>. QED
    BY <2>2, <2>3
<1>4. p # None
  BY <1>3, EmptyAssumption
<1>5. Age(hardware) = N /\ due < N
  BY <1>1, <1>2, SlotAge DEF InTurn, Age
<1>6. due' = due + 1
  BY <1>1, <1>2, <1>5 DEF Least
<1>7. Typed'
  <2>1. since' \in Nat /\ stalled' \in Nat
    BY DEF Receive
  <2>. QED
    BY <1>1, <1>2, <1>3, <1>6, <2>1
<1>8. hardware' = readIndex' + due' \/ hardware' = (readIndex' + due') - N
  BY <1>1, <1>2, <1>5, <1>6 DEF InTurn
<1>9. ASSUME NEW s \in Slots
      PROVE  ~IsEmpty(s)' <=> Age(s)' <= due'
  <2>1. /\ s \in 0..N - 1
        /\ Age(s) = IF s < hardware THEN hardware - s ELSE (hardware - s) + N
    BY <1>1, SlotAge DEF Slots, Age
  <2>2. Age(s)' = IF s < hardware' THEN hardware' - s ELSE (hardware' - s) + N
    BY <1>1, SlotAge DEF Age, Forward
  <2>3. ~IsEmpty(s)' <=> (s = hardware \/ ~IsEmpty(s))
    BY <1>3, <1>4, <1>1 DEF IsEmpty, Slots
  <2>4. ~IsEmpty(s) <=> Age(s) <= due
    BY DEF InTurn
  <2>. QED
    BY <1>1, <1>6, <2>1, <2>2, <2>3, <2>4
<1>10. ASSUME pointer # Unknown
       PROVE  backlog + Forward(pointer, hardware') <= due + 1
  <2>1. /\ pointer \in Slots /\ pointer \in 0..N - 1
        /\ Forward(pointer, hardware) =
               IF pointer <= hardware THEN hardware - pointer ELSE (hardware - pointer) + N
        /\ Forward(pointer, hardware') =
               IF pointer <= hardware' THEN hardware' - pointer ELSE (hardware' - pointer) + N
    BY <1>1, <1>10, Distance DEF Slots
  <2>2. backlog + Forward(pointer, hardware) <= due
    BY <1>10 DEF InTurn
  <2>. QED
    BY <1>1, <2>1, <2>2
<1>11. InTurn'
  <2>1. due' <= N
    BY <1>1, <1>5, <1>6
  <2>2. pointer' # Unknown => backlog' + Forward(pointer, hardware)' <= due'
    BY <1>2, <1>6, <1>10 DEF Forward
  <2>. QED
    BY <1>8, <1>9, <2>1, <2>2 DEF InTurn
<1>. QED
  BY <1>5, <1>6, <1>7, <1>11

\* The packet at the index is the oldest, if there is one.
LEMMA OldestAtIndex ==
    ASSUME Typed, InTurn
    PROVE  /\ IsEmpty(readIndex) <=> due = 0
           /\ due # 0 => Age(readIndex) = due
<1>1. /\ N \in Nat \ {0} /\ hardware \in 0..N - 1 /\ readIndex \in 0..N - 1 /\ due \in Nat
      /\ hardware \in Slots /\ readIndex \in Slots
  BY ReceiveAssumption DEF Typed, Slots
<1>2. Age(readIndex) = IF readIndex < hardware THEN hardware - readIndex
                       ELSE (hardware - readIndex) + N
  BY <1>1, SlotAge DEF Age
<1>3. ~IsEmpty(readIndex) <=> Age(readIndex) <= due
  BY <1>1 DEF InTurn
<1>. QED
  BY <1>1, <1>2, <1>3 DEF InTurn

\* An empty descriptor at the index is not jumped over: the command pointer shows no more
\* packets than there are.
LEMMA NoJump ==
    ASSUME Typed, InTurn
    PROVE  ~CatchUp
<1>1. SUFFICES ASSUME CatchUp PROVE FALSE
  OBVIOUS
<1>2. due = 0 /\ pointer # Unknown /\ backlog >= CatchUpMin
  BY <1>1, OldestAtIndex DEF CatchUp, MayCatchUp
<1>3. /\ N \in Nat \ {0} /\ hardware \in Slots /\ pointer \in Slots
      /\ CatchUpMin \in Nat \ {0} /\ backlog \in Int
  BY <1>2, ReceiveAssumption DEF Typed
<1>4. Forward(pointer, hardware) \in Nat
  BY <1>3, Distance DEF Slots
<1>. QED
  BY <1>2, <1>3, <1>4 DEF InTurn

\* The steps of a harvest that take no packet.
LEMMA LookInTurn ==
    ASSUME Typed, InTurn,
           Poll \/ ReadByteCount \/ StopLooking \/ EndHarvest \/ UNCHANGED vars
    PROVE  Typed' /\ InTurn' /\ UNCHANGED due
<1>1. UNCHANGED <<slots, hardware, cursors, due, stalled, scene>>
  <2>1. CASE Poll
    BY <2>1 DEF Poll, diagnostics
  <2>2. CASE ReadByteCount
    BY <2>2 DEF ReadByteCount, diagnostics, bounds
  <2>3. CASE StopLooking
    BY <2>3 DEF StopLooking, diagnostics, bounds
  <2>4. CASE EndHarvest
    BY <2>4 DEF EndHarvest, diagnostics, bounds
  <2>5. CASE UNCHANGED vars
    BY <2>5 DEF vars, diagnostics, bounds
  <2>. QED
    BY <2>1, <2>2, <2>3, <2>4, <2>5
<1>2. misses' \in Nat /\ pass' \in Nat /\ since' \in Nat
  <2>1. CASE Poll
    BY <2>1, ReceiveAssumption DEF Poll, Typed, Least, locals
  <2>2. CASE ReadByteCount
    BY <2>2 DEF ReadByteCount, Typed, gate, bounds
  <2>3. CASE StopLooking
    BY <2>3 DEF StopLooking, Typed, gate, bounds, locals
  <2>4. CASE EndHarvest
    BY <2>4 DEF EndHarvest, Typed, bounds
  <2>5. CASE UNCHANGED vars
    BY <2>5 DEF vars, Typed, gate, bounds, locals
  <2>. QED
    BY <2>1, <2>2, <2>3, <2>4, <2>5
<1>. QED
  BY <1>1, <1>2 DEF Typed, InTurn, cursors, IsEmpty, Age, Forward

\* A command pointer that is read is not ahead of the context, and where it starts again
\* it counts at most the packets that are in the ring.
LEMMA PointerInTurn ==
    ASSUME Typed, InTurn, ReadCommandPtr
    PROVE  Typed' /\ InTurn' /\ UNCHANGED due
<1>1. /\ UNCHANGED <<slots, hardware, readIndex, laps, locals, gate, due, since, stalled, scene>>
      /\ \/ pointer' = Unknown /\ backlog' = 0
         \/ pointer' = hardware /\ pointer = Unknown /\ backlog' = hardware - (readIndex + N * laps)
         \/ /\ pointer' = hardware /\ pointer # Unknown
            /\ backlog' = backlog + Forward(pointer, hardware)
  BY DEF ReadCommandPtr, UpdateIRCursor, diagnostics
<1>2. /\ N \in Nat \ {0} /\ hardware \in 0..N - 1 /\ readIndex \in 0..N - 1 /\ due \in Nat
      /\ hardware \in Slots /\ backlog \in Int /\ laps \in Nat
      /\ pointer \in Slots \/ pointer = Unknown
  BY ReceiveAssumption DEF Typed, Slots
<1>3. N * laps \in Nat
  BY <1>2
<1>4. pointer # Unknown => Forward(pointer, hardware) \in Nat
  BY <1>2, Distance DEF Slots
<1>5. Forward(hardware, hardware) = 0
  BY <1>2, Distance
<1>6. backlog' \in Int /\ pointer' \in Slots \cup {Unknown}
  BY <1>1, <1>2, <1>3, <1>4
<1>7. pointer' # Unknown => backlog' + Forward(pointer', hardware) <= due
  BY <1>1, <1>2, <1>3, <1>4, <1>5 DEF InTurn
<1>8. Typed'
  BY <1>1, <1>6 DEF Typed, locals, gate
<1>. QED
  BY <1>1, <1>7, <1>8 DEF InTurn, IsEmpty, Age, Forward

\* The oldest packet is taken.
LEMMA TakeInTurn ==
    ASSUME Typed, InTurn, TakePacket
    PROVE  Typed' /\ InTurn' /\ Age(readIndex) = due /\ due # 0 /\ due' = due - 1
<1>1. Age(readIndex) = due /\ due # 0
  BY OldestAtIndex DEF TakePacket
<1>2. /\ UNCHANGED <<hardware, pointer, misses, since, stalled, scene>>
      /\ slots' = [slots EXCEPT ![readIndex] = None]
      /\ due' = due - 1 /\ pass' = pass + 1
      /\ MoveOn(1)
  BY <1>1 DEF TakePacket, ResetDigiLiveDescriptor, gate, bounds
<1>3. /\ N \in Nat \ {0} /\ hardware \in 0..N - 1 /\ readIndex \in 0..N - 1 /\ due \in Nat
      /\ hardware \in Slots /\ readIndex \in Slots /\ backlog \in Int /\ laps \in Nat
      /\ pass \in Nat /\ slots \in [Slots -> Packets \cup {None}]
  BY ReceiveAssumption DEF Typed, Slots
<1>4. readIndex' = (IF readIndex = N - 1 THEN 0 ELSE readIndex + 1) /\ readIndex' \in Slots
  BY <1>2, <1>3, NextSlot DEF MoveOn
<1>5. laps' \in Nat
  <2>1. (readIndex + 1) \div N \in Nat
    BY <1>3, NextSlot
  <2>2. scene.laps \in Nat
    BY SceneAssumption DEF Typed
  <2>. QED
    BY <1>2, <1>3, <2>1, <2>2 DEF MoveOn, Least
<1>6. backlog' = IF pointer = Unknown THEN backlog ELSE backlog - 1
  BY <1>2 DEF MoveOn
<1>7. Typed'
  BY <1>1, <1>2, <1>3, <1>4, <1>5, <1>6 DEF Typed
<1>8. ASSUME NEW s \in Slots
      PROVE  ~IsEmpty(s)' <=> Age(s)' <= due'
  <2>1. Age(s)' = Age(s)
    BY <1>2 DEF Age, Forward
  <2>2. /\ s \in 0..N - 1
        /\ Age(s) = IF s < hardware THEN hardware - s ELSE (hardware - s) + N
    BY <1>3, SlotAge DEF Slots, Age
  <2>3. IsEmpty(s)' <=> (IsEmpty(s) \/ s = readIndex)
    BY <1>2, <1>3 DEF IsEmpty
  <2>4. ~IsEmpty(s) <=> Age(s) <= due
    BY DEF InTurn
  <2>5. Age(readIndex) = IF readIndex < hardware THEN hardware - readIndex
                         ELSE (hardware - readIndex) + N
    BY <1>3, SlotAge DEF Age
  <2>. QED
    BY <1>1, <1>2, <1>3, <2>1, <2>2, <2>3, <2>4, <2>5
<1>9. pointer' # Unknown => backlog' + Forward(pointer, hardware)' <= due'
  <2>1. pointer # Unknown => Forward(pointer, hardware) \in Nat
    BY <1>3, Distance DEF Slots, Typed
  <2>. QED
    BY <1>2, <1>3, <1>6, <2>1 DEF InTurn, Forward
<1>10. InTurn'
  <2>1. due' <= N
    BY <1>2, <1>3 DEF InTurn
  <2>2. hardware' = readIndex' + due' \/ hardware' = (readIndex' + due') - N
    BY <1>1, <1>2, <1>3, <1>4 DEF InTurn
  <2>. QED
    BY <1>8, <1>9, <2>1, <2>2 DEF InTurn
<1>. QED
  BY <1>1, <1>2, <1>7, <1>10

\* No step breaks the order, but one that overwrites a packet.
LEMMA NextInTurn == IInv /\ [Next]_vars => IInv'
<1>. SUFFICES ASSUME IInv, [Next]_vars PROVE IInv'
  OBVIOUS
<1>1. overrun' \in BOOLEAN /\ (overrun => overrun')
  <2>1. CASE Receive
    BY <2>1 DEF Receive, IInv
  <2>2. UNCHANGED overrun \/ Receive
    BY DEF Next, HarvestDigiLiveIsoStream, Poll, ReadCommandPtr, ReadByteCount, CatchUp,
           StopLooking, TakePacket, EndHarvest, vars, bounds
  <2>. QED
    BY <2>1, <2>2 DEF IInv
<1>2. ASSUME ~overrun'
      PROVE  Typed' /\ InTurn'
  BY <1>1, <1>2, ReceiveInTurn, NoJump, LookInTurn, PointerInTurn, TakeInTurn
  DEF IInv, Next, HarvestDigiLiveIsoStream
<1>. QED
  BY <1>1, <1>2 DEF IInv

\* While nothing was overwritten, the index and the ages agree.
LEMMA Ordered == Spec => []IInv
BY InitInTurn, NextInTurn, PTL DEF Spec

\* HarvestDigiLiveIsoStream takes every packet once and in order: the one at the index is
\* the packet after the one taken last.
THEOREM InSequenceHolds == Spec => InSequence
<1>1. IInv /\ [Next]_vars => [~overrun /\ TakesPacket => Age(readIndex) = due]_vars
  <2>1. SUFFICES ASSUME IInv, ~overrun, TakesPacket
                 PROVE  Age(readIndex) = due
    OBVIOUS
  <2>. QED
    BY <2>1, OldestAtIndex DEF IInv, TakesPacket
<1>. QED
  BY <1>1, Ordered, PTL DEF Spec, InSequence

\* CatchUpDigiLiveIRReadIndexAfterEmptyDescriptor never skips a packet that is still there:
\* it goes ahead only after the context has come round and overwritten packets.
THEOREM CatchUpOnlyBehind == Spec => [][CatchUp => overrun]_vars
<1>1. IInv /\ [Next]_vars => [CatchUp => overrun]_vars
  BY NoJump DEF IInv
<1>. QED
  BY <1>1, Ordered, PTL DEF Spec

-----------------------------------------------------------------------------
(* A worker that keeps its pace loses nothing. *)

\* At this pace a harvest empties what came since the last one, however long it was put
\* off, and the ring holds what comes meanwhile.
Sustainable(pace) ==
    /\ MissBypass * pace <= MaxPerPass
    /\ MissBypass * pace + pace <= N

\* The polls that were put off since the last harvest are no more than these
PutOffs == IF misses < MissBypass THEN misses ELSE MissBypass - 1

\* How far the worker is behind at most
Behind(pace) ==
    /\ since <= pace
    /\ pc \in {"idle", "pointer", "look", "status", "end"}
    /\ pc = "idle" => due <= since + PutOffs * pace /\ pass = 0
    /\ pc \in {"pointer", "look", "status"} => due + pass <= MissBypass * pace + since
    /\ pc = "end" => due <= since

KInv == IInv /\ scene \in Scenes /\ (scene.stall = 0 => ~overrun /\ Behind(scene.pace))

\* Products that the bounds need.
LEMMA Products ==
    ASSUME NEW pace \in Nat, NEW m \in Nat, NEW b \in Nat \ {0}
    PROVE  /\ m * pace \in Nat /\ b * pace \in Nat
           /\ (m + 1) * pace = m * pace + pace
           /\ (b - 1) * pace = b * pace - pace
           /\ m < b => m * pace + pace <= b * pace
<1>1. m * pace \in Nat /\ b * pace \in Nat
  OBVIOUS
<1>2. (m + 1) * pace = m * pace + pace /\ (b - 1) * pace = b * pace - pace
  OBVIOUS
<1>3. ASSUME m < b
      PROVE  m * pace + pace <= b * pace
  <2>1. PICK d \in Nat : b = (m + 1) + d
    <3>1. b - (m + 1) \in Nat /\ b = (m + 1) + (b - (m + 1))
      BY <1>3
    <3>. QED
      BY <3>1
  <2>2. b * pace = (m + 1) * pace + d * pace /\ d * pace \in Nat
    BY <2>1
  <2>. QED
    BY <1>1, <1>2, <2>2
<1>. QED
  BY <1>1, <1>2, <1>3

\* The worker stays no further behind.
LEMMA NextBehind ==
    ASSUME \A s \in Scenes : s.stall = 0 => Sustainable(s.pace),
           KInv, [Next]_vars
    PROVE  KInv'
<1>1. IInv' /\ UNCHANGED scene /\ scene \in Scenes
  <2>1. UNCHANGED scene
    BY DEF Next, HarvestDigiLiveIsoStream, Receive, Poll, ReadCommandPtr, ReadByteCount,
           CatchUp, StopLooking, TakePacket, EndHarvest, vars, bounds
  <2>. QED
    BY <2>1, NextInTurn DEF KInv
<1>2. SUFFICES ASSUME scene.stall = 0
               PROVE  ~overrun' /\ Behind(scene.pace)'
  BY <1>1 DEF KInv
<1>. DEFINE pace == scene.pace
<1>3. /\ pace \in Nat /\ Sustainable(pace) /\ ~overrun /\ Behind(pace) /\ Typed /\ InTurn
      /\ overrun \in BOOLEAN /\ pace' = pace
  BY <1>1, <1>2, SceneAssumption DEF KInv, IInv
<1>4. /\ MissBypass \in Nat \ {0} /\ MaxPerPass \in Nat \ {0} /\ N \in Nat \ {0}
      /\ due \in Nat /\ pass \in Nat /\ since \in Nat /\ misses \in Nat /\ stalled \in Nat
  BY <1>3, ReceiveAssumption DEF Typed
<1>5. PutOffs \in Nat /\ PutOffs < MissBypass
  BY <1>4 DEF PutOffs
<1>6. /\ PutOffs * pace \in Nat /\ MissBypass * pace \in Nat
      /\ PutOffs * pace + pace <= MissBypass * pace
  BY <1>3, <1>4, <1>5, Products
<1>7. due <= MissBypass * pace + since
  BY <1>3, <1>4, <1>6 DEF Behind
<1>8. ASSUME UNCHANGED overrun, Behind(pace)'
      PROVE  ~overrun' /\ Behind(scene.pace)'
  BY <1>1, <1>3, <1>8 DEF Behind
<1>. HIDE DEF pace
<1>9. CASE Receive
  <2>1. since < pace /\ since' = since + 1 /\ UNCHANGED <<pc, pass, misses>>
    BY <1>2, <1>4, <1>9 DEF Receive, locals, pace
  <2>2. due < N
    BY <1>3, <1>4, <1>6, <1>7, <2>1 DEF Sustainable
  <2>3. ~overrun'
    <3>1. /\ hardware \in Slots /\ hardware \in 0..N - 1
          /\ ~IsEmpty(hardware) <=> Age(hardware) <= due
      BY <1>3 DEF Typed, InTurn, Slots
    <3>2. Age(hardware) = N
      BY <1>4, <3>1, SlotAge DEF Age
    <3>. QED
      BY <1>3, <1>4, <1>9, <2>2, <3>1, <3>2 DEF Receive
  <2>4. due' = due + 1
    BY <1>3, <1>9, <2>3, ReceiveInTurn
  <2>5. Behind(pace)'
    BY <1>3, <1>4, <1>6, <2>1, <2>4 DEF Behind, PutOffs, pace
  <2>. QED
    BY <2>3, <2>5 DEF pace
<1>10. CASE Poll
  <2>1. /\ pc = "idle" /\ since' = 0 /\ UNCHANGED <<pass, due, overrun>>
        /\ \/ pc' = "pointer"
           \/ pc' = "idle" /\ misses + 1 < MissBypass /\ misses' = misses + 1
    BY <1>4, <1>10 DEF Poll, PutOff, Least, locals, diagnostics
  <2>2. pass = 0 /\ due <= since + PutOffs * pace /\ since <= pace
    BY <1>3, <2>1 DEF Behind
  <2>3. CASE pc' = "pointer"
    <3>1. Behind(pace)'
      BY <1>3, <1>4, <1>6, <2>1, <2>2, <2>3 DEF Behind
    <3>. QED
      BY <1>8, <2>1, <3>1
  <2>4. CASE pc' = "idle" /\ misses + 1 < MissBypass /\ misses' = misses + 1
    <3>1. PutOffs = misses /\ PutOffs' = misses + 1
      BY <1>4, <2>4 DEF PutOffs
    <3>2. (misses + 1) * pace = misses * pace + pace
      BY <1>3, <1>4, Products
    <3>3. due' <= since' + PutOffs' * pace
      BY <1>3, <1>4, <1>6, <2>1, <2>2, <3>1, <3>2
    <3>4. Behind(pace)'
      BY <1>3, <2>1, <2>2, <2>4, <3>3 DEF Behind
    <3>. QED
      BY <1>8, <2>1, <3>4
  <2>. QED
    BY <2>1, <2>3, <2>4
<1>11. CASE ReadCommandPtr \/ ReadByteCount
  <2>1. /\ pc \in {"pointer", "look"} /\ pc' \in {"look", "status"}
        /\ UNCHANGED <<pass, due, since, overrun>>
    BY <1>11 DEF ReadCommandPtr, ReadByteCount, locals, diagnostics, bounds
  <2>2. Behind(pace)'
    BY <1>3, <2>1 DEF Behind
  <2>. QED
    BY <1>8, <2>1, <2>2
<1>12. CASE StopLooking
  <2>1. /\ pc \in {"look", "status"} /\ pc' = "end" /\ UNCHANGED <<pass, due, since, overrun>>
        /\ pass = MaxPerPass \/ IsEmpty(readIndex)
    BY <1>12 DEF StopLooking, locals, diagnostics, bounds
  <2>2. pass = MaxPerPass \/ due = 0
    BY <1>3, <2>1, OldestAtIndex
  <2>3. due <= since
    BY <1>3, <1>4, <1>6, <2>1, <2>2 DEF Behind, Sustainable
  <2>4. Behind(pace)'
    BY <1>3, <2>1, <2>3 DEF Behind
  <2>. QED
    BY <1>8, <2>1, <2>4
<1>13. CASE TakePacket
  <2>1. /\ pc = "status" /\ pc' = "look" /\ pass' = pass + 1 /\ UNCHANGED <<since, overrun>>
    BY <1>13 DEF TakePacket, bounds
  <2>2. due' = due - 1 /\ due # 0
    BY <1>3, <1>13, TakeInTurn
  <2>3. due' + pass' <= MissBypass * pace + since
    BY <1>3, <1>4, <1>6, <2>1, <2>2 DEF Behind
  <2>4. Behind(pace)'
    BY <1>3, <2>1, <2>3 DEF Behind
  <2>. QED
    BY <1>8, <2>1, <2>4
<1>14. CASE EndHarvest
  <2>1. pc = "end" /\ pc' = "idle" /\ pass' = 0 /\ UNCHANGED <<due, since, misses, overrun>>
    BY <1>14 DEF EndHarvest, diagnostics, bounds
  <2>2. due <= since + PutOffs * pace
    BY <1>3, <1>4, <1>6, <2>1 DEF Behind
  <2>3. PutOffs' = PutOffs
    BY <2>1 DEF PutOffs
  <2>4. Behind(pace)'
    BY <1>3, <2>1, <2>2, <2>3 DEF Behind
  <2>. QED
    BY <1>8, <2>1, <2>4
<1>15. CASE UNCHANGED vars
  <2>1. UNCHANGED <<pc, pass, due, since, misses, overrun>>
    BY <1>15 DEF vars, locals, diagnostics, bounds, gate
  <2>2. Behind(pace)'
    BY <1>3, <2>1 DEF Behind, PutOffs
  <2>. QED
    BY <1>8, <2>1, <2>2
<1>. QED
  BY <1>3, <1>9, <1>10, <1>11, <1>12, <1>13, <1>14, <1>15, NoJump
  DEF Next, HarvestDigiLiveIsoStream

\* A worker that polls at a pace the gate and the limit can sustain never lets the context
\* lap it.  With the constants of the driver (a bypass after 4 misses, 512 descriptors in a
\* harvest, 2048 in the ring) that is a poll in every 128 packets, 16 milliseconds.
THEOREM NothingOverwrittenHolds ==
    ASSUME \A s \in Scenes : s.stall = 0 => Sustainable(s.pace)
    PROVE  Spec => []NothingOverwritten
<1>1. Init => KInv
  <2>1. SUFFICES ASSUME Init PROVE KInv
    OBVIOUS
  <2>2. scene \in Scenes /\ ~overrun /\ pc = "idle" /\ since = 0 /\ due = 0 /\ pass = 0 /\ misses = 0
    BY <2>1 DEF Init, ResetDiagnostics
  <2>3. scene.pace \in Nat /\ MissBypass \in Nat \ {0}
    BY <2>2, SceneAssumption, ReceiveAssumption
  <2>4. PutOffs = 0
    BY <2>2, <2>3 DEF PutOffs
  <2>5. Behind(scene.pace)
    BY <2>2, <2>3, <2>4 DEF Behind
  <2>. QED
    BY <2>1, <2>2, <2>5, InitInTurn DEF KInv
<1>2. KInv /\ [Next]_vars => KInv'
  BY NextBehind
<1>3. KInv => NothingOverwritten
  BY DEF KInv, NothingOverwritten
<1>. QED
  BY <1>1, <1>2, <1>3, PTL DEF Spec

-----------------------------------------------------------------------------
(* The captured cadence is one of packets that followed each other. *)

\* The capture never holds more packets than came without a gap
CInv ==
    /\ period \in Seq(Sizes) /\ streak \in 0..Period
    /\ phase = None => /\ Least(Len(period), Period) <= streak
                       /\ expected = "unset" => period = << >>

\* One packet is captured, or the capture starts again.
LEMMA RecordGenuine ==
    ASSUME CInv, NEW size, NEW follows \in BOOLEAN,
           RecordCadence(size, expected = "unset" \/ (expected = "next" /\ follows)),
           expected' # "unset",
           streak' = IF size \notin Sizes THEN 0
                     ELSE IF follows THEN Least(streak + 1, Period) ELSE 1
    PROVE  CInv' /\ (phase = None /\ phase' # None => streak' = Period)
<1>. DEFINE continuous == expected = "unset" \/ (expected = "next" /\ follows)
            captured == Append(period, size)
<1>1. /\ Period \in Nat \ {0} /\ period \in Seq(Sizes) /\ Len(period) \in Nat
      /\ streak \in Nat /\ streak <= Period
  BY CadenceAssumption DEF CInv
<1>2. streak' \in 0..Period
  BY <1>1 DEF Least
<1>3. CASE phase # None
  BY <1>1, <1>2, <1>3 DEF RecordCadence, CInv
<1>4. CASE phase = None /\ ~Captures(size, continuous)
  BY <1>1, <1>2, <1>4 DEF RecordCadence, ResetCapture, CInv, Least
<1>5. CASE phase = None /\ Captures(size, continuous)
  <2>1. /\ size \in Sizes /\ captured \in Seq(Sizes) /\ Len(captured) = Len(period) + 1
        /\ follows \/ Len(period) = 0
    BY <1>1, <1>5 DEF Captures, CInv
  <2>2. Least(Len(captured), Period) <= streak'
    BY <1>1, <1>5, <2>1 DEF Least, CInv
  <2>3. CASE period' = captured /\ UNCHANGED phase
    BY <1>2, <1>5, <2>1, <2>2, <2>3 DEF CInv
  <2>4. CASE ResetCapture
    BY <1>1, <1>2, <1>5, <2>4 DEF ResetCapture, CInv, Least
  <2>5. CASE period' = captured /\ ~(Len(captured) < Period)
    <3>1. streak' = Period
      BY <1>1, <1>2, <2>1, <2>2, <2>5 DEF Least
    <3>. QED
      BY <1>2, <2>1, <2>2, <2>5, <3>1 DEF CInv
  <2>. QED
    BY <1>5, <2>3, <2>4, <2>5 DEF RecordCadence
<1>. QED
  BY <1>3, <1>4, <1>5

\* The same for a step of the receive path.
LEMMA NextGenuine ==
    ASSUME CInv, [Next]_vars
    PROVE  CInv' /\ (phase = None /\ phase' # None => streak' = Period)
<1>1. CASE TakePacket
  <2>. DEFINE packet == slots[readIndex]
  <2>1. RecordCadence(seen, expected = "unset" \/ (expected = "next" /\ Follows(packet)))
    BY <1>1 DEF TakePacket, RecordPacket, ContinuousForReplay
  <2>2. Follows(packet) \in BOOLEAN
    BY DEF Follows
  <2>3. /\ expected' # "unset"
        /\ streak' = IF seen \notin Sizes THEN 0
                     ELSE IF Follows(packet) THEN Least(streak + 1, Period) ELSE 1
    BY <1>1 DEF TakePacket
  <2>. QED
    BY <2>1, <2>2, <2>3, RecordGenuine
<1>2. CASE EndHarvest
  <2>1. UNCHANGED <<period, phase, expected, streak>>
    BY <1>2 DEF EndHarvest, Refresh, cadence, diagnostics
  <2>. QED
    BY <2>1 DEF CInv
<1>3. CASE \/ Receive \/ Poll \/ ReadCommandPtr \/ ReadByteCount \/ CatchUp \/ StopLooking
           \/ UNCHANGED vars
  <2>1. UNCHANGED <<period, phase, expected, streak>>
    BY <1>3 DEF Receive, Poll, ReadCommandPtr, ReadByteCount, CatchUp, StopLooking, vars,
                cadence, diagnostics
  <2>. QED
    BY <2>1 DEF CInv
<1>. QED
  BY <1>1, <1>2, <1>3 DEF Next, HarvestDigiLiveIsoStream

\* RecordDigiLiveRxCadencePacket learns a cadence only from a whole period of packets that
\* followed each other, whatever is lost, misread or taken out of order.
THEOREM CadenceGenuineHolds == Spec => CadenceGenuine
<1>1. Init => CInv
  BY CadenceAssumption DEF Init, CInv, CadenceInit, ResetDiagnostics, Least
<1>2. CInv /\ [Next]_vars => CInv' /\ [phase = None /\ phase' # None => streak' = Period]_vars
  BY NextGenuine
<1>. QED
  BY <1>1, <1>2, PTL DEF Spec, CadenceGenuine

-----------------------------------------------------------------------------
(* The transmit ring.  BlocksSent is a recursive function, and that there is a *)
(* function of its equation is proved first.                                 *)

\* The induction principle, about a set.
LEMMA Induction ==
    ASSUME NEW S, 0 \in S, \A n \in Nat : n \in S => n + 1 \in S
    PROVE  Nat \subseteq S
<1>. DEFINE T == Nat \ S
<1>1. SUFFICES ASSUME T # {} PROVE FALSE
  OBVIOUS
<1>2. PICK c \in T : \A d \in T : <<d, c>> \notin OpToRel(<, Nat)
  BY <1>1, WFMin, NatLessThanWellFounded, Zenon
<1>3. c \in Nat /\ c # 0 /\ \A d \in T : ~(d < c)
  BY <1>2, Zenon DEF OpToRel
<1>4. c - 1 \in Nat /\ c - 1 < c /\ (c - 1) + 1 = c
  BY <1>3
<1>5. c - 1 \in S
  BY <1>3, <1>4
<1>. QED
  BY <1>2, <1>4, <1>5

\* What a counter becomes with packet p
AfterPacket(v, p) == (v + Ideal[(p - 1) % Period]) % Counts

\* The function g counts the first n packets
CountsTo(g, n) ==
    /\ g \in [0..n -> 0..Counts - 1]
    /\ g[0] = 0
    /\ \A p \in 1..n : g[p] = AfterPacket(g[p - 1], p)

\* A counter stays in its range.
LEMMA InRange ==
    ASSUME NEW v \in Nat, NEW p \in Nat \ {0}
    PROVE  /\ Ideal[(p - 1) % Period] \in Sizes
           /\ AfterPacket(v, p) \in 0..Counts - 1
<1>1. Period \in Nat \ {0} /\ Counts \in Nat \ {0}
  BY CadenceAssumption
<1>2. p - 1 \in Nat
  OBVIOUS
<1>3. (p - 1) % Period \in Phases
  BY <1>1, <1>2, Z3 DEF Phases
<1>4. Ideal[(p - 1) % Period] \in Sizes
  BY <1>3, CadenceAssumption
<1>. DEFINE w == v + Ideal[(p - 1) % Period]
<1>5. w \in Nat
  BY <1>4 DEF Sizes
<1>. HIDE DEF w
<1>6. w % Counts \in 0..Counts - 1
  BY <1>1, <1>5, Z3
<1>. QED
  BY <1>4, <1>6 DEF AfterPacket, w

\* Any number of packets can be counted.
LEMMA CountingExists == \A n \in Nat : \E g : CountsTo(g, n)
<1>. DEFINE S == {n \in Nat : \E g : CountsTo(g, n)}
<1>1. 0 \in S
  <2>1. CountsTo([p \in 0..0 |-> 0], 0)
    BY CadenceAssumption DEF CountsTo
  <2>. QED
    BY <2>1
<1>2. ASSUME NEW n \in Nat, n \in S PROVE n + 1 \in S
  <2>1. PICK g : CountsTo(g, n)
    BY <1>2
  <2>. DEFINE h == [p \in 0..n + 1 |-> IF p = n + 1 THEN AfterPacket(g[n], n + 1) ELSE g[p]]
  <2>2. g[n] \in Nat /\ g \in [0..n -> 0..Counts - 1]
    BY <2>1, CadenceAssumption DEF CountsTo
  <2>3. AfterPacket(g[n], n + 1) \in 0..Counts - 1
    BY <2>2, InRange
  <2>4. h \in [0..n + 1 -> 0..Counts - 1]
    BY <2>2, <2>3
  <2>5. h[0] = 0
    BY <2>1 DEF CountsTo
  <2>6. ASSUME NEW p \in 1..n + 1 PROVE h[p] = AfterPacket(h[p - 1], p)
    <3>1. p - 1 \in 0..n + 1 /\ p - 1 # n + 1 /\ p \in 0..n + 1
      OBVIOUS
    <3>2. h[p - 1] = g[p - 1]
      BY <3>1
    <3>3. CASE p = n + 1
      BY <3>1, <3>2, <3>3
    <3>4. CASE p # n + 1
      <4>1. p \in 1..n /\ h[p] = g[p]
        BY <3>1, <3>4
      <4>. QED
        BY <2>1, <3>2, <4>1 DEF CountsTo
    <3>. QED
      BY <3>3, <3>4
  <2>. HIDE DEF h
  <2>7. CountsTo(h, n + 1)
    BY <2>4, <2>5, <2>6 DEF CountsTo
  <2>. QED
    BY <2>7
<1>. HIDE DEF S
<1>3. Nat \subseteq S
  BY <1>1, <1>2, Induction
<1>. QED
  BY <1>3 DEF S

\* Two counts of some packets agree on the packets that both count.
LEMMA CountingAgrees ==
    ASSUME NEW n \in Nat, NEW m \in Nat, n <= m,
           NEW g, CountsTo(g, n), NEW h, CountsTo(h, m)
    PROVE  g[n] = h[n]
<1>. DEFINE S == {p \in Nat : p <= n => g[p] = h[p]}
<1>1. 0 \in S
  BY DEF CountsTo
<1>2. ASSUME NEW p \in Nat, p \in S PROVE p + 1 \in S
  <2>1. SUFFICES ASSUME p + 1 <= n PROVE g[p + 1] = h[p + 1]
    OBVIOUS
  <2>2. g[p] = h[p] /\ p + 1 \in 1..n /\ p + 1 \in 1..m /\ (p + 1) - 1 = p
    BY <1>2, <2>1
  <2>3. g[p + 1] = AfterPacket(g[p], p + 1) /\ h[p + 1] = AfterPacket(h[p], p + 1)
    BY <2>2 DEF CountsTo
  <2>. QED
    BY <2>2, <2>3
<1>. HIDE DEF S
<1>3. n \in S
  BY <1>1, <1>2, Induction
<1>. QED
  BY <1>3 DEF S

\* BlocksSent is what its definition says.
LEMMA BlocksSentIs ==
    /\ BlocksSent[0] = 0
    /\ \A p \in Nat : BlocksSent[p + 1] = AfterPacket(BlocksSent[p], p + 1)
    /\ \A p \in Nat : BlocksSent[p] \in 0..Counts - 1
<1>. DEFINE Is(f) == f = [p \in Nat |-> IF p = 0 THEN 0 ELSE AfterPacket(f[p - 1], p)]
            count == [n \in Nat |-> CHOOSE g : CountsTo(g, n)]
            f == [n \in Nat |-> count[n][n]]
<1>1. \A n \in Nat : CountsTo(count[n], n)
  BY CountingExists
<1>. HIDE DEF count
<1>2. f[0] = 0
  BY <1>1 DEF CountsTo
<1>3. ASSUME NEW p \in Nat, p # 0 PROVE f[p] = AfterPacket(f[p - 1], p)
  <2>1. p - 1 \in Nat /\ p - 1 <= p /\ p \in 1..p
    BY <1>3
  <2>2. f[p] = count[p][p] /\ f[p - 1] = count[p - 1][p - 1]
    BY <2>1
  <2>3. count[p - 1][p - 1] = count[p][p - 1]
    BY <1>1, <2>1, CountingAgrees
  <2>4. count[p][p] = AfterPacket(count[p][p - 1], p)
    BY <1>1, <2>1 DEF CountsTo
  <2>. QED
    BY <2>2, <2>3, <2>4
<1>4. Is(f)
  <2>. DEFINE e == [p \in Nat |-> IF p = 0 THEN 0 ELSE AfterPacket(f[p - 1], p)]
  <2>1. \A p \in Nat : f[p] = e[p]
    BY <1>2, <1>3
  <2>. QED
    BY <2>1, Zenon
<1>. HIDE DEF f
<1>5. BlocksSent = CHOOSE g : Is(g)
  BY DEF BlocksSent, AfterPacket
<1>6. Is(BlocksSent)
  BY <1>4, <1>5
<1>7. BlocksSent[0] = 0
  BY <1>6
<1>8. ASSUME NEW p \in Nat PROVE BlocksSent[p + 1] = AfterPacket(BlocksSent[p], p + 1)
  <2>1. p + 1 \in Nat /\ p + 1 # 0 /\ (p + 1) - 1 = p
    OBVIOUS
  <2>. QED
    BY <1>6, <2>1
<1>. DEFINE S == {p \in Nat : BlocksSent[p] \in 0..Counts - 1}
<1>9. 0 \in S
  BY <1>7, CadenceAssumption
<1>10. ASSUME NEW p \in Nat, p \in S PROVE p + 1 \in S
  <2>1. BlocksSent[p] \in Nat /\ p + 1 \in Nat \ {0}
    BY <1>10, CadenceAssumption
  <2>. QED
    BY <1>8, <2>1, InRange
<1>. HIDE DEF S
<1>11. Nat \subseteq S
  BY <1>9, <1>10, Induction
<1>. QED
  BY <1>7, <1>8, <1>11 DEF S

\* Division with remainder.
LEMMA Division ==
    ASSUME NEW a \in Nat, NEW n \in Nat \ {0}
    PROVE  \E q \in Int, r \in 0..n - 1 : a = n * q + r /\ a % n = r
<1>. DEFINE q == a \div n
            r == a % n
<1>1. a = n * q + r /\ r \in 0..(n - 1) /\ q \in Int
  BY Z3
<1>. QED
  BY <1>1

\* Numbers that differ by a multiple of the divisor have the same remainder.
LEMMA MultipleApart ==
    ASSUME NEW a \in Nat, NEW b \in Nat, NEW n \in Nat \ {0}, \E k \in Int : a = b + n * k
    PROVE  a % n = b % n
<1>. PICK k \in Int : a = b + n * k
  OBVIOUS
<1>1. PICK p \in Int, r \in 0..n - 1 : a = n * p + r /\ a % n = r
  BY Division
<1>2. PICK q \in Int, s \in 0..n - 1 : b = n * q + s /\ b % n = s
  BY Division
<1>. DEFINE z == p - q - k
<1>3. n * z = n * p - n * q - n * k /\ z \in Int
  BY Z3
<1>. HIDE DEF z
<1>4. n * z = s - r
  BY <1>1, <1>2, <1>3, Z3
<1>5. CASE z <= -1
  <2>1. n * z <= -n
    BY <1>3, <1>5, Z3
  <2>. QED
    BY <1>4, <2>1, Z3
<1>6. CASE z >= 1
  <2>1. n * z >= n
    BY <1>3, <1>6, Z3
  <2>. QED
    BY <1>4, <2>1, Z3
<1>7. CASE z = 0
  <2>1. n * z = 0
    BY <1>7, Z3
  <2>. QED
    BY <1>1, <1>2, <1>4, <2>1, Z3
<1>. QED
  BY <1>3, <1>5, <1>6, <1>7

\* Counting on from a counter is counting on from the number it stands for.
LEMMA CountOn ==
    ASSUME NEW a \in Nat, NEW b \in Nat, NEW n \in Nat \ {0}
    PROVE  ((a % n) + b) % n = (a + b) % n
<1>1. PICK q \in Int, r \in 0..n - 1 : a = n * q + r /\ a % n = r
  BY Division
<1>2. r + b \in Nat /\ a + b \in Nat /\ a + b = (r + b) + n * q
  BY <1>1, Z3
<1>. DEFINE c == a + b
            d == r + b
<1>3. c \in Nat /\ d \in Nat /\ q \in Int /\ c = d + n * q
  BY <1>2
<1>. HIDE DEF c, d
<1>4. c % n = d % n
  <2>1. \E k \in Int : c = d + n * k
    BY <1>3, Zenon
  <2>. QED
    BY <1>3, <2>1, MultipleApart
<1>. QED
  BY <1>1, <1>4 DEF c, d

\* A period of packets moves the counter by the blocks of a period, wherever it begins.
LEMMA PeriodLater ==
    \A a \in Nat : BlocksSent[a + Period] = (BlocksSent[a] + BlocksSent[Period]) % Counts
<1>. DEFINE B == BlocksSent[Period]
            S == {a \in Nat : BlocksSent[a + Period] = (BlocksSent[a] + B) % Counts}
<1>1. Period \in Nat \ {0} /\ Counts \in Nat \ {0} /\ B \in 0..Counts - 1
  BY CadenceAssumption, BlocksSentIs
<1>2. 0 \in S
  <2>1. B % Counts = B
    BY <1>1, Z3
  <2>. QED
    BY <1>1, <2>1, BlocksSentIs
<1>3. ASSUME NEW a \in Nat, a \in S PROVE a + 1 \in S
  <2>. DEFINE i == Ideal[a % Period]
              x == BlocksSent[a]
              y == BlocksSent[a + 1]
              z == BlocksSent[(a + 1) + Period]
  <2>1. a + Period \in Nat /\ a + 1 \in Nat /\ (a + 1) + Period = (a + Period) + 1
    BY <1>1
  <2>2. (a + 1) - 1 = a /\ ((a + Period) + 1) - 1 = a + Period
    BY <2>1
  <2>3. (a + Period) % Period = a % Period
    <3>. DEFINE c == a + Period
    <3>1. c \in Nat /\ \E k \in Int : c = a + Period * k
      <4>1. 1 \in Int /\ c = a + Period * 1 /\ c \in Nat
        BY <1>1
      <4>. QED
        BY <4>1
    <3>. HIDE DEF c
    <3>2. c % Period = a % Period
      BY <1>1, <3>1, MultipleApart
    <3>. QED
      BY <3>2 DEF c
  <2>4. i \in Nat
    <3>1. 0 \in Nat /\ a + 1 \in Nat \ {0}
      OBVIOUS
    <3>2. Ideal[((a + 1) - 1) % Period] \in Sizes
      BY <3>1, InRange
    <3>. QED
      BY <2>2, <3>2 DEF Sizes
  <2>5. x \in Nat /\ B \in Nat
    BY <1>1, BlocksSentIs
  <2>6. y = (x + i) % Counts
    BY <2>2, BlocksSentIs DEF AfterPacket
  <2>7. z = (BlocksSent[a + Period] + i) % Counts
    BY <2>1, <2>2, <2>3, BlocksSentIs DEF AfterPacket
  <2>8. BlocksSent[a + Period] = (x + B) % Counts
    BY <1>3
  <2>. HIDE DEF B, i, x, y, z
  <2>9. z = (((x + B) % Counts) + i) % Counts /\ x + B \in Nat
    BY <2>5, <2>7, <2>8
  <2>10. z = ((x + B) + i) % Counts
    BY <1>1, <2>4, <2>9, CountOn
  <2>11. (y + B) % Counts = ((x + i) + B) % Counts
    <3>1. x + i \in Nat
      BY <2>4, <2>5
    <3>. QED
      BY <1>1, <2>5, <2>6, <3>1, CountOn
  <2>12. (x + B) + i = (x + i) + B
    BY <2>4, <2>5
  <2>13. z = (y + B) % Counts
    BY <2>10, <2>11, <2>12
  <2>. QED
    BY <2>1, <2>13 DEF y, z
<1>. HIDE DEF S
<1>4. Nat \subseteq S
  BY <1>2, <1>3, Induction
<1>. QED
  BY <1>4 DEF S

\* Whole periods move it by a multiple of that.
LEMMA PeriodsLater ==
    \A k \in Nat : BlocksSent[k * Period] = (k * BlocksSent[Period]) % Counts
<1>. DEFINE B == BlocksSent[Period]
            S == {k \in Nat : BlocksSent[k * Period] = (k * B) % Counts}
<1>1. Period \in Nat \ {0} /\ Counts \in Nat \ {0} /\ B \in Nat
  BY CadenceAssumption, BlocksSentIs
<1>2. 0 \in S
  <2>1. 0 * Period = 0 /\ 0 * B = 0 /\ 0 % Counts = 0
    BY <1>1, Z3
  <2>. QED
    BY <2>1, BlocksSentIs
<1>3. ASSUME NEW k \in Nat, k \in S PROVE k + 1 \in S
  <2>1. BlocksSent[k * Period] = (k * B) % Counts
    BY <1>3
  <2>. HIDE DEF B
  <2>2. k * Period \in Nat /\ k * B \in Nat
    BY <1>1, Z3
  <2>3. (k + 1) * Period = k * Period + Period /\ (k + 1) * B = k * B + B
    BY <1>1, Z3
  <2>4. BlocksSent[(k + 1) * Period] = (((k * B) % Counts) + B) % Counts
    BY <2>1, <2>2, <2>3, PeriodLater DEF B
  <2>5. BlocksSent[(k + 1) * Period] = ((k + 1) * B) % Counts
    <3>. DEFINE c == k * B
    <3>1. c \in Nat
      BY <2>2
    <3>. HIDE DEF c
    <3>2. ((c % Counts) + B) % Counts = (c + B) % Counts
      BY <1>1, <3>1, CountOn
    <3>. QED
      BY <2>3, <2>4, <3>2 DEF c
  <2>. QED
    BY <2>5 DEF B
<1>. HIDE DEF S
<1>4. Nat \subseteq S
  BY <1>2, <1>3, Induction
<1>. QED
  BY <1>4 DEF S

\* After the whole ring the counter is where it began.
LEMMA RingCloses == BlocksSent[TransmitPackets] = 0
<1>. DEFINE B == BlocksSent[Period]
<1>1. /\ Period \in Nat \ {0} /\ Counts \in Nat \ {0} /\ TransmitPackets \in Nat \ {0}
      /\ TransmitPackets % (Period * Counts) = 0 /\ B \in Nat
  BY CadenceAssumption, BlocksSentIs
<1>. HIDE DEF B
<1>2. Period * Counts \in Nat \ {0}
  BY <1>1, Z3
<1>3. PICK m \in Int : TransmitPackets = (Period * Counts) * m
  <2>. DEFINE n == Period * Counts
  <2>1. n \in Nat \ {0} /\ TransmitPackets % n = 0
    BY <1>1, <1>2
  <2>. HIDE DEF n
  <2>2. PICK m \in Int, r \in 0..n - 1 : TransmitPackets = n * m + r /\ TransmitPackets % n = r
    BY <1>1, <2>1, Division
  <2>3. TransmitPackets = n * m
    BY <1>1, <2>1, <2>2, Z3
  <2>. QED
    BY <2>3 DEF n
<1>. DEFINE k == Counts * m
            j == m * B
<1>4. m \in Nat
  <2>1. CASE m <= -1
    <3>1. (Period * Counts) * m <= 0
      BY <1>2, <2>1, Z3
    <3>. QED
      BY <1>1, <1>3, <3>1
  <2>. QED
    BY <2>1
<1>5. k \in Nat /\ j \in Nat /\ TransmitPackets = k * Period /\ k * B = Counts * j
  BY <1>1, <1>3, <1>4, Z3
<1>. HIDE DEF k, j
<1>6. BlocksSent[TransmitPackets] = (k * B) % Counts
  BY <1>5, PeriodsLater DEF B
<1>7. (Counts * j) % Counts = 0
  <2>. DEFINE c == Counts * j
  <2>1. c \in Nat /\ 0 % Counts = 0 /\ \E i \in Int : c = 0 + Counts * i
    <3>1. c \in Nat /\ j \in Int /\ c = 0 + Counts * j /\ 0 % Counts = 0
      BY <1>1, <1>5, Z3
    <3>. QED
      BY <3>1
  <2>. HIDE DEF c
  <2>2. c % Counts = 0 % Counts
    BY <1>1, <2>1, MultipleApart
  <2>. QED
    BY <2>1, <2>2 DEF c
<1>. QED
  BY <1>5, <1>6, <1>7

\* The data block counters that ConfigureDigiLiveTransmitDescriptors writes continue round
\* the transmit ring, for every cadence of 5 and 6 blocks, if the packets of the ring are a
\* multiple of the period times the range of a counter (20480 = 80 * 256 in the driver).
THEOREM TransmitDBCHolds == Spec => []TransmitDBC
<1>1. TransmitPackets \in Nat \ {0} /\ Counts \in Nat \ {0}
  BY CadenceAssumption
<1>2. transmit = ConfigureTransmit => TransmitDBC
  <2>1. SUFFICES ASSUME transmit = ConfigureTransmit, NEW p \in 0..TransmitPackets - 1
                 PROVE  transmit[(p + 1) % TransmitPackets].dbc
                          = (transmit[p].dbc + transmit[p].size) % Counts
    BY DEF TransmitDBC, ConfigureTransmit
  <2>. DEFINE next == (p + 1) % TransmitPackets
  <2>2. transmit[p].dbc = BlocksSent[p] /\ transmit[p].size = Ideal[p % Period]
    BY <2>1 DEF ConfigureTransmit, DataBlockCounter
  <2>3. BlocksSent[p + 1] = (transmit[p].dbc + transmit[p].size) % Counts
    <3>1. (p + 1) - 1 = p /\ p \in Nat
      BY <1>1
    <3>. QED
      BY <2>2, <3>1, BlocksSentIs DEF AfterPacket
  <2>4. next \in 0..TransmitPackets - 1 /\ BlocksSent[next] = BlocksSent[p + 1]
    <3>1. CASE p + 1 < TransmitPackets
      <4>1. next = p + 1
        BY <1>1, <3>1, Z3
      <4>. HIDE DEF next
      <4>. QED
        BY <1>1, <3>1, <4>1
    <3>2. CASE p + 1 = TransmitPackets
      <4>1. next = 0
        BY <1>1, <3>2, Z3
      <4>. HIDE DEF next
      <4>. QED
        BY <1>1, <3>2, <4>1, RingCloses, BlocksSentIs
    <3>. QED
      BY <1>1, <3>1, <3>2
  <2>. HIDE DEF next
  <2>5. transmit[next].dbc = BlocksSent[next]
    BY <2>1, <2>4 DEF ConfigureTransmit, DataBlockCounter
  <2>. QED
    BY <2>3, <2>4, <2>5 DEF next
<1>3. Init => transmit = ConfigureTransmit
  BY DEF Init, CadenceInit
<1>4. transmit = ConfigureTransmit /\ [Next]_vars => (transmit = ConfigureTransmit)'
  <2>1. SUFFICES ASSUME [Next]_vars PROVE UNCHANGED transmit
    BY DEF ConfigureTransmit, DataBlockCounter
  <2>. QED
    BY <2>1 DEF Next, vars, HarvestDigiLiveIsoStream, Receive, Poll, ReadCommandPtr,
                ReadByteCount, TakePacket, CatchUp, StopLooking, EndHarvest, cadence,
                RecordPacket, Refresh
<1>. QED
  BY <1>2, <1>3, <1>4, PTL DEF Spec
=============================================================================
