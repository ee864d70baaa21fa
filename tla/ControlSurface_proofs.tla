------------------------ MODULE ControlSurface_proofs ------------------------
(***************************************************************************)
(* The echo queue keeps its flag, its count and its indices consistent, for  *)
(* every size, every set of clients and every set of messages; and so does   *)
(* the control surface that uses it, which implements MessageFifo, tells the *)
(* console's messages from each other, keeps it informed of its faders, has  *)
(* their motors stay where they were left and lights one mode.               *)
(***************************************************************************)
EXTENDS ControlSurface, SequenceTheorems, TLAPS

AnyWord == UNION {{m[i] : i \in DOMAIN m} : m \in Message}

\* The types the argument needs; what the slots hold does not matter.
QueueTyped ==
    /\ readIndex \in Slots
    /\ busy \in {0, 1}
    /\ step \in [Threads -> {"idle", "locked", "storing", "popping"}]
    /\ left \in [Threads -> Seq(AnyWord)]

\* The flag is 1 exactly while one thread works on the queue; said of each
\* thread, so that a step of one thread need only look at that thread.
FlagSplit ==
    /\ busy = 0 => \A t \in Threads : ~Holding(t)
    /\ busy = 1 => \E t \in Threads : Holding(t)
    /\ \A t, u \in Threads : Holding(t) /\ Holding(u) => t = u

QInv == QueueTyped /\ FlagSplit /\ IndicesAgree

\* What the proof needs of the assumptions.
LEMMA Assumed ==
    /\ QueueSize \in Nat /\ QueueSize > 0
    /\ Push \in Threads
    /\ \A m \in Message : m \in Seq(AnyWord)
  BY QueueAssumption DEF Threads, AnyWord

\* Stepping an index of the ring by one.
LEMMA NextIndex ==
    ASSUME NEW i \in Slots
    PROVE  (i + 1) % QueueSize = Wrapped(i + 1) /\ Wrapped(i + 1) \in Slots
  <1>1. CASE i + 1 < QueueSize
    BY <1>1, Assumed, (i + 1) % QueueSize = i + 1 DEF Slots, Wrapped
  <1>2. CASE i + 1 = QueueSize
    BY <1>2, Assumed, QueueSize % QueueSize = 0 DEF Slots, Wrapped
  <1> QED BY <1>1, <1>2, Assumed DEF Slots

\* The write index is in the ring.
LEMMA WriteInRing ==
    ASSUME readIndex \in Slots, IndicesAgree
    PROVE  writeIndex \in Slots
  BY Assumed DEF IndicesAgree, Wrapped, Slots

-----------------------------------------------------------------------------
\* Empty and free, the queue satisfies the invariant.
LEMMA QueueStarts == QueueInit => QInv
  <1> SUFFICES ASSUME QueueInit PROVE QInv
    OBVIOUS
  <1> USE Assumed DEF QueueInit
  <1>1. QueueTyped
    BY DEF QueueTyped, Slots
  <1>2. FlagSplit
    BY DEF FlagSplit, Holding
  <1>3. IndicesAgree
    BY DEF IndicesAgree, Wrapped
  <1> QED BY <1>1, <1>2, <1>3 DEF QInv

\* The invariant is inductive, step by step of appends and pops.
LEMMA QueueSteps == QInv /\ [QueueNext]_queueVars => QInv'
  <1> SUFFICES ASSUME QInv, [QueueNext]_queueVars PROVE QInv'
    OBVIOUS
  <1> USE DEF QInv
  <1>1. ASSUME NEW t \in Threads \ {Push}, AppendBusy(t) PROVE QInv'
    BY <1>1 DEF AppendBusy, queueVars, QueueTyped, FlagSplit, IndicesAgree, Holding, Wrapped
  <1>2. ASSUME NEW t \in Threads \ {Push}, NEW m \in Message, AppendLock(t, m) PROVE QInv'
    <2> USE <1>2 DEF AppendLock, contents
    <2>1. QueueTyped'
      BY Assumed DEF QueueTyped
    <2>2. FlagSplit'
      BY DEF FlagSplit, Holding, QueueTyped
    <2>3. IndicesAgree'
      BY DEF IndicesAgree, QueueTyped, Wrapped
    <2> QED BY <2>1, <2>2, <2>3
  <1>3. ASSUME NEW t \in Threads \ {Push}, AppendFull(t) PROVE QInv'
    <2> USE <1>3 DEF AppendFull, contents
    <2>1. QueueTyped'
      BY DEF QueueTyped
    <2>2. FlagSplit'
      BY DEF FlagSplit, Holding, QueueTyped
    <2>3. IndicesAgree'
      BY DEF IndicesAgree, QueueTyped, Wrapped
    <2> QED BY <2>1, <2>2, <2>3
  <1>4. ASSUME NEW t \in Threads \ {Push}, StoreWord(t) PROVE QInv'
    <2> USE <1>4 DEF StoreWord
    <2>1. left[t] \in Seq(AnyWord) /\ left[t] # <<>>
      BY DEF QueueTyped
    <2>2. /\ Tail(left[t]) \in Seq(AnyWord)
          /\ Len(left[t]) \in Nat /\ Len(left[t]) > 0
          /\ Len(Tail(left[t])) = Len(left[t]) - 1
      BY <2>1
    <2>3. queueCount \in Nat /\ queueCount + Len(left[t]) <= QueueSize
      BY Assumed DEF IndicesAgree
    <2>4. QueueTyped'
      BY <2>2 DEF QueueTyped
    <2>5. FlagSplit'
      BY DEF FlagSplit, Holding, QueueTyped
    <2>6. queueCount' \in 0..QueueSize
      BY <2>2, <2>3, Assumed
    <2>7. writeIndex' = Wrapped(writeIndex + 1)
      <3>1. writeIndex \in Slots
        BY WriteInRing DEF QueueTyped
      <3> QED BY <3>1, NextIndex
    <2>8. writeIndex' = Wrapped(readIndex + queueCount')
      BY <2>2, <2>3, <2>7, Assumed DEF IndicesAgree, Wrapped, QueueTyped, Slots
    <2>9. ASSUME NEW u \in Threads, step'[u] = "storing"
          PROVE  queueCount' + Len(left'[u]) <= QueueSize
      <3>1. u = t
        BY <2>9 DEF FlagSplit, Holding, QueueTyped
      <3>2. left'[u] = Tail(left[t])
        BY <3>1 DEF QueueTyped
      <3>3. Len(left'[u]) = Len(left[t]) - 1
        BY <3>2, <2>2
      <3>4. queueCount' = queueCount + 1
        OBVIOUS
      <3>5. ASSUME NEW length \in Nat, NEW count \in Nat, count + length <= QueueSize
            PROVE  (count + 1) + (length - 1) <= QueueSize
        BY <3>5, Assumed
      <3>6. (queueCount + 1) + (Len(left[t]) - 1) <= QueueSize
        BY <2>2, <2>3, <3>5
      <3> QED BY <3>3, <3>4, <3>6, Zenon
    <2>10. IndicesAgree'
      BY <2>6, <2>8, <2>9 DEF IndicesAgree, Wrapped
    <2> QED BY <2>4, <2>5, <2>10
  <1>5. ASSUME NEW t \in Threads \ {Push}, AppendDone(t) PROVE QInv'
    <2> USE <1>5 DEF AppendDone, contents
    <2>1. QueueTyped'
      BY DEF QueueTyped
    <2>2. FlagSplit'
      BY DEF FlagSplit, Holding, QueueTyped
    <2>3. IndicesAgree'
      BY DEF IndicesAgree, QueueTyped, Wrapped
    <2> QED BY <2>1, <2>2, <2>3
  <1>6. ASSUME PopBusy PROVE QInv'
    BY <1>6 DEF PopBusy, contents, QueueTyped, FlagSplit, IndicesAgree, Holding, Wrapped
  <1>7. ASSUME PopLock PROVE QInv'
    <2> USE <1>7, Assumed DEF PopLock, contents
    <2>1. QueueTyped'
      BY DEF QueueTyped
    <2>2. FlagSplit'
      BY DEF FlagSplit, Holding, QueueTyped
    <2>3. IndicesAgree'
      BY DEF IndicesAgree, QueueTyped, Wrapped
    <2> QED BY <2>1, <2>2, <2>3
  <1>8. ASSUME PopEmpty PROVE QInv'
    <2> USE <1>8, Assumed DEF PopEmpty, contents
    <2>1. QueueTyped'
      BY DEF QueueTyped
    <2>2. FlagSplit'
      BY DEF FlagSplit, Holding, QueueTyped
    <2>3. IndicesAgree'
      BY DEF IndicesAgree, QueueTyped, Wrapped
    <2> QED BY <2>1, <2>2, <2>3
  <1>9. ASSUME PopWord PROVE QInv'
    <2> USE <1>9 DEF PopWord
    <2>1. readIndex' = Wrapped(readIndex + 1) /\ readIndex' \in Slots
      BY NextIndex DEF QueueTyped
    <2>2. QueueTyped'
      BY <2>1, Assumed DEF QueueTyped
    <2>3. FlagSplit'
      BY Assumed DEF FlagSplit, Holding, QueueTyped
    <2>4. queueCount' \in 0..QueueSize /\ queueCount' = queueCount - 1
      BY Assumed DEF IndicesAgree
    <2>5. writeIndex' = Wrapped(readIndex' + queueCount')
      BY <2>1, <2>4, Assumed DEF IndicesAgree, Wrapped, QueueTyped, Slots
    <2>6. \A u \in Threads : step'[u] # "storing"
      BY Assumed DEF FlagSplit, Holding, QueueTyped
    <2>7. IndicesAgree'
      BY <2>4, <2>5, <2>6 DEF IndicesAgree, Wrapped
    <2> QED BY <2>2, <2>3, <2>7
  <1>10. CASE UNCHANGED queueVars
    BY <1>10 DEF queueVars, QueueTyped, FlagSplit, IndicesAgree, Holding, Wrapped
  <1> QED
    BY <1>1, <1>2, <1>3, <1>4, <1>5, <1>6, <1>7, <1>8, <1>9, <1>10 DEF QueueNext

(* However many threads use the queue, with whatever messages, nobody works  *)
(* on it without the flag or beside another thread, the flag is never left   *)
(* taken, the write index is the read index plus the count, and an append    *)
(* that began to store has room to finish (2672-2717, 3222-3244).            *)
THEOREM QueueHolds == QueueSpec => []QueueOrdered
  <1>1. QInv => QueueOrdered
    BY DEF QInv, QueueTyped, FlagSplit, QueueOrdered, FlagIsHeld
  <1> QED
    BY QueueStarts, QueueSteps, <1>1, PTL DEF QueueSpec

-----------------------------------------------------------------------------
(* The console's messages on their way to the driver.                       *)

Head2(m) == <<m[1], m[2]>>
Fragment(p, bytes) == [port |-> p, bytes |-> bytes]
Whole(p, m) == <<Fragment(p, Head2(m)), Fragment(p, <<m[3]>>)>>
End(p, m) == <<Fragment(p, <<m[3]>>)>>

\* A port is between two messages, at the beginning of one, or at its end.
SendingShape(p) ==
    /\ sending[p] = [message |-> sending[p].message, fragments |-> sending[p].fragments]
    /\ \/ sending[p].fragments = <<>>
       \/ /\ sending[p].message \in From(p)
          /\ \/ sending[p].fragments = Whole(p, sending[p].message)
             \/ sending[p].fragments = End(p, sending[p].message)

\* What is pending is the beginning of some message of the port.
PendingShape(p) == pending[p] = <<>> \/ \E m \in From(p) : pending[p] = Head2(m)

\* A beginning that stays pending has lost its end; if it is to meet the end of another
\* message, that one has lost its beginning.
Losses(p) ==
    pending[p] # <<>> =>
        \/ /\ sending[p].fragments = End(p, sending[p].message)
           /\ pending[p] = Head2(sending[p].message)
        \/ sending[p].fragments # End(p, sending[p].message) /\ lostCount >= 1
        \/ lostCount >= 2

Wire ==
    /\ scene \in Scenes /\ lostCount \in 0..MaxLost
    /\ sending = [p \in Ports |-> sending[p]] /\ pending = [p \in Ports |-> pending[p]]
    /\ \A p \in Ports : SendingShape(p) /\ PendingShape(p) /\ Losses(p)

\* The assumptions on the console and on the driver's constants.
LEMMA Surface ==
    /\ ControlPort \in Ports
    /\ Stride \in Nat /\ Stride > 0 /\ MinDelta \in Nat /\ MinDelta > 0 /\ MaxLost \in Nat
    /\ \A s \in Scenes : s \subseteq Ports \X MidiMessages
    /\ None \notin Byte /\ None \notin MidiMessages
  BY SurfaceAssumption

\* A message of the console: a status byte and two data bytes.
LEMMA MessageBytes ==
    ASSUME NEW m \in MidiMessages
    PROVE  /\ m = <<m[1], m[2], m[3]>> /\ Len(m) = 3
           /\ m[1] \in 128..255 /\ m[2] \in 0..127 /\ m[3] \in 0..127
  BY DEF MidiMessages

\* So is everything that is sent from a port.
LEMMA FromMessages ==
    ASSUME NEW p
    PROVE  From(p) \subseteq MidiMessages
<1> SUFFICES ASSUME NEW n \in UNION Scenes PROVE n[2] \in MidiMessages
  BY DEF From
<1> QED
  BY Surface

\* Sequences of one to three elements.
LEMMA ShortSequences ==
    ASSUME NEW S, NEW s \in Seq(S)
    PROVE  /\ Len(s) = 1 => s = <<s[1]>>
           /\ Len(s) = 2 => s = <<s[1], s[2]>>
           /\ Len(s) = 3 => s = <<s[1], s[2], s[3]>>
<1>1. s = [i \in 1..Len(s) |-> s[i]]
  BY LenProperties
<1>2. <<s[1]>> = [i \in 1..1 |-> <<s[1]>>[i]] /\ \A i \in 1..1 : <<s[1]>>[i] = s[i]
  OBVIOUS
<1>3. /\ <<s[1], s[2]>> = [i \in 1..2 |-> <<s[1], s[2]>>[i]]
      /\ \A i \in 1..2 : <<s[1], s[2]>>[i] = s[i]
  OBVIOUS
<1>4. /\ <<s[1], s[2], s[3]>> = [i \in 1..3 |-> <<s[1], s[2], s[3]>>[i]]
      /\ \A i \in 1..3 : <<s[1], s[2], s[3]>>[i] = s[i]
  OBVIOUS
<1> QED
  BY <1>1, <1>2, <1>3, <1>4

\* It travels in two fragments.
LEMMA WordsOfMessage ==
    ASSUME NEW p, NEW m \in MidiMessages
    PROVE  Words(p, m) = Whole(p, m)
<1>1. m = <<m[1], m[2], m[3]>> /\ Len(m) = 3
  BY MessageBytes
<1>2. SubSeq(m, 1, 2) = Head2(m) /\ SubSeq(m, 3, 3) = <<m[3]>>
  <2>1. m \in Seq(Byte) /\ m[1] \in Byte /\ m[2] \in Byte /\ m[3] \in Byte
    <3>1. m[1] \in Byte /\ m[2] \in Byte /\ m[3] \in Byte
      BY MessageBytes DEF Byte
    <3>2. <<m[1], m[2], m[3]>> \in Seq(Byte)
      BY <3>1
    <3> QED
      BY <1>1, <3>1, <3>2, Zenon
  <2>2. /\ SubSeq(m, 1, 2) \in Seq(Byte) /\ Len(SubSeq(m, 1, 2)) = 2
        /\ SubSeq(m, 1, 2)[1] = m[1] /\ SubSeq(m, 1, 2)[2] = m[2]
        /\ SubSeq(m, 3, 3) \in Seq(Byte) /\ Len(SubSeq(m, 3, 3)) = 1
        /\ SubSeq(m, 3, 3)[1] = m[3]
    BY <1>1, <2>1
  <2> QED
    BY <2>2, ShortSequences, Zenon DEF Head2
<1>3. (3 + 1) \div 2 = 2
  OBVIOUS
<1>4. Words(p, m) = [i \in 1..2 |-> [port |-> p, bytes |-> SubSeq(m, 2 * i - 1,
                                         IF 2 * i <= 3 THEN 2 * i ELSE 3)]]
  BY <1>1, <1>3 DEF Words
<1> QED
  BY <1>2, <1>4 DEF Whole, Fragment

\* The first fragment begins a message, whatever was pending.
LEMMA AssembleBegin ==
    ASSUME NEW bytes, NEW m \in MidiMessages
    PROVE  Assemble(bytes, Head2(m)) = [bytes |-> Head2(m), message |-> <<>>]
<1> DEFINE start == [bytes |-> bytes, message |-> <<>>]
<1>1. m[1] \in 128..255 /\ m[2] \in 0..127
  BY MessageBytes
<1>2. AddByte(start, m[1]) = [bytes |-> <<m[1]>>, message |-> <<>>]
  <2>1. m[1] >= 128 /\ Len(<<m[1]>>) # 3
    BY <1>1
  <2>2. AddByte(start, m[1]) = [start EXCEPT !.bytes = <<m[1]>>]
    BY <2>1, Zenon DEF AddByte
  <2> QED
    BY <2>2
<1>3. AddByte([bytes |-> <<m[1]>>, message |-> <<>>], m[2]) =
          [bytes |-> Head2(m), message |-> <<>>]
  <2>1. ~(m[2] >= 128) /\ <<m[1]>> # <<>> /\ Append(<<m[1]>>, m[2]) = Head2(m)
    <3>1. /\ Append(<<m[1]>>, m[2]) \in Seq(Int) /\ Len(Append(<<m[1]>>, m[2])) = 2
          /\ Append(<<m[1]>>, m[2])[1] = m[1] /\ Append(<<m[1]>>, m[2])[2] = m[2]
      BY <1>1
    <3>2. Append(<<m[1]>>, m[2]) = <<m[1], m[2]>>
      BY <3>1, ShortSequences, Zenon
    <3> QED
      BY <1>1, <3>2 DEF Head2
  <2>2. Len(Head2(m)) = 2
    BY DEF Head2
  <2> QED
    BY <2>1, <2>2 DEF AddByte
<1>4. Len(Head2(m)) = 2 /\ Head2(m)[1] = m[1] /\ Head2(m)[2] = m[2]
  BY DEF Head2
<1> QED
  BY <1>2, <1>3, <1>4 DEF Assemble

\* The last one completes the message that is pending, or is dropped.
LEMMA AssembleEnd ==
    ASSUME NEW d \in 0..127
    PROVE  /\ Assemble(<<>>, <<d>>) = [bytes |-> <<>>, message |-> <<>>]
           /\ \A m \in MidiMessages :
                  Assemble(Head2(m), <<d>>) = [bytes |-> <<>>, message |-> <<m[1], m[2], d>>]
<1>1. ~(d >= 128) /\ Len(<<d>>) = 1 /\ <<d>>[1] = d
  OBVIOUS
<1>2. Assemble(<<>>, <<d>>) = [bytes |-> <<>>, message |-> <<>>]
  <2>1. AddByte([bytes |-> <<>>, message |-> <<>>], d) = [bytes |-> <<>>, message |-> <<>>]
    BY <1>1 DEF AddByte
  <2> QED
    BY <1>1, <2>1 DEF Assemble
<1>3. ASSUME NEW m \in MidiMessages
      PROVE  Assemble(Head2(m), <<d>>) = [bytes |-> <<>>, message |-> <<m[1], m[2], d>>]
  <2>1. Head2(m) # <<>> /\ Append(Head2(m), d) = <<m[1], m[2], d>>
    <3>1. m[1] \in Int /\ m[2] \in Int
      BY MessageBytes
    <3>2. /\ Append(<<m[1], m[2]>>, d) \in Seq(Int) /\ Len(Append(<<m[1], m[2]>>, d)) = 3
          /\ Append(<<m[1], m[2]>>, d)[1] = m[1] /\ Append(<<m[1], m[2]>>, d)[2] = m[2]
          /\ Append(<<m[1], m[2]>>, d)[3] = d
      BY <3>1
    <3>3. Append(<<m[1], m[2]>>, d) = <<m[1], m[2], d>>
      BY <3>2, ShortSequences, Zenon
    <3> QED
      BY <3>3 DEF Head2
  <2>2. Len(<<m[1], m[2], d>>) = 3
    OBVIOUS
  <2>3. AddByte([bytes |-> Head2(m), message |-> <<>>], d) =
            [bytes |-> <<>>, message |-> <<m[1], m[2], d>>]
    BY <1>1, <2>1, <2>2 DEF AddByte
  <2> QED
    BY <1>1, <2>3 DEF Assemble
<1> QED
  BY <1>2, <1>3

\* What the harvest makes of the next fragment of a port.
LEMMA FragmentTaken ==
    ASSUME Wire, NEW p \in Ports, sending[p].fragments # <<>>
    PROVE  /\ sending[p].message \in From(p)
           /\ \/ /\ sending[p].fragments = Whole(p, sending[p].message)
                 /\ Tail(sending[p].fragments) = End(p, sending[p].message)
                 /\ Assembled(p) = [bytes |-> Head2(sending[p].message), message |-> <<>>]
              \/ /\ sending[p].fragments = End(p, sending[p].message)
                 /\ Tail(sending[p].fragments) = <<>>
                 /\ Assembled(p).bytes = <<>>
                 /\ \/ pending[p] = <<>> /\ Assembled(p).message = <<>>
                    \/ \E begin \in From(p) :
                          /\ pending[p] = Head2(begin)
                          /\ Assembled(p).message =
                                <<begin[1], begin[2], sending[p].message[3]>>
<1> DEFINE m == sending[p].message
<1>1. m \in From(p) /\ m \in MidiMessages
  BY FromMessages DEF Wire, SendingShape
<1>2. m[3] \in 0..127
  BY <1>1, MessageBytes
<1>3. CASE sending[p].fragments = Whole(p, m)
  <2>1. Head(sending[p].fragments).bytes = Head2(m) /\ Tail(sending[p].fragments) = End(p, m)
    <3>1. Head(Whole(p, m)) = Fragment(p, Head2(m)) /\ Tail(Whole(p, m)) = End(p, m)
      BY DEF Whole, End
    <3> QED
      BY <1>3, <3>1 DEF Fragment
  <2>2. Assembled(p) = [bytes |-> Head2(m), message |-> <<>>]
    BY <1>1, <2>1, AssembleBegin DEF Assembled
  <2> QED
    BY <1>1, <1>3, <2>1, <2>2
<1>4. CASE sending[p].fragments = End(p, m)
  <2>1. Head(sending[p].fragments).bytes = <<m[3]>> /\ Tail(sending[p].fragments) = <<>>
    <3>1. Head(End(p, m)) = Fragment(p, <<m[3]>>) /\ Tail(End(p, m)) = <<>>
      BY DEF End
    <3> QED
      BY <1>4, <3>1 DEF Fragment
  <2>2. Assembled(p) = Assemble(pending[p], <<m[3]>>)
    BY <2>1 DEF Assembled
  <2>3. CASE pending[p] = <<>>
    <3>1. Assembled(p) = [bytes |-> <<>>, message |-> <<>>]
      BY <1>2, <2>2, <2>3, AssembleEnd
    <3> QED
      BY <1>1, <1>4, <2>1, <2>3, <3>1
  <2>4. CASE pending[p] # <<>>
    <3>1. PICK begin \in From(p) : pending[p] = Head2(begin)
      BY <2>4 DEF Wire, PendingShape
    <3>2. begin \in MidiMessages
      BY FromMessages
    <3>3. Assembled(p) = [bytes |-> <<>>, message |-> <<begin[1], begin[2], m[3]>>]
      BY <1>2, <2>2, <3>1, <3>2, AssembleEnd
    <3> QED
      BY <1>1, <1>4, <2>1, <3>1, <3>3
  <2> QED
    BY <2>3, <2>4
<1> QED
  BY <1>3, <1>4 DEF Wire, SendingShape

\* A port that nothing happens to stays as it is.
LEMMA PortIdle ==
    ASSUME Wire, NEW p \in Ports, sending'[p] = sending[p], pending'[p] = pending[p],
           lostCount' \in Nat, lostCount' >= lostCount
    PROVE  (SendingShape(p) /\ PendingShape(p) /\ Losses(p))'
<1>1. SendingShape(p) /\ PendingShape(p) /\ Losses(p) /\ lostCount \in Nat
  BY Surface DEF Wire
<1>2. SendingShape(p)' /\ PendingShape(p)'
  BY <1>1, Zenon DEF SendingShape, PendingShape
<1>3. (lostCount >= 1 => lostCount' >= 1) /\ (lostCount >= 2 => lostCount' >= 2)
  BY <1>1
<1>4. Losses(p)'
  BY <1>1, <1>3, Zenon DEF Losses
<1> QED
  BY <1>2, <1>4

\* The console begins a message where it has finished one.
LEMMA SendKeepsWire ==
    ASSUME Wire, NEW n \in scene, SendMessage(n[1], n[2])
    PROVE  Wire'
<1> DEFINE q == n[1]
           m == n[2]
<1>1. q \in Ports /\ m \in From(q) /\ m \in MidiMessages
  <2>1. n \in UNION Scenes /\ n \in Ports \X MidiMessages
    BY Surface DEF Wire
  <2> QED
    BY <2>1 DEF From
<1>2. /\ sending' = [sending EXCEPT ![q] = [message |-> m, fragments |-> Words(q, m)]]
      /\ sending[q].fragments = <<>> /\ UNCHANGED <<scene, pending, lostCount>>
  BY DEF SendMessage
<1> HIDE DEF q, m
<1>3. ASSUME NEW p \in Ports PROVE (SendingShape(p) /\ PendingShape(p) /\ Losses(p))'
  <2>1. CASE p # q
    <3>1. sending'[p] = sending[p] /\ pending'[p] = pending[p]
      BY <1>2, <2>1 DEF Wire
    <3> QED
      BY <1>2, <3>1, PortIdle, Surface DEF Wire
  <2>2. CASE p = q
    <3>1. sending'[p] = [message |-> m, fragments |-> Whole(p, m)]
      BY <1>1, <1>2, <2>2, WordsOfMessage DEF Wire
    <3>2. sending'[p].message = m /\ sending'[p].fragments = Whole(p, m)
      BY <3>1
    <3>3. SendingShape(p)'
      BY <1>1, <2>2, <3>1, <3>2 DEF SendingShape
    <3>4. PendingShape(p)'
      BY <1>2 DEF Wire, PendingShape
    <3>5. Losses(p)'
      <4>1. pending[p] # <<>> => lostCount >= 1
        <5>1. End(p, sending[p].message) # <<>>
          BY DEF End
        <5> QED
          BY <1>2, <2>2, <5>1, Surface DEF Wire, Losses
      <4>2. Whole(p, m) # End(p, m)
        <5>1. Len(Whole(p, m)) = 2 /\ Len(End(p, m)) = 1
          BY DEF Whole, End
        <5> QED
          BY <5>1
      <4> QED
        BY <1>2, <3>2, <4>1, <4>2, Zenon DEF Losses
    <3> QED
      BY <3>3, <3>4, <3>5
  <2> QED
    BY <2>1, <2>2
<1> QED
  BY <1>2, <1>3 DEF Wire

\* A fragment that is lost leaves what is pending for another one.
LEMMA LossKeepsWire ==
    ASSUME Wire, NEW q \in Ports, LoseFragment(q)
    PROVE  Wire'
<1> DEFINE m == sending[q].message
<1>1. /\ sending' = [sending EXCEPT ![q].fragments = Tail(@)] /\ lostCount < MaxLost
      /\ lostCount' = lostCount + 1 /\ sending[q].fragments # <<>>
      /\ UNCHANGED <<scene, pending>>
  BY DEF LoseFragment
<1>2. lostCount \in Nat /\ lostCount' \in 0..MaxLost
  BY <1>1, Surface DEF Wire
<1>3. ASSUME NEW p \in Ports PROVE (SendingShape(p) /\ PendingShape(p) /\ Losses(p))'
  <2>1. CASE p # q
    <3>1. sending'[p] = sending[p] /\ pending'[p] = pending[p]
      BY <1>1, <2>1 DEF Wire
    <3> QED
      BY <1>1, <1>2, <3>1, PortIdle
  <2>2. CASE p = q
    <3>1. sending'[q] = [message |-> m, fragments |-> Tail(sending[q].fragments)]
      BY <1>1 DEF Wire, SendingShape
    <3>2. sending'[q].message = m /\ sending'[q].fragments = Tail(sending[q].fragments)
      BY <3>1
    <3>3. /\ m \in From(q)
          /\ \/ sending[q].fragments = Whole(q, m) /\ sending'[q].fragments = End(q, m)
             \/ sending[q].fragments = End(q, m) /\ sending'[q].fragments = <<>>
      BY <1>1, <3>2, FragmentTaken
    <3>4. SendingShape(q)' /\ PendingShape(q)'
      BY <1>1, <3>1, <3>2, <3>3 DEF Wire, SendingShape, PendingShape
    <3>5. End(q, m) # <<>> /\ Whole(q, m) # End(q, m)
      <4>1. Len(Whole(q, m)) = 2 /\ Len(End(q, m)) = 1 /\ Len(<<>>) = 0
        BY DEF Whole, End
      <4>2. 2 # 1 /\ 1 # 0
        OBVIOUS
      <4> QED
        BY <4>1, <4>2, Zenon
    <3>6. Losses(q)'
      <4>1. CASE sending[q].fragments = Whole(q, m)
        <5>1. pending[q] # <<>> => lostCount >= 1
          BY <1>2, <3>5, <4>1 DEF Wire, Losses
        <5>2. pending[q] # <<>> => lostCount' >= 2
          BY <1>1, <1>2, <5>1
        <5> QED
          BY <1>1, <5>2, Zenon DEF Losses
      <4>2. CASE sending[q].fragments = End(q, m)
        <5>1. sending'[q].fragments # End(q, sending'[q].message)
          BY <3>2, <3>3, <3>5, <4>2
        <5>2. lostCount' >= 1
          BY <1>1, <1>2
        <5> QED
          BY <5>1, <5>2, Zenon DEF Losses
      <4> QED
        BY <3>3, <4>1, <4>2
    <3> QED
      BY <2>2, <3>4, <3>6
  <2> QED
    BY <2>1, <2>2
<1> QED
  BY <1>1, <1>2, <1>3 DEF Wire

\* The harvest keeps the beginning of a message, and completes it with the end.
LEMMA ReceiveKeepsWire ==
    ASSUME Wire, NEW q \in Ports, Receive(q)
    PROVE  Wire'
<1> DEFINE m == sending[q].message
<1>1. /\ sending[q].fragments # <<>>
      /\ sending' = [sending EXCEPT ![q].fragments = Tail(@)]
      /\ pending' = [pending EXCEPT ![q] = Assembled(q).bytes]
      /\ UNCHANGED <<scene, lostCount>>
  BY DEF Receive, ReceivePart, ReceiveElsewhere, ReceiveControl, Decode, TakeFragment, bounds
<1>2. ASSUME NEW p \in Ports PROVE (SendingShape(p) /\ PendingShape(p) /\ Losses(p))'
  <2>1. CASE p # q
    <3>1. sending'[p] = sending[p] /\ pending'[p] = pending[p]
      BY <1>1, <2>1 DEF Wire
    <3> QED
      BY <1>1, <3>1, PortIdle, Surface DEF Wire
  <2>2. CASE p = q
    <3>1. sending'[q] = [message |-> m, fragments |-> Tail(sending[q].fragments)]
      BY <1>1 DEF Wire, SendingShape
    <3>2. sending'[q].message = m /\ sending'[q].fragments = Tail(sending[q].fragments)
          /\ pending'[q] = Assembled(q).bytes
      BY <1>1, <3>1 DEF Wire
    <3>3. /\ m \in From(q)
          /\ \/ sending'[q].fragments = End(q, m) /\ pending'[q] = Head2(m)
             \/ sending'[q].fragments = <<>> /\ pending'[q] = <<>>
      <4>1. [bytes |-> Head2(m), message |-> <<>>].bytes = Head2(m)
        OBVIOUS
      <4> QED
        BY <1>1, <3>2, <4>1, FragmentTaken, Zenon
    <3>4. SendingShape(q)' /\ PendingShape(q)'
      BY <3>1, <3>2, <3>3 DEF SendingShape, PendingShape
    <3>5. Losses(q)'
      BY <3>2, <3>3, Zenon DEF Losses
    <3> QED
      BY <2>2, <3>4, <3>5
  <2> QED
    BY <2>1, <2>2
<1> QED
  BY <1>1, <1>2 DEF Wire

\* What the driver's threads and the push do does not concern the console's messages.
LEMMA WireInductive == Wire /\ [Next]_vars => Wire'
<1> SUFFICES ASSUME Wire, [Next]_vars PROVE Wire'
  OBVIOUS
<1>1. CASE UNCHANGED <<scene, sending, pending, lostCount>>
  <2>1. ASSUME NEW p \in Ports PROVE (SendingShape(p) /\ PendingShape(p) /\ Losses(p))'
    BY <1>1, PortIdle, Surface DEF Wire
  <2> QED
    BY <1>1, <2>1 DEF Wire
<1>2. ASSUME NEW t, NEW bytes, BeginCommand(t, bytes) PROVE Wire'
  BY <1>1, <1>2 DEF BeginCommand
<1>3. ASSUME NEW t, AppendStep(t) PROVE Wire'
  BY <1>1, <1>3 DEF AppendStep, Elsewhere, bounds
<1>4. CASE Pop
  BY <1>1, <1>4 DEF Pop, bounds
<1>5. CASE UNCHANGED vars
  BY <1>1, <1>5 DEF vars, bounds
<1> QED
  BY <1>2, <1>3, <1>4, <1>5, SendKeepsWire, LossKeepsWire, ReceiveKeepsWire DEF Next

\* Nothing is on its way at the beginning.
LEMMA WireStarts == Init => Wire
<1> SUFFICES ASSUME Init PROVE Wire
  OBVIOUS
<1>1. ASSUME NEW p \in Ports PROVE SendingShape(p) /\ PendingShape(p) /\ Losses(p)
  BY DEF Init, SendingShape, PendingShape, Losses
<1>2. lostCount \in 0..MaxLost
  BY Surface DEF Init
<1> QED
  BY <1>1, <1>2 DEF Init, Wire

\* If no more than one fragment is lost, whatever the console sends on whatever port, the
\* harvest never puts the beginning of one message and the end of another together.
THEOREM NoMixtureHolds ==
    ASSUME MaxLost <= 1
    PROVE  Spec => []NoMixture
<1>1. Wire => NoMixture
  <2> SUFFICES ASSUME Wire, NEW p \in Ports, sending[p].fragments # <<>>,
                      Assembled(p).message # <<>>
               PROVE  Assembled(p).message = sending[p].message
    BY DEF NoMixture
  <2>1. PICK begin \in From(p) :
          /\ pending[p] = Head2(begin) /\ sending[p].fragments = End(p, sending[p].message)
          /\ Assembled(p).message = <<begin[1], begin[2], sending[p].message[3]>>
    BY FragmentTaken
  <2>2. pending[p] = Head2(sending[p].message)
    <3>1. pending[p] # <<>>
      BY <2>1 DEF Head2
    <3>2. ~(lostCount >= 2)
      BY Surface DEF Wire
    <3> QED
      BY <2>1, <3>1, <3>2 DEF Wire, Losses
  <2>3. begin[1] = sending[p].message[1] /\ begin[2] = sending[p].message[2]
    BY <2>1, <2>2 DEF Head2
  <2>4. sending[p].message \in MidiMessages
    BY FragmentTaken, FromMessages
  <2> QED
    BY <2>1, <2>3, <2>4, MessageBytes
<1> QED
  BY <1>1, WireStarts, WireInductive, PTL DEF Spec

-----------------------------------------------------------------------------
(* What the driver's threads append.                                        *)

Purposes == {"fader", "led", "motor", "echo", "command"}
Entries == [bytes : OutgoingBytes, purpose : Purposes, note : {None} \cup 2..4]

\* The moves of a fader
Moved(c) == {m \in Controls : IsFaderMove(m) /\ Channel(m) = c}

\* What is to be appended may be sent, and what is remembered of a fader is a move of it.
Handed ==
    /\ todo \in [Threads -> Seq(Entries)]
    /\ faderMove \in [Strips -> {None} \cup Controls]
    /\ \A c \in Strips : faderMove[c] # None => faderMove[c] \in Moved(c)

\* A message that the harvest puts together at the control port is one of those the model
\* counts on.
LEMMA ControlMessage ==
    ASSUME Wire, sending[ControlPort].fragments # <<>>, Assembled(ControlPort).message # <<>>
    PROVE  Assembled(ControlPort).message \in Controls
<1> DEFINE p == ControlPort
           m == sending[p].message
<1>1. p \in Ports
  BY Surface
<1> HIDE DEF p
<1>2. PICK begin \in From(p) :
        /\ pending[p] = Head2(begin) /\ sending[p].fragments = End(p, m)
        /\ Assembled(p).message = <<begin[1], begin[2], m[3]>> /\ m \in From(p)
  BY <1>1, FragmentTaken DEF p
<1>3. m \in MidiMessages
  BY <1>2, FromMessages
<1>4. CASE MaxLost <= 1
  <2>1. pending[p] = Head2(m)
    <3>1. pending[p] # <<>>
      BY <1>2 DEF Head2
    <3>2. ~(lostCount >= 2)
      BY <1>4, Surface DEF Wire
    <3> QED
      BY <1>1, <1>2, <3>1, <3>2 DEF Wire, Losses
  <2>2. begin[1] = m[1] /\ begin[2] = m[2]
    BY <1>2, <2>1 DEF Head2
  <2>3. Assembled(p).message = m
    BY <1>2, <1>3, <2>2, MessageBytes
  <2> QED
    BY <1>2, <1>4, <2>3 DEF p, Controls
<1>5. CASE ~(MaxLost <= 1)
  BY <1>2, <1>5 DEF p, Controls
<1> QED
  BY <1>4, <1>5

\* It has a status byte and two data bytes.
LEMMA ControlsMessages == Controls \subseteq MidiMessages
<1>1. CASE MaxLost <= 1
  BY <1>1, FromMessages DEF Controls
<1>2. CASE ~(MaxLost <= 1)
  <2>1. ASSUME NEW b \in From(ControlPort), NEW e \in From(ControlPort)
        PROVE  <<b[1], b[2], e[3]>> \in MidiMessages
    <3>1. b \in MidiMessages /\ e \in MidiMessages
      BY FromMessages
    <3> QED
      BY <3>1, MessageBytes DEF MidiMessages
  <2> QED
    BY <1>2, <2>1 DEF Controls
<1> QED
  BY <1>1, <1>2

\* It concerns a strip of the console.
LEMMA ChannelIsStrip ==
    ASSUME Strips = 0..7, NEW m \in MidiMessages
    PROVE  Channel(m) \in Strips
<1>1. m[2] \in Nat /\ m[3] \in Nat
  BY MessageBytes
<1>2. m[2] % 8 \in 0..7 /\ m[3] % 8 \in 0..7
  BY <1>1
<1> QED
  BY <1>2 DEF Channel

\* An append of bytes that may be sent
LEMMA EntryTyped ==
    ASSUME NEW bytes \in OutgoingBytes, NEW purpose \in Purposes, NEW note \in {None} \cup 2..4
    PROVE  /\ Entry(bytes, purpose, note) \in Entries
           /\ <<Entry(bytes, purpose, note)>> \in Seq(Entries)
           /\ Entry(bytes, purpose, note).purpose = purpose
           /\ Entry(bytes, purpose, note).bytes = bytes
<1> DEFINE e == Entry(bytes, purpose, note)
<1>1. e \in Entries /\ e.purpose = purpose /\ e.bytes = bytes
  BY DEF Entry, Entries
<1> HIDE DEF e
<1>2. <<e>> \in Seq(Entries)
  BY <1>1
<1> QED
  BY <1>1, <1>2 DEF e

\* What the controls' own reaction to a message appends: the position of the fader that is
\* let go, or a motor test.
LEMMA MappedTyped ==
    ASSUME Strips = 0..7, Handed, NEW m \in Controls
    PROVE  LET a == MappedAppends(m) IN
           \/ a = <<>>
           \/ \E e \in Entries : a = <<e>> /\ e.purpose = "motor"
           \/ /\ Release(m) /\ faderMove[Channel(m)] # None
              /\ \E e \in Entries : /\ a = <<e>> /\ e.purpose = "fader"
                                    /\ e.bytes = faderMove[Channel(m)]
<1> DEFINE c == Channel(m)
           target == IF toggle[c] THEN 256 ELSE 768
           motorEntry == Entry(MotorTarget(c, target), "motor", None)
           faderEntry == Entry(faderMove[c], "fader", None)
<1>1. c \in Strips
  BY ChannelIsStrip, ControlsMessages
<1>2. target \in {256, 768}
  OBVIOUS
<1> HIDE DEF c, target
<1>3. motorEntry \in Entries /\ motorEntry.purpose = "motor"
  <2>1. MotorTarget(c, target) \in OutgoingBytes
    <3>1. MotorTarget(c, target) \in MotorTargets
      BY <1>1, <1>2 DEF MotorTargets
    <3> QED
      BY <3>1 DEF OutgoingBytes
  <2> QED
    BY <2>1, EntryTyped DEF Purposes
<1>4. ASSUME faderMove[c] # None
      PROVE  /\ faderEntry \in Entries /\ faderEntry.purpose = "fader"
             /\ faderEntry.bytes = faderMove[c]
  <2>1. faderMove[c] \in OutgoingBytes
    BY <1>1, <1>4 DEF Handed, Moved, OutgoingBytes
  <2> QED
    BY <2>1, EntryTyped DEF Purposes
<1>5. \/ MappedAppends(m) = <<motorEntry>>
      \/ Release(m) /\ faderMove[c] # None /\ MappedAppends(m) = <<faderEntry>>
      \/ MappedAppends(m) = <<>>
  BY ZenonT(30) DEF MappedAppends, c, target
<1> HIDE DEF motorEntry, faderEntry
<1> QED
  BY <1>3, <1>4, <1>5 DEF c

\* What a message is answered with: a move that is fed back, lights, or itself.
LEMMA FeedbackTyped ==
    ASSUME NEW m \in Controls
    PROVE  LET a == FeedbackAppends(m) IN
           /\ a \in Seq(Entries)
           /\ IsFaderMove(m) =>
                IF FeedBackMove(Channel(m), m[3])
                THEN \E e \in Entries : a = <<e>> /\ e.purpose = "fader" /\ e.bytes = m
                ELSE a = <<>>
           /\ ~IsFaderMove(m) => \A i \in DOMAIN a : a[i].purpose # "fader"
<1> DEFINE a == FeedbackAppends(m)
           faderEntry == Entry(m, "fader", None)
           echoEntry == Entry(m, "echo", None)
<1>1. m \in OutgoingBytes /\ m[2] \in Nat
  BY ControlsMessages, MessageBytes DEF OutgoingBytes
<1>2. /\ faderEntry \in Entries /\ faderEntry.purpose = "fader" /\ faderEntry.bytes = m
      /\ echoEntry \in Entries /\ echoEntry.purpose = "echo"
  BY <1>1, EntryTyped DEF Purposes
<1> HIDE DEF faderEntry, echoEntry
<1>3. CASE IsFaderMove(m)
  <2>1. a = IF FeedBackMove(Channel(m), m[3]) THEN <<faderEntry>> ELSE <<>>
    BY <1>3 DEF FeedbackAppends, faderEntry
  <2> HIDE DEF a
  <2>2. a \in Seq(Entries)
    BY <1>2, <2>1
  <2> QED
    BY <1>2, <1>3, <2>1, <2>2 DEF a
<1>4. CASE ~IsFaderMove(m)
  <2>1. \/ a = <<>>
        \/ a = <<echoEntry>>
        \/ IsModeButton(m) /\ a = ModeLeds(m[2])
    BY <1>4 DEF FeedbackAppends, echoEntry
  <2>2. ASSUME IsModeButton(m), a = ModeLeds(m[2])
        PROVE  a \in Seq(Entries) /\ \A i \in DOMAIN a : a[i].purpose # "fader"
    <3> DEFINE n == m[2]
    <3>1. n \in 2..4
      BY <2>2 DEF IsModeButton
    <3>2. ASSUME NEW i \in 1..3
          PROVE  ModeLeds(n)[i] \in Entries /\ ModeLeds(n)[i].purpose = "led"
      <4> DEFINE b == <<144, i + 1, IF i + 1 = n THEN 13 + 32 ELSE 13>>
      <4>1. ModeLeds(n)[i] = Entry(b, "led", n) /\ DOMAIN ModeLeds(n) = 1..3
        BY DEF ModeLeds
      <4>2. ModeLeds(n)[i].bytes = b
        BY <4>1 DEF Entry
      <4> HIDE DEF b
      <4>3. b \in OutgoingBytes
        <5>1. b \in {ModeLeds(n)[j].bytes : j \in DOMAIN ModeLeds(n)}
          BY <4>1, <4>2, Zenon
        <5>2. b \in Lights
          BY <3>1, <5>1, Zenon DEF Lights
        <5> QED
          BY <5>2 DEF OutgoingBytes
      <4> QED
        BY <3>1, <4>1, <4>3, EntryTyped DEF Purposes
    <3>3. DOMAIN ModeLeds(n) = 1..3 /\ ModeLeds(n) \in [1..3 -> Entries]
      BY <3>2 DEF ModeLeds
    <3>4. ModeLeds(n) \in Seq(Entries)
      BY <3>3, SeqDef
    <3> QED
      BY <2>2, <3>2, <3>3, <3>4
  <2> HIDE DEF a
  <2>3. a \in Seq(Entries) /\ \A i \in DOMAIN a : a[i].purpose # "fader"
    <3>1. CASE a = <<>>
      BY <3>1
    <3>2. CASE a = <<echoEntry>>
      <4>1. <<echoEntry>> \in Seq(Entries) /\ DOMAIN <<echoEntry>> = 1..1
            /\ <<echoEntry>>[1] = echoEntry
        BY <1>2
      <4> QED
        BY <1>2, <3>2, <4>1
    <3> QED
      BY <2>1, <2>2, <3>1, <3>2
  <2> QED
    BY <1>4, <2>3 DEF a
<1> QED
  BY <1>3, <1>4

\* All that a message of the controls makes the harvest append.
LEMMA AnswerTyped ==
    ASSUME Strips = 0..7, Handed, NEW m \in Controls
    PROVE  LET a == MappedAppends(m) \o FeedbackAppends(m) IN
           /\ a \in Seq(Entries)
           /\ IsFaderMove(m) =>
                IF FeedBackMove(Channel(m), m[3])
                THEN \E e \in Entries : a = <<e>> /\ e.purpose = "fader" /\ e.bytes = m
                ELSE a = <<>>
           /\ ~IsFaderMove(m) => \A i \in DOMAIN a : a[i].purpose = "fader" =>
                i = 1 /\ faderMove[Channel(m)] # None /\ a[i].bytes = faderMove[Channel(m)]
<1> DEFINE first == MappedAppends(m)
           rest == FeedbackAppends(m)
           a == first \o rest
           position == faderMove[Channel(m)]
<1>1. /\ rest \in Seq(Entries)
      /\ IsFaderMove(m) =>
           IF FeedBackMove(Channel(m), m[3])
           THEN \E e \in Entries : rest = <<e>> /\ e.purpose = "fader" /\ e.bytes = m
           ELSE rest = <<>>
      /\ ~IsFaderMove(m) => \A i \in DOMAIN rest : rest[i].purpose # "fader"
  BY FeedbackTyped
<1>2. \/ first = <<>>
      \/ \E e \in Entries : first = <<e>> /\ e.purpose = "motor"
      \/ /\ position # None
         /\ \E e \in Entries : first = <<e>> /\ e.purpose = "fader" /\ e.bytes = position
  BY MappedTyped, Zenon
<1>3. IsFaderMove(m) => first = <<>>
  BY DEF IsFaderMove, MappedAppends, MotorTest, Release, IsStripNote
<1> HIDE DEF first, rest, position
<1>4. CASE first = <<>>
  <2>1. a = rest
    BY <1>1, <1>4, ConcatEmptySeq
  <2> HIDE DEF a
  <2> QED
    BY <1>1, <2>1, Zenon DEF a, first, rest
<1>5. ASSUME NEW e \in Entries, first = <<e>>,
             e.purpose = "fader" => position # None /\ e.bytes = position
      PROVE  /\ a \in Seq(Entries)
             /\ \A i \in DOMAIN a : a[i].purpose = "fader" =>
                  i = 1 /\ position # None /\ a[i].bytes = position
  <2>1. ~IsFaderMove(m)
    <3>1. <<e>> # <<>>
      OBVIOUS
    <3> QED
      BY <1>3, <1>5, <3>1
  <2>2. first \in Seq(Entries) /\ Len(first) = 1 /\ first[1] = e
    BY <1>5
  <2>3. /\ a \in Seq(Entries) /\ Len(a) = 1 + Len(rest) /\ Len(rest) \in Nat
        /\ \A i \in 1..Len(a) : a[i] = IF i <= 1 THEN first[i] ELSE rest[i - 1]
    <3>1. /\ a \in Seq(Entries) /\ Len(a) = Len(first) + Len(rest)
          /\ \A i \in 1..(Len(first) + Len(rest)) :
                 a[i] = IF i <= Len(first) THEN first[i] ELSE rest[i - Len(first)]
      BY <1>1, <2>2, ConcatProperties, Zenon
    <3>2. Len(rest) \in Nat
      BY <1>1, LenProperties
    <3> HIDE DEF a
    <3> QED
      BY <2>2, <3>1, <3>2
  <2>4. DOMAIN a = 1..Len(a) /\ DOMAIN rest = 1..Len(rest)
    BY <1>1, <2>3, LenProperties
  <2> HIDE DEF a
  <2>5. ASSUME NEW i \in DOMAIN a, a[i].purpose = "fader"
        PROVE  i = 1 /\ position # None /\ a[i].bytes = position
    <3>1. CASE i = 1
      BY <1>5, <2>2, <2>3, <2>4, <2>5, <3>1
    <3>2. CASE i # 1
      <4>1. i - 1 \in DOMAIN rest /\ a[i] = rest[i - 1]
        BY <2>3, <2>4, <2>5, <3>2
      <4> QED
        BY <1>1, <2>1, <2>5, <4>1
    <3> QED
      BY <3>1, <3>2
  <2> QED
    BY <2>3, <2>5
<1>6. CASE first # <<>>
  <2>1. PICK e \in Entries :
            /\ first = <<e>>
            /\ e.purpose = "fader" => position # None /\ e.bytes = position
    BY <1>2, <1>6
  <2>2. ~IsFaderMove(m)
    BY <1>3, <1>6
  <2> HIDE DEF a
  <2> QED
    BY <1>5, <2>1, <2>2 DEF a, first, rest, position
<1> QED
  BY <1>4, <1>6

\* A position to be fed back comes first, and is that of the last move.
FaderFirst ==
    \A t \in Threads : \A i \in DOMAIN todo[t] : todo[t][i].purpose = "fader" =>
        /\ t = Harvest /\ i = 1
        /\ \E c \in Strips : faderMove[c] # None /\ todo[t][i].bytes = faderMove[c]

Due(c) == \E i \in DOMAIN todo[Harvest] : /\ todo[Harvest][i].purpose = "fader"
                                         /\ todo[Harvest][i].bytes = faderMove[c]
Fresh(c) ==
    /\ lastSent[c] # None /\ since[c] < Stride
    /\ Distance(faderMove[c][3], lastSent[c]) < MinDelta

\* A move is dealt with once it need not be fed back, or has been.
FreshOrDue ==
    /\ since \in [Strips -> Nat]
    /\ lastSent \in [Strips -> {None} \cup Byte]
    /\ FaderFirst
    /\ ~refused => \A c \in Strips : faderMove[c] # None => Fresh(c) \/ Due(c)

SurfaceInv == Wire /\ Handed /\ FreshOrDue

\* Nothing was moved at the beginning.
LEMMA SurfaceStarts == Init => SurfaceInv
<1> SUFFICES ASSUME Init PROVE SurfaceInv
  OBVIOUS
<1>1. Handed
  <2>1. todo \in [Threads -> Seq(Entries)]
    BY DEF Init
  <2>2. faderMove \in [Strips -> {None} \cup Controls] /\ \A c \in Strips : faderMove[c] = None
    BY DEF Init
  <2> QED
    BY <2>1, <2>2 DEF Handed
<1>2. FreshOrDue
  <2>1. FaderFirst
    <3>1. \A t \in Threads : todo[t] = <<>> /\ DOMAIN todo[t] = {}
      BY DEF Init
    <3> QED
      BY <3>1 DEF FaderFirst
  <2> QED
    BY <2>1 DEF Init, FreshOrDue
<1> QED
  BY <1>1, <1>2, WireStarts DEF SurfaceInv

\* A message of the controls is answered, and a move is fed back or need not be.
LEMMA ObserveKeeps ==
    ASSUME Strips = 0..7, SurfaceInv, ReceiveControl(ControlPort)
    PROVE  Handed' /\ FreshOrDue'
<1> DEFINE m == Assembled(ControlPort).message
           a == MappedAppends(m) \o FeedbackAppends(m)
           c == Channel(m)
<1> USE DEF SurfaceInv
<1>1. /\ todo[Harvest] = <<>> /\ m # <<>> /\ sending[ControlPort].fragments # <<>>
      /\ ObserveControls(m)
  BY DEF ReceiveControl, Decode, TakeFragment
<1>2. m \in Controls /\ m \in MidiMessages /\ c \in Strips
  BY <1>1, ControlMessage, ControlsMessages, ChannelIsStrip
<1>3. /\ a \in Seq(Entries)
      /\ IsFaderMove(m) =>
           IF FeedBackMove(c, m[3])
           THEN \E e \in Entries : a = <<e>> /\ e.purpose = "fader" /\ e.bytes = m
           ELSE a = <<>>
      /\ ~IsFaderMove(m) => \A i \in DOMAIN a : a[i].purpose = "fader" =>
           i = 1 /\ faderMove[c] # None /\ a[i].bytes = faderMove[c]
  BY <1>2, AnswerTyped, Zenon
<1>4. /\ faderMove' = IF IsFaderMove(m) THEN [faderMove EXCEPT ![c] = m] ELSE faderMove
      /\ since' = IF IsFaderMove(m) THEN [since EXCEPT ![c] = @ + 1] ELSE since
      /\ todo' = [todo EXCEPT ![Harvest] = a]
      /\ lastSent' = lastSent /\ refused' = refused
  BY <1>1 DEF ObserveControls
<1> HIDE DEF m, a, c
<1>5. Harvest \in Threads
  BY DEF Threads
<1>6. todo' \in [Threads -> Seq(Entries)] /\ todo'[Harvest] = a
      /\ \A t \in Threads \ {Harvest} : todo'[t] = todo[t]
  BY <1>3, <1>4, <1>5 DEF Handed
<1>7. IsFaderMove(m) => m \in Moved(c) /\ m # None
  BY <1>2, Surface DEF Moved, c
<1>8. Handed'
  <2>1. faderMove' \in [Strips -> {None} \cup Controls]
    BY <1>2, <1>4 DEF Handed
  <2>2. ASSUME NEW d \in Strips, faderMove'[d] # None PROVE faderMove'[d] \in Moved(d)
    <3>1. CASE IsFaderMove(m) /\ d = c
      BY <1>4, <1>7, <3>1 DEF Handed
    <3>2. CASE ~(IsFaderMove(m) /\ d = c)
      <4>1. faderMove'[d] = faderMove[d]
        BY <1>4, <3>2 DEF Handed
      <4> QED
        BY <2>2, <4>1 DEF Handed
    <3> QED
      BY <3>1, <3>2
  <2> QED
    BY <1>6, <2>1, <2>2 DEF Handed, Moved
<1>9. FaderFirst'
  <2> SUFFICES ASSUME NEW t \in Threads, NEW i \in DOMAIN todo'[t],
                      todo'[t][i].purpose = "fader"
               PROVE  /\ t = Harvest /\ i = 1
                      /\ \E d \in Strips : faderMove'[d] # None /\ todo'[t][i].bytes = faderMove'[d]
    BY DEF FaderFirst
  <2>1. t = Harvest
    BY <1>6 DEF FreshOrDue, FaderFirst
  <2>2. i \in DOMAIN a /\ a[i].purpose = "fader"
    BY <1>6, <2>1
  <2>3. CASE IsFaderMove(m)
    <3>1. PICK e \in Entries : a = <<e>> /\ e.purpose = "fader" /\ e.bytes = m
      <4>1. a # <<>>
        BY <2>2
      <4> QED
        BY <1>3, <2>3, <4>1
    <3>2. i = 1 /\ a[i].bytes = m
      BY <2>2, <3>1
    <3>3. faderMove'[c] = m
      BY <1>2, <1>4, <2>3 DEF Handed
    <3> QED
      BY <1>2, <1>6, <1>7, <2>1, <2>3, <3>2, <3>3
  <2>4. CASE ~IsFaderMove(m)
    BY <1>2, <1>3, <1>4, <1>6, <2>1, <2>2, <2>4
  <2> QED
    BY <2>3, <2>4
<1>10. ASSUME ~refused', NEW d \in Strips, faderMove'[d] # None
       PROVE  Fresh(d)' \/ Due(d)'
  <2>1. ASSUME faderMove[d] # None PROVE Fresh(d)
    <3>1. ~Due(d)
      BY <1>1 DEF Due
    <3> QED
      BY <1>4, <1>10, <2>1, <3>1 DEF FreshOrDue
  <2>2. CASE ~(IsFaderMove(m) /\ d = c)
    <3>1. faderMove'[d] = faderMove[d] /\ since'[d] = since[d] /\ lastSent'[d] = lastSent[d]
      BY <1>4, <2>2 DEF Handed, FreshOrDue
    <3> QED
      BY <1>10, <2>1, <3>1 DEF Fresh
  <2>3. CASE IsFaderMove(m) /\ d = c /\ FeedBackMove(c, m[3])
    <3>1. PICK e \in Entries : a = <<e>> /\ e.purpose = "fader" /\ e.bytes = m
      BY <1>3, <2>3
    <3>2. 1 \in DOMAIN a /\ a[1] = e
      BY <3>1
    <3>3. faderMove'[c] = m
      BY <1>2, <1>4, <2>3 DEF Handed
    <3> QED
      BY <1>6, <2>3, <3>1, <3>2, <3>3 DEF Due
  <2>4. CASE IsFaderMove(m) /\ d = c /\ ~FeedBackMove(c, m[3])
    <3>1. /\ lastSent[c] # None /\ ~(since[c] + 1 >= Stride)
          /\ ~(Distance(m[3], lastSent[c]) >= MinDelta)
      BY <2>4 DEF FeedBackMove
    <3>2. since[c] \in Nat /\ lastSent[c] \in Byte /\ m[3] \in Nat
      BY <1>2, <3>1, MessageBytes DEF FreshOrDue
    <3>3. faderMove'[c] = m /\ since'[c] = since[c] + 1 /\ lastSent'[c] = lastSent[c]
      BY <1>2, <1>4, <2>4 DEF Handed, FreshOrDue
    <3>4. Distance(m[3], lastSent[c]) \in Int
      BY <3>2 DEF Distance, Byte
    <3>5. since[c] + 1 < Stride /\ Distance(m[3], lastSent[c]) < MinDelta
      BY <3>1, <3>2, <3>4, Surface
    <3> QED
      BY <2>4, <3>1, <3>3, <3>5 DEF Fresh
  <2> QED
    BY <2>2, <2>3, <2>4
<1>11. since' \in [Strips -> Nat] /\ lastSent' \in [Strips -> {None} \cup Byte]
  BY <1>2, <1>4 DEF FreshOrDue
<1> QED
  BY <1>8, <1>9, <1>10, <1>11 DEF FreshOrDue

\* A command of a client says nothing about a fader.
LEMMA CommandKeeps ==
    ASSUME SurfaceInv, NEW t \in Clients, NEW bytes \in Commands, BeginCommand(t, bytes)
    PROVE  Handed' /\ FreshOrDue'
<1> DEFINE e == Entry(bytes, "command", None)
<1> USE DEF SurfaceInv
<1>1. e \in Entries /\ <<e>> \in Seq(Entries) /\ e.purpose = "command"
  BY EntryTyped DEF OutgoingBytes, Purposes
<1> HIDE DEF e
<1>2. /\ todo' = [todo EXCEPT ![t] = <<e>>]
      /\ UNCHANGED <<faderMove, since, lastSent, refused>>
  BY DEF BeginCommand, e, surface, feedback, history
<1>3. t \in Threads /\ t # Harvest
  BY QueueAssumption DEF Threads
<1>4. /\ todo' \in [Threads -> Seq(Entries)] /\ todo'[t] = <<e>>
      /\ \A u \in Threads \ {t} : todo'[u] = todo[u]
  BY <1>1, <1>2, <1>3 DEF Handed
<1>5. Handed'
  BY <1>2, <1>4 DEF Handed, Moved
<1>6. todo'[Harvest] = todo[Harvest]
  BY <1>3, <1>4 DEF Threads
<1>7. FaderFirst'
  <2>1. \A i \in DOMAIN <<e>> : <<e>>[i].purpose # "fader"
    BY <1>1
  <2> QED
    BY <1>2, <1>4, <2>1 DEF FreshOrDue, FaderFirst
<1>8. \A c \in Strips : (Fresh(c)' <=> Fresh(c)) /\ (Due(c)' <=> Due(c))
  BY <1>2, <1>6 DEF Fresh, Due
<1>9. ~refused' => \A c \in Strips : faderMove'[c] # None => Fresh(c)' \/ Due(c)'
  BY <1>2, <1>8, Zenon DEF FreshOrDue
<1>10. since' \in [Strips -> Nat] /\ lastSent' \in [Strips -> {None} \cup Byte]
  BY <1>2 DEF FreshOrDue
<1> QED
  BY <1>5, <1>7, <1>9, <1>10, Zenon DEF FreshOrDue

\* An append that is over: the thread goes on with what follows.
LEMMA NextAppend ==
    ASSUME SurfaceInv, NEW t \in Threads, todo[t] # <<>>,
           todo' = [todo EXCEPT ![t] = Tail(@)], UNCHANGED <<faderMove, toggle>>
    PROVE  /\ Handed' /\ FaderFirst'
           /\ Head(todo[t]) \in Entries /\ 1 \in DOMAIN todo[t] /\ todo[t][1] = Head(todo[t])
           /\ \A u \in Threads \ {t} : todo'[u] = todo[u]
<1> USE DEF SurfaceInv
<1>1. todo[t] \in Seq(Entries)
  BY DEF Handed
<1>2. /\ Head(todo[t]) \in Entries /\ Tail(todo[t]) \in Seq(Entries)
      /\ Len(todo[t]) \in Nat /\ Len(todo[t]) > 0 /\ Head(todo[t]) = todo[t][1]
      /\ DOMAIN todo[t] = 1..Len(todo[t])
      /\ DOMAIN Tail(todo[t]) = 1..(Len(todo[t]) - 1)
      /\ \A i \in 1..(Len(todo[t]) - 1) : Tail(todo[t])[i] = todo[t][i + 1]
  BY <1>1
<1>3. /\ todo' \in [Threads -> Seq(Entries)] /\ todo'[t] = Tail(todo[t])
      /\ \A u \in Threads \ {t} : todo'[u] = todo[u]
  BY <1>2 DEF Handed
<1>4. Handed'
  BY <1>3 DEF Handed, Moved
<1>5. ASSUME NEW i \in DOMAIN todo'[t] PROVE todo'[t][i].purpose # "fader"
  <2>1. i + 1 \in DOMAIN todo[t] /\ i + 1 # 1 /\ todo'[t][i] = todo[t][i + 1]
    BY <1>2, <1>3
  <2> QED
    BY <2>1 DEF FreshOrDue, FaderFirst
<1>6. FaderFirst'
  BY <1>3, <1>5 DEF FreshOrDue, FaderFirst
<1> QED
  BY <1>2, <1>3, <1>4, <1>6

\* A position that was queued is remembered as sent; it is the fader's last one.
LEMMA QueuedKeeps ==
    ASSUME SurfaceInv, NEW t \in Threads, todo[t] # <<>>, Queued(t), UNCHANGED surface
    PROVE  Handed' /\ FreshOrDue'
<1> DEFINE e == Head(todo[t])
           c == Channel(e.bytes)
<1> USE DEF SurfaceInv
<1>1. /\ todo' = [todo EXCEPT ![t] = Tail(@)] /\ UNCHANGED <<faderMove, toggle, refused>>
      /\ RememberSent(e)
  BY DEF Queued, surface
<1>2. /\ Handed' /\ FaderFirst' /\ e \in Entries /\ 1 \in DOMAIN todo[t] /\ todo[t][1] = e
      /\ \A u \in Threads \ {t} : todo'[u] = todo[u]
  BY <1>1, NextAppend
<1> HIDE DEF e
<1>3. CASE e.purpose = "fader"
  <2>1. t = Harvest /\ \E d \in Strips : faderMove[d] # None /\ e.bytes = faderMove[d]
    BY <1>2, <1>3 DEF FreshOrDue, FaderFirst
  <2>2. PICK d \in Strips : faderMove[d] # None /\ e.bytes = faderMove[d]
    BY <2>1
  <2>3. faderMove[d] \in Moved(d) /\ c = d /\ faderMove[d] \in MidiMessages
    BY <2>2, ControlsMessages DEF Handed, Moved
  <2>4. since' = [since EXCEPT ![d] = 0] /\ lastSent' = [lastSent EXCEPT ![d] = e.bytes[3]]
    BY <1>1, <1>3, <2>3 DEF RememberSent
  <2>5. e.bytes[3] \in Byte
    BY <2>2, <2>3, MessageBytes DEF Byte
  <2>6. since' \in [Strips -> Nat] /\ lastSent' \in [Strips -> {None} \cup Byte]
    BY <2>4, <2>5 DEF FreshOrDue
  <2>7. Fresh(d)'
    <3>1. /\ since'[d] = 0 /\ lastSent'[d] = faderMove[d][3] /\ faderMove' = faderMove
          /\ lastSent'[d] # None
      BY <1>1, <2>2, <2>4, <2>5, Surface DEF FreshOrDue
    <3>2. Distance(faderMove[d][3], faderMove[d][3]) = 0
      <4>1. faderMove[d][3] \in Byte
        BY <2>2, <2>5, Zenon
      <4>2. ASSUME NEW x \in Byte PROVE Distance(x, x) = 0
        BY DEF Byte, Distance
      <4> QED
        BY <4>1, <4>2, Zenon
    <3> QED
      BY <3>1, <3>2, Surface DEF Fresh
  <2>8. ASSUME ~refused, NEW b \in Strips, faderMove[b] # None, b # d PROVE Fresh(b)'
    <3>1. ~Due(b)
      <4>1. ASSUME Due(b) PROVE FALSE
        <5>1. e.bytes = faderMove[b]
          BY <1>2, <2>1, <4>1 DEF Due, FreshOrDue, FaderFirst
        <5>2. Channel(e.bytes) = b
          BY <2>8, <5>1 DEF Handed, Moved
        <5> QED
          BY <2>3, <2>8, <5>2
      <4> QED
        BY <4>1
    <3>2. Fresh(b)
      BY <2>8, <3>1 DEF FreshOrDue
    <3>3. since'[b] = since[b] /\ lastSent'[b] = lastSent[b] /\ faderMove' = faderMove
      BY <1>1, <2>4, <2>8 DEF FreshOrDue
    <3> QED
      BY <3>2, <3>3 DEF Fresh
  <2>9. ~refused' => \A b \in Strips : faderMove'[b] # None => Fresh(b)' \/ Due(b)'
    BY <1>1, <2>7, <2>8
  <2> QED
    BY <1>2, <2>6, <2>9 DEF FreshOrDue
<1>4. CASE e.purpose # "fader"
  <2>1. UNCHANGED <<since, lastSent>>
    BY <1>1, <1>4 DEF RememberSent
  <2>2. ASSUME ~refused, NEW b \in Strips, faderMove[b] # None PROVE (Fresh(b) \/ Due(b))'
    <3>1. CASE t = Harvest
      <4>1. ~Due(b)
        BY <1>2, <1>4, <3>1 DEF Due, FreshOrDue, FaderFirst
      <4>2. Fresh(b)
        BY <2>2, <4>1 DEF FreshOrDue
      <4> QED
        BY <1>1, <2>1, <4>2 DEF Fresh
    <3>2. CASE t # Harvest
      <4>1. todo'[Harvest] = todo[Harvest]
        BY <1>2, <3>2 DEF Threads
      <4>2. Fresh(b) \/ Due(b)
        BY <2>2 DEF FreshOrDue
      <4> QED
        BY <1>1, <2>1, <4>1, <4>2 DEF Fresh, Due
    <3> QED
      BY <3>1, <3>2
  <2>3. since' \in [Strips -> Nat] /\ lastSent' \in [Strips -> {None} \cup Byte]
    BY <2>1 DEF FreshOrDue
  <2>4. ~refused' => \A b \in Strips : faderMove'[b] # None => Fresh(b)' \/ Due(b)'
    BY <1>1, <2>2
  <2> QED
    BY <1>2, <2>3, <2>4 DEF FreshOrDue
<1> QED
  BY <1>3, <1>4

\* An append that failed is no excuse for one that follows, but ends the promise.
LEMMA RefusedKeeps ==
    ASSUME SurfaceInv, NEW t \in Threads, todo[t] # <<>>, NotQueued(t), UNCHANGED surface
    PROVE  Handed' /\ FreshOrDue'
<1> USE DEF SurfaceInv
<1>1. /\ todo' = [todo EXCEPT ![t] = Tail(@)] /\ UNCHANGED <<faderMove, toggle, since, lastSent>>
      /\ refused'
  BY DEF NotQueued, surface
<1>2. Handed' /\ FaderFirst'
  BY <1>1, NextAppend
<1>3. since' \in [Strips -> Nat] /\ lastSent' \in [Strips -> {None} \cup Byte]
  BY <1>1 DEF FreshOrDue
<1> QED
  BY <1>1, <1>2, <1>3, Zenon DEF FreshOrDue

\* Nothing else concerns what is appended or remembered.
LEMMA SurfaceIdle ==
    ASSUME SurfaceInv, UNCHANGED <<todo, faderMove, toggle, since, lastSent, refused>>
    PROVE  Handed' /\ FreshOrDue'
<1> USE DEF SurfaceInv
<1>1. Handed' /\ FaderFirst'
  BY DEF Handed, Moved, FreshOrDue, FaderFirst
<1>2. \A c \in Strips : (Fresh(c)' <=> Fresh(c)) /\ (Due(c)' <=> Due(c))
  BY DEF Fresh, Due
<1>3. since' \in [Strips -> Nat] /\ lastSent' \in [Strips -> {None} \cup Byte]
  BY DEF FreshOrDue
<1>4. ~refused' => \A c \in Strips : faderMove'[c] # None => Fresh(c)' \/ Due(c)'
  BY <1>2, Zenon DEF FreshOrDue
<1> QED
  BY <1>1, <1>3, <1>4 DEF FreshOrDue

\* The invariant of the surface is inductive, for a console of eight strips.
LEMMA SurfaceInductive ==
    ASSUME Strips = 0..7
    PROVE  SurfaceInv /\ [Next]_vars => SurfaceInv'
<1> SUFFICES ASSUME SurfaceInv, [Next]_vars PROVE Handed' /\ FreshOrDue'
  BY WireInductive DEF SurfaceInv
<1>1. ASSUME NEW n \in scene, SendMessage(n[1], n[2]) PROVE Handed' /\ FreshOrDue'
  BY <1>1, SurfaceIdle DEF SendMessage, surface, feedback, history
<1>2. ASSUME NEW p \in Ports, LoseFragment(p) PROVE Handed' /\ FreshOrDue'
  BY <1>2, SurfaceIdle DEF LoseFragment, surface, feedback, history
<1>3. ASSUME NEW p \in Ports, ReceivePart(p) \/ ReceiveElsewhere(p) PROVE Handed' /\ FreshOrDue'
  BY <1>3, SurfaceIdle DEF ReceivePart, ReceiveElsewhere, surface, feedback, history
<1>4. ASSUME NEW p \in Ports, ReceiveControl(p) PROVE Handed' /\ FreshOrDue'
  <2>1. ReceiveControl(ControlPort)
    BY <1>4 DEF ReceiveControl
  <2> QED
    BY <2>1, ObserveKeeps
<1>5. ASSUME NEW t \in Clients, NEW bytes \in Commands, BeginCommand(t, bytes)
      PROVE  Handed' /\ FreshOrDue'
  BY <1>5, CommandKeeps
<1>6. ASSUME NEW t \in Clients \cup {Harvest}, AppendStep(t) PROVE Handed' /\ FreshOrDue'
  <2>1. t \in Threads /\ todo[t] # <<>> /\ UNCHANGED surface
    BY <1>6 DEF AppendStep, Elsewhere, Threads
  <2>2. CASE NotQueued(t)
    BY <2>1, <2>2, RefusedKeeps
  <2>3. CASE Queued(t)
    BY <2>1, <2>3, QueuedKeeps
  <2>4. CASE UNCHANGED <<feedback, todo>>
    BY <2>1, <2>4, SurfaceIdle DEF surface, feedback, history
  <2> QED
    BY <1>6, <2>2, <2>3, <2>4 DEF AppendStep
<1>7. CASE Pop
  BY <1>7, SurfaceIdle DEF Pop, surface, feedback, history
<1>8. CASE UNCHANGED vars
  BY <1>8, SurfaceIdle DEF vars, surface, feedback, history
<1> QED
  BY <1>1, <1>2, <1>3, <1>4, <1>5, <1>6, <1>7, <1>8 DEF Next, Receive

\* As long as no append fails: however the console's faders are moved, whatever else is
\* pressed, lost on the way or appended by clients, the console is told a position before
\* the driver's one is MinDelta or Stride moves ahead of it.
THEOREM FeedbackIsFreshHolds ==
    ASSUME Strips = 0..7
    PROVE  Spec => []FeedbackIsFresh
<1>1. SurfaceInv => FeedbackIsFresh
  <2> SUFFICES ASSUME SurfaceInv, ~refused, todo[Harvest] = <<>>, NEW c \in Strips,
                      faderMove[c] # None
               PROVE  Fresh(c)
    BY DEF FeedbackIsFresh, Fresh
  <2>1. ~Due(c)
    BY DEF Due
  <2> QED
    BY <2>1 DEF SurfaceInv, FreshOrDue
<1>2. SurfaceInv /\ [Next]_vars => SurfaceInv'
  BY SurfaceInductive
<1> QED
  BY <1>1, <1>2, SurfaceStarts, PTL DEF Spec

-----------------------------------------------------------------------------
(* The words in the ring.                                                   *)

\* The i-th of the words waiting, when q is in the slots and r is to be read next
WordAt(q, r, i) == q[(r + i - 1) % QueueSize]

\* Where it is.
LEMMA Place ==
    ASSUME NEW r \in Slots, NEW i \in 1..QueueSize
    PROVE  (r + i - 1) % QueueSize = Wrapped((r + i) - 1) /\ Wrapped((r + i) - 1) \in Slots
<1> DEFINE a == (r + i) - 1
           q == a \div QueueSize
           b == a % QueueSize
<1>1. QueueSize \in Nat /\ QueueSize > 0
  BY Assumed
<1>2. a \in 0..(2 * QueueSize - 1) /\ (r + i - 1) % QueueSize = b
  BY <1>1 DEF Slots
<1> HIDE DEF a
<1>3. a = QueueSize * q + b /\ b \in 0..(QueueSize - 1) /\ q \in Int
  BY <1>1, <1>2, Z3
<1> HIDE DEF q, b
<1>4. CASE q <= -1
  <2>1. QueueSize * q <= -QueueSize
    BY <1>1, <1>3, <1>4, Z3
  <2> QED
    BY <1>1, <1>2, <1>3, <2>1
<1>5. CASE q >= 2
  <2>1. QueueSize * q >= 2 * QueueSize
    BY <1>1, <1>3, <1>5, Z3
  <2> QED
    BY <1>1, <1>2, <1>3, <2>1
<1>6. CASE q = 0 \/ q = 1
  BY <1>1, <1>2, <1>3, <1>6 DEF Wrapped, Slots, a
<1> QED
  BY <1>3, <1>4, <1>5, <1>6

\* A word that is stored goes behind those that wait.
LEMMA StoredLast ==
    ASSUME readIndex \in Slots, IndicesAgree, DOMAIN queue = Slots, queueCount < QueueSize,
           NEW w, queue' = [queue EXCEPT ![writeIndex] = w], readIndex' = readIndex
    PROVE  /\ DOMAIN queue' = Slots
           /\ \A i \in 1..queueCount :
                  WordAt(queue', readIndex', i) = WordAt(queue, readIndex, i)
           /\ WordAt(queue', readIndex', queueCount + 1) = w
<1>1. QueueSize \in Nat /\ QueueSize > 0 /\ queueCount \in Nat
  BY Assumed DEF IndicesAgree
<1>2. writeIndex \in Slots /\ writeIndex = Wrapped(readIndex + queueCount)
  BY WriteInRing DEF IndicesAgree
<1>3. ASSUME NEW i \in 1..queueCount
      PROVE  WordAt(queue', readIndex', i) = WordAt(queue, readIndex, i)
  <2> DEFINE s == (readIndex + i - 1) % QueueSize
  <2>1. s = Wrapped((readIndex + i) - 1) /\ s \in Slots
    BY <1>1, Place
  <2> HIDE DEF s
  <2>2. s # writeIndex
    BY <1>1, <1>2, <2>1 DEF Wrapped, Slots
  <2>3. queue'[s] = queue[s]
    BY <2>1, <2>2
  <2> QED
    BY <2>3, Zenon DEF WordAt, s
<1>4. WordAt(queue', readIndex', queueCount + 1) = w
  <2> DEFINE s == (readIndex + (queueCount + 1) - 1) % QueueSize
  <2>1. s = Wrapped((readIndex + (queueCount + 1)) - 1)
    BY <1>1, Place
  <2> HIDE DEF s
  <2>2. s = writeIndex
    BY <1>1, <1>2, <2>1 DEF Wrapped, Slots
  <2>3. queue'[s] = w
    BY <1>2, <2>2
  <2> QED
    BY <2>3, Zenon DEF WordAt, s
<1> QED
  BY <1>3, <1>4

\* When the first is taken out, each of the others moves up.
LEMMA FirstRemoved ==
    ASSUME readIndex \in Slots, queueCount \in 1..QueueSize, DOMAIN queue = Slots,
           queue' = [queue EXCEPT ![readIndex] = NoData],
           readIndex' = (readIndex + 1) % QueueSize
    PROVE  /\ DOMAIN queue' = Slots
           /\ WordAt(queue, readIndex, 1) = queue[readIndex]
           /\ \A i \in 1..(queueCount - 1) :
                  WordAt(queue', readIndex', i) = WordAt(queue, readIndex, i + 1)
<1>1. QueueSize \in Nat /\ QueueSize > 0
  BY Assumed
<1>2. WordAt(queue, readIndex, 1) = queue[readIndex]
  <2> DEFINE s == (readIndex + 1 - 1) % QueueSize
  <2>1. s = Wrapped((readIndex + 1) - 1)
    BY <1>1, Place
  <2> HIDE DEF s
  <2>2. s = readIndex
    BY <1>1, <2>1 DEF Wrapped, Slots
  <2> QED
    BY <2>2, Zenon DEF WordAt, s
<1>3. readIndex' = Wrapped(readIndex + 1) /\ readIndex' \in Slots
  BY NextIndex
<1>4. ASSUME NEW i \in 1..(queueCount - 1)
      PROVE  WordAt(queue', readIndex', i) = WordAt(queue, readIndex, i + 1)
  <2> DEFINE s == (readIndex' + i - 1) % QueueSize
             u == (readIndex + (i + 1) - 1) % QueueSize
  <2>1. i \in 1..QueueSize /\ i + 1 \in 1..QueueSize /\ i \in Nat
    BY <1>1
  <2>2. s = Wrapped((readIndex' + i) - 1) /\ s \in Slots
    BY <1>3, <2>1, Place
  <2>3. u = Wrapped((readIndex + (i + 1)) - 1) /\ u \in Slots
    BY <2>1, Place
  <2> HIDE DEF s, u
  <2>4. s = u /\ u # readIndex
    BY <1>1, <1>3, <2>1, <2>2, <2>3 DEF Wrapped, Slots
  <2>5. queue'[s] = queue[u]
    BY <2>3, <2>4
  <2> QED
    BY <2>5, Zenon DEF WordAt, s, u
<1> QED
  BY <1>2, <1>4

-----------------------------------------------------------------------------
(* An append under way.                                                     *)

\* The message a thread appends, and how many of its words are stored
Appended(t) == Words(ControlPort, Head(todo[t]).bytes)
Count(t) == Len(Appended(t)) - Len(left[t])

\* The last words in the queue are the first of the message, the others are yet to store.
Parted(t) ==
    /\ Count(t) \in 0..queueCount
    /\ \A i \in 1..Count(t) :
           WordAt(queue, readIndex, (queueCount - Count(t)) + i) = Appended(t)[i]
    /\ \A i \in 1..Len(left[t]) : left[t][i] = Appended(t)[Count(t) + i]

Partway(t) ==
    /\ step[t] # "popping"
    /\ step[t] # "idle" => todo[t] # <<>>
    /\ step[t] = "locked" => left[t] = Appended(t)
    /\ step[t] = "storing" => Parted(t) /\ Count(t) > 0

Appending ==
    /\ DOMAIN queue = Slots
    /\ step[Push] \in {"idle", "popping"}
    /\ \A t \in Threads \ {Push} : Partway(t)

\* What is appended is a message.
LEMMA AppendedMessage ==
    ASSUME Outgoing \subseteq Message, Handed, NEW t \in Threads, todo[t] # <<>>
    PROVE  /\ Appended(t) \in Message /\ Appended(t) \in Seq(AnyWord)
           /\ Len(Appended(t)) \in Nat /\ Len(Appended(t)) > 0
<1>1. Head(todo[t]) \in Entries
  BY DEF Handed
<1>2. Head(todo[t]).bytes \in OutgoingBytes
  BY <1>1 DEF Entries
<1>3. Appended(t) \in Message
  BY <1>2 DEF Appended, Outgoing
<1>4. Appended(t) \in Seq(AnyWord) /\ Appended(t) # <<>>
  BY <1>3, QueueAssumption DEF AnyWord
<1> HIDE DEF Appended
<1> QED
  BY <1>3, <1>4

\* The threads that append are all but the push.
LEMMA Appenders ==
    /\ Clients \cup {Harvest} = Threads \ {Push}
    /\ Harvest \in Threads \ {Push}
  BY QueueAssumption DEF Threads

\* Every step of the surface is one of the queue by itself, or does not concern it.
LEMMA SurfaceQueue ==
    ASSUME Outgoing \subseteq Message, Handed, [Next]_vars
    PROVE  [QueueNext]_queueVars
<1>1. ASSUME NEW t \in Clients \cup {Harvest}, AppendStep(t) PROVE QueueNext
  <2>1. t \in Threads \ {Push} /\ todo[t] # <<>>
    BY <1>1, Appenders DEF AppendStep
  <2>2. Appended(t) \in Message
    BY <2>1, AppendedMessage
  <2>3. \/ AppendBusy(t) \/ AppendLock(t, Appended(t)) \/ AppendFull(t)
        \/ StoreWord(t) \/ AppendDone(t)
    BY <1>1 DEF AppendStep, Appended
  <2> QED
    BY <2>1, <2>2, <2>3, Zenon DEF QueueNext
<1>2. CASE Pop
  BY <1>2, Zenon DEF Pop, QueueNext
<1>3. CASE UNCHANGED queueVars
  BY <1>3
<1>4. ASSUME NEW n \in scene, SendMessage(n[1], n[2]) PROVE UNCHANGED queueVars
  BY <1>4 DEF SendMessage
<1>5. ASSUME NEW p \in Ports, LoseFragment(p) \/ Receive(p) PROVE UNCHANGED queueVars
  BY <1>5 DEF LoseFragment, Receive, ReceivePart, ReceiveElsewhere, ReceiveControl, Decode,
              TakeFragment
<1>6. ASSUME NEW t \in Clients, NEW bytes \in Commands, BeginCommand(t, bytes)
      PROVE  UNCHANGED queueVars
  BY <1>6 DEF BeginCommand
<1>7. CASE UNCHANGED vars
  BY <1>7 DEF vars
<1> QED
  BY <1>1, <1>2, <1>3, <1>4, <1>5, <1>6, <1>7, Zenon DEF Next

\* Nothing is under way at the beginning.
LEMMA AppendingStarts == Init => Appending
<1> SUFFICES ASSUME Init PROVE Appending
  OBVIOUS
<1>1. \A t \in Threads : step[t] = "idle"
  BY DEF Init, QueueInit
<1>2. DOMAIN queue = Slots
  BY DEF Init, QueueInit
<1> QED
  BY <1>1, <1>2, Assumed DEF Appending, Partway

\* A thread that nothing happens to, while another takes or leaves the flag.
LEMMA ParkedKeeps ==
    ASSUME Appending, NEW t \in Threads \ {Push}, UNCHANGED contents,
           step'[t] = step[t], left'[t] = left[t], step[t] # "idle" => todo'[t] = todo[t]
    PROVE  Partway(t)'
<1>1. CASE step[t] = "idle"
  BY <1>1 DEF Partway
<1>2. CASE step[t] # "idle"
  <2>1. Appended(t)' = Appended(t) /\ Count(t)' = Count(t)
    BY <1>2 DEF Appended, Count
  <2>2. Parted(t) => Parted(t)'
    BY <2>1, Zenon DEF Parted, contents
  <2> QED
    BY <1>2, <2>1, <2>2 DEF Appending, Partway
<1> QED
  BY <1>1, <1>2

\* One more word is stored.
LEMMA StoreParts ==
    ASSUME QInv, Appending, Handed, Outgoing \subseteq Message,
           NEW t \in Threads \ {Push}, todo[t] # <<>>, StoreWord(t), todo' = todo
    PROVE  /\ Parted(t)' /\ Count(t)' > 0 /\ Count(t)' = Count(t) + 1
           /\ queueCount' = queueCount + 1 /\ DOMAIN queue' = Slots
           /\ Count(t) \in 0..queueCount /\ queueCount \in Nat
           /\ step[t] = "locked" => Count(t) = 0
           /\ \A i \in 1..queueCount :
                  WordAt(queue', readIndex', i) = WordAt(queue, readIndex, i)
<1> DEFINE m == Appended(t)
           l == left[t]
           c == Count(t)
           n == queueCount
<1>1. /\ m \in Seq(AnyWord) /\ Len(m) \in Nat
      /\ l \in Seq(AnyWord) /\ l # <<>> /\ Len(l) \in Nat /\ Len(l) > 0
  <2>1. l \in Seq(AnyWord) /\ l # <<>>
    BY DEF StoreWord, QInv, QueueTyped
  <2> QED
    BY <2>1, AppendedMessage
<1>2. /\ left' = [left EXCEPT ![t] = Tail(l)] /\ queueCount' = n + 1 /\ readIndex' = readIndex
      /\ queue' = [queue EXCEPT ![writeIndex] = Head(l)]
      /\ \/ step[t] = "locked" /\ n + Len(l) <= QueueSize
         \/ step[t] = "storing"
  BY DEF StoreWord
<1>3. n + Len(l) <= QueueSize /\ n \in Nat /\ n < QueueSize /\ QueueSize \in Nat
  <2>1. n + Len(l) <= QueueSize
    BY <1>2 DEF QInv, IndicesAgree
  <2> QED
    BY <1>1, <2>1, Assumed DEF QInv, IndicesAgree
<1>4. Parted(t) /\ (step[t] = "locked" => c = 0)
  <2>1. CASE step[t] = "storing"
    BY <2>1 DEF Appending, Partway
  <2>2. CASE step[t] = "locked"
    <3>1. l = m
      BY <2>2 DEF Appending, Partway
    <3>2. c = 0
      BY <1>1, <3>1 DEF Count
    <3>3. \A i \in 1..Len(l) : l[i] = m[0 + i]
      BY <1>1, <3>1
    <3> HIDE DEF m, c
    <3> QED
      BY <1>3, <3>2, <3>3 DEF Parted, m, c
  <2> QED
    BY <1>2, <2>1, <2>2
<1>5. /\ DOMAIN queue' = Slots
      /\ \A i \in 1..n : WordAt(queue', readIndex', i) = WordAt(queue, readIndex, i)
      /\ WordAt(queue', readIndex', n + 1) = Head(l)
  BY <1>2, <1>3, StoredLast DEF QInv, QueueTyped, Appending
<1>6. /\ left'[t] = Tail(l) /\ Len(Tail(l)) = Len(l) - 1 /\ Head(l) = l[1]
      /\ \A i \in 1..(Len(l) - 1) : Tail(l)[i] = l[i + 1]
  BY <1>1, <1>2 DEF QInv, QueueTyped
<1>7. Appended(t)' = m /\ Count(t)' = c + 1
  <2>1. Appended(t)' = m
    BY DEF Appended
  <2>2. Count(t)' = Len(m) - (Len(l) - 1) /\ c = Len(m) - Len(l)
    BY <1>6, <2>1, Zenon DEF Count
  <2> HIDE DEF m, l, c
  <2> QED
    BY <1>1, <2>1, <2>2
<1>8. /\ c \in 0..n /\ c = Len(m) - Len(l)
      /\ \A i \in 1..c : WordAt(queue, readIndex, (n - c) + i) = m[i]
      /\ \A i \in 1..Len(l) : l[i] = m[c + i]
  BY <1>4, Zenon DEF Parted, Count
<1> HIDE DEF m, l, c
<1>9. ASSUME NEW i \in 1..(c + 1)
      PROVE  WordAt(queue', readIndex', ((n + 1) - (c + 1)) + i) = m[i]
  <2>1. ((n + 1) - (c + 1)) + i = (n - c) + i
    BY <1>3, <1>8
  <2>2. CASE i <= c
    <3>1. i \in 1..c /\ (n - c) + i \in 1..n
      BY <1>3, <1>8, <2>2
    <3> QED
      BY <1>5, <1>8, <2>1, <3>1, Zenon
  <2>3. CASE i = c + 1
    <3>1. (n - c) + i = n + 1 /\ 1 \in 1..Len(l)
      BY <1>1, <1>3, <1>8, <2>3
    <3> QED
      BY <1>5, <1>6, <1>8, <2>1, <2>3, <3>1, Zenon
  <2> QED
    BY <1>8, <2>2, <2>3
<1>10. ASSUME NEW i \in 1..Len(left'[t]) PROVE left'[t][i] = m[(c + 1) + i]
  <2>1. i \in 1..(Len(l) - 1) /\ i + 1 \in 1..Len(l) /\ c + (i + 1) = (c + 1) + i
    BY <1>1, <1>6, <1>8
  <2> QED
    BY <1>6, <1>8, <2>1
<1>11. c + 1 \in 0..(n + 1) /\ c + 1 > 0
  BY <1>3, <1>8
<1>12. Parted(t)'
  BY <1>2, <1>7, <1>9, <1>10, <1>11, Zenon DEF Parted
<1> QED
  BY <1>2, <1>3, <1>4, <1>5, <1>7, <1>8, <1>11, <1>12 DEF c

\* While one thread works on the queue, the others do not.
LEMMA OthersIdle ==
    ASSUME QInv, NEW t \in Threads, step[t] # "idle"
    PROVE  \A u \in Threads \ {t} : step[u] = "idle"
  BY DEF QInv, FlagSplit, Holding

\* Each step leaves every append where it can go on.
LEMMA AppendingInductive ==
    ASSUME Outgoing \subseteq Message
    PROVE  QInv /\ Handed /\ Appending /\ [Next]_vars => Appending'
<1> SUFFICES ASSUME QInv, Handed, Appending, [Next]_vars PROVE Appending'
  OBVIOUS
<1>1. ASSUME UNCHANGED queueVars,
             \A t \in Threads \ {Push} : step[t] # "idle" => todo'[t] = todo[t]
      PROVE  Appending'
  <2>1. ASSUME NEW t \in Threads \ {Push} PROVE Partway(t)'
    BY <1>1, ParkedKeeps DEF queueVars, contents
  <2> QED
    BY <1>1, <2>1 DEF Appending, queueVars
<1>2. ASSUME NEW t \in Threads \ {Push}, AppendStep(t) PROVE Appending'
  <2>1. todo[t] # <<>> /\ step \in [Threads -> {"idle", "locked", "storing", "popping"}]
        /\ left \in [Threads -> Seq(AnyWord)] /\ todo \in [Threads -> Seq(Entries)]
    BY <1>2 DEF AppendStep, QInv, QueueTyped, Handed
  <2>2. CASE StoreWord(t) /\ todo' = todo
    <3>1. step[t] # "idle" /\ step' = [step EXCEPT ![t] = "storing"]
      BY <2>2 DEF StoreWord
    <3>2. ASSUME NEW u \in Threads \ {Push}, u # t PROVE Partway(u)'
      <4>1. step'[u] = "idle"
        BY <2>1, <3>1, <3>2, OthersIdle
      <4> QED
        BY <4>1 DEF Partway
    <3>3. Partway(t)' /\ DOMAIN queue' = Slots
      <4>1. Parted(t)' /\ Count(t)' > 0 /\ DOMAIN queue' = Slots
        BY <2>1, <2>2, StoreParts
      <4> QED
        BY <2>1, <2>2, <3>1, <4>1 DEF Partway
    <3>4. step'[Push] = step[Push]
      BY <2>1, <3>1, Assumed
    <3> QED
      BY <3>2, <3>3, <3>4 DEF Appending
  <2>3. CASE UNCHANGED contents /\ \A u \in Threads \ {t} :
                 step'[u] = step[u] /\ left'[u] = left[u] /\ todo'[u] = todo[u]
    <3>1. ASSUME NEW u \in Threads \ {Push}, u # t PROVE Partway(u)'
      BY <2>3, <3>1, ParkedKeeps
    <3>2. Partway(t)'
      <4>1. CASE AppendLock(t, Appended(t)) /\ todo' = todo
        BY <2>1, <4>1 DEF AppendLock, Partway, Appended
      <4>2. CASE step'[t] = "idle"
        BY <4>2 DEF Partway
      <4>3. CASE AppendBusy(t) \/ AppendFull(t) \/ AppendDone(t)
        BY <2>1, <4>2, <4>3 DEF AppendBusy, AppendFull, AppendDone, queueVars
      <4>4. CASE StoreWord(t) /\ todo' = todo
        BY <2>2, <4>4 DEF Appending
      <4> QED
        BY <1>2, <4>1, <4>3, <4>4 DEF AppendStep, Appended
    <3>3. step'[Push] = step[Push] /\ queue' = queue
      BY <2>3, Assumed DEF contents
    <3> QED
      BY <3>1, <3>2, <3>3 DEF Appending
  <2>4. CASE AppendLock(t, Appended(t)) /\ todo' = todo
    BY <2>1, <2>3, <2>4 DEF AppendLock
  <2>5. CASE /\ AppendBusy(t) \/ AppendFull(t) \/ AppendDone(t)
             /\ todo' = [todo EXCEPT ![t] = Tail(@)]
    BY <2>1, <2>3, <2>5 DEF AppendBusy, AppendFull, AppendDone, queueVars, contents
  <2> QED
    BY <1>2, <2>2, <2>4, <2>5 DEF AppendStep, Queued, NotQueued, Appended
<1>3. CASE Pop
  <2>1. todo' = todo /\ step \in [Threads -> {"idle", "locked", "storing", "popping"}]
    BY <1>3 DEF Pop, QInv, QueueTyped
  <2>2. CASE PopWord
    <3>1. step[Push] = "popping" /\ step' = [step EXCEPT ![Push] = "idle"]
      BY <2>2 DEF PopWord
    <3>2. ASSUME NEW u \in Threads \ {Push} PROVE Partway(u)'
      <4>1. step'[u] = "idle"
        BY <2>1, <3>1, OthersIdle, Assumed
      <4> QED
        BY <4>1 DEF Partway
    <3>3. DOMAIN queue' = Slots
      BY <2>2 DEF PopWord, Appending
    <3> QED
      BY <2>1, <3>1, <3>2, <3>3, Assumed DEF Appending
  <2>3. CASE PopBusy \/ PopLock \/ PopEmpty
    <3>1. /\ UNCHANGED contents /\ left' = left
          /\ step' = step \/ step' = [step EXCEPT ![Push] = "popping"]
                          \/ step' = [step EXCEPT ![Push] = "idle"]
      BY <2>3 DEF PopBusy, PopLock, PopEmpty
    <3>2. step'[Push] \in {"idle", "popping"} /\ \A u \in Threads \ {Push} : step'[u] = step[u]
      BY <2>1, <3>1, Assumed DEF Appending
    <3>3. ASSUME NEW u \in Threads \ {Push} PROVE Partway(u)'
      BY <2>1, <3>1, <3>2, ParkedKeeps
    <3> QED
      BY <3>1, <3>2, <3>3 DEF Appending, contents
  <2> QED
    BY <1>3, <2>2, <2>3 DEF Pop
<1>4. ASSUME NEW p \in Ports, ReceiveControl(p) PROVE Appending'
  <2>1. /\ UNCHANGED queueVars /\ todo[Harvest] = <<>>
        /\ \E a : todo' = [todo EXCEPT ![Harvest] = a]
    BY <1>4 DEF ReceiveControl, Decode, TakeFragment, ObserveControls
  <2>2. step[Harvest] = "idle"
    BY <2>1, Appenders DEF Appending, Partway
  <2>3. \A t \in Threads \ {Push} : step[t] # "idle" => todo'[t] = todo[t]
    BY <2>1, <2>2 DEF Handed
  <2> QED
    BY <1>1, <2>1, <2>3
<1>5. ASSUME NEW t \in Clients, NEW bytes \in Commands, BeginCommand(t, bytes) PROVE Appending'
  <2>1. /\ UNCHANGED queueVars /\ todo[t] = <<>>
        /\ \E a : todo' = [todo EXCEPT ![t] = a]
    BY <1>5 DEF BeginCommand
  <2>2. step[t] = "idle"
    BY <2>1, Appenders DEF Appending, Partway
  <2>3. \A u \in Threads \ {Push} : step[u] # "idle" => todo'[u] = todo[u]
    BY <2>1, <2>2 DEF Handed
  <2> QED
    BY <1>1, <2>1, <2>3
<1>6. CASE UNCHANGED <<queueVars, todo>>
  BY <1>1, <1>6
<1>7. ASSUME NEW n \in scene, SendMessage(n[1], n[2]) PROVE Appending'
  BY <1>6, <1>7 DEF SendMessage
<1>8. ASSUME NEW p \in Ports, LoseFragment(p) \/ ReceivePart(p) \/ ReceiveElsewhere(p)
      PROVE  Appending'
  BY <1>6, <1>8 DEF LoseFragment, ReceivePart, ReceiveElsewhere, Decode, TakeFragment
<1>9. CASE UNCHANGED vars
  BY <1>6, <1>9 DEF vars
<1> QED
  BY <1>2, <1>3, <1>4, <1>5, <1>7, <1>8, <1>9, Appenders DEF Next, Receive

\* What holds of the surface and of its queue in every reachable state
ServedInv == SurfaceInv /\ QInv /\ Appending

\* It is inductive.
LEMMA ServedHolds ==
    ASSUME Strips = 0..7, Outgoing \subseteq Message
    PROVE  Spec => []ServedInv
<1>1. Init => ServedInv
  BY SurfaceStarts, QueueStarts, AppendingStarts DEF Init, ServedInv
<1>2. ServedInv /\ [Next]_vars => ServedInv'
  <2> SUFFICES ASSUME ServedInv, [Next]_vars PROVE ServedInv'
    OBVIOUS
  <2>1. SurfaceInv' /\ Appending'
    BY SurfaceInductive, AppendingInductive DEF ServedInv, SurfaceInv
  <2>2. QInv'
    BY SurfaceQueue, QueueSteps DEF ServedInv, SurfaceInv
  <2> QED
    BY <2>1, <2>2 DEF ServedInv
<1> QED
  BY <1>1, <1>2, PTL DEF Spec

(* While the console's controls are answered and clients send commands, the  *)
(* counters of the queue and its flag agree, as they do for any other users  *)
(* of it (2672-2717, 3222-3244).                                             *)
THEOREM QueueOrderedHolds ==
    ASSUME Strips = 0..7, Outgoing \subseteq Message
    PROVE  Spec => []QueueOrdered
<1>1. ServedInv => QueueOrdered
  BY DEF ServedInv, QInv, QueueTyped, FlagSplit, QueueOrdered, FlagIsHeld
<1> QED
  BY <1>1, ServedHolds, PTL

-----------------------------------------------------------------------------
(* The queue implements MessageFifo.                                        *)

\* The first n words that wait
Contents(q, r, n) == [i \in 1..n |-> WordAt(q, r, i)]
Inside(q, r, n) == {WordAt(q, r, i) : i \in 1..n}

\* A prefix of them.
LEMMA FirstWords ==
    ASSUME NEW q, NEW r, NEW n \in Nat, NEW k \in 0..n
    PROVE  SubSeq([i \in 1..n |-> q[(r + i - 1) % QueueSize]], 1, k) = Contents(q, r, k)
<1> DEFINE s == [i \in 1..n |-> WordAt(q, r, i)]
           S == {s[i] : i \in 1..n}
<1>1. s = [i \in 1..n |-> q[(r + i - 1) % QueueSize]]
  BY DEF WordAt
<1>2. s \in Seq(S) /\ Len(s) = n /\ \A i \in 1..n : s[i] = WordAt(q, r, i)
  <2>1. s \in [1..n -> S] /\ DOMAIN s = 1..n /\ \A i \in 1..n : s[i] = WordAt(q, r, i)
    OBVIOUS
  <2> HIDE DEF s, S
  <2> QED
    BY <2>1, SeqDef, LenProperties
<1> HIDE DEF s, S
<1>3. /\ SubSeq(s, 1, k) \in Seq(S) /\ Len(SubSeq(s, 1, k)) = k
      /\ \A i \in 1..k : SubSeq(s, 1, k)[i] = s[i]
  BY <1>2
<1>4. SubSeq(s, 1, k) = [i \in 1..k |-> WordAt(q, r, i)]
  <2> DEFINE u == SubSeq(s, 1, k)
  <2>1. u = [i \in 1..k |-> u[i]]
    BY <1>3, LenProperties
  <2>2. \A i \in 1..k : u[i] = WordAt(q, r, i)
    BY <1>2, <1>3
  <2> HIDE DEF u
  <2>3. u = [i \in 1..k |-> WordAt(q, r, i)]
    BY <2>1, <2>2
  <2> QED
    BY <2>3 DEF u
<1> QED
  BY <1>1, <1>4, Zenon DEF Contents

\* The words that count are all, but for those of an append under way.
WordsThatCount ==
    /\ (\A t \in Threads : step[t] # "storing") =>
           Complete = Contents(queue, readIndex, queueCount)
    /\ \A t \in Threads : step[t] = "storing" =>
           Complete = Contents(queue, readIndex, queueCount - Count(t))

\* What the refinement mapping makes of the ring, before a step ...
LEMMA CompleteIs == ServedInv => WordsThatCount
<1> SUFFICES ASSUME ServedInv PROVE WordsThatCount
  OBVIOUS
<1> DEFINE part == IF Stored = {} THEN 0 ELSE CHOOSE n \in Stored : TRUE
<1>1. QInv /\ Appending /\ queueCount \in Nat
  BY Assumed DEF ServedInv, QInv, IndicesAgree
<1>2. Complete = SubSeq(Waiting, 1, queueCount - part)
  BY DEF Complete
<1>3. Waiting = [i \in 1..queueCount |-> queue[(readIndex + i - 1) % QueueSize]]
  BY DEF Waiting
<1>4. ASSUME \A t \in Threads : step[t] # "storing"
      PROVE  Complete = Contents(queue, readIndex, queueCount)
  <2>1. part = 0
    BY <1>4 DEF Stored
  <2> HIDE DEF part
  <2>2. queueCount - part = queueCount /\ queueCount \in 0..queueCount
    BY <1>1, <2>1
  <2> QED
    BY <1>1, <1>2, <1>3, <2>2, FirstWords, Zenon
<1>5. ASSUME NEW t \in Threads, step[t] = "storing"
      PROVE  Complete = Contents(queue, readIndex, queueCount - Count(t))
  <2>1. \A u \in Threads \ {t} : step[u] # "storing"
    BY <1>1, <1>5, OthersIdle
  <2>2. {u \in Threads : step[u] = "storing"} = {t}
    BY <1>5, <2>1
  <2>3. Stored = {Count(t)}
    BY <2>2 DEF Stored, Count, Appended
  <2>4. part = Count(t)
    BY <2>3
  <2>5. t # Push
    BY <1>1, <1>5 DEF Appending
  <2>6. Count(t) \in 0..queueCount
    BY <1>1, <1>5, <2>5 DEF Appending, Partway, Parted
  <2> HIDE DEF part
  <2>7. queueCount - Count(t) \in 0..queueCount
    BY <1>1, <2>6
  <2> QED
    BY <1>1, <1>2, <1>3, <2>4, <2>7, FirstWords, Zenon
<1> QED
  BY <1>4, <1>5 DEF WordsThatCount

\* ... and after it.
LEMMA CompleteNext == ServedInv' => WordsThatCount'
  BY CompleteIs, PTL

\* The words that wait, as a sequence.
LEMMA ContentsAre ==
    ASSUME NEW q, NEW r, NEW n \in Nat
    PROVE  /\ Contents(q, r, n) \in Seq(Inside(q, r, n))
           /\ Len(Contents(q, r, n)) = n /\ DOMAIN Contents(q, r, n) = 1..n
           /\ \A i \in 1..n : Contents(q, r, n)[i] = WordAt(q, r, i)
<1> DEFINE s == Contents(q, r, n)
           S == Inside(q, r, n)
<1>1. s \in [1..n -> S] /\ \A i \in 1..n : s[i] = WordAt(q, r, i)
  BY DEF Contents, Inside
<1> HIDE DEF s, S
<1>2. s \in Seq(S) /\ Len(s) = n /\ DOMAIN s = 1..n
  BY <1>1, SeqDef, LenProperties
<1> QED
  BY <1>1, <1>2, Zenon DEF s, S

\* They are the same if their words are.
LEMMA SameContents ==
    ASSUME NEW q, NEW r, NEW v, NEW u, NEW n \in Nat,
           \A i \in 1..n : WordAt(q, r, i) = WordAt(v, u, i)
    PROVE  Contents(q, r, n) = Contents(v, u, n)
  BY DEF Contents

\* The end of an append makes its message count: its words come last.
DoneWords(t) ==
    LET m == Appended(t)
        n == queueCount
        k == Len(m)
    IN  /\ m \in Message /\ m \in Seq(AnyWord) /\ slot' = slot
        /\ n \in Nat /\ k \in 1..n
        /\ Complete = Contents(queue, readIndex, n - k)
        /\ Complete' = Contents(queue, readIndex, n)
        /\ \A i \in 1..k : WordAt(queue, readIndex, (n - k) + i) = m[i]

\* An append that is done has put them there.
LEMMA AppendCounts ==
    ASSUME ServedInv, ServedInv', Outgoing \subseteq Message,
           NEW t \in Threads \ {Push}, AppendDone(t), todo[t] # <<>>
    PROVE  DoneWords(t)
<1> DEFINE m == Appended(t)
           n == queueCount
           k == Len(m)
           s == Contents(queue, readIndex, n)
<1>1. /\ step[t] = "storing" /\ left[t] = <<>> /\ step' = [step EXCEPT ![t] = "idle"]
      /\ UNCHANGED <<contents, slot>>
  BY DEF AppendDone
<1>2. m \in Message /\ m \in Seq(AnyWord) /\ k \in Nat /\ k > 0 /\ n \in Nat
  BY AppendedMessage, Assumed DEF ServedInv, SurfaceInv, QInv, IndicesAgree
<1>3. Count(t) = k
  <2>1. Len(left[t]) = 0 /\ Count(t) = Len(m) - Len(left[t])
    BY <1>1 DEF Count
  <2> HIDE DEF m
  <2> QED
    BY <1>2, <2>1
<1>4. k \in 1..n /\ \A i \in 1..k : WordAt(queue, readIndex, (n - k) + i) = m[i]
  <2>1. Parted(t) /\ Count(t) > 0
    BY <1>1 DEF ServedInv, Appending, Partway
  <2> HIDE DEF k
  <2> QED
    BY <1>2, <1>3, <2>1 DEF Parted
<1>5. Complete = Contents(queue, readIndex, n - k)
  BY <1>1, <1>3, CompleteIs, Zenon DEF WordsThatCount
<1>6. Complete' = s
  <2>1. \A u \in Threads : step'[u] # "storing"
    <3>1. \A u \in Threads \ {t} : step[u] = "idle"
      BY <1>1, OthersIdle DEF ServedInv
    <3> QED
      BY <1>1, <3>1 DEF ServedInv, QInv, QueueTyped
  <2>2. Complete' = Contents(queue', readIndex', queueCount')
    BY <2>1, CompleteNext, Zenon DEF WordsThatCount
  <2> QED
    BY <1>1, <2>2 DEF contents
<1> QED
  BY <1>1, <1>2, <1>4, <1>5, <1>6, Zenon DEF DoneWords

\* That implements putting the message.
LEMMA DonePuts ==
    ASSUME NEW t, DoneWords(t)
    PROVE  Fifo!Put
<1> DEFINE m == Appended(t)
           n == queueCount
           k == Len(m)
           s == Contents(queue, readIndex, n)
<1>1. slot' = slot
  BY DEF DoneWords
<1>2. m \in Message /\ m \in Seq(AnyWord) /\ k \in Nat /\ k > 0 /\ n \in Nat
  BY DEF DoneWords
<1>4. k \in 1..n /\ \A i \in 1..k : WordAt(queue, readIndex, (n - k) + i) = m[i]
  BY DEF DoneWords
<1>5. Complete = Contents(queue, readIndex, n - k)
  BY DEF DoneWords
<1>6. Complete' = s
  BY DEF DoneWords
<1> HIDE DEF m
<1>7. /\ n - k \in 0..n /\ n - k \in Nat /\ n - k < n /\ (n - k) + 1 \in 1..n
      /\ (n - k) + k = n
  BY <1>2, <1>4
<1>8. /\ s \in Seq(Inside(queue, readIndex, n)) /\ Len(s) = n
      /\ \A i \in 1..n : s[i] = WordAt(queue, readIndex, i)
  <2>1. n \in Nat
    BY <1>2
  <2> QED
    BY <2>1, ContentsAre, Zenon
<1>9. SubSeq(s, 1, n - k) = Contents(queue, readIndex, n - k)
  <2>1. s = [i \in 1..n |-> queue[(readIndex + i - 1) % QueueSize]]
    BY DEF Contents, WordAt
  <2>2. SubSeq([i \in 1..n |-> queue[(readIndex + i - 1) % QueueSize]], 1, n - k)
            = Contents(queue, readIndex, n - k)
    BY <1>2, <1>7, FirstWords
  <2> HIDE DEF s
  <2> QED
    BY <2>1, <2>2
<1>10. Len(Complete) = n - k
  BY <1>5, <1>7, ContentsAre, Zenon
<1> HIDE DEF s, k
<1>11. SubSeq(s, (n - k) + 1, n) = m
  <2> DEFINE e == SubSeq(s, (n - k) + 1, n)
             S == Inside(queue, readIndex, n)
  <2>1. e \in Seq(S) /\ Len(e) = k /\ \A i \in 1..k : e[i] = s[(n - k) + i]
    <3> HIDE DEF S
    <3>1. e \in Seq(S)
      BY <1>2, <1>7, <1>8 DEF S
    <3>2. Len(e) = k
      BY <1>2, <1>7, <1>8
    <3>3. ASSUME NEW i \in 1..k PROVE e[i] = s[(n - k) + i]
      BY <1>2, <1>7, <1>8, <3>3
    <3> QED
      BY <3>1, <3>2, <3>3
  <2>2. ASSUME NEW i \in 1..k PROVE e[i] = m[i]
    <3>1. (n - k) + i \in 1..n
      BY <1>2, <1>4
    <3>2. s[(n - k) + i] = WordAt(queue, readIndex, (n - k) + i)
      BY <1>8, <3>1, Zenon
    <3> QED
      BY <1>4, <2>1, <3>2, Zenon
  <2>3. e = [i \in 1..k |-> e[i]] /\ m = [i \in 1..k |-> m[i]]
    <3> HIDE DEF e
    <3> QED
      BY <1>2, <2>1, LenProperties DEF k
  <2> HIDE DEF e
  <2>4. e = m
    BY <2>2, <2>3
  <2> QED
    BY <2>4 DEF e
<1>12. /\ Len(s) > Len(Complete) /\ SubSeq(s, 1, Len(Complete)) = Complete
       /\ SubSeq(s, Len(Complete) + 1, Len(s)) = m
  <2>1. Len(s) > Len(Complete)
    BY <1>7, <1>8, <1>10
  <2> QED
    BY <1>5, <1>8, <1>9, <1>10, <1>11, <2>1, Zenon
<1> QED
  BY <1>1, <1>2, <1>6, <1>12, Zenon DEF Fifo!Put

\* A pop takes the first word, the others count as before.
PoppedWords ==
    LET n == queueCount IN
    /\ n \in Nat /\ n > 0 /\ slot' = queue[readIndex]
    /\ Complete = Contents(queue, readIndex, n)
    /\ Complete' = Contents(queue', readIndex', n - 1)
    /\ WordAt(queue, readIndex, 1) = queue[readIndex]
    /\ \A i \in 1..(n - 1) : WordAt(queue', readIndex', i) = WordAt(queue, readIndex, i + 1)

\* Taking a word out does that.
LEMMA PopTakes ==
    ASSUME ServedInv, ServedInv', PopWord
    PROVE  PoppedWords
<1> DEFINE n == queueCount
           s == Contents(queue, readIndex, n)
<1>1. /\ step[Push] = "popping" /\ n > 0 /\ slot' = queue[readIndex] /\ queueCount' = n - 1
      /\ queue' = [queue EXCEPT ![readIndex] = NoData]
      /\ readIndex' = (readIndex + 1) % QueueSize /\ step' = [step EXCEPT ![Push] = "idle"]
  BY DEF PopWord
<1>2. n \in Nat /\ n \in 1..QueueSize /\ n - 1 \in Nat
  BY <1>1, Assumed DEF ServedInv, QInv, IndicesAgree
<1>3. \A u \in Threads \ {Push} : step[u] = "idle"
  BY <1>1, OthersIdle, Assumed DEF ServedInv
<1>4. Complete = s
  BY <1>1, <1>3, CompleteIs DEF WordsThatCount
<1>5. Complete' = Contents(queue', readIndex', n - 1)
  <2>1. \A u \in Threads : step'[u] # "storing"
    BY <1>1, <1>3 DEF ServedInv, QInv, QueueTyped
  <2>2. Complete' = Contents(queue', readIndex', queueCount')
    BY <2>1, CompleteNext, Zenon DEF WordsThatCount
  <2> QED
    BY <1>1, <2>2
<1>6. /\ WordAt(queue, readIndex, 1) = queue[readIndex]
      /\ \A i \in 1..(n - 1) :
            WordAt(queue', readIndex', i) = WordAt(queue, readIndex, i + 1)
  BY <1>1, <1>2, FirstRemoved DEF ServedInv, QInv, QueueTyped, Appending
<1> QED
  BY <1>1, <1>2, <1>4, <1>5, <1>6, Zenon DEF PoppedWords

\* That implements sending it.
LEMMA PopSends ==
    ASSUME PoppedWords
    PROVE  Fifo!Send
<1> DEFINE n == queueCount
           s == Contents(queue, readIndex, n)
<1>1. n > 0 /\ slot' = queue[readIndex]
  BY DEF PoppedWords
<1>2. n \in Nat /\ n - 1 \in Nat
  BY DEF PoppedWords
<1>4. Complete = s
  BY DEF PoppedWords
<1>5. Complete' = Contents(queue', readIndex', n - 1)
  BY DEF PoppedWords
<1>6. /\ WordAt(queue, readIndex, 1) = queue[readIndex]
      /\ \A i \in 1..(n - 1) :
            WordAt(queue', readIndex', i) = WordAt(queue, readIndex, i + 1)
  BY DEF PoppedWords
<1>7. /\ s \in Seq(Inside(queue, readIndex, n)) /\ Len(s) = n
      /\ \A i \in 1..n : s[i] = WordAt(queue, readIndex, i)
  <2>1. n \in Nat
    BY <1>2
  <2> QED
    BY <2>1, ContentsAre, Zenon
<1> HIDE DEF s
<1>8. /\ s # <<>> /\ Head(s) = queue[readIndex]
      /\ Tail(s) = [i \in 1..(n - 1) |-> s[i + 1]]
  <2>1. s # <<>> /\ Head(s) = s[1]
    BY <1>2, <1>7
  <2>2. 1 \in 1..n
    BY <1>2
  <2>3. Head(s) = queue[readIndex]
    BY <1>6, <1>7, <2>1, <2>2, Zenon
  <2>4. Tail(s) = [i \in 1..(n - 1) |-> s[i + 1]]
    <3> DEFINE S == Inside(queue, readIndex, n)
    <3>1. s \in Seq(S)
      BY <1>7
    <3> HIDE DEF S
    <3>2. /\ Tail(s) \in Seq(S) /\ Len(Tail(s)) = n - 1
          /\ \A i \in 1..(n - 1) : Tail(s)[i] = s[i + 1]
      BY <1>2, <1>7, <2>1, <3>1
    <3>3. Tail(s) = [i \in 1..(n - 1) |-> Tail(s)[i]]
      BY <3>2, LenProperties
    <3> QED
      BY <3>2, <3>3
  <2> QED
    BY <2>1, <2>3, <2>4
<1>9. Contents(queue', readIndex', n - 1) = Tail(s)
  <2>1. ASSUME NEW i \in 1..(n - 1) PROVE WordAt(queue', readIndex', i) = s[i + 1]
    <3>1. i + 1 \in 1..n
      BY <1>2
    <3> QED
      BY <1>6, <1>7, <3>1, Zenon
  <2> QED
    BY <1>8, <2>1 DEF Contents
<1> QED
  BY <1>1, <1>4, <1>5, <1>8, <1>9, Zenon DEF Fifo!Send

\* Where nothing is stored, finished or taken out, the words that count stay the same.
LEMMA SameWords ==
    ASSUME ServedInv, ServedInv', UNCHANGED contents,
           \A t \in Threads : step[t] # "storing" /\ step'[t] # "storing"
    PROVE  Complete' = Complete
<1>1. Complete = Contents(queue, readIndex, queueCount)
  BY CompleteIs DEF WordsThatCount
<1>2. Complete' = Contents(queue', readIndex', queueCount')
  BY CompleteNext, Zenon DEF WordsThatCount
<1> QED
  BY <1>1, <1>2 DEF contents

\* A word that is stored does not count yet.
LEMMA StoreStutters ==
    ASSUME ServedInv, ServedInv', Outgoing \subseteq Message,
           NEW t \in Threads \ {Push}, todo[t] # <<>>, StoreWord(t), todo' = todo
    PROVE  Complete' = Complete
<1> DEFINE n == queueCount
           c == Count(t)
<1>1. /\ Count(t)' = c + 1 /\ queueCount' = n + 1 /\ c \in 0..n /\ n \in Nat
      /\ step[t] = "locked" => c = 0
      /\ \A i \in 1..n : WordAt(queue', readIndex', i) = WordAt(queue, readIndex, i)
  BY StoreParts DEF ServedInv, SurfaceInv
<1>2. step[t] \in {"locked", "storing"} /\ step'[t] = "storing"
  BY DEF StoreWord, ServedInv, QInv, QueueTyped
<1>3. Complete' = Contents(queue', readIndex', n - c)
  <2>1. Complete' = Contents(queue', readIndex', queueCount' - Count(t)')
    BY <1>2, CompleteNext, Zenon DEF WordsThatCount
  <2> HIDE DEF c
  <2>2. queueCount' - Count(t)' = n - c
    BY <1>1
  <2> QED
    BY <2>1, <2>2
<1>4. Complete = Contents(queue, readIndex, n - c)
  <2>1. CASE step[t] = "storing"
    BY <2>1, CompleteIs, Zenon DEF WordsThatCount
  <2>2. CASE step[t] = "locked"
    <3>1. \A u \in Threads : step[u] # "storing"
      BY <2>2, OthersIdle DEF ServedInv
    <3>2. Complete = Contents(queue, readIndex, n)
      BY <3>1, CompleteIs, Zenon DEF WordsThatCount
    <3> HIDE DEF c
    <3>3. n - c = n
      BY <1>1, <2>2
    <3> QED
      BY <3>2, <3>3
  <2> QED
    BY <1>2, <2>1, <2>2
<1> HIDE DEF c
<1>5. n - c \in Nat /\ \A i \in 1..(n - c) :
          WordAt(queue', readIndex', i) = WordAt(queue, readIndex, i)
  BY <1>1
<1> QED
  BY <1>3, <1>4, <1>5, SameContents

\* Every step of the surface ends an append, takes a word out, or changes nothing that
\* counts: an append that fails, a message of the controls, the beginning of a command, or
\* something that does not concern what is queued or has been heard.
SameWait == Complete' = Complete /\ slot' \in {slot, NoData} /\ UNCHANGED console
Ended(t) ==
    /\ AppendDone(t) /\ Queued(t) /\ todo[t] # <<>> /\ UNCHANGED Elsewhere
    /\ DoneWords(t)
Failed(t) == NotQueued(t) /\ todo[t] # <<>> /\ UNCHANGED Elsewhere /\ SameWait
Popped ==
    /\ HearWord(queue[readIndex]) /\ UNCHANGED <<surface, feedback, todo>>
    /\ PoppedWords
Observed == ReceiveControl(ControlPort) /\ SameWait
Commanded(t) == (\E bytes \in Commands : BeginCommand(t, bytes)) /\ SameWait
Passed == SameWait /\ UNCHANGED <<surface, feedback, todo>>

StepOfWords ==
    \/ \E t \in Threads \ {Push} : Ended(t) \/ Failed(t)
    \/ Popped
    \/ Observed
    \/ \E t \in Clients : Commanded(t)
    \/ Passed

\* There are no others.
LEMMA StepsOfWords ==
    ASSUME Outgoing \subseteq Message, ServedInv, ServedInv', [Next]_vars
    PROVE  StepOfWords
<1>1. /\ step \in [Threads -> {"idle", "locked", "storing", "popping"}] /\ Push \in Threads
      /\ todo \in [Threads -> Seq(Entries)]
  BY Assumed DEF ServedInv, SurfaceInv, QInv, QueueTyped, Handed
<1>2. ASSUME UNCHANGED queueVars PROVE Complete' = Complete
  <2>1. CASE \A t \in Threads : step[t] # "storing"
    BY <1>2, <2>1, SameWords DEF queueVars, contents
  <2>2. ASSUME NEW t \in Threads, step[t] = "storing" PROVE Complete' = Complete
    <3>1. t # Push /\ todo[t] # <<>>
      BY <2>2 DEF ServedInv, Appending, Partway
    <3>2. step'[t] = "storing" /\ UNCHANGED contents
      BY <1>2, <2>2 DEF queueVars, contents
    <3>3. Complete = Contents(queue, readIndex, queueCount - Count(t))
      BY <2>2, CompleteIs, Zenon DEF WordsThatCount
    <3>4. Complete' = Contents(queue', readIndex', queueCount' - Count(t)')
      BY <3>2, CompleteNext, Zenon DEF WordsThatCount
    <3>5. todo'[t] = todo[t] \/ \E u \in Clients \cup {Harvest} : AppendStep(u)
      <4>1. ASSUME NEW p \in Ports, ReceiveControl(p) PROVE todo'[t] = todo[t]
        BY <1>1, <3>1, <4>1, Appenders
           DEF ReceiveControl, Decode, TakeFragment, ObserveControls
      <4>2. ASSUME NEW u \in Clients, NEW bytes \in Commands, BeginCommand(u, bytes)
            PROVE  todo'[t] = todo[t]
        BY <1>1, <3>1, <4>2, Appenders DEF BeginCommand
      <4>3. ASSUME NEW m \in scene, SendMessage(m[1], m[2]) PROVE todo'[t] = todo[t]
        BY <4>3 DEF SendMessage
      <4>4. ASSUME NEW p \in Ports, LoseFragment(p) \/ ReceivePart(p) \/ ReceiveElsewhere(p)
            PROVE  todo'[t] = todo[t]
        BY <4>4 DEF LoseFragment, ReceivePart, ReceiveElsewhere
      <4>5. CASE Pop \/ UNCHANGED vars
        BY <4>5 DEF Pop, vars
      <4> QED
        BY <4>1, <4>2, <4>3, <4>4, <4>5 DEF Next, Receive
    <3>6. ASSUME NEW u \in Clients \cup {Harvest}, AppendStep(u) PROVE todo'[t] = todo[t]
      <4>1. u # t => todo'[t] = todo[t]
        BY <1>1, <3>6, Appenders DEF AppendStep, Queued, NotQueued
      <4>2. u # t
        <5> SUFFICES ASSUME u = t PROVE FALSE
          OBVIOUS
        <5>1. StoreWord(t) \/ AppendDone(t)
          BY <2>2, <3>6 DEF AppendStep, AppendBusy, AppendLock, AppendFull
        <5>2. step'[t] = "storing" /\ queueCount' = queueCount /\ queueCount \in Nat
          BY <1>2, <3>2, Assumed DEF queueVars, ServedInv, QInv, IndicesAgree
        <5> QED
          BY <1>1, <3>1, <5>1, <5>2 DEF StoreWord, AppendDone
      <4> QED
        BY <4>1, <4>2
    <3>7. Count(t)' = Count(t)
      BY <1>2, <3>5, <3>6 DEF Count, Appended, queueVars
    <3> QED
      BY <3>2, <3>3, <3>4, <3>7 DEF contents
  <2> QED
    BY <1>2, <2>1, <2>2 DEF queueVars
<1>3. ASSUME NEW t \in Threads \ {Push}, AppendStep(t) PROVE Ended(t) \/ Failed(t) \/ Passed
  <2>1. todo[t] # <<>> /\ UNCHANGED Elsewhere
    BY <1>3 DEF AppendStep
  <2> USE DEF SameWait, Elsewhere
  <2>2. CASE AppendBusy(t) /\ NotQueued(t)
    BY <1>2, <2>1, <2>2 DEF AppendBusy, Failed, queueVars
  <2>3. ASSUME AppendLock(t, Appended(t)) \/ AppendFull(t)
        PROVE  Complete' = Complete /\ slot' = slot
    <3>1. /\ UNCHANGED contents /\ slot' = slot
          /\ step' = [step EXCEPT ![t] = "locked"] \/ step' = [step EXCEPT ![t] = "idle"]
      BY <2>3 DEF AppendLock, AppendFull
    <3>2. \A u \in Threads : step[u] # "storing"
      <4>1. CASE AppendLock(t, Appended(t))
        BY <4>1 DEF AppendLock, ServedInv, QInv, FlagSplit, Holding
      <4>2. CASE AppendFull(t)
        BY <4>2, OthersIdle DEF AppendFull, ServedInv
      <4> QED
        BY <2>3, <4>1, <4>2
    <3>3. \A u \in Threads : step'[u] # "storing"
      BY <1>1, <3>1, <3>2
    <3> QED
      BY <3>1, <3>2, <3>3, SameWords
  <2>4. CASE AppendLock(t, Appended(t)) /\ UNCHANGED <<feedback, todo>>
    <3>1. Complete' = Complete /\ slot' = slot
      BY <2>3, <2>4 DEF AppendLock
    <3> QED
      BY <2>1, <2>4, <3>1 DEF Passed
  <2>5. CASE AppendFull(t) /\ NotQueued(t)
    <3>1. Complete' = Complete /\ slot' = slot
      BY <2>3, <2>5 DEF AppendFull
    <3> QED
      BY <2>1, <2>5, <3>1 DEF Failed
  <2>6. CASE StoreWord(t) /\ UNCHANGED <<feedback, todo>>
    BY <2>1, <2>6, StoreStutters DEF StoreWord, Passed
  <2>7. CASE AppendDone(t) /\ Queued(t)
    BY <2>1, <2>7, AppendCounts DEF Ended
  <2> QED
    BY <1>3, <2>2, <2>4, <2>5, <2>6, <2>7, Zenon DEF AppendStep, Appended
<1>4. ASSUME Pop PROVE Popped \/ Passed
  <2>1. UNCHANGED <<surface, feedback, todo>>
    BY <1>4 DEF Pop
  <2>2. CASE PopWord /\ HearWord(queue[readIndex])
    BY <2>1, <2>2, PopTakes DEF Popped
  <2>3. CASE PopLock /\ UNCHANGED console
    <3>1. \A u \in Threads : step[u] # "storing"
      BY <2>3 DEF PopLock, ServedInv, QInv, FlagSplit, Holding
    <3>2. \A u \in Threads : step'[u] # "storing"
      BY <1>1, <2>3, <3>1 DEF PopLock
    <3> QED
      BY <2>1, <2>3, <3>1, <3>2, SameWords DEF PopLock, Passed, SameWait
  <2>4. CASE PopEmpty /\ UNCHANGED console
    <3>1. \A u \in Threads : step[u] # "storing"
      BY <1>1, <2>4, OthersIdle DEF PopEmpty, ServedInv
    <3>2. \A u \in Threads : step'[u] # "storing"
      BY <1>1, <2>4, <3>1 DEF PopEmpty
    <3>3. Complete' = Complete /\ slot' = NoData
      BY <2>4, <3>1, <3>2, SameWords DEF PopEmpty
    <3> QED
      BY <2>1, <2>4, <3>3 DEF Passed, SameWait
  <2>5. CASE PopBusy /\ UNCHANGED console
    <3>1. UNCHANGED contents /\ step' = step /\ left' = left /\ slot' = NoData /\ todo' = todo
      BY <2>1, <2>5 DEF PopBusy
    <3>2. Complete' = Complete
      BY <3>1 DEF contents, Complete, Waiting, Stored
    <3> QED
      BY <2>1, <2>5, <3>1, <3>2 DEF Passed, SameWait
  <2> QED
    BY <1>4, <2>2, <2>3, <2>4, <2>5, Zenon DEF Pop
<1>5. ASSUME UNCHANGED queueVars PROVE Complete' = Complete /\ slot' = slot
  BY <1>2, <1>5 DEF queueVars
<1>6. ASSUME NEW m \in scene, SendMessage(m[1], m[2]) PROVE Passed
  BY <1>5, <1>6 DEF SendMessage, Passed, SameWait
<1>7. ASSUME NEW p \in Ports, LoseFragment(p) PROVE Passed
  BY <1>5, <1>7 DEF LoseFragment, Passed, SameWait
<1>8. ASSUME NEW p \in Ports, ReceivePart(p) \/ ReceiveElsewhere(p) PROVE Passed
  BY <1>5, <1>8 DEF ReceivePart, ReceiveElsewhere, Decode, TakeFragment, Passed, SameWait
<1>9. ASSUME NEW p \in Ports, ReceiveControl(p) PROVE Observed
  BY <1>5, <1>9 DEF ReceiveControl, Decode, TakeFragment, Observed, SameWait
<1>10. ASSUME NEW t \in Clients, NEW bytes \in Commands, BeginCommand(t, bytes)
      PROVE  Commanded(t)
  BY <1>5, <1>10 DEF BeginCommand, Commanded, SameWait
<1>11. ASSUME UNCHANGED vars PROVE Passed
  BY <1>5, <1>11 DEF vars, Passed, SameWait
<1> USE Appenders DEF StepOfWords
<1>12. CASE \E t \in Clients \cup {Harvest} : AppendStep(t)
  BY <1>3, <1>12
<1>13. CASE \E p \in Ports : LoseFragment(p) \/ Receive(p)
  BY <1>7, <1>8, <1>9, <1>13 DEF Receive
<1> QED
  BY <1>4, <1>6, <1>10, <1>11, <1>12, <1>13 DEF Next

\* Every step of the surface puts a message, sends a word, or changes nothing that counts.
LEMMA FifoSteps ==
    ASSUME Outgoing \subseteq Message, ServedInv, ServedInv', [Next]_vars
    PROVE  [Fifo!Next]_<<Complete, slot>>
<1>1. StepOfWords
  BY StepsOfWords
<1>2. ASSUME NEW t \in Threads \ {Push}, Ended(t) PROVE Fifo!Put
  BY <1>2, DonePuts DEF Ended
<1>3. ASSUME Popped PROVE Fifo!Send
  BY <1>3, PopSends DEF Popped
<1>4. ASSUME SameWait PROVE [Fifo!Next]_<<Complete, slot>>
  BY <1>4 DEF SameWait, Fifo!Next, Fifo!SendNothing
<1> QED
  BY <1>1, <1>2, <1>3, <1>4
     DEF StepOfWords, Failed, Observed, Commanded, Passed, Fifo!Next

\* Nothing waits at the beginning.
LEMMA CompleteStarts == Init => Fifo!Init
<1> SUFFICES ASSUME Init PROVE Fifo!Init
  OBVIOUS
<1>1. queueCount = 0 /\ slot = NoData /\ Stored = {}
  BY DEF Init, QueueInit, Stored
<1>2. Complete = SubSeq([i \in 1..0 |-> queue[(readIndex + i - 1) % QueueSize]], 1, 0)
  BY <1>1 DEF Complete, Waiting
<1>3. Complete = Contents(queue, readIndex, 0)
  <2>1. 0 \in Nat /\ 0 \in 0..0
    OBVIOUS
  <2> QED
    BY <1>2, <2>1, FirstWords, Zenon
<1>4. Complete = <<>>
  <2>1. Len(Complete) = 0 /\ Complete \in Seq(Inside(queue, readIndex, 0))
    <3>1. 0 \in Nat
      OBVIOUS
    <3> QED
      BY <1>3, <3>1, ContentsAre, Zenon
  <2> QED
    BY <2>1
<1> QED
  BY <1>1, <1>4 DEF Fifo!Init

(* The queue of the control surface implements MessageFifo: whatever harvest,*)
(* push and clients do at the same time, however many clients there are and  *)
(* whatever they send, the console is sent whole messages, each once and in  *)
(* the order they were queued; one that meets a full queue or a taken flag   *)
(* leaves no word behind (2688-2717, 3222-3244).                             *)
THEOREM WholeMessagesHold ==
    ASSUME Strips = 0..7, Outgoing \subseteq Message
    PROVE  Spec => WholeMessages
<1>1. ServedInv /\ ServedInv' /\ [Next]_vars => [Fifo!Next]_<<Complete, slot>>
  BY FifoSteps
<1>2. Spec => []ServedInv
  BY ServedHolds
<1> QED
  BY <1>1, <1>2, CompleteStarts, PTL DEF Spec, WholeMessages, Fifo!Spec

-----------------------------------------------------------------------------
(* What the console makes of the words on their way to it.                  *)

\* Of n byte strings V, the first is what the console has read of a message, the others are
\* in the words that follow.  Some status bytes, St, begin the messages of interest.
Begins(V, St, i) == V[i] # <<>> /\ V[i][1] \in St
Told(V, i) == <<V[i][1], V[i][2], V[i + 1][1]>>

\* Where a message of interest begins, it is there to its end.
TwoBytes(s, St) ==
    /\ s \in Seq(Byte) /\ Len(s) \in 0..2
    /\ Len(s) = 2 => s[2] \notin St
Begun(V, n, i) ==
    /\ i < n /\ Len(V[i]) = 2 /\ V[i][2] \in 0..127
    /\ Len(V[i + 1]) = 1 /\ V[i + 1][1] \in 0..127
Framed(V, n, St) ==
    /\ \A i \in 1..n : TwoBytes(V[i], St) /\ (i > 1 => V[i] # <<>>)
    /\ \A i \in 1..n : Begins(V, St, i) => Begun(V, n, i)

\* The last message of K among them is in G; if there is none, the console is content now.
LastTold(V, n, St, K, G, now) ==
    \/ \E i \in 1..n : /\ Begins(V, St, i) /\ Told(V, i) \in K /\ Told(V, i) \in G
                       /\ \A j \in (i + 1)..n : Begins(V, St, j) => Told(V, j) \notin K
    \/ now /\ \A j \in 1..n : Begins(V, St, j) => Told(V, j) \notin K

\* W is V and k more.
Longer(W, V, n, k) == n \in Nat \ {0} /\ k \in Nat /\ \A i \in 1..n : W[i] = V[i]

\* What began in V is the same in W.
LEMMA LongerSame ==
    ASSUME NEW V, NEW W, NEW n, NEW k, NEW St, Longer(W, V, n, k), Framed(V, n, St),
           NEW i \in 1..n
    PROVE  /\ Begins(W, St, i) <=> Begins(V, St, i)
           /\ Begins(V, St, i) => Told(W, i) = Told(V, i) /\ Begun(W, n + k, i)
<1>1. n \in Nat /\ k \in Nat /\ W[i] = V[i]
  BY DEF Longer
<1>2. CASE Begins(V, St, i)
  <2>1. Begun(V, n, i)
    BY <1>2 DEF Framed
  <2>2. i + 1 \in 1..n /\ i < n + k
    BY <1>1, <2>1 DEF Begun
  <2>3. W[i + 1] = V[i + 1]
    BY <2>2 DEF Longer
  <2> QED
    BY <1>1, <1>2, <2>1, <2>2, <2>3 DEF Begins, Told, Begun
<1>3. CASE ~Begins(V, St, i)
  BY <1>1, <1>3 DEF Begins
<1> QED
  BY <1>2, <1>3

\* Bytes that begin nothing of interest leave everything as it was.
LEMMA FramedQuiet ==
    ASSUME NEW V, NEW W, NEW n, NEW k, NEW St, Longer(W, V, n, k), Framed(V, n, St),
           \A i \in (n + 1)..(n + k) : /\ TwoBytes(W[i], St) /\ W[i] # <<>>
                                       /\ ~Begins(W, St, i)
    PROVE  Framed(W, n + k, St)
<1>1. n \in Nat /\ k \in Nat
  BY DEF Longer
<1>2. ASSUME NEW i \in 1..(n + k) PROVE i \in 1..n \/ i \in (n + 1)..(n + k)
  BY <1>1
<1>3. ASSUME NEW i \in 1..(n + k) PROVE TwoBytes(W[i], St) /\ (i > 1 => W[i] # <<>>)
  <2>1. CASE i \in 1..n
    <3>1. W[i] = V[i]
      BY <2>1 DEF Longer
    <3> QED
      BY <2>1, <3>1 DEF Framed
  <2> QED
    BY <1>2, <2>1
<1>4. ASSUME NEW i \in 1..(n + k), Begins(W, St, i) PROVE Begun(W, n + k, i)
  <2>1. i \in 1..n
    BY <1>2, <1>4
  <2> QED
    BY <1>4, <2>1, LongerSame
<1> QED
  BY <1>3, <1>4 DEF Framed

\* A message of interest that is put whole is there to its end.
LEMMA FramedPut ==
    ASSUME NEW V, NEW W, NEW n, NEW St, Longer(W, V, n, 2), Framed(V, n, St),
           St \subseteq 128..255, NEW m \in MidiMessages,
           W[n + 1] = Head2(m), W[n + 2] = <<m[3]>>
    PROVE  /\ Framed(W, n + 2, St)
           /\ Begins(W, St, n + 1) <=> m[1] \in St
           /\ Told(W, n + 1) = m /\ ~Begins(W, St, n + 2)
<1>1. n \in Nat /\ 2 \in Nat
  BY DEF Longer
<1>2. m = <<m[1], m[2], m[3]>> /\ m[1] \in 128..255 /\ m[2] \in 0..127 /\ m[3] \in 0..127
  BY MessageBytes
<1>3. /\ Head2(m) \in Seq(Byte) /\ Len(Head2(m)) = 2 /\ Head2(m)[1] = m[1]
      /\ Head2(m)[2] = m[2] /\ Head2(m) # <<>>
      /\ <<m[3]>> \in Seq(Byte) /\ Len(<<m[3]>>) = 1 /\ <<m[3]>>[1] = m[3] /\ <<m[3]>> # <<>>
  BY <1>2 DEF Head2, Byte
<1>4. (n + 1) + 1 = n + 2
  BY <1>1
<1>5. /\ Begins(W, St, n + 1) <=> m[1] \in St
      /\ Told(W, n + 1) = m /\ ~Begins(W, St, n + 2)
  <2>1. m[3] \notin St
    BY <1>2
  <2> QED
    BY <1>2, <1>3, <1>4, <2>1 DEF Begins, Told
<1>6. TwoBytes(W[n + 1], St) /\ TwoBytes(W[n + 2], St)
  <2>1. m[2] \notin St
    BY <1>2
  <2> QED
    BY <1>3, <2>1 DEF TwoBytes
<1>7. Begun(W, n + 2, n + 1)
  <2>1. n + 1 < n + 2
    BY <1>1
  <2> QED
    <3>1. W[(n + 1) + 1] = <<m[3]>>
      BY <1>4
    <3> QED
      BY <1>2, <1>3, <2>1, <3>1 DEF Begun
<1>8. ASSUME NEW i \in 1..(n + 2) PROVE i \in 1..n \/ i = n + 1 \/ i = n + 2
  BY <1>1
<1>9. ASSUME NEW i \in 1..(n + 2) PROVE TwoBytes(W[i], St) /\ (i > 1 => W[i] # <<>>)
  <2>1. CASE i \in 1..n
    <3>1. W[i] = V[i]
      BY <2>1 DEF Longer
    <3> QED
      BY <2>1, <3>1 DEF Framed
  <2>2. CASE i = n + 1
    BY <1>3, <1>6, <2>2
  <2>3. CASE i = n + 2
    BY <1>3, <1>6, <2>3
  <2> QED
    BY <1>8, <2>1, <2>2, <2>3
<1>10. ASSUME NEW i \in 1..(n + 2), Begins(W, St, i) PROVE Begun(W, n + 2, i)
  <2>1. CASE i \in 1..n
    BY <1>10, <2>1, LongerSame
  <2> QED
    BY <1>5, <1>7, <1>8, <1>10, <2>1
<1> QED
  BY <1>5, <1>9, <1>10 DEF Framed

\* If no message of K is added, the last one stays what it was ...
LEMMA LastKept ==
    ASSUME NEW V, NEW W, NEW n, NEW k, NEW St, Longer(W, V, n, k), Framed(V, n, St),
           NEW K, NEW G, NEW now \in BOOLEAN, LastTold(V, n, St, K, G, now),
           \A i \in (n + 1)..(n + k) : Begins(W, St, i) => Told(W, i) \notin K
    PROVE  LastTold(W, n + k, St, K, G, now)
<1>1. n \in Nat /\ k \in Nat
  BY DEF Longer
<1>2. ASSUME NEW i \in 1..(n + k) PROVE i \in 1..n \/ i \in (n + 1)..(n + k)
  BY <1>1
<1>3. ASSUME NEW i \in 1..n, Begins(V, St, i), Told(V, i) \in K, Told(V, i) \in G,
             \A j \in (i + 1)..n : Begins(V, St, j) => Told(V, j) \notin K
      PROVE  LastTold(W, n + k, St, K, G, now)
  <2>1. /\ i \in 1..(n + k) /\ Begins(W, St, i) /\ Told(W, i) = Told(V, i)
    BY <1>1, <1>3, LongerSame
  <2>2. ASSUME NEW j \in (i + 1)..(n + k), Begins(W, St, j) PROVE Told(W, j) \notin K
    <3>1. CASE j \in 1..n
      <4>1. j \in (i + 1)..n
        BY <3>1
      <4>2. Begins(V, St, j) /\ Told(W, j) = Told(V, j)
        BY <2>2, <3>1, LongerSame
      <4> QED
        BY <1>3, <4>1, <4>2
    <3>2. CASE j \notin 1..n
      <4>1. j \in 1..(n + k)
        BY <1>1
      <4> QED
        BY <1>2, <2>2, <3>2, <4>1
    <3> QED
      BY <3>1, <3>2
  <2> QED
    BY <1>3, <2>1, <2>2 DEF LastTold
<1>4. ASSUME now, \A j \in 1..n : Begins(V, St, j) => Told(V, j) \notin K
      PROVE  LastTold(W, n + k, St, K, G, now)
  <2>1. ASSUME NEW j \in 1..(n + k), Begins(W, St, j) PROVE Told(W, j) \notin K
    <3>1. CASE j \in 1..n
      BY <1>4, <2>1, <3>1, LongerSame
    <3> QED
      BY <1>2, <2>1, <3>1
  <2> QED
    BY <1>4, <2>1 DEF LastTold
<1> QED
  BY <1>3, <1>4 DEF LastTold

\* ... and one of K and G that is put is the last.
LEMMA LastPut ==
    ASSUME NEW W, NEW n \in Nat, NEW St, NEW K, NEW G, NEW now \in BOOLEAN,
           Begins(W, St, n + 1), Told(W, n + 1) \in K, Told(W, n + 1) \in G,
           ~Begins(W, St, n + 2)
    PROVE  LastTold(W, n + 2, St, K, G, now)
<1>1. n + 1 \in 1..(n + 2)
  OBVIOUS
<1>2. ASSUME NEW j \in ((n + 1) + 1)..(n + 2) PROVE j = n + 2
  OBVIOUS
<1> QED
  BY <1>1, <1>2 DEF LastTold

\* What a byte does to what has been read: it begins a message ...
LEMMA ByteBegins ==
    ASSUME NEW s \in Seq(Byte), NEW x \in Byte, x >= 128, NEW old
    PROVE  AddByte([bytes |-> s, message |-> old], x) = [bytes |-> <<x>>, message |-> old]
<1>1. Len(<<x>>) = 1
  OBVIOUS
<1> QED
  BY <1>1 DEF AddByte

\* ... is dropped where none was begun ...
LEMMA ByteDropped ==
    ASSUME NEW x \in 0..127, NEW old
    PROVE  AddByte([bytes |-> <<>>, message |-> old], x) = [bytes |-> <<>>, message |-> old]
<1>1. ~(x >= 128) /\ Len(<<>>) = 0
  OBVIOUS
<1> QED
  BY <1>1 DEF AddByte

\* ... is the second byte of a message ...
LEMMA ByteSecond ==
    ASSUME NEW a \in Byte, NEW x \in 0..127, NEW old
    PROVE  AddByte([bytes |-> <<a>>, message |-> old], x) = [bytes |-> <<a, x>>, message |-> old]
<1>1. ~(x >= 128) /\ Len(<<a, x>>) = 2 /\ <<a>> # <<>> /\ x \in Byte
  BY DEF Byte
<1>2. /\ Append(<<a>>, x) \in Seq(Byte) /\ Len(Append(<<a>>, x)) = 2
      /\ Append(<<a>>, x)[1] = a /\ Append(<<a>>, x)[2] = x
  BY <1>1
<1>3. Append(<<a>>, x) = <<a, x>>
  BY <1>2, ShortSequences, Zenon
<1> QED
  BY <1>1, <1>3 DEF AddByte

\* ... or its third.
LEMMA ByteThird ==
    ASSUME NEW a \in Byte, NEW b \in Byte, NEW x \in 0..127, NEW old
    PROVE  AddByte([bytes |-> <<a, b>>, message |-> old], x) =
               [bytes |-> <<>>, message |-> <<a, b, x>>]
<1>1. ~(x >= 128) /\ Len(<<a, b, x>>) = 3 /\ <<a, b>> # <<>> /\ x \in Byte
  BY DEF Byte
<1>2. /\ Append(<<a, b>>, x) \in Seq(Byte) /\ Len(Append(<<a, b>>, x)) = 3
      /\ Append(<<a, b>>, x)[1] = a /\ Append(<<a, b>>, x)[2] = b
      /\ Append(<<a, b>>, x)[3] = x
  BY <1>1
<1>3. Append(<<a, b>>, x) = <<a, b, x>>
  BY <1>2, ShortSequences, Zenon
<1> QED
  BY <1>1, <1>3 DEF AddByte

\* Whatever has been read, one byte more leaves at most two, and the first stays the first.
Leaves(s, x, old, b, m) ==
    /\ AddByte([bytes |-> s, message |-> old], x) = [bytes |-> b, message |-> m]
    /\ b \in Seq(Byte) /\ Len(b) \in 0..2
    /\ b # <<>> => b[1] = x \/ (s # <<>> /\ b[1] = s[1])
    /\ Len(b) = 2 => s # <<>> /\ b[1] = s[1] /\ b[2] \in 0..127
    /\ m = old \/ (Len(s) = 2 /\ b = <<>> /\ m = <<s[1], s[2], x>> /\ s[1] \in Byte)

\* That is so.
LEMMA ByteKeeps ==
    ASSUME NEW s \in Seq(Byte), Len(s) \in 0..2, NEW x \in Byte, NEW old
    PROVE  \E b, m : Leaves(s, x, old, b, m)
<1> DEFINE q == AddByte([bytes |-> s, message |-> old], x)
<1> USE DEF Leaves
<1>0. q = AddByte([bytes |-> s, message |-> old], x)
  OBVIOUS
<1>1. CASE x >= 128
  <2> DEFINE b == <<x>>
  <2>1. q = [bytes |-> b, message |-> old]
    BY <1>1, ByteBegins
  <2>2. b \in Seq(Byte) /\ Len(b) = 1 /\ b[1] = x
    OBVIOUS
  <2>3. b # <<>> => b[1] = x
    BY <2>2
  <2>4. Len(b) \in 0..2 /\ Len(b) # 2
    BY <2>2
  <2> HIDE DEF b
  <2> QED
    BY <2>1, <2>2, <2>3, <2>4, Zenon
<1>2. CASE x < 128
  <2>0. x \in 0..127
    BY <1>2 DEF Byte
  <2>1. CASE Len(s) = 0
    <3>1. s = <<>>
      BY <2>1
    <3> DEFINE e == <<>>
    <3>2. q = [bytes |-> e, message |-> old]
      BY <2>0, <3>1, ByteDropped
    <3>3. e \in Seq(Byte) /\ Len(e) = 0 /\ e = <<>>
      OBVIOUS
    <3>4. Len(e) \in 0..2 /\ Len(e) # 2
      OBVIOUS
    <3> HIDE DEF e
    <3> QED
      BY <3>2, <3>3, <3>4, Zenon
  <2>2. CASE Len(s) = 1
    <3>1. s = <<s[1]>> /\ s[1] \in Byte
      <4>1. s = <<s[1]>>
        BY <2>2, ShortSequences
      <4>2. 1 \in 1..Len(s)
        BY <2>2
      <4> QED
        BY <4>1, <4>2, ElementOfSeq, Zenon
    <3> DEFINE a == s[1]
    <3>2. AddByte([bytes |-> <<a>>, message |-> old], x) = [bytes |-> <<a, x>>, message |-> old]
      BY <2>0, <3>1, ByteSecond
    <3>3. q = [bytes |-> <<a, x>>, message |-> old]
      BY <3>1, <3>2, Zenon
    <3>4. a \in Byte /\ s # <<>> /\ s[1] = a
      BY <2>2, <3>1
    <3> HIDE DEF a
    <3> DEFINE b == <<a, x>>
    <3>5. q = [bytes |-> b, message |-> old]
      BY <3>3
    <3>6. b \in Seq(Byte) /\ Len(b) = 2 /\ b[1] = a /\ b[2] = x
      BY <3>4
    <3>7. Len(b) \in 0..2 /\ b[1] = s[1] /\ b[2] \in 0..127
      BY <2>0, <3>4, <3>6
    <3> HIDE DEF b
    <3> QED
      BY <3>4, <3>5, <3>6, <3>7, Zenon
  <2>3. CASE Len(s) = 2
    <3>1. s = <<s[1], s[2]>> /\ s[1] \in Byte /\ s[2] \in Byte
      BY <2>3, ShortSequences, ElementOfSeq
    <3> DEFINE a == s[1]
               b == s[2]
    <3>2. AddByte([bytes |-> <<a, b>>, message |-> old], x) =
              [bytes |-> <<>>, message |-> <<a, b, x>>]
      BY <2>0, <3>1, ByteThird
    <3> DEFINE e == <<>>
               m == <<a, b, x>>
    <3>3. q = [bytes |-> e, message |-> m]
      BY <3>1, <3>2, Zenon
    <3>4. e \in Seq(Byte) /\ Len(e) = 0 /\ e = <<>>
      OBVIOUS
    <3>5. m = <<s[1], s[2], x>>
      OBVIOUS
    <3>6. Len(e) \in 0..2 /\ Len(e) # 2
      OBVIOUS
    <3> HIDE DEF e, m, a, b
    <3> QED
      BY <2>3, <3>1, <3>3, <3>4, <3>5, <3>6, Zenon
  <2>4. Len(s) = 0 \/ Len(s) = 1 \/ Len(s) = 2
    OBVIOUS
  <2> QED
    BY <2>1, <2>2, <2>3, <2>4, Zenon
<1>3. x >= 128 \/ x < 128
  BY DEF Byte
<1> QED
  BY <1>1, <1>2, <1>3, Zenon

\* What a word does to what has been read, if neither begins a message of interest.
LEMMA WordKeeps ==
    ASSUME NEW s \in Seq(Byte), Len(s) \in 0..2, NEW f \in Seq(Byte), Len(f) \in 1..2
    PROVE  \E b, m :
           /\ Assemble(s, f) = [bytes |-> b, message |-> m]
           /\ b \in Seq(Byte) /\ Len(b) \in 0..2
           /\ b # <<>> => \/ s # <<>> /\ b[1] = s[1]
                          \/ b[1] = f[1]
                          \/ Len(f) = 2 /\ b[1] = f[2]
           /\ Len(b) = 2 => b[2] \in 0..127
           /\ m = <<>> \/ (s # <<>> /\ m[1] = s[1] /\ s[1] \in Byte)
<1>1. f[1] \in Byte /\ (Len(f) = 2 => f[2] \in Byte)
  BY ElementOfSeq
<1> DEFINE p == AddByte([bytes |-> s, message |-> <<>>], f[1])
<1>2. PICK b, m : Leaves(s, f[1], <<>>, b, m)
  BY <1>1, ByteKeeps, Zenon
<1>3. /\ p = [bytes |-> b, message |-> m]
      /\ b \in Seq(Byte) /\ Len(b) \in 0..2
      /\ b # <<>> => b[1] = f[1] \/ (s # <<>> /\ b[1] = s[1])
      /\ Len(b) = 2 => s # <<>> /\ b[1] = s[1] /\ b[2] \in 0..127
      /\ m = <<>> \/ (Len(s) = 2 /\ b = <<>> /\ m = <<s[1], s[2], f[1]>> /\ s[1] \in Byte)
  BY <1>2, Zenon DEF Leaves
<1>4. \A x, y, z : <<x, y, z>>[1] = x
  OBVIOUS
<1>5. Len(s) = 2 => s # <<>>
  OBVIOUS
<1>6. CASE Len(f) = 1
  <2>1. Assemble(s, f) = p
    BY <1>6 DEF Assemble
  <2>2. m = <<>> \/ (s # <<>> /\ m[1] = s[1] /\ s[1] \in Byte)
    <3> HIDE DEF p
    <3>1. CASE m = <<s[1], s[2], f[1]>>
      BY <1>3, <1>4, <1>5, <3>1
    <3> QED
      BY <1>3, <3>1, Zenon
  <2> QED
    BY <1>3, <2>1, <2>2, Zenon
<1>7. CASE Len(f) = 2
  <2>1. f[2] \in Byte /\ Assemble(s, f) = AddByte([bytes |-> b, message |-> m], f[2])
    BY <1>1, <1>3, <1>7 DEF Assemble
  <2>2. PICK d, o : Leaves(b, f[2], m, d, o)
    BY <1>3, <2>1, ByteKeeps, Zenon
  <2>3. /\ Assemble(s, f) = [bytes |-> d, message |-> o]
        /\ d \in Seq(Byte) /\ Len(d) \in 0..2
        /\ d # <<>> => d[1] = f[2] \/ (b # <<>> /\ d[1] = b[1])
        /\ Len(d) = 2 => b # <<>> /\ d[1] = b[1] /\ d[2] \in 0..127
        /\ o = m \/ (Len(b) = 2 /\ d = <<>> /\ o = <<b[1], b[2], f[2]>> /\ b[1] \in Byte)
    BY <2>1, <2>2, Zenon DEF Leaves
  <2>4. d # <<>> => \/ s # <<>> /\ d[1] = s[1]
                    \/ d[1] = f[1] \/ d[1] = f[2]
    BY <1>3, <2>3, Zenon
  <2>5. o = <<>> \/ (s # <<>> /\ o[1] = s[1] /\ s[1] \in Byte)
    <3> HIDE DEF p
    <3>1. CASE o = <<b[1], b[2], f[2]>> /\ Len(b) = 2
      BY <1>3, <1>4, <3>1
    <3>2. CASE o = m /\ m = <<s[1], s[2], f[1]>> /\ Len(s) = 2
      BY <1>3, <1>4, <1>5, <3>2
    <3> QED
      BY <1>3, <2>3, <3>1, <3>2, Zenon
  <2> QED
    BY <1>7, <2>3, <2>4, <2>5, Zenon
<1>8. Len(f) = 1 \/ Len(f) = 2
  OBVIOUS
<1> QED
  BY <1>6, <1>7, <1>8, Zenon

\* V without its first string, which its second has been added to
Shorter(W, V, n, r) ==
    /\ n \in Nat /\ n >= 2 /\ r = Assemble(V[1], V[2])
    /\ W[1] = r.bytes /\ \A i \in 2..(n - 1) : W[i] = V[i + 1]

\* The message at the head of V is told, whatever begins after it still does in W.
AtHead(V, W, r, St) ==
    /\ TwoBytes(W[1], St)
    /\ Begins(V, St, 1) => r.message = Told(V, 1)
    /\ ~Begins(V, St, 1) => r.message = <<>> \/ r.message[1] \in Byte \ St
    /\ Begins(W, St, 1) <=> Begins(V, St, 2)
    /\ Begins(V, St, 2) => W[1] = V[2]

\* So it is when a word is read.
LEMMA HeadRead ==
    ASSUME NEW V, NEW W, NEW n, NEW r, NEW St, St \subseteq 128..255,
           Shorter(W, V, n, r), Framed(V, n, St)
    PROVE  AtHead(V, W, r, St)
<1> USE DEF AtHead
<1> DEFINE s == V[1]
           f == V[2]
<1>1. 1 \in 1..n /\ 2 \in 1..n
  BY DEF Shorter
<1>2. TwoBytes(s, St) /\ TwoBytes(f, St) /\ f # <<>> /\ W[1] = r.bytes /\ r = Assemble(s, f)
  BY <1>1 DEF Framed, Shorter
<1>3. /\ s \in Seq(Byte) /\ Len(s) \in 0..2 /\ f \in Seq(Byte) /\ Len(f) \in 1..2
  <2>1. f \in Seq(Byte) /\ Len(f) \in 0..2 /\ f # <<>>
    BY <1>2 DEF TwoBytes
  <2> HIDE DEF f
  <2>2. Len(f) # 0
    BY <2>1
  <2> QED
    BY <1>2, <2>1, <2>2 DEF TwoBytes
<1>4. CASE Begins(V, St, 1)
  <2>1. Len(s) = 2 /\ s[2] \in 0..127 /\ Len(f) = 1 /\ f[1] \in 0..127 /\ s[1] \in St
    BY <1>1, <1>4 DEF Framed, Begun, Begins
  <2>2. s = <<s[1], s[2]>> /\ s[1] \in Byte /\ s[2] \in Byte
    BY <1>3, <2>1, ShortSequences
  <2> DEFINE a == s[1]
             b == s[2]
             x == f[1]
  <2>3. a \in Byte /\ b \in Byte /\ x \in 0..127 /\ s = <<a, b>>
    BY <2>1, <2>2
  <2>4. r = AddByte([bytes |-> s, message |-> <<>>], x)
    BY <1>2, <2>1 DEF Assemble
  <2> HIDE DEF a, b, x
  <2>5. AddByte([bytes |-> <<a, b>>, message |-> <<>>], x) =
            [bytes |-> <<>>, message |-> <<a, b, x>>]
    BY <2>3, ByteThird
  <2>6. r = [bytes |-> <<>>, message |-> <<a, b, x>>]
    BY <2>3, <2>4, <2>5, Zenon
  <2>7. r.message = Told(V, 1) /\ W[1] = <<>>
    BY <1>2, <2>6 DEF Told, a, b, x
  <2>8. ~Begins(V, St, 2)
    <3>1. \A y \in 0..127 : y \notin St
      OBVIOUS
    <3> QED
      BY <2>1, <3>1, Zenon DEF Begins
  <2> QED
    BY <1>4, <2>7, <2>8 DEF Begins, TwoBytes
<1>5. CASE ~Begins(V, St, 1) /\ Begins(V, St, 2)
  <2>1. Len(f) = 2 /\ f[2] \in 0..127 /\ f[1] \in St
    <3>1. f[1] \in St
      BY <1>5 DEF Begins
    <3>2. Begun(V, n, 2)
      BY <1>1, <1>5, Zenon DEF Framed
    <3> QED
      BY <3>1, <3>2, Zenon DEF Begun
  <2>2. f = <<f[1], f[2]>> /\ f[1] \in Byte /\ f[2] \in Byte
    BY <1>3, <2>1, ShortSequences
  <2> DEFINE a == f[1]
             b == f[2]
  <2>3. a \in Byte /\ b \in Byte /\ a >= 128 /\ b \in 0..127 /\ f = <<a, b>>
    <3>1. \A y \in St : y >= 128
      OBVIOUS
    <3> QED
      BY <2>1, <2>2, <3>1, Zenon
  <2>4. r = AddByte(AddByte([bytes |-> s, message |-> <<>>], a), b)
    BY <1>2, <2>1 DEF Assemble
  <2> HIDE DEF a, b
  <2>5. AddByte([bytes |-> s, message |-> <<>>], a) = [bytes |-> <<a>>, message |-> <<>>]
    BY <1>3, <2>3, ByteBegins
  <2>6. AddByte([bytes |-> <<a>>, message |-> <<>>], b) = [bytes |-> <<a, b>>, message |-> <<>>]
    BY <2>3, ByteSecond
  <2>7. r = [bytes |-> f, message |-> <<>>]
    BY <2>3, <2>4, <2>5, <2>6, Zenon
  <2>8. W[1] = V[2] /\ r.message = <<>>
    BY <1>2, <2>7
  <2> QED
    BY <1>2, <1>5, <2>8 DEF Begins
<1>6. CASE ~Begins(V, St, 1) /\ ~Begins(V, St, 2)
  <2>1. PICK b, m :
        /\ Assemble(s, f) = [bytes |-> b, message |-> m]
        /\ b \in Seq(Byte) /\ Len(b) \in 0..2
        /\ b # <<>> => \/ s # <<>> /\ b[1] = s[1]
                       \/ b[1] = f[1]
                       \/ Len(f) = 2 /\ b[1] = f[2]
        /\ Len(b) = 2 => b[2] \in 0..127
        /\ m = <<>> \/ (s # <<>> /\ m[1] = s[1] /\ s[1] \in Byte)
    <3> HIDE DEF s, f
    <3> QED
      BY <1>3, WordKeeps, Zenon
  <2>2. /\ s # <<>> => s[1] \notin St
        /\ f[1] \notin St
        /\ Len(f) = 2 => f[2] \notin St
    BY <1>2, <1>6 DEF Begins, TwoBytes
  <2>3. \A x \in 0..127 : x \notin St
    OBVIOUS
  <2>4. W[1] = b /\ r.message = m
    BY <1>2, <2>1
  <2> HIDE DEF s, f
  <2>5. TwoBytes(W[1], St)
    BY <2>1, <2>3, <2>4 DEF TwoBytes
  <2>6. ~Begins(W, St, 1)
    BY <2>1, <2>2, <2>4, Zenon DEF Begins
  <2>7. r.message = <<>> \/ r.message[1] \in Byte \ St
    BY <2>1, <2>2, <2>4
  <2> QED
    BY <1>6, <2>5, <2>6, <2>7
<1> QED
  BY <1>4, <1>5, <1>6

\* What begins after the head is the same.
LEMMA ShorterSame ==
    ASSUME NEW V, NEW W, NEW n, NEW r, NEW St, St \subseteq 128..255,
           Shorter(W, V, n, r), Framed(V, n, St), NEW i \in 1..(n - 1)
    PROVE  /\ i + 1 \in 1..n
           /\ Begins(W, St, i) <=> Begins(V, St, i + 1)
           /\ Begins(W, St, i) => Told(W, i) = Told(V, i + 1) /\ Begun(W, n - 1, i)
<1>1. n \in Nat /\ n >= 2 /\ i \in Nat /\ i + 1 \in 1..n
  BY DEF Shorter
<1>2. /\ Begins(W, St, i) <=> Begins(V, St, i + 1)
      /\ Begins(W, St, i) => W[i] = V[i + 1]
  <2>1. CASE i = 1
    <3>1. 1 + 1 = 2
      OBVIOUS
    <3>2. (Begins(W, St, 1) <=> Begins(V, St, 2)) /\ (Begins(V, St, 2) => W[1] = V[2])
      <4>1. AtHead(V, W, r, St)
        BY HeadRead
      <4> QED
        BY <4>1, Zenon DEF AtHead
    <3> QED
      BY <2>1, <3>1, <3>2
  <2>2. CASE i # 1
    <3>1. i \in 2..(n - 1)
      BY <1>1, <2>2
    <3>2. W[i] = V[i + 1]
      BY <3>1 DEF Shorter
    <3> QED
      BY <3>2 DEF Begins
  <2> QED
    BY <2>1, <2>2
<1>3. ASSUME Begins(W, St, i)
      PROVE  Told(W, i) = Told(V, i + 1) /\ Begun(W, n - 1, i)
  <2>1. Begun(V, n, i + 1) /\ W[i] = V[i + 1]
    BY <1>1, <1>2, <1>3 DEF Framed
  <2>2. i + 1 < n /\ i + 1 \in 2..(n - 1)
    BY <1>1, <2>1 DEF Begun
  <2>3. W[i + 1] = V[(i + 1) + 1]
    BY <2>2 DEF Shorter
  <2>4. i < n - 1
    BY <1>1, <2>2
  <2> QED
    BY <2>1, <2>3, <2>4 DEF Told, Begun
<1> QED
  BY <1>1, <1>2, <1>3

\* Reading a word leaves what follows as it was ...
LEMMA FramedRead ==
    ASSUME NEW V, NEW W, NEW n, NEW r, NEW St, St \subseteq 128..255,
           Shorter(W, V, n, r), Framed(V, n, St)
    PROVE  Framed(W, n - 1, St)
<1>1. n \in Nat /\ n >= 2
  BY DEF Shorter
<1>2. ASSUME NEW i \in 1..(n - 1) PROVE TwoBytes(W[i], St) /\ (i > 1 => W[i] # <<>>)
  <2>1. CASE i = 1
    <3>1. TwoBytes(W[1], St)
      BY HeadRead, Zenon DEF AtHead
    <3> QED
      BY <2>1, <3>1
  <2>2. CASE i # 1
    <3>1. i \in 2..(n - 1) /\ i + 1 \in 1..n /\ i + 1 > 1
      BY <1>1, <2>2
    <3>2. W[i] = V[i + 1]
      BY <3>1 DEF Shorter
    <3> QED
      BY <3>1, <3>2 DEF Framed
  <2> QED
    BY <2>1, <2>2
<1> QED
  BY <1>2, ShorterSame DEF Framed

Hears(r, St, K, G, now, after) ==
    /\ r.message = <<>> \/ r.message[1] \notin St => (after <=> now)
    /\ r.message[1] \in St => IF r.message \in K THEN after <=> r.message \in G
                                                ELSE after <=> now

\* ... and if the message it completes is of K, the console is content if it is of G.
LEMMA LastRead ==
    ASSUME NEW V, NEW W, NEW n, NEW r, NEW St, St \subseteq 128..255,
           Shorter(W, V, n, r), Framed(V, n, St),
           NEW K, NEW G, NEW now \in BOOLEAN, NEW after \in BOOLEAN,
           LastTold(V, n, St, K, G, now), Hears(r, St, K, G, now, after)
    PROVE  LastTold(W, n - 1, St, K, G, after)
<1> USE DEF Hears
<1>1. n \in Nat /\ n >= 2 /\ 1 \in 1..n
  BY DEF Shorter
<1>2. /\ Begins(V, St, 1) => r.message = Told(V, 1) /\ r.message[1] \in St
      /\ ~Begins(V, St, 1) => r.message = <<>> \/ r.message[1] \notin St
  <2>1. Told(V, 1)[1] = V[1][1]
    BY DEF Told
  <2>2. AtHead(V, W, r, St)
    BY HeadRead, Zenon
  <2> QED
    BY <2>1, <2>2 DEF Begins, AtHead
<1>3. ASSUME NEW i \in 1..n, Begins(V, St, i), Told(V, i) \in K, Told(V, i) \in G,
             \A j \in (i + 1)..n : Begins(V, St, j) => Told(V, j) \notin K
      PROVE  LastTold(W, n - 1, St, K, G, after)
  <2>1. CASE i = 1
    <3>1. after
      BY <1>2, <1>3, <2>1
    <3>2. ASSUME NEW j \in 1..(n - 1), Begins(W, St, j) PROVE Told(W, j) \notin K
      <4>1. j + 1 \in (i + 1)..n
        BY <1>1, <2>1
      <4>2. Begins(V, St, j + 1) /\ Told(W, j) = Told(V, j + 1)
        BY <3>2, ShorterSame
      <4> QED
        BY <1>3, <4>1, <4>2, Zenon
    <3> QED
      BY <3>1, <3>2 DEF LastTold
  <2>2. CASE i # 1
    <3>1. i - 1 \in 1..(n - 1) /\ (i - 1) + 1 = i
      BY <1>1, <2>2
    <3> DEFINE k == i - 1
    <3>2. k \in 1..(n - 1) /\ k + 1 = i
      BY <3>1
    <3> HIDE DEF k
    <3>3. Begins(W, St, k) /\ Told(W, k) \in K /\ Told(W, k) \in G
      BY <1>3, <3>2, ShorterSame
    <3>4. ASSUME NEW j \in (k + 1)..(n - 1), Begins(W, St, j) PROVE Told(W, j) \notin K
      <4>1. j \in 1..(n - 1) /\ j + 1 \in (i + 1)..n
        BY <1>1, <3>2
      <4>2. Begins(V, St, j + 1) /\ Told(W, j) = Told(V, j + 1)
        BY <3>4, <4>1, ShorterSame
      <4> QED
        BY <1>3, <4>1, <4>2, Zenon
    <3> QED
      BY <3>2, <3>3, <3>4 DEF LastTold
  <2> QED
    BY <2>1, <2>2
<1>4. ASSUME now, \A j \in 1..n : Begins(V, St, j) => Told(V, j) \notin K
      PROVE  LastTold(W, n - 1, St, K, G, after)
  <2>1. after
    BY <1>1, <1>2, <1>4
  <2>2. ASSUME NEW j \in 1..(n - 1), Begins(W, St, j) PROVE Told(W, j) \notin K
    <3>1. j + 1 \in 1..n
      BY <1>1
    <3> QED
      BY <1>4, <2>2, <3>1, ShorterSame
  <2> QED
    BY <2>1, <2>2 DEF LastTold
<1> QED
  BY <1>3, <1>4 DEF LastTold

\* If nothing waits, the console is content.
LEMMA NothingWaits ==
    ASSUME NEW V, NEW St, NEW K, NEW G, NEW now \in BOOLEAN,
           Framed(V, 1, St), LastTold(V, 1, St, K, G, now)
    PROVE  now
<1>1. ASSUME NEW i \in 1..1 PROVE ~Begins(V, St, i)
  <2>1. ~(i < 1)
    OBVIOUS
  <2> QED
    BY <2>1 DEF Framed, Begun
<1> QED
  BY <1>1 DEF LastTold

-----------------------------------------------------------------------------
(* What is on its way to the console.                                       *)

\* What the console has read of a message, and the bytes of the words that count
Line == [i \in 1..(Len(Complete) + 1) |-> IF i = 1 THEN heard ELSE Complete[i - 1].bytes]
LineLen == Len(Complete) + 1

\* The end of an append adds the message to the line.
LEMMA EndedLonger ==
    ASSUME NEW t, Ended(t)
    PROVE  LET m == Appended(t)
               k == Len(m)
           IN  /\ Longer(Line', Line, LineLen, k) /\ LineLen' = LineLen + k
               /\ \A i \in 1..k : Line'[LineLen + i] = m[i].bytes
<1> DEFINE m == Appended(t)
           k == Len(m)
           n == queueCount
           w(i) == WordAt(queue, readIndex, i)
<1>1. /\ n \in Nat /\ k \in 1..n
      /\ Complete = Contents(queue, readIndex, n - k)
      /\ Complete' = Contents(queue, readIndex, n)
      /\ \A i \in 1..k : w((n - k) + i) = m[i]
  BY DEF Ended, DoneWords
<1>2. heard' = heard
  BY DEF Ended, Elsewhere, console
<1> HIDE DEF m, k
<1>3. n - k \in Nat /\ n \in Nat /\ k \in Nat
  BY <1>1
<1>4. Len(Complete) = n - k /\ \A i \in 1..(n - k) : Complete[i] = w(i)
  BY <1>1, <1>3, ContentsAre, Zenon
<1>5. Len(Complete') = n /\ \A i \in 1..n : Complete'[i] = w(i)
  BY <1>1, <1>3, ContentsAre, Zenon
<1> HIDE DEF n, w
<1>6. LineLen = (n - k) + 1 /\ LineLen' = n + 1 /\ LineLen' = LineLen + k
  BY <1>3, <1>4, <1>5 DEF LineLen
<1>7. Longer(Line', Line, LineLen, k)
  <2>1. LineLen \in Nat \ {0}
    BY <1>3, <1>6
  <2>2. ASSUME NEW i \in 1..LineLen PROVE Line'[i] = Line[i]
    <3>1. CASE i = 1
      BY <1>2, <1>3, <1>4, <1>5, <3>1 DEF Line
    <3>2. CASE i # 1
      <4>1. i - 1 \in 1..(n - k) /\ i - 1 \in 1..n
        BY <1>3, <1>6, <3>2
      <4>2. Complete'[i - 1] = Complete[i - 1]
        BY <1>4, <1>5, <4>1
      <4>3. Line[i] = Complete[i - 1].bytes
        BY <1>3, <1>4, <1>6, <3>2 DEF Line
      <4>4. Line'[i] = Complete'[i - 1].bytes
        BY <1>3, <1>5, <1>6, <3>2 DEF Line
      <4> QED
        BY <4>2, <4>3, <4>4
    <3> QED
      BY <3>1, <3>2
  <2> QED
    BY <1>3, <2>1, <2>2 DEF Longer
<1>8. ASSUME NEW i \in 1..k PROVE Line'[LineLen + i] = m[i].bytes
  <2>1. (n - k) + i \in 1..n /\ LineLen + i \in 2..(n + 1) /\ (LineLen + i) - 1 = (n - k) + i
    BY <1>3, <1>6
  <2>2. Complete'[(n - k) + i] = m[i]
    BY <1>1, <1>5, <2>1
  <2>3. Line'[LineLen + i] = Complete'[(LineLen + i) - 1].bytes
    BY <1>3, <1>5, <2>1 DEF Line
  <2> QED
    BY <2>1, <2>2, <2>3
<1> QED
  BY <1>6, <1>7, <1>8 DEF m, k

\* A word that is popped leaves it, and is read.
LEMMA PoppedShorter ==
    ASSUME Popped
    PROVE  /\ Shorter(Line', Line, LineLen, Assemble(heard, queue[readIndex].bytes))
           /\ LineLen' = LineLen - 1
<1> DEFINE n == queueCount
           w(i) == WordAt(queue, readIndex, i)
           v(i) == WordAt(queue', readIndex', i)
           f == queue[readIndex]
           r == Assemble(heard, f.bytes)
<1>1. /\ n \in Nat /\ n > 0
      /\ Complete = Contents(queue, readIndex, n)
      /\ Complete' = Contents(queue', readIndex', n - 1)
      /\ w(1) = f /\ \A i \in 1..(n - 1) : v(i) = w(i + 1)
  BY DEF Popped, PoppedWords
<1>2. heard' = r.bytes
  BY DEF Popped, HearWord
<1>3. n - 1 \in Nat /\ n \in Nat
  BY <1>1
<1>4. Len(Complete) = n /\ \A i \in 1..n : Complete[i] = w(i)
  BY <1>1, <1>3, ContentsAre, Zenon
<1>5. Len(Complete') = n - 1 /\ \A i \in 1..(n - 1) : Complete'[i] = v(i)
  BY <1>1, <1>3, ContentsAre, Zenon
<1> HIDE DEF n, w, v, r
<1>6. LineLen = n + 1 /\ LineLen' = n /\ LineLen' = LineLen - 1
  BY <1>3, <1>4, <1>5 DEF LineLen
<1>7. LineLen \in Nat /\ LineLen >= 2
  BY <1>1, <1>6
<1>8. Line[1] = heard /\ Line[2] = f.bytes
  <2>1. 1 \in 1..n /\ 2 \in 1..(n + 1) /\ 1 \in 1..(n + 1)
    BY <1>1
  <2>2. Line[1] = heard /\ Line[2] = Complete[2 - 1].bytes
    BY <1>4, <2>1 DEF Line
  <2> QED
    BY <1>1, <1>4, <2>1, <2>2
<1>9. Line'[1] = r.bytes
  <2>1. 1 \in 1..((n - 1) + 1)
    BY <1>1
  <2> QED
    BY <1>2, <1>5, <2>1 DEF Line
<1>10. ASSUME NEW i \in 2..(LineLen - 1) PROVE Line'[i] = Line[i + 1]
  <2>1. /\ i - 1 \in 1..(n - 1) /\ (i - 1) + 1 = i /\ i \in 1..n /\ i # 1
        /\ i \in 1..((n - 1) + 1) /\ i + 1 \in 1..(n + 1) /\ i + 1 # 1 /\ (i + 1) - 1 = i
    BY <1>3, <1>6
  <2>2. Complete'[i - 1] = Complete[i]
    BY <1>1, <1>4, <1>5, <2>1
  <2>3. Line'[i] = Complete'[i - 1].bytes
    BY <1>5, <2>1 DEF Line
  <2>4. Line[i + 1] = Complete[i].bytes
    BY <1>4, <2>1 DEF Line
  <2> QED
    BY <2>2, <2>3, <2>4
<1>11. r = Assemble(Line[1], Line[2])
  BY <1>8 DEF r
<1> QED
  BY <1>6, <1>7, <1>9, <1>10, <1>11 DEF Shorter, r

\* It is the same while nothing that counts changes.
LEMMA SameLine ==
    ASSUME SameWait
    PROVE  Line' = Line /\ LineLen' = LineLen
  BY DEF SameWait, console, Line, LineLen

\* Bytes of clients are whole messages or contain none of the status bytes St.
Apart(St) ==
    \A b \in Commands :
        /\ b \in Seq(Byte) /\ b # <<>>
        /\ b \in MidiMessages \/ \A i \in DOMAIN b : b[i] \notin St

\* Everything else that is sent is a whole message.
LEMMA OutgoingMessages ==
    ASSUME Strips = 0..7, NEW b \in OutgoingBytes
    PROVE  b \in Commands \/ b \in MidiMessages
<1>1. CASE b \in Lights
  <2>1. PICK note \in 2..4 : \E i \in DOMAIN ModeLeds(note) : b = ModeLeds(note)[i].bytes
    BY <1>1 DEF Lights
  <2>2. PICK i \in 1..3 : b = <<144, i + 1, IF i + 1 = note THEN 13 + 32 ELSE 13>>
    BY <2>1 DEF ModeLeds, Entry
  <2>3. i + 1 \in 0..127 /\ (IF i + 1 = note THEN 13 + 32 ELSE 13) \in 0..127 /\ 144 \in 128..255
    OBVIOUS
  <2> QED
    BY <2>2, <2>3 DEF MidiMessages
<1>2. CASE b \in MotorTargets
  <2>1. PICK c \in 0..7, target \in {256, 768} : b = MotorTarget(c, target)
    BY <1>2 DEF MotorTargets
  <2>2. 256 % 8 = 0 /\ 768 % 8 = 0 /\ 256 \div 8 = 32 /\ 768 \div 8 = 96
    OBVIOUS
  <2>3. target % 8 = 0 /\ target \div 8 \in 0..127
    BY <2>2
  <2>4. (target % 8) * 8 + c \in 0..127 /\ 176 \in 128..255
    BY <2>3
  <2> QED
    BY <2>1, <2>3, <2>4 DEF MotorTarget, MidiMessages
<1> QED
  BY <1>1, <1>2, ControlsMessages DEF OutgoingBytes

\* The words of bytes that contain none of them begin nothing of interest.
LEMMA WordsApart ==
    ASSUME NEW St, NEW p, NEW b \in Seq(Byte), \A i \in DOMAIN b : b[i] \notin St,
           NEW i \in 1..Len(Words(p, b))
    PROVE  LET f == Words(p, b)[i].bytes IN TwoBytes(f, St) /\ f # <<>> /\ f[1] \notin St
<1> DEFINE last == IF 2 * i <= Len(b) THEN 2 * i ELSE Len(b)
           first == 2 * i - 1
           f == SubSeq(b, first, last)
           l == Len(b)
<1>1. l \in Nat /\ DOMAIN b = 1..l
  BY LenProperties
<1>2. Len(Words(p, b)) = (l + 1) \div 2
  <2>1. (l + 1) \div 2 \in Nat
    BY <1>1
  <2> HIDE DEF l
  <2> DEFINE k == (l + 1) \div 2
             g(j) == [port |-> p, bytes |-> SubSeq(b, 2 * j - 1, IF 2 * j <= l THEN 2 * j ELSE l)]
  <2>2. Words(p, b) = [j \in 1..k |-> g(j)]
    BY DEF Words, l
  <2> HIDE DEF k, g
  <2>3. k \in Nat
    BY <2>1 DEF k
  <2> DEFINE s == Words(p, b)
             S == {g(j) : j \in 1..k}
  <2>4. s \in [1..k -> S]
    BY <2>2
  <2> HIDE DEF s, S
  <2>5. s \in Seq(S) /\ Len(s) = k
    BY <2>3, <2>4, SeqDef, LenProperties
  <2> QED
    BY <2>5 DEF s, k
<1>3. Words(p, b)[i].bytes = f
  BY <1>2 DEF Words
<1> HIDE DEF l
<1>4. /\ first \in 1..l /\ last \in 1..l /\ first <= last /\ last <= first + 1
  <2>1. i \in 1..((l + 1) \div 2)
    BY <1>2
  <2>2. 2 * i <= l + 1 /\ i \in Nat /\ i >= 1
    BY <1>1, <2>1
  <2> QED
    BY <1>1, <2>2 DEF l
<1> HIDE DEF first, last
<1>5. /\ f \in Seq(Byte) /\ Len(f) = (last - first) + 1
      /\ \A j \in 1..Len(f) : f[j] = b[(first + j) - 1]
  BY <1>1, <1>4 DEF l
<1> HIDE DEF f
<1>6. Len(f) \in 1..2
  BY <1>1, <1>4, <1>5
<1>7. ASSUME NEW j \in 1..Len(f) PROVE f[j] \notin St
  <2>1. (first + j) - 1 \in 1..l
    BY <1>1, <1>4, <1>5
  <2> QED
    BY <1>1, <1>5, <2>1
<1>8. f # <<>> /\ f[1] \notin St /\ (Len(f) = 2 => f[2] \notin St)
  BY <1>6, <1>7
<1>9. TwoBytes(f, St)
  BY <1>5, <1>6, <1>8 DEF TwoBytes
<1> QED
  BY <1>3, <1>8, <1>9

\* What the append of one message makes of the line.
LEMMA EndedFrames ==
    ASSUME Strips = 0..7, ServedInv, NEW t \in Threads, Ended(t),
           NEW St, St \subseteq 128..255, Apart(St), Framed(Line, LineLen, St)
    PROVE  LET m == Head(todo[t]).bytes
               n == LineLen + 1
           IN  /\ Framed(Line', LineLen', St)
               /\ \/ /\ m \in MidiMessages /\ LineLen' = LineLen + 2
                     /\ Longer(Line', Line, LineLen, 2)
                     /\ Begins(Line', St, n) <=> m[1] \in St
                     /\ Told(Line', n) = m /\ ~Begins(Line', St, LineLen + 2)
                  \/ /\ m \in Commands /\ \A i \in DOMAIN m : m[i] \notin St
                     /\ \E k \in Nat : /\ LineLen' = LineLen + k
                                       /\ Longer(Line', Line, LineLen, k)
                                       /\ \A i \in (LineLen + 1)..(LineLen + k) :
                                              ~Begins(Line', St, i)
<1> DEFINE b == Head(todo[t]).bytes
           m == Appended(t)
           k == Len(m)
<1>1. b \in OutgoingBytes
  <2>1. todo[t] \in Seq(Entries) /\ todo[t] # <<>>
    BY DEF ServedInv, SurfaceInv, Handed, Ended
  <2>2. Head(todo[t]) \in Entries
    BY <2>1
  <2> QED
    BY <2>2 DEF Entries
<1>2. /\ Longer(Line', Line, LineLen, k) /\ LineLen' = LineLen + k
      /\ \A i \in 1..k : Line'[LineLen + i] = m[i].bytes
  BY EndedLonger
<1>3. m = Words(ControlPort, b)
  BY DEF Appended
<1>4. LineLen \in Nat
  BY <1>2 DEF Longer
<1> HIDE DEF b
<1>5. CASE b \in MidiMessages
  <2>1. m = Whole(ControlPort, b)
    BY <1>3, <1>5, WordsOfMessage
  <2>2. k = 2 /\ m[1].bytes = Head2(b) /\ m[2].bytes = <<b[3]>>
    BY <2>1 DEF Whole, Fragment
  <2>3. /\ Longer(Line', Line, LineLen, 2) /\ LineLen' = LineLen + 2
        /\ Line'[LineLen + 1] = Head2(b) /\ Line'[LineLen + 2] = <<b[3]>>
    <3>1. 1 \in 1..2 /\ 2 \in 1..2
      OBVIOUS
    <3> HIDE DEF m
    <3> QED
      BY <1>2, <2>2, <3>1
  <2>4. /\ Framed(Line', LineLen + 2, St)
        /\ Begins(Line', St, LineLen + 1) <=> b[1] \in St
        /\ Told(Line', LineLen + 1) = b /\ ~Begins(Line', St, LineLen + 2)
    BY <1>5, <2>3, FramedPut
  <2> QED
    BY <1>5, <2>3, <2>4, Zenon DEF b
<1>6. CASE b \in Commands /\ b \notin MidiMessages
  <2>1. b \in Seq(Byte) /\ \A i \in DOMAIN b : b[i] \notin St
    BY <1>6 DEF Apart
  <2>2. k \in Nat
    BY <1>2 DEF Longer
  <2>3. ASSUME NEW i \in 1..k PROVE TwoBytes(m[i].bytes, St) /\ m[i].bytes # <<>> /\ m[i].bytes[1] \notin St
    <3>1. i \in 1..Len(Words(ControlPort, b))
      BY <1>3
    <3> HIDE DEF m, k
    <3>2. LET f == Words(ControlPort, b)[i].bytes IN TwoBytes(f, St) /\ f # <<>> /\ f[1] \notin St
      BY <2>1, <3>1, WordsApart
    <3> QED
      BY <1>3, <3>2, Zenon
  <2> HIDE DEF m, k
  <2>4. ASSUME NEW i \in (LineLen + 1)..(LineLen + k)
        PROVE  TwoBytes(Line'[i], St) /\ Line'[i] # <<>> /\ ~Begins(Line', St, i)
    <3> DEFINE j == i - LineLen
    <3>1. j \in 1..k /\ LineLen + j = i
      BY <1>4, <2>2
    <3> HIDE DEF j
    <3>2. Line'[i] = m[j].bytes
      BY <1>2, <3>1
    <3> QED
      BY <2>3, <3>1, <3>2 DEF Begins
  <2>5. Framed(Line', LineLen + k, St)
    BY <1>2, <2>4, FramedQuiet
  <2> QED
    BY <1>2, <1>6, <2>1, <2>2, <2>4, <2>5 DEF b
<1> QED
  BY <1>1, <1>5, <1>6, OutgoingMessages

\* A message of K and G that is appended is the last of K; one that is not of K leaves the
\* last what it was.
LEMMA EndedTells ==
    ASSUME Strips = 0..7, ServedInv, NEW t \in Threads, Ended(t),
           NEW St, St \subseteq 128..255, Apart(St), Framed(Line, LineLen, St),
           NEW K, NEW G, NEW now \in BOOLEAN, K \subseteq MidiMessages,
           \A m \in K : m[1] \in St,
           IF Head(todo[t]).bytes \in K THEN Head(todo[t]).bytes \in G
                                        ELSE LastTold(Line, LineLen, St, K, G, now)
    PROVE  LastTold(Line', LineLen', St, K, G, now)
<1> DEFINE m == Head(todo[t]).bytes
           n == LineLen + 1
<1>1. \/ /\ m \in MidiMessages /\ LineLen' = LineLen + 2
         /\ Longer(Line', Line, LineLen, 2)
         /\ Begins(Line', St, n) <=> m[1] \in St
         /\ Told(Line', n) = m /\ ~Begins(Line', St, LineLen + 2)
      \/ /\ m \in Commands /\ \A i \in DOMAIN m : m[i] \notin St
         /\ \E k \in Nat : /\ LineLen' = LineLen + k
                           /\ Longer(Line', Line, LineLen, k)
                           /\ \A i \in (LineLen + 1)..(LineLen + k) :
                                  ~Begins(Line', St, i)
  BY EndedFrames, Zenon
<1> HIDE DEF m
<1>2. CASE m \in K
  <2>1. m \in MidiMessages /\ m[1] \in St /\ m \in G
    BY <1>2 DEF m
  <2>2. /\ LineLen' = LineLen + 2 /\ LineLen \in Nat /\ Begins(Line', St, LineLen + 1)
        /\ Told(Line', LineLen + 1) = m /\ ~Begins(Line', St, LineLen + 2)
    <3>1. ~ \A i \in DOMAIN m : m[i] \notin St
      <4>1. 1 \in DOMAIN m
        BY <2>1, MessageBytes
      <4> QED
        BY <2>1, <4>1
    <3> QED
      BY <1>1, <2>1, <3>1 DEF Longer
  <2>3. LastTold(Line', LineLen + 2, St, K, G, now)
    BY <1>2, <2>1, <2>2, LastPut
  <2> QED
    BY <2>2, <2>3
<1>3. CASE m \notin K
  <2>1. LastTold(Line, LineLen, St, K, G, now)
    BY <1>3 DEF m
  <2>2. PICK k \in Nat :
            /\ LineLen' = LineLen + k /\ Longer(Line', Line, LineLen, k)
            /\ \A i \in (LineLen + 1)..(LineLen + k) :
                   Begins(Line', St, i) => Told(Line', i) \notin K
    <3>1. CASE /\ LineLen' = LineLen + 2 /\ Longer(Line', Line, LineLen, 2)
               /\ Told(Line', n) = m /\ ~Begins(Line', St, LineLen + 2)
      <4>1. LineLen \in Nat
        BY <3>1 DEF Longer
      <4>2. ASSUME NEW i \in (LineLen + 1)..(LineLen + 2) PROVE i = n \/ i = LineLen + 2
        BY <4>1
      <4>3. \A i \in (LineLen + 1)..(LineLen + 2) : Begins(Line', St, i) => Told(Line', i) \notin K
        BY <1>3, <3>1, <4>2
      <4>4. 2 \in Nat
        OBVIOUS
      <4> QED
        BY <3>1, <4>3, <4>4
    <3>2. CASE \E k \in Nat : /\ LineLen' = LineLen + k
                              /\ Longer(Line', Line, LineLen, k)
                              /\ \A i \in (LineLen + 1)..(LineLen + k) :
                                     ~Begins(Line', St, i)
      BY <3>2
    <3> QED
      BY <1>1, <3>1, <3>2
  <2>3. LastTold(Line', LineLen + k, St, K, G, now)
    BY <2>1, <2>2, LastKept
  <2> QED
    BY <2>2, <2>3
<1> QED
  BY <1>2, <1>3

\* What the console makes of a word: a message of interest is one that began whole.
LEMMA PoppedHears ==
    ASSUME Popped, NEW St, St \subseteq 128..255, Framed(Line, LineLen, St)
    PROVE  LET m == Assemble(heard, queue[readIndex].bytes).message IN
           /\ Framed(Line', LineLen', St)
           /\ m = <<>> \/ (m \in MidiMessages /\ m[1] \in St) \/ m[1] \in Byte \ St
<1> DEFINE r == Assemble(heard, queue[readIndex].bytes)
<1>1. Shorter(Line', Line, LineLen, r) /\ LineLen' = LineLen - 1
  BY PoppedShorter
<1> HIDE DEF r
<1>2. Framed(Line', LineLen', St)
  BY <1>1, FramedRead
<1>3. AtHead(Line, Line', r, St)
  BY <1>1, HeadRead
<1>4. ASSUME Begins(Line, St, 1) PROVE r.message \in MidiMessages /\ r.message[1] \in St
  <2>1. 1 \in 1..LineLen
    BY <1>1 DEF Shorter
  <2>2. Begun(Line, LineLen, 1) /\ Line[1][1] \in St
    BY <1>4, <2>1 DEF Framed, Begins
  <2>3. Line[1][1] \in 128..255 /\ Line[1][2] \in 0..127 /\ Line[1 + 1][1] \in 0..127
    <3>1. Line[1][2] \in 0..127 /\ Line[1 + 1][1] \in 0..127
      BY <2>2, Zenon DEF Begun
    <3>2. Line[1][1] \in 128..255
      BY <2>2, Zenon
    <3> QED
      BY <3>1, <3>2
  <2> DEFINE a == Line[1][1]
             b == Line[1][2]
             x == Line[1 + 1][1]
  <2>4. r.message = <<a, b, x>>
    BY <1>3, <1>4 DEF AtHead, Told
  <2>5. a \in 128..255 /\ b \in 0..127 /\ x \in 0..127 /\ a \in St
    BY <2>2, <2>3
  <2> HIDE DEF a, b, x
  <2>6. <<a, b, x>> \in MidiMessages /\ <<a, b, x>>[1] = a
    BY <2>5 DEF MidiMessages
  <2> QED
    BY <2>4, <2>5, <2>6
<1>5. r.message = <<>> \/ (r.message \in MidiMessages /\ r.message[1] \in St) \/ r.message[1] \in Byte \ St
  BY <1>3, <1>4 DEF AtHead
<1> QED
  BY <1>2, <1>5 DEF r

\* If it hears one of K, it is content if that is of G.
LEMMA PoppedTells ==
    ASSUME Popped, NEW St, St \subseteq 128..255, Framed(Line, LineLen, St),
           NEW K, NEW G, NEW now \in BOOLEAN, NEW after \in BOOLEAN, K \subseteq MidiMessages,
           \A m \in K : m[1] \in St, LastTold(Line, LineLen, St, K, G, now),
           IF Assemble(heard, queue[readIndex].bytes).message \in K
           THEN after <=> Assemble(heard, queue[readIndex].bytes).message \in G
           ELSE after <=> now
    PROVE  LastTold(Line', LineLen', St, K, G, after)
<1> DEFINE r == Assemble(heard, queue[readIndex].bytes)
<1>1. Shorter(Line', Line, LineLen, r) /\ LineLen' = LineLen - 1
  BY PoppedShorter
<1>2. IF r.message \in K THEN after <=> r.message \in G ELSE after <=> now
  OBVIOUS
<1> HIDE DEF r
<1>3. <<>> \notin K
  BY MessageBytes
<1>4. Hears(r, St, K, G, now, after)
  BY <1>2, <1>3 DEF Hears
<1>5. LastTold(Line', LineLen - 1, St, K, G, after)
  BY <1>1, <1>4, LastRead
<1> QED
  BY <1>1, <1>5

-----------------------------------------------------------------------------
(* Motors hold what was let go.                                             *)

FaderStatus == 176..191
MovesOf(c) == {m \in MidiMessages : IsFaderMove(m) /\ Channel(m) = c}

\* The commands of status bytes
LEMMA Statuses ==
    ASSUME NEW m, m[1] \in Byte
    PROVE  /\ Command(m) = 176 <=> m[1] \in FaderStatus
           /\ IsNote(m) <=> m[1] \in 128..159
<1> DEFINE s == m[1]
<1>1. \A x \in 0..255 : /\ (x \div 16) * 16 = 176 <=> x \in 176..191
                        /\ (x \div 16) * 16 \in {128, 144} <=> x \in 128..159
  OBVIOUS
<1> QED
  BY <1>1 DEF Byte, Command, IsNote, FaderStatus

\* The position of a fader that was let go is yet to be appended, and comes next, or is the
\* last one on its way, or the console has it.
ComesNext(c) ==
    /\ todo[Harvest] # <<>> /\ Head(todo[Harvest]).purpose = "fader"
    /\ Head(todo[Harvest]).bytes = faderMove[c]
LastMove(c) ==
    LastTold(Line, LineLen, FaderStatus, MovesOf(c), {faderMove[c]}, motor[c] = faderMove[c])

HoldInv ==
    /\ motor = [c \in Strips |-> motor[c]]
    /\ resting \subseteq Strips /\ \A c \in resting : faderMove[c] # None
    /\ Framed(Line, LineLen, FaderStatus)
    /\ ~refused => \A c \in resting : ComesNext(c) \/ LastMove(c)

\* Nothing is on its way at the beginning.
LEMMA LineStarts ==
    ASSUME Init, NEW St
    PROVE  Framed(Line, LineLen, St) /\ LineLen = 1
<1>1. Complete = <<>> /\ heard = <<>>
  <2>1. Fifo!Init
    BY CompleteStarts
  <2> QED
    BY <2>1 DEF Fifo!Init, Init
<1>2. LineLen = 1 /\ Line[1] = <<>>
  BY <1>1 DEF Line, LineLen
<1>3. TwoBytes(<<>>, St)
  BY DEF TwoBytes
<1>4. ASSUME NEW i \in 1..1 PROVE TwoBytes(Line[i], St) /\ i = 1 /\ ~Begins(Line, St, i)
  BY <1>2, <1>3 DEF Begins
<1> QED
  BY <1>2, <1>4 DEF Framed

\* At the beginning nothing was let go.
LEMMA HoldStarts == Init => HoldInv
<1> SUFFICES ASSUME Init PROVE HoldInv
  OBVIOUS
<1>1. Framed(Line, LineLen, FaderStatus)
  BY LineStarts
<1> QED
  BY <1>1 DEF Init, HoldInv

\* Moves of one fader are not those of another.
LEMMA MovesApart ==
    ASSUME NEW c
    PROVE  /\ MovesOf(c) \subseteq MidiMessages /\ \A m \in MovesOf(c) : m[1] \in FaderStatus
           /\ (motor[c] = faderMove[c]) \in BOOLEAN
           /\ FaderStatus \subseteq 128..255
<1>1. ASSUME NEW m \in MovesOf(c) PROVE m[1] \in FaderStatus
  <2>1. m \in MidiMessages /\ Command(m) = 176
    BY DEF MovesOf, IsFaderMove
  <2>2. m[1] \in Byte
    BY <2>1, MessageBytes DEF Byte
  <2> QED
    BY <2>1, <2>2, Statuses
<1> QED
  BY <1>1 DEF MovesOf, FaderStatus

\* An append that ended
LEMMA EndedHolds ==
    ASSUME Strips = 0..7, Apart(FaderStatus), ServedInv, HoldInv,
           NEW t \in Threads, Ended(t)
    PROVE  HoldInv'
<1> DEFINE e == Head(todo[t])
           b == e.bytes
<1>1. /\ UNCHANGED <<faderMove, motor, refused>>
      /\ todo' = [todo EXCEPT ![t] = Tail(@)]
      /\ resting' = IF IsFaderMove(b) /\ e.purpose # "fader"
                    THEN resting \ {Channel(b)} ELSE resting
  BY DEF Ended, Queued, Elsewhere, surface, console
<1>2. Framed(Line', LineLen', FaderStatus)
  BY EndedFrames, MovesApart DEF HoldInv
<1>3. /\ todo \in [Threads -> Seq(Entries)] /\ todo[t] # <<>>
      /\ 1 \in DOMAIN todo[t] /\ todo[t][1] = e
  <2>1. todo \in [Threads -> Seq(Entries)] /\ todo[t] # <<>>
    BY DEF ServedInv, SurfaceInv, Handed, Ended
  <2>2. todo[t] \in Seq(Entries)
    BY <2>1
  <2> QED
    BY <2>1, <2>2
<1>4. e.purpose = "fader" => t = Harvest /\ \E d \in Strips : faderMove[d] # None /\ b = faderMove[d]
  BY <1>3 DEF ServedInv, SurfaceInv, FreshOrDue, FaderFirst
<1> HIDE DEF e
<1>5. ASSUME ~refused, NEW c \in resting' PROVE ComesNext(c)' \/ LastMove(c)'
  <2>1. c \in Strips /\ c \in resting /\ faderMove[c] # None
    BY <1>1, <1>5 DEF HoldInv
  <2>2. faderMove[c] \in MovesOf(c)
    BY <2>1, ControlsMessages DEF ServedInv, SurfaceInv, Handed, Moved, MovesOf
  <2>3. ComesNext(c) \/ LastMove(c)
    BY <1>5, <2>1 DEF HoldInv
  <2> DEFINE K == MovesOf(c)
             G == {faderMove[c]}
             now == motor[c] = faderMove[c]
  <2>4. K \subseteq MidiMessages /\ (\A m \in K : m[1] \in FaderStatus) /\ now \in BOOLEAN
    BY MovesApart
  <2>5. ASSUME IF b \in K THEN b \in G ELSE LastMove(c) PROVE LastMove(c)'
    <3>1. IF Head(todo[t]).bytes \in K THEN Head(todo[t]).bytes \in G
                                 ELSE LastTold(Line, LineLen, FaderStatus, K, G, now)
      BY <2>5 DEF LastMove, e
    <3>2. Framed(Line, LineLen, FaderStatus) /\ FaderStatus \subseteq 128..255
      BY MovesApart DEF HoldInv
    <3> HIDE DEF K, G, now
    <3>3. LastTold(Line', LineLen', FaderStatus, K, G, now)
      BY <2>4, <3>1, <3>2, EndedTells
    <3> QED
      BY <1>1, <3>3 DEF LastMove, K, G, now
  <2>6. CASE e.purpose = "fader"
    <3>1. PICK d \in Strips : faderMove[d] # None /\ b = faderMove[d]
      BY <1>4, <2>6
    <3>2. t = Harvest
      BY <1>4, <2>6
    <3>3. b \in MovesOf(d)
      BY <3>1, ControlsMessages DEF ServedInv, SurfaceInv, Handed, Moved, MovesOf
    <3>4. CASE d = c
      BY <2>2, <2>5, <3>1, <3>4
    <3>5. CASE d # c
      <4>1. b \notin K
        BY <3>3, <3>5 DEF MovesOf
      <4>2. ~ComesNext(c)
        BY <2>2, <3>2, <4>1 DEF ComesNext, e
      <4> QED
        BY <2>3, <2>5, <4>1, <4>2
    <3> QED
      BY <3>4, <3>5
  <2>7. CASE e.purpose # "fader"
    <3>1. b \notin K
      BY <1>1, <1>5, <2>7 DEF MovesOf
    <3>2. CASE LastMove(c)
      BY <2>5, <3>1, <3>2
    <3>3. CASE ComesNext(c)
      <4>1. t # Harvest
        BY <2>7, <3>3 DEF ComesNext, e
      <4>2. todo'[Harvest] = todo[Harvest] /\ faderMove'[c] = faderMove[c]
        BY <1>1, <1>3, <4>1 DEF Threads
      <4> QED
        BY <3>3, <4>2 DEF ComesNext
    <3> QED
      BY <2>3, <3>2, <3>3
  <2> QED
    BY <2>6, <2>7
<1> QED
  BY <1>1, <1>2, <1>5 DEF HoldInv

\* A word that was popped
LEMMA PoppedHolds ==
    ASSUME Strips = 0..7, ServedInv, HoldInv, Popped
    PROVE  HoldInv'
<1> DEFINE m == Assemble(heard, queue[readIndex].bytes).message
<1>1. /\ UNCHANGED <<faderMove, todo, resting, refused>>
      /\ motor' = IF m # <<>> /\ IsFaderMove(m) THEN [motor EXCEPT ![Channel(m)] = m] ELSE motor
  BY DEF Popped, HearWord, surface, feedback, history
<1>2. /\ Framed(Line', LineLen', FaderStatus)
      /\ \/ m = <<>> \/ (m \in MidiMessages /\ m[1] \in FaderStatus)
         \/ m[1] \in Byte \ FaderStatus
  BY PoppedHears, MovesApart DEF HoldInv
<1> HIDE DEF m
<1>3. motor' = [c \in Strips |-> motor'[c]]
  BY <1>1 DEF HoldInv
<1>4. m # <<>> /\ IsFaderMove(m) => m \in MidiMessages
  BY <1>2, Statuses DEF IsFaderMove
<1>5. <<>> \notin MidiMessages
  BY MessageBytes
<1>6. ASSUME NEW c \in resting, LastMove(c) PROVE LastMove(c)'
  <2> DEFINE K == MovesOf(c)
             G == {faderMove[c]}
             now == motor[c] = faderMove[c]
             after == motor'[c] = faderMove[c]
  <2>1. K \subseteq MidiMessages /\ (\A x \in K : x[1] \in FaderStatus) /\ now \in BOOLEAN
        /\ after \in BOOLEAN
    BY MovesApart
  <2>2. c \in Strips
    BY DEF HoldInv
  <2>3. IF m \in K THEN after <=> m \in G ELSE after <=> now
    <3>1. CASE m \in K
      <4>1. m # <<>> /\ IsFaderMove(m) /\ Channel(m) = c
        BY <1>5, <3>1 DEF MovesOf
      <4>2. motor'[c] = m
        BY <1>1, <2>2, <4>1 DEF HoldInv
      <4> QED
        BY <3>1, <4>2
    <3>2. CASE m \notin K
      <4>1. ~(m # <<>> /\ IsFaderMove(m) /\ Channel(m) = c)
        BY <1>4, <3>2 DEF MovesOf
      <4>2. motor'[c] = motor[c]
        BY <1>1, <2>2, <4>1 DEF HoldInv
      <4> QED
        BY <3>2, <4>2
    <3> QED
      BY <3>1, <3>2
  <2>4. /\ Framed(Line, LineLen, FaderStatus) /\ FaderStatus \subseteq 128..255
        /\ LastTold(Line, LineLen, FaderStatus, K, G, now)
    BY <1>6, MovesApart DEF HoldInv, LastMove
  <2> HIDE DEF K, G, now, after
  <2>5. LastTold(Line', LineLen', FaderStatus, K, G, after)
    BY <2>1, <2>3, <2>4, PoppedTells DEF m
  <2> QED
    BY <1>1, <2>5 DEF LastMove, K, G, after
<1>7. ASSUME NEW c \in resting, ComesNext(c) PROVE ComesNext(c)'
  BY <1>1, <1>7 DEF ComesNext
<1> QED
  BY <1>1, <1>2, <1>3, <1>6, <1>7 DEF HoldInv

\* A message of the controls
LEMMA ObservedHolds ==
    ASSUME Strips = 0..7, ServedInv, HoldInv, Observed
    PROVE  HoldInv'
<1> DEFINE m == Assembled(ControlPort).message
           a == MappedAppends(m) \o FeedbackAppends(m)
           d == Channel(m)
<1>1. /\ todo[Harvest] = <<>> /\ m # <<>> /\ sending[ControlPort].fragments # <<>>
      /\ ObserveControls(m) /\ SameWait
  BY DEF Observed, ReceiveControl, Decode, TakeFragment
<1>2. m \in Controls /\ m \in MidiMessages /\ d \in Strips
  BY <1>1, ControlMessage, ControlsMessages, ChannelIsStrip DEF ServedInv, SurfaceInv
<1>3. /\ faderMove' = IF IsFaderMove(m) THEN [faderMove EXCEPT ![d] = m] ELSE faderMove
      /\ todo' = [todo EXCEPT ![Harvest] = a]
      /\ resting' = IF Release(m) /\ faderMove[d] # None THEN resting \cup {d}
                    ELSE IF IsFaderMove(m) THEN resting \ {d} ELSE resting
      /\ refused' = refused /\ motor' = motor
  BY <1>1 DEF ObserveControls, SameWait, console
<1>4. faderMove \in [Strips -> {None} \cup Controls] /\ Harvest \in DOMAIN todo
  BY DEF ServedInv, SurfaceInv, Handed, Threads
<1>5. Release(m) => ~IsFaderMove(m)
  BY DEF Release, IsStripNote, IsFaderMove
<1>6. ASSUME Release(m), NEW c \in Strips, c = d, faderMove[c] # None PROVE ComesNext(c)'
  <2>1. ~MotorTest(m)
    BY <1>6 DEF Release, MotorTest, IsStripNote
  <2> DEFINE f == Entry(faderMove[c], "fader", None)
             rest == FeedbackAppends(m)
  <2>2. a = <<f>> \o rest
    BY <1>6, <2>1 DEF MappedAppends
  <2>3. rest \in Seq(Entries)
    BY <1>2, FeedbackTyped DEF ServedInv, SurfaceInv
  <2>4. f.purpose = "fader" /\ f.bytes = faderMove[c] /\ f \in Entries
    <3>1. faderMove[c] \in OutgoingBytes
      BY <1>2, <1>4, <1>6 DEF OutgoingBytes
    <3> QED
      BY <3>1, EntryTyped DEF Purposes
  <2> HIDE DEF f, rest, a
  <2>5. <<f>> \in Seq(Entries) /\ Len(<<f>>) = 1 /\ <<f>>[1] = f
    BY <2>4
  <2>6. a \in Seq(Entries) /\ Len(a) = 1 + Len(rest) /\ a[1] = f
    <3>1. /\ a \in Seq(Entries) /\ Len(a) = Len(<<f>>) + Len(rest)
          /\ \A i \in 1..(Len(<<f>>) + Len(rest)) :
                 a[i] = IF i <= Len(<<f>>) THEN <<f>>[i] ELSE rest[i - Len(<<f>>)]
      BY <2>2, <2>3, <2>5, ConcatProperties, Zenon
    <3>2. Len(rest) \in Nat
      BY <2>3, LenProperties
    <3> QED
      BY <2>5, <3>1, <3>2
  <2>7. a # <<>> /\ Head(a) = f
    <3>1. Len(a) # 0
      BY <2>3, <2>6, LenProperties
    <3> QED
      BY <2>6, <3>1
  <2>8. faderMove' = faderMove /\ todo'[Harvest] = a
    BY <1>3, <1>4, <1>5, <1>6
  <2> QED
    BY <2>4, <2>7, <2>8 DEF ComesNext
<1>7. ASSUME ~refused, NEW c \in resting, c # d \/ ~IsFaderMove(m) PROVE LastMove(c)'
  <2>1. LastMove(c)
    BY <1>1, <1>7 DEF HoldInv, ComesNext
  <2>2. faderMove'[c] = faderMove[c]
    BY <1>2, <1>3, <1>4, <1>7 DEF HoldInv
  <2>3. Line' = Line /\ LineLen' = LineLen
    BY <1>1, SameLine
  <2> QED
    BY <1>3, <2>1, <2>2, <2>3 DEF LastMove
<1> HIDE DEF m, a, d
<1>8. Framed(Line', LineLen', FaderStatus)
  BY <1>1, SameLine DEF HoldInv
<1>9. resting' \subseteq Strips /\ \A c \in resting' : faderMove'[c] # None
  BY <1>2, <1>3, <1>4, <1>5 DEF HoldInv
<1>10. ASSUME ~refused', NEW c \in resting' PROVE ComesNext(c)' \/ LastMove(c)'
  <2>1. CASE Release(m) /\ faderMove[d] # None /\ c = d
    BY <1>2, <1>6, <2>1
  <2>2. CASE ~(Release(m) /\ faderMove[d] # None /\ c = d)
    <3>1. c \in resting /\ (c # d \/ ~IsFaderMove(m))
      BY <1>3, <1>5, <1>10, <2>2
    <3> QED
      BY <1>3, <1>7, <1>10, <3>1
  <2> QED
    BY <2>1, <2>2
<1> QED
  BY <1>3, <1>8, <1>9, <1>10 DEF HoldInv

\* Whatever does not concern faders
LEMMA OtherwiseHolds ==
    ASSUME HoldInv, SameWait,
           \/ UNCHANGED <<faderMove, resting, refused>> /\ todo'[Harvest] = todo[Harvest]
           \/ UNCHANGED <<faderMove, resting>> /\ refused'
    PROVE  HoldInv'
<1>1. Line' = Line /\ LineLen' = LineLen /\ motor' = motor
  BY SameLine DEF SameWait, console
<1>2. ASSUME UNCHANGED <<faderMove, resting, refused>> /\ todo'[Harvest] = todo[Harvest],
             NEW c \in resting
      PROVE  (ComesNext(c)' <=> ComesNext(c)) /\ (LastMove(c)' <=> LastMove(c))
  BY <1>1, <1>2 DEF ComesNext, LastMove
<1> QED
  BY <1>1, <1>2 DEF HoldInv

\* The invariant is inductive.
LEMMA HoldInductive ==
    ASSUME Strips = 0..7, Outgoing \subseteq Message, Apart(FaderStatus)
    PROVE  ServedInv /\ ServedInv' /\ HoldInv /\ [Next]_vars => HoldInv'
<1> SUFFICES ASSUME ServedInv, ServedInv', HoldInv, [Next]_vars PROVE HoldInv'
  OBVIOUS
<1>1. StepOfWords
  BY StepsOfWords
<1>2. ASSUME NEW t \in Threads, Ended(t) PROVE HoldInv'
  BY <1>2, EndedHolds
<1>3. ASSUME NEW t \in Threads, Failed(t) PROVE HoldInv'
  BY <1>3, OtherwiseHolds DEF Failed, NotQueued, Elsewhere, surface
<1>4. ASSUME NEW t \in Clients, Commanded(t) PROVE HoldInv'
  <2>1. todo'[Harvest] = todo[Harvest]
    <3>1. t # Harvest
      BY QueueAssumption
    <3>2. PICK e : todo' = [todo EXCEPT ![t] = e]
      BY <1>4 DEF Commanded, BeginCommand
    <3>3. todo = [u \in Threads |-> todo[u]] /\ Harvest \in Threads
      BY DEF ServedInv, SurfaceInv, Handed, Threads
    <3> QED
      BY <3>1, <3>2, <3>3
  <2> QED
    BY <1>4, <2>1, OtherwiseHolds DEF Commanded, BeginCommand, surface, feedback, history
<1>5. ASSUME Passed PROVE HoldInv'
  BY <1>5, OtherwiseHolds DEF Passed, surface, feedback, history
<1> QED
  BY <1>1, <1>2, <1>3, <1>4, <1>5, PoppedHolds, ObservedHolds DEF StepOfWords

\* Nothing waits when all is quiet.
LEMMA QuietLine ==
    ASSUME ServedInv, Quiet
    PROVE  LineLen = 1
<1>1. \A t \in Threads : step[t] # "storing"
  BY DEF Quiet, ServedInv, Appending, Partway
<1>2. Complete = Contents(queue, readIndex, 0)
  BY <1>1, CompleteIs DEF WordsThatCount, Quiet
<1>3. 0 \in Nat
  OBVIOUS
<1>4. Len(Complete) = 0
  BY <1>2, <1>3, ContentsAre, Zenon
<1> QED
  BY <1>4 DEF LineLen

(* When everything queued has been sent and no append failed, the motor of a *)
(* fader that was let go has been told to stay where it was left, provided   *)
(* that clients send no parts of messages to faders.                         *)
THEOREM ReleaseHoldsHolds ==
    ASSUME Strips = 0..7, Outgoing \subseteq Message, Apart(FaderStatus)
    PROVE  Spec => []ReleaseHolds
<1>1. ServedInv /\ HoldInv => ReleaseHolds
  <2> SUFFICES ASSUME ServedInv, HoldInv, Quiet, ~refused, NEW c \in resting
               PROVE  motor[c] = faderMove[c]
    BY DEF ReleaseHolds
  <2>1. LineLen = 1
    BY QuietLine
  <2>2. LastMove(c)
    <3>1. ~ComesNext(c)
      BY DEF ComesNext, Quiet, Threads
    <3> QED
      BY <3>1 DEF HoldInv
  <2> DEFINE now == motor[c] = faderMove[c]
  <2>3. /\ LastTold(Line, 1, FaderStatus, MovesOf(c), {faderMove[c]}, now)
        /\ Framed(Line, 1, FaderStatus) /\ now \in BOOLEAN
    BY <2>1, <2>2, MovesApart DEF LastMove, HoldInv
  <2> HIDE DEF now
  <2>4. now
    BY <2>3, NothingWaits
  <2> QED
    BY <2>4 DEF now
<1>2. Spec => []ServedInv
  BY ServedHolds
<1>3. ServedInv /\ ServedInv' /\ HoldInv /\ [Next]_vars => HoldInv'
  BY HoldInductive
<1> QED
  BY <1>1, <1>2, <1>3, HoldStarts, PTL DEF Spec

-----------------------------------------------------------------------------
(* One mode button is lit.                                                  *)

NoteStatus == 128..159
LightsOf(l) == {m \in MidiMessages : IsNote(m) /\ IsModeButton(m) /\ m[2] = l}
\* The light of button l in mode n
Lit(l, n) == {m \in MidiMessages : (m[3] \div 32) % 2 = 1 <=> l = n}

\* It will be that, as far as its messages are appended.
Shown(l, n) ==
    LastTold(Line, LineLen, NoteStatus, LightsOf(l), Lit(l, n), (l \in leds) <=> (l = n))

\* The lights of mode n from button k on are yet to be appended.
Light(n, l) == Entry(<<144, l, IF l = n THEN 13 + 32 ELSE 13>>, "led", n)
LightsFrom(n, k) ==
    IF k = 2 THEN <<Light(n, 2), Light(n, 3), Light(n, 4)>>
    ELSE IF k = 3 THEN <<Light(n, 3), Light(n, 4)>> ELSE <<Light(n, 4)>>

NoLights(s) ==
    \A i \in DOMAIN s : s[i].purpose # "led" /\ \A l \in 2..4 : s[i].bytes \notin LightsOf(l)

\* The lights are those of the driver's mode, or become those of a mode that will be the
\* driver's once the last of them is appended.
Settled == NoLights(todo[Harvest]) /\ \A l \in 2..4 : Shown(l, ledNote)
Switching ==
    \E n \in 2..4, k \in 2..4 :
        /\ todo[Harvest] = LightsFrom(n, k) /\ ledsQueued
        /\ \A l \in 2..(k - 1) : Shown(l, n)

Requested(s) == \A i \in DOMAIN s : s[i].purpose = "command" /\ s[i].bytes \in Commands

ModeInv ==
    /\ leds \subseteq 2..4 /\ ledNote \in {None} \cup 2..4
    /\ Framed(Line, LineLen, NoteStatus)
    /\ \A t \in Clients : Requested(todo[t])
    /\ ~refused => Settled \/ Switching

\* Clients leave the lights of the modes alone.
LightsApart == Apart(NoteStatus) /\ \A l \in 2..4 : Commands \cap LightsOf(l) = {}

\* The messages of a light are notes.
LEMMA LightMessages ==
    ASSUME NEW l, NEW n
    PROVE  /\ LightsOf(l) \subseteq MidiMessages /\ \A m \in LightsOf(l) : m[1] \in NoteStatus
           /\ ((l \in leds) <=> (l = n)) \in BOOLEAN
           /\ NoteStatus \subseteq 128..255
<1>1. ASSUME NEW m \in LightsOf(l) PROVE m[1] \in NoteStatus
  <2>1. m \in MidiMessages /\ IsNote(m)
    BY DEF LightsOf
  <2>2. m[1] \in Byte
    BY <2>1, MessageBytes DEF Byte
  <2> QED
    BY <2>1, <2>2, Statuses DEF NoteStatus
<1> QED
  BY <1>1 DEF LightsOf, NoteStatus

\* The light of button l, on or off, as a message
LEMMA LightIs ==
    ASSUME NEW n \in 2..4, NEW l \in 2..4
    PROVE  /\ Light(n, l).purpose = "led" /\ Light(n, l).note = n
           /\ Light(n, l).bytes \in LightsOf(l) /\ Light(n, l).bytes \in Lit(l, n)
           /\ Light(n, l).bytes[2] = l
           /\ \A j \in 2..4 : j # l => Light(n, l).bytes \notin LightsOf(j)
<1> DEFINE x == IF l = n THEN 13 + 32 ELSE 13
           b == <<144, l, x>>
<1>1. x \in {13, 45} /\ (x = 45 <=> l = n)
  OBVIOUS
<1>2. x \in 0..127 /\ l \in 0..127 /\ 144 \in 128..255
  BY <1>1
<1>3. x % 16 = 13 /\ ((x \div 32) % 2 = 1 <=> l = n)
  BY <1>1
<1>4. Light(n, l).purpose = "led" /\ Light(n, l).note = n /\ Light(n, l).bytes = b
  BY DEF Light, Entry
<1> HIDE DEF x
<1>5. b \in MidiMessages /\ b[1] = 144 /\ b[2] = l /\ b[3] = x
  BY <1>2 DEF MidiMessages
<1> HIDE DEF b
<1>6. IsNote(b) /\ IsModeButton(b)
  <2>1. (144 \div 16) * 16 = 144
    OBVIOUS
  <2> QED
    BY <1>3, <1>5, <2>1 DEF IsNote, Command, IsModeButton, Group
<1>7. b \in Lit(l, n)
  BY <1>3, <1>5 DEF Lit
<1>8. b \in LightsOf(l) /\ \A j \in 2..4 : j # l => b \notin LightsOf(j)
  BY <1>5, <1>6 DEF LightsOf
<1> QED
  BY <1>4, <1>5, <1>7, <1>8

\* They are appended one by one.
LEMMA LightsInTurn ==
    ASSUME NEW n \in 2..4, NEW k \in 2..4
    PROVE  LET s == LightsFrom(n, k) IN
           /\ s # <<>> /\ Head(s) = Light(n, k)
           /\ IF k = 4 THEN Tail(s) = <<>> ELSE Tail(s) = LightsFrom(n, k + 1)
<1> DEFINE a == Light(n, 2)
           b == Light(n, 3)
           c == Light(n, 4)
<1>1. ASSUME NEW x, NEW y, NEW z
      PROVE  /\ <<x, y, z>> # <<>> /\ Head(<<x, y, z>>) = x /\ Tail(<<x, y, z>>) = <<y, z>>
             /\ <<y, z>> # <<>> /\ Head(<<y, z>>) = y /\ Tail(<<y, z>>) = <<z>>
             /\ <<z>> # <<>> /\ Head(<<z>>) = z /\ Tail(<<z>>) = <<>>
  <2> DEFINE S == {x, y, z}
  <2>1. <<x, y, z>> \in Seq(S) /\ <<y, z>> \in Seq(S) /\ <<z>> \in Seq(S)
    OBVIOUS
  <2>2. /\ Tail(<<x, y, z>>) \in Seq(S) /\ Len(Tail(<<x, y, z>>)) = 2
        /\ Tail(<<x, y, z>>)[1] = y /\ Tail(<<x, y, z>>)[2] = z
    OBVIOUS
  <2>3. /\ Tail(<<y, z>>) \in Seq(S) /\ Len(Tail(<<y, z>>)) = 1 /\ Tail(<<y, z>>)[1] = z
        /\ Tail(<<z>>) \in Seq(S) /\ Len(Tail(<<z>>)) = 0
    OBVIOUS
  <2> HIDE DEF S
  <2> DEFINE s == Tail(<<x, y, z>>)
             u == Tail(<<y, z>>)
             v == Tail(<<z>>)
  <2>4. s = <<s[1], s[2]>> /\ s[1] = y /\ s[2] = z
    <3>1. s \in Seq(S) /\ Len(s) = 2 /\ s[1] = y /\ s[2] = z
      BY <2>2
    <3> HIDE DEF s
    <3> QED
      BY <3>1, ShortSequences
  <2>5. u = <<u[1]>> /\ u[1] = z
    <3>1. u \in Seq(S) /\ Len(u) = 1 /\ u[1] = z
      BY <2>3
    <3> HIDE DEF u
    <3> QED
      BY <3>1, ShortSequences
  <2>6. v = <<>>
    <3>1. v \in Seq(S) /\ Len(v) = 0
      BY <2>3
    <3> HIDE DEF v
    <3> QED
      BY <3>1, EmptySeq
  <2>7. s = <<y, z>> /\ u = <<z>> /\ v = <<>>
    <3> HIDE DEF s, u, v
    <3> QED
      BY <2>4, <2>5, <2>6, Zenon
  <2> QED
    BY <2>7
<1>2. k = 2 \/ k = 3 \/ k = 4
  OBVIOUS
<1>3. 2 + 1 = 3 /\ 3 + 1 = 4
  OBVIOUS
<1> QED
  BY <1>1, <1>2, <1>3 DEF LightsFrom

\* Nothing that is no light, and nothing that follows something that is no light.
LEMMA NoLightsJoined ==
    ASSUME NEW s \in Seq(Entries), NEW u \in Seq(Entries), NoLights(s), NoLights(u)
    PROVE  NoLights(s \o u)
<1> DEFINE a == s \o u
<1>1. /\ a \in Seq(Entries) /\ Len(a) = Len(s) + Len(u)
      /\ \A i \in 1..(Len(s) + Len(u)) :
             a[i] = IF i <= Len(s) THEN s[i] ELSE u[i - Len(s)]
  BY ConcatProperties, Zenon
<1>2. /\ DOMAIN a = 1..Len(a) /\ DOMAIN s = 1..Len(s) /\ DOMAIN u = 1..Len(u)
      /\ Len(s) \in Nat /\ Len(u) \in Nat
  BY <1>1, LenProperties
<1> HIDE DEF a
<1>3. ASSUME NEW i \in DOMAIN a
      PROVE  (\E j \in DOMAIN s : a[i] = s[j]) \/ (\E j \in DOMAIN u : a[i] = u[j])
  <2>1. CASE i <= Len(s)
    BY <1>1, <1>2, <2>1
  <2>2. CASE ~(i <= Len(s))
    <3>1. i - Len(s) \in DOMAIN u /\ a[i] = u[i - Len(s)]
      BY <1>1, <1>2, <2>2
    <3> QED
      BY <3>1
  <2> QED
    BY <2>1, <2>2
<1>4. NoLights(a)
  BY <1>3 DEF NoLights
<1> QED
  BY <1>4 DEF a

\* An append that is no light
LEMMA NoLightsOne ==
    ASSUME NEW bytes \in OutgoingBytes, NEW purpose \in Purposes \ {"led"}, NEW note \in {None} \cup 2..4,
           ~(IsNote(bytes) /\ IsModeButton(bytes))
    PROVE  NoLights(<<Entry(bytes, purpose, note)>>)
<1> DEFINE e == Entry(bytes, purpose, note)
<1>1. e.purpose = purpose /\ e.bytes = bytes
  BY DEF Entry
<1> HIDE DEF e
<1>2. ASSUME NEW i \in DOMAIN <<e>> PROVE <<e>>[i] = e
  OBVIOUS
<1>3. \A l \in 2..4 : e.bytes \notin LightsOf(l)
  BY <1>1 DEF LightsOf
<1>4. NoLights(<<e>>)
  BY <1>1, <1>2, <1>3 DEF NoLights
<1> QED
  BY <1>4 DEF e

\* A message of the controls makes the harvest append the lights of a mode, or no lights.
LEMMA AnswerLights ==
    ASSUME Strips = 0..7, Handed, NEW m \in Controls
    PROVE  LET a == MappedAppends(m) \o FeedbackAppends(m) IN
           NoLights(a) \/ \E n \in 2..4 : a = LightsFrom(n, 2)
<1> DEFINE first == MappedAppends(m)
           rest == FeedbackAppends(m)
           c == Channel(m)
<1>1. m \in MidiMessages /\ c \in Strips /\ m \in OutgoingBytes
  BY ControlsMessages, ChannelIsStrip DEF OutgoingBytes
<1>2. m[1] \in Byte /\ m[2] \in Nat /\ m[3] \in Nat
  BY <1>1, MessageBytes DEF Byte
<1>3. NoLights(<<>>)
  BY DEF NoLights
<1>4. \A b : Command(b) = 176 => ~IsNote(b)
  BY DEF IsNote
<1>5. first \in Seq(Entries) /\ NoLights(first)
  <2>1. CASE MotorTest(m)
    <3> DEFINE target == IF toggle[c] THEN 256 ELSE 768
               b == MotorTarget(c, target)
    <3>1. first = <<Entry(b, "motor", None)>>
      BY <2>1 DEF MappedAppends
    <3>2. b \in OutgoingBytes
      BY <1>1 DEF OutgoingBytes, MotorTargets
    <3>3. Command(b) = 176
      <4>1. b[1] = 176 /\ (176 \div 16) * 16 = 176
        BY DEF MotorTarget
      <4> QED
        BY <4>1 DEF Command
    <3> HIDE DEF b, first
    <3>4. ~IsNote(b)
      BY <1>4, <3>3
    <3> QED
      BY <3>1, <3>2, <3>4, NoLightsOne, EntryTyped DEF Purposes
  <2>2. CASE ~MotorTest(m) /\ Release(m) /\ faderMove[c] # None
    <3> DEFINE b == faderMove[c]
    <3>1. first = <<Entry(b, "fader", None)>>
      BY <2>2 DEF MappedAppends
    <3>2. b \in OutgoingBytes /\ Command(b) = 176
      BY <1>1, <2>2 DEF Handed, Moved, OutgoingBytes, IsFaderMove
    <3> HIDE DEF b, first
    <3>3. ~IsNote(b)
      BY <1>4, <3>2
    <3> QED
      BY <3>1, <3>2, <3>3, NoLightsOne, EntryTyped DEF Purposes
  <2>3. CASE ~MotorTest(m) /\ ~(Release(m) /\ faderMove[c] # None)
    <3>1. first = <<>>
      BY <2>3, Zenon DEF MappedAppends
    <3> HIDE DEF first
    <3> QED
      BY <1>3, <3>1
  <2> QED
    BY <2>1, <2>2, <2>3
<1>6. CASE IsFaderMove(m)
  <2>1. rest = <<>> \/ rest = <<Entry(m, "fader", None)>>
    BY <1>6, Zenon DEF FeedbackAppends
  <2>2. ~IsNote(m)
    BY <1>4, <1>6 DEF IsFaderMove
  <2> HIDE DEF first, rest
  <2>3. rest \in Seq(Entries) /\ NoLights(rest)
    <3> DEFINE one == <<Entry(m, "fader", None)>>
    <3>1. one \in Seq(Entries)
      BY <1>1, EntryTyped DEF Purposes
    <3>2. NoLights(one)
      BY <1>1, <2>2, NoLightsOne DEF Purposes
    <3>3. rest = <<>> \/ rest = one
      BY <2>1
    <3>4. <<>> \in Seq(Entries)
      OBVIOUS
    <3> HIDE DEF one
    <3> QED
      BY <1>3, <3>1, <3>2, <3>3, <3>4, Zenon
  <2> QED
    BY <1>5, <2>3, NoLightsJoined DEF first, rest
<1>7. CASE ~IsFaderMove(m) /\ ~(IsNote(m) /\ IsModeButton(m))
  <2>1. rest = <<>> \/ rest = <<Entry(m, "echo", None)>>
    BY <1>7, Zenon DEF FeedbackAppends
  <2> HIDE DEF first, rest
  <2>2. rest \in Seq(Entries) /\ NoLights(rest)
    <3> DEFINE one == <<Entry(m, "echo", None)>>
    <3>1. one \in Seq(Entries)
      BY <1>1, EntryTyped DEF Purposes
    <3>2. NoLights(one)
      BY <1>1, <1>7, NoLightsOne DEF Purposes
    <3>3. rest = <<>> \/ rest = one
      BY <2>1
    <3>4. <<>> \in Seq(Entries)
      OBVIOUS
    <3> HIDE DEF one
    <3> QED
      BY <1>3, <3>1, <3>2, <3>3, <3>4, Zenon
  <2> QED
    BY <1>5, <2>2, NoLightsJoined DEF first, rest
<1>8. CASE ~IsFaderMove(m) /\ IsNote(m) /\ IsModeButton(m)
  <2>1. Group(m) = 13 /\ m[2] \in 2..4
    BY <1>8 DEF IsModeButton
  <2>2. first = <<>>
    BY <2>1 DEF MappedAppends, MotorTest, Release, IsStripNote
  <2>3. rest = <<>> \/ rest = ModeLeds(m[2])
    BY <1>8, <2>1 DEF FeedbackAppends, IsKeptSilent
  <2>4. ModeLeds(m[2]) = LightsFrom(m[2], 2)
    <3> DEFINE n == m[2]
               f(i) == Entry(<<144, i + 1, IF i + 1 = n THEN 13 + 32 ELSE 13>>, "led", n)
    <3>1. f(1) = Light(n, 2) /\ f(2) = Light(n, 3) /\ f(3) = Light(n, 4)
      BY DEF Light
    <3>2. ModeLeds(n) = [i \in 1..3 |-> f(i)]
      BY DEF ModeLeds
    <3> HIDE DEF f, n
    <3>3. [i \in 1..3 |-> f(i)] = <<f(1), f(2), f(3)>>
      OBVIOUS
    <3>4. LightsFrom(n, 2) = <<f(1), f(2), f(3)>>
      BY <3>1 DEF LightsFrom
    <3> QED
      BY <3>2, <3>3, <3>4 DEF n
  <2>5. rest \in Seq(Entries)
    BY FeedbackTyped
  <2> HIDE DEF first, rest
  <2>6. first \o rest = rest
    BY <2>2, <2>5, ConcatEmptySeq
  <2>7. NoLights(rest) \/ \E n \in 2..4 : rest = LightsFrom(n, 2)
    BY <1>3, <2>1, <2>3, <2>4
  <2> QED
    BY <2>6, <2>7 DEF first, rest
<1> QED
  BY <1>6, <1>7, <1>8

\* What is appended after the first
LEMMA Rest ==
    ASSUME NEW s \in Seq(Entries), s # <<>>
    PROVE  /\ 1 \in DOMAIN s /\ s[1] = Head(s) /\ Tail(s) \in Seq(Entries)
           /\ NoLights(s) => NoLights(Tail(s))
           /\ Requested(s) => Requested(Tail(s))
<1> DEFINE u == Tail(s)
<1>1. /\ u \in Seq(Entries) /\ Len(u) = Len(s) - 1 /\ \A i \in 1..Len(u) : u[i] = s[i + 1]
      /\ 1 \in DOMAIN s /\ s[1] = Head(s) /\ Len(s) \in Nat
  BY HeadTailProperties, LenProperties
<1>2. DOMAIN u = 1..Len(u) /\ DOMAIN s = 1..Len(s)
  BY <1>1, LenProperties
<1> HIDE DEF u
<1>3. ASSUME NEW i \in DOMAIN u PROVE i + 1 \in DOMAIN s /\ u[i] = s[i + 1]
  BY <1>1, <1>2
<1>4. (NoLights(s) => NoLights(u)) /\ (Requested(s) => Requested(u))
  BY <1>3 DEF NoLights, Requested
<1> QED
  BY <1>1, <1>4 DEF u

\* At the beginning no light is on, and the driver believes in no mode.
LEMMA ModeStarts == Init => ModeInv
<1> SUFFICES ASSUME Init PROVE ModeInv
  OBVIOUS
<1>1. Framed(Line, LineLen, NoteStatus) /\ LineLen = 1
  BY LineStarts
<1>2. ASSUME NEW i \in 1..1 PROVE ~Begins(Line, NoteStatus, i)
  <2>1. ~(i < 1)
    OBVIOUS
  <2> QED
    BY <1>1, <2>1 DEF Framed, Begun
<1>3. ASSUME NEW l \in 2..4 PROVE Shown(l, ledNote)
  <2>1. l \notin leds /\ l # ledNote
    <3>1. l \in Byte
      BY DEF Byte
    <3> QED
      BY <3>1, Surface DEF Init
  <2> QED
    BY <1>1, <1>2, <2>1 DEF Shown, LastTold
<1>4. \A t \in Threads : todo[t] = <<>>
  BY DEF Init
<1>5. Harvest \in Threads /\ Clients \subseteq Threads
  BY DEF Threads
<1>6. NoLights(<<>>) /\ Requested(<<>>)
  BY DEF NoLights, Requested
<1> QED
  BY <1>1, <1>3, <1>4, <1>5, <1>6 DEF Init, ModeInv, Settled

\* What an append that ended makes of a light
LEMMA EndedShows ==
    ASSUME Strips = 0..7, ServedInv, NEW t \in Threads, Ended(t),
           Apart(NoteStatus), Framed(Line, LineLen, NoteStatus), NEW l, NEW n,
           IF Head(todo[t]).bytes \in LightsOf(l) THEN Head(todo[t]).bytes \in Lit(l, n)
                                                  ELSE Shown(l, n)
    PROVE  Shown(l, n)'
<1> DEFINE K == LightsOf(l)
           G == Lit(l, n)
           now == (l \in leds) <=> (l = n)
<1>1. K \subseteq MidiMessages /\ (\A m \in K : m[1] \in NoteStatus) /\ now \in BOOLEAN
      /\ NoteStatus \subseteq 128..255
  BY LightMessages
<1>2. IF Head(todo[t]).bytes \in K THEN Head(todo[t]).bytes \in G
                                   ELSE LastTold(Line, LineLen, NoteStatus, K, G, now)
  BY DEF Shown
<1>3. leds' = leds
  BY DEF Ended, Elsewhere, console
<1> HIDE DEF K, G, now
<1>4. LastTold(Line', LineLen', NoteStatus, K, G, now)
  BY <1>1, <1>2, EndedTells
<1> QED
  BY <1>3, <1>4 DEF Shown, K, G, now

\* An append that ended
LEMMA EndedModes ==
    ASSUME Strips = 0..7, LightsApart, ServedInv, ModeInv,
           NEW t \in Threads \ {Push}, Ended(t)
    PROVE  ModeInv'
<1> DEFINE e == Head(todo[t])
           b == e.bytes
<1>1. /\ UNCHANGED <<leds, refused, ledsQueued>>
      /\ todo' = [todo EXCEPT ![t] = Tail(@)]
      /\ ledNote' = IF e.purpose = "led" /\ b[2] = 4 /\ ledsQueued THEN e.note ELSE ledNote
  BY DEF Ended, Queued, Elsewhere, console
<1>2. Apart(NoteStatus) /\ Framed(Line, LineLen, NoteStatus)
  BY DEF LightsApart, ModeInv
<1>3. Framed(Line', LineLen', NoteStatus)
  BY <1>2, EndedFrames, LightMessages
<1>4. todo \in [Threads -> Seq(Entries)] /\ todo[t] \in Seq(Entries) /\ todo[t] # <<>>
  BY DEF ServedInv, SurfaceInv, Handed, Ended
<1>5. /\ 1 \in DOMAIN todo[t] /\ todo[t][1] = e /\ e \in Entries
      /\ NoLights(todo[t]) => NoLights(Tail(todo[t]))
      /\ Requested(todo[t]) => Requested(Tail(todo[t]))
  BY <1>4, Rest
<1>6. ASSUME NEW l \in 2..4, NEW n, IF b \in LightsOf(l) THEN b \in Lit(l, n) ELSE Shown(l, n)
      PROVE  Shown(l, n)'
  BY <1>2, <1>6, EndedShows
<1> HIDE DEF e
<1>7. ledNote' \in {None} \cup 2..4
  BY <1>1, <1>5 DEF Entries, ModeInv
<1>8. ASSUME NEW u \in Clients PROVE Requested(todo'[u])
  <2>1. u \in Threads
    BY DEF Threads
  <2> QED
    BY <1>1, <1>4, <1>5, <2>1 DEF ModeInv
<1>9. Harvest \in Threads /\ (t # Harvest => t \in Clients)
  BY DEF Threads
<1>10. ASSUME e.purpose # "led", \A l \in 2..4 : b \notin LightsOf(l), Settled,
              NoLights(todo'[Harvest])
       PROVE  Settled'
  <2>1. PICK v : v = ledNote
    OBVIOUS
  <2>2. ledNote' = v
    BY <1>1, <1>10, <2>1
  <2>3. ASSUME NEW l \in 2..4 PROVE Shown(l, v)'
    BY <1>6, <1>10, <2>1 DEF Settled
  <2> QED
    BY <1>10, <2>2, <2>3 DEF Settled, Shown
<1>11. CASE t # Harvest
  <2>1. e.purpose = "command" /\ b \in Commands
    BY <1>5, <1>9, <1>11 DEF ModeInv, Requested
  <2>2. todo'[Harvest] = todo[Harvest]
    BY <1>1, <1>4, <1>9, <1>11
  <2>3. \A l \in 2..4 : b \notin LightsOf(l)
    BY <2>1 DEF LightsApart
  <2>4. Settled => Settled'
    BY <1>10, <2>1, <2>2, <2>3 DEF Settled
  <2>5. ASSUME Switching PROVE Switching'
    <3>1. PICK n \in 2..4, k \in 2..4 :
              /\ todo[Harvest] = LightsFrom(n, k) /\ ledsQueued
              /\ \A l \in 2..(k - 1) : Shown(l, n)
      BY <2>5 DEF Switching
    <3>2. ASSUME NEW l \in 2..(k - 1) PROVE Shown(l, n)'
      <4>1. l \in 2..4
        OBVIOUS
      <4> QED
        BY <1>6, <2>3, <3>1, <4>1
    <3> QED
      BY <1>1, <2>2, <3>1, <3>2 DEF Switching
  <2> QED
    BY <1>1, <1>3, <1>7, <1>8, <2>4, <2>5 DEF ModeInv
<1>12. CASE t = Harvest
  <2>1. todo'[Harvest] = Tail(todo[Harvest])
    BY <1>1, <1>4, <1>9, <1>12
  <2>2. ASSUME Settled PROVE Settled'
    <3>1. e.purpose # "led" /\ \A l \in 2..4 : b \notin LightsOf(l)
      BY <1>5, <1>12, <2>2 DEF Settled, NoLights
    <3>2. NoLights(todo'[Harvest])
      BY <1>5, <1>12, <2>1, <2>2 DEF Settled
    <3> QED
      BY <1>10, <2>2, <3>1, <3>2
  <2>3. ASSUME Switching PROVE Settled' \/ Switching'
    <3>1. PICK n \in 2..4, k \in 2..4 :
              /\ todo[Harvest] = LightsFrom(n, k) /\ ledsQueued
              /\ \A l \in 2..(k - 1) : Shown(l, n)
      BY <2>3 DEF Switching
    <3>2. /\ e = Light(n, k)
          /\ IF k = 4 THEN todo'[Harvest] = <<>> ELSE todo'[Harvest] = LightsFrom(n, k + 1)
      <4> DEFINE s == LightsFrom(n, k)
      <4>1. Head(s) = Light(n, k) /\ IF k = 4 THEN Tail(s) = <<>> ELSE Tail(s) = LightsFrom(n, k + 1)
        BY LightsInTurn
      <4>2. e = Head(s) /\ todo'[Harvest] = Tail(s)
        BY <1>12, <2>1, <3>1 DEF e
      <4> HIDE DEF s
      <4> QED
        BY <4>1, <4>2
    <3>3. /\ e.purpose = "led" /\ e.note = n /\ b \in LightsOf(k) /\ b \in Lit(k, n) /\ b[2] = k
          /\ \A j \in 2..4 : j # k => b \notin LightsOf(j)
      BY <3>2, LightIs
    <3>4. ASSUME NEW l \in 2..k PROVE Shown(l, n)'
      <4>1. l \in 2..4
        OBVIOUS
      <4>2. CASE l = k
        BY <1>6, <3>3, <4>1, <4>2
      <4>3. CASE l # k
        <5>1. l \in 2..(k - 1)
          BY <4>3
        <5> QED
          BY <1>6, <3>1, <3>3, <4>1, <4>3, <5>1
      <4> QED
        BY <4>2, <4>3
    <3>5. CASE k = 4
      <4>1. ledNote' = n /\ todo'[Harvest] = <<>>
        BY <1>1, <3>1, <3>2, <3>3, <3>5
      <4>2. \A l \in 2..4 : Shown(l, n)'
        BY <3>4, <3>5
      <4>3. NoLights(<<>>)
        BY DEF NoLights
      <4> QED
        BY <4>1, <4>2, <4>3 DEF Settled, Shown
    <3>6. CASE k # 4
      <4> DEFINE next == k + 1
      <4>1. next \in 2..4 /\ next - 1 = k
        BY <3>6
      <4>2. todo'[Harvest] = LightsFrom(n, next) /\ ledsQueued'
        BY <1>1, <3>1, <3>2, <3>6
      <4> HIDE DEF next
      <4>3. \A l \in 2..(next - 1) : Shown(l, n)'
        BY <3>4, <4>1
      <4> QED
        BY <4>1, <4>2, <4>3 DEF Switching
    <3> QED
      BY <3>5, <3>6
  <2> QED
    BY <1>1, <1>3, <1>7, <1>8, <2>2, <2>3 DEF ModeInv
<1> QED
  BY <1>11, <1>12

\* A word that was popped
LEMMA PoppedModes ==
    ASSUME ServedInv, ModeInv, Popped
    PROVE  ModeInv'
<1> DEFINE m == Assemble(heard, queue[readIndex].bytes).message
           switch == m # <<>> /\ IsNote(m) /\ IsModeButton(m)
           bright == (m[3] \div 32) % 2 = 1
<1>1. /\ UNCHANGED <<todo, refused, ledNote, ledsQueued>>
      /\ leds' = IF ~switch THEN leds
                 ELSE IF bright THEN leds \cup {m[2]} ELSE leds \ {m[2]}
  BY DEF Popped, HearWord, feedback, history
<1>2. /\ Framed(Line', LineLen', NoteStatus)
      /\ \/ m = <<>> \/ (m \in MidiMessages /\ m[1] \in NoteStatus)
         \/ m[1] \in Byte \ NoteStatus
  BY PoppedHears, LightMessages DEF ModeInv
<1>3. switch => m \in MidiMessages /\ m[2] \in 2..4
  BY <1>2, Statuses DEF IsModeButton, NoteStatus
<1>4. <<>> \notin MidiMessages
  BY MessageBytes
<1> HIDE DEF m
<1>5. leds' \subseteq 2..4
  BY <1>1, <1>3 DEF ModeInv
<1>6. ASSUME NEW l \in 2..4, NEW n, Shown(l, n) PROVE Shown(l, n)'
  <2> DEFINE K == LightsOf(l)
             G == Lit(l, n)
             now == (l \in leds) <=> (l = n)
             after == (l \in leds') <=> (l = n)
  <2>1. K \subseteq MidiMessages /\ (\A x \in K : x[1] \in NoteStatus) /\ now \in BOOLEAN
        /\ after \in BOOLEAN /\ NoteStatus \subseteq 128..255
    BY LightMessages
  <2>2. IF m \in K THEN after <=> m \in G ELSE after <=> now
    <3>1. CASE m \in K
      <4>1. switch /\ m[2] = l /\ m \in MidiMessages
        BY <1>4, <3>1 DEF LightsOf
      <4>2. l \in leds' <=> bright
        BY <1>1, <4>1
      <4>3. m \in G <=> (bright <=> l = n)
        BY <4>1 DEF Lit
      <4> QED
        BY <3>1, <4>2, <4>3
    <3>2. CASE m \notin K
      <4>1. ~(switch /\ m[2] = l)
        BY <1>3, <3>2 DEF LightsOf
      <4>2. l \in leds' <=> l \in leds
        BY <1>1, <4>1
      <4> QED
        BY <3>2, <4>2
    <3> QED
      BY <3>1, <3>2
  <2>3. /\ Framed(Line, LineLen, NoteStatus)
        /\ LastTold(Line, LineLen, NoteStatus, K, G, now)
    BY <1>6 DEF ModeInv, Shown
  <2> HIDE DEF K, G, now, after
  <2>4. LastTold(Line', LineLen', NoteStatus, K, G, after)
    BY <2>1, <2>2, <2>3, PoppedTells DEF m
  <2> QED
    BY <2>4 DEF Shown, K, G, after
<1>7. ASSUME Settled PROVE Settled'
  <2>1. PICK v : v = ledNote
    OBVIOUS
  <2>2. ASSUME NEW l \in 2..4 PROVE Shown(l, v)'
    BY <1>6, <1>7, <2>1 DEF Settled
  <2>3. ledNote' = v
    BY <1>1, <2>1
  <2> QED
    BY <1>1, <1>7, <2>2, <2>3 DEF Settled, Shown
<1>8. ASSUME Switching PROVE Switching'
  <2>1. PICK n \in 2..4, k \in 2..4 :
            /\ todo[Harvest] = LightsFrom(n, k) /\ ledsQueued
            /\ \A l \in 2..(k - 1) : Shown(l, n)
    BY <1>8 DEF Switching
  <2>2. ASSUME NEW l \in 2..(k - 1) PROVE Shown(l, n)'
    <3>1. l \in 2..4
      OBVIOUS
    <3> QED
      BY <1>6, <2>1, <3>1
  <2> QED
    BY <1>1, <2>1, <2>2 DEF Switching
<1> QED
  BY <1>1, <1>2, <1>5, <1>7, <1>8 DEF ModeInv

\* Lights stay what they are while nothing that counts changes.
LEMMA ShownSame ==
    ASSUME SameWait, NEW l, NEW n
    PROVE  Shown(l, n)' <=> Shown(l, n)
  BY SameLine DEF SameWait, console, Shown

\* A message of the controls
LEMMA ObservedModes ==
    ASSUME Strips = 0..7, ServedInv, ModeInv, Observed
    PROVE  ModeInv'
<1> DEFINE m == Assembled(ControlPort).message
           a == MappedAppends(m) \o FeedbackAppends(m)
<1>1. /\ todo[Harvest] = <<>> /\ m # <<>> /\ sending[ControlPort].fragments # <<>>
      /\ ObserveControls(m) /\ SameWait
  BY DEF Observed, ReceiveControl, Decode, TakeFragment
<1>2. m \in Controls
  BY <1>1, ControlMessage DEF ServedInv, SurfaceInv
<1>3. /\ todo' = [todo EXCEPT ![Harvest] = a] /\ ledsQueued'
      /\ UNCHANGED <<ledNote, refused, leds>>
  BY <1>1 DEF ObserveControls, SameWait, console
<1>4. NoLights(a) \/ \E n \in 2..4 : a = LightsFrom(n, 2)
  BY <1>2, AnswerLights DEF ServedInv, SurfaceInv
<1> HIDE DEF m, a
<1>5. /\ todo \in [Threads -> Seq(Entries)] /\ Harvest \in Threads /\ Clients \subseteq Threads
      /\ Harvest \notin Clients
  BY QueueAssumption DEF ServedInv, SurfaceInv, Handed, Threads
<1>6. todo'[Harvest] = a /\ \A t \in Clients : todo'[t] = todo[t]
  BY <1>3, <1>5
<1>7. Framed(Line', LineLen', NoteStatus)
  BY <1>1, SameLine DEF ModeInv
<1>8. ~Switching
  <2>1. ASSUME NEW n \in 2..4, NEW k \in 2..4 PROVE LightsFrom(n, k) # <<>>
    BY LightsInTurn
  <2> QED
    BY <1>1, <2>1 DEF Switching
<1>9. ASSUME ~refused PROVE Settled' \/ Switching'
  <2>1. PICK v : v = ledNote
    OBVIOUS
  <2>2. \A l \in 2..4 : Shown(l, v)'
    BY <1>1, <1>8, <1>9, <2>1, ShownSame DEF ModeInv, Settled
  <2>3. ledNote' = v
    BY <1>3, <2>1
  <2>4. CASE NoLights(a)
    BY <1>6, <2>2, <2>3, <2>4 DEF Settled, Shown
  <2>5. CASE \E n \in 2..4 : a = LightsFrom(n, 2)
    <3>1. PICK n \in 2..4 : a = LightsFrom(n, 2)
      BY <2>5
    <3>2. 2 \in 2..4 /\ 2..(2 - 1) = {}
      OBVIOUS
    <3> QED
      BY <1>3, <1>6, <3>1, <3>2 DEF Switching
  <2> QED
    BY <1>4, <2>4, <2>5
<1> QED
  BY <1>3, <1>6, <1>7, <1>9 DEF ModeInv

\* Whatever does not concern lights
LEMMA OtherwiseModes ==
    ASSUME ModeInv, SameWait, ledNote' = ledNote, \A t \in Clients : Requested(todo'[t]),
           \/ UNCHANGED <<ledsQueued, refused>> /\ todo'[Harvest] = todo[Harvest]
           \/ refused'
    PROVE  ModeInv'
<1>1. Line' = Line /\ LineLen' = LineLen /\ leds' = leds
  BY SameLine DEF SameWait, console
<1>2. ASSUME UNCHANGED ledsQueued /\ todo'[Harvest] = todo[Harvest]
      PROVE  (Settled => Settled') /\ (Switching => Switching')
  <2>1. PICK v : v = ledNote
    OBVIOUS
  <2>2. \A l : Shown(l, v)' <=> Shown(l, v)
    BY ShownSame
  <2>3. \A l, n : Shown(l, n)' <=> Shown(l, n)
    BY ShownSame
  <2>4. Settled => Settled'
    BY <1>1, <1>2 DEF Settled, Shown
  <2>5. Switching => Switching'
    BY <1>2, <2>3 DEF Switching
  <2> QED
    BY <2>4, <2>5
<1> QED
  BY <1>1, <1>2 DEF ModeInv

\* The invariant is inductive.
LEMMA ModeInductive ==
    ASSUME Strips = 0..7, Outgoing \subseteq Message, LightsApart
    PROVE  ServedInv /\ ServedInv' /\ ModeInv /\ [Next]_vars => ModeInv'
<1> SUFFICES ASSUME ServedInv, ServedInv', ModeInv, [Next]_vars PROVE ModeInv'
  OBVIOUS
<1>1. StepOfWords
  BY StepsOfWords
<1>2. /\ todo \in [Threads -> Seq(Entries)] /\ Harvest \in Threads /\ Clients \subseteq Threads
      /\ Harvest \notin Clients
  BY QueueAssumption DEF ServedInv, SurfaceInv, Handed, Threads
<1>3. ASSUME NEW t \in Threads \ {Push}, Ended(t) PROVE ModeInv'
  BY <1>3, EndedModes
<1>4. ASSUME NEW t \in Threads, Failed(t) PROVE ModeInv'
  <2>1. /\ refused' /\ SameWait /\ ledNote' = ledNote
        /\ todo' = [todo EXCEPT ![t] = Tail(@)] /\ todo[t] # <<>>
    BY <1>4 DEF Failed, NotQueued
  <2>2. Requested(todo[t]) => Requested(Tail(todo[t]))
    BY <1>2, <2>1, Rest
  <2>3. \A u \in Clients : Requested(todo'[u])
    BY <1>2, <2>1, <2>2 DEF ModeInv
  <2> QED
    BY <2>1, <2>3, OtherwiseModes
<1>5. ASSUME NEW t \in Clients, Commanded(t) PROVE ModeInv'
  <2>1. PICK b \in Commands : BeginCommand(t, b) /\ SameWait
    BY <1>5 DEF Commanded
  <2> DEFINE e == Entry(b, "command", None)
  <2>2. todo' = [todo EXCEPT ![t] = <<e>>] /\ UNCHANGED <<ledNote, ledsQueued, refused>>
    BY <2>1 DEF BeginCommand, feedback, history
  <2>3. Requested(<<e>>)
    BY DEF Requested, Entry
  <2> HIDE DEF e
  <2>4. todo'[Harvest] = todo[Harvest]
    BY <1>2, <2>2
  <2>5. \A u \in Clients : Requested(todo'[u])
    BY <1>2, <2>2, <2>3 DEF ModeInv
  <2> QED
    BY <2>1, <2>2, <2>4, <2>5, OtherwiseModes
<1>6. ASSUME Passed PROVE ModeInv'
  BY <1>6, OtherwiseModes DEF Passed, feedback, history, ModeInv
<1> QED
  BY <1>1, <1>3, <1>4, <1>5, <1>6, PoppedModes, ObservedModes DEF StepOfWords

(* When everything queued has been sent and no append failed, the console    *)
(* shows the mode the driver believes in and no other, provided that clients *)
(* leave the lights of the modes alone.                                      *)
THEOREM OneModeLitHolds ==
    ASSUME Strips = 0..7, Outgoing \subseteq Message, LightsApart
    PROVE  Spec => []OneModeLit
<1>1. ServedInv /\ ModeInv => OneModeLit
  <2> SUFFICES ASSUME ServedInv, ModeInv, Quiet, ~refused PROVE leds = {ledNote} \ {None}
    BY DEF OneModeLit
  <2>1. LineLen = 1
    BY QuietLine
  <2>2. ~Switching
    <3>1. ASSUME NEW n \in 2..4, NEW k \in 2..4 PROVE LightsFrom(n, k) # <<>>
      BY LightsInTurn
    <3>2. todo[Harvest] = <<>>
      BY DEF Quiet, Threads
    <3> QED
      BY <3>1, <3>2 DEF Switching
  <2>3. ASSUME NEW l \in 2..4 PROVE l \in leds <=> l = ledNote
    <3> DEFINE now == (l \in leds) <=> (l = ledNote)
    <3>1. /\ LastTold(Line, 1, NoteStatus, LightsOf(l), Lit(l, ledNote), now)
          /\ Framed(Line, 1, NoteStatus) /\ now \in BOOLEAN
      BY <2>1, <2>2 DEF ModeInv, Settled, Shown
    <3> HIDE DEF now
    <3>2. now
      BY <3>1, NothingWaits
    <3> QED
      BY <3>2 DEF now
  <2>4. None \notin 2..4
    BY Surface DEF Byte
  <2> QED
    BY <2>3, <2>4 DEF ModeInv
<1>2. Spec => []ServedInv
  BY ServedHolds
<1>3. ServedInv /\ ServedInv' /\ ModeInv /\ [Next]_vars => ModeInv'
  BY ModeInductive
<1> QED
  BY <1>1, <1>2, <1>3, ModeStarts, PTL DEF Spec
=============================================================================
