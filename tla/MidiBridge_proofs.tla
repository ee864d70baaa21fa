------------------------- MODULE MidiBridge_proofs -------------------------
(* Proofs about MidiBridge, for any channels, ring, queue, delays and scenes: *)
(* the fader and the lights the driver is told of are those the bridge keeps, *)
(* the messages of the console are forwarded once and in order, and the       *)
(* lights the bridge keeps are the host's.                                    *)
EXTENDS MidiBridge, SequenceTheorems, NaturalsInduction, WellFoundedInduction, TLAPS

Steps == {"setup", "start", "clear", "count", "index", "recent", "data", "forward", "drain",
          "relatch", "sync", "snapshot", "sleep", "done"}

MainTyped ==
    /\ main \in [pc: Steps, todo: SUBSET Channels, count: Nat, index: Nat, recent: 0..RingSize,
                 news: Seq(Entry \cup {None}), left: Nat]
    /\ lastCount \in Nat
    /\ MainAt("data") => lastCount < main.count
    /\ MainAt("snapshot") => main.todo # {}

ConsoleTyped ==
    /\ log \in Seq(Entry) /\ moves \in Nat
    /\ inbox \in Seq(Entry) /\ forwarded \in Seq(Nat)
    /\ torn \in BOOLEAN /\ gap \in BOOLEAN

HostTyped ==
    /\ scene \in Scenes
    /\ hostOut \in Seq(HostMessage)
    /\ hostLed \in [Channels -> BOOLEAN] /\ hostFader \in Nat \cup {None}

CallbackTyped ==
    /\ cb \in [pc: {"idle", "state", "due", "queue"}, msg: HostMessage]
    /\ cb.pc \in {"state", "due"} => IsNote(cb.msg)
    /\ queue \in Seq(HostMessage)
    /\ fader \in Position \cup {None} /\ toldFader \in Nat \cup {None} /\ faderLost \in BOOLEAN

LightsTyped ==
    /\ active \in [Channels -> BOOLEAN] /\ told \in [Channels -> BOOLEAN]
    /\ unsure \subseteq Channels
    /\ sync \in Nat /\ hold \in Nat

Typed == MainTyped /\ ConsoleTyped /\ HostTyped /\ CallbackTyped /\ LightsTyped

-----------------------------------------------------------------------------
(* Types *)

\* What the constants are.
LEMMA Constants ==
    /\ RingSize \in Nat \ {0} /\ QueueCap \in Nat \ {0} /\ FaderStep \in Nat \ {0}
    /\ DrainPerPoll \in Nat \ {0}
    /\ SyncDelay \in Nat /\ StartupHold \in Nat /\ FaderGap \in Nat
    /\ Channels \subseteq Nat /\ Channels # {}
    /\ None \notin Nat /\ None \notin Entry /\ None \notin Position
<1>1. {RingSize, QueueCap, DrainPerPoll, MissedLimit, FaderStep} \subseteq Nat \ {0}
  BY BridgeAssumption
<1>2. {RelatchDelay, SyncDelay, EchoWindow, StartupHold, FaderGap} \subseteq Nat
  BY BridgeAssumption
<1> QED
  BY <1>1, <1>2, BridgeAssumption

\* The channel a loop takes next is one of those left.
LEMMA FirstIn ==
    ASSUME NEW T \in SUBSET Channels, T # {}
    PROVE  FirstOf(T) \in T
<1>1. T \subseteq Nat
  BY Constants
<1>2. PICK c \in T : \A d \in T : <<d, c>> \notin OpToRel(<, Nat)
  BY <1>1, WFMin, NatLessThanWellFounded, Zenon
<1>3. \A d \in T : ~(d < c)
  BY <1>1, <1>2, Zenon DEF OpToRel
<1>4. \A d \in T : c <= d
  BY <1>1, <1>3
<1> QED
  BY <1>4, Zenon DEF FirstOf

\* What is put into a sequence, and what is left of it, is of the sequence's type.
LEMMA SeqStays ==
    ASSUME NEW S, NEW s \in Seq(S)
    PROVE  /\ \A x \in S : Append(s, x) \in Seq(S)
           /\ s # <<>> => Tail(s) \in Seq(S) /\ Head(s) \in S
<1>1. \A x \in S : Append(s, x) \in Seq(S)
  BY AppendProperties
<1> QED
  BY <1>1, HeadTailProperties

\* What a message of the host carries.
LEMMA MessageKinds ==
    ASSUME NEW m \in HostMessage
    PROVE  /\ Lights(m) => m.ch \in Channels /\ m.on \in BOOLEAN
           /\ IsNote(m) => Lights(m)
           /\ IsOther(m) => Lights(m) /\ ~IsNote(m)
           /\ IsFader(m) => m.value \in Nat
           /\ ~(Lights(m) /\ IsFader(m))
BY DEF HostMessage, IsNote, IsOther, Lights, IsFader

\* What becomes of a message the host sent.
LEMMA ReceiveCases ==
    ASSUME Receive
    PROVE  LET m == Head(hostOut)
           IN  \/ IsNote(m) /\ cb' = [pc |-> "state", msg |-> m] /\ fader' = fader
               \/ IsFader(m) /\ RememberFader(m.value)
                  /\ cb' = [pc |-> IF ForwardFader(m.value) THEN "queue" ELSE "idle", msg |-> m]
               \/ /\ ~IsNote(m) /\ ~IsFader(m) /\ fader' = fader
                  /\ cb' \in [pc: {"queue", "idle"}, msg: {m}]
<1> DEFINE m == Head(hostOut)
<1>1. CASE IsNote(m)
  BY <1>1 DEF Receive, IsNote, IsFader, IsOther, Text
<1>2. CASE IsFader(m)
  BY <1>2 DEF Receive, IsNote, IsFader, IsOther, Text
<1>3. CASE ~IsNote(m) /\ ~IsFader(m)
  <2>1. /\ fader' = fader
        /\ \/ cb' = [pc |-> "queue", msg |-> m]
           \/ cb' \in [pc: {"queue", "idle"}, msg: {m}]
    BY <1>3 DEF Receive
  <2> HIDE DEF m
  <2>2. [pc |-> "queue", msg |-> m] \in [pc: {"queue", "idle"}, msg: {m}]
    OBVIOUS
  <2>3. cb' \in [pc: {"queue", "idle"}, msg: {m}]
    BY <2>1, <2>2
  <2> QED
    BY <1>3, <2>1, <2>3 DEF m
<1> QED
  BY <1>1, <1>2, <1>3

\* The message at hand is the first; it is looked at as a tracked note, or it is none.
LEMMA ReceiveTakes ==
    ASSUME Receive
    PROVE  /\ cb'.msg = Head(hostOut)
           /\ IsNote(Head(hostOut)) <=> cb'.pc = "state"
           /\ cb'.pc \in {"state", "queue", "idle"}
<1> DEFINE m == Head(hostOut)
<1>1. \/ IsNote(m) /\ cb' = [pc |-> "state", msg |-> m]
      \/ ~IsNote(m) /\ cb' \in [pc: {"queue", "idle"}, msg: {m}]
  BY ReceiveCases DEF IsNote, IsFader
<1> HIDE DEF m
<1>2. cb'.msg = m /\ (IsNote(m) <=> cb'.pc = "state") /\ cb'.pc \in {"state", "queue", "idle"}
  BY <1>1
<1> QED
  BY <1>2 DEF m

\* A message made for a light is a message of the host, and not its fader's.
LEMMA MessagesMade ==
    /\ \A c \in Channels, on \in BOOLEAN : Note(c, on) \in HostMessage /\ IsNote(Note(c, on))
    /\ \A c \in Channels, on \in BOOLEAN : ~IsFader(Note(c, on))
BY DEF HostMessage, IsNote, IsFader, Note

\* A set of naturals with a bound has a greatest element.
LEMMA Greatest ==
    ASSUME NEW n \in Nat, NEW T \in SUBSET (0..n), T # {}
    PROVE  \E x \in T : \A y \in T : y <= x
<1> DEFINE D == {d \in Nat : n - d \in T}
<1>1. D \subseteq Nat /\ D # {}
  <2>1. PICK x \in T : TRUE
    OBVIOUS
  <2>2. x \in 0..n
    BY <2>1
  <2>3. n - x \in Nat /\ n - (n - x) = x
    BY <2>2
  <2> QED
    BY <2>1, <2>3
<1>2. PICK d \in D : \A e \in D : <<e, d>> \notin OpToRel(<, Nat)
  BY <1>1, WFMin, NatLessThanWellFounded, Zenon
<1>3. \A e \in D : ~(e < d)
  BY <1>1, <1>2, Zenon DEF OpToRel
<1>4. n - d \in T /\ d \in Nat
  BY DEF D
<1>5. \A y \in T : y <= n - d
  <2> SUFFICES ASSUME NEW y \in T
               PROVE  y <= n - d
    OBVIOUS
  <2>1. y \in 0..n
    OBVIOUS
  <2>2. n - y \in Nat /\ n - (n - y) = y
    BY <2>1
  <2>3. n - y \in D
    BY <2>2
  <2>4. ~(n - y < d)
    BY <1>3, <2>3
  <2> QED
    BY <1>4, <2>1, <2>4
<1> QED
  BY <1>4, <1>5

\* What a poll goes through are messages of the ring, or empty slots.
LEMMA NewestTyped ==
    ASSUME NEW m \in [pc: Steps, todo: SUBSET Channels, count: Nat, index: Nat,
                      recent: 0..RingSize, news: Seq(Entry \cup {None}), left: Nat],
           lastCount \in Nat, lastCount < m.count, log \in Seq(Entry)
    PROVE  Newest(m, Ring(log)) \in Seq(Entry \cup {None})
<1> DEFINE S == Entry \cup {None}
           delta == Least(m.count - lastCount, m.recent)
           slots == Ordered(m.index, m.recent)
           f == [k \in 1..delta |-> Ring(log)[slots[m.recent - delta + k]]]
<1>1. delta \in Nat /\ delta <= m.recent /\ m.recent \in Nat /\ m.recent <= RingSize
  BY Constants DEF Least
<1>2. ASSUME NEW i \in 0..RingSize - 1
      PROVE  Ring(log)[i] \in S
  <2>1. Ring(log)[i] = Slot(log, i)
    BY DEF Ring
  <2> DEFINE at == {n \in 1..Len(log) : (n - 1) % RingSize = i}
  <2>2. CASE at = {}
    BY <2>1, <2>2 DEF Slot
  <2>3. CASE at # {}
    <3>1. at \in SUBSET (0..Len(log)) /\ Len(log) \in Nat
      BY LenProperties
    <3>2. \E n \in at : \A k \in at : k <= n
      BY <2>3, <3>1, Greatest
    <3>3. (CHOOSE n \in at : \A k \in at : k <= n) \in at
      <4> HIDE DEF at
      <4> QED
        BY <3>2
    <3>4. Slot(log, i) = log[CHOOSE n \in at : \A k \in at : k <= n]
      BY <2>3 DEF Slot
    <3>5. \A n \in at : log[n] \in Entry
      BY ElementOfSeq
    <3> HIDE DEF at
    <3> QED
      BY <2>1, <3>3, <3>4, <3>5
  <2> QED
    BY <2>2, <2>3
<1>3. ASSUME NEW k \in 1..delta
      PROVE  f[k] \in S
  <2> DEFINE q == m.recent - delta + k
  <2>1. q \in 1..m.recent
    BY <1>1
  <2>2. slots[q] \in 0..RingSize - 1
    <3> HIDE DEF q
    <3>1. CASE m.recent = RingSize
      <4>1. slots[q] = (m.index + q - 1) % RingSize
        BY <2>1, <3>1 DEF Ordered
      <4>2. m.index + q - 1 \in Nat
        BY <2>1
      <4> QED
        BY <4>1, <4>2, Constants
    <3>2. CASE m.recent # RingSize
      <4>1. slots[q] = q - 1
        BY <2>1, <3>2 DEF Ordered
      <4> QED
        BY <4>1, <2>1, <1>1, Constants
    <3> QED
      BY <3>1, <3>2
  <2>3. f[k] = Ring(log)[slots[q]]
    OBVIOUS
  <2> HIDE DEF q, f, slots
  <2> QED
    BY <2>2, <2>3, <1>2
<1>4. f \in [1..delta -> S]
  <2> HIDE DEF S, delta
  <2> QED
    BY <1>3
<1>5. f \in Seq(S)
  <2> HIDE DEF f, S, delta
  <2> QED
    BY <1>1, <1>4, SeqDef
<1>6. Newest(m, Ring(log)) = f
  BY DEF Newest
<1> QED
  BY <1>5, <1>6

\* The main thread's variables keep their type.
LEMMA MainStep == MainTyped /\ ConsoleTyped /\ [Next]_vars => MainTyped'
<1> SUFFICES ASSUME MainTyped, ConsoleTyped, [Next]_vars
             PROVE  MainTyped'
  OBVIOUS
<1> USE DEF MainTyped, ConsoleTyped, MainAt, Goto
<1>a. /\ RingSize \in Nat \ {0} /\ DrainPerPoll \in Nat /\ Channels # {}
  BY Constants
<1>1. CASE UNCHANGED vars
  BY <1>1 DEF vars, poll
<1>2. CASE Quit
  BY <1>2 DEF Quit, Steps
<1>3. CASE Callback
  BY <1>3 DEF Callback, Receive, NoteOn, SuppressEcho, NoteOff, ScheduleSync, Enqueue, cbRest, poll
<1>4. CASE Environment
  BY <1>4 DEF Environment, Press, Release, Decode, DriverFault, HostAnswers, HostSpeaks, poll
<1>5. CASE Main
  <2>1. CASE SetUp
    BY <2>1 DEF SetUp, Steps
  <2>2. CASE StartClear
    <3>1. Len(log) \in Nat
      BY LenProperties
    <3>2. lastCount' \in Nat
      BY <2>2, <3>1 DEF StartClear
    <3> QED
      BY <2>2, <3>2 DEF StartClear, Steps
  <2>3. CASE ClearLight
    BY <2>3 DEF ClearLight, Steps
  <2>4. CASE ClearDone
    BY <2>4 DEF ClearDone, Steps
  <2>5. CASE ReadFails
    BY <2>5 DEF ReadFails, Steps
  <2>6. CASE ReadCount
    BY <2>6, LenProperties DEF ReadCount, Steps
  <2>7. CASE ReadIndex
    <3>1. Len(log) % RingSize \in Nat
      BY <1>a, LenProperties
    <3> QED
      BY <2>7, <3>1 DEF ReadIndex, Steps
  <2>8. CASE ReadRecent
    <3>1. RingCount(log) \in 0..RingSize
      BY <1>a, LenProperties DEF RingCount, Least
    <3>2. lastCount' \in Nat /\ lastCount' = Least(lastCount, main.count)
      BY <2>8 DEF ReadRecent, Least
    <3> QED
      BY <2>8, <3>1, <3>2, <1>a DEF ReadRecent, Steps
  <2>9. CASE ReadData
    <3>1. Newest(main, Ring(log)) \in Seq(Entry \cup {None})
      BY <2>9, NewestTyped DEF ReadData
    <3>2. <<>> \in Seq(Entry \cup {None})
      BY EmptySeq
    <3> QED
      BY <2>9, <3>1, <3>2 DEF ReadData, Steps
  <2>10. CASE ForwardMessage \/ SkipEmpty
    <3>1. Tail(main.news) \in Seq(Entry \cup {None})
      BY <2>10, SeqStays DEF ForwardMessage, SkipEmpty
    <3> QED
      BY <2>10, <3>1 DEF ForwardMessage, SkipEmpty, Steps
  <2>11. CASE ForwardDone
    BY <2>11 DEF ForwardDone, Steps
  <2>12. CASE DrainOne
    <3>1. main' = [main EXCEPT !.left = @ - 1] /\ main.left > 0 /\ lastCount' = lastCount
          /\ main.pc = "drain"
      BY <2>12 DEF DrainOne
    <3>2. main.left - 1 \in Nat
      BY <3>1
    <3> QED
      BY <3>1, <3>2
  <2>13. CASE DrainDone
    BY <2>13 DEF DrainDone, Steps
  <2>14. CASE Relatch
    BY <2>14 DEF Relatch
  <2>15. CASE RelatchDone
    BY <2>15 DEF RelatchDone, Steps
  <2>16. CASE StartSync
    BY <2>16, <1>a DEF StartSync, Steps
  <2>17. CASE Snapshot
    <3> DEFINE c == FirstOf(main.todo)
    <3>1. c \in main.todo
      BY <2>17, FirstIn DEF Snapshot
    <3>2. main' = [main EXCEPT !.todo = @ \ {c},
                               !.pc = IF main.todo = {c} THEN "sleep" ELSE "snapshot"]
      BY <2>17 DEF Snapshot
    <3>3. lastCount' = lastCount
      BY <2>17 DEF Snapshot
    <3> HIDE DEF c
    <3> QED
      BY <3>1, <3>2, <3>3 DEF Steps
  <2>18. CASE Sleep
    BY <2>18 DEF Sleep, Steps
  <2> QED
    BY <1>5, <2>1, <2>2, <2>3, <2>4, <2>5, <2>6, <2>7, <2>8, <2>9, <2>10, <2>11, <2>12, <2>13,
       <2>14, <2>15, <2>16, <2>17, <2>18 DEF Main
<1> QED
  BY <1>1, <1>2, <1>3, <1>4, <1>5 DEF Next

\* What the driver decoded and the bridge forwarded keep their type.
LEMMA ConsoleStep == Typed /\ [Next]_vars => ConsoleTyped'
<1> SUFFICES ASSUME Typed, [Next]_vars
             PROVE  ConsoleTyped'
  OBVIOUS
<1> USE DEF Typed, ConsoleTyped
<1>1. CASE UNCHANGED vars
  BY <1>1 DEF vars, poll, host, history, bounds
<1>2. CASE Quit
  BY <1>2 DEF Quit, pollRest, mainRest
<1>3. CASE Callback
  BY <1>3 DEF Callback, Receive, NoteOn, SuppressEcho, NoteOff, ScheduleSync, Enqueue, cbRest, poll,
     history, bounds
<1>4. CASE Environment
  <2>1. ASSUME NEW c \in Channels, NEW down \in BOOLEAN, Decode(c, down), moves' = moves + 1
        PROVE  ConsoleTyped'
    <3>1. [id |-> moves, ch |-> c, down |-> down] \in Entry
      BY DEF Entry
    <3>2. log' \in Seq(Entry)
      BY <2>1, <3>1, SeqStays DEF Decode, Publish
    <3> QED
      BY <2>1, <3>2 DEF Decode, Publish, poll, MainAt
  <2>2. ASSUME NEW c \in Channels, Press(c) \/ Release(c)
        PROVE  ConsoleTyped'
    BY <2>1, <2>2 DEF Press, Release
  <2>3. CASE DriverFault
    <3>1. <<>> \in Seq(Entry)
      BY EmptySeq
    <3> QED
      BY <2>3, <3>1 DEF DriverFault, DriverChange, Publish, poll, host, MainAt
  <2>4. CASE HostAnswers
    <3>1. inbox' \in Seq(Entry)
      BY <2>4, SeqStays DEF HostAnswers
    <3> QED
      BY <2>4, <3>1 DEF HostAnswers, poll, history, bounds
  <2>5. CASE HostSpeaks
    BY <2>5 DEF HostSpeaks, poll
  <2> QED
    BY <1>4, <2>2, <2>3, <2>4, <2>5 DEF Environment
<1>5. CASE Main
  <2>1. CASE ForwardMessage
    <3>1. Head(main.news) \in Entry
      BY <2>1, SeqStays DEF ForwardMessage, MainTyped
    <3>2. Head(main.news).id \in Nat
      BY <3>1 DEF Entry
    <3>3. inbox' \in Seq(Entry) /\ forwarded' \in Seq(Nat)
      BY <2>1, <3>1, <3>2, SeqStays DEF ForwardMessage
    <3> QED
      BY <2>1, <3>3 DEF ForwardMessage, mainRest
  <2>2. CASE Main /\ ~ForwardMessage
    BY <2>2 DEF Main, SetUp, StartClear, ClearLight, ClearDone, ReadFails, ReadCount, ReadIndex,
       ReadRecent, ReadData, SkipEmpty, ForwardDone, DrainOne, DrainDone, Relatch, RelatchDone,
       StartSync, Snapshot, Sleep, pollRest, mainRest, shown
  <2> QED
    BY <1>5, <2>1, <2>2
<1> QED
  BY <1>1, <1>2, <1>3, <1>4, <1>5 DEF Next

\* A pair is a sequence.
LEMMA TwoSeq ==
    ASSUME NEW S, NEW a \in S, NEW b \in S
    PROVE  <<a, b>> \in Seq(S)
<1>1. <<a, b>> = [i \in 1..2 |-> IF i = 1 THEN a ELSE b]
  OBVIOUS
<1>2. [i \in 1..2 |-> IF i = 1 THEN a ELSE b] \in Seq(S)
  OBVIOUS
<1> QED
  BY <1>1, <1>2

\* What the host wants and sends keeps its type.
LEMMA HostStep == Typed /\ [Next]_vars => HostTyped'
<1> SUFFICES ASSUME Typed, [Next]_vars
             PROVE  HostTyped'
  OBVIOUS
<1> USE DEF Typed, HostTyped
<1>1. CASE UNCHANGED vars
  BY <1>1 DEF vars, host, bounds
<1>2. CASE Quit
  BY <1>2 DEF Quit, pollRest, mainRest
<1>3. CASE Callback
  <2>1. CASE Receive
    <3>1. hostOut' \in Seq(HostMessage)
      BY <2>1, SeqStays DEF Receive
    <3> QED
      BY <2>1, <3>1 DEF Receive, cbRest, bounds
  <2>2. CASE Callback /\ ~Receive
    BY <2>2 DEF Callback, NoteOn, SuppressEcho, NoteOff, ScheduleSync, Enqueue, cbRest, bounds
  <2> QED
    BY <1>3, <2>1, <2>2
<1>4. CASE Environment
  <2>1. ASSUME NEW c \in Channels, Press(c) \/ Release(c)
        PROVE  HostTyped'
    BY <2>1 DEF Press, Release, Decode
  <2>2. CASE DriverFault
    BY <2>2 DEF DriverFault, host
  <2>3. CASE HostAnswers
    <3> DEFINE c == Head(inbox).ch
    <3>1. c \in Channels
      <4>1. inbox \in Seq(Entry) /\ inbox # <<>>
        BY <2>3 DEF HostAnswers, ConsoleTyped
      <4>2. Head(inbox) \in Entry
        BY <4>1, SeqStays
      <4> QED
        BY <4>2 DEF Entry
    <3>2. /\ hostFader' = hostFader /\ scene' = scene
      BY <2>3 DEF HostAnswers, bounds
    <3>3. hostLed' \in [Channels -> BOOLEAN]
      BY <2>3, <3>1 DEF HostAnswers
    <3>4. hostOut' \in Seq(HostMessage)
      <4>1. CASE hostOut' = Append(hostOut, Note(c, hostLed'[c]))
        BY <4>1, <3>1, <3>3, MessagesMade, SeqStays
      <4>2. CASE \E d \in Channels \ {c} : hostOut' = hostOut \o <<Note(d, FALSE), Note(c, TRUE)>>
        <5>1. PICK d \in Channels : hostOut' = hostOut \o <<Note(d, FALSE), Note(c, TRUE)>>
          BY <4>2
        <5>2. Note(d, FALSE) \in HostMessage /\ Note(c, TRUE) \in HostMessage
          BY <3>1, MessagesMade
        <5>3. <<Note(d, FALSE), Note(c, TRUE)>> \in Seq(HostMessage)
          BY <5>2, TwoSeq
        <5> QED
          BY <5>1, <5>3, ConcatProperties
      <4>3. CASE hostOut' \in {hostOut, Append(hostOut, Note(c, FALSE))}
        BY <4>3, <3>1, MessagesMade, SeqStays
      <4> QED
        BY <2>3, <4>1, <4>2, <4>3 DEF HostAnswers
    <3> QED
      BY <3>2, <3>3, <3>4
  <2>4. CASE HostSpeaks
    <3>1. scene.speaks \subseteq HostMessage
      BY SceneAssumption
    <3>2. PICK m \in HostMessage :
            /\ hostOut' = Append(hostOut, m)
            /\ hostLed' = IF IsNote(m) THEN [hostLed EXCEPT ![m.ch] = m.on] ELSE hostLed
            /\ hostFader' = IF IsFader(m) THEN m.value ELSE hostFader
      BY <2>4, <3>1 DEF HostSpeaks
    <3>3. hostOut' \in Seq(HostMessage)
      BY <3>2, SeqStays
    <3>4. hostLed' \in [Channels -> BOOLEAN] /\ hostFader' \in Nat \cup {None}
      BY <3>2, MessageKinds
    <3> QED
      BY <2>4, <3>3, <3>4 DEF HostSpeaks
  <2> QED
    BY <1>4, <2>1, <2>2, <2>3, <2>4 DEF Environment
<1>5. CASE Main
  BY <1>5 DEF Main, SetUp, StartClear, ClearLight, ClearDone, ReadFails, ReadCount, ReadIndex,
     ReadRecent, ReadData, ForwardMessage, SkipEmpty, ForwardDone, DrainOne, DrainDone, Relatch,
     RelatchDone, StartSync, Snapshot, Sleep, pollRest, mainRest
<1> QED
  BY <1>1, <1>2, <1>3, <1>4, <1>5 DEF Next

\* What CoreMIDI's thread works on and queues keeps its type.
LEMMA CallbackStep == Typed /\ [Next]_vars => CallbackTyped'
<1> SUFFICES ASSUME Typed, [Next]_vars
             PROVE  CallbackTyped'
  OBVIOUS
<1> USE DEF Typed, CallbackTyped
<1>1. CASE UNCHANGED vars
  BY <1>1 DEF vars, shown
<1>2. CASE Quit
  BY <1>2 DEF Quit, pollRest, mainRest, shown
<1>3. CASE Callback
  <2>1. CASE Receive
    <3> DEFINE m == Head(hostOut)
    <3>1. m \in HostMessage
      BY <2>1, SeqStays DEF Receive, HostTyped
    <3>2. /\ queue' = queue /\ toldFader' = toldFader /\ faderLost' = faderLost
          /\ \/ IsNote(m) /\ cb' = [pc |-> "state", msg |-> m] /\ fader' = fader
             \/ IsFader(m) /\ RememberFader(m.value)
                /\ cb' = [pc |-> IF ForwardFader(m.value) THEN "queue" ELSE "idle", msg |-> m]
             \/ cb' \in [pc: {"queue", "idle"}, msg: {m}] /\ fader' = fader
      BY <2>1, ReceiveCases DEF Receive, cbRest
    <3>3. fader' \in Position \cup {None}
      BY <3>1, <3>2, MessageKinds DEF RememberFader, Position
    <3>4. cb' \in [pc: {"idle", "state", "due", "queue"}, msg: HostMessage]
          /\ (cb'.pc \in {"state", "due"} => IsNote(cb'.msg))
      <4> HIDE DEF m
      <4> QED
        BY <3>1, <3>2
    <3> HIDE DEF m
    <3> QED
      BY <3>2, <3>3, <3>4 DEF IsNote
  <2>2. CASE NoteOn \/ SuppressEcho \/ NoteOff
    BY <2>2 DEF NoteOn, SuppressEcho, NoteOff, cbRest, lights, IsNote
  <2>3. CASE ScheduleSync
    BY <2>3 DEF ScheduleSync, cbRest, IsNote
  <2>4. CASE Enqueue
    <3>1. queue' \in Seq(HostMessage)
      BY <2>4, SeqStays DEF Enqueue
    <3>2. cb' = [cb EXCEPT !.pc = "idle"]
      BY <2>4 DEF Enqueue
    <3> QED
      BY <2>4, <3>1, <3>2 DEF Enqueue, cbRest
  <2> QED
    BY <1>3, <2>1, <2>2, <2>3, <2>4 DEF Callback
<1>4. CASE Environment
  BY <1>4 DEF Environment, Press, Release, Decode, DriverFault, HostAnswers, HostSpeaks, shown
<1>5. CASE Main
  <2>1. CASE DrainOne
    <3>1. Head(queue) \in HostMessage /\ Tail(queue) \in Seq(HostMessage)
      BY <2>1, SeqStays DEF DrainOne
    <3>2. toldFader' \in Nat \cup {None}
      BY <2>1, <3>1, MessageKinds DEF DrainOne
    <3> QED
      BY <2>1, <3>1, <3>2 DEF DrainOne, mainRest
  <2>2. CASE Sleep
    <3>1. fader' \in Position \cup {None}
      BY <2>2, Constants DEF Sleep, Position, Least
    <3> QED
      BY <2>2, <3>1 DEF Sleep, shown
  <2>3. CASE Main /\ ~DrainOne /\ ~Sleep
    BY <2>3 DEF Main, SetUp, StartClear, ClearLight, ClearDone, ReadFails, ReadCount, ReadIndex,
       ReadRecent, ReadData, ForwardMessage, SkipEmpty, ForwardDone, DrainDone, Relatch,
       RelatchDone, StartSync, Snapshot, pollRest, mainRest, shown
  <2> QED
    BY <1>5, <2>1, <2>2, <2>3
<1> QED
  BY <1>1, <1>2, <1>3, <1>4, <1>5 DEF Next

\* The lights and their schedules keep their type.
LEMMA LightsStep == Typed /\ [Next]_vars => LightsTyped'
<1> SUFFICES ASSUME Typed, [Next]_vars
             PROVE  LightsTyped'
  OBVIOUS
<1> USE DEF Typed, LightsTyped
<1>0. SyncDelay \in Nat /\ StartupHold \in Nat
  BY Constants
<1>a. SyncDue \in Nat
  BY <1>0 DEF SyncDue
<1>1. CASE UNCHANGED vars
  BY <1>1 DEF vars, lights, shown
<1>2. CASE Quit
  BY <1>2 DEF Quit, pollRest, lights, shown
<1>3. CASE Callback
  <2>1. CASE NoteOn \/ NoteOff
    <3>1. cb.msg.ch \in Channels
      BY <2>1, MessageKinds DEF NoteOn, NoteOff, CallbackTyped
    <3> QED
      BY <2>1, <3>1 DEF NoteOn, NoteOff, cbRest
  <2>2. CASE ScheduleSync
    BY <2>2, <1>a DEF ScheduleSync, cbRest
  <2>3. CASE Receive \/ SuppressEcho \/ Enqueue
    BY <2>3 DEF Receive, SuppressEcho, Enqueue, cbRest, lights
  <2> QED
    BY <1>3, <2>1, <2>2, <2>3 DEF Callback
<1>4. CASE Environment
  BY <1>4 DEF Environment, Press, Release, Decode, DriverFault, HostAnswers, HostSpeaks, lights, shown
<1>5. CASE Main
  <2>1. CASE ClearLight
    <3>1. FirstOf(main.todo) \in Channels
      BY <2>1, FirstIn DEF ClearLight, MainTyped
    <3> QED
      BY <2>1, <3>1 DEF ClearLight, SendLight
  <2>2. CASE Snapshot
    <3>1. FirstOf(main.todo) \in Channels
      BY <2>2, FirstIn DEF Snapshot, MainTyped
    <3>2. active[FirstOf(main.todo)] \in BOOLEAN
      BY <3>1
    <3> QED
      BY <2>2, <3>1, <3>2 DEF Snapshot, SendLight, lights
  <2>3. CASE Relatch
    BY <2>3 DEF Relatch, SendLight
  <2>4. CASE DrainOne
    <3>1. Head(queue) \in HostMessage
      BY <2>4, SeqStays DEF DrainOne, CallbackTyped
    <3> QED
      BY <2>4, <3>1, MessageKinds DEF DrainOne, lights
  <2>5. CASE StartClear \/ ClearDone \/ StartSync \/ Sleep
    BY <2>5, <1>0, <1>a DEF StartClear, ClearDone, StartSync, Sleep, shown, Shorter
  <2>6. CASE ForwardMessage
    BY <2>6 DEF ForwardMessage, shown
  <2>7. CASE SetUp \/ ReadFails \/ ReadCount \/ ReadIndex \/ ReadRecent \/ ReadData \/ SkipEmpty
             \/ ForwardDone \/ DrainDone \/ RelatchDone
    BY <2>7 DEF SetUp, ReadFails, ReadCount, ReadIndex, ReadRecent, ReadData, SkipEmpty,
       ForwardDone, DrainDone, RelatchDone, pollRest, lights, shown
  <2> QED
    BY <1>5, <2>1, <2>2, <2>3, <2>4, <2>5, <2>6, <2>7 DEF Main
<1> QED
  BY <1>1, <1>2, <1>3, <1>4, <1>5 DEF Next

\* Every variable starts with its type.
LEMMA TypedInit == Init => Typed
<1> SUFFICES ASSUME Init
             PROVE  Typed
  OBVIOUS
<1>1. FirstOf(Channels) \in Channels
  BY FirstIn, Constants
<1>2. Note(FirstOf(Channels), FALSE) \in HostMessage /\ IsNote(Note(FirstOf(Channels), FALSE))
  BY <1>1, MessagesMade
<1>3. \A S : <<>> \in Seq(S)
  BY EmptySeq
<1>4. MainTyped
  BY <1>3, Constants DEF Init, MainTyped, Steps, MainAt
<1>5. ConsoleTyped /\ HostTyped
  BY <1>3, Constants DEF Init, ConsoleTyped, HostTyped
<1>6. CallbackTyped /\ LightsTyped
  BY <1>2, <1>3, Constants DEF Init, CallbackTyped, LightsTyped
<1> QED
  BY <1>4, <1>5, <1>6 DEF Typed

\* Every variable keeps its type.
THEOREM TypeCorrect == Spec => []Typed
<1>1. Typed /\ [Next]_vars => Typed'
  BY MainStep, ConsoleStep, HostStep, CallbackStep, LightsStep DEF Typed
<1> QED
  BY <1>1, TypedInit, PTL DEF Spec

-----------------------------------------------------------------------------
(* The fader: the position remembered is what is on its way *)

NoFader(q) == \A i \in DOMAIN q : ~IsFader(q[i])

\* the fader's last message in q, or t when there is none, has the value v
Carries(q, t, v) ==
    \/ \E i \in DOMAIN q : /\ IsFader(q[i]) /\ q[i].value = v
                           /\ \A j \in DOMAIN q : IsFader(q[j]) => j <= i
    \/ NoFader(q) /\ t = v

Sending == cb.pc = "queue" /\ IsFader(cb.msg)

HostsFader == NoFader(hostOut) \/ (cb.pc = "idle" /\ hostOut = <<Fader(hostFader)>>)

FaderInv ==
    /\ HostsFader
    /\ Sending => fader # None /\ cb.msg.value = fader.value
    /\ (hostFader # None /\ NoFader(hostOut))
          => (fader # None /\ Apart(fader.value, hostFader) < FaderStep)
    /\ (~faderLost /\ fader # None /\ ~Sending) => Carries(queue, toldFader, fader.value)

\* A sequence has no message of the fader if its parts have none.
LEMMA NoFaderFacts ==
    ASSUME NEW s \in Seq(HostMessage)
    PROVE  /\ \A m \in HostMessage : NoFader(Append(s, m)) <=> NoFader(s) /\ ~IsFader(m)
           /\ s # <<>> => (NoFader(s) <=> ~IsFader(Head(s)) /\ NoFader(Tail(s)))
<1>0. Len(s) \in Nat /\ DOMAIN s = 1..Len(s)
  BY LenProperties
<1>1. ASSUME NEW m \in HostMessage
      PROVE  NoFader(Append(s, m)) <=> NoFader(s) /\ ~IsFader(m)
  <2> DEFINE t == Append(s, m)
  <2>1. /\ DOMAIN t = 1..Len(s) + 1
        /\ \A i \in 1..Len(s) : t[i] = s[i]
        /\ t[Len(s) + 1] = m
    BY AppendProperties, LenProperties
  <2> HIDE DEF t
  <2>2. NoFader(t) <=> NoFader(s) /\ ~IsFader(m)
    <3>1. ASSUME NoFader(t)
          PROVE  NoFader(s) /\ ~IsFader(m)
      <4>1. Len(s) + 1 \in DOMAIN t /\ \A i \in 1..Len(s) : i \in DOMAIN t
        BY <1>0, <2>1
      <4> QED
        BY <1>0, <2>1, <3>1, <4>1, Zenon DEF NoFader
    <3>2. ASSUME NoFader(s), ~IsFader(m)
          PROVE  NoFader(t)
      <4>1. \A i \in DOMAIN t : i \in 1..Len(s) \/ i = Len(s) + 1
        BY <1>0, <2>1
      <4> QED
        BY <1>0, <2>1, <3>2, <4>1, Zenon DEF NoFader
    <3> QED
      BY <3>1, <3>2
  <2> QED
    BY <2>2 DEF t
<1>2. ASSUME s # <<>>
      PROVE  NoFader(s) <=> ~IsFader(Head(s)) /\ NoFader(Tail(s))
  <2>1. /\ Head(s) = s[1] /\ Len(s) >= 1
        /\ DOMAIN Tail(s) = 1..Len(s) - 1
        /\ \A i \in 1..Len(s) - 1 : Tail(s)[i] = s[i + 1]
    BY <1>2, <1>0, HeadTailProperties, LenProperties, EmptySeq
  <2>2. ASSUME NoFader(s)
        PROVE  ~IsFader(Head(s)) /\ NoFader(Tail(s))
    <3>1. 1 \in DOMAIN s /\ \A i \in DOMAIN Tail(s) : i + 1 \in DOMAIN s
      BY <1>0, <2>1
    <3> QED
      BY <2>1, <2>2, <3>1, Zenon DEF NoFader
  <2>3. ASSUME ~IsFader(Head(s)), NoFader(Tail(s))
        PROVE  NoFader(s)
    <3> SUFFICES ASSUME NEW i \in DOMAIN s
                 PROVE  ~IsFader(s[i])
      BY Zenon DEF NoFader
    <3>1. CASE i = 1
      BY <2>1, <2>3, <3>1
    <3>2. CASE i # 1
      <4>1. i - 1 \in DOMAIN Tail(s) /\ Tail(s)[i - 1] = s[i]
        BY <1>0, <2>1, <3>2
      <4> QED
        BY <2>3, <4>1, Zenon DEF NoFader
    <3> QED
      BY <3>1, <3>2
  <2> QED
    BY <2>2, <2>3
<1> QED
  BY <1>1, <1>2

\* A message queued last is the fader's last one, or leaves it what it was.
LEMMA CarriesAppend ==
    ASSUME NEW q \in Seq(HostMessage), NEW m \in HostMessage, NEW t, NEW v
    PROVE  /\ (Carries(q, t, v) /\ ~IsFader(m)) => Carries(Append(q, m), t, v)
           /\ (IsFader(m) /\ m.value = v) => Carries(Append(q, m), t, v)
<1> DEFINE p == Append(q, m)
<1>0. Len(q) \in Nat /\ DOMAIN q = 1..Len(q)
  BY LenProperties
<1>1. /\ DOMAIN p = 1..Len(q) + 1
      /\ \A i \in 1..Len(q) : p[i] = q[i]
      /\ p[Len(q) + 1] = m
  BY AppendProperties, LenProperties
<1>2. NoFader(p) <=> NoFader(q) /\ ~IsFader(m)
  BY NoFaderFacts
<1> HIDE DEF p
<1>3. ASSUME Carries(q, t, v), ~IsFader(m)
      PROVE  Carries(p, t, v)
  <2>1. CASE NoFader(q) /\ t = v
    BY <2>1, <1>2, <1>3 DEF Carries
  <2>2. CASE \E i \in DOMAIN q : /\ IsFader(q[i]) /\ q[i].value = v
                                 /\ \A j \in DOMAIN q : IsFader(q[j]) => j <= i
    <3>1. PICK i \in DOMAIN q : /\ IsFader(q[i]) /\ q[i].value = v
                                /\ \A j \in DOMAIN q : IsFader(q[j]) => j <= i
      BY <2>2
    <3>2. i \in DOMAIN p /\ IsFader(p[i]) /\ p[i].value = v
      BY <1>0, <1>1, <3>1
    <3>3. \A j \in DOMAIN p : j \in DOMAIN q \/ j = Len(q) + 1
      BY <1>0, <1>1
    <3>4. \A j \in DOMAIN p : IsFader(p[j]) => j <= i
      BY <1>0, <1>1, <1>3, <3>1, <3>3, Zenon
    <3> QED
      BY <3>2, <3>4, Zenon DEF Carries
  <2> QED
    BY <1>3, <2>1, <2>2 DEF Carries
<1>4. ASSUME IsFader(m), m.value = v
      PROVE  Carries(p, t, v)
  <2>1. Len(q) + 1 \in DOMAIN p /\ \A j \in DOMAIN p : j <= Len(q) + 1
    BY <1>0, <1>1
  <2> QED
    BY <1>1, <1>4, <2>1, Zenon DEF Carries
<1> QED
  BY <1>3, <1>4 DEF p

\* The fader's last message stays in the queue unless it is the one taken.
LEMMA CarriesTail ==
    ASSUME NEW q \in Seq(HostMessage), q # <<>>, NEW t, NEW v, Carries(q, t, v)
    PROVE  /\ IsFader(Head(q)) => Carries(Tail(q), Head(q).value, v)
           /\ (~IsFader(Head(q)) \/ ~NoFader(Tail(q))) => Carries(Tail(q), t, v)
<1> DEFINE p == Tail(q)
<1>0. Len(q) \in Nat /\ DOMAIN q = 1..Len(q)
  BY LenProperties
<1>1. /\ Head(q) = q[1] /\ Len(q) >= 1
      /\ DOMAIN p = 1..Len(q) - 1
      /\ \A i \in 1..Len(q) - 1 : p[i] = q[i + 1]
  BY <1>0, HeadTailProperties, LenProperties, EmptySeq
<1>2. NoFader(q) <=> ~IsFader(Head(q)) /\ NoFader(p)
  BY NoFaderFacts
<1> HIDE DEF p
<1>3. CASE NoFader(q) /\ t = v
  BY <1>2, <1>3 DEF Carries, p
<1>4. CASE \E i \in DOMAIN q : /\ IsFader(q[i]) /\ q[i].value = v
                               /\ \A j \in DOMAIN q : IsFader(q[j]) => j <= i
  <2>1. PICK i \in DOMAIN q : /\ IsFader(q[i]) /\ q[i].value = v
                              /\ \A j \in DOMAIN q : IsFader(q[j]) => j <= i
    BY <1>4
  <2>2. \A j \in DOMAIN p : j \in Nat /\ j + 1 \in DOMAIN q /\ p[j] = q[j + 1]
    BY <1>0, <1>1
  <2>3. CASE i = 1
    <3>1. ASSUME NEW j \in DOMAIN p
          PROVE  ~IsFader(p[j])
      <4>1. IsFader(q[j + 1]) => j + 1 <= i
        BY <2>1, <2>2
      <4> QED
        BY <2>2, <2>3, <4>1
    <3>2. NoFader(p)
      BY <3>1 DEF NoFader
    <3>3. IsFader(Head(q)) /\ Head(q).value = v
      BY <1>1, <2>1, <2>3
    <3> QED
      BY <3>2, <3>3 DEF Carries, p
  <2>4. CASE i # 1
    <3>1. i - 1 \in DOMAIN p /\ p[i - 1] = q[i]
      BY <1>0, <1>1, <2>1, <2>4
    <3>2. ASSUME NEW j \in DOMAIN p, IsFader(p[j])
          PROVE  j <= i - 1
      <4>1. j + 1 <= i
        BY <2>1, <2>2, <3>2
      <4> QED
        BY <1>0, <2>1, <2>2, <4>1
    <3>3. IsFader(p[i - 1]) /\ p[i - 1].value = v
      BY <2>1, <3>1
    <3>4. \A u : Carries(p, u, v)
      BY <3>1, <3>2, <3>3, Zenon DEF Carries
    <3> QED
      BY <3>4 DEF p
  <2> QED
    BY <2>3, <2>4
<1> QED
  BY <1>3, <1>4 DEF Carries

faderVars == <<hostOut, hostFader, cb, queue, fader, toldFader, faderLost>>

\* The fader's invariant holds at the beginning.
LEMMA FaderInit == Init => FaderInv
<1> SUFFICES ASSUME Init
             PROVE  FaderInv
  OBVIOUS
<1>1. NoFader(<<>>)
  BY DEF NoFader
<1> QED
  BY <1>1 DEF Init, FaderInv, HostsFader, Sending

\* A message of the fader is sent on and remembered, or is within a step.
LEMMA FaderReceive == Typed /\ FaderInv /\ Receive => FaderInv'
<1> SUFFICES ASSUME Typed, FaderInv, Receive
             PROVE  FaderInv'
  OBVIOUS
<1> DEFINE m == Head(hostOut)
<1>1. m \in HostMessage /\ hostOut \in Seq(HostMessage) /\ hostOut # <<>> /\ FaderStep \in Nat \ {0}
  BY SeqStays, Constants DEF Receive, Typed, HostTyped
<1>2. /\ hostOut' = Tail(hostOut) /\ cb.pc = "idle"
      /\ queue' = queue /\ toldFader' = toldFader /\ faderLost' = faderLost
      /\ hostFader' = hostFader
  BY DEF Receive, cbRest
<1>3. fader \in Position \cup {None} /\ hostFader \in Nat \cup {None}
  BY DEF Typed, CallbackTyped, HostTyped
<1>4. NoFader(hostOut) <=> ~IsFader(m) /\ NoFader(Tail(hostOut))
  BY <1>1, NoFaderFacts
<1>5. CASE IsFader(m)
  <2>1. hostOut = <<Fader(hostFader)>>
    BY <1>4, <1>5 DEF FaderInv, HostsFader
  <2>2. m.value = hostFader /\ Tail(hostOut) = <<>>
    BY <2>1 DEF Fader
  <2>3. NoFader(hostOut')
    BY <1>2, <2>2 DEF NoFader
  <2>4. /\ fader' = IF ForwardFader(m.value) THEN [value |-> m.value, age |-> 0] ELSE fader
        /\ cb' = [pc |-> IF ForwardFader(m.value) THEN "queue" ELSE "idle", msg |-> m]
    BY <1>5, ReceiveCases DEF RememberFader, IsFader, IsNote
  <2>5. m.value \in Nat
    BY <1>1, <1>5, MessageKinds
  <2> HIDE DEF m
  <2>6. CASE ForwardFader(m.value)
    <3>1. fader' = [value |-> m.value, age |-> 0] /\ cb' = [pc |-> "queue", msg |-> m]
      BY <2>4, <2>6
    <3>2. fader' # None
      BY <2>5, <3>1, Constants DEF Position
    <3>3. Apart(fader'.value, hostFader') < FaderStep
      BY <1>1, <1>2, <2>2, <2>5, <3>1 DEF Apart
    <3>4. Sending' /\ cb'.msg.value = fader'.value
      BY <1>5, <3>1 DEF Sending
    <3> QED
      BY <2>3, <3>2, <3>3, <3>4 DEF FaderInv, HostsFader
  <2>7. CASE ~ForwardFader(m.value)
    <3>1. fader' = fader /\ cb' = [pc |-> "idle", msg |-> m] /\ fader # None
      BY <2>4, <2>7 DEF ForwardFader
    <3>2. ~(Apart(m.value, fader.value) >= FaderStep)
      BY <2>7 DEF ForwardFader
    <3>3. fader.value \in Nat
      BY <1>3, <3>1 DEF Position
    <3>4. Apart(fader'.value, hostFader') < FaderStep
      BY <1>1, <1>2, <2>2, <2>5, <3>1, <3>2, <3>3 DEF Apart
    <3>5. ~Sending /\ ~Sending'
      BY <1>2, <3>1 DEF Sending
    <3>6. ~faderLost => Carries(queue, toldFader, fader.value)
      BY <3>1, <3>5 DEF FaderInv
    <3> QED
      BY <1>2, <2>3, <3>1, <3>4, <3>5, <3>6 DEF FaderInv, HostsFader
  <2> QED
    BY <2>6, <2>7
<1>6. CASE ~IsFader(m)
  <2>1. fader' = fader /\ cb'.msg = m
    <3>1. fader' = fader /\ (cb' = [pc |-> "state", msg |-> m] \/ cb' \in [pc: {"queue", "idle"}, msg: {m}])
      BY <1>6, ReceiveCases
    <3> HIDE DEF m
    <3> QED
      BY <3>1
  <2>2. ~Sending /\ ~Sending'
    BY <1>2, <1>6, <2>1 DEF Sending
  <2>3. NoFader(hostOut)
    <3>1. ASSUME hostOut = <<Fader(hostFader)>>
          PROVE  FALSE
      BY <1>6, <3>1 DEF Fader, IsFader
    <3> QED
      BY <3>1 DEF FaderInv, HostsFader
  <2>4. NoFader(hostOut')
    BY <1>2, <1>4, <2>3
  <2> QED
    BY <1>2, <2>1, <2>2, <2>3, <2>4 DEF FaderInv, HostsFader
<1> QED
  BY <1>5, <1>6

\* Every step keeps the fader's invariant.
LEMMA FaderStepHolds == Typed /\ FaderInv /\ [Next]_vars => FaderInv'
<1> SUFFICES ASSUME Typed, FaderInv, [Next]_vars
             PROVE  FaderInv'
  OBVIOUS
<1>0. ASSUME UNCHANGED faderVars
      PROVE  FaderInv'
  BY <1>0 DEF faderVars, FaderInv, HostsFader, Sending
<1>1. CASE UNCHANGED vars
  BY <1>0, <1>1 DEF vars, host, shown, faderVars
<1>2. CASE Quit
  BY <1>0, <1>2 DEF Quit, pollRest, mainRest, shown, faderVars
<1>3. CASE Callback
  <2>1. CASE Receive
    BY <2>1, FaderReceive
  <2>2. CASE NoteOn \/ SuppressEcho \/ NoteOff \/ ScheduleSync
    <3>1. /\ UNCHANGED <<hostOut, hostFader, queue, fader, toldFader, faderLost>>
          /\ cb.pc \in {"state", "due"}
      BY <2>2 DEF NoteOn, SuppressEcho, NoteOff, ScheduleSync, cbRest, lights
    <3>2. IsNote(cb.msg) /\ cb.msg \in HostMessage /\ cb'.msg = cb.msg
      BY <2>2, <3>1 DEF Typed, CallbackTyped, NoteOn, SuppressEcho, NoteOff, ScheduleSync
    <3>3. ~IsFader(cb.msg)
      BY <3>2, MessageKinds
    <3>4. ~Sending /\ ~Sending'
      BY <3>2, <3>3 DEF Sending
    <3>5. NoFader(hostOut)
      BY <3>1 DEF FaderInv, HostsFader
    <3> QED
      BY <3>1, <3>4, <3>5 DEF FaderInv, HostsFader
  <2>3. CASE Enqueue
    <3> DEFINE m == cb.msg
    <3>1. /\ UNCHANGED <<hostOut, hostFader, fader, toldFader>>
          /\ cb.pc = "queue" /\ cb' = [cb EXCEPT !.pc = "idle"]
      BY <2>3 DEF Enqueue, cbRest
    <3>2. /\ m \in HostMessage /\ queue \in Seq(HostMessage) /\ cb'.pc = "idle"
          /\ faderLost \in BOOLEAN
      BY <3>1 DEF Typed, CallbackTyped
    <3>3. ~Sending' /\ (Sending <=> IsFader(m))
      BY <3>1, <3>2 DEF Sending
    <3>4. NoFader(hostOut)
      BY <3>1 DEF FaderInv, HostsFader
    <3>5. CASE queue' = Append(queue, m) /\ faderLost' = (faderLost /\ ~IsFader(m))
      <4>1. ASSUME ~faderLost', fader # None
            PROVE  Carries(queue', toldFader, fader.value)
        <5>1. CASE IsFader(m)
          BY <3>2, <3>3, <3>5, <5>1, CarriesAppend DEF FaderInv
        <5>2. CASE ~IsFader(m)
          BY <3>2, <3>3, <3>5, <4>1, <5>2, CarriesAppend DEF FaderInv
        <5> QED
          BY <5>1, <5>2
      <4> QED
        BY <3>1, <3>3, <3>4, <4>1 DEF FaderInv, HostsFader
    <3>6. CASE queue' = queue /\ faderLost' = (faderLost \/ IsFader(m))
      <4>1. ASSUME ~faderLost', fader # None
            PROVE  Carries(queue', toldFader, fader.value)
        BY <3>3, <3>6, <4>1 DEF FaderInv
      <4> QED
        BY <3>1, <3>3, <3>4, <4>1 DEF FaderInv, HostsFader
    <3> QED
      BY <2>3, <3>5, <3>6 DEF Enqueue
  <2> QED
    BY <1>3, <2>1, <2>2, <2>3 DEF Callback
<1>4. CASE Environment
  <2>1. ASSUME NEW c \in Channels, Press(c) \/ Release(c)
        PROVE  FaderInv'
    BY <1>0, <2>1 DEF Press, Release, Decode, shown, faderVars
  <2>2. CASE DriverFault
    BY <1>0, <2>2 DEF DriverFault, host, shown, faderVars
  <2>3. CASE HostAnswers
    <3> DEFINE c == Head(inbox).ch
    <3>1. c \in Channels
      <4>1. inbox \in Seq(Entry) /\ inbox # <<>>
        BY <2>3 DEF HostAnswers, Typed, ConsoleTyped
      <4>2. Head(inbox) \in Entry
        BY <4>1, SeqStays
      <4> QED
        BY <4>2 DEF Entry
    <3>2. /\ hostOut = <<>> /\ UNCHANGED <<hostFader, cb, queue, fader, toldFader, faderLost>>
          /\ HostTyped'
      BY <2>3, HostStep DEF HostAnswers, HostFree, shown
    <3>3. NoFader(hostOut)
      BY <3>2 DEF NoFader
    <3>4. NoFader(hostOut')
      <4>1. CASE hostOut' = Append(hostOut, Note(c, hostLed'[c]))
        <5>1. hostOut' = <<Note(c, hostLed'[c])>>
          BY <3>2, <4>1
        <5> QED
          BY <5>1 DEF NoFader, Note, IsFader
      <4>2. CASE \E d \in Channels \ {c} : hostOut' = hostOut \o <<Note(d, FALSE), Note(c, TRUE)>>
        <5>1. PICK d : hostOut' = hostOut \o <<Note(d, FALSE), Note(c, TRUE)>>
          BY <4>2
        <5>2. hostOut' = <<Note(d, FALSE), Note(c, TRUE)>>
          BY <3>2, <5>1
        <5> QED
          BY <5>2 DEF NoFader, Note, IsFader
      <4>3. CASE hostOut' \in {hostOut, Append(hostOut, Note(c, FALSE))}
        <5>1. CASE hostOut' = hostOut
          BY <3>3, <5>1 DEF NoFader
        <5>2. CASE hostOut' = Append(hostOut, Note(c, FALSE))
          <6>1. hostOut' = <<Note(c, FALSE)>>
            BY <3>2, <5>2
          <6> QED
            BY <6>1 DEF NoFader, Note, IsFader
        <5> QED
          BY <4>3, <5>1, <5>2
      <4> QED
        BY <2>3, <4>1, <4>2, <4>3 DEF HostAnswers
    <3> QED
      BY <3>2, <3>3, <3>4 DEF FaderInv, HostsFader, Sending
  <2>4. CASE HostSpeaks
    <3>1. scene.speaks \subseteq HostMessage
      BY SceneAssumption DEF Typed, HostTyped
    <3>2. PICK m \in HostMessage :
            /\ hostOut' = Append(hostOut, m)
            /\ hostFader' = IF IsFader(m) THEN m.value ELSE hostFader
      BY <2>4, <3>1 DEF HostSpeaks
    <3>3. /\ hostOut = <<>> /\ cb.pc = "idle"
          /\ UNCHANGED <<cb, queue, fader, toldFader, faderLost>>
      BY <2>4 DEF HostSpeaks, HostFree, shown
    <3>4. hostOut' = <<m>> /\ NoFader(hostOut)
      BY <3>2, <3>3 DEF NoFader
    <3>5. CASE IsFader(m)
      <4>1. m = Fader(m.value)
        BY <3>5 DEF HostMessage, IsFader, Fader
      <4>2. hostOut' = <<Fader(hostFader')>>
        BY <3>2, <3>4, <3>5, <4>1
      <4>3. ~NoFader(hostOut')
        <5>1. 1 \in DOMAIN hostOut' /\ hostOut'[1] = m
          BY <3>4
        <5> QED
          BY <3>5, <5>1, Zenon DEF NoFader
      <4> QED
        BY <3>3, <4>2, <4>3 DEF FaderInv, HostsFader, Sending
    <3>6. CASE ~IsFader(m)
      <4>1. NoFader(hostOut') /\ hostFader' = hostFader
        BY <3>2, <3>4, <3>6 DEF NoFader
      <4> QED
        BY <3>3, <3>4, <4>1 DEF FaderInv, HostsFader, Sending
    <3> QED
      BY <3>5, <3>6
  <2> QED
    BY <1>4, <2>1, <2>2, <2>3, <2>4 DEF Environment
<1>5. CASE Main
  <2>1. CASE DrainOne
    <3> DEFINE m == Head(queue)
    <3>1. /\ queue \in Seq(HostMessage) /\ queue # <<>> /\ queue' = Tail(queue)
          /\ UNCHANGED <<hostOut, hostFader, cb, fader>>
      BY <2>1 DEF DrainOne, mainRest, Typed, CallbackTyped
    <3>2. PICK ok \in BOOLEAN :
             /\ toldFader' = IF ok /\ IsFader(m) THEN m.value ELSE toldFader
             /\ faderLost' = (faderLost \/ (~ok /\ IsFader(m)
                                /\ ~ \E i \in DOMAIN queue' : IsFader(queue'[i])))
      BY <2>1 DEF DrainOne
    <3>3. ~ok /\ IsFader(m) /\ ~faderLost' => ~NoFader(Tail(queue))
      BY <3>1, <3>2 DEF NoFader
    <3>4. ~faderLost' => ~faderLost
      BY <3>2
    <3> HIDE DEF m
    <3>5. ASSUME ~faderLost', fader # None, ~Sending
          PROVE  Carries(queue', toldFader', fader.value)
      <4>1. Carries(queue, toldFader, fader.value)
        BY <3>4, <3>5 DEF FaderInv
      <4>2. /\ IsFader(m) => Carries(Tail(queue), m.value, fader.value)
            /\ (~IsFader(m) \/ ~NoFader(Tail(queue))) => Carries(Tail(queue), toldFader, fader.value)
        BY <3>1, <4>1, CarriesTail DEF m
      <4>3. CASE ok /\ IsFader(m)
        BY <3>1, <3>2, <4>2, <4>3
      <4>4. CASE ~(ok /\ IsFader(m))
        BY <3>1, <3>2, <3>3, <3>5, <4>2, <4>4
      <4> QED
        BY <4>3, <4>4
    <3> QED
      BY <3>1, <3>5 DEF FaderInv, HostsFader, Sending
  <2>2. CASE Sleep
    <3>1. UNCHANGED <<hostOut, hostFader, cb, queue, toldFader, faderLost>>
      BY <2>2 DEF Sleep, shown
    <3>2. fader # None => fader' # None /\ fader'.value = fader.value
      <4> SUFFICES ASSUME fader # None
                   PROVE  fader' # None /\ fader'.value = fader.value
        OBVIOUS
      <4>1. fader \in Position /\ fader' = [fader EXCEPT !.age = Least(@ + 1, FaderGap)]
        BY <2>2 DEF Sleep, Typed, CallbackTyped
      <4>2. Least(fader.age + 1, FaderGap) \in Nat
        BY <4>1, Constants DEF Least, Position
      <4>3. fader' \in Position /\ fader'.value = fader.value
        BY <4>1, <4>2 DEF Position
      <4> QED
        BY <4>3, Constants
    <3>3. fader = None => fader' = None
      BY <2>2 DEF Sleep
    <3> QED
      BY <3>1, <3>2, <3>3 DEF FaderInv, HostsFader, Sending
  <2>3. CASE Main /\ ~DrainOne /\ ~Sleep
    BY <1>0, <2>3 DEF Main, SetUp, StartClear, ClearLight, ClearDone, ReadFails, ReadCount, ReadIndex,
       ReadRecent, ReadData, ForwardMessage, SkipEmpty, ForwardDone, DrainDone, Relatch,
       RelatchDone, StartSync, Snapshot, pollRest, mainRest, shown, faderVars
  <2> QED
    BY <1>5, <2>1, <2>2, <2>3
<1> QED
  BY <1>1, <1>2, <1>3, <1>4, <1>5 DEF Next

\* The fader the driver was last told of stays within a step of the host's
\* (should_forward_short_message_to_driver and the queue): changes too small to forward
\* never add up, whatever is queued, refused or lost on the way.
THEOREM FaderCloseHolds == Spec => []FaderClose
<1>1. Typed /\ FaderInv /\ [Next]_vars => FaderInv'
  BY FaderStepHolds
<1>2. FaderInv => FaderClose
  <2> SUFFICES ASSUME FaderInv, cb.pc = "idle", hostOut = <<>>, ~faderLost, hostFader # None,
                      NoFader(queue)
               PROVE  Apart(toldFader, hostFader) < FaderStep
    BY DEF FaderClose, NoFader
  <2>1. NoFader(hostOut) /\ ~Sending
    BY DEF NoFader, Sending
  <2>2. fader # None /\ Apart(fader.value, hostFader) < FaderStep
    BY <2>1 DEF FaderInv
  <2>3. Carries(queue, toldFader, fader.value)
    BY <2>1, <2>2 DEF FaderInv
  <2>4. toldFader = fader.value
    BY <2>3, Zenon DEF Carries, NoFader
  <2> QED
    BY <2>2, <2>4
<1> QED
  BY <1>1, <1>2, FaderInit, TypeCorrect, PTL DEF Spec

-----------------------------------------------------------------------------
(* The lights: a snapshot repairs what is dropped *)

Early == {"setup", "start", "clear"}

Coming(c) == sync > 0 \/ (MainAt("snapshot") /\ c \in main.todo)

Agrees(c) == told[c] = active[c] \/ Coming(c) \/ (cb.pc = "due" /\ cb.msg.ch = c)

LightInv ==
    /\ main.pc \in Early => unsure = Channels
    /\ \A c \in Channels \ unsure : Agrees(c) /\ (Settled(c) \/ Coming(c))

\* A step that takes no snapshot back and touches no light.
LEMMA LightFrame ==
    ASSUME LightInv, UNCHANGED <<told, active, unsure>>,
           \A c \in Channels : Coming(c) => Coming(c)',
           \A c \in Channels : Settled(c) => Settled(c)' \/ Coming(c)',
           \A c \in Channels : (cb.pc = "due" /\ cb.msg.ch = c) =>
                                   (cb'.pc = "due" /\ cb'.msg.ch = c) \/ Coming(c)',
           main'.pc \in Early => main.pc \in Early
    PROVE  LightInv'
<1>1. ASSUME NEW c \in Channels, c \notin unsure
      PROVE  Agrees(c)' /\ (Settled(c)' \/ Coming(c)')
  <2>1. Agrees(c) /\ (Settled(c) \/ Coming(c))
    BY <1>1 DEF LightInv
  <2>2. Settled(c)' \/ Coming(c)'
    BY <2>1
  <2>3. told[c] = active[c] => told'[c] = active'[c]
    OBVIOUS
  <2>4. Agrees(c)'
    BY <2>1, <2>3 DEF Agrees
  <2> QED
    BY <2>2, <2>4
<1> QED
  BY <1>1 DEF LightInv

\* A step that leaves the queue and the message at hand alone settles nothing.
LEMMA SettledFrame ==
    ASSUME UNCHANGED <<queue, cb>>, NEW c
    PROVE  Settled(c) <=> Settled(c)'
BY DEF Settled

\* A message that is taken off the queue leaves a light settled.
LEMMA SettledTail ==
    ASSUME NEW c, queue \in Seq(HostMessage), queue # <<>>, queue' = Tail(queue), cb' = cb, Settled(c)
    PROVE  Settled(c)' /\ ~(IsNote(Head(queue)) /\ Head(queue).ch = c)
<1>1. /\ Len(queue) \in Nat /\ DOMAIN queue = 1..Len(queue) /\ Len(queue) >= 1
      /\ Head(queue) = queue[1]
      /\ DOMAIN queue' = 1..Len(queue) - 1
      /\ \A i \in 1..Len(queue) - 1 : queue'[i] = queue[i + 1]
  BY HeadTailProperties, LenProperties, EmptySeq
<1>2. 1 \in DOMAIN queue /\ \A i \in DOMAIN queue' : i + 1 \in DOMAIN queue
  BY <1>1
<1>3. \A i \in DOMAIN queue : ~(IsNote(queue[i]) /\ queue[i].ch = c)
  BY DEF Settled
<1>4. \A i \in DOMAIN queue' : ~(IsNote(queue'[i]) /\ queue'[i].ch = c)
  BY <1>1, <1>2, <1>3, Zenon
<1>5. ~(IsNote(Head(queue)) /\ Head(queue).ch = c)
  BY <1>1, <1>2, <1>3, Zenon
<1> QED
  BY <1>4, <1>5 DEF Settled

\* A queued message of the light c unsettles it as long as it waits to be queued.
LEMMA SettledEnqueue ==
    ASSUME NEW c, Typed, Enqueue, Settled(c)
    PROVE  Settled(c)'
<1>1. /\ queue \in Seq(HostMessage) /\ cb.pc = "queue" /\ cb' = [cb EXCEPT !.pc = "idle"]
      /\ cb.msg \in HostMessage /\ cb'.pc = "idle"
      /\ queue' = queue \/ queue' = Append(queue, cb.msg)
  BY DEF Typed, CallbackTyped, Enqueue
<1>2. \A i \in DOMAIN queue : ~(IsNote(queue[i]) /\ queue[i].ch = c)
  BY DEF Settled
<1>3. ~(IsNote(cb.msg) /\ cb.msg.ch = c)
  BY <1>1 DEF Settled
<1>4. CASE queue' = queue
  BY <1>1, <1>2, <1>4 DEF Settled
<1>5. CASE queue' = Append(queue, cb.msg)
  <2>1. /\ Len(queue) \in Nat /\ DOMAIN queue = 1..Len(queue)
        /\ DOMAIN queue' = 1..Len(queue) + 1
        /\ \A i \in 1..Len(queue) : queue'[i] = queue[i]
        /\ queue'[Len(queue) + 1] = cb.msg
    BY <1>1, <1>5, AppendProperties, LenProperties
  <2>2. \A i \in DOMAIN queue' : i \in DOMAIN queue \/ i = Len(queue) + 1
    BY <2>1
  <2>3. \A i \in DOMAIN queue' : ~(IsNote(queue'[i]) /\ queue'[i].ch = c)
    BY <1>2, <1>3, <2>1, <2>2, Zenon
  <2> QED
    BY <1>1, <2>3 DEF Settled
<1> QED
  BY <1>1, <1>4, <1>5

\* Every step keeps the lights' invariant.
LEMMA LightStepHolds == Typed /\ LightInv /\ [Next]_vars => LightInv'
<1> SUFFICES ASSUME Typed, LightInv, [Next]_vars
             PROVE  LightInv'
  OBVIOUS
<1>0. ASSUME UNCHANGED <<told, active, unsure, sync, queue, cb>>,
             ~MainAt("snapshot"), main'.pc \in Early => main.pc \in Early
      PROVE  LightInv'
  <2>1. \A c \in Channels : Coming(c) => Coming(c)'
    BY <1>0 DEF Coming
  <2>2. \A c \in Channels : Settled(c) => Settled(c)'
    BY <1>0, SettledFrame
  <2> QED
    BY <1>0, <2>1, <2>2, LightFrame
<1>a. ASSUME UNCHANGED <<told, active, unsure, sync, queue, cb, main>>
      PROVE  LightInv'
  <2>1. \A c \in Channels : Coming(c) => Coming(c)'
    BY <1>a DEF Coming, MainAt
  <2>2. \A c \in Channels : Settled(c) => Settled(c)'
    BY <1>a, SettledFrame
  <2> QED
    BY <1>a, <2>1, <2>2, LightFrame
<1>s. SyncDue \in Nat /\ SyncDue > 0
  <2>1. hold \in Nat
    BY DEF Typed, LightsTyped
  <2> QED
    BY <2>1, Constants DEF SyncDue
<1>m. main \in [pc: Steps, todo: SUBSET Channels, count: Nat, index: Nat, recent: 0..RingSize,
                news: Seq(Entry \cup {None}), left: Nat]
  BY DEF Typed, MainTyped
<1>1. CASE UNCHANGED vars
  BY <1>a, <1>1 DEF vars, lights, shown, poll
<1>2. CASE Quit
  BY <1>0, <1>2, <1>m DEF Quit, pollRest, mainRest, lights, shown, MainAt, Goto, Early
<1>3. CASE Callback
  <2>1. CASE Receive
    <3>1. /\ UNCHANGED <<told, active, unsure, sync, main, queue>> /\ cb.pc = "idle"
          /\ cb'.msg = Head(hostOut)
          /\ ~(cb'.pc = "queue" /\ IsNote(Head(hostOut)))
      BY <2>1, ReceiveTakes DEF Receive, cbRest, lights, poll
    <3>2. \A c \in Channels : Coming(c) => Coming(c)'
      BY <3>1 DEF Coming, MainAt
    <3>3. \A c \in Channels : Settled(c) => Settled(c)'
      BY <3>1 DEF Settled
    <3> QED
      BY <3>1, <3>2, <3>3, LightFrame
  <2>2. CASE SuppressEcho
    <3>1. /\ UNCHANGED <<told, active, unsure, sync, main, queue>> /\ cb.pc = "state"
          /\ cb' = [cb EXCEPT !.pc = "idle"]
      BY <2>2 DEF SuppressEcho, cbRest, lights, poll
    <3>2. cb'.pc = "idle"
      BY <3>1 DEF Typed, CallbackTyped
    <3>3. \A c \in Channels : Coming(c) => Coming(c)'
      BY <3>1 DEF Coming, MainAt
    <3>4. \A c \in Channels : Settled(c) => Settled(c)'
      BY <3>1, <3>2 DEF Settled
    <3> QED
      BY <3>1, <3>3, <3>4, LightFrame
  <2>3. CASE NoteOn \/ NoteOff
    <3> DEFINE d == cb.msg.ch
    <3>1. /\ UNCHANGED <<told, unsure, sync, main, queue>> /\ cb.pc = "state"
          /\ cb' = [cb EXCEPT !.pc = "due"]
          /\ \E on \in BOOLEAN : active' = [active EXCEPT ![d] = on]
      BY <2>3 DEF NoteOn, NoteOff, cbRest, poll
    <3>2. cb'.pc = "due" /\ cb'.msg = cb.msg /\ active \in [Channels -> BOOLEAN]
      BY <3>1 DEF Typed, CallbackTyped, LightsTyped
    <3>3. \A c \in Channels : Coming(c) => Coming(c)'
      BY <3>1 DEF Coming, MainAt
    <3>4. \A c \in Channels : Settled(c) => Settled(c)'
      BY <3>1, <3>2 DEF Settled
    <3>5. \A c \in Channels : c # d => active'[c] = active[c]
      BY <3>1, <3>2
    <3>6. ASSUME NEW c \in Channels, c \notin unsure
          PROVE  Agrees(c)' /\ (Settled(c)' \/ Coming(c)')
      <4>1. Agrees(c) /\ (Settled(c) \/ Coming(c))
        BY <3>6 DEF LightInv
      <4>2. Agrees(c)'
        <5>1. CASE c = d
          BY <5>1, <3>2 DEF Agrees
        <5>2. CASE c # d
          BY <5>2, <4>1, <3>1, <3>3, <3>5 DEF Agrees
        <5> QED
          BY <5>1, <5>2
      <4> QED
        BY <3>3, <3>4, <4>1, <4>2
    <3> QED
      BY <3>1, <3>6 DEF LightInv
  <2>4. CASE ScheduleSync
    <3>1. UNCHANGED <<told, active, unsure, main>> /\ sync' = SyncDue
      BY <2>4 DEF ScheduleSync, cbRest, poll
    <3>2. \A c \in Channels : Coming(c)'
      BY <3>1, <1>s DEF Coming
    <3> QED
      BY <3>1, <3>2, LightFrame
  <2>5. CASE Enqueue
    <3>1. /\ UNCHANGED <<told, active, unsure, sync, main>> /\ cb.pc = "queue"
      BY <2>5 DEF Enqueue, cbRest, lights, poll
    <3>2. \A c \in Channels : Coming(c) => Coming(c)'
      BY <3>1 DEF Coming, MainAt
    <3>3. \A c \in Channels : Settled(c) => Settled(c)'
      BY <2>5, SettledEnqueue
    <3> QED
      BY <3>1, <3>2, <3>3, LightFrame
  <2> QED
    BY <1>3, <2>1, <2>2, <2>3, <2>4, <2>5 DEF Callback
<1>4. CASE Environment
  BY <1>a, <1>4 DEF Environment, Press, Release, Decode, DriverFault, HostAnswers, HostSpeaks, lights,
     shown, poll
<1>5. CASE Main
  <2>1. CASE ClearLight
    BY <2>1, <1>m DEF ClearLight, LightInv, MainAt, Early
  <2>2. CASE StartClear \/ SetUp
    <3>1. /\ UNCHANGED <<told, active, unsure, sync, queue, cb>> /\ ~MainAt("snapshot")
          /\ main.pc \in Early
      BY <2>2 DEF StartClear, SetUp, MainAt, lights, shown, mainRest, Early
    <3> QED
      BY <1>0, <3>1
  <2>3. CASE ClearDone
    <3>1. UNCHANGED <<told, active, unsure, queue, cb>> /\ sync' = SyncDue /\ main'.pc = "count"
      BY <2>3, <1>m DEF ClearDone, shown, mainRest, Goto
    <3>2. \A c \in Channels : Coming(c)'
      BY <3>1, <1>s DEF Coming
    <3> QED
      BY <3>1, <3>2, LightFrame DEF Early
  <2>4. CASE DrainOne
    <3> DEFINE m == Head(queue)
    <3>1. /\ UNCHANGED <<active, sync, cb>> /\ main.pc = "drain" /\ main'.pc = "drain"
          /\ queue # <<>> /\ queue' = Tail(queue) /\ queue \in Seq(HostMessage)
      BY <2>4, <1>m DEF DrainOne, lights, mainRest, MainAt, Typed, CallbackTyped
    <3>2. PICK ok \in BOOLEAN :
             /\ told' = IF ok /\ Lights(m) THEN [told EXCEPT ![m.ch] = m.on] ELSE told
             /\ unsure' = IF ok /\ IsOther(m) THEN unsure \cup {m.ch} ELSE unsure
      BY <2>4 DEF DrainOne
    <3>3. \A c \in Channels : Coming(c) => Coming(c)'
      BY <3>1 DEF Coming, MainAt
    <3>4. told \in [Channels -> BOOLEAN]
      BY DEF Typed, LightsTyped
    <3>5. ASSUME NEW c \in Channels, c \notin unsure'
          PROVE  Agrees(c)' /\ (Settled(c)' \/ Coming(c)')
      <4>1. c \notin unsure /\ ~(ok /\ IsOther(m) /\ m.ch = c)
        BY <3>2, <3>5
      <4>2. Agrees(c) /\ (Settled(c) \/ Coming(c))
        BY <4>1 DEF LightInv
      <4>3. CASE Coming(c)
        BY <4>3, <3>3 DEF Agrees
      <4>4. CASE ~Coming(c)
        <5>1. Settled(c)
          BY <4>2, <4>4
        <5>2. Settled(c)' /\ ~(IsNote(m) /\ m.ch = c)
          BY <3>1, <5>1, SettledTail
        <5>3. ~(ok /\ Lights(m) /\ m.ch = c)
          BY <4>1, <5>2 DEF Lights
        <5> HIDE DEF m
        <5>4. told'[c] = told[c]
          BY <3>2, <3>4, <5>3
        <5>5. told[c] = active[c] \/ (cb.pc = "due" /\ cb.msg.ch = c)
          BY <4>2, <4>4 DEF Agrees
        <5>6. Agrees(c)'
          BY <3>1, <5>4, <5>5 DEF Agrees
        <5> QED
          BY <5>2, <5>6
      <4> QED
        BY <4>3, <4>4
    <3> QED
      BY <3>1, <3>5 DEF LightInv, Early
  <2>5. CASE Relatch
    <3>1. /\ UNCHANGED <<active, unsure, sync, queue, cb, main>>
          /\ \E c \in Channels : \/ active[c] /\ \E ok \in BOOLEAN : SendLight(c, TRUE, ok)
                                 \/ told' = told
      BY <2>5 DEF Relatch, mainRest
    <3>2. told \in [Channels -> BOOLEAN]
      BY DEF Typed, LightsTyped
    <3>3. \A c \in Channels : told[c] = active[c] => told'[c] = active[c]
      BY <3>1, <3>2 DEF SendLight
    <3>4. ASSUME NEW c \in Channels, c \notin unsure
          PROVE  Agrees(c)' /\ (Settled(c)' \/ Coming(c)')
      <4>1. Agrees(c) /\ (Settled(c) \/ Coming(c))
        BY <3>4 DEF LightInv
      <4>2. Settled(c)' \/ Coming(c)'
        BY <3>1, <4>1 DEF Settled, Coming, MainAt
      <4>3. Agrees(c)'
        BY <3>1, <3>3, <4>1 DEF Agrees, Coming, MainAt
      <4> QED
        BY <4>2, <4>3
    <3> QED
      BY <3>1, <3>4 DEF LightInv
  <2>6. CASE StartSync
    <3>1. /\ UNCHANGED <<told, active, unsure, queue, cb>>
          /\ main' = [main EXCEPT !.pc = "snapshot", !.todo = Channels]
      BY <2>6 DEF StartSync, mainRest, shown
    <3>2. main'.pc = "snapshot" /\ main'.todo = Channels
      BY <3>1, <1>m
    <3>3. \A c \in Channels : Coming(c)'
      BY <3>2 DEF Coming, MainAt
    <3> QED
      BY <3>1, <3>2, <3>3, LightFrame DEF Early
  <2>7. CASE Snapshot
    <3> DEFINE d == FirstOf(main.todo)
    <3>0. main.todo # {} /\ main.pc = "snapshot"
      BY <2>7 DEF Snapshot, MainAt, Typed, MainTyped
    <3>1. d \in main.todo /\ d \in Channels
      BY <3>0, <1>m, FirstIn
    <3>2. /\ UNCHANGED <<active, sync, queue, cb>>
          /\ main' = [main EXCEPT !.todo = @ \ {d},
                                  !.pc = IF main.todo = {d} THEN "sleep" ELSE "snapshot"]
      BY <2>7 DEF Snapshot, mainRest, lights
    <3>3. PICK ok \in BOOLEAN :
             /\ told' = IF ok THEN [told EXCEPT ![d] = active[d]] ELSE told
             /\ unsure' = IF ok /\ Settled(d) THEN unsure \ {d} ELSE unsure \cup {d}
      BY <2>7 DEF Snapshot, SendLight
    <3>4. told \in [Channels -> BOOLEAN]
      BY DEF Typed, LightsTyped
    <3> HIDE DEF d
    <3>5. /\ main'.todo = main.todo \ {d}
          /\ main'.pc = IF main.todo = {d} THEN "sleep" ELSE "snapshot"
      BY <3>2, <1>m
    <3>6. ASSUME NEW c \in Channels, c \notin unsure'
          PROVE  Agrees(c)' /\ (Settled(c)' \/ Coming(c)')
      <4>1. CASE c = d
        <5>1. ok /\ Settled(c)
          BY <3>3, <3>6, <4>1
        <5>2. told'[c] = active'[c]
          BY <3>1, <3>2, <3>3, <3>4, <4>1, <5>1
        <5>3. Settled(c)'
          BY <3>2, <5>1, SettledFrame
        <5> QED
          BY <5>2, <5>3 DEF Agrees
      <4>2. CASE c # d
        <5>1. c \notin unsure
          BY <3>3, <3>6, <4>2
        <5>2. Agrees(c) /\ (Settled(c) \/ Coming(c))
          BY <5>1 DEF LightInv
        <5>3. told'[c] = told[c]
          BY <3>3, <3>4, <4>2
        <5>4. Coming(c) => Coming(c)'
          BY <3>0, <3>2, <3>5, <4>2 DEF Coming, MainAt
        <5>5. Settled(c) => Settled(c)'
          BY <3>2, SettledFrame
        <5> QED
          BY <3>2, <5>2, <5>3, <5>4, <5>5 DEF Agrees
      <4> QED
        BY <4>1, <4>2
    <3> QED
      BY <3>5, <3>6 DEF LightInv, Early
  <2>8. CASE Sleep
    <3>1. /\ UNCHANGED <<told, active, unsure, queue, cb>> /\ main.pc = "sleep"
          /\ main'.pc = "count" /\ sync' = Shorter(sync)
      BY <2>8, <1>m DEF Sleep, mainRest, shown, MainAt, Goto
    <3>2. sync \in Nat
      BY DEF Typed, LightsTyped
    <3>3. sync > 0 => sync' > 0
      BY <3>1, <3>2 DEF Shorter
    <3>4. \A c \in Channels : Coming(c) => Coming(c)'
      BY <3>1, <3>3 DEF Coming, MainAt
    <3>5. \A c \in Channels : Settled(c) => Settled(c)'
      BY <3>1, SettledFrame
    <3> QED
      BY <3>1, <3>4, <3>5, LightFrame DEF Early
  <2>9. CASE ForwardMessage
    <3>1. UNCHANGED <<told, active, unsure, sync, queue, cb>> /\ main.pc = "forward"
          /\ main'.pc = "forward"
      BY <2>9, <1>m DEF ForwardMessage, mainRest, shown, MainAt
    <3> QED
      BY <1>0, <3>1 DEF MainAt, Early
  <2>10. CASE ReadFails \/ ReadCount \/ ReadIndex \/ ReadRecent \/ ReadData \/ SkipEmpty
              \/ ForwardDone \/ DrainDone \/ RelatchDone
    <3>1. UNCHANGED <<told, active, unsure, sync, queue, cb>>
      BY <2>10 DEF ReadFails, ReadCount, ReadIndex, ReadRecent, ReadData, SkipEmpty,
         ForwardDone, DrainDone, RelatchDone, pollRest, mainRest, lights, shown
    <3>2. main.pc \notin Early \cup {"snapshot"} /\ main'.pc \notin Early
      BY <2>10, <1>m DEF ReadFails, ReadCount, ReadIndex, ReadRecent, ReadData, SkipEmpty,
         ForwardDone, DrainDone, RelatchDone, MainAt, Goto, Early
    <3> QED
      BY <1>0, <3>1, <3>2 DEF MainAt
  <2> QED
    BY <1>5, <2>1, <2>2, <2>3, <2>4, <2>5, <2>6, <2>7, <2>8, <2>9, <2>10 DEF Main
<1> QED
  BY <1>1, <1>2, <1>3, <1>4, <1>5 DEF Next

\* Once the host is silent and nothing is pending, the driver was last told of every
\* light what the bridge keeps, apart from lights left open by a snapshot or set since by
\* the note of another button.
THEOREM LightsAgreeHolds == Spec => []LightsAgree
<1>1. Typed /\ LightInv /\ [Next]_vars => LightInv'
  BY LightStepHolds
<1>2. Init => LightInv
  BY DEF Init, LightInv, Early
<1>3. Typed /\ LightInv => LightsAgree
  <2> SUFFICES ASSUME Typed, LightInv, MainAt("sleep"), sync = 0, cb.pc = "idle",
                      NEW c \in Channels \ unsure
               PROVE  told[c] = active[c]
    BY DEF LightsAgree
  <2>1. Agrees(c)
    BY DEF LightInv
  <2> QED
    BY <2>1 DEF Agrees, Coming, MainAt
<1> QED
  BY <1>1, <1>2, <1>3, TypeCorrect, PTL DEF Spec

-----------------------------------------------------------------------------
(* Messages of the console: the ring and its polls *)

\* A number is what the division leaves, and a multiple.
LEMMA Division ==
    ASSUME NEW a \in Nat, NEW n \in Nat \ {0}
    PROVE  \E q \in Int, r \in 0..n - 1 : a = n * q + r /\ a % n = r
<1> DEFINE q == a \div n
           r == a % n
<1>1. a = n * q + r /\ r \in 0..(n - 1) /\ q \in Int
  BY Z3
<1> QED
  BY <1>1

\* Numbers with the same remainder are at least the divisor apart.
LEMMA SameRemainder ==
    ASSUME NEW a \in Nat, NEW b \in Nat, NEW n \in Nat \ {0},
           a % n = b % n, a < b
    PROVE  b - a >= n
<1>1. PICK p \in Int, r \in 0..n - 1 : a = n * p + r /\ a % n = r
  BY Division
<1>2. PICK q \in Int, s \in 0..n - 1 : b = n * q + s /\ b % n = s
  BY Division
<1>3. a = n * p + r /\ b = n * q + r
  BY <1>1, <1>2
<1>4. CASE q <= p
  <2>1. n * q <= n * p
    BY <1>4, Z3
  <2> QED
    BY <1>3, <2>1, Z3
<1>5. CASE q >= p + 1
  <2>1. n * q >= n * p + n
    BY <1>5, Z3
  <2> QED
    BY <1>3, <2>1, Z3
<1> QED
  BY <1>4, <1>5

\* A step taken from the remainder ends where one from the number does.
LEMMA ShiftedRemainder ==
    ASSUME NEW a \in Nat, NEW k \in Nat, NEW n \in Nat \ {0}, a >= n
    PROVE  ((a % n) + k) % n = (a - n + k) % n
<1>1. PICK p \in Int, r \in 0..n - 1 : a = n * p + r /\ a % n = r
  BY Division
<1>2. r + k \in Nat /\ a - n + k \in Nat
  BY <1>1
<1>3. PICK u \in Int, x \in 0..n - 1 : r + k = n * u + x /\ (r + k) % n = x
  BY <1>2, Division
<1>4. PICK w \in Int, y \in 0..n - 1 : a - n + k = n * w + y /\ (a - n + k) % n = y
  BY <1>2, Division
<1>5. n * p - n + n * u + x = n * w + y
  BY <1>1, <1>3, <1>4
<1> DEFINE z == p - 1 + u - w
<1>6. n * z = n * p - n + n * u - n * w /\ z \in Int
  BY Z3
<1> HIDE DEF z
<1>7. n * z = y - x
  BY <1>5, <1>6, Z3
<1>8. CASE z <= -1
  <2>1. n * z <= -n
    BY <1>6, <1>8, Z3
  <2> QED
    BY <1>7, <2>1, Z3
<1>9. CASE z >= 1
  <2>1. n * z >= n
    BY <1>6, <1>9, Z3
  <2> QED
    BY <1>7, <2>1, Z3
<1>10. CASE z = 0
  BY <1>1, <1>3, <1>4, <1>7, <1>10
<1> QED
  BY <1>6, <1>8, <1>9, <1>10

\* A message stored last of those of its slot is what the slot holds.
LEMMA SlotHolds ==
    ASSUME NEW l \in Seq(Entry), NEW n \in 1..Len(l), n + RingSize > Len(l)
    PROVE  Slot(l, (n - 1) % RingSize) = l[n]
<1> DEFINE i == (n - 1) % RingSize
           at == {k \in 1..Len(l) : (k - 1) % RingSize = i}
<1>0. Len(l) \in Nat /\ RingSize \in Nat \ {0}
  BY LenProperties, Constants
<1>1. n \in at
  OBVIOUS
<1>2. ASSUME NEW k \in at, k > n
      PROVE  FALSE
  <2>1. k \in 1..Len(l) /\ (k - 1) % RingSize = (n - 1) % RingSize
    OBVIOUS
  <2>2. (k - 1) - (n - 1) >= RingSize
    <3>1. k - 1 \in Nat /\ n - 1 \in Nat /\ n - 1 < k - 1
      BY <1>0, <1>2, <2>1
    <3> HIDE DEF i, at
    <3> QED
      BY <1>0, <2>1, <3>1, SameRemainder, Zenon
  <2> HIDE DEF i, at
  <2> QED
    BY <1>0, <2>1, <2>2
<1>3. \A k \in at : k \in Nat
  BY <1>0
<1>4. Slot(l, i) = IF at = {} THEN None ELSE l[CHOOSE k \in at : \A j \in at : j <= k]
  BY DEF Slot
<1> HIDE DEF i, at
<1>5. \A k \in at : k <= n
  BY <1>2, <1>3
<1>6. (CHOOSE k \in at : \A j \in at : j <= k) = n
  <2>1. \A k \in at : (\A j \in at : j <= k) => k = n
    BY <1>1, <1>3, <1>5
  <2> QED
    BY <1>1, <1>5, <2>1
<1> QED
  BY <1>1, <1>4, <1>6 DEF i

\* A poll that reads the ring undisturbed goes through the newest messages, in order.
LEMMA NewestIs ==
    ASSUME log \in Seq(Entry), lastCount \in Nat, lastCount < main.count,
           main.count = Len(log), main.index = Len(log) % RingSize, main.recent = RingCount(log)
    PROVE  \E delta \in Nat :
              /\ delta <= Len(log) - lastCount
              /\ Len(log) <= lastCount + RingSize => delta = Len(log) - lastCount
              /\ Newest(main, Ring(log)) = [k \in 1..delta |-> log[Len(log) - delta + k]]
<1> DEFINE delta == Least(main.count - lastCount, main.recent)
           L == Len(log)
           f == [k \in 1..delta |-> Ring(log)[Ordered(main.index, main.recent)[main.recent - delta + k]]]
<1>0. L \in Nat /\ RingSize \in Nat \ {0}
  BY LenProperties, Constants
<1>1. /\ main.recent \in Nat /\ main.recent <= L /\ main.recent <= RingSize
      /\ main.recent = RingSize \/ main.recent = L
  BY <1>0 DEF RingCount, Least
<1>2. /\ delta \in Nat /\ delta <= main.recent /\ delta <= L - lastCount
      /\ L <= lastCount + RingSize => delta = L - lastCount
  BY <1>0, <1>1 DEF Least, RingCount
<1> HIDE DEF delta
<1>3. ASSUME NEW k \in 1..delta
      PROVE  f[k] = log[L - delta + k]
  <2> DEFINE q == main.recent - delta + k
             n == L - main.recent + q
  <2>1. /\ q \in 1..main.recent /\ n \in 1..L /\ n + RingSize > L
        /\ n = L - delta + k
    <3> DEFINE r == main.recent
    <3>1. /\ r \in Nat /\ r <= L /\ r <= RingSize /\ (r = RingSize \/ r = L)
          /\ delta \in Nat /\ delta <= r /\ q = r - delta + k /\ n = L - r + q
      BY <1>1, <1>2
    <3> HIDE DEF L, r, q, n
    <3>2. q \in 1..r
      BY <3>1
    <3>3. n = L - delta + k /\ n \in 1..L
      BY <1>0, <3>1, <3>2
    <3>4. n + RingSize > L
      BY <1>0, <3>1, <3>2
    <3> QED
      BY <3>2, <3>3, <3>4 DEF r
  <2>2. f[k] = Ring(log)[Ordered(main.index, main.recent)[q]]
    OBVIOUS
  <2> HIDE DEF f
  <2>3. Ordered(main.index, main.recent)[q] = (n - 1) % RingSize
    <3>1. CASE main.recent = RingSize
      <4>1. Ordered(main.index, main.recent)[q] = ((L % RingSize) + q - 1) % RingSize
        BY <2>1, <3>1 DEF Ordered
      <4>2. q - 1 \in Nat /\ L >= RingSize /\ L - RingSize + (q - 1) = n - 1
        <5> DEFINE r == main.recent
        <5>1. r = RingSize /\ r <= L /\ q \in 1..r /\ n = L - r + q
          BY <1>1, <2>1, <3>1
        <5> HIDE DEF L, r, q, n
        <5> QED
          BY <1>0, <5>1
      <4> HIDE DEF q, n
      <4>3. ((L % RingSize) + (q - 1)) % RingSize = (L - RingSize + (q - 1)) % RingSize
        BY <1>0, <4>2, ShiftedRemainder
      <4>4. (L % RingSize) + q - 1 = (L % RingSize) + (q - 1)
        <5>1. L % RingSize \in Nat /\ q \in Nat
          BY <1>0, <1>1, <2>1
        <5> QED
          BY <5>1
      <4> QED
        BY <4>1, <4>2, <4>3, <4>4
    <3>2. CASE main.recent # RingSize
      <4>1. Ordered(main.index, main.recent)[q] = q - 1
        BY <2>1, <3>2 DEF Ordered
      <4>2. n = q /\ q - 1 \in 0..RingSize - 1
        <5>1. main.recent = L
          BY <1>1, <3>2
        <5> QED
          BY <1>0, <1>1, <2>1, <5>1
      <4> HIDE DEF q, n
      <4>3. (q - 1) % RingSize = q - 1
        BY <1>0, <4>2
      <4> QED
        BY <4>1, <4>2, <4>3
    <3> QED
      BY <3>1, <3>2
  <2>4. (n - 1) % RingSize \in 0..RingSize - 1
    <3>1. n - 1 \in Nat
      BY <1>0, <2>1
    <3> HIDE DEF n, q
    <3> QED
      BY <1>0, <3>1
  <2>5. Slot(log, (n - 1) % RingSize) = log[n]
    <3> HIDE DEF n, q
    <3> QED
      BY <2>1, SlotHolds
  <2>6. Ring(log)[(n - 1) % RingSize] = log[n]
    <3> HIDE DEF n, q
    <3> QED
      BY <2>4, <2>5 DEF Ring
  <2> QED
    BY <2>1, <2>2, <2>3, <2>6
<1>4. Newest(main, Ring(log)) = f
  BY DEF Newest, delta
<1>5. f = [k \in 1..delta |-> log[L - delta + k]]
  BY <1>3
<1> HIDE DEF f
<1> QED
  BY <1>2, <1>4, <1>5

\* Every step keeps the types.
LEMMA TypedStep == Typed /\ [Next]_vars => Typed'
BY MainStep, ConsoleStep, HostStep, CallbackStep, LightsStep DEF Typed

\* the messages of the ring that are forwarded or passed over
Done == IF MainAt("forward") THEN Len(log) - Len(main.news) ELSE lastCount

Numbered == \A i \in DOMAIN log : log[i].id + Len(log) + 1 = moves + i

Reading ==
    /\ main.pc \in {"index", "recent", "data", "forward"} => main.count = Len(log)
    /\ main.pc \in {"recent", "data"} => main.index = Len(log) % RingSize
    /\ MainAt("data") => main.recent = RingCount(log)
    /\ (MainAt("data") /\ ~gap) => main.count <= lastCount + RingSize

Window ==
    MainAt("forward") =>
        /\ Len(main.news) <= Len(log)
        /\ \A i \in DOMAIN main.news : main.news[i] = log[Done + i]

Fresh ==
    /\ \A k \in DOMAIN forwarded : forwarded[k] < moves
    /\ \A j \in DOMAIN log, k \in DOMAIN forwarded : j > Done => forwarded[k] < log[j].id

Whole ==
    ~gap => /\ Done <= Len(log)
            /\ forwarded # <<>> => Done >= 1 /\ forwarded[Len(forwarded)] = log[Done].id

Rising == \A i \in 1..Len(forwarded) - 1 :
             IF gap THEN forwarded[i] < forwarded[i + 1] ELSE forwarded[i + 1] = forwarded[i] + 1

OrderInv ==
    /\ Numbered
    /\ main.pc \in {"setup", "start"} => forwarded = <<>>
    /\ ~torn => Reading /\ Window /\ Fresh /\ Whole /\ Rising

orderVars == <<log, moves, forwarded, lastCount, torn, gap>>

\* A step outside a poll's reads and forwarding.
LEMMA OrderFrame ==
    ASSUME OrderInv, UNCHANGED orderVars,
           main.pc \notin {"index", "recent", "data", "forward"},
           main'.pc \notin {"index", "recent", "data", "forward"},
           main'.pc \in {"setup", "start"} => main.pc \in {"setup", "start"}
    PROVE  OrderInv'
<1>1. Done' = Done
  BY DEF Done, MainAt, orderVars
<1>2. Numbered'
  BY DEF OrderInv, Numbered, orderVars
<1>3. Reading' /\ Window'
  BY DEF Reading, Window, MainAt
<1>4. ~torn => Fresh' /\ Whole' /\ Rising'
  BY <1>1 DEF OrderInv, Fresh, Whole, Rising, orderVars
<1> QED
  BY <1>2, <1>3, <1>4 DEF OrderInv, orderVars

\* A step that touches nothing of the ring and the poll keeps the order.
LEMMA OrderSame ==
    ASSUME OrderInv, UNCHANGED orderVars, main' = main
    PROVE  OrderInv'
BY DEF OrderInv, orderVars, Done, MainAt, Numbered, Reading, Window, Fresh, Whole, Rising

\* A gap only opens and numbers that rise one by one rise.
LEMMA RisingGap ==
    ASSUME Rising, forwarded \in Seq(Nat), forwarded' = forwarded,
           gap \in BOOLEAN, gap' \in BOOLEAN, gap => gap'
    PROVE  Rising'
<1> SUFFICES ASSUME NEW i \in 1..Len(forwarded) - 1
             PROVE  IF gap' THEN forwarded[i] < forwarded[i + 1]
                            ELSE forwarded[i + 1] = forwarded[i] + 1
  BY DEF Rising
<1>1. forwarded[i] \in Nat /\ forwarded[i + 1] \in Nat
  <2>1. i \in 1..Len(forwarded) /\ i + 1 \in 1..Len(forwarded)
    BY LenProperties
  <2> QED
    BY <2>1, ElementOfSeq
<1> QED
  BY <1>1 DEF Rising

\* A message decoded between polls is the newest and is not forwarded yet.
LEMMA OrderDecode ==
    ASSUME Typed, OrderInv, NEW c \in Channels, NEW down \in BOOLEAN, Decode(c, down),
           moves' = moves + 1, main.pc \notin {"setup", "done"}
    PROVE  OrderInv'
<1> DEFINE e == [id |-> moves, ch |-> c, down |-> down]
<1>1. /\ log' = Append(log, e) /\ torn' = (torn \/ ~MainAt("count"))
      /\ main' = main /\ lastCount' = lastCount /\ forwarded' = forwarded /\ gap' = gap
      /\ MainAt("count") \/ main.pc \in {"index", "recent", "data"}
  BY DEF Decode, Publish, poll
<1>2. /\ log \in Seq(Entry) /\ moves \in Nat /\ forwarded \in Seq(Nat) /\ torn \in BOOLEAN
  BY DEF Typed, ConsoleTyped
<1>3. /\ Len(log) \in Nat /\ DOMAIN log = 1..Len(log)
      /\ Len(log') = Len(log) + 1 /\ DOMAIN log' = 1..Len(log) + 1
      /\ \A i \in 1..Len(log) : log'[i] = log[i]
      /\ log'[Len(log) + 1].id = moves
  <2>1. e \in Entry /\ e.id = moves
    BY <1>2 DEF Entry
  <2> HIDE DEF e
  <2> QED
    BY <1>1, <1>2, <2>1, AppendProperties, LenProperties
<1> HIDE DEF e
<1>4. \A i \in DOMAIN log : log[i].id \in Nat
  <2>1. \A i \in DOMAIN log : log[i] \in Entry
    BY <1>2, <1>3, ElementOfSeq
  <2> QED
    BY <2>1 DEF Entry
<1>5. Numbered'
  <2> SUFFICES ASSUME NEW i \in DOMAIN log'
               PROVE  log'[i].id + Len(log') + 1 = moves' + i
    BY DEF Numbered
  <2>1. CASE i = Len(log) + 1
    <3>1. log'[i].id = moves
      BY <1>3, <2>1
    <3>2. Len(log') = Len(log) + 1 /\ moves' = moves + 1 /\ Len(log) \in Nat /\ moves \in Nat
      BY <1>2, <1>3
    <3> QED
      BY <2>1, <3>1, <3>2
  <2>2. CASE i # Len(log) + 1
    <3>1. i \in DOMAIN log /\ log'[i] = log[i]
      BY <1>3, <2>2
    <3>2. log[i].id + Len(log) + 1 = moves + i
      BY <3>1 DEF OrderInv, Numbered
    <3>3. log'[i].id = log[i].id /\ log[i].id \in Nat /\ i \in Nat
      BY <1>3, <1>4, <3>1
    <3>4. Len(log') = Len(log) + 1 /\ moves' = moves + 1 /\ Len(log) \in Nat /\ moves \in Nat
      BY <1>2, <1>3
    <3> DEFINE x == log[i].id
    <3>5. x \in Nat /\ x + Len(log) + 1 = moves + i /\ log'[i].id = x
      BY <3>2, <3>3
    <3> HIDE DEF x
    <3> QED
      BY <3>3, <3>4, <3>5
  <2> QED
    BY <2>1, <2>2
<1>6. ASSUME ~torn'
      PROVE  Reading' /\ Window' /\ Fresh' /\ Whole' /\ Rising'
  <2>1. ~torn /\ main.pc = "count" /\ main'.pc = "count"
    BY <1>1, <1>2, <1>6 DEF MainAt
  <2>2. Fresh /\ Whole /\ Rising
    BY <2>1 DEF OrderInv
  <2>3. Done = lastCount /\ Done' = lastCount /\ lastCount \in Nat
    BY <1>1, <2>1 DEF Done, MainAt, Typed, MainTyped
  <2>4. Reading' /\ Window'
    BY <2>1 DEF Reading, Window, MainAt
  <2>5. \A k \in DOMAIN forwarded : forwarded[k] \in Nat
    BY <1>2, ElementOfSeq, LenProperties
  <2>6. Fresh'
    <3>1. ASSUME NEW k \in DOMAIN forwarded'
          PROVE  forwarded'[k] < moves'
      BY <1>1, <1>2, <2>2, <2>5 DEF Fresh
    <3>2. ASSUME NEW j \in DOMAIN log', NEW k \in DOMAIN forwarded', j > Done'
          PROVE  forwarded'[k] < log'[j].id
      <4>1. CASE j = Len(log) + 1
        BY <1>1, <1>3, <2>2, <4>1 DEF Fresh
      <4>2. CASE j # Len(log) + 1
        <5>1. j \in DOMAIN log /\ log'[j] = log[j]
          BY <1>3, <4>2
        <5> QED
          BY <1>1, <2>2, <2>3, <3>2, <5>1 DEF Fresh
      <4> QED
        BY <4>1, <4>2
    <3> QED
      BY <3>1, <3>2 DEF Fresh
  <2>7. Whole'
    <3> SUFFICES ASSUME ~gap
                 PROVE  /\ Done' <= Len(log')
                        /\ forwarded' # <<>> =>
                              Done' >= 1 /\ forwarded'[Len(forwarded')] = log'[Done'].id
      BY <1>1 DEF Whole
    <3>1. /\ Done <= Len(log)
          /\ forwarded # <<>> => Done >= 1 /\ forwarded[Len(forwarded)] = log[Done].id
      BY <2>2 DEF Whole
    <3> QED
      BY <1>1, <1>3, <2>3, <3>1
  <2>8. Rising'
    BY <1>1, <2>2 DEF Rising
  <2> QED
    BY <2>4, <2>6, <2>7, <2>8
<1> QED
  BY <1>1, <1>5, <1>6 DEF OrderInv, MainAt

\* What the log's numbers say of two of its messages.
LEMMA Numbers ==
    ASSUME Typed, Numbered
    PROVE  /\ Len(log) \in Nat /\ DOMAIN log = 1..Len(log) /\ moves \in Nat
           /\ \A i \in DOMAIN log : log[i] \in Entry /\ log[i].id \in Nat /\ log[i].id < moves
           /\ \A i, j \in DOMAIN log : log[i].id + j = log[j].id + i
<1>1. /\ log \in Seq(Entry) /\ moves \in Nat
  BY DEF Typed, ConsoleTyped
<1>2. Len(log) \in Nat /\ DOMAIN log = 1..Len(log)
  BY <1>1, LenProperties
<1>3. \A i \in DOMAIN log : log[i] \in Entry
  BY <1>1, <1>2, ElementOfSeq
<1>4. \A i \in DOMAIN log : log[i].id \in Nat
  BY <1>3 DEF Entry
<1>5. \A i \in DOMAIN log : log[i].id + Len(log) + 1 = moves + i
  BY DEF Numbered
<1>6. ASSUME NEW i \in DOMAIN log
      PROVE  log[i].id < moves
  <2> DEFINE x == log[i].id
  <2>1. x \in Nat /\ x + Len(log) + 1 = moves + i
    BY <1>4, <1>5
  <2> HIDE DEF x
  <2>2. x < moves
    BY <1>1, <1>2, <2>1
  <2> QED
    BY <2>2 DEF x
<1>7. ASSUME NEW i \in DOMAIN log, NEW j \in DOMAIN log
      PROVE  log[i].id + j = log[j].id + i
  <2> DEFINE x == log[i].id
             y == log[j].id
  <2>1. x \in Nat /\ x + Len(log) + 1 = moves + i /\ y \in Nat /\ y + Len(log) + 1 = moves + j
    BY <1>4, <1>5
  <2> HIDE DEF x, y
  <2>2. x + j = y + i
    BY <1>1, <1>2, <2>1
  <2> QED
    BY <2>2 DEF x, y
<1> QED
  BY <1>1, <1>2, <1>3, <1>4, <1>6, <1>7

\* The last read of a poll tells whether the ring overran.
LEMMA OrderReadRecent == Typed /\ OrderInv /\ ReadRecent => OrderInv'
<1> SUFFICES ASSUME Typed, OrderInv, ReadRecent
             PROVE  OrderInv'
  OBVIOUS
<1>1. /\ main.pc = "recent" /\ UNCHANGED <<log, moves, forwarded, torn>>
      /\ lastCount' = Least(lastCount, main.count)
      /\ gap' = (gap \/ main.count > lastCount + RingSize)
      /\ main' = [main EXCEPT !.recent = RingCount(log),
                              !.pc = IF main.count > lastCount' THEN "data" ELSE "drain",
                              !.left = DrainPerPoll]
  BY DEF ReadRecent, pollRest, mainRest, MainAt
<1>2. main \in [pc: Steps, todo: SUBSET Channels, count: Nat, index: Nat, recent: 0..RingSize,
                news: Seq(Entry \cup {None}), left: Nat]
      /\ lastCount \in Nat /\ gap \in BOOLEAN /\ forwarded \in Seq(Nat) /\ RingSize \in Nat
  BY Constants DEF Typed, MainTyped, ConsoleTyped
<1>3. /\ main'.recent = RingCount(log) /\ main'.count = main.count /\ main'.index = main.index
      /\ main'.pc = IF main.count > lastCount' THEN "data" ELSE "drain"
  BY <1>1, <1>2
<1>4. Numbered'
  BY <1>1 DEF OrderInv, Numbered
<1>5. ASSUME ~torn
      PROVE  Reading' /\ Window' /\ Fresh' /\ Whole' /\ Rising'
  <2>1. Reading /\ Fresh /\ Whole /\ Rising
    BY <1>5 DEF OrderInv
  <2>2. main.count = Len(log) /\ main.index = Len(log) % RingSize
    BY <1>1, <2>1 DEF Reading
  <2>3. Done = lastCount /\ Done' = lastCount'
    BY <1>1, <1>3 DEF Done, MainAt
  <2>4. lastCount' = IF lastCount < main.count THEN lastCount ELSE main.count
    BY <1>1 DEF Least
  <2>5. Window'
    BY <1>3 DEF Window, MainAt
  <2>6. Reading'
    <3>1. main'.pc \in {"data", "drain"}
      BY <1>3
    <3>2. ASSUME ~gap', main'.pc = "data"
          PROVE  main'.count <= lastCount' + RingSize
      <4>1. ~(main.count > lastCount + RingSize)
        BY <1>1, <3>2
      <4> QED
        BY <1>2, <1>3, <2>4, <4>1
    <3>3. RingCount(log)' = RingCount(log)
      BY <1>1 DEF RingCount
    <3> QED
      BY <1>1, <1>3, <2>2, <3>1, <3>2, <3>3 DEF Reading, MainAt
  <2>7. Len(log) \in Nat /\ DOMAIN log = 1..Len(log)
    BY Numbers DEF OrderInv
  <2>8. Fresh'
    <3>1. ASSUME NEW j \in DOMAIN log, j > lastCount'
          PROVE  j > lastCount
      BY <1>2, <2>2, <2>4, <2>7, <3>1
    <3> QED
      BY <1>1, <2>1, <2>3, <3>1 DEF Fresh
  <2>9. Whole'
    <3> SUFFICES ASSUME ~gap'
                 PROVE  /\ lastCount' <= Len(log)
                        /\ forwarded # <<>> =>
                              lastCount' >= 1 /\ forwarded[Len(forwarded)] = log[lastCount'].id
      BY <1>1, <2>3 DEF Whole
    <3>1. /\ lastCount <= Len(log)
          /\ forwarded # <<>> => lastCount >= 1 /\ forwarded[Len(forwarded)] = log[lastCount].id
      BY <1>1, <2>1, <2>3 DEF Whole
    <3>2. lastCount' = lastCount
      <4>1. CASE lastCount < main.count
        BY <2>4, <4>1
      <4>2. CASE ~(lastCount < main.count)
        <5>1. lastCount = Len(log)
          <6>1. lastCount \in Nat /\ lastCount <= Len(log) /\ ~(lastCount < Len(log))
            BY <1>2, <2>2, <3>1, <4>2
          <6>2. Len(log) \in Nat
            BY <2>7
          <6> QED
            BY <6>1, <6>2
        <5> QED
          BY <2>2, <2>4, <4>2, <5>1
      <4> QED
        BY <4>1, <4>2
    <3> QED
      BY <3>1, <3>2
  <2>10. Rising'
    <3>1. gap' \in BOOLEAN /\ (gap => gap') /\ forwarded' = forwarded
      BY <1>1
    <3> QED
      BY <1>2, <2>1, <3>1, RisingGap
  <2> QED
    BY <2>5, <2>6, <2>8, <2>9, <2>10
<1> QED
  BY <1>1, <1>3, <1>4, <1>5 DEF OrderInv

\* What the poll copied undisturbed.
LEMMA DataRead ==
    ASSUME Typed, OrderInv, ReadData, ~torn
    PROVE  /\ Done = lastCount /\ Done' = Len(log) - Len(main'.news)
           /\ Len(main'.news) \in Nat /\ Len(main'.news) <= Len(log) - lastCount
           /\ ~gap' => Len(main'.news) = Len(log) - lastCount
           /\ \A i \in DOMAIN main'.news : main'.news[i] = log[Len(log) - Len(main'.news) + i]
<1>1. /\ main.pc = "data" /\ UNCHANGED <<log, moves, forwarded, torn, lastCount>>
      /\ gap' = (gap \/ driver = "gone")
      /\ main' = [main EXCEPT !.pc = "forward",
                          !.news = IF driver = "gone" THEN <<>> ELSE Newest(main, Ring(log))]
  BY DEF ReadData, pollRest, mainRest, MainAt
<1>2. main \in [pc: Steps, todo: SUBSET Channels, count: Nat, index: Nat, recent: 0..RingSize,
                news: Seq(Entry \cup {None}), left: Nat]
      /\ lastCount \in Nat /\ gap \in BOOLEAN /\ log \in Seq(Entry) /\ lastCount < main.count
  BY <1>1 DEF Typed, MainTyped, ConsoleTyped, MainAt
<1>3. /\ main'.news = IF driver = "gone" THEN <<>> ELSE Newest(main, Ring(log))
      /\ main'.pc = "forward"
  BY <1>1, <1>2
<1>4. Reading
  BY DEF OrderInv
<1>5. /\ main.count = Len(log) /\ main.index = Len(log) % RingSize /\ main.recent = RingCount(log)
      /\ ~gap => Len(log) <= lastCount + RingSize
  BY <1>1, <1>4 DEF Reading, MainAt
<1>6. Done = lastCount /\ Done' = Len(log) - Len(main'.news)
  BY <1>1, <1>3 DEF Done, MainAt
<1>7. Len(log) \in Nat /\ DOMAIN log = 1..Len(log)
  BY Numbers DEF OrderInv
<1>8. /\ Len(main'.news) \in Nat /\ Len(main'.news) <= Len(log) - lastCount
      /\ ~gap' => Len(main'.news) = Len(log) - lastCount
      /\ \A i \in DOMAIN main'.news : main'.news[i] = log[Len(log) - Len(main'.news) + i]
  <2>1. CASE driver = "gone"
    <3>1. main'.news = <<>> /\ gap'
      BY <1>1, <1>3, <2>1
    <3>2. Len(main'.news) = 0 /\ DOMAIN main'.news = {}
      BY <3>1
    <3> QED
      BY <1>2, <1>5, <1>7, <3>1, <3>2
  <2>2. CASE driver # "gone"
    <3>1. log \in Seq(Entry) /\ lastCount \in Nat /\ lastCount < main.count
      BY <1>2
    <3>2. PICK delta \in Nat :
            /\ delta <= Len(log) - lastCount
            /\ Len(log) <= lastCount + RingSize => delta = Len(log) - lastCount
            /\ Newest(main, Ring(log)) = [k \in 1..delta |-> log[Len(log) - delta + k]]
      BY <1>5, <3>1, NewestIs
    <3>3. main'.news = [k \in 1..delta |-> log[Len(log) - delta + k]]
      BY <1>3, <2>2, <3>2
    <3>4. Len(main'.news) = delta /\ DOMAIN main'.news = 1..delta
      BY <3>2, <3>3
    <3>5. \A i \in DOMAIN main'.news : main'.news[i] = log[Len(log) - delta + i]
      BY <3>3
    <3> QED
      BY <1>1, <1>5, <3>2, <3>4, <3>5
  <2> QED
    BY <2>1, <2>2
<1> QED
  BY <1>6, <1>8

\* The messages copied are those not forwarded yet.
LEMMA OrderReadData == Typed /\ OrderInv /\ ReadData => OrderInv'
<1> SUFFICES ASSUME Typed, OrderInv, ReadData
             PROVE  OrderInv'
  OBVIOUS
<1>1. /\ main.pc = "data" /\ UNCHANGED <<log, moves, forwarded, torn, lastCount>>
      /\ gap' = (gap \/ driver = "gone")
      /\ main' = [main EXCEPT !.pc = "forward",
                          !.news = IF driver = "gone" THEN <<>> ELSE Newest(main, Ring(log))]
  BY DEF ReadData, pollRest, mainRest, MainAt
<1>2. main \in [pc: Steps, todo: SUBSET Channels, count: Nat, index: Nat, recent: 0..RingSize,
                news: Seq(Entry \cup {None}), left: Nat]
      /\ lastCount \in Nat /\ gap \in BOOLEAN /\ forwarded \in Seq(Nat) /\ log \in Seq(Entry)
      /\ lastCount < main.count
  BY <1>1 DEF Typed, MainTyped, ConsoleTyped, MainAt
<1>3. /\ main'.news = IF driver = "gone" THEN <<>> ELSE Newest(main, Ring(log))
      /\ main'.count = main.count /\ main'.pc = "forward"
  BY <1>1, <1>2
<1>4. Numbered'
  BY <1>1 DEF OrderInv, Numbered
<1>5. ASSUME ~torn
      PROVE  Reading' /\ Window' /\ Fresh' /\ Whole' /\ Rising'
  <2>1. Reading /\ Fresh /\ Whole /\ Rising
    BY <1>5 DEF OrderInv
  <2>2. /\ main.count = Len(log) /\ main.index = Len(log) % RingSize /\ main.recent = RingCount(log)
        /\ ~gap => Len(log) <= lastCount + RingSize
    BY <1>1, <2>1 DEF Reading, MainAt
  <2>3. Done = lastCount /\ Done' = Len(log) - Len(main'.news)
    BY <1>1, <1>3 DEF Done, MainAt
  <2>4. Reading'
    BY <1>1, <1>3, <2>2 DEF Reading, MainAt
  <2>5. Len(log) \in Nat /\ DOMAIN log = 1..Len(log)
    BY Numbers DEF OrderInv
  <2>6. /\ Len(main'.news) \in Nat /\ Len(main'.news) <= Len(log) - lastCount
        /\ ~gap' => Len(main'.news) = Len(log) - lastCount
        /\ \A i \in DOMAIN main'.news : main'.news[i] = log[Len(log) - Len(main'.news) + i]
    BY <1>5, DataRead
  <2>7. Window'
    BY <1>1, <1>2, <2>3, <2>5, <2>6 DEF Window
  <2>8. Done' \in Int /\ Done' >= lastCount /\ Done' <= Len(log) /\ (~gap' => Done' = lastCount)
    <3> DEFINE left == Len(main'.news)
    <3>1. left \in Nat /\ left <= Len(log) - lastCount /\ (~gap' => left = Len(log) - lastCount)
          /\ Done' = Len(log) - left
      BY <2>3, <2>6
    <3> HIDE DEF left
    <3>2. lastCount \in Nat /\ Len(log) \in Nat
      BY <1>2, <2>5
    <3>3. Len(log) - left >= lastCount /\ Len(log) - left <= Len(log) /\ Len(log) - left \in Int
      BY <3>1, <3>2
    <3>4. ~gap' => Len(log) - left = lastCount
      BY <3>1, <3>2
    <3> QED
      BY <3>1, <3>3, <3>4, Zenon
  <2>9. Fresh'
    <3>2. \A j \in DOMAIN log : j > Done' => j > lastCount
      BY <1>2, <2>5, <2>8
    <3> QED
      BY <1>1, <2>1, <2>3, <3>2 DEF Fresh
  <2>10. Whole'
    <3>1. ~gap' => ~gap
      BY <1>1
    <3> QED
      BY <1>1, <2>1, <2>3, <2>8, <3>1 DEF Whole
  <2>11. Rising'
    <3>1. gap' \in BOOLEAN /\ (gap => gap') /\ forwarded' = forwarded
      BY <1>1
    <3> QED
      BY <1>2, <2>1, <3>1, RisingGap
  <2> QED
    BY <2>4, <2>7, <2>9, <2>10, <2>11
<1> QED
  BY <1>1, <1>3, <1>4, <1>5 DEF OrderInv

\* The message forwarded is the next of the log.
LEMMA NextForwarded ==
    ASSUME Typed, OrderInv, ForwardMessage, ~torn
    PROVE  /\ Done \in Nat /\ Done' = Done + 1 /\ Done + 1 <= Len(log) /\ Done + 1 \in DOMAIN log
           /\ Head(main.news) = log[Done + 1]
<1>1. /\ main.pc = "forward" /\ log' = log /\ main.news # <<>>
      /\ main' = [main EXCEPT !.news = Tail(@)]
  BY DEF ForwardMessage, mainRest, MainAt
<1>2. main \in [pc: Steps, todo: SUBSET Channels, count: Nat, index: Nat, recent: 0..RingSize,
                news: Seq(Entry \cup {None}), left: Nat]
  BY DEF Typed, MainTyped
<1>3. main'.news = Tail(main.news) /\ main'.pc = "forward"
  BY <1>1, <1>2
<1>4. Len(log) \in Nat /\ DOMAIN log = 1..Len(log)
  BY Numbers DEF OrderInv
<1>5. /\ Len(main.news) \in Nat /\ Len(main.news) >= 1 /\ DOMAIN main.news = 1..Len(main.news)
      /\ Head(main.news) = main.news[1] /\ Len(main'.news) = Len(main.news) - 1
  BY <1>1, <1>2, <1>3, HeadTailProperties, LenProperties, EmptySeq
<1> DEFINE left == Len(main.news)
           d == Len(log) - left
<1>6. Done = d /\ Done' = Len(log) - (left - 1)
  BY <1>1, <1>3, <1>5 DEF Done, MainAt
<1>7. left <= Len(log) /\ main.news[1] = log[Done + 1]
  <2>1. 1 \in DOMAIN main.news
    BY <1>5
  <2> QED
    BY <1>1, <2>1 DEF OrderInv, Window, MainAt
<1>8. left \in Nat /\ left >= 1
  BY <1>5
<1>9. d \in Nat /\ Len(log) - (left - 1) = d + 1 /\ d + 1 <= Len(log) /\ d + 1 \in 1..Len(log)
  <2>1. left \in Nat /\ left >= 1 /\ left <= Len(log) /\ d = Len(log) - left
    BY <1>7, <1>8
  <2> HIDE DEF left, d
  <2> QED
    BY <1>4, <2>1
<1> HIDE DEF left, d
<1> QED
  BY <1>4, <1>5, <1>6, <1>7, <1>9

\* The message forwarded is the next one.
LEMMA OrderForward == Typed /\ OrderInv /\ ForwardMessage => OrderInv'
<1> SUFFICES ASSUME Typed, OrderInv, ForwardMessage
             PROVE  OrderInv'
  OBVIOUS
<1> DEFINE e == Head(main.news)
<1>1. /\ main.pc = "forward" /\ UNCHANGED <<log, moves, torn, lastCount, gap>>
      /\ main.news # <<>> /\ e # None
      /\ forwarded' = Append(forwarded, e.id)
      /\ main' = [main EXCEPT !.news = Tail(@)]
  BY DEF ForwardMessage, mainRest, MainAt
<1>2. main \in [pc: Steps, todo: SUBSET Channels, count: Nat, index: Nat, recent: 0..RingSize,
                news: Seq(Entry \cup {None}), left: Nat]
      /\ lastCount \in Nat /\ gap \in BOOLEAN /\ forwarded \in Seq(Nat) /\ log \in Seq(Entry)
  BY DEF Typed, MainTyped, ConsoleTyped
<1>3. /\ main'.news = Tail(main.news) /\ main'.count = main.count /\ main'.pc = "forward"
  BY <1>1, <1>2
<1>4. Numbered'
  BY <1>1 DEF OrderInv, Numbered
<1>5. /\ Len(log) \in Nat /\ DOMAIN log = 1..Len(log) /\ moves \in Nat
      /\ \A i \in DOMAIN log : log[i].id \in Nat /\ log[i].id < moves
      /\ \A i, j \in DOMAIN log : log[i].id + j = log[j].id + i
  BY Numbers DEF OrderInv
<1>6. /\ Len(main.news) \in Nat /\ Len(main.news) >= 1 /\ DOMAIN main.news = 1..Len(main.news)
      /\ e = main.news[1] /\ Len(main'.news) = Len(main.news) - 1
      /\ DOMAIN main'.news = 1..Len(main.news) - 1
      /\ \A i \in 1..Len(main.news) - 1 : main'.news[i] = main.news[i + 1]
  BY <1>1, <1>2, <1>3, HeadTailProperties, LenProperties, EmptySeq
<1> HIDE DEF e
<1>7. ASSUME ~torn
      PROVE  Reading' /\ Window' /\ Fresh' /\ Whole' /\ Rising'
  <2>1. Reading /\ Window /\ Fresh /\ Whole /\ Rising
    BY <1>7 DEF OrderInv
  <2> DEFINE d == Done
  <2>2. Done = d /\ Done' = d + 1 /\ d \in Nat /\ d + 1 <= Len(log) /\ d + 1 \in DOMAIN log
    BY <1>7, NextForwarded
  <2>3. \A i \in DOMAIN main.news : main.news[i] = log[d + i]
    BY <1>1, <2>1, <2>2 DEF Window, MainAt
  <2> HIDE DEF d
  <2> DEFINE n == e.id
  <2>4. n = log[d + 1].id
    BY <1>6, <2>3
  <2> HIDE DEF n
  <2>5. n \in Nat /\ n < moves
    BY <1>5, <2>2, <2>4
  <2>6. /\ Len(forwarded) \in Nat /\ DOMAIN forwarded = 1..Len(forwarded)
        /\ forwarded' = Append(forwarded, n)
        /\ Len(forwarded') = Len(forwarded) + 1 /\ DOMAIN forwarded' = 1..Len(forwarded) + 1
        /\ \A k \in 1..Len(forwarded) : forwarded'[k] = forwarded[k]
        /\ forwarded'[Len(forwarded) + 1] = n
    <3>1. forwarded' = Append(forwarded, n)
      BY <1>1 DEF n
    <3> QED
      BY <1>2, <2>5, <3>1, AppendProperties, LenProperties
  <2>7. Reading'
    BY <1>1, <1>3, <2>1 DEF Reading, MainAt
  <2>8. Window'
    <3>1. Len(main'.news) <= Len(log)
      <4>1. Len(main.news) <= Len(log)
        BY <1>1, <2>1 DEF Window, MainAt
      <4> QED
        BY <1>5, <1>6, <4>1
    <3>2. ASSUME NEW i \in DOMAIN main'.news
          PROVE  main'.news[i] = log[(d + 1) + i]
      <4>1. i + 1 \in DOMAIN main.news /\ main'.news[i] = main.news[i + 1] /\ i \in Nat
        BY <1>6
      <4>2. d + (i + 1) = (d + 1) + i
        BY <2>2, <4>1
      <4> QED
        BY <2>3, <4>1, <4>2
    <3> QED
      BY <1>1, <2>2, <3>1, <3>2 DEF Window
  <2>9. \A k \in DOMAIN forwarded : forwarded[k] \in Nat
    BY <1>2, <2>6, ElementOfSeq
  <2>10. \A k \in DOMAIN forwarded : forwarded[k] < n
    <3>1. d + 1 > Done
      BY <2>2
    <3> QED
      BY <2>1, <2>2, <2>4, <3>1 DEF Fresh
  <2>11. \A k \in DOMAIN forwarded' : k \in DOMAIN forwarded \/ k = Len(forwarded) + 1
    BY <2>6
  <2>12. Fresh'
    <3>1. \A k \in DOMAIN forwarded' : forwarded'[k] <= n
      BY <2>5, <2>6, <2>9, <2>10, <2>11
    <3>2. \A k \in DOMAIN forwarded' : forwarded'[k] \in Nat
      BY <2>5, <2>6, <2>9, <2>11
    <3>3. \A k \in DOMAIN forwarded' : forwarded'[k] < moves'
      BY <1>1, <1>5, <2>5, <3>1, <3>2
    <3>4. ASSUME NEW j \in DOMAIN log, j > d + 1
          PROVE  log[j].id > n
      <4> DEFINE x == log[j].id
      <4>1. x \in Nat /\ n + j = x + (d + 1)
        BY <1>5, <2>2, <2>4
      <4> HIDE DEF x
      <4>2. x > n
        BY <1>5, <2>2, <2>5, <3>4, <4>1
      <4> QED
        BY <4>2 DEF x
    <3>5. ASSUME NEW j \in DOMAIN log, NEW k \in DOMAIN forwarded', j > d + 1
          PROVE  forwarded'[k] < log[j].id
      BY <1>5, <2>5, <3>1, <3>2, <3>4, <3>5
    <3> QED
      BY <1>1, <2>2, <3>3, <3>5 DEF Fresh
  <2>13. Whole'
    BY <1>1, <2>2, <2>4, <2>6 DEF Whole
  <2>14. Rising'
    <3> SUFFICES ASSUME NEW i \in 1..Len(forwarded') - 1
                 PROVE  IF gap THEN forwarded'[i] < forwarded'[i + 1]
                               ELSE forwarded'[i + 1] = forwarded'[i] + 1
      BY <1>1 DEF Rising
    <3>1. CASE i = Len(forwarded)
      <4>1. i \in DOMAIN forwarded /\ forwarded'[i] = forwarded[i] /\ forwarded'[i + 1] = n
        BY <2>6, <3>1
      <4>2. forwarded[i] < n
        BY <2>10, <4>1
      <4>3. ASSUME ~gap
            PROVE  n = forwarded[i] + 1
        <5>1. d >= 1 /\ forwarded[i] = log[d].id
          <6>1. forwarded # <<>>
            BY <2>6, <4>1, EmptySeq
          <6> QED
            BY <2>1, <2>2, <3>1, <4>3, <6>1 DEF Whole
        <5>2. d \in DOMAIN log
          BY <1>5, <2>2, <5>1
        <5>3. forwarded[i] + (d + 1) = n + d
          BY <1>5, <2>2, <2>4, <5>1, <5>2
        <5> QED
          BY <2>2, <2>5, <2>9, <4>1, <5>3
      <4> QED
        BY <4>1, <4>2, <4>3
    <3>2. CASE i # Len(forwarded)
      <4>1. /\ i \in 1..Len(forwarded) - 1 /\ forwarded'[i] = forwarded[i]
            /\ forwarded'[i + 1] = forwarded[i + 1]
        BY <2>6, <3>2
      <4> QED
        BY <2>1, <4>1 DEF Rising
    <3> QED
      BY <3>1, <3>2
  <2> QED
    BY <2>7, <2>8, <2>12, <2>13, <2>14
<1> QED
  BY <1>1, <1>3, <1>4, <1>7 DEF OrderInv

\* The reads before keep the order.
LEMMA OrderReads == Typed /\ OrderInv /\ (ReadFails \/ ReadCount \/ ReadIndex) => OrderInv'
<1> SUFFICES ASSUME Typed, OrderInv, ReadFails \/ ReadCount \/ ReadIndex
             PROVE  OrderInv'
  OBVIOUS
<1>1. /\ UNCHANGED <<log, moves, forwarded, lastCount, torn, gap>>
      /\ main.pc \in {"count", "index", "recent"}
  BY DEF ReadFails, ReadCount, ReadIndex, pollRest, mainRest, MainAt
<1>2. main \in [pc: Steps, todo: SUBSET Channels, count: Nat, index: Nat, recent: 0..RingSize,
                news: Seq(Entry \cup {None}), left: Nat]
  BY DEF Typed, MainTyped
<1>3. \/ main'.pc \in {"done", "sleep"}
      \/ main'.pc = "index" /\ main'.count = Len(log)
      \/ /\ main.pc = "index" /\ main'.pc = "recent" /\ main'.count = main.count
         /\ main'.index = Len(log) % RingSize
  BY <1>2 DEF ReadFails, ReadCount, ReadIndex, MainAt, Goto
<1>4. Numbered'
  BY <1>1 DEF OrderInv, Numbered
<1>5. Done' = Done
  BY <1>1, <1>3 DEF Done, MainAt
<1>6. ~torn => Fresh' /\ Whole' /\ Rising'
  BY <1>1, <1>5 DEF OrderInv, Fresh, Whole, Rising
<1>7. Window'
  BY <1>3 DEF Window, MainAt
<1>8. ~torn => Reading'
  BY <1>1, <1>3 DEF OrderInv, Reading, MainAt
<1> QED
  BY <1>1, <1>3, <1>4, <1>6, <1>7, <1>8 DEF OrderInv

\* What a poll goes through has no empty slot.
LEMMA NoEmptySlot ==
    ASSUME Typed, OrderInv, SkipEmpty, ~torn
    PROVE  FALSE
<1>m. main \in [pc: Steps, todo: SUBSET Channels, count: Nat, index: Nat, recent: 0..RingSize,
                news: Seq(Entry \cup {None}), left: Nat]
  BY DEF Typed, MainTyped
<1>w. Window
  BY DEF OrderInv
<1>l. /\ Len(log) \in Nat /\ DOMAIN log = 1..Len(log)
      /\ \A i \in DOMAIN log : log[i] \in Entry
  BY Numbers DEF OrderInv
<1>1. main.pc = "forward" /\ main.news # <<>> /\ Head(main.news) = None
  BY DEF SkipEmpty, MainAt
<1>2. /\ Len(main.news) \in Nat /\ Len(main.news) >= 1 /\ DOMAIN main.news = 1..Len(main.news)
      /\ main.news[1] = None
  BY <1>m, <1>1, HeadTailProperties, LenProperties, EmptySeq
<1> DEFINE d == Len(log) - Len(main.news)
<1>3. Done = d /\ Len(main.news) <= Len(log)
  BY <1>w, <1>1 DEF Done, Window, MainAt
<1>4. d + 1 \in DOMAIN log
  <2> DEFINE left == Len(main.news)
  <2>1. left \in Nat /\ left >= 1 /\ left <= Len(log) /\ d = Len(log) - left
    BY <1>2, <1>3
  <2> HIDE DEF left, d
  <2> QED
    BY <1>l, <2>1
<1>5. main.news[1] = log[d + 1]
  <2>1. 1 \in DOMAIN main.news
    BY <1>2
  <2> HIDE DEF d
  <2> QED
    BY <1>w, <1>1, <1>3, <2>1 DEF Window, MainAt
<1> HIDE DEF d
<1>6. None \in Entry
  BY <1>l, <1>2, <1>4, <1>5
<1> QED
  BY <1>6, Constants

\* No slot is empty, and at the end of the loop all are forwarded.
LEMMA OrderForwarded == Typed /\ OrderInv /\ (SkipEmpty \/ ForwardDone) => OrderInv'
<1> SUFFICES ASSUME Typed, OrderInv, SkipEmpty \/ ForwardDone
             PROVE  OrderInv'
  OBVIOUS
<1>1. /\ UNCHANGED <<log, moves, forwarded, torn, gap>> /\ main.pc = "forward"
  BY DEF SkipEmpty, ForwardDone, pollRest, mainRest, MainAt
<1>2. main \in [pc: Steps, todo: SUBSET Channels, count: Nat, index: Nat, recent: 0..RingSize,
                news: Seq(Entry \cup {None}), left: Nat]
  BY DEF Typed, MainTyped
<1>3. /\ Len(log) \in Nat /\ DOMAIN log = 1..Len(log)
      /\ \A i \in DOMAIN log : log[i] \in Entry
  BY Numbers DEF OrderInv
<1>4. Numbered'
  BY <1>1 DEF OrderInv, Numbered
<1>5. main'.pc \in {"forward", "drain"}
  BY <1>2, <1>1 DEF SkipEmpty, ForwardDone, Goto
<1>6. CASE torn
  BY <1>1, <1>4, <1>5, <1>6 DEF OrderInv
<1>7. CASE ~torn
  <2>1. Reading /\ Window /\ Fresh /\ Whole /\ Rising
    BY <1>7 DEF OrderInv
  <2>2. CASE SkipEmpty
    BY <1>7, <2>2, NoEmptySlot
  <2>3. CASE ForwardDone
    <3>1. main.news = <<>> /\ lastCount' = main.count /\ main'.pc = "drain"
      BY <1>2, <2>3 DEF ForwardDone, Goto
    <3>2. main.count = Len(log)
      BY <1>1, <2>1 DEF Reading
    <3>3. Done = Len(log)
      <4>1. Len(main.news) = 0
        BY <3>1
      <4> QED
        BY <1>1, <1>3, <4>1 DEF Done, MainAt
    <3>4. Done' = Done
      BY <3>1, <3>2, <3>3 DEF Done, MainAt
    <3>5. Reading' /\ Window'
      BY <3>1 DEF Reading, Window, MainAt
    <3>6. Fresh' /\ Whole' /\ Rising'
      BY <1>1, <2>1, <3>4 DEF Fresh, Whole, Rising
    <3> QED
      BY <1>1, <1>4, <3>1, <3>5, <3>6 DEF OrderInv
  <2> QED
    BY <2>2, <2>3
<1> QED
  BY <1>6, <1>7

\* Every step keeps the order.
LEMMA OrderStepHolds == Typed /\ OrderInv /\ [Next]_vars => OrderInv'
<1> SUFFICES ASSUME Typed, OrderInv, [Next]_vars
             PROVE  OrderInv'
  OBVIOUS
<1>m. main \in [pc: Steps, todo: SUBSET Channels, count: Nat, index: Nat, recent: 0..RingSize,
                news: Seq(Entry \cup {None}), left: Nat]
  BY DEF Typed, MainTyped
<1>1. CASE UNCHANGED vars
  BY <1>1, OrderSame DEF vars, poll, history, bounds, orderVars
<1>2. CASE Quit
  <2>1. UNCHANGED orderVars /\ main.pc = "count" /\ main'.pc = "done"
    BY <1>2, <1>m DEF Quit, pollRest, mainRest, MainAt, Goto, orderVars
  <2> QED
    BY <2>1, OrderFrame
<1>3. CASE Callback
  BY <1>3, OrderSame DEF Callback, Receive, NoteOn, SuppressEcho, NoteOff, ScheduleSync, Enqueue,
     cbRest, poll, history, bounds, orderVars
<1>4. CASE Environment /\ main.pc \notin {"setup", "done"}
  <2>1. ASSUME NEW c \in Channels, Press(c) \/ Release(c)
        PROVE  OrderInv'
    BY <1>4, <2>1, OrderDecode DEF Press, Release
  <2>2. CASE DriverFault
    <3>1. UNCHANGED <<moves, forwarded, lastCount, main>>
      BY <2>2 DEF DriverFault, poll
    <3>2. CASE UNCHANGED <<log, torn, gap>>
      BY <3>1, <3>2, OrderSame DEF orderVars
    <3>3. CASE Publish(<<>>) /\ gap' = TRUE
      <4>1. /\ log' = <<>> /\ torn' = (torn \/ ~MainAt("count")) /\ torn \in BOOLEAN
            /\ DOMAIN log' = {} /\ gap \in BOOLEAN /\ gap' \in BOOLEAN
            /\ MainAt("count") \/ main.pc \in {"index", "recent", "data"}
        BY <3>3 DEF Publish, Typed, ConsoleTyped
      <4>2. Numbered'
        BY <4>1 DEF Numbered
      <4>3. ASSUME ~torn'
            PROVE  Reading' /\ Window' /\ Fresh' /\ Whole' /\ Rising'
        <5>1. ~torn /\ main.pc = "count" /\ main'.pc = "count"
          BY <3>1, <4>1, <4>3 DEF MainAt
        <5>2. Fresh /\ Whole /\ Rising
          BY <5>1 DEF OrderInv
        <5>3. Reading' /\ Window'
          BY <5>1 DEF Reading, Window, MainAt
        <5>4. Fresh' /\ Whole'
          BY <3>1, <3>3, <4>1, <5>2 DEF Fresh, Whole
        <5>5. Rising'
          BY <3>1, <3>3, <4>1, <5>2, RisingGap DEF Typed, ConsoleTyped
        <5> QED
          BY <5>2, <5>3, <5>4, <5>5
      <4> QED
        BY <3>1, <4>1, <4>2, <4>3 DEF OrderInv, MainAt
    <3> QED
      BY <2>2, <3>2, <3>3 DEF DriverFault, DriverChange
  <2>3. CASE HostAnswers \/ HostSpeaks
    BY <2>3, OrderSame DEF HostAnswers, HostSpeaks, poll, history, bounds, orderVars
  <2> QED
    BY <1>4, <2>1, <2>2, <2>3 DEF Environment
<1>5. CASE Main
  <2>1. CASE SetUp \/ DrainOne \/ DrainDone \/ RelatchDone \/ StartSync \/ ClearLight \/ ClearDone
             \/ Snapshot \/ Sleep
    <3>1. /\ UNCHANGED orderVars
          /\ main.pc \notin {"index", "recent", "data", "forward"}
      BY <2>1 DEF SetUp, DrainOne, DrainDone, RelatchDone, StartSync, ClearLight, ClearDone, Snapshot,
         Sleep, pollRest, mainRest, MainAt, orderVars
    <3>2. /\ main'.pc \notin {"index", "recent", "data", "forward"}
          /\ main'.pc \in {"setup", "start"} => main.pc \in {"setup", "start"}
      BY <2>1, <1>m DEF SetUp, DrainOne, DrainDone, RelatchDone, StartSync, ClearLight, ClearDone,
         Snapshot, Sleep, MainAt, Goto
    <3> QED
      BY <3>1, <3>2, OrderFrame
  <2>2. CASE Relatch
    BY <2>2, OrderSame DEF Relatch, mainRest, orderVars
  <2>3. CASE StartClear
    <3>1. /\ UNCHANGED <<log, moves, forwarded, torn, gap>> /\ main.pc = "start"
          /\ main'.pc = "clear" /\ lastCount' \in {0, Len(log)}
      BY <2>3, <1>m DEF StartClear, mainRest, MainAt
    <3>2. forwarded = <<>> /\ Numbered
      BY <3>1 DEF OrderInv
    <3>3. lastCount' <= Len(log) /\ Done' = lastCount'
      <4>1. Len(log) \in Nat
        BY <3>2, Numbers
      <4> QED
        BY <3>1, <4>1 DEF Done, MainAt
    <3>4. DOMAIN forwarded = {} /\ Len(forwarded) = 0
      BY <3>2
    <3>5. Numbered' /\ Reading' /\ Window'
      BY <3>1, <3>2 DEF Numbered, Reading, Window, MainAt
    <3>6. Fresh' /\ Whole' /\ Rising'
      BY <3>1, <3>2, <3>3, <3>4 DEF Fresh, Whole, Rising
    <3> QED
      BY <3>1, <3>5, <3>6 DEF OrderInv
  <2>4. CASE ReadFails \/ ReadCount \/ ReadIndex
    BY <2>4, OrderReads
  <2>5. CASE ReadRecent
    BY <2>5, OrderReadRecent
  <2>6. CASE ReadData
    BY <2>6, OrderReadData
  <2>7. CASE ForwardMessage
    BY <2>7, OrderForward
  <2>8. CASE SkipEmpty \/ ForwardDone
    BY <2>8, OrderForwarded
  <2> QED
    BY <1>5, <2>1, <2>2, <2>3, <2>4, <2>5, <2>6, <2>7, <2>8 DEF Main
<1> QED
  BY <1>1, <1>2, <1>3, <1>4, <1>5 DEF Next

\* The order's invariant holds at the beginning.
LEMMA OrderInit == Init => OrderInv
<1> SUFFICES ASSUME Init
             PROVE  OrderInv
  OBVIOUS
<1>1. /\ log = <<>> /\ forwarded = <<>> /\ lastCount = 0 /\ main.pc = "setup"
  BY DEF Init
<1>2. DOMAIN log = {} /\ Len(log) = 0 /\ DOMAIN forwarded = {} /\ Len(forwarded) = 0
  BY <1>1
<1>3. Done = 0
  BY <1>1 DEF Done, MainAt
<1> QED
  BY <1>1, <1>2, <1>3 DEF OrderInv, Numbered, Reading, Window, Fresh, Whole, Rising, MainAt

\* Messages of the console reach the host in order and at most once, and none is missed
\* unless the ring overran or was lost, as long as the driver publishes nothing between
\* the reads of a poll: for every length of the ring and every number of messages.
THEOREM OnceInOrderHolds == Spec => []OnceInOrder
<1>1. Typed /\ OrderInv /\ [Next]_vars => OrderInv'
  BY OrderStepHolds
<1>2. OrderInv => OnceInOrder
  BY DEF OrderInv, Rising, OnceInOrder
<1> QED
  BY <1>1, <1>2, OrderInit, TypeCorrect, PTL DEF Spec

-----------------------------------------------------------------------------
(* The lights the bridge keeps and the host's *)

EchoTyped ==
    /\ held \subseteq Channels
    /\ lastPress \in Channels \cup {None}
    /\ onLast \in [Channels -> BOOLEAN]
    /\ released \in [Channels -> Nat \cup {None}]

\* the host's notes not taken up yet: the callback's (0), and those it has not received
NoteAt(i) == IF i = 0 THEN cb.msg ELSE hostOut[i]
NoteSlots == {i \in DOMAIN hostOut : IsNote(hostOut[i])}
               \cup (IF cb.pc = "state" THEN {0} ELSE {})
Pending(c, on) == \E i \in NoteSlots : NoteAt(i).ch = c /\ NoteAt(i).on = on
OneNote == \A i, j \in NoteSlots : NoteAt(i).ch = NoteAt(j).ch => i = j

\* what is to be forwarded: nothing, the press, both messages of one button or its release
Says(j, c, down) == log[j].ch = c /\ log[j].down = down
Turn ==
    \/ held = {} /\ Done = Len(log)
    \/ \E c \in Channels :
          \/ held = {c} /\ Done = Len(log) /\ lastPress = c
          \/ held = {c} /\ Done + 1 = Len(log) /\ Says(Done + 1, c, TRUE) /\ inbox = <<>>
          \/ /\ held = {} /\ Done + 2 = Len(log) /\ inbox = <<>>
             /\ Says(Done + 1, c, TRUE) /\ Says(Done + 2, c, FALSE)
          \/ held = {} /\ Done + 1 = Len(log) /\ Says(Done + 1, c, FALSE) /\ lastPress = c
PressAhead == Done < Len(log) /\ log[Done + 1].down
PressOf(c) == PressAhead /\ log[Done + 1].ch = c

\* what the host has not answered yet is about the button pressed last
Asked(c) == \E i \in DOMAIN inbox : inbox[i].down /\ inbox[i].ch = c
Answering ==
    \A i \in DOMAIN inbox :
        /\ inbox[i].ch = lastPress
        /\ inbox[i].down => i = 1 /\ ~onLast[lastPress]
        /\ ~inbox[i].down => held = {} /\ Done = Len(log) /\ released[lastPress] \in 0..EchoWindow

\* why an off about c is not taken for an echo, and will not be
Unreleased(c) ==
    /\ released[c] \notin 0..EchoWindow /\ c \notin held
    /\ \A j \in DOMAIN log : j > Done => log[j].ch # c
Heard(c) == ~onLast[c] \/ lastPress \notin {None, c} \/ Unreleased(c)

\* the light the bridge keeps is the host's, or will be once the note pending is taken up
Follows(c) ==
    /\ Pending(c, TRUE) => hostLed[c]
    /\ Pending(c, FALSE) /\ hostLed[c] => active[c] /\ IsReleaseEcho(c) /\ ~PressAhead
    /\ Pending(c, FALSE) /\ ~hostLed[c] => ~active[c] \/ Heard(c)
    /\ ~Pending(c, TRUE) /\ ~Pending(c, FALSE) => active[c] = hostLed[c]
    /\ active[c] /\ ~onLast[c] => Pending(c, TRUE) \/ Pending(c, FALSE) \/ Asked(c)
    /\ Pending(c, TRUE) \/ Pending(c, FALSE) => ~PressOf(c) /\ ~Asked(c)

Unlit == main.pc \in {"setup", "start", "clear"} =>
             log = <<>> /\ inbox = <<>> /\ NoteSlots = {} /\ \A c \in Channels : ~active[c]

Following == Unlit /\ Turn /\ Answering /\ OneNote /\ \A c \in Channels : Follows(c)

FollowInv == ~overlap /\ ~torn /\ ~gap => Following

\* No note is gained or lost.
SameNotes ==
    /\ \A c \in Channels, on \in BOOLEAN : Pending(c, on)' <=> Pending(c, on)
    /\ OneNote => OneNote'
    /\ NoteSlots = {} => NoteSlots' = {}

\* Whatever becomes of a message already taken up, the notes pending are the same.
LEMMA NotesStay ==
    ASSUME hostOut' = hostOut, cb' = cb \/ (cb.pc # "state" /\ cb'.pc # "state"),
           0 \notin DOMAIN hostOut
    PROVE  SameNotes
<1>1. NoteSlots' = NoteSlots
  BY DEF NoteSlots
<1>2. \A i \in NoteSlots : NoteAt(i)' = NoteAt(i)
  BY DEF NoteSlots, NoteAt
<1> QED
  BY <1>1, <1>2 DEF SameNotes, OneNote, Pending

\* The message received is the first the host sent.
LEMMA NotesMove ==
    ASSUME Typed, Receive
    PROVE  SameNotes
<1>1. /\ cb.pc = "idle" /\ hostOut # <<>> /\ hostOut' = Tail(hostOut)
      /\ cb'.msg = Head(hostOut)
      /\ IsNote(Head(hostOut)) <=> cb'.pc = "state"
  BY ReceiveTakes DEF Receive
<1>2. hostOut \in Seq(HostMessage)
  BY DEF Typed, HostTyped
<1> DEFINE n == Len(hostOut)
<1>3. /\ n \in Nat /\ n >= 1 /\ DOMAIN hostOut = 1..n /\ DOMAIN hostOut' = 1..n - 1
      /\ Head(hostOut) = hostOut[1]
      /\ \A i \in 1..n - 1 : hostOut'[i] = hostOut[i + 1]
  BY <1>1, <1>2, HeadTailProperties, LenProperties, EmptySeq
<1> HIDE DEF n
<1>4. NoteSlots = {i \in 1..n : IsNote(hostOut[i])}
  BY <1>1, <1>3 DEF NoteSlots
<1>5. NoteSlots' = {i \in 1..n - 1 : IsNote(hostOut[i + 1])}
                      \cup (IF IsNote(hostOut[1]) THEN {0} ELSE {})
  BY <1>1, <1>3 DEF NoteSlots
<1>6. \A i \in NoteSlots' : i \in Nat /\ i + 1 \in NoteSlots /\ NoteAt(i)' = NoteAt(i + 1)
  BY <1>1, <1>3, <1>4, <1>5 DEF NoteAt
<1>7. \A j \in NoteSlots : j - 1 \in NoteSlots' /\ (j - 1) + 1 = j
  BY <1>3, <1>4, <1>5
<1>8. \A j \in NoteSlots : NoteAt(j - 1)' = NoteAt(j)
  BY <1>6, <1>7
<1>9. ASSUME NEW c \in Channels, NEW on \in BOOLEAN
      PROVE  Pending(c, on)' <=> Pending(c, on)
  <2>1. Pending(c, on)' => Pending(c, on)
    BY <1>6 DEF Pending
  <2>2. Pending(c, on) => Pending(c, on)'
    BY <1>7, <1>8 DEF Pending
  <2> QED
    BY <2>1, <2>2
<1>10. OneNote => OneNote'
  <2> SUFFICES ASSUME OneNote, NEW i \in NoteSlots', NEW j \in NoteSlots',
                      NoteAt(i)'.ch = NoteAt(j)'.ch
               PROVE  i = j
    BY DEF OneNote
  <2>1. NoteAt(i + 1).ch = NoteAt(j + 1).ch /\ i \in Nat /\ j \in Nat
    BY <1>6
  <2>2. i + 1 = j + 1
    BY <1>6, <2>1 DEF OneNote
  <2> QED
    BY <2>1, <2>2
<1>11. NoteSlots = {} => NoteSlots' = {}
  BY <1>6
<1> QED
  BY <1>9, <1>10, <1>11 DEF SameNotes

\* The note taken up was the only one about its light.
LEMMA NoteTaken ==
    ASSUME Typed, cb.pc = "state", cb'.pc # "state", hostOut' = hostOut, OneNote
    PROVE  /\ OneNote' /\ NoteSlots # {}
           /\ \A c \in Channels, on \in BOOLEAN :
                 c # cb.msg.ch => (Pending(c, on)' <=> Pending(c, on))
           /\ \A c \in Channels, on \in BOOLEAN :
                 c = cb.msg.ch => ~Pending(c, on)' /\ (Pending(c, on) <=> on = cb.msg.on)
<1>1. hostOut \in Seq(HostMessage)
  BY DEF Typed, HostTyped
<1>2. 0 \notin DOMAIN hostOut
  BY <1>1, LenProperties
<1> DEFINE waiting == {i \in DOMAIN hostOut : IsNote(hostOut[i])}
<1>3. NoteSlots = waiting \cup {0} /\ NoteSlots' = waiting
  BY DEF NoteSlots
<1>4. 0 \notin waiting
  BY <1>2
<1> HIDE DEF waiting
<1>5. \A i \in waiting : NoteAt(i)' = NoteAt(i)
  BY <1>4 DEF NoteAt
<1>6. NoteAt(0) = cb.msg
  BY DEF NoteAt
<1>7. \A i \in waiting : NoteAt(i).ch # cb.msg.ch
  BY <1>3, <1>4, <1>6 DEF OneNote
<1>8. OneNote'
  BY <1>3, <1>5 DEF OneNote
<1>9. ASSUME NEW c \in Channels, NEW on \in BOOLEAN, c # cb.msg.ch
      PROVE  Pending(c, on)' <=> Pending(c, on)
  BY <1>3, <1>5, <1>6, <1>9 DEF Pending
<1>10. ASSUME NEW c \in Channels, NEW on \in BOOLEAN, c = cb.msg.ch
       PROVE  ~Pending(c, on)' /\ (Pending(c, on) <=> on = cb.msg.on)
  <2>1. \A i \in NoteSlots' : NoteAt(i)'.ch # c
    BY <1>3, <1>5, <1>7, <1>10
  <2>2. ~Pending(c, on)'
    BY <2>1 DEF Pending
  <2>3. Pending(c, on) <=> on = cb.msg.on
    BY <1>3, <1>6, <1>7, <1>10 DEF Pending
  <2> QED
    BY <2>2, <2>3
<1> QED
  BY <1>3, <1>8, <1>9, <1>10

\* While the host is free it has no note on the way.
LEMMA NoneOnTheWay ==
    ASSUME HostFree
    PROVE  NoteSlots = {} /\ \A c \in Channels, on \in BOOLEAN : ~Pending(c, on)
<1>1. NoteSlots = {}
  BY DEF HostFree, NoteSlots
<1> QED
  BY <1>1 DEF Pending

\* A free host sends one message.
LEMMA NotesOne ==
    ASSUME HostFree, cb' = cb, NEW m \in HostMessage, hostOut' = Append(hostOut, m)
    PROVE  /\ OneNote'
           /\ ~IsNote(m) => NoteSlots' = {}
           /\ \A c \in Channels, on \in BOOLEAN :
                 Pending(c, on)' <=> IsNote(m) /\ m.ch = c /\ m.on = on
<1>1. hostOut' = <<m>>
  BY DEF HostFree
<1>2. NoteSlots' = IF IsNote(m) THEN {1} ELSE {}
  BY <1>1 DEF NoteSlots, HostFree
<1>3. NoteAt(1)' = m
  BY <1>1 DEF NoteAt
<1>4. OneNote'
  BY <1>2 DEF OneNote
<1>5. ASSUME NEW c \in Channels, NEW on \in BOOLEAN
      PROVE  Pending(c, on)' <=> IsNote(m) /\ m.ch = c /\ m.on = on
  BY <1>2, <1>3 DEF Pending
<1> QED
  BY <1>2, <1>4, <1>5

\* A free host turns one light off and another on.
LEMMA NotesTwo ==
    ASSUME HostFree, cb' = cb, NEW c \in Channels, NEW d \in Channels \ {c},
           hostOut' = hostOut \o <<Note(d, FALSE), Note(c, TRUE)>>
    PROVE  /\ OneNote'
           /\ \A e \in Channels, on \in BOOLEAN :
                 Pending(e, on)' <=> (e = d /\ ~on) \/ (e = c /\ on)
<1> DEFINE a == Note(d, FALSE)
           b == Note(c, TRUE)
<1>1. /\ IsNote(a) /\ a.ch = d /\ a.on = FALSE
      /\ IsNote(b) /\ b.ch = c /\ b.on = TRUE
  BY DEF IsNote, Note
<1>2. hostOut' = <<a, b>>
  BY DEF HostFree
<1> HIDE DEF a, b
<1>3. DOMAIN hostOut' = 1..2 /\ hostOut'[1] = a /\ hostOut'[2] = b
  <2> DEFINE s == <<a, b>>
  <2>1. DOMAIN s = 1..2 /\ s[1] = a /\ s[2] = b
    OBVIOUS
  <2> HIDE DEF s
  <2>2. hostOut' = s
    BY <1>2 DEF s
  <2> QED
    BY <2>1, <2>2
<1>4. \A i \in 1..2 : i = 1 \/ i = 2
  OBVIOUS
<1>5. NoteSlots' = 1..2
  <2>1. cb'.pc # "state"
    BY DEF HostFree
  <2>2. NoteSlots' = {i \in 1..2 : IsNote(hostOut'[i])}
    BY <1>3, <2>1 DEF NoteSlots
  <2>3. \A i \in 1..2 : IsNote(hostOut'[i])
    BY <1>1, <1>3, <1>4
  <2> QED
    BY <2>2, <2>3
<1>6. NoteAt(1)' = a /\ NoteAt(2)' = b
  <2>1. NoteAt(1)' = hostOut'[1] /\ NoteAt(2)' = hostOut'[2]
    BY DEF NoteAt
  <2> QED
    BY <1>3, <2>1
<1>7. OneNote'
  BY <1>1, <1>4, <1>5, <1>6 DEF OneNote
<1>8. ASSUME NEW e \in Channels, NEW on \in BOOLEAN
      PROVE  Pending(e, on)' <=> (e = d /\ ~on) \/ (e = c /\ on)
  <2> DEFINE Is(i) == NoteAt(i)'.ch = e /\ NoteAt(i)'.on = on
  <2>1. Pending(e, on)' <=> \E i \in 1..2 : Is(i)
    BY <1>5 DEF Pending
  <2>2. Is(1) <=> e = d /\ ~on
    BY <1>1, <1>6
  <2>3. Is(2) <=> e = c /\ on
    BY <1>1, <1>6
  <2>4. 1 \in 1..2 /\ 2 \in 1..2
    OBVIOUS
  <2> HIDE DEF Is
  <2> QED
    BY <1>4, <2>1, <2>2, <2>3, <2>4
<1> QED
  BY <1>7, <1>8

\* What an echo is told by keeps its type.
LEMMA EchoStep == Typed /\ EchoTyped /\ [Next]_vars => EchoTyped'
<1> SUFFICES ASSUME Typed, EchoTyped, [Next]_vars
             PROVE  EchoTyped'
  OBVIOUS
<1> DEFINE echo == <<held, lastPress, onLast, released>>
<1>s. ASSUME UNCHANGED echo
      PROVE  EchoTyped'
  BY <1>s DEF EchoTyped
<1>1. CASE UNCHANGED vars \/ Quit
  BY <1>1, <1>s DEF vars, lights, Quit, pollRest, mainRest
<1>2. CASE Callback
  <2>1. CASE NoteOn
    BY <2>1 DEF NoteOn, cbRest, EchoTyped
  <2>2. CASE Callback /\ ~NoteOn
    BY <2>2, <1>s DEF Callback, Receive, SuppressEcho, NoteOff, ScheduleSync, Enqueue, cbRest, lights
  <2> QED
    BY <1>2, <2>1, <2>2
<1>3. CASE Environment
  <2>1. ASSUME NEW c \in Channels, Press(c) \/ Release(c)
        PROVE  EchoTyped'
    <3>1. UNCHANGED <<lastPress, onLast, released>>
      BY <2>1 DEF Press, Release, Decode, lights
    <3>2. held' \subseteq Channels
      BY <2>1 DEF Press, Release, EchoTyped
    <3> QED
      BY <3>1, <3>2 DEF EchoTyped
  <2>2. CASE DriverFault \/ HostAnswers \/ HostSpeaks
    BY <2>2, <1>s DEF DriverFault, HostAnswers, HostSpeaks, lights
  <2> QED
    BY <1>3, <2>1, <2>2 DEF Environment
<1>4. CASE Main
  <2>1. CASE ForwardMessage
    <3>1. main.news \in Seq(Entry \cup {None}) /\ main.news # <<>> /\ Head(main.news) # None
      BY <2>1 DEF ForwardMessage, Typed, MainTyped
    <3>2. Head(main.news).ch \in Channels
      BY <3>1, SeqStays DEF Entry
    <3>3. PICK c \in Channels : c = Head(main.news).ch
      BY <3>2
    <3>4. held' = held /\ Observe(c, Head(main.news).down)
      BY <2>1, <3>3 DEF ForwardMessage, mainRest
    <3>5. lastPress' \in Channels \cup {None} /\ onLast' \in [Channels -> BOOLEAN]
      BY <3>4 DEF Observe, EchoTyped
    <3>6. released' = released \/ released' = [released EXCEPT ![c] = 0]
      BY <3>4 DEF Observe
    <3>7. released' \in [Channels -> Nat \cup {None}]
      BY <3>6 DEF EchoTyped
    <3> QED
      BY <3>4, <3>5, <3>7 DEF EchoTyped
  <2>2. CASE Sleep
    <3>1. UNCHANGED <<held, lastPress, onLast>>
          /\ released' = [c \in Channels |-> Older(released[c], EchoWindow)]
      BY <2>2 DEF Sleep
    <3>2. \A c \in Channels : Older(released[c], EchoWindow) \in Nat \cup {None}
      BY DEF Older, EchoTyped
    <3> QED
      BY <3>1, <3>2 DEF EchoTyped
  <2>3. CASE Main /\ ~ForwardMessage /\ ~Sleep
    BY <2>3, <1>s DEF Main, SetUp, StartClear, ClearLight, ClearDone, ReadFails, ReadCount,
       ReadIndex, ReadRecent, ReadData, SkipEmpty, ForwardDone, DrainOne, DrainDone, Relatch,
       RelatchDone, StartSync, Snapshot, pollRest, mainRest, lights
  <2> QED
    BY <1>4, <2>1, <2>2, <2>3
<1> QED
  BY <1>1, <1>2, <1>3, <1>4 DEF Next

\* Only forwarding a message makes it done.
LEMMA DoneSame ==
    ASSUME Typed, OrderInv, Main, ~ForwardMessage, ~torn', ~gap',
           main.pc = "start" => log = <<>>
    PROVE  Done' = Done /\ log' = log
<1>m. main \in [pc: Steps, todo: SUBSET Channels, count: Nat, index: Nat, recent: 0..RingSize,
                news: Seq(Entry \cup {None}), left: Nat] /\ lastCount \in Nat
  BY DEF Typed, MainTyped
<1>1. log' = log /\ torn' = torn
  BY DEF Main, SetUp, StartClear, ClearLight, ClearDone, ReadFails, ReadCount,
     ReadIndex, ReadRecent, ReadData, SkipEmpty, ForwardDone, DrainOne, DrainDone, Relatch,
     RelatchDone, StartSync, Snapshot, Sleep, pollRest, mainRest
<1>2. gap => gap'
  BY DEF Main, SetUp, StartClear, ClearLight, ClearDone, ReadFails, ReadCount,
     ReadIndex, ReadRecent, ReadData, SkipEmpty, ForwardDone, DrainOne, DrainDone, Relatch,
     RelatchDone, StartSync, Snapshot, Sleep, pollRest, mainRest
<1>3. ~torn /\ ~gap /\ Reading /\ Window /\ Whole
  BY <1>1, <1>2 DEF OrderInv
<1>4. Done <= Len(log)
  BY <1>3 DEF Whole
<1>5. /\ Len(log) \in Nat /\ DOMAIN log = 1..Len(log)
      /\ \A i \in DOMAIN log : log[i] \in Entry
  BY Numbers DEF OrderInv
<1>6. CASE StartClear
  <2>1. log = <<>> /\ main.pc = "start" /\ main'.pc = "clear" /\ lastCount' \in {0, Len(log)}
    BY <1>m, <1>6 DEF StartClear, MainAt
  <2>2. Len(log) = 0
    BY <2>1
  <2>3. Done = lastCount /\ Done' = lastCount'
    BY <2>1 DEF Done, MainAt
  <2> QED
    BY <1>1, <1>m, <1>4, <2>1, <2>2, <2>3
<1>7. CASE ReadRecent
  <2>1. /\ main.pc = "recent" /\ main'.pc \in {"data", "drain"}
        /\ lastCount' = Least(lastCount, main.count)
    BY <1>m, <1>7 DEF ReadRecent, MainAt
  <2>2. main.count = Len(log) /\ Done = lastCount /\ Done' = lastCount'
    BY <1>3, <2>1 DEF Reading, Done, MainAt
  <2>3. lastCount' = lastCount
    <3>1. lastCount <= main.count
      BY <1>4, <2>2
    <3>2. lastCount \in Nat /\ main.count \in Nat
      BY <1>m
    <3>3. Least(lastCount, main.count) = lastCount
      BY <3>1, <3>2 DEF Least
    <3> QED
      BY <2>1, <3>3
  <2> QED
    BY <1>1, <2>2, <2>3
<1>8. CASE ReadData
  <2>1. /\ Done = lastCount /\ Done' = Len(log) - Len(main'.news)
        /\ Len(main'.news) = Len(log) - lastCount
    BY <1>3, <1>8, DataRead
  <2>2. Len(log) - (Len(log) - lastCount) = lastCount
    BY <1>m, <1>5
  <2> QED
    BY <1>1, <2>1, <2>2
<1>9. CASE SkipEmpty
  BY <1>3, <1>9, NoEmptySlot
<1>10. CASE ForwardDone
  <2>1. main.pc = "forward" /\ main.news = <<>> /\ lastCount' = main.count /\ main'.pc = "drain"
    BY <1>m, <1>10 DEF ForwardDone, Goto, MainAt
  <2>2. main.count = Len(log)
    BY <1>3, <2>1 DEF Reading
  <2>3. Done = Len(log)
    <3>1. Len(main.news) = 0
      BY <2>1
    <3> QED
      BY <1>5, <2>1, <3>1 DEF Done, MainAt
  <2> QED
    BY <1>1, <2>1, <2>2, <2>3 DEF Done, MainAt
<1>11. CASE Main /\ ~(StartClear \/ ReadRecent \/ ReadData \/ SkipEmpty \/ ForwardDone)
  <2>1. lastCount' = lastCount
    BY <1>11 DEF Main, SetUp, ClearLight, ClearDone, ReadFails, ReadCount, ReadIndex, DrainOne,
       DrainDone, Relatch, RelatchDone, StartSync, Snapshot, Sleep, pollRest, mainRest
  <2>2. main.pc # "forward" /\ main'.pc # "forward"
    BY <1>m, <1>11 DEF Main, SetUp, ClearLight, ClearDone, ReadFails, ReadCount, ReadIndex, DrainOne,
       DrainDone, Relatch, RelatchDone, StartSync, Snapshot, Sleep, MainAt, Goto
  <2> QED
    BY <1>1, <2>1, <2>2 DEF Done, MainAt
<1> QED
  BY <1>6, <1>7, <1>8, <1>9, <1>10, <1>11

\* A step that touches neither lights, notes nor messages.
LEMMA FollowFrame ==
    ASSUME Following, SameNotes, Done' = Done,
           UNCHANGED <<log, held, inbox, hostLed, active, lastPress, onLast, released>>,
           main'.pc \in {"setup", "start", "clear"} => main.pc \in {"setup", "start", "clear"}
    PROVE  Following'
<1>1. Unlit'
  BY DEF Following, Unlit, SameNotes
<1>2. Turn'
  BY DEF Following, Turn, Says
<1>3. Answering'
  BY DEF Following, Answering
<1>4. OneNote'
  BY DEF Following, SameNotes
<1>5. ASSUME NEW c \in Channels
      PROVE  Follows(c)'
  <2>1. Follows(c)
    BY DEF Following
  <2>2. \A on \in BOOLEAN : Pending(c, on)' <=> Pending(c, on)
    BY DEF SameNotes
  <2>3. (Pending(c, TRUE)' <=> Pending(c, TRUE)) /\ (Pending(c, FALSE)' <=> Pending(c, FALSE))
    BY <2>2
  <2>4. /\ PressAhead' <=> PressAhead
        /\ PressOf(c)' <=> PressOf(c)
        /\ Asked(c)' <=> Asked(c)
        /\ Heard(c)' <=> Heard(c)
        /\ IsReleaseEcho(c)' <=> IsReleaseEcho(c)
    BY DEF PressAhead, PressOf, Asked, Heard, Unreleased, IsReleaseEcho
  <2> QED
    BY <2>1, <2>3, <2>4 DEF Follows
<1> QED
  BY <1>1, <1>2, <1>3, <1>4, <1>5 DEF Following

\* None is not an age.
LEMMA NoAge == EchoWindow \in Nat /\ None \notin 0..EchoWindow
<1>1. {RelatchDelay, SyncDelay, EchoWindow, StartupHold, FaderGap} \subseteq Nat
  BY BridgeAssumption
<1> QED
  BY <1>1, Constants

\* A note pending keeps its light busy.
LEMMA PendingBusy ==
    ASSUME Typed
    PROVE  \A c \in Channels, on \in BOOLEAN : Pending(c, on) => Busy(c)
<1> SUFFICES ASSUME NEW c \in Channels, NEW on \in BOOLEAN, NEW i \in NoteSlots,
                    NoteAt(i).ch = c
             PROVE  Busy(c)
  BY DEF Pending
<1>3. 0 \notin DOMAIN hostOut
  BY LenProperties DEF Typed, HostTyped
<1>1. CASE i \in DOMAIN hostOut /\ IsNote(hostOut[i])
  <2>1. NoteAt(i) = hostOut[i]
    BY <1>3, <1>1 DEF NoteAt
  <2> QED
    BY <1>1, <2>1 DEF Busy
<1>2. CASE i = 0 /\ cb.pc = "state"
  <2>1. NoteAt(i) = cb.msg /\ IsNote(cb.msg)
    BY <1>2 DEF NoteAt, Typed, CallbackTyped
  <2> QED
    BY <1>2, <2>1 DEF Busy
<1> QED
  BY <1>1, <1>2 DEF NoteSlots

\* While notes are pending or messages unanswered, an age within the window stays within.
LEMMA FollowSleep ==
    ASSUME Typed, EchoTyped, Following, Sleep, ~overlap', Done' = Done
    PROVE  Following'
<1>1. /\ UNCHANGED <<log, held, inbox, hostLed, hostOut, cb, active, lastPress, onLast>>
      /\ released' = [c \in Channels |-> Older(released[c], EchoWindow)]
      /\ \A c \in Channels : released[c] = EchoWindow => ~Busy(c)
      /\ main.pc = "sleep" /\ main' = [main EXCEPT !.pc = "count"]
  BY DEF Sleep, MainAt, Goto
<1>2. main'.pc = "count"
  BY <1>1 DEF Typed, MainTyped
<1>3. 0 \notin DOMAIN hostOut
  BY LenProperties DEF Typed, HostTyped
<1>4. SameNotes
  BY <1>1, <1>3, NotesStay
<1>5. \A c \in Channels : released[c] \in Nat \cup {None}
  BY DEF EchoTyped
<1>6. \A c \in Channels : released[c] \notin 0..EchoWindow => released'[c] \notin 0..EchoWindow
  BY <1>1, <1>5, NoAge, Constants DEF Older
<1>7. \A c \in Channels : released[c] \in 0..EchoWindow /\ Busy(c) => released'[c] \in 0..EchoWindow
  BY <1>1, <1>5, NoAge, Constants DEF Older
<1>8. \A c \in Channels, on \in BOOLEAN : Pending(c, on) => Busy(c)
  BY PendingBusy
<1>9. Unlit'
  BY <1>2 DEF Unlit
<1>10. Turn'
  BY <1>1 DEF Following, Turn, Says
<1>11. Answering'
  <2> SUFFICES ASSUME NEW i \in DOMAIN inbox
               PROVE  /\ inbox[i].ch = lastPress
                      /\ inbox[i].down => i = 1 /\ ~onLast[lastPress]
                      /\ ~inbox[i].down => /\ held = {} /\ Done = Len(log)
                                           /\ released'[lastPress] \in 0..EchoWindow
    BY <1>1 DEF Answering
  <2>1. /\ inbox[i].ch = lastPress
        /\ inbox[i].down => i = 1 /\ ~onLast[lastPress]
        /\ ~inbox[i].down => /\ held = {} /\ Done = Len(log)
                             /\ released[lastPress] \in 0..EchoWindow
    BY DEF Following, Answering
  <2>2. inbox[i] \in Entry
    BY ElementOfSeq, LenProperties DEF Typed, ConsoleTyped
  <2>3. lastPress \in Channels
    BY <2>1, <2>2 DEF Entry
  <2>4. Busy(lastPress)
    BY <2>1 DEF Busy
  <2> QED
    BY <1>7, <2>1, <2>3, <2>4
<1>12. ASSUME NEW c \in Channels
       PROVE  Follows(c)'
  <2>1. Follows(c)
    BY DEF Following
  <2>2. \A on \in BOOLEAN : Pending(c, on)' <=> Pending(c, on)
    BY <1>4 DEF SameNotes
  <2>3. (Pending(c, TRUE)' <=> Pending(c, TRUE)) /\ (Pending(c, FALSE)' <=> Pending(c, FALSE))
    BY <2>2
  <2>4. /\ PressAhead' <=> PressAhead
        /\ PressOf(c)' <=> PressOf(c)
        /\ Asked(c)' <=> Asked(c)
    BY <1>1 DEF PressAhead, PressOf, Asked
  <2>5. Heard(c) => Heard(c)'
    BY <1>1, <1>6 DEF Heard, Unreleased
  <2>6. Pending(c, FALSE) /\ IsReleaseEcho(c) => IsReleaseEcho(c)'
    BY <1>1, <1>7, <1>8 DEF IsReleaseEcho
  <2> QED
    BY <1>1, <2>1, <2>3, <2>4, <2>5, <2>6 DEF Follows
<1> QED
  BY <1>4, <1>9, <1>10, <1>11, <1>12 DEF Following, SameNotes

\* A message forwarded is noted before the host can answer it.
LEMMA FollowForward ==
    ASSUME Typed, EchoTyped, OrderInv, Following, ForwardMessage, ~torn
    PROVE  Following'
<1> DEFINE m == Head(main.news)
<1>1. /\ UNCHANGED <<log, held, hostLed, hostOut, cb, active>>
      /\ Observe(m.ch, m.down) /\ inbox' = Append(inbox, m)
      /\ main.pc = "forward" /\ main' = [main EXCEPT !.news = Tail(@)]
  BY DEF ForwardMessage, mainRest, MainAt
<1>2. /\ Done \in Nat /\ Done' = Done + 1 /\ Done + 1 <= Len(log) /\ Done + 1 \in DOMAIN log
      /\ m = log[Done + 1]
  BY NextForwarded
<1>3. main'.pc = "forward"
  BY <1>1 DEF Typed, MainTyped
<1>4. 0 \notin DOMAIN hostOut
  BY LenProperties DEF Typed, HostTyped
<1>5. SameNotes
  BY <1>1, <1>4, NotesStay
<1>6. /\ Len(log) \in Nat /\ DOMAIN log = 1..Len(log)
      /\ \A i \in DOMAIN log : log[i] \in Entry
  BY Numbers DEF OrderInv
<1>7. inbox \in Seq(Entry) /\ m \in Entry
  BY <1>2, <1>6 DEF Typed, ConsoleTyped
<1> HIDE DEF m
<1> DEFINE n == Len(inbox)
<1>8. /\ n \in Nat /\ DOMAIN inbox = 1..n /\ DOMAIN inbox' = 1..n + 1
      /\ \A i \in 1..n : inbox'[i] = inbox[i]
      /\ inbox'[n + 1] = m
  BY <1>1, <1>7, AppendProperties, LenProperties
<1>9. n = 0 <=> inbox = <<>>
  BY <1>7, EmptySeq
<1> HIDE DEF n
<1>10. Unlit'
  BY <1>3 DEF Unlit
<1>11. OneNote'
  BY <1>5 DEF SameNotes, Following
<1>12. PICK c \in Channels : c = m.ch
  BY <1>7 DEF Entry
<1>13. m.down \in BOOLEAN
  BY <1>7 DEF Entry
<1>16. Done # Len(log)
  <2> DEFINE k == Done
             l == Len(log)
  <2>1. k \in Nat /\ l \in Nat /\ k + 1 <= l
    BY <1>2, <1>6
  <2> HIDE DEF k, l
  <2>2. k # l
    BY <2>1
  <2> QED
    BY <2>2 DEF k, l
<1>14. CASE m.down
  <2>1. /\ lastPress' = c /\ onLast' = [onLast EXCEPT ![c] = FALSE] /\ released' = released
    BY <1>1, <1>12, <1>14 DEF Observe
  <2>2. onLast'[c] = FALSE /\ \A d \in Channels : ~onLast[d] => ~onLast'[d]
    BY <2>1 DEF EchoTyped
  <2>3. PressAhead /\ PressOf(c)
    BY <1>2, <1>6, <1>12, <1>14 DEF PressAhead, PressOf
  <2>4. /\ inbox = <<>>
        /\ \/ held = {c} /\ Done + 1 = Len(log)
           \/ held = {} /\ Done + 2 = Len(log) /\ Says(Done + 2, c, FALSE)
    <3>1. PICK d \in Channels :
             \/ held = {d} /\ Done + 1 = Len(log) /\ Says(Done + 1, d, TRUE) /\ inbox = <<>>
             \/ /\ held = {} /\ Done + 2 = Len(log) /\ inbox = <<>>
                /\ Says(Done + 1, d, TRUE) /\ Says(Done + 2, d, FALSE)
             \/ Says(Done + 1, d, FALSE)
      BY <1>16 DEF Following, Turn
    <3>2. d = c /\ ~Says(Done + 1, d, FALSE)
      BY <1>2, <1>12, <1>14, <3>1 DEF Says
    <3> QED
      BY <3>1, <3>2
  <2>5. n = 0
    BY <1>9, <2>4
  <2>6. Turn'
    <3>1. \/ held' = {c} /\ Done' = Len(log') /\ lastPress' = c
          \/ held' = {} /\ Done' + 1 = Len(log') /\ Says(Done + 1, c, FALSE)' /\ lastPress' = c
      BY <1>1, <1>2, <1>6, <2>1, <2>4 DEF Says
    <3> QED
      BY <3>1 DEF Turn
  <2>7. Answering'
    <3> SUFFICES ASSUME NEW i \in DOMAIN inbox'
                 PROVE  /\ inbox'[i].ch = lastPress'
                        /\ inbox'[i].down /\ i = 1 /\ ~onLast'[lastPress']
      BY DEF Answering
    <3>1. i = 1 /\ inbox'[i] = m
      BY <1>8, <2>5
    <3> QED
      BY <1>12, <1>14, <2>1, <2>2, <3>1
  <2>8. ~PressAhead'
    BY <1>1, <1>2, <1>6, <2>4 DEF PressAhead, Says
  <2>9. ASSUME NEW d \in Channels
        PROVE  Follows(d)'
    <3>1. Follows(d)
      BY DEF Following
    <3>2. \A on \in BOOLEAN : Pending(d, on)' <=> Pending(d, on)
      BY <1>5 DEF SameNotes
    <3>3. (Pending(d, TRUE)' <=> Pending(d, TRUE)) /\ (Pending(d, FALSE)' <=> Pending(d, FALSE))
      BY <3>2
    <3>4. Pending(d, TRUE) \/ Pending(d, FALSE) => d # c
      BY <2>3, <3>1 DEF Follows
    <3>5. Asked(d)' <=> d = c
      <4>1. DOMAIN inbox' = {1} /\ inbox'[1] = m
        BY <1>8, <2>5
      <4> QED
        BY <1>12, <1>14, <4>1 DEF Asked
    <3>6. d # c => onLast'[d] = onLast[d]
      BY <2>1 DEF EchoTyped
    <3>7. ~Asked(d)
      BY <2>4 DEF Asked
    <3>8. Heard(d) /\ d # c => Heard(d)'
      <4>1. c # None
        BY Constants
      <4> QED
        BY <2>1, <4>1 DEF Heard
    <3>9. ~PressOf(d)'
      BY <2>8 DEF PressOf
    <3>10. ~(Pending(d, FALSE) /\ hostLed[d])
      BY <2>3, <3>1 DEF Follows
    <3> QED
      BY <1>1, <3>1, <3>3, <3>4, <3>5, <3>6, <3>7, <3>8, <3>9, <3>10 DEF Follows
  <2> QED
    BY <1>10, <1>11, <2>6, <2>7, <2>9 DEF Following
<1>15. CASE ~m.down
  <2>1. /\ released' = [released EXCEPT ![c] = 0] /\ UNCHANGED <<lastPress, onLast>>
    BY <1>1, <1>12, <1>15 DEF Observe
  <2>2. /\ held = {} /\ Done + 1 = Len(log) /\ lastPress = c
    <3>1. PICK d \in Channels :
             \/ Says(Done + 1, d, TRUE)
             \/ held = {} /\ Done + 1 = Len(log) /\ Says(Done + 1, d, FALSE) /\ lastPress = d
      BY <1>16 DEF Following, Turn
    <3>2. d = c /\ ~Says(Done + 1, d, TRUE)
      BY <1>2, <1>12, <1>15, <3>1 DEF Says
    <3> QED
      BY <3>1, <3>2
  <2>3. released'[c] \in 0..EchoWindow /\ \A d \in Channels : d # c => released'[d] = released[d]
    BY <2>1, NoAge DEF EchoTyped
  <2>4. ~PressAhead /\ ~PressAhead'
    <3>1. ~(Done' < Len(log'))
      BY <1>1, <1>2, <1>6, <2>2
    <3> QED
      BY <1>2, <1>15, <3>1 DEF PressAhead
  <2>5. Turn'
    BY <1>1, <1>2, <2>2 DEF Turn
  <2>6. \A i \in DOMAIN inbox : inbox[i].ch = lastPress /\ inbox[i].down /\ i = 1 /\ ~onLast[lastPress]
    BY <1>16 DEF Following, Answering
  <2>7. Answering'
    <3> SUFFICES ASSUME NEW i \in DOMAIN inbox'
                 PROVE  /\ inbox'[i].ch = lastPress
                        /\ inbox'[i].down => i = 1 /\ ~onLast[lastPress]
      BY <1>1, <1>2, <2>1, <2>2, <2>3 DEF Answering
    <3>1. CASE i = n + 1
      BY <1>8, <1>12, <1>15, <2>2, <3>1
    <3>2. CASE i # n + 1
      BY <1>8, <2>6, <3>2
    <3> QED
      BY <3>1, <3>2
  <2>8. ASSUME NEW d \in Channels
        PROVE  Follows(d)'
    <3>1. Follows(d)
      BY DEF Following
    <3>2. \A on \in BOOLEAN : Pending(d, on)' <=> Pending(d, on)
      BY <1>5 DEF SameNotes
    <3>3. (Pending(d, TRUE)' <=> Pending(d, TRUE)) /\ (Pending(d, FALSE)' <=> Pending(d, FALSE))
      BY <3>2
    <3>4. Asked(d)' <=> Asked(d)
      <4>1. \A i \in DOMAIN inbox' : i \in DOMAIN inbox \/ i = n + 1
        BY <1>8
      <4>2. ~inbox'[n + 1].down
        BY <1>8, <1>15
      <4>3. \A i \in DOMAIN inbox : i \in DOMAIN inbox' /\ inbox'[i] = inbox[i]
        BY <1>8
      <4> QED
        BY <4>1, <4>2, <4>3 DEF Asked
    <3>5. Heard(d) => Heard(d)'
      <4>1. CASE d = c
        <5>1. ~Unreleased(c)
          BY <1>2, <1>12 DEF Unreleased
        <5> QED
          BY <2>1, <4>1, <5>1 DEF Heard
      <4>2. CASE d # c
        <5>1. Unreleased(d) => Unreleased(d)'
          <6>1. \A j \in DOMAIN log : j > Done' => j > Done
            BY <1>2, <1>6
          <6> QED
            BY <1>1, <2>3, <4>2, <6>1 DEF Unreleased
        <5> QED
          BY <2>1, <5>1 DEF Heard
      <4> QED
        BY <4>1, <4>2
    <3>6. IsReleaseEcho(d) => IsReleaseEcho(d)'
      BY <2>1, <2>3 DEF IsReleaseEcho
    <3>7. ~PressOf(d) /\ ~PressOf(d)'
      BY <2>4 DEF PressOf
    <3> QED
      BY <1>1, <2>1, <2>4, <3>1, <3>3, <3>4, <3>5, <3>6, <3>7 DEF Follows
  <2> QED
    BY <1>10, <1>11, <2>5, <2>7, <2>8 DEF Following
<1> QED
  BY <1>13, <1>14, <1>15

\* Nothing of a button or light that is not busy is ahead, unanswered or pending.
LEMMA QuietButton ==
    ASSUME Typed, OrderInv, ~torn, NEW c \in Channels, ~Busy(c)
    PROVE  /\ \A j \in DOMAIN log : j > Done => log[j].ch # c
           /\ \A i \in DOMAIN inbox : inbox[i].ch # c
           /\ \A on \in BOOLEAN : ~Pending(c, on)
<1>1. \A k \in DOMAIN forwarded : forwarded[k] \in Nat
  BY ElementOfSeq, LenProperties DEF Typed, ConsoleTyped
<1>2. \A j \in DOMAIN log : log[j].id \in Nat
  BY Numbers DEF OrderInv
<1>3. ASSUME NEW j \in DOMAIN log, j > Done
      PROVE  log[j].ch # c
  <2>1. \A k \in DOMAIN forwarded : forwarded[k] < log[j].id
    BY <1>3 DEF OrderInv, Fresh
  <2>2. \A k \in DOMAIN forwarded : forwarded[k] # log[j].id
    BY <1>1, <1>2, <2>1
  <2> QED
    BY <2>2 DEF Busy
<1>4. \A i \in DOMAIN inbox : inbox[i].ch # c
  BY DEF Busy
<1> QED
  BY <1>3, <1>4, PendingBusy

\* What is pressed while nothing is under way is the only thing ahead.
LEMMA FollowPress ==
    ASSUME Typed, EchoTyped, OrderInv, Following, NEW c \in Channels, Press(c),
           ~overlap', ~torn', main.pc \notin {"setup", "done"}
    PROVE  Following'
<1> DEFINE e == [id |-> moves, ch |-> c, down |-> TRUE]
<1>1. /\ main.pc = "count" /\ log' = Append(log, e) /\ ~torn
      /\ held = {} /\ held' = {c} /\ \A d \in Channels : ~Busy(d)
      /\ UNCHANGED <<main, lastCount, inbox, hostOut, hostLed, cb, active, lastPress, onLast,
                     released>>
  BY DEF Press, Decode, Publish, MainAt, poll, lights
<1>2. Done' = Done
  BY <1>1 DEF Done, MainAt
<1>3. /\ Len(log) \in Nat /\ DOMAIN log = 1..Len(log)
      /\ \A i \in DOMAIN log : log[i] \in Entry
  BY Numbers DEF OrderInv
<1>4. /\ Len(log') = Len(log) + 1
      /\ log'[Len(log) + 1].ch = c /\ log'[Len(log) + 1].down = TRUE
  <2>1. log \in Seq(Entry) /\ e \in Entry /\ e.ch = c /\ e.down = TRUE
    BY DEF Typed, ConsoleTyped, Entry
  <2> HIDE DEF e
  <2> QED
    BY <1>1, <2>1, AppendProperties
<1> HIDE DEF e
<1>5. /\ \A j \in DOMAIN log : ~(j > Done)
      /\ DOMAIN inbox = {}
      /\ \A d \in Channels, on \in BOOLEAN : ~Pending(d, on)
  <2>1. \A j \in DOMAIN log : log[j].ch \in Channels
    BY <1>3 DEF Entry
  <2>2. \A i \in DOMAIN inbox : inbox[i] \in Entry
    BY ElementOfSeq, LenProperties DEF Typed, ConsoleTyped
  <2>3. \A i \in DOMAIN inbox : inbox[i].ch \in Channels
    BY <2>2 DEF Entry
  <2> QED
    BY <1>1, <2>1, <2>3, QuietButton
<1>6. inbox = <<>>
  BY <1>5, LenProperties, EmptySeq DEF Typed, ConsoleTyped
<1>7. Done = Len(log)
  <2>1. Done \in Nat \/ Done = Len(log)
    BY <1>1 DEF Done, MainAt, Typed, MainTyped
  <2>2. ~(Done + 1 = Len(log)) /\ ~(Done + 2 = Len(log))
    <3> DEFINE k == Done
               l == Len(log)
    <3>1. (k \in Nat \/ k = l) /\ l \in Nat /\ DOMAIN log = 1..l /\ \A j \in DOMAIN log : ~(j > k)
      BY <1>3, <1>5, <2>1
    <3> HIDE DEF k, l
    <3>2. \A j \in 1..l : ~(j > k)
      BY <3>1
    <3>3. ~(k + 1 = l) /\ ~(k + 2 = l)
      BY <3>1, <3>2
    <3> QED
      BY <3>3 DEF k, l
  <2>3. \A d : held # {d}
    BY <1>1
  <2> QED
    BY <2>2, <2>3 DEF Following, Turn
<1>8. 0 \notin DOMAIN hostOut
  BY LenProperties DEF Typed, HostTyped
<1>9. SameNotes
  BY <1>1, <1>8, NotesStay
<1>10. Turn'
  <2>1. /\ held' = {c} /\ Done' + 1 = Len(log') /\ inbox' = <<>>
        /\ log'[Done' + 1].ch = c /\ log'[Done' + 1].down = TRUE
    BY <1>1, <1>2, <1>4, <1>6, <1>7
  <2> QED
    BY <2>1 DEF Turn, Says
<1>11. Answering'
  BY <1>1, <1>5 DEF Answering
<1>12. ASSUME NEW d \in Channels
       PROVE  Follows(d)'
  <2>1. Follows(d) /\ ~Pending(d, TRUE) /\ ~Pending(d, FALSE)
    BY <1>5 DEF Following
  <2>2. \A on \in BOOLEAN : Pending(d, on)' <=> Pending(d, on)
    BY <1>9 DEF SameNotes
  <2>3. ~Pending(d, TRUE)' /\ ~Pending(d, FALSE)'
    BY <2>1, <2>2
  <2>4. ~Asked(d)
    BY <1>5 DEF Asked
  <2> QED
    BY <1>1, <2>1, <2>3, <2>4 DEF Follows
<1> QED
  BY <1>1, <1>9, <1>10, <1>11, <1>12 DEF Following, SameNotes, Unlit

\* The release comes right after the press.
LEMMA FollowRelease ==
    ASSUME Typed, EchoTyped, OrderInv, Following, NEW c \in Channels, Release(c),
           ~torn', main.pc \notin {"setup", "done"}
    PROVE  Following'
<1> DEFINE e == [id |-> moves, ch |-> c, down |-> FALSE]
<1>1. /\ main.pc = "count" /\ log' = Append(log, e) /\ ~torn
      /\ c \in held /\ held' = held \ {c}
      /\ UNCHANGED <<main, lastCount, inbox, hostOut, hostLed, cb, active, lastPress, onLast,
                     released>>
  BY DEF Release, Decode, Publish, MainAt, poll, lights
<1>2. Done' = Done
  BY <1>1 DEF Done, MainAt
<1>3. Len(log) \in Nat /\ DOMAIN log = 1..Len(log)
  BY Numbers DEF OrderInv
<1>4. /\ Len(log') = Len(log) + 1 /\ DOMAIN log' = 1..Len(log) + 1
      /\ log'[Len(log) + 1].ch = c /\ log'[Len(log) + 1].down = FALSE
      /\ \A j \in DOMAIN log : log'[j] = log[j]
  <2>1. log \in Seq(Entry) /\ e \in Entry /\ e.ch = c /\ e.down = FALSE
    BY DEF Typed, ConsoleTyped, Entry
  <2> HIDE DEF e
  <2> QED
    BY <1>1, <1>3, <2>1, AppendProperties, LenProperties
<1> HIDE DEF e
<1>5. 0 \notin DOMAIN hostOut
  BY LenProperties DEF Typed, HostTyped
<1>6. SameNotes
  BY <1>1, <1>5, NotesStay
<1>7. /\ held = {c}
      /\ \/ Done = Len(log) /\ lastPress = c
         \/ Done + 1 = Len(log) /\ Says(Done + 1, c, TRUE) /\ inbox = <<>>
  <2>1. held # {}
    BY <1>1
  <2>2. PICK d \in Channels :
           /\ held = {d}
           /\ \/ Done = Len(log) /\ lastPress = d
              \/ Done + 1 = Len(log) /\ Says(Done + 1, d, TRUE) /\ inbox = <<>>
    BY <2>1 DEF Following, Turn
  <2>3. d = c
    BY <1>1, <2>2
  <2> QED
    BY <2>2, <2>3
<1>8. held' = {}
  BY <1>1, <1>7
<1>9. Done \in Nat
  BY <1>1 DEF Done, MainAt, Typed, MainTyped
<1>10. \/ Done = Len(log) /\ lastPress = c /\ ~PressAhead /\ ~PressAhead' /\ Turn'
       \/ /\ Done + 1 = Len(log) /\ inbox = <<>> /\ PressAhead /\ PressAhead' /\ Turn'
          /\ log'[Done + 1] = log[Done + 1]
  <2>1. CASE Done = Len(log) /\ lastPress = c
    <3>1. ~PressAhead
      BY <1>3, <2>1 DEF PressAhead
    <3>2. ~PressAhead'
      BY <1>2, <1>4, <2>1 DEF PressAhead
    <3>3. Turn'
      <4>1. /\ held' = {} /\ Done' + 1 = Len(log') /\ lastPress' = c
            /\ log'[Done' + 1].ch = c /\ log'[Done' + 1].down = FALSE
        BY <1>1, <1>2, <1>4, <1>8, <2>1
      <4> QED
        BY <4>1 DEF Turn, Says
    <3> QED
      BY <2>1, <3>1, <3>2, <3>3
  <2>2. CASE Done + 1 = Len(log) /\ Says(Done + 1, c, TRUE) /\ inbox = <<>>
    <3>1. Done + 1 \in DOMAIN log /\ Done < Len(log) /\ Done < Len(log) + 1
      BY <1>3, <1>9, <2>2
    <3>2. log'[Done + 1] = log[Done + 1]
      BY <1>4, <3>1
    <3>3. PressAhead /\ PressAhead'
      BY <1>2, <1>4, <2>2, <3>1, <3>2 DEF PressAhead, Says
    <3>4. Turn'
      <4>1. (Done + 1) + 1 = Done + 2
        BY <1>9
      <4>2. Done' + 2 = Len(log')
        BY <1>2, <1>4, <2>2, <4>1
      <4>3. log'[Done' + 1].ch = c /\ log'[Done' + 1].down = TRUE
        BY <1>2, <2>2, <3>2 DEF Says
      <4>4. log'[Done' + 2].ch = c /\ log'[Done' + 2].down = FALSE
        BY <1>2, <1>4, <2>2, <4>1
      <4> QED
        BY <1>1, <1>8, <2>2, <4>2, <4>3, <4>4 DEF Turn, Says
    <3> QED
      BY <2>2, <3>2, <3>3, <3>4
  <2> QED
    BY <1>7, <2>1, <2>2
<1>11. Turn' /\ (PressAhead' <=> PressAhead)
  BY <1>10
<1>12. Answering'
  <2>1. \A i \in DOMAIN inbox : inbox[i].ch = lastPress /\ inbox[i].down /\ i = 1 /\ ~onLast[lastPress]
    BY <1>7 DEF Following, Answering
  <2> QED
    BY <1>1, <2>1 DEF Answering
<1>13. ASSUME NEW d \in Channels
       PROVE  Follows(d)'
  <2>1. Follows(d)
    BY DEF Following
  <2>2. \A on \in BOOLEAN : Pending(d, on)' <=> Pending(d, on)
    BY <1>6 DEF SameNotes
  <2>3. (Pending(d, TRUE)' <=> Pending(d, TRUE)) /\ (Pending(d, FALSE)' <=> Pending(d, FALSE))
    BY <2>2
  <2>4. PressOf(d)' <=> PressOf(d)
    BY <1>2, <1>10 DEF PressOf
  <2>5. Asked(d)' <=> Asked(d)
    BY <1>1 DEF Asked
  <2>6. Heard(d) => Heard(d)'
    <3>1. Unreleased(d) => Unreleased(d)'
      <4> SUFFICES ASSUME Unreleased(d)
                   PROVE  Unreleased(d)'
        OBVIOUS
      <4>1. d # c
        BY <1>1 DEF Unreleased
      <4>2. \A j \in DOMAIN log' : j \in DOMAIN log \/ j = Len(log) + 1
        BY <1>3, <1>4
      <4>3. \A j \in DOMAIN log' : j > Done => log'[j].ch # d
        BY <1>4, <4>1, <4>2 DEF Unreleased
      <4> QED
        BY <1>1, <1>2, <1>8, <4>3 DEF Unreleased
    <3> QED
      BY <1>1, <3>1 DEF Heard
  <2>7. IsReleaseEcho(d)' <=> IsReleaseEcho(d)
    BY <1>1 DEF IsReleaseEcho
  <2> QED
    BY <1>1, <1>11, <2>1, <2>3, <2>4, <2>5, <2>6, <2>7 DEF Follows
<1> QED
  BY <1>1, <1>6, <1>11, <1>12, <1>13 DEF Following, SameNotes, Unlit

\* A note that turns a light on is the host's last word about it.
LEMMA FollowOn ==
    ASSUME Typed, EchoTyped, Following, NoteOn
    PROVE  Following'
<1> DEFINE c == cb.msg.ch
<1>1. /\ cb.pc = "state" /\ cb.msg.on /\ cb' = [cb EXCEPT !.pc = "due"]
      /\ active' = [active EXCEPT ![cb.msg.ch] = TRUE]
      /\ onLast' = [onLast EXCEPT ![cb.msg.ch] = TRUE]
      /\ UNCHANGED <<main, lastCount, log, held, inbox, hostLed, hostOut, lastPress, released>>
  BY DEF NoteOn, cbRest, poll
<1>2. IsNote(cb.msg) /\ cb.msg \in HostMessage
  BY <1>1 DEF Typed, CallbackTyped
<1>3. c \in Channels /\ cb.msg.on = TRUE
  BY <1>1, <1>2, MessageKinds
<1>4. cb'.pc = "due"
  BY <1>1 DEF Typed, CallbackTyped
<1>5. Done' = Done
  BY <1>1 DEF Done, MainAt
<1>6. PICK k \in Channels : k = cb.msg.ch
  BY <1>3
<1> HIDE DEF c
<1>7. /\ OneNote' /\ NoteSlots # {}
      /\ \A d \in Channels, on \in BOOLEAN : d # k => (Pending(d, on)' <=> Pending(d, on))
      /\ ~Pending(k, TRUE)' /\ ~Pending(k, FALSE)' /\ Pending(k, TRUE)
  BY <1>1, <1>3, <1>4, <1>6, NoteTaken DEF Following
<1>8. /\ active'[k] = TRUE /\ onLast'[k] = TRUE
      /\ \A d \in Channels : d # k => active'[d] = active[d] /\ onLast'[d] = onLast[d]
  BY <1>1, <1>6 DEF EchoTyped, Typed, LightsTyped
<1>9. hostLed[k] = TRUE /\ ~Asked(k)
  BY <1>7 DEF Following, Follows, Typed, HostTyped
<1>10. Unlit'
  BY <1>1, <1>7 DEF Following, Unlit
<1>11. Turn'
  BY <1>1, <1>5 DEF Following, Turn, Says
<1>12. Answering'
  <2> SUFFICES ASSUME NEW i \in DOMAIN inbox, inbox[i].down
               PROVE  ~onLast'[lastPress]
    BY <1>1, <1>5 DEF Following, Answering
  <2>1. inbox[i].ch = lastPress /\ ~onLast[lastPress]
    BY DEF Following, Answering
  <2>2. inbox[i] \in Entry
    BY ElementOfSeq, LenProperties DEF Typed, ConsoleTyped
  <2>3. lastPress \in Channels /\ lastPress # k
    BY <1>9, <2>1, <2>2 DEF Asked, Entry
  <2> QED
    BY <1>8, <2>1, <2>3
<1>13. ASSUME NEW d \in Channels
       PROVE  Follows(d)'
  <2>1. Follows(d)
    BY DEF Following
  <2>2. CASE d = k
    BY <1>1, <1>7, <1>8, <1>9, <2>2 DEF Follows
  <2>3. CASE d # k
    <3>1. (Pending(d, TRUE)' <=> Pending(d, TRUE)) /\ (Pending(d, FALSE)' <=> Pending(d, FALSE))
      BY <1>7, <2>3
    <3>2. active'[d] = active[d] /\ onLast'[d] = onLast[d]
      BY <1>8, <2>3
    <3>3. /\ PressAhead' <=> PressAhead
          /\ PressOf(d)' <=> PressOf(d)
          /\ Asked(d)' <=> Asked(d)
          /\ Heard(d)' <=> Heard(d)
          /\ IsReleaseEcho(d)' <=> IsReleaseEcho(d)
      BY <1>1, <1>5, <3>2 DEF PressAhead, PressOf, Asked, Heard, Unreleased, IsReleaseEcho
    <3> QED
      BY <1>1, <2>1, <3>1, <3>2, <3>3 DEF Follows
  <2> QED
    BY <2>2, <2>3
<1> QED
  BY <1>7, <1>10, <1>11, <1>12, <1>13 DEF Following

\* An off taken for an echo was one, any other is meant.
LEMMA FollowOff ==
    ASSUME Typed, EchoTyped, Following, SuppressEcho \/ NoteOff
    PROVE  Following'
<1>1. /\ cb.pc = "state" /\ ~cb.msg.on
      /\ cb' = [cb EXCEPT !.pc = "idle"] \/ cb' = [cb EXCEPT !.pc = "due"]
      /\ UNCHANGED <<main, lastCount, log, held, inbox, hostLed, hostOut, lastPress, onLast, released>>
  BY DEF SuppressEcho, NoteOff, cbRest, poll, lights
<1>2. IsNote(cb.msg) /\ cb.msg \in HostMessage
  BY <1>1 DEF Typed, CallbackTyped
<1>3. cb.msg.ch \in Channels /\ cb.msg.on = FALSE
  BY <1>1, <1>2, MessageKinds
<1>4. cb'.pc # "state"
  BY <1>1 DEF Typed, CallbackTyped
<1>5. Done' = Done
  BY <1>1 DEF Done, MainAt
<1>6. PICK k \in Channels : k = cb.msg.ch
  BY <1>3
<1>7. /\ OneNote' /\ NoteSlots # {}
      /\ \A d \in Channels, on \in BOOLEAN : d # k => (Pending(d, on)' <=> Pending(d, on))
      /\ ~Pending(k, TRUE)' /\ ~Pending(k, FALSE)' /\ Pending(k, FALSE) /\ ~Pending(k, TRUE)
  BY <1>1, <1>3, <1>4, <1>6, NoteTaken DEF Following
<1>8. Follows(k)
  BY DEF Following
<1>9. \/ IsReleaseEcho(k) /\ active' = active
      \/ ~IsReleaseEcho(k) /\ active' = [active EXCEPT ![k] = FALSE]
  BY <1>6 DEF SuppressEcho, NoteOff, lights
<1>10. IsReleaseEcho(k) => ~Heard(k) /\ onLast[k]
  BY DEF IsReleaseEcho, Heard, Unreleased
<1>11. /\ active'[k] = hostLed[k]
       /\ active'[k] => onLast[k]
       /\ \A d \in Channels : d # k => active'[d] = active[d]
  BY <1>7, <1>8, <1>9, <1>10 DEF Follows, Typed, LightsTyped, HostTyped
<1>12. Unlit'
  BY <1>1, <1>7 DEF Following, Unlit
<1>13. Turn'
  BY <1>1, <1>5 DEF Following, Turn, Says
<1>14. Answering'
  BY <1>1, <1>5 DEF Following, Answering
<1>15. ASSUME NEW d \in Channels
       PROVE  Follows(d)'
  <2>1. Follows(d)
    BY DEF Following
  <2>2. CASE d = k
    BY <1>1, <1>7, <1>11, <2>2 DEF Follows
  <2>3. CASE d # k
    <3>1. (Pending(d, TRUE)' <=> Pending(d, TRUE)) /\ (Pending(d, FALSE)' <=> Pending(d, FALSE))
      BY <1>7, <2>3
    <3>2. active'[d] = active[d]
      BY <1>11, <2>3
    <3>3. /\ PressAhead' <=> PressAhead
          /\ PressOf(d)' <=> PressOf(d)
          /\ Asked(d)' <=> Asked(d)
          /\ Heard(d)' <=> Heard(d)
          /\ IsReleaseEcho(d)' <=> IsReleaseEcho(d)
      BY <1>1, <1>5 DEF PressAhead, PressOf, Asked, Heard, Unreleased, IsReleaseEcho
    <3> QED
      BY <1>1, <2>1, <3>1, <3>2, <3>3 DEF Follows
  <2> QED
    BY <2>2, <2>3
<1> QED
  BY <1>7, <1>12, <1>13, <1>14, <1>15 DEF Following

\* Once the head of the host's messages is taken, no press is left unanswered.
LEMMA AnswerTaken ==
    ASSUME Typed, EchoTyped, OrderInv, Following, HostAnswers, ~torn
    PROVE  /\ \A d \in Channels : ~Asked(d)'
           /\ \A d \in Channels : Asked(d) => Head(inbox).down /\ Head(inbox).ch = d
           /\ lastPress \in Channels /\ Head(inbox).ch = lastPress /\ Head(inbox).down \in BOOLEAN
           /\ Head(inbox).down => ~onLast[lastPress]
           /\ ~Head(inbox).down => released[lastPress] \in 0..EchoWindow
           /\ ~PressAhead
           /\ Done' = Done /\ Turn' /\ Answering' /\ main.pc \notin {"setup", "start", "clear"}
           /\ main' = main
<1>1. /\ inbox # <<>> /\ inbox' = Tail(inbox)
      /\ UNCHANGED <<main, lastCount, log, held, lastPress, onLast, released>>
  BY DEF HostAnswers, poll, lights
<1>2. inbox \in Seq(Entry)
  BY DEF Typed, ConsoleTyped
<1> DEFINE n == Len(inbox)
<1>3. /\ n \in Nat /\ n >= 1 /\ DOMAIN inbox = 1..n /\ DOMAIN inbox' = 1..n - 1
      /\ Head(inbox) = inbox[1] /\ inbox[1] \in Entry
      /\ \A i \in 1..n - 1 : inbox'[i] = inbox[i + 1]
  BY <1>1, <1>2, HeadTailProperties, LenProperties, EmptySeq, ElementOfSeq
<1> HIDE DEF n
<1>4. \A i \in DOMAIN inbox : inbox[i].down => i = 1
  BY DEF Following, Answering
<1>5. \A i \in DOMAIN inbox' : i + 1 \in DOMAIN inbox /\ inbox'[i] = inbox[i + 1] /\ i + 1 # 1
  BY <1>3
<1>6. \A i \in DOMAIN inbox' : ~inbox'[i].down
  BY <1>4, <1>5
<1>7. \A d \in Channels : ~Asked(d)'
  BY <1>6 DEF Asked
<1>8. \A d \in Channels : Asked(d) => Head(inbox).down /\ Head(inbox).ch = d
  BY <1>3, <1>4 DEF Asked
<1>9. 1 \in DOMAIN inbox
  BY <1>3
<1>10. /\ Head(inbox).ch = lastPress
       /\ Head(inbox).down => ~onLast[lastPress]
       /\ ~Head(inbox).down => released[lastPress] \in 0..EchoWindow
  BY <1>3, <1>9 DEF Following, Answering
<1>11. lastPress \in Channels /\ Head(inbox).down \in BOOLEAN
  BY <1>3, <1>10 DEF Entry
<1>12. Done' = Done
  BY <1>1 DEF Done, MainAt
<1>13. ~PressAhead /\ Turn'
  <2>1. \/ held = {} /\ Done = Len(log)
        \/ \E c \in Channels :
              \/ held = {c} /\ Done = Len(log) /\ lastPress = c
              \/ held = {} /\ Done + 1 = Len(log) /\ Says(Done + 1, c, FALSE) /\ lastPress = c
    BY <1>1 DEF Following, Turn
  <2>2. Len(log) \in Nat
    BY Numbers DEF OrderInv
  <2>3. ~PressAhead
    <3>1. CASE Done = Len(log)
      BY <2>2, <3>1 DEF PressAhead
    <3>2. CASE Done # Len(log)
      BY <2>1, <3>2 DEF PressAhead, Says
    <3> QED
      BY <3>1, <3>2
  <2>4. Turn'
    BY <1>1, <1>12, <2>1 DEF Turn, Says
  <2> QED
    BY <2>3, <2>4
<1>14. Answering'
  <2> SUFFICES ASSUME NEW i \in DOMAIN inbox'
               PROVE  /\ inbox'[i].ch = lastPress
                      /\ held = {} /\ Done = Len(log) /\ released[lastPress] \in 0..EchoWindow
    BY <1>1, <1>6, <1>12 DEF Answering
  <2>1. i + 1 \in DOMAIN inbox /\ inbox'[i] = inbox[i + 1] /\ ~inbox[i + 1].down
    BY <1>5, <1>6
  <2> QED
    BY <2>1 DEF Following, Answering
<1>15. main.pc \notin {"setup", "start", "clear"}
  BY <1>1 DEF Following, Unlit
<1> QED
  BY <1>1, <1>7, <1>8, <1>10, <1>11, <1>12, <1>13, <1>14, <1>15

\* The host's answer about a light, and why the bridge will take it as it is meant.
LEMMA FollowAnswer ==
    ASSUME Typed, EchoTyped, OrderInv, Following, HostAnswers, ~torn
    PROVE  Following'
<1> DEFINE c == Head(inbox).ch
<1>1. /\ HostFree
      /\ UNCHANGED <<cb, log, held, active, lastPress, onLast, released>>
      /\ \/ /\ Head(inbox).down
            /\ hostLed' = [hostLed EXCEPT ![c] = ~@]
            /\ hostOut' = Append(hostOut, Note(c, hostLed'[c]))
         \/ /\ Head(inbox).down
            /\ hostLed' = [d \in Channels |-> d = c]
            /\ \E d \in Channels \ {c} :
                  /\ \A e \in Channels \ {c, d} : ~hostLed[e]
                  /\ hostOut' = hostOut \o <<Note(d, FALSE), Note(c, TRUE)>>
         \/ /\ ~Head(inbox).down
            /\ hostOut' \in {hostOut, Append(hostOut, Note(c, FALSE))}
            /\ UNCHANGED hostLed
  BY DEF HostAnswers, lights
<1> HIDE DEF c
<1>2. PICK k \in Channels : k = c /\ k = lastPress
  BY AnswerTaken DEF c
<1>3. Unlit' /\ Turn' /\ Answering'
  BY AnswerTaken DEF Unlit
<1>4. /\ \A d \in Channels : ~Asked(d)'
      /\ \A d \in Channels : Asked(d) => Head(inbox).down /\ d = k
      /\ Head(inbox).down => ~onLast[k]
      /\ ~Head(inbox).down => released[k] \in 0..EchoWindow
      /\ ~PressAhead /\ Done' = Done
  BY <1>2, AnswerTaken DEF c
<1>5. ~PressAhead'
  BY <1>1, <1>4 DEF PressAhead
<1>6. \A d \in Channels : ~PressOf(d)'
  BY <1>5 DEF PressOf
<1>7. \A d \in Channels : /\ active[d] = hostLed[d]
                          /\ active[d] /\ ~onLast[d] => Head(inbox).down /\ d = k
  BY <1>1, <1>4, NoneOnTheWay DEF Following, Follows
<1>8. hostLed \in [Channels -> BOOLEAN] /\ active \in [Channels -> BOOLEAN]
  BY DEF Typed, HostTyped, LightsTyped
<1>9. ASSUME OneNote', \A d \in Channels : Follows(d)'
      PROVE  Following'
  BY <1>3, <1>9 DEF Following
<1>10. CASE /\ Head(inbox).down
            /\ hostLed' = [hostLed EXCEPT ![c] = ~@]
            /\ hostOut' = Append(hostOut, Note(c, hostLed'[c]))
  <2> DEFINE m == Note(k, hostLed'[k])
  <2>1. hostLed'[k] \in BOOLEAN /\ \A d \in Channels : d # k => hostLed'[d] = hostLed[d]
    BY <1>2, <1>8, <1>10
  <2>2. hostOut' = Append(hostOut, m) /\ m \in HostMessage /\ IsNote(m)
    BY <1>2, <1>10, <2>1, MessagesMade
  <2>3. m.ch = k /\ m.on = hostLed'[k]
    BY DEF Note
  <2> HIDE DEF m
  <2>4. /\ OneNote'
        /\ \A d \in Channels, on \in BOOLEAN : Pending(d, on)' <=> d = k /\ on = hostLed'[k]
    BY <1>1, <2>2, <2>3, NotesOne
  <2>5. ASSUME NEW d \in Channels
        PROVE  Follows(d)'
    <3>1. /\ Pending(d, TRUE)' <=> d = k /\ hostLed'[k] = TRUE
          /\ Pending(d, FALSE)' <=> d = k /\ hostLed'[k] = FALSE
      BY <2>4
    <3>2. Heard(k)'
      BY <1>1, <1>4, <1>10 DEF Heard
    <3> QED
      BY <1>1, <1>4, <1>6, <1>7, <2>1, <3>1, <3>2 DEF Follows
  <2> QED
    BY <1>9, <2>4, <2>5
<1>11. CASE /\ Head(inbox).down
            /\ hostLed' = [d \in Channels |-> d = c]
            /\ \E d \in Channels \ {c} :
                  /\ \A e \in Channels \ {c, d} : ~hostLed[e]
                  /\ hostOut' = hostOut \o <<Note(d, FALSE), Note(c, TRUE)>>
  <2>1. PICK o \in Channels \ {k} :
           /\ \A e \in Channels \ {k, o} : ~hostLed[e]
           /\ hostOut' = hostOut \o <<Note(o, FALSE), Note(k, TRUE)>>
    BY <1>2, <1>11
  <2>2. \A d \in Channels : hostLed'[d] = (d = k)
    BY <1>2, <1>11
  <2>3. /\ OneNote'
        /\ \A e \in Channels, on \in BOOLEAN :
              Pending(e, on)' <=> (e = o /\ ~on) \/ (e = k /\ on)
    BY <1>1, <2>1, NotesTwo
  <2>4. ASSUME NEW d \in Channels
        PROVE  Follows(d)'
    <3>1. (Pending(d, TRUE)' <=> d = k) /\ (Pending(d, FALSE)' <=> d = o)
      BY <2>3
    <3>2. Heard(o)'
      <4>1. k # None
        BY Constants
      <4> QED
        BY <1>1, <1>2, <2>1, <4>1 DEF Heard
    <3>3. d # k /\ d # o => ~hostLed[d]
      BY <2>1
    <3>4. active' = active /\ onLast' = onLast /\ ~Asked(d)' /\ ~PressOf(d)'
      BY <1>1, <1>4, <1>6
    <3>5. active[d] = hostLed[d] /\ (active[d] /\ ~onLast[d] => d = k)
      BY <1>7
    <3>6. CASE d = k
      <4>1. hostLed'[d] = TRUE /\ d # o
        BY <2>1, <2>2, <3>6
      <4> QED
        BY <3>1, <3>4, <3>6, <4>1 DEF Follows
    <3>7. CASE d = o
      <4>1. hostLed'[d] = FALSE /\ d # k
        BY <2>1, <2>2, <3>7
      <4> QED
        BY <3>1, <3>2, <3>4, <3>7, <4>1 DEF Follows
    <3>8. CASE d # k /\ d # o
      <4>1. hostLed'[d] = FALSE /\ active[d] = FALSE
        BY <1>8, <2>2, <3>3, <3>5, <3>8
      <4> QED
        BY <3>1, <3>4, <3>8, <4>1 DEF Follows
    <3> QED
      BY <3>6, <3>7, <3>8
  <2> QED
    BY <1>9, <2>3, <2>4
<1>12. CASE /\ ~Head(inbox).down
            /\ hostOut' \in {hostOut, Append(hostOut, Note(c, FALSE))}
            /\ UNCHANGED hostLed
  <2>1. \A d \in Channels : active[d] => onLast[d]
    BY <1>7, <1>12
  <2>2. CASE hostOut' = hostOut
    <3>1. NoteSlots' = {}
      BY <1>1, <2>2 DEF NoteSlots, HostFree
    <3>2. OneNote' /\ \A d \in Channels, on \in BOOLEAN : ~Pending(d, on)'
      BY <3>1 DEF OneNote, Pending
    <3>3. ASSUME NEW d \in Channels
          PROVE  Follows(d)'
      BY <1>1, <1>7, <1>12, <2>1, <3>2 DEF Follows
    <3> QED
      BY <1>9, <3>2, <3>3
  <2>3. CASE hostOut' = Append(hostOut, Note(c, FALSE))
    <3> DEFINE m == Note(k, FALSE)
    <3>1. hostOut' = Append(hostOut, m) /\ m \in HostMessage /\ IsNote(m)
      BY <1>2, <2>3, MessagesMade
    <3>2. m.ch = k /\ m.on = FALSE
      BY DEF Note
    <3> HIDE DEF m
    <3>3. /\ OneNote'
          /\ \A d \in Channels, on \in BOOLEAN : Pending(d, on)' <=> d = k /\ on = FALSE
      BY <1>1, <3>1, <3>2, NotesOne
    <3>4. ASSUME NEW d \in Channels
          PROVE  Follows(d)'
      <4>1. ~Pending(d, TRUE)' /\ (Pending(d, FALSE)' <=> d = k)
        BY <3>3
      <4>2. active[k] => IsReleaseEcho(k)'
        BY <1>1, <1>2, <1>4, <1>12, <2>1 DEF IsReleaseEcho
      <4> QED
        BY <1>1, <1>4, <1>5, <1>6, <1>7, <1>12, <2>1, <4>1, <4>2 DEF Follows
    <3> QED
      BY <1>9, <3>3, <3>4
  <2> QED
    BY <1>12, <2>2, <2>3
<1> QED
  BY <1>1, <1>10, <1>11, <1>12

\* Nothing of a button is ahead or unanswered.
Clear(c) ==
    /\ ~PressOf(c) /\ ~Asked(c)
    /\ \A j \in DOMAIN log : j > Done => log[j].ch # c

\* A button that is not busy has nothing ahead or unanswered.
LEMMA QuietClear ==
    ASSUME Typed, OrderInv, ~torn
    PROVE  \A c \in Channels : ~Busy(c) => Clear(c)
<1> SUFFICES ASSUME NEW c \in Channels, ~Busy(c)
             PROVE  Clear(c)
  OBVIOUS
<1>1. /\ \A j \in DOMAIN log : j > Done => log[j].ch # c
      /\ \A i \in DOMAIN inbox : inbox[i].ch # c
  BY QuietButton
<1>2. Len(log) \in Nat /\ DOMAIN log = 1..Len(log)
  BY Numbers DEF OrderInv
<1>3. Done \in Nat
  <2>1. CASE MainAt("forward")
    <3>1. Len(main.news) <= Len(log) /\ Len(main.news) \in Nat
      BY <2>1, LenProperties DEF OrderInv, Window, Typed, MainTyped
    <3>2. Len(log) - Len(main.news) \in Nat
      BY <1>2, <3>1
    <3> QED
      BY <2>1, <3>2 DEF Done
  <2>2. CASE ~MainAt("forward")
    BY <2>2 DEF Done, Typed, MainTyped
  <2> QED
    BY <2>1, <2>2
<1>4. PressAhead => Done + 1 \in DOMAIN log /\ Done + 1 > Done
  BY <1>2, <1>3 DEF PressAhead
<1> QED
  BY <1>1, <1>4 DEF Clear, PressOf, Asked

\* What the host says of its own is said while nothing is under way about the light.
LEMMA FollowSpeech ==
    ASSUME Typed, EchoTyped, Following, HostSpeaks, ~overlap',
           main.pc \notin {"setup", "done"},
           \A c \in Channels : ~Busy(c) => Clear(c)
    PROVE  Following'
<1>1. scene.speaks \subseteq HostMessage
  BY SceneAssumption DEF Typed, HostTyped
<1>2. PICK m \in HostMessage :
         /\ hostOut' = Append(hostOut, m)
         /\ hostLed' = IF IsNote(m) THEN [hostLed EXCEPT ![m.ch] = m.on] ELSE hostLed
         /\ IsNote(m) => Calm(m.ch)
  BY <1>1 DEF HostSpeaks
<1>3. /\ HostFree
      /\ UNCHANGED <<main, lastCount, log, held, inbox, cb, active, lastPress, onLast, released>>
  BY DEF HostSpeaks, poll, lights
<1>4. Done' = Done
  BY <1>3 DEF Done, MainAt
<1>5. /\ OneNote' /\ (~IsNote(m) => NoteSlots' = {})
      /\ \A c \in Channels, on \in BOOLEAN :
            Pending(c, on)' <=> IsNote(m) /\ m.ch = c /\ m.on = on
  BY <1>2, <1>3, NotesOne
<1>6. \A c \in Channels, on \in BOOLEAN : ~Pending(c, on)
  BY <1>3, NoneOnTheWay
<1>7. CASE ~IsNote(m)
  <2>1. SameNotes
    BY <1>5, <1>6, <1>7 DEF SameNotes
  <2> QED
    BY <1>2, <1>3, <1>4, <1>7, <2>1, FollowFrame
<1>8. CASE IsNote(m)
  <2>1. m.ch \in Channels /\ m.on \in BOOLEAN
    BY <1>8, MessageKinds
  <2>2. PICK k \in Channels : k = m.ch
    BY <2>1
  <2>3. /\ main.pc \notin {"start", "clear"} /\ k \notin held /\ ~Busy(k)
        /\ released[k] \notin 0..EchoWindow
    BY <1>2, <1>8, <2>2 DEF Calm
  <2>4. Clear(k)
    BY <2>3
  <2>5. Unlit' /\ Turn' /\ Answering'
    BY <1>3, <1>4, <2>3 DEF Following, Unlit, Turn, Answering, Says
  <2>6. hostLed'[k] = m.on /\ \A d \in Channels : d # k => hostLed'[d] = hostLed[d]
    BY <1>2, <1>8, <2>2 DEF Typed, HostTyped
  <2>7. Heard(k)'
    BY <1>3, <1>4, <2>3, <2>4 DEF Heard, Unreleased, Clear
  <2>8. ~PressOf(k)' /\ ~Asked(k)' /\ ~Asked(k)
    <3>1. PressOf(k)' <=> PressOf(k)
      BY <1>3, <1>4 DEF PressOf, PressAhead
    <3> QED
      BY <1>3, <2>4, <3>1 DEF Asked, Clear
  <2>9. ASSUME NEW d \in Channels
        PROVE  Follows(d)'
    <3>1. Follows(d)
      BY DEF Following
    <3>2. /\ Pending(d, TRUE)' <=> d = k /\ m.on = TRUE
          /\ Pending(d, FALSE)' <=> d = k /\ m.on = FALSE
      BY <1>5, <1>8, <2>2
    <3>3. Asked(d)' <=> Asked(d)
      BY <1>3 DEF Asked
    <3>4. ~Pending(d, TRUE) /\ ~Pending(d, FALSE)
      BY <1>6
    <3> QED
      BY <1>3, <2>1, <2>6, <2>7, <2>8, <3>1, <3>2, <3>3, <3>4 DEF Follows
  <2> QED
    BY <1>5, <2>5, <2>9 DEF Following
<1> QED
  BY <1>7, <1>8

\* The notes taken up stay taken up: what the callback does with them is of no matter here.
LEMMA FollowQuiet ==
    ASSUME Typed, Following, Receive \/ ScheduleSync \/ Enqueue
    PROVE  Following'
<1>1. /\ UNCHANGED <<main, lastCount, log, held, inbox, hostLed, active, lastPress, onLast, released>>
  BY DEF Receive, ScheduleSync, Enqueue, cbRest, poll, lights
<1>2. Done' = Done
  BY <1>1 DEF Done, MainAt
<1>3. SameNotes
  <2>1. CASE Receive
    BY <2>1, NotesMove
  <2>2. CASE ScheduleSync \/ Enqueue
    <3>1. hostOut' = hostOut /\ cb.pc \in {"due", "queue"} /\ cb'.pc \in {"idle", "queue"}
      BY <2>2 DEF ScheduleSync, Enqueue, Typed, CallbackTyped
    <3>2. 0 \notin DOMAIN hostOut
      BY LenProperties DEF Typed, HostTyped
    <3> QED
      BY <3>1, <3>2, NotesStay
  <2> QED
    BY <2>1, <2>2
<1> QED
  BY <1>1, <1>2, <1>3, FollowFrame

\* The lights the start-up turns off are off.
LEMMA ClearsNothing ==
    ASSUME Typed, Following, ClearLight
    PROVE  active' = active
<1>1. main.pc = "clear" /\ active' = [active EXCEPT ![FirstOf(main.todo)] = FALSE]
  BY DEF ClearLight, MainAt
<1>2. \A c \in Channels : ~active[c]
  BY <1>1 DEF Following, Unlit
<1> QED
  BY <1>1, <1>2 DEF Typed, LightsTyped

\* With no note pending the lights are the host's.
LEMMA FollowedAtRest ==
    ASSUME Typed, Following, hostOut = <<>>, cb.pc = "idle"
    PROVE  active = hostLed
<1>1. \A c \in Channels : Follows(c)
  BY DEF Following
<1>2. \A c \in Channels, on \in BOOLEAN : ~Pending(c, on)
  BY NoneOnTheWay DEF HostFree
<1>3. \A c \in Channels : active[c] = hostLed[c]
  BY <1>1, <1>2 DEF Follows
<1> QED
  BY <1>3 DEF Typed, HostTyped, LightsTyped

\* Every step keeps the lights together.
LEMMA FollowStep == Typed /\ EchoTyped /\ OrderInv /\ FollowInv /\ [Next]_vars => FollowInv'
<1> SUFFICES ASSUME Typed, EchoTyped, OrderInv, FollowInv, [Next]_vars,
                    ~overlap', ~torn', ~gap'
             PROVE  Following'
  BY DEF FollowInv
<1>m. main \in [pc: Steps, todo: SUBSET Channels, count: Nat, index: Nat, recent: 0..RingSize,
                news: Seq(Entry \cup {None}), left: Nat]
  BY DEF Typed, MainTyped
<1>o. 0 \notin DOMAIN hostOut
  BY LenProperties DEF Typed, HostTyped
<1>1. CASE UNCHANGED vars
  <2>1. /\ UNCHANGED <<main, lastCount, hostOut, cb, overlap, torn, gap>>
        /\ UNCHANGED <<log, held, inbox, hostLed, active, lastPress, onLast, released>>
    BY <1>1 DEF vars, poll, host, lights, history
  <2>2. Following /\ SameNotes /\ Done' = Done
    BY <1>o, <2>1, NotesStay DEF FollowInv, Done, MainAt
  <2> QED
    BY <2>1, <2>2, FollowFrame
<1>2. CASE Quit
  <2>1. /\ UNCHANGED <<lastCount, hostOut, cb, overlap, torn, gap>>
        /\ UNCHANGED <<log, held, inbox, hostLed, active, lastPress, onLast, released>>
        /\ main.pc = "count" /\ main'.pc = "done"
    BY <1>2, <1>m DEF Quit, pollRest, mainRest, lights, MainAt, Goto
  <2>2. Following /\ SameNotes /\ Done' = Done
    BY <1>o, <2>1, NotesStay DEF FollowInv, Done, MainAt
  <2> QED
    BY <2>1, <2>2, FollowFrame
<1>3. CASE Callback
  <2>1. UNCHANGED <<overlap, torn, gap>>
    BY <1>3 DEF Callback, Receive, NoteOn, SuppressEcho, NoteOff, ScheduleSync, Enqueue, cbRest, history
  <2>2. Following
    BY <2>1 DEF FollowInv
  <2> QED
    BY <1>3, <2>2, FollowOn, FollowOff, FollowQuiet DEF Callback
<1>4. CASE main.pc \notin {"setup", "done"} /\ Environment
  <2>1. ASSUME NEW c \in Channels, Press(c) \/ Release(c)
        PROVE  Following'
    <3>1. ~overlap /\ ~torn /\ ~gap
      <4>1. CASE Press(c)
        BY <4>1 DEF Press, Decode, Publish
      <4>2. CASE Release(c)
        BY <4>2 DEF Release, Decode, Publish
      <4> QED
        BY <2>1, <4>1, <4>2
    <3> QED
      BY <1>4, <2>1, <3>1, FollowPress, FollowRelease DEF FollowInv
  <2>2. CASE DriverFault
    <3>1. UNCHANGED <<log, torn, gap>>
      BY <2>2 DEF DriverFault, DriverChange
    <3>2. /\ UNCHANGED <<main, lastCount, hostOut, cb, overlap>>
          /\ UNCHANGED <<held, inbox, hostLed, active, lastPress, onLast, released>>
      BY <2>2 DEF DriverFault, poll, host, lights
    <3>3. Following /\ SameNotes /\ Done' = Done
      BY <1>o, <3>1, <3>2, NotesStay DEF FollowInv, Done, MainAt
    <3> QED
      BY <3>1, <3>2, <3>3, FollowFrame
  <2>3. CASE HostAnswers
    <3>1. UNCHANGED <<overlap, torn, gap>>
      BY <2>3 DEF HostAnswers, history
    <3> QED
      BY <2>3, <3>1, FollowAnswer DEF FollowInv
  <2>4. CASE HostSpeaks
    <3>1. ~overlap /\ ~torn /\ ~gap
      BY <2>4 DEF HostSpeaks
    <3> QED
      BY <1>4, <2>4, <3>1, FollowSpeech, QuietClear DEF FollowInv
  <2> QED
    BY <1>4, <2>1, <2>2, <2>3, <2>4 DEF Environment
<1>5. CASE Main
  <2>1. ~overlap /\ ~torn /\ ~gap
    <3>1. CASE Sleep
      BY <3>1 DEF Sleep
    <3>2. CASE ReadRecent \/ ReadData
      <4>1. UNCHANGED <<overlap, torn>>
        BY <3>2 DEF ReadRecent, ReadData, pollRest, mainRest
      <4>2. gap => gap'
        BY <3>2 DEF ReadRecent, ReadData
      <4> QED
        BY <4>1, <4>2
    <3>3. CASE Main /\ ~Sleep /\ ~ReadRecent /\ ~ReadData
      <4>1. UNCHANGED overlap
        BY <3>3 DEF Main, SetUp, StartClear, ClearLight, ClearDone, ReadFails, ReadCount, ReadIndex,
           ForwardMessage, SkipEmpty, ForwardDone, DrainOne, DrainDone, Relatch, RelatchDone,
           StartSync, Snapshot, pollRest, mainRest
      <4>2. UNCHANGED <<torn, gap>>
        BY <3>3 DEF Main, SetUp, StartClear, ClearLight, ClearDone, ReadFails, ReadCount, ReadIndex,
           ForwardMessage, SkipEmpty, ForwardDone, DrainOne, DrainDone, Relatch, RelatchDone,
           StartSync, Snapshot
      <4> QED
        BY <4>1, <4>2
    <3> QED
      BY <1>5, <3>1, <3>2, <3>3
  <2>2. Following
    BY <2>1 DEF FollowInv
  <2>3. CASE ForwardMessage
    BY <2>1, <2>2, <2>3, FollowForward
  <2>4. CASE ~ForwardMessage
    <3>1. Done' = Done /\ log' = log
      <4>1. main.pc = "start" => log = <<>>
        BY <2>2 DEF Following, Unlit
      <4> QED
        BY <1>5, <2>4, <4>1, DoneSame
    <3>2. CASE Sleep
      BY <2>2, <3>1, <3>2, FollowSleep
    <3>3. CASE ~Sleep
      <4>1. UNCHANGED <<hostOut, cb, held, inbox, hostLed, lastPress, onLast, released>>
        BY <1>5, <2>4, <3>3 DEF Main, SetUp, StartClear, ClearLight, ClearDone, ReadFails, ReadCount,
           ReadIndex, ReadRecent, ReadData, SkipEmpty, ForwardDone, DrainOne, DrainDone, Relatch,
           RelatchDone, StartSync, Snapshot, pollRest, mainRest, lights
      <4>2. active' = active
        <5>1. CASE ClearLight
          BY <2>2, <5>1, ClearsNothing
        <5>2. CASE ~ClearLight
          BY <1>5, <2>4, <3>3, <5>2 DEF Main, SetUp, StartClear, ClearDone, ReadFails, ReadCount,
             ReadIndex, ReadRecent, ReadData, SkipEmpty, ForwardDone, DrainOne, DrainDone, Relatch,
             RelatchDone, StartSync, Snapshot, pollRest, mainRest, lights
        <5> QED
          BY <5>1, <5>2
      <4>3. main'.pc \in {"setup", "start", "clear"} => main.pc \in {"setup", "start", "clear"}
        BY <1>5, <1>m, <2>4, <3>3 DEF Main, SetUp, StartClear, ClearLight, ClearDone, ReadFails,
           ReadCount, ReadIndex, ReadRecent, ReadData, SkipEmpty, ForwardDone, DrainOne, DrainDone,
           Relatch, RelatchDone, StartSync, Snapshot, MainAt, Goto
      <4>4. SameNotes
        BY <1>o, <4>1, NotesStay
      <4> QED
        BY <2>2, <3>1, <4>1, <4>2, <4>3, <4>4, FollowFrame
    <3> QED
      BY <3>2, <3>3
  <2> QED
    BY <2>3, <2>4
<1> QED
  BY <1>1, <1>2, <1>3, <1>4, <1>5 DEF Next

\* At first no light is on, and nothing was said.
LEMMA FollowInit == Init => EchoTyped /\ FollowInv
<1> SUFFICES ASSUME Init
             PROVE  EchoTyped /\ Following
  BY DEF FollowInv
<1>1. /\ log = <<>> /\ held = {} /\ inbox = <<>> /\ hostOut = <<>> /\ main.pc = "setup"
      /\ lastCount = 0 /\ cb.pc = "idle" /\ lastPress = None
      /\ hostLed = [c \in Channels |-> FALSE] /\ active = [c \in Channels |-> FALSE]
      /\ onLast = [c \in Channels |-> TRUE] /\ released = [c \in Channels |-> None]
  BY DEF Init
<1>2. EchoTyped
  BY <1>1 DEF EchoTyped
<1>3. NoteSlots = {}
  BY <1>1 DEF NoteSlots
<1>4. \A c \in Channels, on \in BOOLEAN : ~Pending(c, on)
  BY <1>3 DEF Pending
<1>5. Unlit /\ OneNote /\ Answering
  BY <1>1, <1>3 DEF Unlit, OneNote, Answering
<1>6. Turn
  BY <1>1 DEF Turn, Done, MainAt
<1>7. \A c \in Channels : Follows(c)
  BY <1>1, <1>4 DEF Follows
<1> QED
  BY <1>2, <1>5, <1>6, <1>7 DEF Following

\* The host's lights and the bridge's are the same once the host is silent.
THEOREM LightsFollowHostHolds == Spec => [](~torn /\ ~gap => LightsFollowHost)
<1>1. Typed /\ EchoTyped /\ [Next]_vars => EchoTyped'
  BY EchoStep
<1>2. Typed /\ EchoTyped /\ OrderInv /\ FollowInv /\ [Next]_vars => FollowInv'
  BY FollowStep
<1>3. Typed /\ OrderInv /\ [Next]_vars => OrderInv'
  BY OrderStepHolds
<1>4. Typed /\ FollowInv => (~torn /\ ~gap => LightsFollowHost)
  BY FollowedAtRest DEF FollowInv, LightsFollowHost
<1> QED
  BY <1>1, <1>2, <1>3, <1>4, FollowInit, OrderInit, TypeCorrect, PTL DEF Spec

\* what disturbs a scene: the driver fails, or publishes while it is read
Sound(s) == ~s.tears /\ s.faults = 0
\* nobody is at the console
Unattended(s) == s.buttons = {}
\* the host has no lights
Lightless(s) == ~s.replies /\ \A m \in s.speaks : ~IsNote(m)

SoundInv ==
    Sound(scene) => driver = "running" /\ faults = 0 /\ ~torn /\ (gap => overlap)

UnattendedInv ==
    Unattended(scene) =>
        /\ log = <<>> /\ inbox = <<>> /\ held = {}
        /\ lastCount = 0 /\ main.count = 0 /\ main.pc \notin {"data", "forward"}
        /\ ~overlap => Following

LightlessInv ==
    Lightless(scene) =>
        /\ cb.pc \notin {"state", "due"} /\ \A i \in DOMAIN hostOut : ~IsNote(hostOut[i])
        /\ \A c \in Channels : ~active[c] /\ ~hostLed[c]

\* What has been missed, has been missed for ever, and so has the other's turn.
LEMMA HistoryStays ==
    ASSUME [Next]_vars
    PROVE  scene' = scene /\ (overlap => overlap') /\ (gap => gap')
<1>1. CASE UNCHANGED vars \/ Quit
  BY <1>1 DEF vars, history, bounds, Quit, pollRest, mainRest
<1>2. CASE Callback
  BY <1>2 DEF Callback, Receive, NoteOn, SuppressEcho, NoteOff, ScheduleSync, Enqueue, cbRest,
     history, bounds
<1>3. CASE Environment
  <2>1. ASSUME NEW c \in Channels, Press(c)
        PROVE  scene' = scene /\ (overlap => overlap') /\ (gap => gap')
    BY <2>1 DEF Press, Decode
  <2>2. ASSUME NEW c \in Channels, Release(c)
        PROVE  scene' = scene /\ (overlap => overlap') /\ (gap => gap')
    BY <2>2 DEF Release, Decode
  <2>3. CASE DriverFault
    BY <2>3 DEF DriverFault, DriverChange
  <2>4. CASE HostAnswers
    BY <2>4 DEF HostAnswers, history, bounds
  <2>5. CASE HostSpeaks
    BY <2>5 DEF HostSpeaks
  <2> QED
    BY <1>3, <2>1, <2>2, <2>3, <2>4, <2>5 DEF Environment
<1>4. CASE Main
  <2>1. CASE Sleep
    BY <2>1 DEF Sleep
  <2>2. CASE ReadRecent
    BY <2>2 DEF ReadRecent, pollRest, mainRest
  <2>3. CASE ReadData
    BY <2>3 DEF ReadData, pollRest, mainRest
  <2>4. CASE Main /\ ~Sleep /\ ~ReadRecent /\ ~ReadData
    <3>1. UNCHANGED <<scene, overlap>>
      BY <2>4 DEF Main, SetUp, StartClear, ClearLight, ClearDone, ReadFails, ReadCount, ReadIndex,
         ForwardMessage, SkipEmpty, ForwardDone, DrainOne, DrainDone, Relatch, RelatchDone,
         StartSync, Snapshot, pollRest, mainRest
    <3>2. UNCHANGED gap
      BY <2>4 DEF Main, SetUp, StartClear, ClearLight, ClearDone, ReadFails, ReadCount, ReadIndex,
         ForwardMessage, SkipEmpty, ForwardDone, DrainOne, DrainDone, Relatch, RelatchDone,
         StartSync, Snapshot
    <3> QED
      BY <3>1, <3>2
  <2> QED
    BY <1>4, <2>1, <2>2, <2>3, <2>4
<1> QED
  BY <1>1, <1>2, <1>3, <1>4 DEF Next

\* One button at a time never fills a ring of two.
LEMMA NothingOverruns ==
    ASSUME Typed, OrderInv, Following, ReadRecent, ~torn, RingSize >= 2
    PROVE  main.count <= lastCount + RingSize
<1>1. main.count = Len(log) /\ Done = lastCount
  BY DEF ReadRecent, OrderInv, Reading, Done, MainAt
<1>2. Done = Len(log) \/ Done + 1 = Len(log) \/ Done + 2 = Len(log)
  BY DEF Following, Turn
<1>3. lastCount \in Nat /\ RingSize \in Nat /\ Len(log) \in Nat
  BY Constants, LenProperties DEF Typed, MainTyped, ConsoleTyped
<1> QED
  BY <1>1, <1>2, <1>3

\* Without faults the driver is there, and every message of the console is read.
LEMMA SoundStep ==
    ASSUME Typed, OrderInv, FollowInv, SoundInv, [Next]_vars, RingSize >= 2
    PROVE  SoundInv'
<1>1. scene' = scene /\ (overlap => overlap')
  BY HistoryStays
<1> SUFFICES ASSUME Sound(scene)
             PROVE  driver' = "running" /\ faults' = 0 /\ ~torn' /\ (gap' => overlap')
  BY <1>1 DEF SoundInv
<1>2. driver = "running" /\ faults = 0 /\ ~torn /\ (gap => overlap) /\ ~scene.tears /\ scene.faults = 0
  BY DEF SoundInv, Sound
<1>3. CASE UNCHANGED vars \/ Quit
  BY <1>1, <1>2, <1>3 DEF vars, history, bounds, Quit, pollRest, mainRest
<1>4. CASE Callback
  BY <1>1, <1>2, <1>4 DEF Callback, Receive, NoteOn, SuppressEcho, NoteOff, ScheduleSync, Enqueue,
     cbRest, history, bounds
<1>5. CASE Environment
  <2>1. ASSUME NEW c \in Channels, Press(c) \/ Release(c)
        PROVE  /\ driver' = "running" /\ faults' = 0 /\ ~torn' /\ (gap' => overlap')
    <3>1. PICK down \in BOOLEAN : Decode(c, down)
      BY <2>1 DEF Press, Release
    <3>2. UNCHANGED <<driver, faults, gap>> /\ (torn' <=> torn \/ ~MainAt("count"))
      BY <3>1 DEF Decode, Publish
    <3>3. MainAt("count")
      BY <1>2, <3>1 DEF Decode, Publish
    <3> QED
      BY <1>1, <1>2, <3>2, <3>3
  <2>2. CASE DriverFault
    BY <1>2, <2>2 DEF DriverFault, DriverChange
  <2>3. CASE HostAnswers \/ HostSpeaks
    <3>1. UNCHANGED <<driver, faults, gap, torn>>
      BY <2>3 DEF HostAnswers, HostSpeaks, history, bounds
    <3> QED
      BY <1>1, <1>2, <3>1
  <2> QED
    BY <1>5, <2>1, <2>2, <2>3 DEF Environment
<1>6. CASE Main
  <2>1. driver' = driver
    BY <1>6 DEF Main, SetUp, StartClear, ClearLight, ClearDone, ReadFails, ReadCount, ReadIndex,
       ReadRecent, ReadData, ForwardMessage, SkipEmpty, ForwardDone, DrainOne, DrainDone, Relatch,
       RelatchDone, StartSync, Snapshot, Sleep, pollRest, mainRest
  <2>2. torn' = torn
    BY <1>6 DEF Main, SetUp, StartClear, ClearLight, ClearDone, ReadFails, ReadCount, ReadIndex,
       ReadRecent, ReadData, ForwardMessage, SkipEmpty, ForwardDone, DrainOne, DrainDone, Relatch,
       RelatchDone, StartSync, Snapshot, Sleep, pollRest
  <2>3. faults' = faults
    <3>1. \A ok \in BOOLEAN : Send(ok) => faults' = faults
      BY <1>2 DEF Send
    <3>2. \A c \in Channels, on \in BOOLEAN, ok \in BOOLEAN : SendLight(c, on, ok) => faults' = faults
      BY <3>1 DEF SendLight
    <3>3. CASE ClearLight
      BY <3>1, <3>3 DEF ClearLight, SendLight
    <3>4. CASE DrainOne
      BY <3>1, <3>4 DEF DrainOne
    <3>5. CASE Relatch
      BY <3>1, <3>5 DEF Relatch, SendLight
    <3>6. CASE Snapshot
      BY <3>1, <3>6 DEF Snapshot, SendLight
    <3>7. CASE ~(ClearLight \/ DrainOne \/ Relatch \/ Snapshot)
      BY <1>6, <3>7 DEF Main, SetUp, StartClear, ClearDone, ReadFails, ReadCount, ReadIndex,
         ReadRecent, ReadData, ForwardMessage, SkipEmpty, ForwardDone, DrainDone, RelatchDone,
         StartSync, Sleep, pollRest
    <3> QED
      BY <3>3, <3>4, <3>5, <3>6, <3>7
  <2>4. gap' => overlap'
    <3>1. CASE ReadRecent
      <4> SUFFICES ASSUME ~overlap
                   PROVE  ~gap'
        BY <1>1
      <4>1. main.count <= lastCount + RingSize /\ ~gap
        BY <1>2, <3>1, NothingOverruns DEF FollowInv
      <4>2. main.count \in Nat /\ lastCount \in Nat /\ RingSize \in Nat
        BY Constants DEF Typed, MainTyped
      <4>3. ~(main.count > lastCount + RingSize)
        BY <4>1, <4>2
      <4> QED
        BY <3>1, <4>1, <4>3 DEF ReadRecent
    <3>2. CASE ReadData
      BY <1>1, <1>2, <3>2 DEF ReadData
    <3>3. CASE ~ReadRecent /\ ~ReadData
      <4>1. gap' = gap
        BY <1>6, <3>3 DEF Main, SetUp, StartClear, ClearLight, ClearDone, ReadFails, ReadCount,
           ReadIndex, ForwardMessage, SkipEmpty, ForwardDone, DrainOne, DrainDone, Relatch,
           RelatchDone, StartSync, Snapshot, Sleep, pollRest
      <4> QED
        BY <1>1, <1>2, <4>1
    <3> QED
      BY <3>1, <3>2, <3>3
  <2> QED
    BY <1>2, <2>1, <2>2, <2>3, <2>4
<1> QED
  BY <1>3, <1>4, <1>5, <1>6 DEF Next

\* With nobody at the console the host's notes are all there is.
LEMMA UnattendedStep ==
    ASSUME Typed, EchoTyped, UnattendedInv, [Next]_vars
    PROVE  UnattendedInv'
<1>1. scene' = scene /\ (overlap => overlap')
  BY HistoryStays
<1> SUFFICES ASSUME Unattended(scene)
             PROVE  /\ log' = <<>> /\ inbox' = <<>> /\ held' = {}
                    /\ lastCount' = 0 /\ main'.count = 0 /\ main'.pc \notin {"data", "forward"}
                    /\ ~overlap' => Following'
  BY <1>1 DEF UnattendedInv
<1>2. /\ log = <<>> /\ inbox = <<>> /\ held = {}
      /\ lastCount = 0 /\ main.count = 0 /\ main.pc \notin {"data", "forward"}
      /\ ~overlap => Following
      /\ scene.buttons = {}
  BY DEF UnattendedInv, Unattended
<1>m. main \in [pc: Steps, todo: SUBSET Channels, count: Nat, index: Nat, recent: 0..RingSize,
                news: Seq(Entry \cup {None}), left: Nat]
  BY DEF Typed, MainTyped
<1>o. 0 \notin DOMAIN hostOut
  BY LenProperties DEF Typed, HostTyped
<1>l. Len(log) = 0
  BY <1>2
<1>3. ASSUME NEW c \in Channels
      PROVE  ~Press(c) /\ ~Release(c)
  BY <1>2 DEF Press, Release
<1>4. ~HostAnswers /\ ~ForwardMessage /\ ~SkipEmpty /\ ~ForwardDone /\ ~ReadData
  BY <1>2 DEF HostAnswers, ForwardMessage, SkipEmpty, ForwardDone, ReadData, MainAt
<1>5. ASSUME log' = <<>>, lastCount' = 0, main'.pc # "forward"
      PROVE  Done' = Done
  BY <1>2, <1>5 DEF Done, MainAt
<1>6. CASE UNCHANGED vars \/ Quit
  <2>1. /\ UNCHANGED <<lastCount, hostOut, cb, overlap>>
        /\ UNCHANGED <<log, held, inbox, hostLed, active, lastPress, onLast, released>>
        /\ main' = main \/ (main.pc = "count" /\ main' = [main EXCEPT !.pc = "done"])
    BY <1>6 DEF vars, poll, host, lights, history, Quit, pollRest, mainRest, MainAt, Goto
  <2>2. /\ main'.count = 0 /\ main'.pc \notin {"data", "forward"}
        /\ main'.pc \in {"setup", "start", "clear"} => main.pc \in {"setup", "start", "clear"}
    BY <1>2, <1>m, <2>1
  <2>3. SameNotes /\ Done' = Done
    BY <1>2, <1>o, <1>5, <2>1, <2>2, NotesStay
  <2> QED
    BY <1>2, <2>1, <2>2, <2>3, FollowFrame
<1>7. CASE Callback
  <2>1. UNCHANGED <<log, inbox, held, lastCount, main, overlap>>
    BY <1>7 DEF Callback, Receive, NoteOn, SuppressEcho, NoteOff, ScheduleSync, Enqueue, cbRest,
       poll, history
  <2>2. Following => Following'
    BY <1>7, FollowOn, FollowOff, FollowQuiet DEF Callback
  <2> QED
    BY <1>2, <2>1, <2>2
<1>8. CASE main.pc \notin {"setup", "done"} /\ Environment
  <2>1. CASE DriverFault
    <3>1. /\ UNCHANGED <<lastCount, main, hostOut, cb, overlap>>
          /\ UNCHANGED <<held, inbox, hostLed, active, lastPress, onLast, released>>
          /\ log' = <<>>
      BY <1>2, <2>1 DEF DriverFault, DriverChange, Publish, poll, host, lights
    <3>2. SameNotes /\ Done' = Done
      BY <1>2, <1>o, <1>5, <3>1, NotesStay
    <3> QED
      BY <1>2, <3>1, <3>2, FollowFrame
  <2>2. CASE HostSpeaks
    <3>1. UNCHANGED <<log, inbox, held, lastCount, main>>
      BY <2>2 DEF HostSpeaks, poll
    <3>2. \A c \in Channels : Clear(c)
      <4>1. DOMAIN log = {} /\ DOMAIN inbox = {} /\ ~(Done < Len(log))
        BY <1>2, <1>l DEF Done, MainAt
      <4> QED
        BY <4>1 DEF Clear, PressOf, PressAhead, Asked
    <3>3. ~overlap' => Following'
      BY <1>1, <1>2, <1>8, <2>2, <3>2, FollowSpeech
    <3> QED
      BY <1>2, <3>1, <3>3
  <2> QED
    BY <1>3, <1>4, <1>8, <2>1, <2>2 DEF Environment
<1>9. CASE Main
  <2>1. UNCHANGED <<log, inbox, held, hostOut, hostLed, cb, lastPress, onLast>>
    BY <1>4, <1>9 DEF Main, SetUp, StartClear, ClearLight, ClearDone, ReadFails, ReadCount, ReadIndex,
       ReadRecent, DrainOne, DrainDone, Relatch, RelatchDone, StartSync, Snapshot, Sleep,
       pollRest, mainRest, lights
  <2>2. lastCount' = 0
    <3>1. CASE StartClear
      BY <1>l, <3>1 DEF StartClear
    <3>2. CASE ReadRecent
      BY <1>2, <3>2 DEF ReadRecent, Least
    <3>3. CASE ~StartClear /\ ~ReadRecent
      BY <1>2, <1>4, <1>9, <3>3 DEF Main, SetUp, ClearLight, ClearDone, ReadFails, ReadCount,
         ReadIndex, DrainOne, DrainDone, Relatch, RelatchDone, StartSync, Snapshot, Sleep,
         pollRest, mainRest
    <3> QED
      BY <3>1, <3>2, <3>3
  <2>3. main'.count = 0 /\ main'.pc \notin {"data", "forward"}
    <3>1. CASE ReadRecent
      <4>1. ~(main.count > lastCount')
        BY <1>2, <2>2
      <4> QED
        BY <1>2, <1>m, <3>1, <4>1 DEF ReadRecent
    <3>2. CASE ~ReadRecent
      BY <1>2, <1>4, <1>l, <1>m, <1>9, <3>2 DEF Main, SetUp, StartClear, ClearLight, ClearDone,
         ReadFails, ReadCount, ReadIndex, DrainOne, DrainDone, Relatch, RelatchDone, StartSync,
         Snapshot, Sleep, MainAt, Goto
    <3> QED
      BY <3>1, <3>2
  <2>4. Done' = Done
    BY <1>2, <1>5, <2>1, <2>2, <2>3
  <2>5. ASSUME ~overlap'
        PROVE  Following'
    <3>1. Following
      BY <1>1, <1>2, <2>5
    <3>2. CASE Sleep
      BY <2>4, <2>5, <3>1, <3>2, FollowSleep
    <3>3. CASE ~Sleep
      <4>1. main'.pc \in {"setup", "start", "clear"} => main.pc \in {"setup", "start", "clear"}
        BY <1>4, <1>9, <1>m, <3>3 DEF Main, SetUp, StartClear, ClearLight, ClearDone, ReadFails,
           ReadCount, ReadIndex, ReadRecent, DrainOne, DrainDone, Relatch, RelatchDone, StartSync,
           Snapshot, MainAt, Goto
      <4>2. released' = released
        BY <1>4, <1>9, <3>3 DEF Main, SetUp, StartClear, ClearLight, ClearDone, ReadFails,
           ReadCount, ReadIndex, ReadRecent, DrainOne, DrainDone, Relatch, RelatchDone, StartSync,
           Snapshot, pollRest, lights
      <4>3. active' = active
        <5>1. CASE ClearLight
          BY <3>1, <5>1, ClearsNothing
        <5>2. CASE ~ClearLight
          BY <1>4, <1>9, <3>3, <5>2 DEF Main, SetUp, StartClear, ClearDone, ReadFails,
             ReadCount, ReadIndex, ReadRecent, DrainOne, DrainDone, Relatch, RelatchDone, StartSync,
             Snapshot, pollRest, lights
        <5> QED
          BY <5>1, <5>2
      <4>4. SameNotes
        BY <1>o, <2>1, NotesStay
      <4> QED
        BY <2>1, <2>4, <3>1, <4>1, <4>2, <4>3, <4>4, FollowFrame
    <3> QED
      BY <3>2, <3>3
  <2> QED
    BY <1>2, <2>1, <2>2, <2>3, <2>5
<1> QED
  BY <1>6, <1>7, <1>8, <1>9 DEF Next

\* A host that never sends a note has no light on, nor has the bridge.
LEMMA LightlessStep ==
    ASSUME Typed, LightlessInv, [Next]_vars
    PROVE  LightlessInv'
<1>1. scene' = scene
  BY HistoryStays
<1> SUFFICES ASSUME Lightless(scene)
             PROVE  /\ cb'.pc \notin {"state", "due"}
                    /\ \A i \in DOMAIN hostOut' : ~IsNote(hostOut'[i])
                    /\ \A c \in Channels : ~active'[c] /\ ~hostLed'[c]
  BY <1>1 DEF LightlessInv
<1>2. /\ cb.pc \notin {"state", "due"} /\ \A i \in DOMAIN hostOut : ~IsNote(hostOut[i])
      /\ \A c \in Channels : ~active[c] /\ ~hostLed[c]
      /\ ~scene.replies /\ \A m \in scene.speaks : ~IsNote(m)
  BY DEF LightlessInv, Lightless
<1>3. hostOut \in Seq(HostMessage) /\ cb \in [pc: {"idle", "state", "due", "queue"}, msg: HostMessage]
  BY DEF Typed, HostTyped, CallbackTyped
<1>4. CASE UNCHANGED vars \/ Quit
  BY <1>2, <1>4 DEF vars, host, lights, Quit, pollRest, mainRest
<1>5. CASE Callback
  <2>1. CASE Receive
    <3>1. /\ hostOut # <<>> /\ hostOut' = Tail(hostOut) /\ UNCHANGED <<active, hostLed>>
      BY <2>1 DEF Receive, cbRest, lights
    <3>2. /\ 1 \in DOMAIN hostOut /\ Head(hostOut) = hostOut[1]
          /\ \A i \in DOMAIN hostOut' : i + 1 \in DOMAIN hostOut /\ hostOut'[i] = hostOut[i + 1]
      BY <1>3, <3>1, HeadTailProperties, LenProperties, EmptySeq
    <3>3. cb'.pc \notin {"state", "due"}
      BY <1>2, <2>1, <3>2 DEF Receive
    <3> QED
      BY <1>2, <3>1, <3>2, <3>3
  <2>2. CASE Enqueue
    BY <1>2, <1>3, <2>2 DEF Enqueue, cbRest, lights
  <2> QED
    BY <1>2, <1>5, <2>1, <2>2 DEF Callback, NoteOn, SuppressEcho, NoteOff, ScheduleSync
<1>6. CASE Environment
  <2>1. ASSUME NEW c \in Channels, Press(c) \/ Release(c)
        PROVE  UNCHANGED <<cb, hostOut, active, hostLed>>
    BY <2>1 DEF Press, Release, Decode, lights
  <2>2. CASE DriverFault
    BY <1>2, <2>2 DEF DriverFault, host, lights
  <2>3. ~HostAnswers
    BY <1>2 DEF HostAnswers
  <2>4. CASE HostSpeaks
    <3>1. PICK m \in scene.speaks :
             /\ hostOut' = Append(hostOut, m)
             /\ hostLed' = IF IsNote(m) THEN [hostLed EXCEPT ![m.ch] = m.on] ELSE hostLed
      BY <2>4 DEF HostSpeaks
    <3>2. hostOut = <<>> /\ UNCHANGED <<cb, active>>
      BY <2>4 DEF HostSpeaks, HostFree, lights
    <3>3. hostOut' = <<m>> /\ hostLed' = hostLed /\ ~IsNote(m)
      BY <1>2, <3>1, <3>2
    <3> QED
      BY <1>2, <3>2, <3>3
  <2> QED
    BY <1>2, <1>6, <2>1, <2>2, <2>3, <2>4 DEF Environment
<1>7. CASE Main
  <2>1. UNCHANGED <<cb, hostOut, hostLed>>
    BY <1>7 DEF Main, SetUp, StartClear, ClearLight, ClearDone, ReadFails, ReadCount, ReadIndex,
       ReadRecent, ReadData, ForwardMessage, SkipEmpty, ForwardDone, DrainOne, DrainDone, Relatch,
       RelatchDone, StartSync, Snapshot, Sleep, pollRest, mainRest
  <2>2. active' = active \/ active' = [active EXCEPT ![FirstOf(main.todo)] = FALSE]
    BY <1>7 DEF Main, SetUp, StartClear, ClearLight, ClearDone, ReadFails, ReadCount, ReadIndex,
       ReadRecent, ReadData, ForwardMessage, SkipEmpty, ForwardDone, DrainOne, DrainDone, Relatch,
       RelatchDone, StartSync, Snapshot, Sleep, pollRest, lights
  <2>3. \A c \in Channels : ~active'[c]
    BY <1>2, <2>2 DEF Typed, LightsTyped
  <2> QED
    BY <1>2, <2>1, <2>3
<1> QED
  BY <1>4, <1>5, <1>6, <1>7 DEF Next

\* With nothing lost on the way from the console, nobody there, or no lights of the host's,
\* the lights always follow: two slots of the ring are enough.
THEOREM LightsFollowHostAlways ==
    ASSUME RingSize >= 2,
           \A s \in Scenes : Sound(s) \/ Unattended(s) \/ Lightless(s)
    PROVE  Spec => []LightsFollowHost
<1> DEFINE All == /\ Typed /\ EchoTyped /\ OrderInv /\ FollowInv
                  /\ SoundInv /\ UnattendedInv /\ LightlessInv
<1>1. Init => All
  <2> SUFFICES ASSUME Init
               PROVE  SoundInv /\ UnattendedInv /\ LightlessInv
    BY FollowInit, OrderInit, TypedInit
  <2>1. SoundInv
    BY DEF Init, SoundInv
  <2>2. UnattendedInv
    <3>1. Following
      BY FollowInit DEF FollowInv, Init
    <3>2. /\ log = <<>> /\ inbox = <<>> /\ held = {} /\ lastCount = 0
          /\ main.count = 0 /\ main.pc = "setup"
      BY DEF Init
    <3> QED
      BY <3>1, <3>2 DEF UnattendedInv
  <2>3. LightlessInv
    <3>1. /\ hostOut = <<>> /\ cb.pc = "idle"
          /\ hostLed = [c \in Channels |-> FALSE] /\ active = [c \in Channels |-> FALSE]
      BY DEF Init
    <3> QED
      BY <3>1 DEF LightlessInv
  <2> QED
    BY <2>1, <2>2, <2>3
<1>2. All /\ [Next]_vars => All'
  BY TypedStep, EchoStep, OrderStepHolds, FollowStep, SoundStep, UnattendedStep, LightlessStep
<1>3. All => LightsFollowHost
  <2> SUFFICES ASSUME All, ~overlap, hostOut = <<>>, cb.pc = "idle"
               PROVE  active = hostLed
    BY DEF LightsFollowHost
  <2>1. scene \in Scenes /\ hostLed \in [Channels -> BOOLEAN] /\ active \in [Channels -> BOOLEAN]
    BY DEF Typed, HostTyped, LightsTyped
  <2>2. ASSUME Following
        PROVE  active = hostLed
    BY <2>1, <2>2, FollowedAtRest
  <2>3. CASE Sound(scene)
    BY <2>2, <2>3 DEF SoundInv, FollowInv
  <2>4. CASE Unattended(scene)
    BY <2>2, <2>4 DEF UnattendedInv
  <2>5. CASE Lightless(scene)
    BY <2>1, <2>5 DEF LightlessInv
  <2> QED
    BY <2>1, <2>3, <2>4, <2>5
<1> QED
  BY <1>1, <1>2, <1>3, PTL DEF Spec
=============================================================================
