------------------------- MODULE DriverLife_proofs -------------------------
(***************************************************************************)
(* Theorems about DriverLife for any number of starts, attempts, faults and *)
(* bus resets: the device is addressed only after its bus was found         *)
(* identified, and, if the soft reset never fails, memory stays in place    *)
(* under the controller that Stop can reach, and Stop leaves nothing else.  *)
(***************************************************************************)
EXTENDS DriverLife, TLAPS

Chip == [link: BOOLEAN, selfID: BOOLEAN, nodeValid: BOOLEAN, count: BOOLEAN,
         complete: BOOLEAN, busReset: BOOLEAN]

-----------------------------------------------------------------------------
(* What creating and releasing a DMABuffer leaves, whatever the system answers. *)

\* A buffer that can be used is one that the controller may use.
LEMMA CreatedBuffer ==
    ASSUME NEW b, NEW outcomes, NEW n \in CreateDMABuffer(b, outcomes)
    PROVE  n.usable \/ n.low => n.prepared
<1> DEFINE Tried(x, o) == CreateDMABufferWithMaxAddressBits(x, o)
<1>1. ASSUME NEW x, NEW o
      PROVE  Tried(x, o).usable \/ Tried(x, o).low => Tried(x, o).prepared
  <2>1. Tried(x, o).usable = (o = "good") /\ Tried(x, o).low = (o \in {"scattered", "good"})
    BY DEF CreateDMABufferWithMaxAddressBits, ReleaseDMABuffer, NoBuffer
  <2>2. o \in {"scattered", "good"} => Tried(x, o).prepared
    BY DEF CreateDMABufferWithMaxAddressBits, ReleaseDMABuffer, NoBuffer
  <2> QED
    BY <2>1, <2>2
<1>2. PICK low \in outcomes : n \in (IF low \in {"scattered", "good"} THEN {Tried(b, low)}
                                    ELSE {Tried(Tried(b, low), o) : o \in outcomes})
  BY DEF CreateDMABuffer
<1>3. \E x, o : n = Tried(x, o)
  BY <1>2
<1> HIDE DEF Tried
<1> QED
  BY <1>1, <1>3

\* A buffer that was released is out of the controller's reach.
LEMMA ReleasedBuffer == ~NoBuffer.prepared
  BY DEF NoBuffer

-----------------------------------------------------------------------------
(* What is written to the controller.                                       *)

\* A bus reset takes the signs of identification away and leaves the link as it is.
LEMMA BusResetChip ==
    ASSUME NEW c \in Chip
    PROVE  /\ BusReset(c) \in Chip
           /\ BusReset(c).link = c.link
           /\ ~BusReset(c).nodeValid /\ ~BusReset(c).count /\ ~BusReset(c).complete
  BY DEF BusReset, Chip

\* Clearing all events takes one sign away.
LEMMA EventsCleared ==
    ASSUME NEW c \in Chip, NEW d, d = [c EXCEPT !.complete = FALSE, !.busReset = FALSE]
    PROVE  /\ d \in Chip
           /\ d.link = c.link /\ d.nodeValid = c.nodeValid /\ d.count = c.count
           /\ ~d.complete
  BY DEF Chip

\* Clearing the events the acknowledgement clears, likewise.
LEMMA CompleteCleared ==
    ASSUME NEW c \in Chip, NEW d, d = [c EXCEPT !.complete = FALSE]
    PROVE  /\ d \in Chip
           /\ d.link = c.link /\ d.nodeValid = c.nodeValid /\ d.count = c.count
           /\ ~d.complete
  BY DEF Chip

\* Turning the link and its reception of self-IDs on or off leaves the signs alone.
LEMMA LinkSet ==
    ASSUME NEW c \in Chip, NEW x \in BOOLEAN, NEW d,
           d = [c EXCEPT !.link = x, !.selfID = x]
    PROVE  /\ d \in Chip
           /\ d.link = x /\ d.nodeValid = c.nodeValid /\ d.count = c.count
           /\ d.complete = c.complete
  BY DEF Chip

\* Stop turns off the link alone.
LEMMA LinkCleared ==
    ASSUME NEW c \in Chip, NEW d, d = [c EXCEPT !.link = FALSE]
    PROVE  /\ d \in Chip
           /\ ~d.link /\ d.nodeValid = c.nodeValid /\ d.count = c.count
           /\ d.complete = c.complete
  BY DEF Chip

\* The first enabling of the link, the later ones clear the events as well.
LEMMA LinkEnabled ==
    ASSUME NEW c \in Chip, NEW d,
           d = [c EXCEPT !.link = TRUE, !.selfID = TRUE, !.complete = FALSE, !.busReset = FALSE]
    PROVE  /\ d \in Chip
           /\ d.link /\ d.nodeValid = c.nodeValid /\ d.count = c.count
           /\ ~d.complete
  BY DEF Chip

\* Identification leaves the link alone.
LEMMA IdentifyChip ==
    ASSUME NEW c \in Chip, NEW d,
           d = [c EXCEPT !.nodeValid = c.nodeValid \/ c.link,
                         !.count = c.count \/ (c.link /\ c.selfID),
                         !.complete = c.complete \/ (c.link /\ c.selfID)]
    PROVE  d \in Chip /\ d.link = c.link
  BY DEF Chip

\* The soft reset turns the link off and clears the signs.
LEMMA ResetChip ==
    Reset \in Chip /\ ~Reset.link /\ ~Reset.nodeValid /\ ~Reset.count /\ ~Reset.complete
  BY DEF Reset, Chip

-----------------------------------------------------------------------------
(* Types, and signs of identification that are true.                        *)

\* A sign of identification is in the registers only while the bus is identified.
SignsTrue == chip.nodeValid \/ chip.complete \/ chip.count => ~resetting

\* No step writes something else to the controller, and no step leaves or makes a sign
\* while the bus is being reset.
LEMMA SignsStep ==
    ASSUME chip \in Chip, SignsTrue, [Next]_vars
    PROVE  chip' \in Chip /\ SignsTrue'
<1> USE DEF SignsTrue
<1>1. CASE chip' = chip /\ resetting' = resetting
  BY <1>1
<1>2. CASE UNCHANGED vars
  BY <1>1, <1>2 DEF vars
<1>3. CASE OpenDevice \/ GetBARInfo \/ CreateBuffers \/ SelfIDFound \/ SelfIDMissed
           \/ SetDestination \/ CreateAudioDevice \/ AddAudioDevice \/ RegisterService
  BY <1>1, <1>3 DEF OpenDevice, GetBARInfo, CreateBuffers, SelfIDFound, SelfIDMissed,
                    SetDestination, CreateAudioDevice, AddAudioDevice, RegisterService, bus
<1>4. CASE SoftwareResetOHCI
  BY <1>1, <1>4, ResetChip DEF SoftwareResetOHCI, bus
<1>5. CASE SetUpLink
  BY <1>1, <1>5, EventsCleared DEF SetUpLink, Written
<1>6. CASE EnableLink
  BY <1>1, <1>6, LinkSet DEF EnableLink, Written
<1>7. CASE DisableLinkForRetry
  <2>1. \A d : d = [chip EXCEPT !.link = FALSE, !.selfID = FALSE] =>
                 d \in Chip /\ d.nodeValid = chip.nodeValid /\ d.count = chip.count
                 /\ d.complete = chip.complete
    BY LinkSet
  <2> QED
    BY <1>1, <1>7, <2>1 DEF DisableLinkForRetry, Written
<1>8. CASE EnableLinkAgain
  BY <1>1, <1>8, LinkEnabled DEF EnableLinkAgain, Written
<1>9. CASE ShortReset
  BY <1>1, <1>9, BusResetChip DEF ShortReset, UpdatePhyRegister, Written
<1>10. CASE LongReset
  <2> DEFINE cleared == [chip EXCEPT !.complete = FALSE, !.busReset = FALSE]
  <2>1. cleared \in Chip /\ cleared.nodeValid = chip.nodeValid
        /\ cleared.count = chip.count /\ ~cleared.complete
    BY EventsCleared
  <2>2. \/ chip' = BusReset(cleared)
        \/ chip' \in {chip, cleared} /\ resetting' = resetting
    BY <1>10 DEF LongReset, UpdatePhyRegister, Written
  <2> HIDE DEF cleared
  <2> QED
    BY <2>1, <2>2, BusResetChip
<1>11. CASE AcknowledgeBusResetLikeLinux
  BY <1>1, <1>11, CompleteCleared DEF AcknowledgeBusResetLikeLinux, Written
<1>12. CASE Stream
  BY <1>1, <1>12 DEF Stream, RunDigiLiveBeginTransactions, StartDigiLiveIsoStream, StopDevice
<1>13. CASE StopStream \/ ForgetDevice \/ ReleaseBuffers
  BY <1>1, <1>13 DEF StopStream, ForgetDevice, ReleaseBuffers
<1>14. CASE DisableLink
  BY <1>1, <1>14, LinkCleared DEF DisableLink, bus
<1>15. CASE ResetByOthers
  BY <1>15, BusResetChip DEF ResetByOthers
<1>16. CASE Identify
  BY <1>16, IdentifyChip DEF Identify
<1>17. CASE Unplug
  BY <1>1, <1>17 DEF Unplug
<1> QED
  BY <1>2, <1>3, <1>4, <1>5, <1>6, <1>7, <1>8, <1>9, <1>10, <1>11, <1>12, <1>13, <1>14,
     <1>15, <1>16, <1>17 DEF Next, Start, Stop, Environment

-----------------------------------------------------------------------------
(* The device is addressed on an identified bus.                            *)

Unidentified == {"off", "opened", "reset", "allocate", "setup", "link", "retry", "relink",
                 "shortReset", "longReset", "acknowledge", "await", "settle", "release"}

\* No destination is known before the self-ID is taken for ready, nor once Stop forgot it; and
\* it becomes known only after the bus was identified, which later resets do not undo.
Told ==
    /\ pc \in Unidentified => ~destination
    /\ pc = "settle" \/ destination => found \/ unplugged

\* Every step keeps the destination to that.
LEMMA ToldStep ==
    ASSUME SignsTrue, Told, [Next]_vars
    PROVE  Told'
<1> USE DEF Told, Unidentified
<1>1. CASE UNCHANGED vars
  BY <1>1 DEF vars
<1>2. CASE OpenDevice \/ GetBARInfo \/ SoftwareResetOHCI \/ CreateBuffers \/ SetUpLink \/ EnableLink
  BY <1>2 DEF OpenDevice, GetBARInfo, SoftwareResetOHCI, CreateBuffers, SetUpLink, EnableLink, Goto
<1>3. CASE DisableLinkForRetry \/ EnableLinkAgain \/ ShortReset \/ LongReset
           \/ AcknowledgeBusResetLikeLinux \/ SelfIDMissed
  BY <1>3 DEF DisableLinkForRetry, EnableLinkAgain, ShortReset, LongReset,
              AcknowledgeBusResetLikeLinux, SelfIDMissed, Goto
<1>4. CASE SelfIDFound
  BY <1>4 DEF SelfIDFound, IsSelfIDReady, SignsTrue, Goto
<1>5. CASE SetDestination \/ CreateAudioDevice \/ AddAudioDevice \/ RegisterService
  BY <1>5 DEF SetDestination, CreateAudioDevice, AddAudioDevice, RegisterService, Goto
<1>6. CASE Stop
  BY <1>6 DEF Stop, StopStream, DisableLink, ForgetDevice, ReleaseBuffers, Goto
<1>7. CASE Stream
  <2>1. UNCHANGED <<pc, destination, found, unplugged>>
    BY <1>7, Zenon DEF Stream, RunDigiLiveBeginTransactions, StartDigiLiveIsoStream, StopDevice
  <2> QED
    BY <2>1
<1>8. CASE Environment
  BY <1>8 DEF Environment, ResetByOthers, Identify, Unplug
<1> QED
  BY <1>1, <1>2, <1>3, <1>4, <1>5, <1>6, <1>7, <1>8 DEF Next, Start

\* The destination is set only after the three signs of identification were asked for on a
\* bus that had identified itself (SetDigiDestinationFromBusResetSelfID), however many
\* resets by others, failed PHY accesses and earlier starts came before.
THEOREM IdentifiedHolds == Spec => []Identified
<1>1. Init => chip \in Chip /\ SignsTrue /\ Told
  BY ResetChip DEF Init, SignsTrue, Told, Unidentified
<1>2. chip \in Chip /\ SignsTrue /\ Told /\ [Next]_vars => (chip \in Chip /\ SignsTrue /\ Told)'
  BY SignsStep, ToldStep
<1>3. Told => Identified
  BY DEF Told, Identified
<1> QED
  BY <1>1, <1>2, <1>3, PTL DEF Spec

-----------------------------------------------------------------------------
(* Memory stays in place.                                                   *)

Names == {"selfID", "rom", "live"}

Shape ==
    /\ pci \in [open: BOOLEAN, known: BOOLEAN, unreached: BOOLEAN]
    /\ buffers = [b \in Names |-> buffers[b]]

Unlinked == {"off", "opened", "reset", "allocate", "setup", "link", "relink", "forget", "release"}

Linking == {"setup", "link", "retry", "relink", "shortReset", "longReset", "acknowledge", "await",
            "settle"}

Leaving == {"forget", "release", "off", "opened", "reset"}

\* Before the buffers are pointed to and after Stop turned it off, the link is off; what Stop
\* could not reach, the next soft reset does.
LinkOff ==
    /\ pc \in Unlinked => (chip.link => unplugged \/ pci.unreached)
    /\ pci.unreached => unplugged \/ pc \in Leaving

\* The link comes with its memory.
LinkOn ==
    pc \in Linking \/ (chip.link /\ ~unplugged /\ ~pci.unreached) =>
        Prepared("selfID") /\ Prepared("rom")

\* After the soft reset a running context has its memory; one that outlives its memory, since the
\* stream was restarted while Stop ran, is stopped by the next soft reset.
Streaming ==
    /\ pc \notin {"off", "opened", "reset"} /\ contexts /\ ~unplugged => Prepared("live")
    /\ restarting => ~Prepared("live")

\* What Start finds and Stop leaves.
Clean ==
    /\ pc \in {"off", "opened"} => \A b \in Names : buffers[b] = NoBuffer
    /\ pc \in {"off", "opened", "release"} => ~pci.known /\ ~destination /\ audio = "none"
    /\ pc \in {"off", "forget", "release"} => ~pci.open

\* There are always three buffers, and two things known of the adapter.
LEMMA ShapeStep ==
    ASSUME Shape, [Next]_vars
    PROVE  Shape'
<1> USE DEF Shape, Names
<1>1. CASE UNCHANGED <<pci, buffers>>
  BY <1>1
<1>2. CASE OpenDevice \/ GetBARInfo \/ SoftwareResetOHCI \/ DisableLink \/ ForgetDevice
  <2>1. UNCHANGED buffers
    BY <1>2 DEF OpenDevice, GetBARInfo, SoftwareResetOHCI, DisableLink, ForgetDevice
  <2>2. pci' \in [open: BOOLEAN, known: BOOLEAN, unreached: BOOLEAN]
    BY <1>2 DEF OpenDevice, GetBARInfo, SoftwareResetOHCI, DisableLink, ForgetDevice
  <2> QED
    BY <2>1, <2>2
<1>3. CASE CreateBuffers
  BY <1>3 DEF CreateBuffers, sound
<1>4. CASE StartDigiLiveIsoStream
  BY <1>4 DEF StartDigiLiveIsoStream
<1>5. CASE StopDevice \/ StopStream
  BY <1>5 DEF StopDevice, StopStream, StreamStopped
<1>6. CASE ReleaseBuffers
  BY <1>6 DEF ReleaseBuffers
<1>7. CASE UNCHANGED vars
  BY <1>7 DEF vars
<1>8. CASE SetUpLink \/ EnableLink \/ DisableLinkForRetry \/ EnableLinkAgain
  BY <1>8 DEF SetUpLink, EnableLink, DisableLinkForRetry, EnableLinkAgain
<1>9. CASE ShortReset \/ LongReset \/ AcknowledgeBusResetLikeLinux \/ SelfIDFound \/ SelfIDMissed
           \/ SetDestination \/ CreateAudioDevice \/ AddAudioDevice \/ RegisterService
  BY <1>9 DEF ShortReset, LongReset, AcknowledgeBusResetLikeLinux, SelfIDFound, SelfIDMissed,
              SetDestination, CreateAudioDevice, AddAudioDevice, RegisterService
<1>10. CASE RunDigiLiveBeginTransactions \/ Environment
  BY <1>10 DEF RunDigiLiveBeginTransactions, Environment, ResetByOthers, Identify, Unplug
<1> QED
  BY <1>2, <1>3, <1>4, <1>5, <1>6, <1>7, <1>8, <1>9, <1>10 DEF Next, Start, Stop, Stream

\* The self-ID buffer and the configuration ROM stay unless Start creates or Stop releases them.
LEMMA LinkMemory ==
    ASSUME Shape, [Next]_vars, ~CreateBuffers, ~ReleaseBuffers
    PROVE  (Prepared("selfID") <=> Prepared("selfID")') /\ (Prepared("rom") <=> Prepared("rom")')
<1> USE DEF Shape, Names, Prepared
<1>1. CASE UNCHANGED buffers
  BY <1>1
<1>2. CASE StartDigiLiveIsoStream
  BY <1>2 DEF StartDigiLiveIsoStream
<1>3. CASE StopDevice \/ StopStream
  BY <1>3 DEF StopDevice, StopStream, StreamStopped
<1>4. CASE UNCHANGED vars
  BY <1>4 DEF vars
<1>5. CASE OpenDevice \/ GetBARInfo \/ SoftwareResetOHCI \/ SetUpLink \/ EnableLink
           \/ DisableLinkForRetry \/ EnableLinkAgain
  BY <1>1, <1>5 DEF OpenDevice, GetBARInfo, SoftwareResetOHCI, SetUpLink, EnableLink,
                    DisableLinkForRetry, EnableLinkAgain
<1>6. CASE ShortReset \/ LongReset \/ AcknowledgeBusResetLikeLinux \/ SelfIDFound \/ SelfIDMissed
           \/ SetDestination \/ CreateAudioDevice \/ AddAudioDevice \/ RegisterService
  BY <1>1, <1>6 DEF ShortReset, LongReset, AcknowledgeBusResetLikeLinux, SelfIDFound, SelfIDMissed,
              SetDestination, CreateAudioDevice, AddAudioDevice, RegisterService
<1>7. CASE RunDigiLiveBeginTransactions \/ DisableLink \/ ForgetDevice \/ Environment
  BY <1>1, <1>7 DEF RunDigiLiveBeginTransactions, DisableLink, ForgetDevice, Environment,
                    ResetByOthers, Identify, Unplug
<1> QED
  BY <1>2, <1>3, <1>4, <1>5, <1>6, <1>7 DEF Next, Start, Stop, Stream

\* The link stays off where it must be: only a soft reset that fails could leave it on.
LEMMA LinkOffStep ==
    ASSUME chip \in Chip, Shape, LinkOff, "reset" \notin MayFail, [Next]_vars
    PROVE  LinkOff'
<1> USE DEF LinkOff, Unlinked, Leaving
<1>1. CASE /\ UNCHANGED <<chip, unplugged, pci>>
           /\ pc' \in Unlinked => pc \in Unlinked
           /\ pc \in Leaving => pc' \in Leaving
  BY <1>1
<1>2. CASE UNCHANGED vars
  BY <1>1, <1>2 DEF vars
<1>3. CASE OpenDevice \/ GetBARInfo
  <2>1. UNCHANGED <<chip, unplugged>> /\ {pc, pc'} \subseteq Unlinked \cap Leaving
    BY <1>3 DEF OpenDevice, GetBARInfo, Goto
  <2>2. pci'.unreached = pci.unreached
    BY <1>3 DEF OpenDevice, GetBARInfo, Shape
  <2> QED
    BY <2>1, <2>2
<1>15. CASE CreateBuffers
  BY <1>1, <1>15 DEF CreateBuffers
<1>4. CASE SoftwareResetOHCI
  <2>1. CASE unplugged
    BY <1>4, <2>1 DEF SoftwareResetOHCI
  <2>2. CASE ~unplugged
    <3>1. chip' = Reset /\ pci' = [pci EXCEPT !.unreached = FALSE]
      BY <1>4, <2>2 DEF SoftwareResetOHCI, Fails, Gone
    <3> QED
      BY <3>1, ResetChip DEF Shape
  <2> QED
    BY <2>1, <2>2
<1>5. CASE SetUpLink
  BY <1>5, EventsCleared DEF SetUpLink, Written, Goto
<1>6. CASE EnableLink \/ EnableLinkAgain \/ ShortReset \/ LongReset \/ AcknowledgeBusResetLikeLinux
  BY <1>6 DEF EnableLink, EnableLinkAgain, ShortReset, LongReset, AcknowledgeBusResetLikeLinux, Goto
<1>7. CASE DisableLinkForRetry
  <2>1. \A d : d = [chip EXCEPT !.link = FALSE, !.selfID = FALSE] => ~d.link
    BY LinkSet
  <2>2. pc = "retry" /\ pc' = "relink" /\ UNCHANGED <<pci, unplugged>>
    BY <1>7 DEF DisableLinkForRetry, Goto
  <2>3. unplugged \/ ~chip'.link
    BY <1>7, <2>1 DEF DisableLinkForRetry, Written
  <2> QED
    BY <2>2, <2>3
<1>8. CASE SelfIDFound \/ SelfIDMissed \/ SetDestination \/ CreateAudioDevice \/ AddAudioDevice
           \/ RegisterService
  BY <1>8 DEF SelfIDFound, SelfIDMissed, SetDestination, CreateAudioDevice, AddAudioDevice,
              RegisterService, Goto
<1>9. CASE StopStream \/ ReleaseBuffers
  BY <1>1, <1>9 DEF StopStream, ReleaseBuffers, Goto
<1>16. CASE ForgetDevice
  <2>1. UNCHANGED <<chip, unplugged>> /\ {pc, pc'} \subseteq Unlinked \cap Leaving
    BY <1>16 DEF ForgetDevice, Goto
  <2>2. pci'.unreached = pci.unreached
    BY <1>16 DEF ForgetDevice, Shape
  <2> QED
    BY <2>1, <2>2
<1>10. CASE DisableLink
  <2>1. pc' \in Leaving /\ UNCHANGED unplugged
    BY <1>10 DEF DisableLink, Goto
  <2>2. ~chip'.link \/ pci'.unreached
    BY <1>10, LinkCleared DEF DisableLink, Shape
  <2> QED
    BY <2>1, <2>2
<1>11. CASE Stream
  BY <1>1, <1>11, Zenon DEF Stream, RunDigiLiveBeginTransactions, StartDigiLiveIsoStream, StopDevice
<1>12. CASE ResetByOthers
  BY <1>12, BusResetChip DEF ResetByOthers
<1>13. CASE Identify
  BY <1>13, IdentifyChip DEF Identify
<1>14. CASE Unplug
  BY <1>14 DEF Unplug
<1> QED
  BY <1>2, <1>3, <1>4, <1>5, <1>6, <1>7, <1>8, <1>9, <1>10, <1>11, <1>12, <1>13, <1>14, <1>15,
     <1>16
     DEF Next, Start, Stop, Environment

\* Where the link was off and no buffer was awaited, it comes on with its buffers alone.
LEMMA LinkOnStep ==
    ASSUME chip \in Chip, Shape, LinkOff, LinkOff', LinkOn, [Next]_vars
    PROVE  LinkOn'
<1> DEFINE Needed == pc \in Linking \/ (chip.link /\ ~unplugged /\ ~pci.unreached)
<1> USE DEF LinkOn, Linking
<1>1. CASE CreateBuffers
  <2>1. pc = "allocate" /\ UNCHANGED <<chip, unplugged, pci>>
    BY <1>1 DEF CreateBuffers
  <2>2. chip'.link => unplugged' \/ pci'.unreached
    BY <2>1 DEF LinkOff, Unlinked
  <2>3. pc' \in Linking => Prepared("selfID")' /\ Prepared("rom")'
    <3>1. PICK s \in CreateDMABuffer(buffers["selfID"], Outcomes),
               r \in CreateDMABuffer(buffers["rom"], Outcomes) :
               /\ buffers' = [buffers EXCEPT !["selfID"] = s, !["rom"] = r]
               /\ pc' = IF s.low /\ r.low THEN "setup" ELSE "audio"
      BY <1>1 DEF CreateBuffers
    <3>2. (s.low => s.prepared) /\ (r.low => r.prepared)
      BY <3>1, CreatedBuffer
    <3> QED
      BY <3>1, <3>2 DEF Shape, Names, Prepared
  <2> QED
    BY <2>2, <2>3
<1>2. CASE ReleaseBuffers
  BY <1>2 DEF ReleaseBuffers, Goto, LinkOff, Unlinked
<1>3. CASE ~CreateBuffers /\ ~ReleaseBuffers
  <2>1. Needed' => Needed
    <3>1. CASE UNCHANGED <<chip, unplugged, pci>> /\ (pc' \in Linking => pc \in Linking)
      BY <3>1
    <3>2. CASE pc \in Linking
      BY <3>2
    <3>3. CASE UNCHANGED vars
      BY <3>1, <3>3 DEF vars
    <3>4. CASE CreateAudioDevice \/ AddAudioDevice \/ RegisterService
      BY <3>1, <3>4 DEF CreateAudioDevice, AddAudioDevice, RegisterService, sound, Goto
    <3>13. CASE OpenDevice \/ GetBARInfo \/ ForgetDevice
      <4>1. UNCHANGED <<chip, unplugged>> /\ pc' \notin Linking
        BY <3>13 DEF OpenDevice, GetBARInfo, ForgetDevice, Goto
      <4>2. pci'.unreached = pci.unreached
        BY <3>13 DEF OpenDevice, GetBARInfo, ForgetDevice, Shape
      <4> QED
        BY <4>1, <4>2
    <3>5. CASE SoftwareResetOHCI
      BY <3>5, ResetChip DEF SoftwareResetOHCI, Goto
    <3>6. CASE SetUpLink \/ EnableLink \/ DisableLinkForRetry \/ EnableLinkAgain \/ ShortReset
               \/ LongReset \/ AcknowledgeBusResetLikeLinux \/ SelfIDFound \/ SelfIDMissed
               \/ SetDestination
      BY <3>2, <3>6 DEF SetUpLink, EnableLink, DisableLinkForRetry, EnableLinkAgain, ShortReset,
                   LongReset, AcknowledgeBusResetLikeLinux, SelfIDFound, SelfIDMissed,
                   SetDestination, Goto
    <3>7. CASE StopStream
      BY <3>1, <3>7 DEF StopStream, Goto
    <3>8. CASE DisableLink
      <4>1. pc' \notin Linking /\ UNCHANGED unplugged
        BY <3>8 DEF DisableLink, Goto
      <4>2. ~chip'.link \/ pci'.unreached
        BY <3>8, LinkCleared DEF DisableLink, Shape
      <4> QED
        BY <4>1, <4>2
    <3>9. CASE Stream
      BY <3>1, <3>9, Zenon DEF Stream, RunDigiLiveBeginTransactions, StartDigiLiveIsoStream,
                               StopDevice
    <3>10. CASE ResetByOthers
      BY <3>10, BusResetChip DEF ResetByOthers
    <3>11. CASE Identify
      BY <3>11, IdentifyChip DEF Identify
    <3>12. CASE Unplug
      BY <3>12 DEF Unplug
    <3> QED
      BY <1>3, <3>3, <3>4, <3>5, <3>6, <3>7, <3>8, <3>9, <3>10, <3>11, <3>12, <3>13
         DEF Next, Start, Stop, Environment
  <2> QED
    BY <1>3, <2>1, LinkMemory
<1> QED
  BY <1>1, <1>2, <1>3

\* A restart that is under way found the stream without memory, and it fails or brings some.
LEMMA StreamingStep ==
    ASSUME Shape, Streaming, "reset" \notin MayFail, [Next]_vars
    PROVE  Streaming'
<1> DEFINE Early == {"off", "opened", "reset"}
<1> USE DEF Streaming, Prepared
<1>1. CASE UNCHANGED <<buffers, contexts, unplugged, restarting>> /\ (pc' \notin Early => pc \notin Early)
  BY <1>1
<1>2. CASE UNCHANGED vars
  BY <1>1, <1>2 DEF vars
<1>3. CASE OpenDevice \/ GetBARInfo
  BY <1>1, <1>3 DEF OpenDevice, GetBARInfo, sound, Goto
<1>4. CASE SoftwareResetOHCI
  BY <1>4 DEF SoftwareResetOHCI, Goto, Fails, Gone
<1>5. CASE CreateBuffers
  <2>1. UNCHANGED <<contexts, unplugged, restarting>> /\ pc = "allocate"
    BY <1>5 DEF CreateBuffers, sound
  <2>2. buffers'["live"] = buffers["live"]
    BY <1>5 DEF CreateBuffers, Shape, Names
  <2> QED
    BY <2>1, <2>2
<1>6. CASE SetUpLink \/ EnableLink \/ DisableLinkForRetry \/ EnableLinkAgain \/ ShortReset
           \/ LongReset \/ AcknowledgeBusResetLikeLinux
  BY <1>1, <1>6 DEF SetUpLink, EnableLink, DisableLinkForRetry, EnableLinkAgain, ShortReset,
                    LongReset, AcknowledgeBusResetLikeLinux, sound, Goto
<1>7. CASE SelfIDFound \/ SelfIDMissed \/ SetDestination \/ CreateAudioDevice \/ AddAudioDevice
           \/ RegisterService
  BY <1>1, <1>7 DEF SelfIDFound, SelfIDMissed, SetDestination, CreateAudioDevice, AddAudioDevice,
                    RegisterService, sound, Goto
<1>8. CASE RunDigiLiveBeginTransactions
  BY <1>8 DEF RunDigiLiveBeginTransactions
<1>9. CASE StartDigiLiveIsoStream
  <2>1. restarting /\ ~restarting' /\ UNCHANGED <<pc, unplugged>>
    BY <1>9 DEF StartDigiLiveIsoStream
  <2>2. CASE ~pci.known
    BY <1>9, <2>1, <2>2 DEF StartDigiLiveIsoStream
  <2>3. CASE pci.known
    <3>1. PICK b \in CreateDMABuffer(buffers["live"], Outcomes) :
            /\ buffers' = [buffers EXCEPT !["live"] = IF b.usable THEN b ELSE NoBuffer]
            /\ contexts' = IF b.usable THEN TRUE ELSE contexts
      BY <1>9, <2>3 DEF StartDigiLiveIsoStream
    <3>2. b.usable => b.prepared
      BY CreatedBuffer
    <3>3. buffers'["live"] = IF b.usable THEN b ELSE NoBuffer
      BY <3>1 DEF Shape, Names
    <3>4. contexts /\ ~unplugged => pc \in Early
      BY <2>1
    <3> QED
      BY <2>1, <3>1, <3>2, <3>3, <3>4
  <2> QED
    BY <2>2, <2>3
<1>10. CASE StopDevice
  BY <1>10, ReleasedBuffer DEF StopDevice, StreamStopped, ReleaseDMABuffer, Shape, Names
<1>11. CASE StopStream
  <2>1. pc = "up" /\ pc' = "unlink" /\ UNCHANGED <<unplugged, restarting>>
    BY <1>11 DEF StopStream, Goto
  <2>2. CASE Prepared("live")
    BY <1>11, <2>1, <2>2, ReleasedBuffer DEF StopStream, StreamStopped, ReleaseDMABuffer, Shape, Names
  <2>3. CASE ~Prepared("live")
    BY <1>11, <2>1, <2>3 DEF StopStream
  <2> QED
    BY <2>2, <2>3
<1>12. CASE DisableLink \/ ForgetDevice
  BY <1>1, <1>12 DEF DisableLink, ForgetDevice, sound, Goto
<1>13. CASE ReleaseBuffers
  BY <1>13, ReleasedBuffer DEF ReleaseBuffers, ReleaseDMABuffer, Shape, Names, Goto
<1>14. CASE Environment
  BY <1>14 DEF Environment, ResetByOthers, Identify, Unplug
<1> QED
  BY <1>2, <1>3, <1>4, <1>5, <1>6, <1>7, <1>8, <1>9, <1>10, <1>11, <1>12, <1>13, <1>14
     DEF Next, Start, Stop, Stream

\* What was taken back stays away until the next Start brings it: a restart that comes late
\* finds no adapter.
LEMMA CleanStep ==
    ASSUME Shape, Clean, [Next]_vars
    PROVE  Clean'
<1> DEFINE Bare == {"off", "opened", "forget", "release"}
<1> USE DEF Clean, Shape, Names
<1>1. CASE UNCHANGED <<pci, buffers, destination, audio, pc>>
  BY <1>1
<1>2. CASE pc' \notin Bare
  BY <1>2
<1>3. CASE UNCHANGED vars
  BY <1>1, <1>3 DEF vars
<1>4. CASE OpenDevice \/ GetBARInfo
  BY <1>4 DEF OpenDevice, GetBARInfo, Goto, sound
<1>5. CASE SoftwareResetOHCI \/ CreateBuffers \/ SetUpLink \/ EnableLink \/ DisableLinkForRetry
           \/ EnableLinkAgain \/ ShortReset \/ LongReset
  BY <1>2, <1>5 DEF SoftwareResetOHCI, CreateBuffers, SetUpLink, EnableLink, DisableLinkForRetry,
                    EnableLinkAgain, ShortReset, LongReset, Goto
<1>6. CASE AcknowledgeBusResetLikeLinux \/ SelfIDFound \/ SelfIDMissed \/ SetDestination
           \/ CreateAudioDevice \/ AddAudioDevice \/ RegisterService
  BY <1>2, <1>6 DEF AcknowledgeBusResetLikeLinux, SelfIDFound, SelfIDMissed, SetDestination,
                    CreateAudioDevice, AddAudioDevice, RegisterService, Goto
<1>7. CASE RunDigiLiveBeginTransactions
  BY <1>1, <1>7 DEF RunDigiLiveBeginTransactions
<1>8. CASE StartDigiLiveIsoStream
  <2>1. UNCHANGED <<pci, destination, audio, pc>> /\ (~pci.known => UNCHANGED buffers)
    BY <1>8, Zenon DEF StartDigiLiveIsoStream
  <2> QED
    BY <1>1, <2>1
<1>9. CASE StopDevice \/ StopStream
  BY <1>2, <1>9 DEF StopDevice, StopStream, Goto
<1>10. CASE DisableLink
  BY <1>10 DEF DisableLink, Goto, sound
<1>11. CASE ForgetDevice
  BY <1>11 DEF ForgetDevice, Goto
<1>12. CASE ReleaseBuffers
  BY <1>12 DEF ReleaseBuffers, ReleaseDMABuffer, Goto, sound
<1>13. CASE Environment
  BY <1>1, <1>13 DEF Environment, ResetByOthers, Identify, Unplug
<1> QED
  BY <1>3, <1>4, <1>5, <1>6, <1>7, <1>8, <1>9, <1>10, <1>11, <1>12, <1>13
     DEF Next, Start, Stop, Stream

Placed == chip \in Chip /\ SignsTrue /\ Shape /\ LinkOff /\ LinkOn /\ Streaming /\ Clean

\* If the soft reset of every start succeeds, then for any number of starts, attempts, faults and
\* bus resets: the enabled link has its self-ID buffer and configuration ROM and a running
\* context its buffer, and a driver that is off holds nothing, restarts during Stop included;
\* only a link that Stop could not reach (14563) is left without its memory, and on.
THEOREM InPlaceHolds ==
    ASSUME "reset" \notin MayFail
    PROVE  Spec => []InPlace
<1>1. Init => Placed
  BY ResetChip, ReleasedBuffer
     DEF Init, Placed, SignsTrue, Shape, Names, LinkOff, LinkOn, Linking, Streaming, Prepared, Clean
<1>2. Placed /\ [Next]_vars => Placed'
  <2> SUFFICES ASSUME Placed, [Next]_vars
               PROVE  Placed'
    OBVIOUS
  <2>1. chip \in Chip /\ SignsTrue /\ Shape /\ LinkOff /\ LinkOn /\ Streaming /\ Clean
    BY DEF Placed
  <2>2. (chip \in Chip)' /\ SignsTrue'
    BY <2>1, SignsStep
  <2>3. Shape'
    BY <2>1, ShapeStep
  <2>4. LinkOff'
    BY <2>1, LinkOffStep
  <2>5. LinkOn'
    BY <2>1, <2>4, LinkOnStep
  <2>6. Streaming'
    BY <2>1, StreamingStep
  <2>7. Clean'
    BY <2>1, CleanStep
  <2> QED
    BY <2>2, <2>3, <2>4, <2>5, <2>6, <2>7 DEF Placed
<1>3. Placed => InPlace
  <2> SUFFICES ASSUME Placed
               PROVE  InPlace
    OBVIOUS
  <2>1. NoDanglingDMA
    BY DEF Placed, NoDanglingDMA, LinkOff, LinkOn, Unlinked, Streaming
  <2>2. Withdrawn
    BY DEF Placed, Withdrawn, LinkOff, Unlinked, Clean, Shape, Names
  <2> QED
    BY <2>1, <2>2 DEF InPlace
<1> QED
  BY <1>1, <1>2, <1>3, PTL DEF Spec

=============================================================================
