----------------------------- MODULE DriverLife -----------------------------
(***************************************************************************)
(* The driver object from Start to Stop: opening the controller, bringing   *)
(* up the link by up to Attempts short bus resets and a long one, offering  *)
(* the audio device, and taking everything back.  A driver that was stopped *)
(* may be started again in the same process.                                *)
(*                                                                          *)
(* External: the controller, whose self-ID registers follow the bus; the    *)
(* bus, which is reset by the driver and by others; the adapter, which may  *)
(* be unplugged (its registers then read all ones).  The start and the stop *)
(* of the audio stream, in detail in DigiLiveStream, are single steps.      *)
(***************************************************************************)
EXTENDS Naturals, DMABuffer

CONSTANTS
    Attempts,           \* kShortResetAttemptCount
    Outcomes,           \* bound: what may happen when a buffer is created
    MayFail,            \* the calls that may fail, see Failures
    MaxFaults,          \* bound: how many calls fail
    MaxResets,          \* bound: bus resets by others
    MaxStarts,          \* bound: how often the driver is started
    RestartDuringStop   \* the block that restarts the stream may run while Stop does

Failures == {"bar", "reset", "phy", "audio", "register"}

ASSUME LifeAssumption ==
    /\ Attempts \in Nat \ {0}
    /\ {MaxFaults, MaxResets, MaxStarts} \subseteq Nat
    /\ Outcomes \subseteq Outcome /\ "good" \in Outcomes
    /\ MayFail \subseteq Failures
    /\ RestartDuringStop \in BOOLEAN

VARIABLES
    pc,          \* where Start or Stop is; "off" before, "up" between the two, "refused"
                 \* when Start ended in an error and took nothing back
    attempt,     \* the short reset under way; Attempts for the long one
    pci,         \* the session is open; gPCIDevice is set; history: Stop closed the session
                 \* without reaching the registers, and no soft reset came since
    chip,        \* link and self-ID reception enabled; node ID valid; self-ID count;
                 \* the events selfIDComplete and busReset
    contexts,    \* the isochronous contexts' run bits
    resetting,   \* the bus is being reset
    unplugged,   \* the adapter is gone
    buffers,     \* gSelfIDBuffer, gConfigROMBuffer, gDigiLiveBuffer
    destination, \* gDigiDestinationID is known
    found,       \* whether the bus was identified when the self-ID was taken for ready
    audio,       \* the audio device: "none", "created" or "added"
    restarting,  \* a restart block passed the tests of RunDigiLiveBeginTransactions
    faults, resets, starts

vars == <<pc, attempt, pci, chip, contexts, resetting, unplugged, buffers, destination,
          found, audio, restarting, faults, resets, starts>>

counters == <<faults, resets, starts>>
bus == <<resetting, resets>>
sound == <<audio, restarting, contexts>>

Reset == [link |-> FALSE, selfID |-> FALSE, nodeValid |-> FALSE, count |-> FALSE,
          complete |-> FALSE, busReset |-> FALSE]

Prepared(b) == buffers[b].prepared

Starting == {"opened", "reset", "allocate", "setup", "link", "retry", "relink", "shortReset",
             "longReset", "acknowledge", "await", "settle", "audio", "streams", "register"}
Stopping == {"unlink", "forget", "release"}

TypeOK ==
    /\ pc \in {"off", "up", "refused"} \cup Starting \cup Stopping
    /\ attempt \in 0..Attempts
    /\ pci \in [open: BOOLEAN, known: BOOLEAN, unreached: BOOLEAN]
    /\ chip \in [link: BOOLEAN, selfID: BOOLEAN, nodeValid: BOOLEAN, count: BOOLEAN,
                 complete: BOOLEAN, busReset: BOOLEAN]
    /\ contexts \in BOOLEAN /\ resetting \in BOOLEAN /\ unplugged \in BOOLEAN
    /\ buffers \in [{"selfID", "rom", "live"} -> Buffer]
    /\ destination \in BOOLEAN /\ found \in BOOLEAN /\ restarting \in BOOLEAN
    /\ audio \in {"none", "created", "added"}
    /\ faults \in 0..MaxFaults /\ resets \in 0..MaxResets /\ starts \in 0..MaxStarts

Init ==
    /\ pc = "off" /\ attempt = 0
    /\ pci = [open |-> FALSE, known |-> FALSE, unreached |-> FALSE]
    /\ chip = Reset /\ contexts = FALSE
    /\ resetting \in BOOLEAN /\ unplugged = FALSE
    /\ buffers = [b \in {"selfID", "rom", "live"} |-> NoBuffer]
    /\ destination = FALSE /\ found = FALSE
    /\ audio = "none" /\ restarting = FALSE
    /\ faults = 0 /\ resets = 0 /\ starts = 0

-----------------------------------------------------------------------------
(* The controller and the bus.                                              *)

Fails(call) == call \in MayFail /\ faults < MaxFaults /\ faults' = faults + 1
Succeeds == ~unplugged /\ UNCHANGED faults
Gone == unplugged /\ UNCHANGED faults

\* a write reaches the controller while it is there
Written(registers) == chip' = IF unplugged THEN chip ELSE registers

\* a bus reset takes the node ID and the self-IDs away; an enabled link reports it
BusReset(c) ==
    [c EXCEPT !.nodeValid = FALSE, !.count = FALSE, !.complete = FALSE,
              !.busReset = c.link \/ c.busReset]

ResetByOthers ==
    /\ ~unplugged /\ resets < MaxResets
    /\ resetting' = TRUE /\ chip' = BusReset(chip) /\ resets' = resets + 1
    /\ UNCHANGED <<pc, attempt, pci, contexts, unplugged, buffers, destination, found, audio,
                   restarting, faults, starts>>

\* the nodes have identified themselves; the controller writes what it heard
Identify ==
    /\ resetting /\ ~unplugged
    /\ resetting' = FALSE
    /\ chip' = [chip EXCEPT !.nodeValid = chip.nodeValid \/ chip.link,
                            !.count = chip.count \/ (chip.link /\ chip.selfID),
                            !.complete = chip.complete \/ (chip.link /\ chip.selfID)]
    /\ UNCHANGED <<pc, attempt, pci, contexts, unplugged, buffers, destination, found, audio,
                   restarting, counters>>

Unplug ==
    /\ ~unplugged
    /\ unplugged' = TRUE
    /\ UNCHANGED <<pc, attempt, pci, chip, contexts, resetting, buffers, destination, found,
                   audio, restarting, counters>>

-----------------------------------------------------------------------------
(* Start.                                                                   *)

Goto(from, to) == pc = from /\ pc' = to

\* returns that come before this one leave nothing behind; the session is exclusive, so
\* while a refused driver holds it no other start gets beyond this point
OpenDevice ==
    /\ Goto("off", "opened") /\ starts < MaxStarts /\ ~unplugged
    /\ starts' = starts + 1
    /\ pci' = [pci EXCEPT !.open = TRUE]
    /\ UNCHANGED <<attempt, chip, buffers, destination, found, unplugged, faults, bus, sound>>

GetBARInfo ==
    /\ pc = "opened"
    /\ \/ /\ pc' = "reset" /\ Succeeds
          /\ pci' = [pci EXCEPT !.known = TRUE]
       \/ /\ pc' = "off" /\ (Fails("bar") \/ Gone)
          /\ pci' = [pci EXCEPT !.open = FALSE]
    /\ UNCHANGED <<attempt, chip, buffers, destination, found, unplugged, starts, bus, sound>>

\* the result is published and ignored
SoftwareResetOHCI ==
    /\ Goto("reset", "allocate")
    /\ \/ /\ Succeeds
          /\ chip' = Reset /\ contexts' = FALSE /\ pci' = [pci EXCEPT !.unreached = FALSE]
       \/ (Fails("reset") \/ Gone) /\ UNCHANGED <<chip, contexts, pci>>
    /\ UNCHANGED <<attempt, buffers, destination, found, unplugged, starts, bus, audio,
                   restarting>>

\* any number of segments will do here, since the address of the first is all that is looked
\* at; without the two buffers the link stays off, and Start goes on all the same
CreateBuffers ==
    /\ pc = "allocate"
    /\ \E s \in CreateDMABuffer(buffers["selfID"], Outcomes),
          r \in CreateDMABuffer(buffers["rom"], Outcomes) :
          /\ buffers' = [buffers EXCEPT !["selfID"] = s, !["rom"] = r]
          /\ pc' = IF s.low /\ r.low THEN "setup" ELSE "audio"
    /\ UNCHANGED <<attempt, pci, chip, destination, found, unplugged, counters, resetting, sound>>

\* power, PHY and registers; the pointers to the two buffers; all events cleared
SetUpLink ==
    /\ Goto("setup", "link")
    /\ Written([chip EXCEPT !.complete = FALSE, !.busReset = FALSE])
    /\ attempt' = 0
    /\ UNCHANGED <<pci, buffers, destination, found, unplugged, counters, resetting, sound>>

EnableLink ==
    /\ Goto("link", "shortReset")
    /\ Written([chip EXCEPT !.link = TRUE, !.selfID = TRUE])
    /\ UNCHANGED <<attempt, pci, buffers, destination, found, unplugged, counters, resetting,
                   sound>>

\* before every attempt but the first one the link is turned off and on again
DisableLinkForRetry ==
    /\ Goto("retry", "relink")
    /\ Written([chip EXCEPT !.link = FALSE, !.selfID = FALSE])
    /\ UNCHANGED <<attempt, pci, buffers, destination, found, unplugged, counters, resetting,
                   sound>>

EnableLinkAgain ==
    /\ Goto("relink", "shortReset")
    /\ Written([chip EXCEPT !.link = TRUE, !.selfID = TRUE, !.complete = FALSE,
                            !.busReset = FALSE])
    /\ UNCHANGED <<attempt, pci, buffers, destination, found, unplugged, counters, resetting,
                   sound>>

\* UpdatePhyRegister may fail at its read or its write: then the bus is not reset
UpdatePhyRegister(registers) ==
    \/ Succeeds /\ chip' = BusReset(registers) /\ resetting' = TRUE
    \/ (Fails("phy") \/ Gone) /\ Written(registers) /\ UNCHANGED resetting

ShortReset ==
    /\ Goto("shortReset", "acknowledge")
    /\ UpdatePhyRegister(chip)
    /\ UNCHANGED <<attempt, pci, buffers, destination, found, unplugged, starts, resets, sound>>

LongReset ==
    /\ Goto("longReset", "acknowledge")
    /\ UpdatePhyRegister([chip EXCEPT !.complete = FALSE, !.busReset = FALSE])
    /\ UNCHANGED <<attempt, pci, buffers, destination, found, unplugged, starts, resets, sound>>

\* once the reset is seen, every event but the reset's is cleared; it is waited for a while
AcknowledgeBusResetLikeLinux ==
    /\ Goto("acknowledge", "await")
    /\ Written(IF chip.busReset THEN [chip EXCEPT !.complete = FALSE] ELSE chip)
    /\ UNCHANGED <<attempt, pci, buffers, destination, found, unplugged, counters, resetting,
                   sound>>

\* Mutant: the event of the reset itself counts as an answer.
ReadyOnBusReset(c) == unplugged \/ c.nodeValid \/ c.complete \/ c.count \/ c.busReset

\* any of three signs will do, all ones among them
IsSelfIDReady(c) == unplugged \/ c.nodeValid \/ c.complete \/ c.count

SelfIDFound ==
    /\ Goto("await", "settle")
    /\ IsSelfIDReady(chip)
    /\ found' = ~resetting
    /\ UNCHANGED <<attempt, pci, chip, buffers, destination, unplugged, counters, resetting,
                   sound>>

\* the wait is over: another short reset, then a long one, then no destination
SelfIDMissed ==
    /\ pc = "await" /\ ~IsSelfIDReady(chip)
    /\ IF attempt = Attempts
       THEN pc' = "audio" /\ UNCHANGED attempt
       ELSE /\ attempt' = attempt + 1
            /\ pc' = IF attempt' = Attempts THEN "longReset" ELSE "retry"
    /\ UNCHANGED <<pci, chip, buffers, destination, found, unplugged, counters, resetting, sound>>

\* after three seconds, and whatever the bus did meanwhile
SetDestination ==
    /\ Goto("settle", "audio")
    /\ destination' = TRUE
    /\ UNCHANGED <<attempt, pci, chip, buffers, found, unplugged, counters, resetting, sound>>

\* buffers and the device object; also without a link
CreateAudioDevice ==
    /\ pc = "audio"
    /\ \/ pc' = "streams" /\ audio' = "created" /\ UNCHANGED faults
       \/ pc' = "register" /\ audio' = "none" /\ Fails("audio")
    /\ UNCHANGED <<attempt, pci, chip, buffers, destination, found, unplugged, starts, bus,
                   contexts, restarting>>

\* its streams and its I/O handler; AddObject is the last call
AddAudioDevice ==
    /\ Goto("streams", "register")
    /\ \/ audio' = "added" /\ UNCHANGED faults
       \/ UNCHANGED audio /\ Fails("audio")
    /\ UNCHANGED <<attempt, pci, chip, buffers, destination, found, unplugged, starts, bus,
                   contexts, restarting>>

\* also without a device; its error is what Start returns, and nothing is taken back
RegisterService ==
    /\ pc = "register"
    /\ \/ pc' = "up" /\ UNCHANGED faults
       \/ pc' = "refused" /\ Fails("register")
    /\ UNCHANGED <<attempt, pci, chip, buffers, destination, found, unplugged, starts, bus,
                   sound>>

-----------------------------------------------------------------------------
(* The stream.                                                              *)

\* what StartDigiLiveStreamForAudio tests before it talks to the device
RunDigiLiveBeginTransactions ==
    /\ audio = "added" /\ pci.known /\ destination /\ ~restarting
    /\ pc \in {"up", "refused"} \/ (RestartDuringStop /\ pc \in Stopping)
    /\ ~Prepared("live")
    /\ restarting' = TRUE
    /\ UNCHANGED <<pc, attempt, pci, chip, contexts, buffers, destination, found, unplugged,
                   audio, counters, resetting>>

\* the device is tested for again before the buffer is made
StartDigiLiveIsoStream ==
    /\ restarting /\ (pc \in {"off", "up", "refused"} \/ RestartDuringStop)
    /\ restarting' = FALSE
    /\ IF pci.known
       THEN \E b \in CreateDMABuffer(buffers["live"], Outcomes) :
              /\ buffers' = [buffers EXCEPT !["live"] = IF b.usable THEN b ELSE NoBuffer]
              /\ contexts' = IF b.usable THEN TRUE ELSE contexts
       ELSE UNCHANGED <<buffers, contexts>>
    /\ UNCHANGED <<pc, attempt, pci, chip, destination, found, unplugged, audio, counters,
                   resetting>>

StreamStopped ==
    /\ contexts' = FALSE
    /\ buffers' = [buffers EXCEPT !["live"] = ReleaseDMABuffer(buffers["live"])]

StopDevice ==
    /\ pc \in {"up", "refused"} /\ Prepared("live") /\ StreamStopped
    /\ UNCHANGED <<pc, attempt, pci, chip, destination, found, unplugged, audio, restarting,
                   counters, resetting>>

-----------------------------------------------------------------------------
(* Stop.                                                                    *)

StopStream ==
    /\ Goto("up", "unlink")
    /\ restarting => RestartDuringStop
    /\ IF Prepared("live") THEN StreamStopped ELSE UNCHANGED <<contexts, buffers>>
    /\ UNCHANGED <<attempt, pci, chip, destination, found, unplugged, audio, restarting,
                   counters, resetting>>

\* Mutant: the link is left enabled.
CloseOnly ==
    /\ Goto("unlink", "forget") /\ UNCHANGED chip
    /\ pci' = [pci EXCEPT !.open = FALSE]
    /\ UNCHANGED <<attempt, buffers, destination, found, unplugged, counters, resetting, sound>>

\* only with the memory index that GetBARInfo gives; the session is closed in any case
DisableLink ==
    /\ Goto("unlink", "forget")
    /\ \/ /\ Succeeds
          /\ chip' = [chip EXCEPT !.link = FALSE]
          /\ pci' = [pci EXCEPT !.open = FALSE]
       \/ /\ Fails("bar") \/ Gone
          /\ UNCHANGED chip
          /\ pci' = [pci EXCEPT !.open = FALSE, !.unreached = TRUE]
    /\ UNCHANGED <<attempt, buffers, destination, found, unplugged, starts, bus, sound>>

ForgetDevice ==
    /\ Goto("forget", "release")
    /\ pci' = [pci EXCEPT !.known = FALSE]
    /\ destination' = FALSE /\ audio' = "none"
    /\ UNCHANGED <<attempt, chip, buffers, found, unplugged, contexts, restarting, counters,
                   resetting>>

ReleaseBuffers ==
    /\ Goto("release", "off")
    /\ buffers' = [b \in DOMAIN buffers |-> ReleaseDMABuffer(buffers[b])]
    /\ UNCHANGED <<attempt, pci, chip, destination, found, unplugged, counters, resetting, sound>>

Start ==
    \/ OpenDevice \/ GetBARInfo \/ SoftwareResetOHCI \/ CreateBuffers
    \/ SetUpLink \/ EnableLink \/ DisableLinkForRetry \/ EnableLinkAgain
    \/ ShortReset \/ LongReset \/ AcknowledgeBusResetLikeLinux
    \/ SelfIDFound \/ SelfIDMissed \/ SetDestination \/ CreateAudioDevice
    \/ AddAudioDevice \/ RegisterService

Stop == StopStream \/ DisableLink \/ ForgetDevice \/ ReleaseBuffers

Stream == RunDigiLiveBeginTransactions \/ StartDigiLiveIsoStream \/ StopDevice

Environment == ResetByOthers \/ Identify \/ Unplug

Next == Start \/ Stop \/ Stream \/ Environment

Spec == Init /\ [][Next]_vars

-----------------------------------------------------------------------------
\* While the link is enabled the controller writes self-IDs and serves the
\* configuration ROM, and a running context moves data: each has its memory, also in a
\* driver whose start was refused.  The exception is in the code: a Stop whose GetBARInfo
\* fails (14563) releases the memory under an enabled link, and it stays enabled until the
\* soft reset of a later start.
NoDanglingDMA ==
    chip.link /\ ~unplugged /\ ~pci.unreached =>
        /\ Prepared("selfID") /\ Prepared("rom")
        /\ contexts => Prepared("live")

\* A driver that was stopped, or whose start failed before the soft reset, holds nothing, and
\* but for that exception its link is off.  A start that RegisterService ends in an error is
\* neither ("refused"): it keeps the session, the link and the memory (14296-14301).
Withdrawn ==
    pc = "off" =>
        /\ ~pci.open /\ ~pci.known /\ ~destination /\ audio = "none"
        /\ chip.link => unplugged \/ pci.unreached
        /\ \A b \in DOMAIN buffers : buffers[b] = NoBuffer

\* However often the driver is started, refused, retried and stopped, and whenever the
\* stream is restarted meanwhile: memory outlives whatever uses it, and Stop leaves
\* nothing, but for the link that it cannot reach.
InPlace == NoDanglingDMA /\ Withdrawn

\* The device is addressed only after its bus was found identified, in spite of resets
\* by others, of PHY accesses that fail, and of what an earlier start left in the registers.
Identified == destination /\ ~unplugged => found
=============================================================================
