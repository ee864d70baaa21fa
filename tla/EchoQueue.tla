------------------------------ MODULE EchoQueue ------------------------------
(***************************************************************************)
(* The queue of control words on their way to the console, and the flag     *)
(* that guards it.  Nobody waits for the flag: an append that finds it taken*)
(* gives up its message, a pop that finds it taken sends an empty word.  An *)
(* append stores its message word by word, or, if the message does not fit, *)
(* nothing of it.                                                           *)
(*                                                                          *)
(* Appends come from the harvest (feedback to what the console sent) and    *)
(* from clients of the driver, pops from the push, one for each data block  *)
(* it writes.  A start of the stream resets the queue, whoever holds the    *)
(* flag, and pops a word for every block it fills the transmit ring with;   *)
(* the queue is modelled from the end of that fill to the next reset.  The  *)
(* modules that extend this one say what is appended and what follows from  *)
(* success and failure.                                                     *)
(***************************************************************************)
EXTENDS Integers, Sequences

CONSTANTS
    QueueSize,      \* kDigiLiveMidiEchoQueueSize
    Harvest, Push,  \* the threads inside the harvest and inside the push
    Clients,        \* threads that carry out commands of clients
    Message         \* the messages appended, as sequences of words

Threads == {Harvest, Push} \cup Clients

ASSUME QueueAssumption ==
    /\ QueueSize \in Nat \ {0}
    /\ Harvest # Push
    /\ {Harvest, Push} \cap Clients = {}
    /\ Message \subseteq Seq(UNION {{m[i] : i \in DOMAIN m} : m \in Message}) \ {<<>>}

VARIABLES
    queue,          \* gDigiLiveMidiEchoQueue
    writeIndex, readIndex, queueCount,
    busy,           \* gDigiLiveMidiEchoQueueBusy
    step,           \* what each thread does next with the queue
    left,           \* the words of its message a thread has yet to store
    slot            \* the control word of the data block written last

queueVars == <<queue, writeIndex, readIndex, queueCount, busy, step, left, slot>>
contents == <<queue, writeIndex, readIndex, queueCount>>

\* The word without data, 0x80000000.
NoData == [port |-> 0, bytes |-> <<>>]

Slots == 0..(QueueSize - 1)

QueueInit ==
    /\ queue = [s \in Slots |-> NoData]
    /\ writeIndex = 0 /\ readIndex = 0 /\ queueCount = 0
    /\ busy = 0
    /\ step = [t \in Threads |-> "idle"]
    /\ left = [t \in Threads |-> <<>>]
    /\ slot = NoData

-----------------------------------------------------------------------------
(* AppendDigiLiveMidiEchoWordsBE                                            *)

\* Some other thread holds the flag: the message is given up.
AppendBusy(t) ==
    /\ step[t] = "idle" /\ busy = 1
    /\ UNCHANGED queueVars

AppendLock(t, words) ==
    /\ step[t] = "idle" /\ busy = 0
    /\ busy' = 1
    /\ step' = [step EXCEPT ![t] = "locked"]
    /\ left' = [left EXCEPT ![t] = words]
    /\ UNCHANGED <<contents, slot>>

\* Mutant: the flag stays taken.
AppendFullHolding(t) ==
    /\ step[t] = "locked"
    /\ queueCount + Len(left[t]) > QueueSize
    /\ step' = [step EXCEPT ![t] = "idle"]
    /\ left' = [left EXCEPT ![t] = <<>>]
    /\ UNCHANGED <<contents, busy, slot>>

\* The message does not fit: none of its words is stored.
AppendFull(t) ==
    /\ step[t] = "locked"
    /\ queueCount + Len(left[t]) > QueueSize
    /\ busy' = 0
    /\ step' = [step EXCEPT ![t] = "idle"]
    /\ left' = [left EXCEPT ![t] = <<>>]
    /\ UNCHANGED <<contents, slot>>

StoreWord(t) ==
    /\ left[t] # <<>>
    /\ \/ step[t] = "locked" /\ queueCount + Len(left[t]) <= QueueSize
       \/ step[t] = "storing"
    /\ queue' = [queue EXCEPT ![writeIndex] = Head(left[t])]
    /\ writeIndex' = (writeIndex + 1) % QueueSize
    /\ queueCount' = queueCount + 1
    /\ left' = [left EXCEPT ![t] = Tail(left[t])]
    /\ step' = [step EXCEPT ![t] = "storing"]
    /\ UNCHANGED <<readIndex, busy, slot>>

AppendDone(t) ==
    /\ step[t] = "storing" /\ left[t] = <<>>
    /\ busy' = 0
    /\ step' = [step EXCEPT ![t] = "idle"]
    /\ UNCHANGED <<contents, left, slot>>

-----------------------------------------------------------------------------
(* PopDigiLiveMidiEchoWordBE                                                *)

PopBusy ==
    /\ step[Push] = "idle" /\ busy = 1
    /\ slot' = NoData
    /\ UNCHANGED <<contents, busy, step, left>>

PopLock ==
    /\ step[Push] = "idle" /\ busy = 0
    /\ busy' = 1
    /\ step' = [step EXCEPT ![Push] = "popping"]
    /\ UNCHANGED <<contents, left, slot>>

PopEmpty ==
    /\ step[Push] = "popping" /\ queueCount = 0
    /\ slot' = NoData
    /\ busy' = 0
    /\ step' = [step EXCEPT ![Push] = "idle"]
    /\ UNCHANGED <<contents, left>>

\* Mutant: the index is advanced before the word is read.
PopWordAfterNext ==
    /\ step[Push] = "popping" /\ queueCount > 0
    /\ slot' = queue[(readIndex + 1) % QueueSize]
    /\ queue' = [queue EXCEPT ![readIndex] = NoData]
    /\ readIndex' = (readIndex + 1) % QueueSize
    /\ queueCount' = queueCount - 1
    /\ busy' = 0
    /\ step' = [step EXCEPT ![Push] = "idle"]
    /\ UNCHANGED <<writeIndex, left>>

\* The code leaves the word in its slot, where nobody reads it again before it
\* is overwritten; the model forgets it.
PopWord ==
    /\ step[Push] = "popping" /\ queueCount > 0
    /\ slot' = queue[readIndex]
    /\ queue' = [queue EXCEPT ![readIndex] = NoData]
    /\ readIndex' = (readIndex + 1) % QueueSize
    /\ queueCount' = queueCount - 1
    /\ busy' = 0
    /\ step' = [step EXCEPT ![Push] = "idle"]
    /\ UNCHANGED <<writeIndex, left>>

-----------------------------------------------------------------------------
(* The queue by itself, used by threads that append any message at any time. *)

QueueNext ==
    \/ \E t \in Threads \ {Push} :
        \/ AppendBusy(t)
        \/ \E m \in Message : AppendLock(t, m)
        \/ AppendFull(t)
        \/ StoreWord(t)
        \/ AppendDone(t)
    \/ PopBusy
    \/ PopLock
    \/ PopEmpty
    \/ PopWord

QueueSpec == QueueInit /\ [][QueueNext]_queueVars

-----------------------------------------------------------------------------
Holding(t) == step[t] # "idle"

\* One thread at most works on the queue, and the flag says whether one does.
FlagIsHeld ==
    /\ busy = IF \E t \in Threads : Holding(t) THEN 1 ELSE 0
    /\ \A t, u \in Threads : Holding(t) /\ Holding(u) => t = u

Wrapped(i) == IF i < QueueSize THEN i ELSE i - QueueSize

\* Indices and count agree, and what a thread has yet to store has room.
IndicesAgree ==
    /\ queueCount \in 0..QueueSize
    /\ writeIndex = Wrapped(readIndex + queueCount)
    /\ \A t \in Threads : step[t] = "storing" => queueCount + Len(left[t]) <= QueueSize

(* The three counters that harvest, push and clients share stay consistent:  *)
(* nobody works on the queue without the flag or together with another       *)
(* thread, nobody leaves the flag taken, the write index is the read index plus the count, and an append   *)
(* that began to store has room for its whole message (2672-2717, 3222-3244).*)
QueueOrdered == FlagIsHeld /\ IndicesAgree

\* The words in the queue, oldest first.
Waiting == [i \in 1..queueCount |-> queue[(readIndex + i - 1) % QueueSize]]
=============================================================================
