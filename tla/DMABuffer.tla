----------------------------- MODULE DMABuffer -----------------------------
(***************************************************************************)
(* The life of a DMABuffer: memory, a CPU mapping, a DMA command and, while *)
(* the command is prepared, a mapping through which the controller reaches  *)
(* the memory.  An operator takes a buffer and returns what the function    *)
(* of the same name leaves; what the system may answer is an outcome:       *)
(*                                                                          *)
(*   "memory"    no memory, so no command either                            *)
(*   "mapping"   memory, but no usable CPU mapping or no command            *)
(*   "prepare"   a command that could not be prepared                       *)
(*   "high"      prepared, at an address above what the attempt asked for   *)
(*   "scattered" prepared, low, in several segments                         *)
(*   "good"      prepared, low, in one segment                              *)
(***************************************************************************)
Outcome == {"memory", "mapping", "prepare", "high", "scattered", "good"}

Buffer == [memory: BOOLEAN, command: BOOLEAN, prepared: BOOLEAN, completed: BOOLEAN,
           low: BOOLEAN, usable: BOOLEAN]

NoBuffer == [memory |-> FALSE, command |-> FALSE, prepared |-> FALSE,
             completed |-> FALSE, low |-> FALSE, usable |-> FALSE]

\* the command is completed unless that was done, also when preparing it had failed
ReleaseDMABuffer(buffer) == NoBuffer

CompleteDMABufferMapping(buffer) ==
    IF ~buffer.command \/ buffer.completed
    THEN buffer
    ELSE [buffer EXCEPT !.completed = TRUE, !.prepared = FALSE]

\* what the four Sync functions ask before they do anything
CanSync(buffer) == buffer.command /\ buffer.memory /\ ~buffer.completed

CreateDMABufferWithMaxAddressBits(buffer, outcome) ==
    [ReleaseDMABuffer(buffer) EXCEPT
        !.memory   = outcome # "memory",
        !.command  = outcome \in {"prepare", "high", "scattered", "good"},
        !.prepared = outcome \in {"high", "scattered", "good"},
        !.low      = outcome \in {"scattered", "good"},
        !.usable   = outcome = "good"]

\* a second attempt with 32 address bits, unless the first one, with 31, gave memory that is
\* low, in however many segments
CreateDMABuffer(buffer, outcomes) ==
    LET Try(b, o) == CreateDMABufferWithMaxAddressBits(b, o)
    IN  UNION {IF low \in {"scattered", "good"}
               THEN {Try(buffer, low)}
               ELSE {Try(Try(buffer, low), o) : o \in outcomes} : low \in outcomes}
============================================================================
