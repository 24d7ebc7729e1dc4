---------------------------- MODULE PlainVolume ----------------------------
(***************************************************************************)
(* What reading an unlocked volume promises, with no sectors, cache or     *)
(* steps: the volume is one sequence of bytes, a read delivers those that  *)
(* follow the current offset and moves the offset behind them.             *)
(***************************************************************************)
EXTENDS SectorData, Sequences

CONSTANTS
    Layouts,    \* the volumes considered, see SectorData for their fields
    Sizes,      \* buffer sizes a caller asks for
    NoResult    \* no call has returned yet

VARIABLES
    io,             \* the volume, fixed
    currentOffset,  \* where the next read starts
    result          \* what the last call returned: [count, bytes]

vars == <<io, currentOffset, result>>

HasMovedHeader == io.version \in {"windows_7", "to_go"}

(* The bytes of the BitLocker metadata and of the moved header read as zero. *)
Blanked(p) ==
    \/ \E n \in 1 .. 3 :
            p \in io.metadataOffsets[n] .. io.metadataOffsets[n] + io.metadataSize - 1
    \/ HasMovedHeader /\ p \in io.headerOffset .. io.headerOffset + io.headerSize - 1

(* The byte a reader of the volume is to find at position p. *)
View(p) ==
    IF Blanked(p)
    THEN Zero
    ELSE IF HasMovedHeader
    THEN Clear(IF p < io.headerSize THEN io.headerOffset + p ELSE p)
    ELSE IF p \in SignatureBytes
    THEN Signature(p)
    ELSE IF p \in MirrorBytes
    THEN Mirror(p)
    ELSE Clear(p)

Bytes(from, count) == [i \in 1 .. count |-> View(from + i - 1)]

Failed == [count |-> -1, bytes |-> << >>]
Moved == [count |-> 0, bytes |-> << >>]

Init ==
    /\ io \in Layouts
    /\ currentOffset = 0
    /\ result = NoResult

(* The current offset moves to anywhere at or after the start: the whole   *)
(* of a seek, or the first half of a read at an offset, which has no       *)
(* result of its own and leaves the offset moved if the read then fails.   *)
Seek ==
    /\ currentOffset' \in Nat
    /\ result' \in {Moved, result}
    /\ UNCHANGED io

(* A read delivers the bytes that follow the offset, as many as the buffer *)
(* and the volume hold, fewer when it is aborted.                          *)
Read ==
    \E size \in Sizes : \E count \in 0 .. size :
        /\ count = 0 \/ currentOffset + count <= io.volumeSize
        /\ result' = [count |-> count, bytes |-> Bytes(currentOffset, count)]
        /\ currentOffset' = currentOffset + count
        /\ UNCHANGED io

(* A call that fails delivers nothing and moves nothing. *)
Fail ==
    /\ result' = Failed
    /\ UNCHANGED <<io, currentOffset>>

Next == Seek \/ Read \/ Fail

Spec == Init /\ [][Next]_vars
=============================================================================
