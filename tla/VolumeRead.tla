---------------------------- MODULE VolumeRead ----------------------------
(***************************************************************************)
(* Reading an unlocked volume: the seek and read functions of              *)
(* libbde_volume.c, the loop over the sectors, the cache of sector data    *)
(* (libbde_sector_data_vector.c) and libbde_volume_signal_abort, which     *)
(* takes no lock and so falls between any two steps of the loop.           *)
(***************************************************************************)
EXTENDS SectorData, Sequences, FiniteSets

CONSTANTS
    Layouts,        \* the volumes considered, see SectorData for their fields
    Offsets,        \* offsets a caller asks for
    Sizes,          \* buffer sizes a caller asks for
    MaxOffset,      \* bound: no seek goes beyond it
    CacheSize,      \* LIBBDE_MAXIMUM_CACHE_ENTRIES_SECTOR_DATA
    Whole,          \* TRUE: callers read inside one sector or from a sector's start
    NoSector,       \* the sector_data pointer is NULL
    NoResult        \* no call has returned yet

ASSUME CacheSizeAssumption == CacheSize \in Nat \ {0}
ASSUME WholeAssumption == Whole \in BOOLEAN
ASSUME CallsAssumption == Offsets \subseteq Nat /\ Sizes \subseteq Nat
ASSUME LayoutsAssumption == \A layout \in Layouts : MadeOfSectors(layout)

VARIABLES
    io,                 \* the io_handle of the volume, and its context's method
    currentOffset,      \* internal_volume->current_offset
    result,             \* what the last call returned: [count, bytes]
    pc,                 \* "idle", "get" or "copy": where the read loop is
    abort,              \* io_handle->abort
    cache,              \* sector offset |-> sector data
    bufferSize,         \* buffer_size, clamped to the end of the volume
    buffer,             \* what was copied to the buffer: buffer_offset is its length
    sectorFileOffset,
    sectorDataOffset,
    sectorData          \* the sector data in use

loop == <<bufferSize, buffer, sectorFileOffset, sectorDataOffset, sectorData>>
vars == <<io, currentOffset, result, pc, abort, cache, loop>>

(* The volume as its readers see it: the specification this one implements. *)
Plain == INSTANCE PlainVolume WITH io <- io, currentOffset <- currentOffset, result <- result

Failed == Plain!Failed
Moved == Plain!Moved

Remaining == bufferSize - Len(buffer)

FaultyReadSize == io.bytesPerSector - sectorDataOffset  \* ignores the buffer

ReadSize ==
    IF io.bytesPerSector - sectorDataOffset > Remaining
    THEN Remaining
    ELSE io.bytesPerSector - sectorDataOffset

Init ==
    /\ io \in Layouts
    /\ currentOffset = 0
    /\ result = NoResult
    /\ pc = "idle"
    /\ abort = FALSE
    /\ cache = [o \in {} |-> << >>]
    /\ bufferSize = 0
    /\ buffer = << >>
    /\ sectorFileOffset = 0
    /\ sectorDataOffset = 0
    /\ sectorData = NoSector

(* The read is over, and with it the variables of the loop. *)
Return ==
    /\ pc' = "idle"
    /\ bufferSize' = 0
    /\ buffer' = << >>
    /\ sectorFileOffset' = 0
    /\ sectorDataOffset' = 0
    /\ sectorData' = NoSector

(* libbde_volume_seek_offset with each value of whence. *)
SeekOffset ==
    \E offset \in Offsets \union {-o : o \in Offsets},
       from \in {0, currentOffset, io.volumeSize} :
        /\ pc = "idle"
        /\ from + offset <= MaxOffset
        /\ IF from + offset < 0
           THEN /\ result' = Failed
                /\ UNCHANGED currentOffset
           ELSE /\ result' = Moved
                /\ currentOffset' = from + offset
        /\ UNCHANGED <<io, pc, abort, cache, loop>>

(* What the callers keep to when Whole: see View and the README. *)
WithinSectors(offset, size) ==
    \/ Aligned(io, offset)
    \/ (offset % io.bytesPerSector) + size <= io.bytesPerSector

FaultyClamped(offset, size) ==      \* compares with the size of the volume only
    IF size > io.volumeSize THEN io.volumeSize ELSE size

(* The buffer size is cut at the end of the volume; the current offset may *)
(* be anywhere beyond it.                                                  *)
Clamped(offset, size) ==
    IF offset >= io.volumeSize
    THEN 0
    ELSE IF size > io.volumeSize - offset
    THEN io.volumeSize - offset
    ELSE size

FirstSector(offset) == (offset \div io.bytesPerSector) * io.bytesPerSector

(* The prologue of the read, from its guards to the first iteration. *)
BeginReadAt(offset, size) ==
    /\ pc = "idle"
    /\ Whole => WithinSectors(offset, size)
    /\ abort' = FALSE
    /\ currentOffset' = offset
    /\ IF Clamped(offset, size) = 0
       THEN result' = Moved /\ UNCHANGED <<pc, loop>>
       ELSE /\ pc' = "get"
            /\ bufferSize' = Clamped(offset, size)
            /\ sectorFileOffset' = FirstSector(offset)
            /\ sectorDataOffset' = offset - FirstSector(offset)
            /\ UNCHANGED <<result, buffer, sectorData>>
    /\ UNCHANGED <<io, cache>>

ReadBuffer == \E size \in Sizes : BeginReadAt(currentOffset, size)

ReadBufferAtOffset ==
    \E offset \in Offsets, size \in Sizes : BeginReadAt(offset, size)

(* libbde_sector_data_vector_get_sector_data_at_offset, on a hit. *)
CacheHit ==
    /\ pc = "get"
    /\ sectorFileOffset \in DOMAIN cache
    /\ sectorData' = cache[sectorFileOffset]
    /\ pc' = "copy"
    /\ UNCHANGED <<io, currentOffset, result, abort, cache, bufferSize, buffer,
                   sectorFileOffset, sectorDataOffset>>

(* A full cache gives up one of its entries for a new one. *)
Evicted ==
    IF Cardinality(DOMAIN cache) < CacheSize
    THEN {{}}
    ELSE {{o} : o \in DOMAIN cache}

(* On a miss the sector is read, decrypted and put in the cache. *)
CacheMiss ==
    /\ pc = "get"
    /\ sectorFileOffset \notin DOMAIN cache
    /\ SectorReadable(io, sectorFileOffset)
    /\ LET contents == SectorContents(io, sectorFileOffset)
       IN  /\ \E evicted \in Evicted :
                cache' = [o \in (DOMAIN cache \ evicted) \union {sectorFileOffset} |->
                            IF o = sectorFileOffset THEN contents ELSE cache[o]]
           /\ sectorData' = contents
    /\ pc' = "copy"
    /\ UNCHANGED <<io, currentOffset, result, abort, bufferSize, buffer,
                   sectorFileOffset, sectorDataOffset>>

FaultyReadFails ==          \* the entry was made before the sector was read
    /\ pc = "get"
    /\ sectorFileOffset \notin DOMAIN cache
    /\ Cardinality(DOMAIN cache) < CacheSize
    /\ cache' = [o \in DOMAIN cache \union {sectorFileOffset} |->
                    IF o = sectorFileOffset
                    THEN [i \in 0 .. io.bytesPerSector - 1 |-> Zero]
                    ELSE cache[o]]
    /\ result' = Failed
    /\ Return
    /\ UNCHANGED <<io, currentOffset, abort>>

(* The sector cannot be read: the read fails, what was copied is lost and  *)
(* the current offset stays where it was.                                  *)
ReadFails ==
    /\ pc = "get"
    /\ sectorFileOffset \notin DOMAIN cache
    /\ result' = Failed
    /\ Return
    /\ UNCHANGED <<io, currentOffset, abort, cache>>

FaultyFinished(copied) == abort                         \* goes on at the end

(* The loop is left when the buffer is full and, after a sector, when abort *)
(* is set.                                                                 *)
Finished(copied) == abort \/ Len(copied) = bufferSize

FaultyNextSectorFileOffset == sectorFileOffset          \* reads it again

(* The offset of the next sector follows what was copied. *)
NextSectorFileOffset == sectorFileOffset + ReadSize

(* The rest of the iteration: copy, advance, leave when aborted or done. *)
CopySector ==
    /\ pc = "copy"
    /\ LET copied == buffer \o [i \in 1 .. ReadSize |->
                                    sectorData[sectorDataOffset + i - 1]]
       IN  IF Finished(copied)
           THEN /\ currentOffset' = currentOffset + Len(copied)
                /\ result' = [count |-> Len(copied), bytes |-> copied]
                /\ Return
           ELSE /\ pc' = "get"
                /\ buffer' = copied
                /\ sectorDataOffset' = 0
                /\ sectorFileOffset' = NextSectorFileOffset
                /\ UNCHANGED <<currentOffset, result, bufferSize, sectorData>>
    /\ UNCHANGED <<io, abort, cache>>

(* libbde_volume_signal_abort, at any moment. *)
SignalAbort ==
    /\ ~abort
    /\ abort' = TRUE
    /\ UNCHANGED <<io, currentOffset, result, pc, cache, loop>>

Loop == CacheHit \/ CacheMiss \/ ReadFails \/ CopySector

Next == SeekOffset \/ ReadBuffer \/ ReadBufferAtOffset \/ Loop \/ SignalAbort

(* A read once started runs on: the thread that called it is scheduled. *)
Spec == Init /\ [][Next]_vars /\ WF_vars(Loop)
-----------------------------------------------------------------------------
(* The offsets keep inside the sector and the buffer is never overrun.     *)
TypeOK ==
    /\ io \in Layouts
    /\ currentOffset \in Nat
    /\ pc \in {"idle", "get", "copy"}
    /\ abort \in BOOLEAN
    /\ bufferSize \in Nat
    /\ Len(buffer) <= bufferSize
    /\ sectorFileOffset \in Nat
    /\ sectorDataOffset \in 0 .. io.bytesPerSector - 1

(* While a read runs, what it has copied so far is what a reader of the    *)
(* volume is to find behind the current offset, whichever sectors came from *)
(* the cache, were blanked, moved, patched or decrypted on the way.        *)
BufferIsView ==
    pc # "idle" => buffer = Plain!Bytes(currentOffset, Len(buffer))

(* The cache is keyed by the offset a sector was asked at, holds what that *)
(* sector reads as, and never more sectors than it has entries.            *)
CacheCoherent ==
    /\ \A o \in DOMAIN cache : cache[o] = SectorContents(io, o)
    /\ Cardinality(DOMAIN cache) <= CacheSize

(* Every read returns: the loop makes progress through the buffer.         *)
ReadReturns == pc # "idle" ~> pc = "idle"

(* Reading sector by sector through the cache implements reading the       *)
(* volume as one sequence of bytes.                                        *)
ReadsPlainVolume == Plain!Spec
=============================================================================
