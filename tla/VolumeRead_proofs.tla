------------------------- MODULE VolumeRead_proofs -------------------------
(***************************************************************************)
(* What holds of VolumeRead for every volume that is made of sectors, any  *)
(* offsets and sizes asked for and any size of the cache.                  *)
(***************************************************************************)
EXTENDS VolumeRead, FiniteSetTheorems, TLAPS

-----------------------------------------------------------------------------
(* Arithmetic of sectors. *)

LEMMA Division ==
    ASSUME NEW b \in Nat \ {0}, NEW o \in Nat
    PROVE  /\ o % b \in 0 .. b - 1
           /\ o \div b \in Nat
           /\ o = b * (o \div b) + (o % b)
OBVIOUS

(* Comparing a position in a sector with a sector's start compares sectors. *)
LEMMA SectorOrder ==
    ASSUME NEW b \in Nat \ {0}, NEW k \in Nat, NEW a \in Nat, NEW i \in 0 .. b - 1
    PROVE  b * k + i >= b * a <=> k >= a
<1>1. CASE k >= a
  <2>1. b * (k - a) >= 0
    BY <1>1
  <2> QED
    BY <2>1, <1>1
<1>2. CASE k < a
  <2>1. b * (a - k - 1) >= 0
    BY <1>2
  <2>2. b * (a - k - 1) = b * a - b * k - b
    OBVIOUS
  <2> QED
    BY <2>1, <1>2, <2>2
<1> QED
  BY <1>1, <1>2

LEMMA SectorRemainder ==
    ASSUME NEW b \in Nat \ {0}, NEW k \in Nat, NEW i \in 0 .. b - 1
    PROVE  (b * k + i) % b = i
<1> DEFINE o == b * k + i
           q == o \div b
           m == o % b
<1>1. o \in Nat
  <2>1. b * k \in Nat
    OBVIOUS
  <2> QED
    BY <2>1
<1>2. m \in 0 .. b - 1 /\ q \in Nat /\ o = b * q + m
  BY <1>1, Division
<1>3. q >= k
  BY <1>2, SectorOrder
<1>4. k >= q
  BY <1>2, SectorOrder
<1>5. b * q = b * k
  BY <1>2, <1>3, <1>4
<1> QED
  BY <1>2, <1>5

(* What starts at a sector is a multiple of its size. *)
LEMMA AlignedMultiple ==
    ASSUME NEW v, v.bytesPerSector \in Nat \ {0}, NEW o \in Nat, Aligned(v, o)
    PROVE  \E k \in Nat : o = v.bytesPerSector * k
<1>1. o = v.bytesPerSector * (o \div v.bytesPerSector) + (o % v.bytesPerSector)
  BY Division
<1>2. o % v.bytesPerSector = 0
  BY DEF Aligned
<1>3. o = v.bytesPerSector * (o \div v.bytesPerSector)
  BY <1>1, <1>2
<1> QED
  BY <1>3, Division

LEMMA AlignedSum ==
    ASSUME NEW v, v.bytesPerSector \in Nat \ {0}, NEW o \in Nat, NEW p \in Nat,
           Aligned(v, o), Aligned(v, p)
    PROVE  Aligned(v, o + p)
<1>1. PICK k \in Nat : o = v.bytesPerSector * k
  BY AlignedMultiple
<1>2. PICK l \in Nat : p = v.bytesPerSector * l
  BY AlignedMultiple
<1>3. o + p = v.bytesPerSector * (k + l) + 0
  BY <1>1, <1>2
<1>4. (v.bytesPerSector * (k + l) + 0) % v.bytesPerSector = 0
  BY SectorRemainder
<1> QED
  BY <1>3, <1>4 DEF Aligned

(* A byte of the sector at o is at or behind an aligned position exactly   *)
(* when the sector is, and the rest of its position is its index.          *)
LEMMA AlignedOrder ==
    ASSUME NEW v, v.bytesPerSector \in Nat \ {0}, NEW o \in Nat, NEW a \in Nat,
           NEW i \in 0 .. v.bytesPerSector - 1, Aligned(v, o), Aligned(v, a)
    PROVE  /\ o + i >= a <=> o >= a
           /\ (o + i) % v.bytesPerSector = i
<1>1. PICK k \in Nat : o = v.bytesPerSector * k
  BY AlignedMultiple
<1>2. PICK l \in Nat : a = v.bytesPerSector * l
  BY AlignedMultiple
<1>3. o + i >= a <=> k >= l
  BY <1>1, <1>2, SectorOrder
<1>4. o + 0 >= a <=> k >= l
  BY <1>1, <1>2, SectorOrder
<1>5. (o + i) % v.bytesPerSector = i
  BY <1>1, SectorRemainder
<1> QED
  BY <1>3, <1>4, <1>5

LEMMA LastMultiple ==
    ASSUME NEW b \in Nat \ {0}, NEW o \in Nat, NEW f, f = (o \div b) * b
    PROVE  f \in Nat /\ f % b = 0 /\ o - f \in 0 .. b - 1
<1>1. PICK q \in Nat : q = o \div b
  BY Division
<1>2. o = b * q + (o % b) /\ o % b \in 0 .. b - 1
  BY <1>1, Division
<1>3. f = b * q + 0 /\ f \in Nat
  BY <1>1
<1>4. (b * q + 0) % b = 0
  BY SectorRemainder
<1> QED
  BY <1>2, <1>3, <1>4

(* The first sector that a read touches starts at a sector, less than one  *)
(* sector before the offset.                                               *)
LEMMA FirstSectorAligned ==
    ASSUME io.bytesPerSector \in Nat \ {0}, NEW o \in Nat
    PROVE  /\ FirstSector(o) \in Nat
           /\ Aligned(io, FirstSector(o))
           /\ o - FirstSector(o) \in 0 .. io.bytesPerSector - 1
BY LastMultiple DEF FirstSector, Aligned

LEMMA FirstSectorRemainder ==
    ASSUME io.bytesPerSector \in Nat \ {0}, NEW o \in Nat
    PROVE  o - FirstSector(o) = o % io.bytesPerSector
<1>1. PICK b \in Nat \ {0} : b = io.bytesPerSector
  OBVIOUS
<1>2. o \div b \in Nat /\ o % b \in 0 .. b - 1 /\ o = b * (o \div b) + (o % b)
  BY Division
<1>3. FirstSector(o) = (o \div b) * b
  BY <1>1 DEF FirstSector
<1>4. (o \div b) * b = b * (o \div b) /\ b * (o \div b) \in Nat
  BY <1>2
<1> DEFINE m == b * (o \div b)
           r == o % b
<1>5. o = m + r /\ m \in Nat /\ r \in Nat /\ FirstSector(o) = m
  BY <1>2, <1>3, <1>4
<1> HIDE DEF m, r
<1>6. o - FirstSector(o) = r
  BY <1>5
<1> QED
  BY <1>1, <1>6 DEF r

-----------------------------------------------------------------------------
(* The contents of a sector. *)

(* Blanking by sector blanks the bytes that are to read as zero. *)
LEMMA BlankedBySector ==
    ASSUME MadeOfSectors(io), NEW o \in Nat, Aligned(io, o),
           NEW i \in 0 .. io.bytesPerSector - 1
    PROVE  InMetadata(io, o) \/ InMovedHeader(io, o) <=> Plain!Blanked(o + i)
<1>1. ASSUME NEW a \in Nat, NEW size \in Nat, Aligned(io, a), Aligned(io, size)
      PROVE  o >= a /\ o < a + size <=> o + i \in a .. a + size - 1
  <2>1. a + size \in Nat /\ Aligned(io, a + size)
    BY <1>1, AlignedSum DEF MadeOfSectors
  <2>2. o + i >= a <=> o >= a
    BY <1>1, AlignedOrder DEF MadeOfSectors
  <2>3. o + i >= a + size <=> o >= a + size
    BY <2>1, AlignedOrder DEF MadeOfSectors
  <2>4. o + i \in Nat
    BY DEF MadeOfSectors
  <2> QED
    BY <2>1, <2>2, <2>3, <2>4
<1>2. InMetadata(io, o) <=>
        \E n \in 1 .. 3 : o + i \in io.metadataOffsets[n]
                                .. io.metadataOffsets[n] + io.metadataSize - 1
  BY <1>1 DEF InMetadata, MadeOfSectors
<1>3. InMovedHeader(io, o) <=>
        /\ io.version \in {"windows_7", "to_go"}
        /\ o + i \in io.headerOffset .. io.headerOffset + io.headerSize - 1
  BY <1>1 DEF InMovedHeader, Relocates, MadeOfSectors
<1> QED
  BY <1>2, <1>3 DEF Plain!Blanked, Plain!HasMovedHeader

(* A sector that is not blanked is stored, moved or not, as the clear text *)
(* of its bytes but for the patches of the Vista boot sector.              *)
LEMMA StoredSector ==
    ASSUME MadeOfSectors(io), NEW r \in Nat, Aligned(io, r),
           NEW i \in 0 .. io.bytesPerSector - 1
    PROVE  /\ Encrypted(io, r) => Decrypted(io, r, i) = Clear(r + i)
           /\ ~Encrypted(io, r) => Stored(io, r + i) = Clear(r + i)
<1>1. (r + i) % io.bytesPerSector = i
  BY AlignedOrder DEF MadeOfSectors
<1>2. (r + i) - i = r
  BY DEF MadeOfSectors
<1> QED
  BY <1>1, <1>2 DEF Decrypted, Stored

(* Every byte of every sector is the one a reader of the volume is to find. *)
LEMMA SectorIsView ==
    ASSUME MadeOfSectors(io), NEW o \in Nat, Aligned(io, o),
           NEW i \in 0 .. io.bytesPerSector - 1
    PROVE  SectorContents(io, o)[i] = Plain!View(o + i)
<1> DEFINE r == Relocated(io, o)
<1>1. CASE InMetadata(io, o) \/ InMovedHeader(io, o)
  <2>1. Plain!Blanked(o + i)
    BY <1>1, BlankedBySector
  <2>2. SectorContents(io, o)[i] = Zero
    BY <1>1 DEF SectorContents
  <2> QED
    BY <2>1, <2>2 DEF Plain!View, Plain!Zero, Zero
<1>2. CASE ~(InMetadata(io, o) \/ InMovedHeader(io, o))
  <2>1. ~Plain!Blanked(o + i)
    BY <1>2, BlankedBySector
  <2>2. SectorContents(io, o)[i] =
          IF Encrypted(io, r) THEN Decrypted(io, r, i) ELSE Patched(io, r, i)
    BY <1>2 DEF SectorContents
  <2>3. CASE io.version # "vista"
    <3>1. Relocates(io) /\ Plain!HasMovedHeader
      BY <2>3 DEF Relocates, Plain!HasMovedHeader, MadeOfSectors
    <3>2. o + i >= io.headerSize <=> o >= io.headerSize
      BY AlignedOrder DEF MadeOfSectors
    <3>3. r = IF o < io.headerSize THEN o + io.headerOffset ELSE o
      BY <3>1 DEF Relocated
    <3>4. r \in Nat /\ Aligned(io, r)
      <4>1. o + io.headerOffset \in Nat /\ Aligned(io, o + io.headerOffset)
        <5>1. /\ io.bytesPerSector \in Nat \ {0}
              /\ io.headerOffset \in Nat /\ Aligned(io, io.headerOffset)
          BY DEF MadeOfSectors
        <5> QED
          BY <5>1, AlignedSum
      <4> QED
        BY <3>3, <4>1
    <3>5. SectorContents(io, o)[i] = Clear(r + i)
      BY <2>2, <2>3, <3>4, StoredSector DEF Patched
    <3>6. r + i = IF o + i < io.headerSize THEN io.headerOffset + (o + i) ELSE o + i
      BY <3>2, <3>3 DEF MadeOfSectors
    <3>7. Plain!View(o + i) =
            Plain!Clear(IF o + i < io.headerSize THEN io.headerOffset + (o + i) ELSE o + i)
      BY <2>1, <3>1 DEF Plain!View
    <3> QED
      BY <3>5, <3>6, <3>7 DEF Plain!Clear, Clear
  <2>4. CASE io.version = "vista"
    <3>1. ~Relocates(io) /\ ~Plain!HasMovedHeader /\ r = o
      BY <2>4 DEF Relocates, Plain!HasMovedHeader, Relocated
    <3>2. CASE o < PatchSize
      <4>1. o = 0
        <5>1. PICK k \in Nat : o = io.bytesPerSector * k
          BY AlignedMultiple DEF MadeOfSectors
        <5>2. k >= 1 => io.bytesPerSector * (k - 1) >= 0
          BY DEF MadeOfSectors
        <5>3. io.bytesPerSector * (k - 1) = io.bytesPerSector * k - io.bytesPerSector
          BY DEF MadeOfSectors
        <5> QED
          BY <3>2, <5>1, <5>2, <5>3, SectorDataAssumption DEF MadeOfSectors
      <4>2. ~Encrypted(io, o)
        BY <2>4, <3>2, SectorDataAssumption DEF Encrypted
      <4>3. Stored(io, o + i) = Clear(o + i)
        BY <4>2, StoredSector
      <4>4. o + i = i
        BY <4>1 DEF MadeOfSectors
      <4> QED
        BY <2>1, <2>2, <2>4, <3>1, <3>2, <4>2, <4>3, <4>4
        DEF Patched, Plain!View, Plain!Clear, Plain!Signature, Plain!Mirror,
            Clear, Signature, Mirror
    <3>3. CASE ~(o < PatchSize)
      <4>1. o + i \notin SignatureBytes /\ o + i \notin MirrorBytes
        BY <3>3, SectorDataAssumption DEF MadeOfSectors
      <4>2. SectorContents(io, o)[i] = Clear(o + i)
        BY <2>2, <3>1, <3>3, StoredSector DEF Patched
      <4> QED
        BY <2>1, <3>1, <4>1, <4>2 DEF Plain!View, Plain!Clear, Clear
    <3> QED
      BY <3>2, <3>3
  <2> QED
    BY <2>3, <2>4
<1> QED
  BY <1>1, <1>2

-----------------------------------------------------------------------------
(* The cache. *)

CacheInv == CacheCoherent /\ IsFiniteSet(DOMAIN cache)

LEMMA InitCacheInv == Init => CacheInv
<1> SUFFICES ASSUME Init PROVE CacheInv
  OBVIOUS
<1>1. DOMAIN cache = {}
  BY DEF Init
<1>2. IsFiniteSet({}) /\ Cardinality({}) = 0
  BY FS_EmptySet
<1> QED
  BY <1>1, <1>2, CacheSizeAssumption DEF CacheInv, CacheCoherent

(* A sector that is put in the cache takes a free entry or the one of the  *)
(* sector it evicts.                                                       *)
LEMMA CacheMissBounded ==
    ASSUME NEW D, IsFiniteSet(D), Cardinality(D) <= CacheSize, NEW s, s \notin D,
           NEW evicted \in IF Cardinality(D) < CacheSize THEN {{}} ELSE {{o} : o \in D}
    PROVE  /\ IsFiniteSet((D \ evicted) \union {s})
           /\ Cardinality((D \ evicted) \union {s}) <= CacheSize
<1>0. Cardinality(D) \in Nat
  BY FS_CardinalityType
<1>1. CASE Cardinality(D) < CacheSize
  <2>1. (D \ evicted) \union {s} = D \union {s}
    BY <1>1
  <2>2. IsFiniteSet(D \union {s}) /\ Cardinality(D \union {s}) = Cardinality(D) + 1
    BY FS_AddElement
  <2> QED
    BY <1>0, <1>1, <2>1, <2>2, CacheSizeAssumption
<1>2. CASE ~(Cardinality(D) < CacheSize)
  <2>1. PICK o \in D : evicted = {o}
    BY <1>2
  <2>2. IsFiniteSet(D \ {o}) /\ Cardinality(D \ {o}) = Cardinality(D) - 1
    BY FS_RemoveElement
  <2>3. /\ IsFiniteSet((D \ {o}) \union {s})
        /\ Cardinality((D \ {o}) \union {s}) = Cardinality(D \ {o}) + 1
    BY <2>2, FS_AddElement
  <2> QED
    BY <1>0, <2>1, <2>2, <2>3, CacheSizeAssumption
<1> QED
  BY <1>1, <1>2

LEMMA NextCacheInv ==
    ASSUME CacheInv, [Next]_vars
    PROVE  CacheInv'
<1>1. CASE CacheMiss
  <2>1. PICK evicted \in Evicted :
            cache' = [o \in (DOMAIN cache \ evicted) \union {sectorFileOffset} |->
                        IF o = sectorFileOffset
                        THEN SectorContents(io, sectorFileOffset)
                        ELSE cache[o]]
    BY <1>1 DEF CacheMiss
  <2>2. io' = io /\ sectorFileOffset \notin DOMAIN cache
    BY <1>1 DEF CacheMiss
  <2>3. DOMAIN cache' = (DOMAIN cache \ evicted) \union {sectorFileOffset}
    BY <2>1
  <2>4. \A o \in DOMAIN cache' : cache'[o] = SectorContents(io, o)
    BY <2>1, <2>3 DEF CacheInv, CacheCoherent
  <2>5. IsFiniteSet(DOMAIN cache') /\ Cardinality(DOMAIN cache') <= CacheSize
    <3>1. /\ IsFiniteSet(DOMAIN cache)
          /\ Cardinality(DOMAIN cache) <= CacheSize
      BY DEF CacheInv, CacheCoherent
    <3>2. evicted \in IF Cardinality(DOMAIN cache) < CacheSize
                      THEN {{}}
                      ELSE {{o} : o \in DOMAIN cache}
      BY <2>1, Zenon DEF Evicted
    <3>3. /\ IsFiniteSet((DOMAIN cache \ evicted) \union {sectorFileOffset})
          /\ Cardinality((DOMAIN cache \ evicted) \union {sectorFileOffset}) <= CacheSize
      <4> DEFINE D == DOMAIN cache
      <4> HIDE DEF D
      <4>1. IsFiniteSet(D) /\ Cardinality(D) <= CacheSize /\ sectorFileOffset \notin D
        BY <3>1, <2>2, Zenon DEF D
      <4>2. evicted \in IF Cardinality(D) < CacheSize THEN {{}} ELSE {{o} : o \in D}
        BY <3>2, Zenon DEF D
      <4>3. /\ IsFiniteSet((D \ evicted) \union {sectorFileOffset})
            /\ Cardinality((D \ evicted) \union {sectorFileOffset}) <= CacheSize
        BY <4>1, <4>2, CacheMissBounded, Zenon
      <4> QED
        BY <4>3, Zenon DEF D
    <3> QED
      BY <2>3, <3>3, Zenon
  <2> QED
    BY <2>2, <2>4, <2>5 DEF CacheInv, CacheCoherent
<1>2. CASE UNCHANGED <<io, cache>>
  BY <1>2 DEF CacheInv, CacheCoherent
<1> QED
  BY <1>1, <1>2
  DEF Next, vars, SeekOffset, ReadBuffer, ReadBufferAtOffset, BeginReadAt, Loop,
      CacheHit, ReadFails, CopySector, SignalAbort

(* Whatever is read in whatever order, the cache holds what the sectors    *)
(* read as, in no more than its entries.                                   *)
THEOREM CacheStaysCoherent == Spec => []CacheCoherent
<1>1. Init => CacheInv
  BY InitCacheInv
<1>2. CacheInv /\ [Next]_vars => CacheInv'
  BY NextCacheInv
<1>3. CacheInv => CacheCoherent
  BY DEF CacheInv
<1> QED
  BY <1>1, <1>2, <1>3, PTL DEF Spec

-----------------------------------------------------------------------------
(* The bytes that the volume shows, as a function: its value is that of io. *)
Shown == [p \in Nat |-> Plain!View(p)]
ShownSet == {Shown[p] : p \in Nat}

(* Where the read loop is: inside its buffer and the volume, at a sector,  *)
(* and inside one only when what is asked for ends there.                  *)
InLoop ==
    /\ Len(buffer) < bufferSize
    /\ \E size \in Sizes : bufferSize <= size
    /\ currentOffset + bufferSize <= io.volumeSize
    /\ Aligned(io, sectorFileOffset)
    /\ sectorFileOffset + sectorDataOffset = currentOffset + Len(buffer)
    /\ sectorDataOffset > 0 =>
        /\ Len(buffer) = 0
        /\ sectorDataOffset + bufferSize <= io.bytesPerSector
    /\ pc = "copy" => sectorData = SectorContents(io, sectorFileOffset)

(* What has been copied is what the volume shows behind the offset. *)
Copied ==
    /\ buffer \in Seq(ShownSet)
    /\ \A i \in 1 .. Len(buffer) : buffer[i] = Shown[currentOffset + i - 1]

ReadInv ==
    /\ Whole
    /\ CacheInv
    /\ io \in Layouts
    /\ currentOffset \in Nat
    /\ pc \in {"idle", "get", "copy"}
    /\ abort \in BOOLEAN
    /\ bufferSize \in Nat
    /\ sectorFileOffset \in Nat
    /\ sectorDataOffset \in 0 .. io.bytesPerSector - 1
    /\ Copied
    /\ pc = "idle" => buffer = << >>
    /\ pc # "idle" => InLoop

LEMMA ReadInvIo ==
    ASSUME ReadInv
    PROVE  /\ MadeOfSectors(io)
           /\ io.bytesPerSector \in Nat \ {0}
           /\ io.volumeSize \in Nat
<1>1. MadeOfSectors(io)
  BY LayoutsAssumption DEF ReadInv
<1> QED
  BY <1>1 DEF MadeOfSectors

LEMMA ShownKept ==
    ASSUME io' = io
    PROVE  Shown' = Shown
BY DEF Shown, Plain!View, Plain!Blanked, Plain!HasMovedHeader

(* The abstract specification's bytes are those shown. *)
LEMMA ShownBytes ==
    ASSUME NEW b \in Seq(ShownSet), NEW o \in Nat,
           \A i \in 1 .. Len(b) : b[i] = Shown[o + i - 1]
    PROVE  b = Plain!Bytes(o, Len(b))
<1>1. Len(b) \in Nat /\ b = [i \in 1 .. Len(b) |-> b[i]]
  OBVIOUS
<1>2. \A i \in 1 .. Len(b) : o + i - 1 \in Nat
  BY <1>1
<1>3. \A i \in 1 .. Len(b) : b[i] = Plain!View(o + i - 1)
  BY <1>2 DEF Shown
<1> QED
  BY <1>1, <1>3, Zenon DEF Plain!Bytes

(* What joining a sequence and a function on 1 .. n gives. *)
LEMMA Joined ==
    ASSUME NEW S, NEW b \in Seq(S), NEW n \in Nat, NEW c \in [1 .. n -> S]
    PROVE  /\ b \o c \in Seq(S)
           /\ Len(b \o c) = Len(b) + n
           /\ \A i \in 1 .. Len(b) : (b \o c)[i] = b[i]
           /\ \A i \in 1 .. n : (b \o c)[Len(b) + i] = c[i]
<1>1. c \in Seq(S) /\ Len(c) = n /\ Len(b) \in Nat
  OBVIOUS
<1>2. b \o c \in Seq(S) /\ Len(b \o c) = Len(b) + Len(c)
  BY <1>1
<1>3. \A i \in 1 .. Len(b) : (b \o c)[i] = b[i]
  BY <1>1
<1>4. \A i \in 1 .. Len(c) : (b \o c)[Len(b) + i] = c[i]
  BY <1>1
<1> QED
  BY <1>1, <1>2, <1>3, <1>4

LEMMA InitReadInv == Whole /\ Init => ReadInv
<1> SUFFICES ASSUME Whole, Init PROVE ReadInv
  OBVIOUS
<1>1. CacheInv
  BY InitCacheInv
<1>2. io \in Layouts /\ io.bytesPerSector \in Nat \ {0}
  BY LayoutsAssumption DEF Init, MadeOfSectors
<1>3. Copied
  <2>1. buffer = << >>
    BY DEF Init
  <2> QED
    BY <2>1 DEF Copied
<1>4. /\ currentOffset \in Nat
      /\ pc = "idle"
      /\ abort \in BOOLEAN
      /\ bufferSize \in Nat
      /\ buffer = << >>
  BY DEF Init
<1>5. sectorFileOffset \in Nat /\ sectorDataOffset \in 0 .. io.bytesPerSector - 1
  BY <1>2 DEF Init
<1> QED
  BY <1>1, <1>2, <1>3, <1>4, <1>5 DEF ReadInv

(* The loop is left, or its variables stay, and the offset is a number.    *)
LEMMA IdleReadInv ==
    ASSUME ReadInv, CacheInv', io' = io, pc' = "idle", buffer' = << >>,
           abort' \in BOOLEAN, currentOffset' \in Nat, bufferSize' \in Nat,
           sectorFileOffset' \in Nat, sectorDataOffset' \in 0 .. io.bytesPerSector - 1
    PROVE  ReadInv'
<1>1. Copied'
  <2>1. << >> \in Seq(ShownSet') /\ Len(<< >>) = 0
    OBVIOUS
  <2> QED
    BY <2>1 DEF Copied
<1> QED
  BY <1>1 DEF ReadInv

LEMMA BeginReadInv ==
    ASSUME ReadInv, NEW offset \in Nat, NEW size \in Sizes, BeginReadAt(offset, size),
           CacheInv'
    PROVE  ReadInv'
<1> DEFINE clamped == Clamped(offset, size)
<1>1. io' = io /\ pc = "idle" /\ buffer' = << >> /\ currentOffset' = offset /\ abort' = FALSE
  BY DEF BeginReadAt, loop, ReadInv
<1>2. io.bytesPerSector \in Nat \ {0} /\ io.volumeSize \in Nat /\ size \in Nat
  BY ReadInvIo, CallsAssumption
<1>3. /\ clamped \in Nat
      /\ clamped <= size
      /\ clamped # 0 => offset + clamped <= io.volumeSize
  BY <1>2 DEF Clamped
<1>4. CASE clamped = 0
  <2>1. pc' = "idle" /\ loop' = loop
    BY <1>1, <1>4 DEF BeginReadAt
  <2> QED
    BY <1>1, <2>1, IdleReadInv DEF loop, ReadInv
<1>5. CASE clamped # 0
  <2>1. /\ pc' = "get"
        /\ bufferSize' = clamped
        /\ sectorFileOffset' = FirstSector(offset)
        /\ sectorDataOffset' = offset - FirstSector(offset)
    BY <1>5 DEF BeginReadAt
  <2>2. /\ FirstSector(offset) \in Nat
        /\ Aligned(io, FirstSector(offset))
        /\ offset - FirstSector(offset) \in 0 .. io.bytesPerSector - 1
    BY <1>2, FirstSectorAligned
  <2>3. offset - FirstSector(offset) = offset % io.bytesPerSector
    BY <1>2, FirstSectorRemainder
  <2>4. WithinSectors(offset, size)
    BY DEF ReadInv, BeginReadAt
  <2>5. sectorDataOffset' > 0 => sectorDataOffset' + bufferSize' <= io.bytesPerSector
    <3> HIDE DEF clamped
    <3>1. CASE Aligned(io, offset)
      BY <2>1, <2>3, <3>1 DEF Aligned
    <3>2. CASE (offset % io.bytesPerSector) + size <= io.bytesPerSector
      BY <1>2, <1>3, <2>1, <2>2, <2>3, <3>2
    <3> QED
      BY <2>4, <3>1, <3>2 DEF WithinSectors
  <2> HIDE DEF clamped
  <2>6. InLoop'
    <3>1. Len(buffer') = 0
      BY <1>1
    <3>2. Len(buffer') < bufferSize' /\ currentOffset' + bufferSize' <= io'.volumeSize
      BY <1>1, <1>3, <1>5, <2>1, <3>1
    <3>3. \E x \in Sizes : bufferSize' <= x
      BY <1>3, <2>1
    <3>4. Aligned(io, sectorFileOffset)'
      BY <1>1, <2>1, <2>2 DEF Aligned
    <3>5. sectorFileOffset' + sectorDataOffset' = currentOffset' + Len(buffer')
      BY <1>1, <2>1, <2>2, <3>1
    <3>6. sectorDataOffset' > 0 =>
            Len(buffer') = 0 /\ sectorDataOffset' + bufferSize' <= io'.bytesPerSector
      BY <1>1, <2>5, <3>1
    <3> QED
      BY <2>1, <3>2, <3>3, <3>4, <3>5, <3>6 DEF InLoop
  <2>7. Copied'
    <3>1. << >> \in Seq(ShownSet') /\ Len(<< >>) = 0
      OBVIOUS
    <3> QED
      BY <1>1, <3>1 DEF Copied
  <2>8. /\ bufferSize' \in Nat
        /\ sectorFileOffset' \in Nat
        /\ sectorDataOffset' \in 0 .. io'.bytesPerSector - 1
    BY <1>1, <1>3, <2>1, <2>2
  <2> QED
    BY <1>1, <2>1, <2>6, <2>7, <2>8 DEF ReadInv
<1> QED
  BY <1>4, <1>5

(* What an iteration has copied when it reaches the end of its sector.     *)
LEMMA CopyStep ==
    ASSUME ReadInv, pc = "copy"
    PROVE  LET copied == buffer \o [i \in 1 .. ReadSize |->
                                        sectorData[sectorDataOffset + i - 1]]
           IN  /\ ReadSize \in 1 .. io.bytesPerSector - sectorDataOffset
               /\ copied \in Seq(ShownSet)
               /\ Len(copied) = Len(buffer) + ReadSize
               /\ Len(copied) <= bufferSize
               /\ \A i \in 1 .. Len(copied) : copied[i] = Shown[currentOffset + i - 1]
               /\ Len(copied) # bufferSize =>
                    ReadSize = io.bytesPerSector /\ sectorDataOffset = 0
<1>1. /\ MadeOfSectors(io)
      /\ io.bytesPerSector \in Nat \ {0}
  BY ReadInvIo
<1>2. /\ InLoop
      /\ Copied
      /\ currentOffset \in Nat
      /\ bufferSize \in Nat
      /\ sectorFileOffset \in Nat
      /\ sectorDataOffset \in 0 .. io.bytesPerSector - 1
  BY DEF ReadInv
<1>3. /\ buffer \in Seq(ShownSet)
      /\ Len(buffer) \in Nat
      /\ \A i \in 1 .. Len(buffer) : buffer[i] = Shown[currentOffset + i - 1]
  BY <1>2 DEF Copied
<1>4. /\ ReadSize \in 1 .. io.bytesPerSector - sectorDataOffset
      /\ Len(buffer) + ReadSize <= bufferSize
      /\ Len(buffer) + ReadSize # bufferSize => ReadSize = io.bytesPerSector - sectorDataOffset
  BY <1>1, <1>2, <1>3 DEF InLoop, ReadSize, Remaining
<1>5. Len(buffer) + ReadSize # bufferSize =>
        ReadSize = io.bytesPerSector /\ sectorDataOffset = 0
  BY <1>1, <1>2, <1>3, <1>4 DEF InLoop
<1>6. sectorData = SectorContents(io, sectorFileOffset)
  BY <1>2 DEF InLoop
<1> DEFINE c == [i \in 1 .. ReadSize |-> sectorData[sectorDataOffset + i - 1]]
           copied == buffer \o c
<1>7. /\ copied \in Seq(ShownSet)
      /\ Len(copied) = Len(buffer) + ReadSize
      /\ \A i \in 1 .. Len(copied) : copied[i] = Shown[currentOffset + i - 1]
  <2> DEFINE n == ReadSize
             b == buffer
             o == currentOffset
             s == sectorFileOffset
             d == sectorDataOffset
  <2>0. /\ o \in Nat /\ s \in Nat /\ d \in Nat /\ n \in Nat
        /\ s + d = o + Len(b)
        /\ Aligned(io, s)
        /\ d + n <= io.bytesPerSector
        /\ b \in Seq(ShownSet)
        /\ \A i \in 1 .. Len(b) : b[i] = Shown[o + i - 1]
        /\ \A i \in 1 .. n : c[i] = SectorContents(io, s)[d + i - 1]
        /\ c = [i \in 1 .. n |-> c[i]]
    <3>1. o \in Nat /\ s \in Nat /\ d \in Nat /\ n \in Nat /\ d + n <= io.bytesPerSector
      BY <1>1, <1>2, <1>4
    <3>2. Aligned(io, s) /\ s + d = o + Len(b)
      BY <1>2 DEF InLoop
    <3>3. \A i \in 1 .. n : c[i] = SectorContents(io, s)[d + i - 1]
      BY <1>6
    <3> QED
      BY <1>3, <3>1, <3>2, <3>3
  <2> HIDE DEF n, b, o, s, d, c
  <2>1. \A i \in 1 .. n : c[i] = Shown[s + d + i - 1] /\ s + d + i - 1 \in Nat
    <3> SUFFICES ASSUME NEW i \in 1 .. n
                 PROVE  c[i] = Shown[s + d + i - 1] /\ s + d + i - 1 \in Nat
      OBVIOUS
    <3>1. io.bytesPerSector \in Nat
      BY <1>1
    <3>2. d + i - 1 \in 0 .. io.bytesPerSector - 1
      BY <2>0, <3>1
    <3>3. SectorContents(io, s)[d + i - 1] = Plain!View(s + (d + i - 1))
      BY <1>1, <2>0, <3>2, SectorIsView
    <3>4. s + (d + i - 1) = s + d + i - 1 /\ s + d + i - 1 \in Nat
      <4>1. s \in Nat /\ d \in Nat /\ i \in Nat /\ i >= 1
        BY <2>0
      <4> QED
        BY <4>1
    <3>5. Shown[s + d + i - 1] = Plain!View(s + d + i - 1)
      BY <3>4 DEF Shown
    <3> QED
      BY <2>0, <3>3, <3>4, <3>5
  <2>2. c \in [1 .. n -> ShownSet]
    <3>1. \A i \in 1 .. n : c[i] \in ShownSet
      BY <2>1 DEF ShownSet
    <3> QED
      BY <2>0, <3>1
  <2>3. \A i \in 1 .. n : c[i] = Shown[o + Len(b) + i - 1]
    BY <2>0, <2>1
  <2>4. Len(b) \in Nat
    BY <2>0
  <2>5. /\ b \o c \in Seq(ShownSet)
        /\ Len(b \o c) = Len(b) + n
        /\ \A i \in 1 .. Len(b) : (b \o c)[i] = b[i]
        /\ \A i \in 1 .. n : (b \o c)[Len(b) + i] = c[i]
    BY <2>0, <2>2, Joined
  <2> HIDE DEF copied
  <2>6. ASSUME NEW i \in 1 .. Len(b) + n
        PROVE  copied[i] = Shown[o + i - 1]
    <3>1. CASE i <= Len(b)
      <4>1. i \in 1 .. Len(b)
        BY <2>4, <3>1
      <4> QED
        BY <2>0, <4>1, <2>5 DEF copied, b
    <3>2. CASE i > Len(b)
      <4>1. PICK j \in 1 .. n : i = Len(b) + j
        <5>1. i - Len(b) \in 1 .. n /\ i = Len(b) + (i - Len(b))
          BY <2>0, <2>4, <3>2
        <5> QED
          BY <5>1
      <4>2. copied[i] = c[j]
        BY <2>5, <4>1 DEF copied, b
      <4>3. c[j] = Shown[o + Len(b) + j - 1]
        BY <2>3
      <4>4. o + Len(b) + j - 1 = o + i - 1
        BY <2>0, <2>4, <4>1
      <4> QED
        BY <4>2, <4>3, <4>4
    <3> QED
      BY <2>4, <3>1, <3>2
  <2>7. /\ copied \in Seq(ShownSet)
        /\ Len(copied) = Len(b) + n
        /\ \A i \in 1 .. Len(copied) : copied[i] = Shown[o + i - 1]
    BY <2>5, <2>6 DEF copied, b
  <2> QED
    BY <2>7 DEF copied, b, o, n
<1> HIDE DEF copied
<1>8. /\ Len(copied) <= bufferSize
      /\ Len(copied) # bufferSize => ReadSize = io.bytesPerSector /\ sectorDataOffset = 0
  BY <1>4, <1>5, <1>7
<1> QED
  BY <1>4, <1>7, <1>8 DEF copied

LEMMA CopyReadInv ==
    ASSUME ReadInv, CopySector, CacheInv'
    PROVE  ReadInv'
<1> DEFINE copied == buffer \o [i \in 1 .. ReadSize |->
                                    sectorData[sectorDataOffset + i - 1]]
<1>1. pc = "copy" /\ io' = io /\ abort' = abort
  BY DEF CopySector
<1>2. /\ ReadSize \in 1 .. io.bytesPerSector - sectorDataOffset
      /\ copied \in Seq(ShownSet)
      /\ Len(copied) = Len(buffer) + ReadSize
      /\ Len(copied) <= bufferSize
      /\ \A i \in 1 .. Len(copied) : copied[i] = Shown[currentOffset + i - 1]
      /\ Len(copied) # bufferSize =>
            ReadSize = io.bytesPerSector /\ sectorDataOffset = 0
  BY <1>1, CopyStep
<1>3. io.bytesPerSector \in Nat \ {0}
  BY ReadInvIo
<1>4. \/ /\ currentOffset' = currentOffset + Len(copied)
         /\ Return
      \/ /\ Len(copied) # bufferSize
         /\ pc' = "get"
         /\ buffer' = copied
         /\ sectorDataOffset' = 0
         /\ sectorFileOffset' = NextSectorFileOffset
         /\ UNCHANGED <<currentOffset, bufferSize, sectorData>>
  BY DEF CopySector, Finished
<1> HIDE DEF copied
<1>5. /\ currentOffset \in Nat
      /\ bufferSize \in Nat
      /\ sectorFileOffset \in Nat
      /\ sectorDataOffset \in 0 .. io.bytesPerSector - 1
      /\ abort \in BOOLEAN
      /\ InLoop
  BY <1>1 DEF ReadInv
<1>6. Len(copied) \in Nat
  BY <1>2
<1>7. CASE currentOffset' = currentOffset + Len(copied) /\ Return
  <2>1. currentOffset' \in Nat
    BY <1>5, <1>6, <1>7
  <2>2. 0 \in 0 .. io.bytesPerSector - 1
    BY <1>3
  <2>3. pc' = "idle" /\ buffer' = << >>
    BY <1>7 DEF Return
  <2>4. bufferSize' = 0 /\ sectorFileOffset' = 0 /\ sectorDataOffset' = 0
    BY <1>7 DEF Return
  <2> QED
    BY <1>1, <1>5, <2>1, <2>2, <2>3, <2>4, IdleReadInv
<1>8. CASE /\ Len(copied) # bufferSize
           /\ pc' = "get"
           /\ buffer' = copied
           /\ sectorDataOffset' = 0
           /\ sectorFileOffset' = NextSectorFileOffset
           /\ UNCHANGED <<currentOffset, bufferSize, sectorData>>
  <2>1. ReadSize = io.bytesPerSector /\ sectorDataOffset = 0
    BY <1>2, <1>8
  <2>2. sectorFileOffset' = sectorFileOffset + io.bytesPerSector
    BY <1>8, <2>1 DEF NextSectorFileOffset
  <2>3. Aligned(io, io.bytesPerSector)
    BY <1>3 DEF Aligned
  <2>4. Aligned(io, sectorFileOffset) /\ sectorFileOffset = currentOffset + Len(buffer)
    BY <1>5, <2>1 DEF InLoop
  <2>5. Aligned(io, sectorFileOffset + io.bytesPerSector)
    BY <1>3, <1>5, <2>3, <2>4, AlignedSum
  <2>6. Aligned(io, sectorFileOffset)'
    BY <1>1, <2>2, <2>5 DEF Aligned
  <2>7. Shown' = Shown /\ ShownSet' = ShownSet
    BY <1>1, ShownKept DEF ShownSet
  <2>8. Copied'
    BY <1>2, <1>8, <2>7 DEF Copied
  <2>9. InLoop'
    <3>1. /\ Len(buffer') < bufferSize'
          /\ \E size \in Sizes : bufferSize' <= size
          /\ currentOffset' + bufferSize' <= io'.volumeSize
      <4>1. buffer' = copied /\ bufferSize' = bufferSize /\ currentOffset' = currentOffset
        BY <1>8
      <4>2. Len(copied) < bufferSize
        <5>1. Len(copied) <= bufferSize /\ Len(copied) # bufferSize
          BY <1>2, <1>8, Zenon
        <5>2. Len(copied) \in Nat /\ bufferSize \in Nat
          BY <1>5, <1>6, Zenon
        <5> DEFINE l == Len(copied)
        <5> HIDE DEF l
        <5>3. l <= bufferSize /\ l # bufferSize /\ l \in Nat /\ bufferSize \in Nat
          BY <5>1, <5>2, Zenon DEF l
        <5>4. l < bufferSize
          BY <5>3
        <5> QED
          BY <5>4, Zenon DEF l
      <4>3. /\ \E size \in Sizes : bufferSize <= size
            /\ currentOffset + bufferSize <= io.volumeSize
        BY <1>5 DEF InLoop
      <4> QED
        BY <1>1, <4>1, <4>2, <4>3, Zenon
    <3>2. Len(buffer) \in Nat
      BY DEF ReadInv, Copied
    <3>3. sectorFileOffset' + sectorDataOffset' = currentOffset' + Len(buffer')
      <4>1. buffer' = copied /\ sectorDataOffset' = 0 /\ currentOffset' = currentOffset
        BY <1>8
      <4>2. Len(copied) = Len(buffer) + io.bytesPerSector
        BY <1>2, <2>1
      <4>3. currentOffset + Len(buffer) + io.bytesPerSector + 0
                = currentOffset + (Len(buffer) + io.bytesPerSector)
        BY <1>3, <1>5, <3>2
      <4> QED
        BY <2>2, <2>4, <4>1, <4>2, <4>3
    <3>4. ~(sectorDataOffset' > 0) /\ pc' # "copy"
      BY <1>8
    <3> QED
      BY <2>6, <3>1, <3>3, <3>4 DEF InLoop
  <2>10. /\ sectorFileOffset' \in Nat
         /\ sectorDataOffset' \in 0 .. io'.bytesPerSector - 1
         /\ bufferSize' \in Nat
         /\ currentOffset' \in Nat
    BY <1>1, <1>3, <1>5, <1>8, <2>2
  <2> QED
    BY <1>1, <1>5, <1>8, <2>8, <2>9, <2>10 DEF ReadInv
<1> QED
  BY <1>4, <1>7, <1>8

LEMMA GetReadInv ==
    ASSUME ReadInv, CacheInv', pc = "get", io' = io, pc' = "copy", abort' = abort,
           sectorData' = SectorContents(io, sectorFileOffset),
           UNCHANGED <<currentOffset, bufferSize, buffer, sectorFileOffset, sectorDataOffset>>
    PROVE  ReadInv'
<1>1. Shown' = Shown /\ ShownSet' = ShownSet
  BY ShownKept DEF ShownSet
<1>2. Copied'
  BY <1>1 DEF ReadInv, Copied
<1>3. Aligned(io, sectorFileOffset)'
  BY DEF ReadInv, InLoop, Aligned
<1>4. sectorData' = SectorContents(io, sectorFileOffset)'
  BY DEF SectorContents, InMetadata, InMovedHeader, Relocates, Encrypted, Relocated,
         Decrypted, Patched, Stored, Aligned
<1>5. InLoop'
  BY <1>3, <1>4 DEF ReadInv, InLoop
<1> QED
  BY <1>2, <1>5 DEF ReadInv

(* A seek ends at or after the start of the volume, or not at all.         *)
LEMMA SeekIsSeek ==
    ASSUME ReadInv, SeekOffset
    PROVE  /\ currentOffset' \in Nat
           /\ \/ result' = Failed /\ currentOffset' = currentOffset
              \/ result' = Moved
<1>1. PICK offset \in Offsets \union {-o : o \in Offsets},
           from \in {0, currentOffset, io.volumeSize} :
        IF from + offset < 0
        THEN result' = Failed /\ UNCHANGED currentOffset
        ELSE result' = Moved /\ currentOffset' = from + offset
  BY DEF SeekOffset
<1>2. offset \in Int /\ from \in Nat
  <2>1. currentOffset \in Nat /\ io.volumeSize \in Nat
    BY ReadInvIo DEF ReadInv
  <2> QED
    BY <2>1, CallsAssumption
<1>3. CASE from + offset < 0
  BY <1>1, <1>3 DEF ReadInv
<1>4. CASE ~(from + offset < 0)
  BY <1>1, <1>2, <1>4
<1> QED
  BY <1>3, <1>4

LEMMA NextReadInv ==
    ASSUME ReadInv, [Next]_vars
    PROVE  ReadInv'
<1>0. CacheInv'
  BY NextCacheInv DEF ReadInv
<1>1. /\ io \in Layouts
      /\ currentOffset \in Nat
      /\ bufferSize \in Nat
      /\ sectorFileOffset \in Nat
      /\ sectorDataOffset \in 0 .. io.bytesPerSector - 1
      /\ abort \in BOOLEAN
      /\ pc = "idle" => buffer = << >>
      /\ io.bytesPerSector \in Nat \ {0}
  BY ReadInvIo DEF ReadInv
<1>2. CASE SeekOffset
  <2>1. currentOffset' \in Nat
    BY <1>2, SeekIsSeek
  <2>2. io' = io /\ pc' = "idle" /\ pc = "idle" /\ abort' = abort /\ loop' = loop
    BY <1>2 DEF SeekOffset
  <2>3. /\ buffer' = << >> /\ bufferSize' = bufferSize
        /\ sectorFileOffset' = sectorFileOffset /\ sectorDataOffset' = sectorDataOffset
    BY <1>1, <2>2 DEF loop
  <2> QED
    BY <1>0, <1>1, <2>1, <2>2, <2>3, IdleReadInv
<1>3. CASE ReadBuffer
  <2>1. PICK size \in Sizes : BeginReadAt(currentOffset, size)
    BY <1>3 DEF ReadBuffer
  <2> QED
    BY <1>0, <1>1, <2>1, BeginReadInv
<1>4. CASE ReadBufferAtOffset
  <2>1. PICK offset \in Offsets, size \in Sizes : BeginReadAt(offset, size)
    BY <1>4 DEF ReadBufferAtOffset
  <2>2. offset \in Nat
    BY CallsAssumption
  <2> QED
    BY <1>0, <2>1, <2>2, BeginReadInv
<1>5. CASE CacheHit
  <2>1. cache[sectorFileOffset] = SectorContents(io, sectorFileOffset)
    BY <1>5 DEF CacheHit, ReadInv, CacheInv, CacheCoherent
  <2>2. /\ pc = "get" /\ pc' = "copy" /\ io' = io /\ abort' = abort
        /\ sectorData' = cache[sectorFileOffset]
        /\ UNCHANGED <<currentOffset, bufferSize, buffer, sectorFileOffset, sectorDataOffset>>
    BY <1>5 DEF CacheHit
  <2> QED
    BY <1>0, <2>1, <2>2, GetReadInv
<1>6. CASE CacheMiss
  <2>1. /\ pc = "get" /\ pc' = "copy" /\ io' = io /\ abort' = abort
        /\ sectorData' = SectorContents(io, sectorFileOffset)
        /\ UNCHANGED <<currentOffset, bufferSize, buffer, sectorFileOffset, sectorDataOffset>>
    BY <1>6 DEF CacheMiss
  <2> QED
    BY <1>0, <2>1, GetReadInv
<1>7. CASE ReadFails
  <2>1. io' = io /\ currentOffset' = currentOffset /\ abort' = abort /\ Return
    BY <1>7 DEF ReadFails
  <2>2. /\ pc' = "idle" /\ buffer' = << >> /\ bufferSize' = 0
        /\ sectorFileOffset' = 0 /\ sectorDataOffset' = 0
    BY <2>1 DEF Return
  <2>3. 0 \in 0 .. io.bytesPerSector - 1
    BY <1>1
  <2> QED
    BY <1>0, <1>1, <2>1, <2>2, <2>3, IdleReadInv
<1>8. CASE CopySector
  BY <1>0, <1>8, CopyReadInv
<1>9. CASE UNCHANGED <<io, currentOffset, pc, cache, loop>> /\ abort' \in BOOLEAN
  <2>1. /\ io' = io /\ currentOffset' = currentOffset /\ pc' = pc
        /\ bufferSize' = bufferSize /\ buffer' = buffer /\ sectorData' = sectorData
        /\ sectorFileOffset' = sectorFileOffset /\ sectorDataOffset' = sectorDataOffset
    BY <1>9 DEF loop
  <2>2. Copied'
    <3>1. Shown' = Shown /\ ShownSet' = ShownSet
      BY <2>1, ShownKept DEF ShownSet
    <3> QED
      BY <2>1, <3>1 DEF ReadInv, Copied
  <2>3. InLoop' = InLoop
    <3>1. Aligned(io, sectorFileOffset)' = Aligned(io, sectorFileOffset)
      BY <2>1 DEF Aligned
    <3>2. SectorContents(io, sectorFileOffset)' = SectorContents(io, sectorFileOffset)
      BY <2>1 DEF SectorContents, InMetadata, InMovedHeader, Relocates, Encrypted,
                  Relocated, Decrypted, Patched, Stored, Aligned
    <3> QED
      BY <2>1, <3>1, <3>2 DEF InLoop
  <2> QED
    BY <1>0, <1>9, <2>1, <2>2, <2>3 DEF ReadInv
<1>10. CASE SignalAbort
  BY <1>9, <1>10 DEF SignalAbort
<1>11. CASE UNCHANGED vars
  BY <1>1, <1>9, <1>11 DEF vars
<1> QED
  BY <1>2, <1>3, <1>4, <1>5, <1>6, <1>7, <1>8, <1>10, <1>11 DEF Next, Loop

-----------------------------------------------------------------------------
(* What holds whatever the callers ask for.                                *)

(* The buffer ends inside the volume and is not full while the loop runs.  *)
BoundsInv ==
    /\ io \in Layouts
    /\ currentOffset \in Nat
    /\ pc \in {"idle", "get", "copy"}
    /\ abort \in BOOLEAN
    /\ bufferSize \in Nat
    /\ sectorFileOffset \in Nat
    /\ sectorDataOffset \in 0 .. io.bytesPerSector - 1
    /\ \E S : buffer \in Seq(S)
    /\ pc = "idle" => buffer = << >>
    /\ pc # "idle" =>
        /\ Len(buffer) < bufferSize
        /\ currentOffset + bufferSize <= io.volumeSize

(* What the next copy takes is something, and lies inside the sector, the  *)
(* buffer and the volume.                                                  *)
CopyInside ==
    pc # "idle" =>
        /\ ReadSize > 0
        /\ sectorDataOffset + ReadSize <= io.bytesPerSector
        /\ Len(buffer) + ReadSize <= bufferSize
        /\ currentOffset + Len(buffer) + ReadSize <= io.volumeSize

LEMMA BoundsIo ==
    ASSUME BoundsInv
    PROVE  io.bytesPerSector \in Nat \ {0} /\ io.volumeSize \in Nat
BY LayoutsAssumption DEF BoundsInv, MadeOfSectors

LEMMA BoundsMean ==
    ASSUME BoundsInv
    PROVE  /\ Len(buffer) \in Nat
           /\ pc # "idle" => ReadSize \in Nat \ {0}
           /\ CopyInside
<1>1. Len(buffer) \in Nat
  BY DEF BoundsInv
<1> QED
  BY <1>1, BoundsIo DEF BoundsInv, CopyInside, ReadSize, Remaining

LEMMA InitBounds == Init => BoundsInv
<1> SUFFICES ASSUME Init PROVE BoundsInv
  OBVIOUS
<1>1. io \in Layouts /\ io.bytesPerSector \in Nat \ {0}
  BY LayoutsAssumption DEF Init, MadeOfSectors
<1>2. sectorDataOffset \in 0 .. io.bytesPerSector - 1
  BY <1>1 DEF Init
<1>3. << >> \in Seq({})
  OBVIOUS
<1> QED
  BY <1>1, <1>2, <1>3 DEF Init, BoundsInv

LEMMA SeekBounds ==
    ASSUME BoundsInv, SeekOffset
    PROVE  BoundsInv'
<1>1. PICK offset \in Offsets \union {-o : o \in Offsets},
           from \in {0, currentOffset, io.volumeSize} :
        IF from + offset < 0
        THEN UNCHANGED currentOffset
        ELSE currentOffset' = from + offset
  BY DEF SeekOffset
<1>2. offset \in Int /\ from \in Nat /\ currentOffset \in Nat
  BY BoundsIo, CallsAssumption DEF BoundsInv
<1>3. currentOffset' \in Nat
  BY <1>1, <1>2
<1> QED
  BY <1>3 DEF BoundsInv, SeekOffset, loop

LEMMA BeginReadBounds ==
    ASSUME BoundsInv, NEW offset \in Nat, NEW size \in Sizes, BeginReadAt(offset, size)
    PROVE  BoundsInv'
<1> DEFINE clamped == Clamped(offset, size)
<1>1. io' = io /\ pc = "idle" /\ buffer' = << >> /\ currentOffset' = offset /\ abort' = FALSE
  BY DEF BeginReadAt, loop, BoundsInv
<1>2. io.bytesPerSector \in Nat \ {0} /\ io.volumeSize \in Nat /\ size \in Nat
  BY BoundsIo, CallsAssumption
<1>3. clamped \in Nat /\ (clamped # 0 => offset + clamped <= io.volumeSize)
  BY <1>2 DEF Clamped
<1>4. << >> \in Seq({}) /\ Len(<< >>) = 0
  OBVIOUS
<1>5. CASE clamped = 0
  <2>1. pc' = "idle" /\ loop' = loop
    BY <1>1, <1>5 DEF BeginReadAt
  <2> QED
    BY <1>1, <2>1 DEF loop, BoundsInv
<1>6. CASE clamped # 0
  <2>1. /\ pc' = "get"
        /\ bufferSize' = clamped
        /\ sectorFileOffset' = FirstSector(offset)
        /\ sectorDataOffset' = offset - FirstSector(offset)
    BY <1>6 DEF BeginReadAt
  <2>2. /\ FirstSector(offset) \in Nat
        /\ offset - FirstSector(offset) \in 0 .. io.bytesPerSector - 1
    BY <1>2, FirstSectorAligned
  <2> HIDE DEF clamped
  <2>3. \E S : buffer' \in Seq(S)
    BY <1>1, <1>4
  <2>4. Len(buffer') < bufferSize' /\ currentOffset' + bufferSize' <= io'.volumeSize
    BY <1>1, <1>3, <1>4, <1>6, <2>1
  <2> QED
    BY <1>1, <1>3, <2>1, <2>2, <2>3, <2>4 DEF BoundsInv
<1> QED
  BY <1>5, <1>6

LEMMA ReturnBounds ==
    ASSUME BoundsInv, Return, io' = io, abort' = abort, currentOffset' \in Nat
    PROVE  BoundsInv'
<1>1. 0 \in 0 .. io.bytesPerSector - 1
  BY BoundsIo
<1>2. << >> \in Seq({})
  OBVIOUS
<1> QED
  BY <1>1, <1>2 DEF BoundsInv, Return

LEMMA CopyBounds ==
    ASSUME BoundsInv, CopySector
    PROVE  BoundsInv'
<1> DEFINE n == ReadSize
           c == [i \in 1 .. n |-> sectorData[sectorDataOffset + i - 1]]
           copied == buffer \o c
<1>1. /\ pc = "copy" /\ io' = io /\ abort' = abort
      /\ currentOffset \in Nat /\ bufferSize \in Nat /\ sectorFileOffset \in Nat
      /\ currentOffset + bufferSize <= io.volumeSize
  BY DEF CopySector, BoundsInv
<1>2. n \in Nat /\ Len(buffer) \in Nat /\ Len(buffer) + n <= bufferSize
  BY <1>1, BoundsMean DEF CopyInside
<1>3. PICK S : buffer \in Seq(S)
  BY DEF BoundsInv
<1>4. \/ currentOffset' = currentOffset + Len(copied) /\ Return
      \/ /\ Len(copied) # bufferSize
         /\ pc' = "get"
         /\ buffer' = copied
         /\ sectorDataOffset' = 0
         /\ sectorFileOffset' = sectorFileOffset + n
         /\ UNCHANGED <<currentOffset, bufferSize>>
  BY DEF CopySector, Finished, NextSectorFileOffset
<1> HIDE DEF n
<1> DEFINE T == S \union {c[i] : i \in 1 .. n}
<1>5. c \in [1 .. n -> T] /\ buffer \in Seq(T)
  <2>1. c \in [1 .. n -> T]
    OBVIOUS
  <2>2. \A i \in 1 .. Len(buffer) : buffer[i] \in S
    BY <1>3
  <2>3. buffer \in [1 .. Len(buffer) -> T]
    BY <1>3, <2>2
  <2> HIDE DEF T
  <2>4. buffer \in Seq(T)
    BY <1>2, <2>3
  <2> QED
    BY <2>1, <2>4
<1> HIDE DEF T, c
<1>6. copied \in Seq(T) /\ Len(copied) = Len(buffer) + n
  BY <1>2, <1>5, Joined
<1> HIDE DEF copied
<1>7. CASE currentOffset' = currentOffset + Len(copied) /\ Return
  BY <1>1, <1>2, <1>6, <1>7, ReturnBounds
<1>8. CASE /\ Len(copied) # bufferSize
           /\ pc' = "get"
           /\ buffer' = copied
           /\ sectorDataOffset' = 0
           /\ sectorFileOffset' = sectorFileOffset + n
           /\ UNCHANGED <<currentOffset, bufferSize>>
  <2>1. Len(buffer') < bufferSize' /\ sectorFileOffset' \in Nat
    BY <1>1, <1>2, <1>6, <1>8
  <2>2. sectorDataOffset' \in 0 .. io'.bytesPerSector - 1
    BY <1>1, <1>8, BoundsIo
  <2>3. \E X : buffer' \in Seq(X)
    BY <1>6, <1>8
  <2> QED
    BY <1>1, <1>8, <2>1, <2>2, <2>3 DEF BoundsInv
<1> QED
  BY <1>4, <1>7, <1>8

LEMMA NextBounds ==
    ASSUME BoundsInv, [Next]_vars
    PROVE  BoundsInv'
<1>1. CASE SeekOffset
  BY <1>1, SeekBounds
<1>2. CASE ReadBuffer \/ ReadBufferAtOffset
  BY <1>2, BeginReadBounds, CallsAssumption DEF ReadBuffer, ReadBufferAtOffset, BoundsInv
<1>3. CASE CacheHit \/ CacheMiss
  BY <1>3 DEF CacheHit, CacheMiss, BoundsInv
<1>4. CASE ReadFails
  BY <1>4, ReturnBounds DEF ReadFails, BoundsInv
<1>5. CASE CopySector
  BY <1>5, CopyBounds
<1>6. CASE SignalAbort \/ UNCHANGED vars
  BY <1>6 DEF SignalAbort, vars, loop, BoundsInv
<1> QED
  BY <1>1, <1>2, <1>3, <1>4, <1>5, <1>6 DEF Next, Loop

-----------------------------------------------------------------------------
(* The results. *)

(* The loop's variables have their types whatever callers ask for. *)
THEOREM TypesKept == Spec => []TypeOK
<1>1. BoundsInv /\ [Next]_vars => BoundsInv'
  BY NextBounds
<1>2. BoundsInv => TypeOK
  <2>1. ASSUME BoundsInv PROVE Len(buffer) <= bufferSize
    BY <2>1, BoundsMean DEF BoundsInv
  <2> QED
    BY <2>1 DEF BoundsInv, TypeOK
<1> QED
  BY <1>1, <1>2, InitBounds, PTL DEF Spec

(* Each copy of the loop (volume.c:2226) stays inside its sector, inside   *)
(* the buffer and inside the volume, and takes at least one byte, at any   *)
(* offset and for any size, read from a sector's start or not.             *)
THEOREM CopiesStayInside == Spec => []CopyInside
<1>1. BoundsInv /\ [Next]_vars => BoundsInv'
  BY NextBounds
<1>2. BoundsInv => CopyInside
  BY BoundsMean
<1> QED
  BY <1>1, <1>2, InitBounds, PTL DEF Spec

(* While callers read whole sectors or inside one, what a read has copied  *)
(* is what the volume holds at its offset.                                 *)
THEOREM BufferIsRight == Whole /\ Spec => []BufferIsView
<1>1. Whole /\ Init => ReadInv
  BY InitReadInv
<1>2. ReadInv /\ [Next]_vars => ReadInv'
  BY NextReadInv
<1>3. ReadInv => BufferIsView
  BY ShownBytes DEF ReadInv, Copied, BufferIsView
<1> QED
  BY <1>1, <1>2, <1>3, PTL DEF Spec

(* Every step of such a read is one of the plain volume, or none.          *)
LEMMA StepIsPlain ==
    ASSUME ReadInv, [Next]_vars
    PROVE  [Plain!Next]_(Plain!vars)
<1>1. CASE SeekOffset
  <2>1. io' = io
    BY <1>1 DEF SeekOffset
  <2> QED
    BY <1>1, <2>1, SeekIsSeek DEF Failed, Moved, Plain!Next, Plain!Seek, Plain!Fail
<1>2. ASSUME NEW offset \in Nat, NEW size \in Sizes, BeginReadAt(offset, size)
      PROVE  Plain!Seek
  BY <1>2 DEF BeginReadAt, Moved, Plain!Seek
<1>3. CASE ReadBuffer \/ ReadBufferAtOffset
  BY <1>2, <1>3, CallsAssumption DEF ReadInv, ReadBuffer, ReadBufferAtOffset, Plain!Next
<1>4. CASE ReadFails
  BY <1>4 DEF ReadFails, Failed, Plain!Next, Plain!Fail
<1>5. CASE CopySector
  <2> DEFINE copied == buffer \o [i \in 1 .. ReadSize |->
                                      sectorData[sectorDataOffset + i - 1]]
  <2>1. /\ pc = "copy" /\ io' = io
        /\ \/ /\ currentOffset' = currentOffset + Len(copied)
              /\ result' = [count |-> Len(copied), bytes |-> copied]
           \/ UNCHANGED <<currentOffset, result>>
    BY <1>5 DEF CopySector
  <2>2. /\ copied \in Seq(ShownSet)
        /\ Len(copied) <= bufferSize
        /\ \A i \in 1 .. Len(copied) : copied[i] = Shown[currentOffset + i - 1]
    BY <2>1, CopyStep
  <2>3. InLoop /\ currentOffset \in Nat /\ bufferSize \in Nat
    BY <2>1 DEF ReadInv
  <2> HIDE DEF copied
  <2>4. Len(copied) \in Nat
    BY <2>2
  <2>5. copied = Plain!Bytes(currentOffset, Len(copied))
    BY <2>2, <2>3, ShownBytes
  <2>6. PICK size \in Sizes : bufferSize <= size
    BY <2>3 DEF InLoop
  <2>7. Len(copied) \in 0 .. size
    BY <2>2, <2>3, <2>4, <2>6, CallsAssumption
  <2>8. currentOffset + Len(copied) <= io.volumeSize
    <3>1. currentOffset + bufferSize <= io.volumeSize /\ io.volumeSize \in Nat
      BY <2>3, ReadInvIo DEF InLoop
    <3> QED
      BY <2>2, <2>3, <2>4, <3>1
  <2>9. CASE /\ currentOffset' = currentOffset + Len(copied)
             /\ result' = [count |-> Len(copied), bytes |-> copied]
    <3>1. result' = [count |-> Len(copied), bytes |-> Plain!Bytes(currentOffset, Len(copied))]
      BY <2>5, <2>9
    <3>2. Plain!Read
      BY <2>1, <2>7, <2>8, <2>9, <3>1, Zenon DEF Plain!Read
    <3> QED
      BY <3>2 DEF Plain!Next
  <2>10. CASE UNCHANGED <<currentOffset, result>>
    BY <2>1, <2>10 DEF Plain!vars
  <2> QED
    BY <2>1, <2>9, <2>10
<1>6. CASE CacheHit \/ CacheMiss \/ SignalAbort \/ UNCHANGED vars
  BY <1>6 DEF CacheHit, CacheMiss, SignalAbort, vars, Plain!vars
<1> QED
  BY <1>1, <1>3, <1>4, <1>5, <1>6 DEF Next, Loop

(* Reading through sectors and the cache implements reading the volume as  *)
(* one sequence of bytes.                                                  *)
THEOREM ReadingIsPlain == Whole /\ Spec => ReadsPlainVolume
<1>1. Whole /\ Init => ReadInv
  BY InitReadInv
<1>2. ReadInv /\ [Next]_vars => ReadInv'
  BY NextReadInv
<1>3. Init => Plain!Init
  BY DEF Init, Plain!Init
<1>4. ReadInv /\ [Next]_vars => [Plain!Next]_(Plain!vars)
  BY StepIsPlain
<1> QED
  BY <1>1, <1>2, <1>3, <1>4, PTL DEF Spec, ReadsPlainVolume, Plain!Spec
=============================================================================
