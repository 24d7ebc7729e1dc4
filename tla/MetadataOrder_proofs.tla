------------------------ MODULE MetadataOrder_proofs ------------------------
(***************************************************************************)
(* What MetadataRead accepts and refuses, for any volumes whose numbers    *)
(* are numbers and any lists of entries.                                   *)
(***************************************************************************)
EXTENDS MetadataRead_proofs

-----------------------------------------------------------------------------
(* A volume whose metadata was read is in order, and one that was refused  *)
(* is not, unless memory ran out.                                          *)

(* The last size that the entries up to one of them give the volume        *)
(* header, and whether there is a description among them.                  *)
LastOf(given) == CHOOSE n \in given : \A k \in given : k <= n

SizeIn(i, handled) ==
    LET given == TypeIn(i, "volume_header_block", handled)
    IN  IF given = {} THEN 0 ELSE BlockAt(i).entries[LastOf(given)].size

DescribedIn(i, handled) ==
    \E n \in TypeIn(i, "description", handled) : BlockAt(i).entries[n].size > 0

(* The block header of a block that was read. Vista's volume header, which *)
(* lacks two of the offsets, gets no further than the first block.         *)
HeaderRead(i) ==
    /\ BlockHeaderReads(BlockAt(i))
    /\ BlockAt(i).inBounds
    /\ Version(volume.header) # "vista" => BlockOffsets(BlockAt(i)) = HeaderOffsets(volume.header)
    /\ metadata[i].headerOffset = HeaderOffset(BlockAt(i))

BlockRead(i) ==
    /\ HeaderRead(i)
    /\ EntriesRead(BlockAt(i))
    /\ metadata[i].headerSize = VolumeHeaderSize(BlockAt(i))

(* What the loop over the entries made of those behind it.                 *)
LoopInv ==
    InLoop =>
        /\ HeaderRead(block)
        /\ \A n \in 1 .. position[block] : BlockAt(block).entries[n].form = "whole"
        /\ \A n \in Handled(block) : ValueReads(BlockAt(block), n)
        /\ metadata[block].headerSize = SizeIn(block, Handled(block))
        /\ metadata[block].description # 0 <=> DescribedIn(block, Handled(block))

OffsetsInv ==
    InLoop \/ pc = "block" =>
        /\ HeaderReads(volume.header)
        /\ Version(volume.header) # "vista" => offsets = HeaderOffsets(volume.header)
        /\ \A i \in Copies : i < block => BlockRead(i)

ReadInv ==
    pc = "read" =>
        /\ HeaderReads(volume.header)
        /\ \A i \in Copies : BlockRead(i)
        /\ PrimaryUsable(metadata[1])

Ordered == InOrder(<<BlockAt(1), BlockAt(2), BlockAt(3)>>, HeaderOffsets(volume.header))

RefusedInv == pc \in {"failing", "failed"} /\ volume \notin Faults => ~Ordered

OrderInv == LoopInv /\ OffsetsInv /\ ReadInv /\ RefusedInv

LEMMA OrderedIs ==
    Ordered <=>
        /\ HeaderReads(volume.header)
        /\ \A i \in Copies :
              /\ BlockHeaderReads(BlockAt(i))
              /\ BlockOffsets(BlockAt(i)) = HeaderOffsets(volume.header)
              /\ BlockAt(i).inBounds
              /\ EntriesRead(BlockAt(i))
        /\ HeaderOffset(BlockAt(1)) # 0 => VolumeHeaderSize(BlockAt(1)) # 0
<1> DEFINE blocks == <<BlockAt(1), BlockAt(2), BlockAt(3)>>
<1>1. \A i \in Copies : blocks[i] = BlockAt(i)
  BY DEF Copies
<1>2. blocks[1] = BlockAt(1)
  OBVIOUS
<1>3. Ordered <=> InOrder(blocks, HeaderOffsets(volume.header))
  BY DEF Ordered
<1> HIDE DEF blocks
<1> QED
  BY <1>1, <1>2, <1>3 DEF InOrder

(* Where Vista's volume header has no offset there is no block. *)
LEMMA VistaHasNoSecond ==
    ASSUME volume \in Volumes, Version(volume.header) = "vista"
    PROVE  /\ 2 \in Copies
           /\ ~BlockHeaderReads(BlockAt(2))
<1>1. 2 \in Copies
  BY DEF Copies
<1>2. HeaderOffsets(volume.header)[2] = 0
  BY <1>1 DEF HeaderOffsets
<1>3. BlockAt(2) = NoBlock
  BY <1>2, VolumesAssumption DEF BlockAt, At
<1> QED
  BY <1>1, <1>3 DEF BlockHeaderReads

LEMMA VistaIsNotOrdered ==
    ASSUME volume \in Volumes, Version(volume.header) = "vista"
    PROVE  ~Ordered
BY OrderedIs, VistaHasNoSecond

(* The file does not change, and what is said of it neither. *)
LEMMA SameVolume ==
    ASSUME volume' = volume
    PROVE  /\ \A i : BlockAt(i)' = BlockAt(i)
           /\ Ordered' <=> Ordered
           /\ \A i, handled :
                /\ SizeIn(i, handled)' = SizeIn(i, handled)
                /\ DescribedIn(i, handled)' <=> DescribedIn(i, handled)
<1>1. \A i : BlockAt(i)' = BlockAt(i)
  BY DEF BlockAt, At
<1>2. Ordered' <=> Ordered
  BY <1>1 DEF Ordered, InOrder
<1>3. ASSUME NEW i, NEW handled
      PROVE  /\ SizeIn(i, handled)' = SizeIn(i, handled)
             /\ DescribedIn(i, handled)' <=> DescribedIn(i, handled)
  <2>1. \A type : TypeIn(i, type, handled)' = TypeIn(i, type, handled)
    BY <1>1 DEF TypeIn
  <2>2. SizeIn(i, handled)' = SizeIn(i, handled)
    BY <1>1, <2>1 DEF SizeIn
  <2>3. DescribedIn(i, handled)' <=> DescribedIn(i, handled)
    BY <1>1, <2>1 DEF DescribedIn
  <2> QED
    BY <2>2, <2>3
<1> QED
  BY <1>1, <1>2, <1>3

LEMMA HeaderStays ==
    ASSUME volume' = volume, NEW i \in Copies, HeaderRead(i),
           metadata'[i].headerOffset = metadata[i].headerOffset
    PROVE  HeaderRead(i)'
BY SameVolume DEF HeaderRead

LEMMA BlockStays ==
    ASSUME volume' = volume, NEW i \in Copies, BlockRead(i), metadata'[i] = metadata[i]
    PROVE  BlockRead(i)'
BY SameVolume, HeaderStays DEF BlockRead

(* Failing in the loop over the entries, when one cannot be read or memory *)
(* ran out.                                                                *)
LEMMA FailKeepsOrder ==
    ASSUME IInv, OrderInv, InLoop, NEW m, EntriesFail(m), volume \notin Faults => ~Ordered
    PROVE  OrderInv'
<1>1. /\ pc' = "failing" /\ volume' = volume
      /\ metadata' = [metadata EXCEPT ![block] = [m EXCEPT !.entries = {}, !.description = 0]]
  BY DEF EntriesFail
<1>2. LoopInv' /\ OffsetsInv' /\ ReadInv'
  BY <1>1 DEF LoopInv, OffsetsInv, ReadInv, InLoop
<1>3. RefusedInv'
  BY <1>1, SameVolume DEF RefusedInv
<1> QED
  BY <1>2, <1>3 DEF OrderInv

LEMMA UnreadEntry ==
    ASSUME IInv, NEW n \in Listed(BlockAt(block).entries), block \in Copies,
           ~(BlockAt(block).entries[n].form = "whole" /\ ValueReads(BlockAt(block), n))
    PROVE  ~Ordered
BY OrderedIs DEF EntriesRead

-----------------------------------------------------------------------------
(* The value at hand                                                       *)

LEMMA ValuePlace ==
    ASSUME IInv, OrderInv, HasEntry
    PROVE  /\ block \in Copies
           /\ metadataEntry = position[block]
           /\ metadataEntry \in Nat \ {0}
           /\ metadataEntry \in Listed(BlockAt(block).entries)
           /\ metadataEntry \in DOMAIN BlockAt(block).entries
           /\ BlockAt(block) # NoBlock
<1>1. InLoop
  BY DEF HasEntry, InLoop
<1>2. /\ block \in Copies /\ BlockTyped(BlockAt(block))
      /\ position[block] \in 0 .. Len(BlockAt(block).entries)
  BY <1>1, LoopFacts
<1>3. metadataEntry = position[block] /\ metadataEntry # 0 /\ BlockAt(block) # NoBlock
  BY <1>1 DEF IInv, Stage
<1>4. metadataEntry \in 1 .. Len(BlockAt(block).entries) /\ Len(BlockAt(block).entries) \in Nat
  BY <1>2, <1>3 DEF BlockTyped
<1>5. \A n \in 1 .. metadataEntry : BlockAt(block).entries[n].form # "empty"
  BY <1>1, <1>3 DEF OrderInv, LoopInv
<1> QED
  BY <1>2, <1>3, <1>4, <1>5 DEF Listed, BlockTyped

LEMMA LastIs ==
    ASSUME NEW S \in SUBSET Nat, NEW n \in S, \A k \in S : k <= n
    PROVE  LastOf(S) = n
<1>1. LastOf(S) \in S /\ \A k \in S : k <= LastOf(S)
  BY DEF LastOf
<1>2. LastOf(S) <= n /\ n <= LastOf(S) /\ LastOf(S) \in Nat
  BY <1>1
<1> QED
  BY <1>2

(* What the entry at hand adds. *)
LEMMA SizeAfter ==
    ASSUME IInv, pc = "value"
    PROVE  SizeIn(block, 1 .. metadataEntry) =
                IF Entry.type = "volume_header_block"
                THEN Entry.size ELSE SizeIn(block, 1 .. metadataEntry - 1)
<1> DEFINE n == metadataEntry
           before == TypeIn(block, "volume_header_block", 1 .. n - 1)
           after == TypeIn(block, "volume_header_block", 1 .. n)
<1>1. n \in Nat \ {0} /\ before \subseteq 1 .. n - 1
  BY HandledExtends
<1>2. /\ Entry.type = "volume_header_block" => after = before \union {n}
      /\ Entry.type # "volume_header_block" => after = before
  BY TypeAfter
<1>3. /\ SizeIn(block, 1 .. n) =
            (IF after = {} THEN 0 ELSE BlockAt(block).entries[LastOf(after)].size)
      /\ SizeIn(block, 1 .. n - 1) =
            (IF before = {} THEN 0 ELSE BlockAt(block).entries[LastOf(before)].size)
  BY DEF SizeIn
<1>4. CASE Entry.type # "volume_header_block"
  <2> HIDE DEF after, before, n
  <2> QED
    BY <1>2, <1>3, <1>4 DEF n
<1>5. CASE Entry.type = "volume_header_block"
  <2>1. n \in after /\ after \subseteq Nat /\ \A k \in after : k <= n
    BY <1>1, <1>2, <1>5
  <2> HIDE DEF after, before, n
  <2>2. LastOf(after) = n
    BY <2>1, LastIs
  <2> QED
    BY <2>1, <2>2, <1>3, <1>5 DEF Entry, n
<1> QED
  BY <1>4, <1>5

LEMMA DescribedAfter ==
    ASSUME IInv, pc = "value"
    PROVE  DescribedIn(block, 1 .. metadataEntry) <=>
                \/ DescribedIn(block, 1 .. metadataEntry - 1)
                \/ Entry.type = "description" /\ Entry.size > 0
<1>1. LET before == TypeIn(block, "description", 1 .. metadataEntry - 1)
          after == TypeIn(block, "description", 1 .. metadataEntry)
      IN  /\ Entry.type = "description" => after = before \union {metadataEntry}
          /\ Entry.type # "description" => after = before
  BY TypeAfter
<1> QED
  BY <1>1 DEF DescribedIn, Entry

(* A value that was read, with what is kept of it.                         *)
LEMMA ValueKeepsOrder ==
    ASSUME IInv, OrderInv, pc = "value", NEW m, NEW kept, ValueRead(m, kept),
           ValueReads(BlockAt(block), metadataEntry),
           m.headerOffset = metadata[block].headerOffset,
           m.headerSize = SizeIn(block, 1 .. metadataEntry),
           m.description # 0 <=> DescribedIn(block, 1 .. metadataEntry),
           \A k \in KeyEntries(m) :
                \/ k \in KeyEntries(metadata[block])
                \/ k = metadataEntry /\ Entry.type = "volume_master_key"
    PROVE  OrderInv'
<1>1. /\ pc' = "append" /\ metadata' = [metadata EXCEPT ![block] = m]
      /\ UNCHANGED <<volume, offsets, block, position, metadataEntry>>
  BY DEF ValueRead
<1>2. /\ block \in Copies /\ metadataEntry = position[block]
      /\ metadataEntry \in Nat \ {0}
      /\ metadataEntry \in DOMAIN BlockAt(block).entries /\ BlockAt(block) # NoBlock
  BY ValuePlace DEF HasEntry
<1>3. /\ metadata'[block] = m
      /\ \A i \in Copies \ {block} : metadata'[i] = metadata[i]
      /\ metadata[block] # NotRead
  BY <1>1, <1>2, LoopFacts DEF InLoop
<1>4. /\ \A i : BlockAt(i)' = BlockAt(i)
      /\ \A i, handled :
            /\ SizeIn(i, handled)' = SizeIn(i, handled)
            /\ DescribedIn(i, handled)' <=> DescribedIn(i, handled)
  BY <1>1, SameVolume
<1>5. /\ HeaderRead(block)
      /\ \A n \in 1 .. position[block] : BlockAt(block).entries[n].form = "whole"
      /\ \A n \in 1 .. metadataEntry - 1 : ValueReads(BlockAt(block), n)
  BY <1>2 DEF OrderInv, LoopInv, InLoop, Handled
<1>6. LoopInv'
  <2>1. Handled(block)' = 1 .. metadataEntry
    BY <1>1, <1>2 DEF Handled
  <2>2. \A n \in 1 .. metadataEntry : ValueReads(BlockAt(block), n)
    BY <1>2, <1>5
  <2>3. HeaderRead(block)'
    BY <1>1, <1>2, <1>3, <1>5, HeaderStays DEF HeaderRead
  <2> QED
    BY <2>1, <2>2, <2>3, <1>1, <1>3, <1>4, <1>5 DEF LoopInv
<1>7. OffsetsInv'
  <2>1. ASSUME NEW i \in Copies, i < block PROVE BlockRead(i)'
    BY <2>1, <1>1, <1>2, <1>3, BlockStays DEF OrderInv, OffsetsInv, InLoop, Copies
  <2> QED
    BY <2>1, <1>1 DEF OrderInv, OffsetsInv, InLoop
<1>8. ReadInv' /\ RefusedInv'
  BY <1>1 DEF ReadInv, RefusedInv
<1> QED
  BY <1>6, <1>7, <1>8 DEF OrderInv

(* A value that cannot be read refuses a volume that is not in order. *)
LEMMA BadValueKeepsOrder ==
    ASSUME IInv, OrderInv, pc = "value", EntriesFail(metadata[block]),
           ~ValueReads(BlockAt(block), metadataEntry)
    PROVE  OrderInv'
<1>1. ~Ordered
  BY ValuePlace, UnreadEntry DEF HasEntry
<1> QED
  BY <1>1, FailKeepsOrder DEF InLoop

(* What the loop knows of the block before this value. *)
LEMMA BeforeValue ==
    ASSUME IInv, OrderInv, pc = "value"
    PROVE  /\ metadata[block] \in MetadataRecords
           /\ metadata[block].headerOffset = HeaderOffset(BlockAt(block))
           /\ metadata[block].headerSize = SizeIn(block, 1 .. metadataEntry - 1)
           /\ metadata[block].description # 0 <=> DescribedIn(block, 1 .. metadataEntry - 1)
<1>1. Handled(block) = 1 .. metadataEntry - 1
  BY ValuePlace DEF HasEntry, Handled
<1> QED
  BY <1>1, LoopFacts DEF InLoop, OrderInv, LoopInv, HeaderRead

LEMMA KeepVolumeMasterKeyOrder ==
    ASSUME IInv, OrderInv, KeepVolumeMasterKey
    PROVE  OrderInv'
<1> DEFINE old == metadata[block]
           p == WithProtector(old, Entry)
           m == WithKey(p)
<1>1. pc = "value" /\ Entry.type = "volume_master_key"
  BY DEF KeepVolumeMasterKey, AtValue
<1>2. ValueReads(BlockAt(block), metadataEntry) <=> KeyReads(Entry, VolumeMasterKeyParts)
  BY <1>1 DEF ValueReads, Entry
<1>3. CASE ~KeyReads(Entry, VolumeMasterKeyParts)
  BY <1>1, <1>2, <1>3, BadValueKeepsOrder DEF KeepVolumeMasterKey
<1>4. CASE KeyReads(Entry, VolumeMasterKeyParts)
  <2>1. ValueRead(m, {"value"})
    BY <1>4 DEF KeepVolumeMasterKey
  <2>2. old \in MetadataRecords /\ metadataEntry \in Nat
    BY <1>1, BeforeValue, ValuePlace DEF HasEntry
  <2>3. /\ p \in MetadataRecords /\ p.keys = old.keys
        /\ p.headerOffset = old.headerOffset /\ p.headerSize = old.headerSize
        /\ p.description = old.description
    <3>1. p \in MetadataRecords
      BY <2>2, ProtectorFields
    <3> QED
      BY <2>2, <3>1 DEF WithProtector, MetadataRecords
  <2>4. /\ m.keys = Append(old.keys, metadataEntry) /\ old.keys \in Seq(Nat)
        /\ m.headerOffset = old.headerOffset /\ m.headerSize = old.headerSize
        /\ m.description = old.description
    BY <2>2, <2>3 DEF WithKey, MetadataRecords
  <2> HIDE DEF m
  <2>5. KeyEntries(m) = KeyEntries(old) \union {metadataEntry}
    <3> DEFINE s == old.keys
               n == metadataEntry
    <3>1. s \in Seq(Nat) /\ n \in Nat
      BY <2>2, <2>4
    <3>2. KeyEntries(old) = {s[k] : k \in DOMAIN s}
      BY DEF KeyEntries
    <3>3. KeyEntries(m) = {Append(s, n)[k] : k \in DOMAIN Append(s, n)}
      BY <2>4 DEF KeyEntries
    <3> HIDE DEF s
    <3>4. {Append(s, n)[k] : k \in DOMAIN Append(s, n)} = {s[k] : k \in DOMAIN s} \union {n}
      BY <3>1, AppendedKeys
    <3> HIDE DEF n
    <3> QED
      BY <3>2, <3>3, <3>4 DEF n
  <2> QED
    BY <1>1, <1>2, <1>4, <2>1, <2>4, <2>5, BeforeValue, SizeAfter, DescribedAfter,
       ValueKeepsOrder
<1> QED
  BY <1>3, <1>4

(* Keeping one pointer, or none. *)
LEMMA PointerKeepsOrder ==
    ASSUME IInv, OrderInv, pc = "value", NEW m, NEW kept, ValueRead(m, kept),
           ValueReads(BlockAt(block), metadataEntry),
           Entry.type \notin {"description", "volume_header_block"},
           m.headerOffset = metadata[block].headerOffset,
           m.headerSize = metadata[block].headerSize,
           m.description = metadata[block].description,
           m.keys = metadata[block].keys
    PROVE  OrderInv'
<1>1. KeyEntries(m) = KeyEntries(metadata[block])
  BY DEF KeyEntries
<1> QED
  BY <1>1, BeforeValue, SizeAfter, DescribedAfter, ValueKeepsOrder

LEMMA KeepEncryptedKeyOrder ==
    ASSUME IInv, OrderInv, KeepEncryptedKey
    PROVE  OrderInv'
<1> DEFINE old == metadata[block]
           m == [old EXCEPT !.fullVolumeEncryptionKey = First(@)]
<1>1. pc = "value" /\ Entry.type \in {"full_volume_encryption_key", "other_key"}
  BY DEF KeepEncryptedKey, AtValue
<1>2. ValueReads(BlockAt(block), metadataEntry) <=> Entry.fits
  BY <1>1 DEF ValueReads, Entry
<1>3. CASE ~Entry.fits
  BY <1>1, <1>2, <1>3, BadValueKeepsOrder DEF KeepEncryptedKey
<1>4. CASE Entry.fits
  <2>1. \/ ValueRead(m, {"value"})
        \/ ValueRead(old, {})
    BY <1>4 DEF KeepEncryptedKey
  <2>2. /\ m.headerOffset = old.headerOffset /\ m.headerSize = old.headerSize
        /\ m.description = old.description /\ m.keys = old.keys
    BY <1>1, BeforeValue DEF MetadataRecords
  <2> HIDE DEF m
  <2> QED
    BY <1>1, <1>2, <1>4, <2>1, <2>2, PointerKeepsOrder
<1> QED
  BY <1>3, <1>4

LEMMA KeepExternalKeyOrder ==
    ASSUME IInv, OrderInv, KeepExternalKey
    PROVE  OrderInv'
<1> DEFINE old == metadata[block]
           m == [old EXCEPT !.externalKey = First(@)]
<1>1. pc = "value" /\ Entry.type = "startup_key"
  BY DEF KeepExternalKey, AtValue
<1>2. ValueReads(BlockAt(block), metadataEntry) <=> KeyReads(Entry, ExternalKeyParts)
  BY <1>1 DEF ValueReads, Entry
<1>3. CASE ~KeyReads(Entry, ExternalKeyParts)
  BY <1>1, <1>2, <1>3, BadValueKeepsOrder DEF KeepExternalKey
<1>4. CASE KeyReads(Entry, ExternalKeyParts)
  <2>1. \/ ValueRead(m, {"value"})
        \/ ValueRead(old, {})
    BY <1>4 DEF KeepExternalKey
  <2>2. /\ m.headerOffset = old.headerOffset /\ m.headerSize = old.headerSize
        /\ m.description = old.description /\ m.keys = old.keys
    BY <1>1, BeforeValue DEF MetadataRecords
  <2> HIDE DEF m
  <2> QED
    BY <1>1, <1>2, <1>4, <2>1, <2>2, PointerKeepsOrder
<1> QED
  BY <1>3, <1>4

LEMMA KeepDescriptionOrder ==
    ASSUME IInv, OrderInv, KeepDescription
    PROVE  OrderInv'
<1> DEFINE old == metadata[block]
           n == metadataEntry
           m == [old EXCEPT !.description = n]
<1>1. pc = "value" /\ Entry.type = "description"
  BY DEF KeepDescription, AtValue
<1>2. /\ old \in MetadataRecords /\ n \in Nat \ {0}
      /\ old.headerSize = SizeIn(block, 1 .. n)
      /\ old.description # 0 <=> DescribedIn(block, 1 .. n - 1)
  BY <1>1, BeforeValue, ValuePlace, SizeAfter DEF HasEntry
<1>3. ValueReads(BlockAt(block), n) <=> ~DescribedIn(block, 1 .. n - 1)
  BY <1>1 DEF ValueReads, DescribedIn, TypeIn, Entry
<1>4. CASE old.description # 0
  BY <1>1, <1>2, <1>3, <1>4, BadValueKeepsOrder DEF KeepDescription
<1>5. CASE old.description = 0 /\ Entry.size > 0
  <2>1. ValueRead(m, {"description"})
    BY <1>5 DEF KeepDescription
  <2>2. /\ m.headerOffset = old.headerOffset /\ m.headerSize = old.headerSize
        /\ m.description = n /\ m.keys = old.keys
    BY <1>2 DEF MetadataRecords
  <2> HIDE DEF m
  <2>3. KeyEntries(m) = KeyEntries(old)
    BY <2>2 DEF KeyEntries
  <2>4. DescribedIn(block, 1 .. n)
    BY <1>1, <1>5, DescribedAfter
  <2> QED
    BY <1>1, <1>2, <1>3, <1>5, <2>1, <2>2, <2>3, <2>4, ValueKeepsOrder
<1>6. CASE old.description = 0 /\ ~(Entry.size > 0)
  <2>1. ValueRead(old, {})
    BY <1>6 DEF KeepDescription
  <2>2. ~DescribedIn(block, 1 .. n)
    BY <1>1, <1>2, <1>6, DescribedAfter
  <2> QED
    BY <1>1, <1>2, <1>3, <1>6, <2>1, <2>2, ValueKeepsOrder
<1> QED
  BY <1>4, <1>5, <1>6

LEMMA KeepHeaderSizeOrder ==
    ASSUME IInv, OrderInv, KeepHeaderSize
    PROVE  OrderInv'
<1> DEFINE old == metadata[block]
           n == metadataEntry
           m == [old EXCEPT !.headerSize = Entry.size]
<1>1. pc = "value" /\ Entry.type = "volume_header_block"
  BY DEF KeepHeaderSize, AtValue
<1>2. /\ old \in MetadataRecords
      /\ old.headerOffset = HeaderOffset(BlockAt(block))
      /\ SizeIn(block, 1 .. n) = Entry.size
      /\ old.description # 0 <=> DescribedIn(block, 1 .. n)
  BY <1>1, BeforeValue, SizeAfter, DescribedAfter
<1>3. ValueReads(BlockAt(block), n) <=> Entry.fits /\ Entry.offset = old.headerOffset
  BY <1>1, <1>2 DEF ValueReads, Entry
<1>4. CASE ~(Entry.fits /\ Entry.offset = old.headerOffset)
  BY <1>1, <1>3, <1>4, BadValueKeepsOrder DEF KeepHeaderSize
<1>5. CASE Entry.fits /\ Entry.offset = old.headerOffset
  <2>1. ValueRead(m, {})
    BY <1>5 DEF KeepHeaderSize
  <2>2. /\ m.headerOffset = old.headerOffset /\ m.headerSize = Entry.size
        /\ m.description = old.description /\ m.keys = old.keys
    BY <1>2 DEF MetadataRecords
  <2> HIDE DEF m
  <2>3. KeyEntries(m) = KeyEntries(old)
    BY <2>2 DEF KeyEntries
  <2> QED
    BY <1>1, <1>2, <1>3, <1>5, <2>1, <2>2, <2>3, ValueKeepsOrder
<1> QED
  BY <1>4, <1>5

LEMMA KeepNothingOrder ==
    ASSUME IInv, OrderInv, KeepNothing
    PROVE  OrderInv'
<1>1. /\ pc = "value" /\ ValueRead(metadata[block], {})
      /\ Entry.type \notin {"volume_master_key", "full_volume_encryption_key", "other_key",
                            "startup_key", "description", "volume_header_block"}
  BY DEF KeepNothing
<1>2. ValueReads(BlockAt(block), metadataEntry)
  BY <1>1 DEF ValueReads, Entry
<1> QED
  BY <1>1, <1>2, PointerKeepsOrder

-----------------------------------------------------------------------------
(* The steps around the values                                             *)

LEMMA ReadHeaderOrder ==
    ASSUME IInv, ReadHeader
    PROVE  OrderInv'
<1>1. /\ UNCHANGED <<volume, metadata>> /\ block' = 1
      /\ \A i \in Copies : metadata[i] = NotRead
  BY DEF ReadHeader, IInv, Stage
<1>2. \/ /\ HeaderReads(volume.header) /\ pc' = "block"
         /\ offsets' = HeaderOffsets(volume.header)
      \/ ~HeaderReads(volume.header) /\ pc' = "failing"
  BY DEF ReadHeader
<1>3. LoopInv' /\ ReadInv'
  BY <1>2 DEF LoopInv, ReadInv, InLoop
<1>4. OffsetsInv'
  BY <1>1, <1>2 DEF OffsetsInv, InLoop, Copies
<1>5. RefusedInv'
  BY <1>1, <1>2, SameVolume, OrderedIs DEF RefusedInv
<1> QED
  BY <1>3, <1>4, <1>5 DEF OrderInv

LEMMA ReadBlockOrder ==
    ASSUME IInv, OrderInv, ReadBlock
    PROVE  OrderInv'
<1> DEFINE h == BlockAt(block)
           vista == Version(volume.header) = "vista"
<1>1. /\ pc = "block" /\ block \in Copies
      /\ metadata \in [Copies -> MetadataRecords \union {NotRead}]
      /\ offsets \in [Copies -> Nat]
      /\ position[block] = 0
      /\ HeaderReads(volume.header)
      /\ ~vista => offsets = HeaderOffsets(volume.header)
      /\ \A i \in Copies : i < block => BlockRead(i)
  <2>1. pc = "block"
    BY DEF ReadBlock
  <2> QED
    BY <2>1 DEF IInv, TypeOK, Stage, OrderInv, OffsetsInv, Copies
<1>2. UNCHANGED <<volume, block, position>>
  BY DEF ReadBlock
<1>3. \A i \in Copies \ {block} : metadata'[i] = metadata[i]
  BY <1>1 DEF ReadBlock
<1>4. ReadInv'
  BY DEF ReadBlock, ReadInv
<1>5. ~vista => Filled(h) = HeaderOffsets(volume.header)
  BY <1>1 DEF Filled
<1>6. ~vista => (Agrees(h) <=> BlockOffsets(h) = HeaderOffsets(volume.header))
  <2>1. HeaderOffsets(volume.header) = [i \in Copies |-> HeaderOffsets(volume.header)[i]]
    BY <1>1, HeaderOffsetTypes DEF IInv
  <2>2. BlockOffsets(h) = [i \in Copies |-> BlockOffsets(h)[i]]
    BY DEF BlockOffsets, Copies
  <2> HIDE DEF h
  <2> QED
    BY <1>5, <2>1, <2>2 DEF Agrees
<1>7. CASE pc' = "failing"
  <2>1. LoopInv' /\ OffsetsInv'
    BY <1>7 DEF LoopInv, OffsetsInv, InLoop
  <2>2. ~Ordered
    <3>1. CASE vista
      BY <3>1, VistaIsNotOrdered DEF IInv
    <3>2. CASE ~vista
      <4>1. ~(BlockHeaderReads(h) /\ Agrees(h) /\ h.inBounds)
        BY <1>7 DEF ReadBlock
      <4> QED
        BY <3>2, <4>1, <1>1, <1>6, OrderedIs
    <3> QED
      BY <3>1, <3>2
  <2>3. RefusedInv'
    BY <1>2, <2>2, SameVolume DEF RefusedInv
  <2> QED
    BY <2>1, <2>3, <1>5, <1>4 DEF OrderInv
<1>8. CASE pc' # "failing"
  <2>1. /\ BlockHeaderReads(h) /\ Agrees(h) /\ h.inBounds
        /\ pc' = "entries" /\ offsets' = Filled(h)
        /\ metadata' = [[metadata EXCEPT ![block] = NewMetadata]
                            EXCEPT ![block].headerOffset = HeaderOffset(h)]
    BY <1>8 DEF ReadBlock
  <2>2. /\ metadata'[block].headerOffset = HeaderOffset(h)
        /\ metadata'[block].headerSize = 0
        /\ metadata'[block].description = 0
    <3> HIDE DEF h
    <3> QED
      BY <1>1, <2>1 DEF NewMetadata
  <2>3. HeaderRead(block)'
    BY <1>1, <1>2, <1>6, <2>1, <2>2, SameVolume DEF HeaderRead
  <2>4. LoopInv'
    <3>1. Handled(block)' = {} /\ 1 .. position'[block] = {}
      BY <1>1, <1>2, <2>1 DEF Handled
    <3>2. SizeIn(block, {}) = 0 /\ ~DescribedIn(block, {})
      BY DEF SizeIn, DescribedIn, TypeIn
    <3>3. SizeIn(block, {})' = 0 /\ ~DescribedIn(block, {})'
      BY DEF SizeIn, DescribedIn, TypeIn
    <3> QED
      BY <2>2, <2>3, <3>1, <3>3, <1>2 DEF LoopInv
  <2>5. OffsetsInv'
    <3>1. ASSUME NEW i \in Copies, i < block PROVE BlockRead(i)'
      BY <3>1, <1>1, <1>2, <1>3, BlockStays DEF Copies
    <3> QED
      BY <3>1, <1>1, <1>2, <1>5, <2>1 DEF OffsetsInv
  <2>6. RefusedInv'
    BY <2>1 DEF RefusedInv
  <2> QED
    BY <2>4, <2>5, <2>6, <1>5, <1>4 DEF OrderInv
<1> QED
  BY <1>7, <1>8

LEMMA ReadEntryOrder ==
    ASSUME IInv, OrderInv, ReadEntry
    PROVE  OrderInv'
<1> DEFINE next == position[block] + 1
           entry == BlockAt(block).entries[next]
<1>1. pc = "entries" /\ ~AtEnd
  BY DEF ReadEntry
<1>2. /\ block \in Copies
      /\ position \in [Copies -> Nat]
      /\ position[block] \in 0 .. Len(BlockAt(block).entries)
      /\ Len(BlockAt(block).entries) \in Nat
  BY <1>1, LoopFacts DEF InLoop, BlockTyped
<1>3. /\ HeaderRead(block)
      /\ \A n \in 1 .. position[block] : BlockAt(block).entries[n].form = "whole"
      /\ \A n \in 1 .. position[block] : ValueReads(BlockAt(block), n)
      /\ metadata[block].headerSize = SizeIn(block, 1 .. position[block])
      /\ metadata[block].description # 0 <=> DescribedIn(block, 1 .. position[block])
  BY <1>1 DEF OrderInv, LoopInv, InLoop, Handled
<1>4. CASE entry.form # "whole"
  <2>1. EntriesFail(metadata[block])
    BY <1>4 DEF ReadEntry, EntrySize
  <2>2. next \in 1 .. Len(BlockAt(block).entries) /\ entry.form # "empty"
    BY <1>1, <1>2 DEF AtEnd
  <2>3. \A j \in 1 .. next : BlockAt(block).entries[j].form # "empty"
    <3>1. \A j \in 1 .. next : j \in 1 .. position[block] \/ j = next
      BY <1>2
    <3> QED
      BY <3>1, <1>3, <2>2
  <2>4. next \in Listed(BlockAt(block).entries)
    BY <2>2, <2>3 DEF Listed
  <2>5. ~Ordered
    BY <1>2, <1>4, <2>4, UnreadEntry
  <2> QED
    BY <1>1, <2>1, <2>5, FailKeepsOrder DEF InLoop
<1>5. CASE entry.form = "whole"
  <2>1. /\ pc' = "value"
        /\ position' = [position EXCEPT ![block] = next]
        /\ UNCHANGED <<volume, offsets, block, metadata>>
    BY <1>5 DEF ReadEntry, EntrySize
  <2>2. position'[block] = next /\ Handled(block)' = 1 .. position[block]
    BY <1>2, <2>1 DEF Handled
  <2>3. \A n \in 1 .. next : BlockAt(block).entries[n].form = "whole"
    <3>1. \A n \in 1 .. next : n \in 1 .. position[block] \/ n = next
      BY <1>2
    <3> QED
      BY <3>1, <1>3, <1>5
  <2>4. /\ \A i : BlockAt(i)' = BlockAt(i)
        /\ \A i, handled :
              /\ SizeIn(i, handled)' = SizeIn(i, handled)
              /\ DescribedIn(i, handled)' <=> DescribedIn(i, handled)
    BY <2>1, SameVolume
  <2> HIDE DEF next
  <2>5. LoopInv'
    <3>1. HeaderRead(block)'
      BY <1>2, <1>3, <2>1, HeaderStays DEF HeaderRead
    <3> QED
      BY <3>1, <1>3, <2>1, <2>2, <2>3, <2>4 DEF LoopInv
  <2>6. OffsetsInv'
    <3>1. \A i \in Copies : i < block => BlockRead(i)'
      BY <1>1, <2>1, BlockStays DEF OrderInv, OffsetsInv, InLoop
    <3> QED
      BY <3>1, <1>1, <2>1 DEF OrderInv, OffsetsInv, InLoop
  <2>7. ReadInv' /\ RefusedInv'
    BY <2>1 DEF ReadInv, RefusedInv
  <2> QED
    BY <2>5, <2>6, <2>7 DEF OrderInv
<1> QED
  BY <1>4, <1>5

LEMMA AppendEntryOrder ==
    ASSUME IInv, OrderInv, AppendEntry
    PROVE  OrderInv'
<1> DEFINE old == metadata[block]
           new == [old EXCEPT !.entries = @ \union {metadataEntry}]
<1>1. /\ pc = "append" /\ pc' = "entries"
      /\ metadata' = [metadata EXCEPT ![block] = new]
      /\ UNCHANGED <<volume, offsets, block, position>>
  BY DEF AppendEntry
<1>2. /\ block \in Copies /\ old \in MetadataRecords /\ old # NotRead
      /\ metadata \in [Copies -> MetadataRecords \union {NotRead}]
  BY <1>1, LoopFacts DEF InLoop
<1>3. /\ new.headerOffset = old.headerOffset /\ new.headerSize = old.headerSize
      /\ new.description = old.description /\ new.keys = old.keys
  BY <1>2 DEF MetadataRecords
<1> HIDE DEF new
<1>4. /\ metadata'[block] = new
      /\ \A i \in Copies \ {block} : metadata'[i] = metadata[i]
  BY <1>1, <1>2
<1>5. /\ \A i : BlockAt(i)' = BlockAt(i)
      /\ \A i, handled :
            /\ SizeIn(i, handled)' = SizeIn(i, handled)
            /\ DescribedIn(i, handled)' <=> DescribedIn(i, handled)
  BY <1>1, SameVolume
<1>6. Handled(block) = 1 .. position[block] /\ Handled(block)' = 1 .. position[block]
  BY <1>1 DEF Handled
<1>7. LoopInv'
  <2>1. HeaderRead(block) /\ InLoop
    BY <1>1 DEF OrderInv, LoopInv, InLoop
  <2>2. HeaderRead(block)'
    BY <2>1, <1>1, <1>2, <1>3, <1>4, HeaderStays DEF HeaderRead
  <2> QED
    BY <2>1, <2>2, <1>1, <1>3, <1>4, <1>5, <1>6 DEF OrderInv, LoopInv
<1>8. OffsetsInv'
  <2>1. ASSUME NEW i \in Copies, i < block PROVE BlockRead(i)'
    BY <2>1, <1>1, <1>2, <1>4, BlockStays DEF OrderInv, OffsetsInv, InLoop, Copies
  <2> QED
    BY <2>1, <1>1 DEF OrderInv, OffsetsInv, InLoop
<1>9. ReadInv' /\ RefusedInv'
  BY <1>1 DEF ReadInv, RefusedInv
<1> QED
  BY <1>7, <1>8, <1>9 DEF OrderInv

(* At the end of the loop the block is read and its header has a size.     *)
LEMMA AtEndIsRead ==
    ASSUME IInv, OrderInv, pc = "entries", AtEnd
    PROVE  /\ EntriesRead(BlockAt(block))
           /\ HeaderSize(metadata[block]) = VolumeHeaderSize(BlockAt(block))
<1> DEFINE h == BlockAt(block)
           last == position[block]
<1>1. /\ last \in 0 .. Len(h.entries) /\ Len(h.entries) \in Nat
      /\ \A n \in 1 .. last : h.entries[n].form = "whole"
      /\ \A n \in 1 .. last : ValueReads(h, n)
      /\ metadata[block].headerSize = SizeIn(block, 1 .. last)
  BY LoopFacts DEF InLoop, BlockTyped, OrderInv, LoopInv, Handled
<1>2. \/ last = Len(h.entries)
      \/ last + 1 \in 1 .. Len(h.entries) /\ h.entries[last + 1].form = "empty"
  BY <1>1 DEF AtEnd
<1>3. Listed(h.entries) = 1 .. last
  <2> HIDE DEF h, last
  <2>1. \A n \in 1 .. last : n \in Listed(h.entries)
    <3>1. ASSUME NEW n \in 1 .. last
          PROVE  n \in 1 .. Len(h.entries) /\ \A j \in 1 .. n : j \in 1 .. last
      BY <1>1
    <3> QED
      BY <3>1, <1>1 DEF Listed
  <2>2. ASSUME NEW n \in Listed(h.entries), n \notin 1 .. last PROVE FALSE
    <3>1. n \in 1 .. Len(h.entries) /\ \A j \in 1 .. n : h.entries[j].form # "empty"
      BY DEF Listed
    <3>2. last + 1 \in 1 .. n /\ last # Len(h.entries)
      BY <1>1, <2>2, <3>1
    <3> QED
      BY <3>1, <3>2, <1>2
  <2> QED
    BY <2>1, <2>2
<1>4. EntriesRead(h)
  BY <1>1, <1>3 DEF EntriesRead
<1>5. HeaderSize(metadata[block]) = VolumeHeaderSize(h)
  <2> DEFINE given == TypeIn(block, "volume_header_block", 1 .. last)
             rest == IF h.version = 2 THEN h.headerSectors * BytesPerSector ELSE 0
  <2>1. VolumeHeaderSize(h) =
            IF given # {} /\ h.entries[LastOf(given)].size # 0
            THEN h.entries[LastOf(given)].size ELSE rest
    BY <1>3 DEF VolumeHeaderSize, TypeIn, LastOf
  <2>2. HeaderSize(metadata[block]) =
            IF metadata[block].headerSize # 0 THEN metadata[block].headerSize ELSE rest
    BY DEF HeaderSize
  <2>3. metadata[block].headerSize = IF given = {} THEN 0 ELSE h.entries[LastOf(given)].size
    BY <1>1 DEF SizeIn
  <2> HIDE DEF given, rest, h
  <2> QED
    BY <2>1, <2>2, <2>3
<1> QED
  BY <1>4, <1>5

LEMMA FinishBlockOrder ==
    ASSUME IInv, OrderInv, FinishBlock
    PROVE  OrderInv'
<1> DEFINE h == BlockAt(block)
           old == metadata[block]
           new == [old EXCEPT !.headerSize = HeaderSize(old)]
<1>1. /\ pc = "entries" /\ AtEnd
      /\ metadata' = [metadata EXCEPT ![block] = new]
      /\ UNCHANGED <<volume, offsets, position>>
  BY DEF FinishBlock
<1>2. /\ block \in Copies /\ old \in MetadataRecords /\ old # NotRead
      /\ metadata \in [Copies -> MetadataRecords \union {NotRead}]
  BY <1>1, LoopFacts DEF InLoop
<1>3. /\ HeaderRead(block) /\ HeaderReads(volume.header)
      /\ Version(volume.header) # "vista" => offsets = HeaderOffsets(volume.header)
      /\ \A i \in Copies : i < block => BlockRead(i)
      /\ EntriesRead(h) /\ HeaderSize(old) = VolumeHeaderSize(h)
  BY <1>1, AtEndIsRead DEF OrderInv, LoopInv, OffsetsInv, InLoop
<1>4. /\ new.headerOffset = old.headerOffset /\ new.headerSize = VolumeHeaderSize(h)
      /\ new.keys = old.keys
  BY <1>2, <1>3 DEF MetadataRecords
<1> HIDE DEF new
<1>5. /\ metadata'[block] = new
      /\ \A i \in Copies \ {block} : metadata'[i] = metadata[i]
  BY <1>1, <1>2
<1>6. BlockAt(block)' = h' /\ \A i : BlockAt(i)' = BlockAt(i)
  BY <1>1, SameVolume
<1>7. ASSUME NEW i \in Copies, i <= block PROVE BlockRead(i)'
  <2>1. CASE i = block
    <3>1. HeaderRead(i)'
      BY <2>1, <1>1, <1>3, <1>4, <1>5, HeaderStays
    <3>2. BlockAt(i)' = h /\ metadata'[i].headerSize = VolumeHeaderSize(h)
      BY <2>1, <1>4, <1>5, <1>6
    <3> QED
      BY <3>1, <3>2, <1>3 DEF BlockRead
  <2>2. CASE i # block
    BY <2>2, <1>1, <1>2, <1>3, <1>5, <1>7, BlockStays DEF Copies
  <2> QED
    BY <2>1, <2>2
<1>8. CASE block < 3
  <2>1. pc' = "block" /\ block' = block + 1
    BY <1>8 DEF FinishBlock
  <2>2. OffsetsInv'
    <3>1. ASSUME NEW i \in Copies, i < block' PROVE BlockRead(i)'
      BY <3>1, <2>1, <1>2, <1>7 DEF Copies
    <3> QED
      BY <3>1, <2>1, <1>1, <1>3 DEF OffsetsInv
  <2>3. LoopInv' /\ ReadInv' /\ RefusedInv'
    BY <2>1 DEF LoopInv, ReadInv, RefusedInv, InLoop
  <2> QED
    BY <2>2, <2>3, <1>8 DEF OrderInv
<1>9. CASE ~(block < 3)
  <2>1. block = 3 /\ 1 \in Copies /\ 2 \in Copies
    BY <1>2, <1>9 DEF Copies
  <2>2. pc' = IF PrimaryUsable(metadata[1]) THEN "read" ELSE "failing"
    BY <1>9 DEF FinishBlock
  <2>3. \A i \in Copies : BlockRead(i)'
    BY <2>1, <1>7 DEF Copies
  <2>4. metadata'[1] = metadata[1] /\ BlockRead(1)
    BY <2>1, <1>3, <1>5
  <2>5. LoopInv' /\ OffsetsInv'
    BY <2>2 DEF LoopInv, OffsetsInv, InLoop
  <2>6. ReadInv'
    BY <2>2, <2>3, <2>4, <1>1, <1>3 DEF ReadInv, PrimaryUsable
  <2>7. RefusedInv'
    <3>1. pc' \in {"failing", "failed"} => ~Ordered
      BY <2>2, <2>4, OrderedIs DEF PrimaryUsable, BlockRead, HeaderRead
    <3> QED
      BY <3>1, <1>1, SameVolume DEF RefusedInv
  <2> QED
    BY <2>5, <2>6, <2>7, <1>8 DEF OrderInv
<1> QED
  BY <1>8, <1>9

LEMMA OutOfMemoryOrder ==
    ASSUME IInv, OrderInv, OutOfMemory
    PROVE  OrderInv'
<1> DEFINE old == metadata[block]
           p == WithProtector(old, Entry)
<1>1. InLoop /\ volume \in Faults
  BY DEF OutOfMemory, InLoop
<1>2. CASE EntriesFail(old)
  BY <1>1, <1>2, FailKeepsOrder
<1>3. CASE EntriesFail(p)
  <2>1. p.keys = old.keys
    BY <1>1, LoopFacts, ProtectorFields DEF IInv, TypeOK
  <2> HIDE DEF p
  <2> QED
    BY <1>1, <1>3, <2>1, FailKeepsOrder
<1> QED
  BY <1>2, <1>3 DEF OutOfMemory

LEMMA FreeOrder ==
    ASSUME OrderInv, OpenFails \/ Close
    PROVE  OrderInv'
<1>1. /\ metadata' = [i \in Copies |-> NotRead] /\ volume' = volume
      /\ pc' \in {"closed", "failed"} /\ (pc' = "failed" => pc = "failing")
  BY DEF OpenFails, Close, FreeMetadata
<1>2. LoopInv' /\ OffsetsInv' /\ ReadInv'
  BY <1>1 DEF LoopInv, OffsetsInv, ReadInv, InLoop
<1>3. RefusedInv'
  BY <1>1, SameVolume DEF OrderInv, RefusedInv
<1> QED
  BY <1>2, <1>3 DEF OrderInv

LEMMA NextOrder ==
    ASSUME IInv, OrderInv, Next
    PROVE  OrderInv'
<1>1. CASE KeepValue
  BY <1>1, KeepVolumeMasterKeyOrder, KeepEncryptedKeyOrder, KeepExternalKeyOrder,
     KeepDescriptionOrder, KeepHeaderSizeOrder, KeepNothingOrder DEF KeepValue
<1> QED
  BY <1>1, ReadHeaderOrder, ReadBlockOrder, ReadEntryOrder, AppendEntryOrder,
     FinishBlockOrder, OutOfMemoryOrder, FreeOrder DEF Next, Open

LEMMA StutterOrder ==
    ASSUME OrderInv, UNCHANGED vars
    PROVE  OrderInv'
<1>1. /\ volume' = volume /\ pc' = pc /\ offsets' = offsets /\ block' = block
      /\ metadata' = metadata /\ position' = position
  BY DEF vars
<1>2. /\ \A i : BlockAt(i)' = BlockAt(i)
      /\ Ordered' <=> Ordered
      /\ \A i, handled :
            /\ SizeIn(i, handled)' = SizeIn(i, handled)
            /\ DescribedIn(i, handled)' <=> DescribedIn(i, handled)
  BY <1>1, SameVolume
<1>3. \A i \in Copies : /\ HeaderRead(i)' <=> HeaderRead(i)
                        /\ BlockRead(i)' <=> BlockRead(i)
  BY <1>1, <1>2 DEF HeaderRead, BlockRead
<1>4. LoopInv'
  <2>1. HeaderRead(block)' <=> HeaderRead(block)
    BY <1>1, <1>2 DEF HeaderRead
  <2>2. Handled(block)' = Handled(block)
    BY <1>1 DEF Handled
  <2> QED
    BY <2>1, <2>2, <1>1, <1>2 DEF OrderInv, LoopInv, InLoop
<1>5. OffsetsInv' /\ ReadInv' /\ RefusedInv'
  BY <1>1, <1>2, <1>3 DEF OrderInv, OffsetsInv, ReadInv, RefusedInv, InLoop, PrimaryUsable
<1> QED
  BY <1>4, <1>5 DEF OrderInv

(* What was read is in order as far as the open has come, and what was     *)
(* refused is not.                                                         *)
THEOREM OrderInvariant == Spec => []OrderInv
<1>1. Init => OrderInv
  BY DEF Init, OrderInv, LoopInv, OffsetsInv, ReadInv, RefusedInv, InLoop
<1>2. IInv /\ OrderInv /\ [Next]_vars => OrderInv'
  BY NextOrder, StutterOrder
<1> QED
  BY <1>1, <1>2, Invariant, PTL DEF Spec

(* Opening reads the metadata of exactly the volumes in order, whatever    *)
(* their blocks list and however long: no damaged, misplaced or            *)
(* contradictory copy is accepted, and unless memory runs out nothing else *)
(* is refused.                                                             *)
THEOREM ReadsWhatIsInOrder == Spec => []ReadIffInOrder
<1>1. IInv /\ OrderInv => ReadIffInOrder
  <2> SUFFICES ASSUME IInv, OrderInv PROVE ReadIffInOrder
    OBVIOUS
  <2>1. ASSUME pc = "read"
        PROVE  /\ Ordered
               /\ metadata[1].headerOffset = HeaderOffset(BlockAt(1))
               /\ metadata[1].headerSize = VolumeHeaderSize(BlockAt(1))
    <3>1. /\ HeaderReads(volume.header) /\ PrimaryUsable(metadata[1])
          /\ \A i \in Copies : BlockRead(i)
      BY <2>1 DEF OrderInv, ReadInv
    <3>2. Version(volume.header) # "vista"
      BY <3>1, VistaHasNoSecond DEF IInv, BlockRead, HeaderRead
    <3>3. BlockRead(1)
      BY <3>1 DEF Copies
    <3> QED
      BY <3>1, <3>2, <3>3, OrderedIs DEF BlockRead, HeaderRead, PrimaryUsable
  <2> QED
    BY <2>1 DEF ReadIffInOrder, OrderInv, RefusedInv, Ordered
<1> QED
  BY <1>1, Invariant, OrderInvariant, PTL

(* No volume of Windows Vista is ever read, whatever its blocks say: open  *)
(* looks for the second one at offset 0 (volume.c:1341).                   *)
THEOREM VistaIsNeverRead == Spec => [](Version(volume.header) = "vista" => pc # "read")
<1>1. IInv /\ OrderInv => (Version(volume.header) = "vista" => pc # "read")
  BY VistaHasNoSecond DEF IInv, OrderInv, ReadInv, BlockRead, HeaderRead
<1> QED
  BY <1>1, Invariant, OrderInvariant, PTL
=============================================================================
