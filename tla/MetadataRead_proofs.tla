------------------------ MODULE MetadataRead_proofs ------------------------
(***************************************************************************)
(* What holds of MetadataRead for any volumes whose numbers are numbers,   *)
(* with any entries, and wherever memory runs out.                         *)
(***************************************************************************)
EXTENDS MetadataRead, TLAPS

(* Where the open is, which blocks were read and how far the loop is.      *)
InLoop == pc \in {"entries", "value", "append"}
HasEntry == pc \in {"value", "append"}

Stage ==
    /\ pc \in {"closed", "failed"} => \A i \in Copies : metadata[i] = NotRead
    /\ pc = "block" => \A i \in Copies :
          (metadata[i] # NotRead <=> i < block) /\ (i >= block => position[i] = 0)
    /\ InLoop =>
          /\ \A i \in Copies :
                (metadata[i] # NotRead <=> i <= block) /\ (i > block => position[i] = 0)
          /\ BlockAt(block) # NoBlock
          /\ position[block] <= Len(BlockAt(block).entries)
    /\ HasEntry => metadataEntry = position[block] /\ metadataEntry # 0
    /\ ~HasEntry => metadataEntry = 0

(* The entries of a block lie before the one at hand. *)
EntriesBefore ==
    \A i \in Copies : metadata[i] # NotRead =>
        \A n \in metadata[i].entries :
            n # 0 /\ n <= position[i] /\ (i = block => n # metadataEntry)

(* The first part of EveryStructureOwned, element by element. *)
Accounted ==
    \A s : s \in allocated <=>
        s \in Local \/ \E i \in Copies : metadata[i] # NotRead /\ s \in Structures(i, metadata[i])

(* KeysAsListed of one block, with what was handled of it as a parameter. *)
TypeIn(i, type, handled) == {n \in handled : BlockAt(i).entries[n].type = type}
KindIn(i, kind, handled) ==
    {n \in TypeIn(i, "volume_master_key", handled) : BlockAt(i).entries[n].kind = kind}
StartupIn(i, handled) ==
    {n \in KindIn(i, "startup_key", handled) :
        startupKey # NoIdentifier /\ BlockAt(i).entries[n].identifier = startupKey}

ProtectorsOf(i, m, handled) ==
    /\ IsFirst(m.clearKey, KindIn(i, "clear_key", handled))
    /\ IsFirst(m.password, KindIn(i, "password", handled))
    /\ IsFirst(m.recoveryPassword, KindIn(i, "recovery_password", handled))
    /\ IsFirst(m.startupKey, StartupIn(i, handled))

KeysOf(i, m, handled) ==
    /\ ProtectorsOf(i, m, handled)
    /\ IsFirst(m.fullVolumeEncryptionKey, TypeIn(i, "full_volume_encryption_key", handled))
    /\ IsFirst(m.externalKey, TypeIn(i, "startup_key", handled))
    /\ KeyEntries(m) = TypeIn(i, "volume_master_key", handled)

KeysInv ==
    \A i \in Copies : metadata[i] # NotRead /\ pc \notin {"failing", "failed"} =>
        KeysOf(i, metadata[i], Handled(i))

(* The inductive invariant. *)
IInv == TypeOK /\ volume \in Volumes /\ Stage /\ EntriesBefore /\ Accounted /\ KeysInv

-----------------------------------------------------------------------------
LEMMA KeysInvIsKeysAsListed == KeysInv <=> KeysAsListed
BY DEF KeysInv, KeysAsListed, KeysOf, ProtectorsOf, FirstProtectors, FirstKeys, TypeIn, KindIn,
       StartupIn, OfType, OfKind

LEMMA OwnedFromParts ==
    ASSUME Accounted, EntriesBefore, metadataEntry \in Nat
    PROVE  EveryStructureOwned
<1>1. allocated = Local \union UNION {Owned(i) : i \in Copies}
  BY DEF Accounted, Owned
<1>2. ASSUME NEW i \in Copies, NEW s \in Local, s \in Owned(i) PROVE FALSE
  <2>1. s = <<block, metadataEntry, "entry">> /\ metadataEntry # 0
    BY <1>2 DEF Local
  <2>2. metadata[i] # NotRead /\ s \in Structures(i, metadata[i])
    BY <1>2 DEF Owned
  <2>3. i = block /\ metadataEntry \in metadata[i].entries
    BY <2>1, <2>2 DEF Structures
  <2> QED
    BY <2>2, <2>3 DEF EntriesBefore
<1> QED
  BY <1>1, <1>2 DEF EveryStructureOwned

(* Each structure of a block is named by it. *)
LEMMA StructureForms ==
    ASSUME NEW i, NEW m, NEW s
    PROVE  s \in Structures(i, m) <=>
                \/ s = <<i, 0, "metadata">>
                \/ \E n \in m.entries : s = <<i, n, "entry">>
                \/ \E n \in KeyEntries(m) : s = <<i, n, "value">>
                \/ m.fullVolumeEncryptionKey # 0
                     /\ s = <<i, m.fullVolumeEncryptionKey, "value">>
                \/ m.externalKey # 0 /\ s = <<i, m.externalKey, "value">>
                \/ m.description # 0 /\ s = <<i, m.description, "description">>
BY DEF Structures

LEMMA StructuresApart ==
    ASSUME NEW i, NEW j, NEW m, NEW s, s \in Structures(i, m), i # j
    PROVE  \A n, what : s # <<j, n, what>>
BY StructureForms

(* A first stays the first, and becomes one where there was none. *)
LEMMA FirstExtends ==
    ASSUME NEW n \in Nat \ {0}, NEW S \in SUBSET (1 .. n - 1), NEW slot, IsFirst(slot, S)
    PROVE  /\ IsFirst(IF slot = 0 THEN n ELSE slot, S \union {n})
           /\ slot \in Nat
<1>1. CASE S = {}
  BY <1>1 DEF IsFirst
<1>2. CASE S # {}
  <2>1. slot \in S /\ \A k \in S : slot <= k
    BY <1>2 DEF IsFirst
  <2>2. slot \in 1 .. n - 1
    BY <2>1
  <2>3. \A k \in S \union {n} : slot <= k
    BY <2>1, <2>2
  <2>4. S \union {n} # {} /\ slot \in S \union {n}
    BY <2>1
  <2> QED
    BY <2>2, <2>3, <2>4 DEF IsFirst
<1> QED
  BY <1>1, <1>2

LEMMA AppendedKeys ==
    ASSUME NEW s \in Seq(Nat), NEW n \in Nat
    PROVE  /\ Append(s, n) \in Seq(Nat)
           /\ {Append(s, n)[k] : k \in DOMAIN Append(s, n)} = {s[k] : k \in DOMAIN s} \union {n}
<1>1. Append(s, n) \in Seq(Nat) /\ DOMAIN Append(s, n) = 1 .. Len(s) + 1
      /\ DOMAIN s = 1 .. Len(s) /\ Len(s) \in Nat
  OBVIOUS
<1>2. \A k \in 1 .. Len(s) : Append(s, n)[k] = s[k]
  OBVIOUS
<1>3. Append(s, n)[Len(s) + 1] = n
  OBVIOUS
<1>4. 1 .. Len(s) + 1 = (1 .. Len(s)) \union {Len(s) + 1}
  BY <1>1
<1> DEFINE t == Append(s, n)
<1> HIDE DEF t
<1>5. ASSUME NEW x PROVE x \in {t[k] : k \in DOMAIN t} <=> x \in {s[k] : k \in DOMAIN s} \union {n}
  <2>1. x \in {t[k] : k \in DOMAIN t} <=> \E k \in 1 .. Len(s) + 1 : x = t[k]
    BY <1>1 DEF t
  <2>2. x \in {s[k] : k \in DOMAIN s} <=> \E k \in 1 .. Len(s) : x = s[k]
    BY <1>1
  <2> QED
    BY <2>1, <2>2, <1>2, <1>3, <1>4 DEF t
<1> QED
  BY <1>1, <1>5 DEF t

(* Blocks and their numbers. *)
LEMMA BlockTypes ==
    ASSUME volume \in Volumes, NEW i \in Copies, BlockAt(i) # NoBlock
    PROVE  BlockTyped(BlockAt(i))
BY VolumesAssumption DEF BlockAt, At

LEMMA HeaderOffsetTypes ==
    ASSUME volume \in Volumes
    PROVE  HeaderOffsets(volume.header) \in [Copies -> Nat]
<1>1. /\ volume.header.first \in Nat
      /\ volume.header.second \in Nat
      /\ volume.header.third \in Nat
  BY VolumesAssumption
<1>2. Copies = {1, 2, 3}
  BY DEF Copies
<1> QED
  BY <1>1, <1>2 DEF HeaderOffsets

LEMMA FieldTypes ==
    ASSUME NEW m \in MetadataRecords, NEW n \in Nat
    PROVE  /\ [m EXCEPT !.headerOffset = n] \in MetadataRecords
           /\ [m EXCEPT !.headerSize = n] \in MetadataRecords
           /\ [m EXCEPT !.clearKey = n] \in MetadataRecords
           /\ [m EXCEPT !.startupKey = n] \in MetadataRecords
           /\ [m EXCEPT !.recoveryPassword = n] \in MetadataRecords
           /\ [m EXCEPT !.password = n] \in MetadataRecords
           /\ [m EXCEPT !.fullVolumeEncryptionKey = n] \in MetadataRecords
           /\ [m EXCEPT !.externalKey = n] \in MetadataRecords
           /\ [m EXCEPT !.description = n] \in MetadataRecords
BY DEF MetadataRecords

LEMMA NewTypes == NewMetadata \in MetadataRecords
BY DEF NewMetadata, MetadataRecords

-----------------------------------------------------------------------------
(* What the invariant says in the loop over the entries of a block. *)
LEMMA LoopFacts ==
    ASSUME IInv, InLoop
    PROVE  /\ block \in Copies
           /\ metadata[block] \in MetadataRecords
           /\ metadata[block] # NotRead
           /\ BlockTyped(BlockAt(block))
           /\ position[block] \in 0 .. Len(BlockAt(block).entries)
           /\ metadata \in [Copies -> MetadataRecords \union {NotRead}]
           /\ position \in [Copies -> Nat]
           /\ allocated \subseteq
                Copies \X Nat \X {"metadata", "entry", "value", "description"}
<1>1. block \in Copies /\ metadata \in [Copies -> MetadataRecords \union {NotRead}]
      /\ position \in [Copies -> Nat]
      /\ allocated \subseteq Copies \X Nat \X {"metadata", "entry", "value", "description"}
  BY DEF IInv, TypeOK
<1>2. metadata[block] # NotRead /\ BlockAt(block) # NoBlock
      /\ position[block] <= Len(BlockAt(block).entries)
  BY <1>1 DEF IInv, Stage, Copies
<1>3. BlockTyped(BlockAt(block))
  BY <1>1, <1>2, BlockTypes DEF IInv
<1>4. position[block] \in Nat /\ Len(BlockAt(block).entries) \in Nat
  BY <1>1, <1>3 DEF BlockTyped
<1> QED
  BY <1>1, <1>2, <1>3, <1>4

LEMMA RecordIsRead == ASSUME NEW m \in MetadataRecords PROVE m # NotRead
BY NotReadAssumption

(* The loop fails: what it had in hand and read so far is freed. *)
LEMMA EntriesFailStep ==
    ASSUME IInv, InLoop, NEW m \in MetadataRecords,
           m.entries = metadata[block].entries,
           m.keys = metadata[block].keys,
           m.fullVolumeEncryptionKey = metadata[block].fullVolumeEncryptionKey,
           m.externalKey = metadata[block].externalKey,
           m.description = metadata[block].description,
           EntriesFail(m)
    PROVE  IInv'
<1> DEFINE old == metadata[block]
           new == [m EXCEPT !.entries = {}, !.description = 0]
           gone == Local \union {<<block, n, "entry">> : n \in m.entries}
                         \union {<<block, m.description, "description">>}
<1>1. /\ block \in Copies /\ old \in MetadataRecords /\ old # NotRead
      /\ metadata \in [Copies -> MetadataRecords \union {NotRead}]
  BY LoopFacts
<1>2. /\ pc' = "failing" /\ metadataEntry' = 0
      /\ metadata' = [metadata EXCEPT ![block] = new]
      /\ allocated' = allocated \ gone
      /\ UNCHANGED <<volume, startupKey, offsets, block, position>>
  BY DEF EntriesFail
<1>3. /\ new \in MetadataRecords
      /\ new.entries = {}
      /\ new.description = 0
      /\ new.keys = old.keys
      /\ new.fullVolumeEncryptionKey = old.fullVolumeEncryptionKey
      /\ new.externalKey = old.externalKey
  BY DEF MetadataRecords
<1>4. new # NotRead
  BY <1>3, RecordIsRead
<1> HIDE DEF new
<1>5. /\ metadata'[block] = new
      /\ \A i \in Copies \ {block} : metadata'[i] = metadata[i]
  BY <1>1, <1>2
<1>6. TypeOK'
  <2>1. metadata' \in [Copies -> MetadataRecords \union {NotRead}]
    BY <1>1, <1>2, <1>3
  <2> QED
    BY <2>1, <1>2 DEF IInv, TypeOK
<1>7. volume' \in Volumes
  BY <1>2 DEF IInv
<1>8. Stage'
  BY <1>2 DEF Stage, InLoop, HasEntry
<1>9. EntriesBefore'
  BY <1>2, <1>3, <1>5 DEF IInv, EntriesBefore
<1>10. Accounted'
  <2> SUFFICES ASSUME NEW s
               PROVE  s \in allocated' <=>
                        \E i \in Copies : metadata'[i] # NotRead
                                        /\ s \in Structures(i, metadata'[i])
    BY <1>2 DEF Accounted, Local
  <2>1. s \in Structures(block, new) <=> s \in Structures(block, old) /\ s \notin gone \ Local
    <3>1. KeyEntries(new) = KeyEntries(old)
      BY <1>3 DEF KeyEntries
    <3>2. s \in gone \ Local =>
            \/ \E n \in old.entries : s = <<block, n, "entry">>
            \/ s = <<block, old.description, "description">>
      OBVIOUS
    <3>3. (\E n \in old.entries : s = <<block, n, "entry">>) => s \notin Local
      BY <1>1 DEF IInv, EntriesBefore, Local
    <3>4. s = <<block, old.description, "description">> => s \notin Local
      BY DEF Local
    <3>5. s \in gone \ Local <=>
            \/ \E n \in old.entries : s = <<block, n, "entry">>
            \/ s = <<block, old.description, "description">>
      BY <3>2, <3>3, <3>4
    <3> HIDE DEF gone, old
    <3> QED
      BY <3>1, <3>5, <1>3, StructureForms
  <2>2. s \in Local => s \notin Structures(block, new)
    BY <1>3, StructureForms DEF Local
  <2>3. ASSUME NEW i \in Copies \ {block}, s \in Structures(i, metadata[i]) PROVE s \notin gone
    <3>1. \A n, what : s # <<block, n, what>>
      BY <2>3, StructuresApart
    <3> QED
      BY <3>1 DEF Local
  <2>4. s \in allocated <=>
            s \in Local \/ \E i \in Copies : metadata[i] # NotRead /\ s \in Structures(i, metadata[i])
    BY DEF IInv, Accounted
  <2>5. Local \subseteq gone
    OBVIOUS
  <2> HIDE DEF gone
  <2>6. ASSUME s \in allocated'
        PROVE  \E i \in Copies : metadata'[i] # NotRead /\ s \in Structures(i, metadata'[i])
    <3>1. PICK i \in Copies : metadata[i] # NotRead /\ s \in Structures(i, metadata[i])
      BY <2>4, <2>5, <2>6, <1>2
    <3> QED
      BY <3>1, <2>1, <2>6, <1>1, <1>2, <1>4, <1>5
  <2>7. ASSUME NEW i \in Copies, metadata'[i] # NotRead, s \in Structures(i, metadata'[i])
        PROVE  s \in allocated'
    BY <2>7, <2>1, <2>2, <2>3, <2>4, <2>5, <1>1, <1>2, <1>5
  <2> QED
    BY <2>6, <2>7
<1>11. KeysInv'
  BY <1>2 DEF KeysInv
<1> QED
  BY <1>6, <1>7, <1>8, <1>9, <1>10, <1>11 DEF IInv

-----------------------------------------------------------------------------
(* The value of an entry was read: m is what the block becomes, and what   *)
(* it holds more is what was allocated.                                    *)
LEMMA ValueStep ==
    ASSUME IInv, pc = "value", NEW m \in MetadataRecords,
           NEW kept \in SUBSET {"value", "description"},
           m.entries = metadata[block].entries,
           \A s : s \in Structures(block, m) <=>
                    \/ s \in Structures(block, metadata[block])
                    \/ \E what \in kept : s = <<block, metadataEntry, what>>,
           KeysOf(block, metadata[block], 1 .. metadataEntry - 1)
                => KeysOf(block, m, 1 .. metadataEntry),
           ValueRead(m, kept)
    PROVE  IInv'
<1>1. /\ block \in Copies /\ metadata[block] # NotRead
      /\ metadata \in [Copies -> MetadataRecords \union {NotRead}]
      /\ position \in [Copies -> Nat]
      /\ position[block] \in 0 .. Len(BlockAt(block).entries)
  BY LoopFacts DEF InLoop
<1>2. /\ pc' = "append" /\ metadataEntry' = metadataEntry
      /\ metadata' = [metadata EXCEPT ![block] = m]
      /\ allocated' = allocated \union {<<block, metadataEntry, what>> : what \in kept}
      /\ UNCHANGED <<volume, startupKey, offsets, block, position>>
  BY DEF ValueRead
<1>3. m # NotRead
  BY RecordIsRead
<1>4. /\ metadata'[block] = m
      /\ \A i \in Copies \ {block} : metadata'[i] = metadata[i]
  BY <1>1, <1>2
<1>5. metadataEntry = position[block] /\ metadataEntry \in Nat
  BY <1>1 DEF IInv, Stage, HasEntry
<1>6. TypeOK'
  <2>1. metadata' \in [Copies -> MetadataRecords \union {NotRead}]
    BY <1>1, <1>2
  <2>2. {<<block, metadataEntry, what>> : what \in kept}
            \subseteq Copies \X Nat \X {"metadata", "entry", "value", "description"}
    BY <1>1, <1>5
  <2> QED
    BY <2>1, <2>2, <1>2 DEF IInv, TypeOK
<1>7. volume' \in Volumes
  BY <1>2 DEF IInv
<1>8. Stage'
  <2>1. (BlockAt(block) # NoBlock /\ position[block] <= Len(BlockAt(block).entries))'
    BY <1>1, <1>2 DEF IInv, Stage, InLoop, BlockAt, At
  <2>2. \A i \in Copies : metadata'[i] # NotRead <=> metadata[i] # NotRead
    BY <1>1, <1>3, <1>4
  <2> QED
    BY <2>1, <2>2, <1>2 DEF IInv, Stage, InLoop, HasEntry
<1>9. EntriesBefore'
  BY <1>1, <1>2, <1>4 DEF IInv, EntriesBefore
<1>10. Accounted'
  <2>1. Local' = Local
    BY <1>2 DEF Local
  <2> SUFFICES ASSUME NEW s
               PROVE  s \in allocated' <=>
                        \/ s \in Local
                        \/ \E i \in Copies : metadata'[i] # NotRead
                                        /\ s \in Structures(i, metadata'[i])
    BY <2>1 DEF Accounted
  <2>2. s \in allocated <=>
            s \in Local \/ \E i \in Copies : metadata[i] # NotRead /\ s \in Structures(i, metadata[i])
    BY DEF IInv, Accounted
  <2>3. s \in allocated' <=>
            s \in allocated \/ \E what \in kept : s = <<block, metadataEntry, what>>
    BY <1>2
  <2>4. \A i \in Copies : metadata'[i] # NotRead <=> metadata[i] # NotRead
    BY <1>1, <1>3, <1>4
  <2> QED
    BY <2>2, <2>3, <2>4, <1>1, <1>3, <1>4
<1>11. KeysInv'
  <2> SUFFICES ASSUME NEW i \in Copies, metadata'[i] # NotRead
               PROVE  KeysOf(i, metadata[i], Handled(i))'
    BY DEF KeysInv
  <2>1. CASE i = block
    <3>1. Handled(i) = 1 .. metadataEntry - 1 /\ Handled(i)' = 1 .. metadataEntry
      BY <2>1, <1>2, <1>5 DEF Handled
    <3>2. KeysOf(i, metadata[i], Handled(i))
      BY <2>1, <1>1 DEF IInv, KeysInv
    <3>3. KeysOf(i, m, 1 .. metadataEntry)
      BY <2>1, <3>1, <3>2
    <3>4. KeysOf(i, metadata'[i], Handled(i)')
      BY <2>1, <3>1, <3>3, <1>4
    <3> QED
      BY <3>4, <1>2 DEF KeysOf, ProtectorsOf, TypeIn, KindIn, StartupIn, BlockAt, At
  <2>2. CASE i # block
    <3>1. KeysOf(i, metadata[i], Handled(i))
      BY <2>2, <1>4 DEF IInv, KeysInv
    <3>2. metadata'[i] = metadata[i] /\ Handled(i)' = Handled(i)
      BY <2>2, <1>2, <1>4 DEF Handled
    <3>3. KeysOf(i, metadata'[i], Handled(i)')
      BY <3>1, <3>2
    <3> QED
      BY <3>3, <1>2 DEF KeysOf, ProtectorsOf, TypeIn, KindIn, StartupIn, BlockAt, At
  <2> QED
    BY <2>1, <2>2
<1> QED
  BY <1>6, <1>7, <1>8, <1>9, <1>10, <1>11 DEF IInv

-----------------------------------------------------------------------------
(* The sets of entries that FirstProtectors is about, one entry later. *)
LEMMA HandledExtends ==
    ASSUME IInv, pc = "value"
    PROVE  LET n == metadataEntry
               before == 1 .. n - 1
           IN  /\ n \in Nat \ {0}
               /\ \A type :
                    /\ TypeIn(block, type, before) \subseteq before
                    /\ TypeIn(block, type, 1 .. n) =
                        TypeIn(block, type, before) \union (IF Entry.type = type THEN {n} ELSE {})
               /\ \A kind :
                    /\ KindIn(block, kind, before) \subseteq before
                    /\ KindIn(block, kind, 1 .. n) =
                        KindIn(block, kind, before) \union
                            (IF Entry.type = "volume_master_key" /\ Entry.kind = kind
                             THEN {n} ELSE {})
               /\ StartupIn(block, before) \subseteq before
               /\ StartupIn(block, 1 .. n) =
                    StartupIn(block, before) \union
                        (IF /\ Entry.type = "volume_master_key"
                            /\ Entry.kind = "startup_key"
                            /\ startupKey # NoIdentifier
                            /\ Entry.identifier = startupKey
                         THEN {n} ELSE {})
<1> DEFINE n == metadataEntry
           before == 1 .. n - 1
<1>1. n \in Nat \ {0}
  BY LoopFacts DEF IInv, Stage, InLoop, HasEntry
<1>2. 1 .. n = before \union {n}
  BY <1>1
<1> HIDE DEF n, before
<1>3. Entry = BlockAt(block).entries[n]
  BY DEF Entry, n
<1>4. \A type :
        /\ TypeIn(block, type, before) \subseteq before
        /\ TypeIn(block, type, 1 .. n) =
              TypeIn(block, type, before) \union (IF Entry.type = type THEN {n} ELSE {})
  BY <1>2, <1>3 DEF TypeIn
<1>5. \A kind :
        /\ KindIn(block, kind, before) \subseteq before
        /\ KindIn(block, kind, 1 .. n) =
              KindIn(block, kind, before) \union
                (IF Entry.type = "volume_master_key" /\ Entry.kind = kind THEN {n} ELSE {})
  BY <1>2, <1>3, <1>4 DEF KindIn
<1>6. /\ StartupIn(block, before) \subseteq before
      /\ StartupIn(block, 1 .. n) =
            StartupIn(block, before) \union
                (IF /\ Entry.type = "volume_master_key"
                    /\ Entry.kind = "startup_key"
                    /\ startupKey # NoIdentifier
                    /\ Entry.identifier = startupKey
                 THEN {n} ELSE {})
  BY <1>2, <1>3, <1>5 DEF StartupIn
<1> QED
  BY <1>1, <1>4, <1>5, <1>6 DEF n, before

LEMMA TypeAfter ==
    ASSUME IInv, pc = "value", NEW type
    PROVE  LET before == TypeIn(block, type, 1 .. metadataEntry - 1)
               after == TypeIn(block, type, 1 .. metadataEntry)
           IN  /\ Entry.type = type => after = before \union {metadataEntry}
               /\ Entry.type # type => after = before
BY HandledExtends

(* A pointer to the first of a set that the entry at hand joins. *)
LEMMA FirstAfter ==
    ASSUME metadataEntry \in Nat \ {0}, NEW slot,
           NEW S, S \subseteq 1 .. metadataEntry - 1, IsFirst(slot, S)
    PROVE  IsFirst(First(slot), S \union {metadataEntry})
BY FirstExtends DEF First

(* Entries that are no keys change no pointer to one. *)
LEMMA NoKeyKept ==
    ASSUME IInv, pc = "value", NEW m,
           Entry.type \notin {"volume_master_key", "full_volume_encryption_key", "startup_key"},
           m.keys = metadata[block].keys,
           m.clearKey = metadata[block].clearKey,
           m.startupKey = metadata[block].startupKey,
           m.recoveryPassword = metadata[block].recoveryPassword,
           m.password = metadata[block].password,
           m.fullVolumeEncryptionKey = metadata[block].fullVolumeEncryptionKey,
           m.externalKey = metadata[block].externalKey,
           KeysOf(block, metadata[block], 1 .. metadataEntry - 1)
    PROVE  KeysOf(block, m, 1 .. metadataEntry)
<1>1. /\ \A type \in {"volume_master_key", "full_volume_encryption_key", "startup_key"} :
            TypeIn(block, type, 1 .. metadataEntry)
                = TypeIn(block, type, 1 .. metadataEntry - 1)
      /\ \A kind : KindIn(block, kind, 1 .. metadataEntry)
                        = KindIn(block, kind, 1 .. metadataEntry - 1)
      /\ StartupIn(block, 1 .. metadataEntry) = StartupIn(block, 1 .. metadataEntry - 1)
  BY HandledExtends
<1> QED
  BY <1>1 DEF KeysOf, ProtectorsOf, KeyEntries

(* Which pointer a protector is kept in. *)
LEMMA ProtectorFields ==
    ASSUME NEW old \in MetadataRecords, NEW key, metadataEntry \in Nat
    PROVE  LET m == WithProtector(old, key)
               mine == startupKey # NoIdentifier /\ key.identifier = startupKey
           IN  /\ m \in MetadataRecords
               /\ m.clearKey =
                    (IF key.kind = "clear_key" THEN First(old.clearKey) ELSE old.clearKey)
               /\ m.startupKey =
                    (IF key.kind = "startup_key" /\ mine
                     THEN First(old.startupKey) ELSE old.startupKey)
               /\ m.recoveryPassword =
                    (IF key.kind = "recovery_password"
                     THEN First(old.recoveryPassword) ELSE old.recoveryPassword)
               /\ m.password =
                    (IF key.kind = "password" THEN First(old.password) ELSE old.password)
               /\ m.entries = old.entries
               /\ m.keys = old.keys
               /\ m.fullVolumeEncryptionKey = old.fullVolumeEncryptionKey
               /\ m.externalKey = old.externalKey
               /\ m.description = old.description
<1>1. \A slot \in Nat : First(slot) \in Nat
  BY DEF First
<1> HIDE DEF First
<1> QED
  BY <1>1, SMTT(60) DEF WithProtector, MetadataRecords

(* A volume master key joins the array, and is pointed at when it is the   *)
(* first that its kind of protector can use.                               *)
LEMMA KeepVolumeMasterKeyStep ==
    ASSUME IInv, KeepVolumeMasterKey
    PROVE  IInv'
<1> DEFINE old == metadata[block]
           n == metadataEntry
           p == WithProtector(old, Entry)
           m == WithKey(p)
           mine == startupKey # NoIdentifier /\ Entry.identifier = startupKey
<1>1. pc = "value" /\ Entry.type = "volume_master_key"
  BY DEF KeepVolumeMasterKey, AtValue
<1>2. old \in MetadataRecords /\ n \in Nat \ {0}
  BY <1>1, LoopFacts, HandledExtends DEF InLoop
<1>3. CASE ~KeyReads(Entry, VolumeMasterKeyParts)
  <2>1. EntriesFail(old)
    BY <1>3 DEF KeepVolumeMasterKey
  <2> QED
    BY <2>1, <1>1, <1>2, EntriesFailStep DEF InLoop
<1>4. CASE KeyReads(Entry, VolumeMasterKeyParts)
  <2>1. ValueRead(m, {"value"})
    BY <1>4 DEF KeepVolumeMasterKey
  <2>2. /\ p \in MetadataRecords
        /\ p.clearKey =
                (IF Entry.kind = "clear_key" THEN First(old.clearKey) ELSE old.clearKey)
        /\ p.startupKey =
                (IF Entry.kind = "startup_key" /\ mine
                 THEN First(old.startupKey) ELSE old.startupKey)
        /\ p.recoveryPassword =
                (IF Entry.kind = "recovery_password"
                 THEN First(old.recoveryPassword) ELSE old.recoveryPassword)
        /\ p.password =
                (IF Entry.kind = "password" THEN First(old.password) ELSE old.password)
        /\ p.entries = old.entries
        /\ p.keys = old.keys
        /\ p.fullVolumeEncryptionKey = old.fullVolumeEncryptionKey
        /\ p.externalKey = old.externalKey
        /\ p.description = old.description
    BY <1>2, ProtectorFields
  <2> HIDE DEF p
  <2>3. p.keys \in Seq(Nat) /\ Append(p.keys, n) \in Seq(Nat)
    BY <2>2, <1>2, AppendedKeys DEF MetadataRecords
  <2>4. /\ m \in MetadataRecords
        /\ m.keys = Append(p.keys, n)
        /\ m.entries = p.entries
        /\ m.clearKey = p.clearKey
        /\ m.startupKey = p.startupKey
        /\ m.recoveryPassword = p.recoveryPassword
        /\ m.password = p.password
        /\ m.fullVolumeEncryptionKey = p.fullVolumeEncryptionKey
        /\ m.externalKey = p.externalKey
        /\ m.description = p.description
    BY <2>2, <2>3 DEF WithKey, MetadataRecords
  <2> HIDE DEF m
  <2>5. KeyEntries(m) = KeyEntries(old) \union {n}
    <3>1. p.keys \in Seq(Nat) /\ n \in Nat
      BY <2>3, <1>2
    <3>2. {Append(p.keys, n)[k] : k \in DOMAIN Append(p.keys, n)}
            = {p.keys[k] : k \in DOMAIN p.keys} \union {n}
      BY <3>1, AppendedKeys
    <3> QED
      BY <3>2, <2>2, <2>4 DEF KeyEntries
  <2>6. ASSUME NEW s
        PROVE  s \in Structures(block, m) <=>
                    \/ s \in Structures(block, old)
                    \/ \E what \in {"value"} : s = <<block, n, what>>
    BY <2>2, <2>4, <2>5, StructureForms
  <2>7. ASSUME KeysOf(block, old, 1 .. n - 1) PROVE KeysOf(block, m, 1 .. n)
    <3> DEFINE before == 1 .. n - 1
               hit(kind) == Entry.kind = kind
    <3>1. /\ \A type :
                TypeIn(block, type, 1 .. n) =
                    TypeIn(block, type, before) \union (IF Entry.type = type THEN {n} ELSE {})
          /\ \A kind :
                /\ KindIn(block, kind, before) \subseteq before
                /\ KindIn(block, kind, 1 .. n) =
                    KindIn(block, kind, before) \union (IF hit(kind) THEN {n} ELSE {})
          /\ StartupIn(block, before) \subseteq before
          /\ StartupIn(block, 1 .. n) =
                StartupIn(block, before) \union
                    (IF hit("startup_key") /\ mine THEN {n} ELSE {})
      BY <1>1, HandledExtends
    <3>2. /\ IsFirst(old.clearKey, KindIn(block, "clear_key", before))
          /\ IsFirst(old.password, KindIn(block, "password", before))
          /\ IsFirst(old.recoveryPassword, KindIn(block, "recovery_password", before))
          /\ IsFirst(old.startupKey, StartupIn(block, before))
          /\ IsFirst(old.fullVolumeEncryptionKey,
                     TypeIn(block, "full_volume_encryption_key", before))
          /\ IsFirst(old.externalKey, TypeIn(block, "startup_key", before))
          /\ KeyEntries(old) = TypeIn(block, "volume_master_key", before)
      BY <2>7 DEF KeysOf, ProtectorsOf
    <3> HIDE DEF old, mine, before
    <3>3. IsFirst(p.clearKey, KindIn(block, "clear_key", 1 .. n))
      <4>1. IsFirst(First(old.clearKey), KindIn(block, "clear_key", before) \union {n})
        BY <3>1, <3>2, <1>2, FirstAfter DEF before
      <4>2. KindIn(block, "clear_key", before) \union {} = KindIn(block, "clear_key", before)
        OBVIOUS
      <4> QED
        BY <4>1, <4>2, <3>1, <3>2, <2>2
    <3>4. IsFirst(p.password, KindIn(block, "password", 1 .. n))
      <4>1. IsFirst(First(old.password), KindIn(block, "password", before) \union {n})
        BY <3>1, <3>2, <1>2, FirstAfter DEF before
      <4>2. KindIn(block, "password", before) \union {} = KindIn(block, "password", before)
        OBVIOUS
      <4> QED
        BY <4>1, <4>2, <3>1, <3>2, <2>2
    <3>5. IsFirst(p.recoveryPassword, KindIn(block, "recovery_password", 1 .. n))
      <4>1. IsFirst(First(old.recoveryPassword), KindIn(block, "recovery_password", before) \union {n})
        BY <3>1, <3>2, <1>2, FirstAfter DEF before
      <4>2. KindIn(block, "recovery_password", before) \union {} = KindIn(block, "recovery_password", before)
        OBVIOUS
      <4> QED
        BY <4>1, <4>2, <3>1, <3>2, <2>2
    <3>6. IsFirst(p.startupKey, StartupIn(block, 1 .. n))
      <4>1. IsFirst(First(old.startupKey), StartupIn(block, before) \union {n})
        BY <3>1, <3>2, <1>2, FirstAfter DEF before
      <4>2. StartupIn(block, before) \union {} = StartupIn(block, before)
        OBVIOUS
      <4> QED
        BY <4>1, <4>2, <3>1, <3>2, <2>2 DEF mine
    <3>7. /\ TypeIn(block, "full_volume_encryption_key", 1 .. n)
                = TypeIn(block, "full_volume_encryption_key", before)
          /\ TypeIn(block, "startup_key", 1 .. n) = TypeIn(block, "startup_key", before)
          /\ TypeIn(block, "volume_master_key", 1 .. n)
                = TypeIn(block, "volume_master_key", before) \union {n}
      BY <3>1, <1>1
    <3> QED
      BY <3>2, <3>3, <3>4, <3>5, <3>6, <3>7, <2>2, <2>4, <2>5 DEF KeysOf, ProtectorsOf
  <2> QED
    BY <2>1, <2>2, <2>4, <2>6, <2>7, <1>1, ValueStep
<1> QED
  BY <1>3, <1>4

(* Keeping the first full volume encryption key, or the first key of a     *)
(* startup key file.                                                       *)
LEMMA KeepEncryptedKeyStep ==
    ASSUME IInv, KeepEncryptedKey
    PROVE  IInv'
<1> DEFINE old == metadata[block]
           n == metadataEntry
           before == 1 .. n - 1
           m == [old EXCEPT !.fullVolumeEncryptionKey = n]
<1>1. pc = "value" /\ Entry.type \in {"full_volume_encryption_key", "other_key"}
  BY DEF KeepEncryptedKey, AtValue
<1>2. old \in MetadataRecords /\ n \in Nat \ {0} /\ old.fullVolumeEncryptionKey \in Nat
  BY <1>1, LoopFacts, HandledExtends DEF InLoop, MetadataRecords
<1>3. CASE ~Entry.fits
  <2>1. EntriesFail(old)
    BY <1>3 DEF KeepEncryptedKey
  <2> QED
    BY <2>1, <1>1, <1>2, EntriesFailStep DEF InLoop
<1>4. CASE /\ Entry.fits
           /\ Entry.type = "full_volume_encryption_key"
           /\ old.fullVolumeEncryptionKey = 0
  <2>1. ValueRead(m, {"value"})
    BY <1>4 DEF KeepEncryptedKey, First
  <2>2. /\ m \in MetadataRecords
        /\ m.fullVolumeEncryptionKey = n
        /\ m.entries = old.entries
        /\ m.keys = old.keys
        /\ m.clearKey = old.clearKey
        /\ m.startupKey = old.startupKey
        /\ m.recoveryPassword = old.recoveryPassword
        /\ m.password = old.password
        /\ m.externalKey = old.externalKey
        /\ m.description = old.description
    BY <1>2 DEF MetadataRecords
  <2> HIDE DEF m
  <2>3. KeyEntries(m) = KeyEntries(old)
    BY <2>2 DEF KeyEntries
  <2>4. ASSUME NEW s
        PROVE  s \in Structures(block, m) <=>
                    \/ s \in Structures(block, old)
                    \/ \E what \in {"value"} : s = <<block, n, what>>
    BY <2>2, <2>3, <1>2, <1>4, StructureForms
  <2>5. ASSUME KeysOf(block, old, before) PROVE KeysOf(block, m, 1 .. n)
    <3>1. /\ \A type :
                TypeIn(block, type, 1 .. n) =
                    TypeIn(block, type, before) \union (IF Entry.type = type THEN {n} ELSE {})
          /\ \A kind : KindIn(block, kind, 1 .. n) = KindIn(block, kind, before)
          /\ StartupIn(block, 1 .. n) = StartupIn(block, before)
          /\ TypeIn(block, "full_volume_encryption_key", before) \subseteq before
      BY <1>1, HandledExtends
    <3>2. /\ TypeIn(block, "volume_master_key", 1 .. n) = TypeIn(block, "volume_master_key", before)
          /\ TypeIn(block, "startup_key", 1 .. n) = TypeIn(block, "startup_key", before)
          /\ TypeIn(block, "full_volume_encryption_key", 1 .. n)
                = TypeIn(block, "full_volume_encryption_key", before) \union {n}
      BY <1>1, <1>4, TypeAfter
    <3>3. IsFirst(old.fullVolumeEncryptionKey,
                  TypeIn(block, "full_volume_encryption_key", before))
      BY <2>5 DEF KeysOf
    <3>4. IsFirst(First(old.fullVolumeEncryptionKey),
                  TypeIn(block, "full_volume_encryption_key", before) \union {n})
      BY <3>1, <3>3, <1>2, FirstAfter
    <3>5. First(old.fullVolumeEncryptionKey) = n
      BY <1>4 DEF First
    <3> QED
      BY <2>5, <2>2, <2>3, <3>1, <3>2, <3>4, <3>5 DEF KeysOf, ProtectorsOf
  <2> QED
    BY <2>1, <2>2, <2>4, <2>5, <1>1, ValueStep
<1>5. CASE /\ Entry.fits
           /\ ~(/\ Entry.type = "full_volume_encryption_key"
                /\ old.fullVolumeEncryptionKey = 0)
  <2>1. ValueRead(old, {})
    BY <1>5 DEF KeepEncryptedKey
  <2>2. ASSUME KeysOf(block, old, before) PROVE KeysOf(block, old, 1 .. n)
    <3>1. CASE Entry.type = "other_key"
      BY <3>1, <2>2, <1>1, NoKeyKept
    <3>2. CASE Entry.type = "full_volume_encryption_key" /\ old.fullVolumeEncryptionKey # 0
      <4>1. /\ \A type :
                TypeIn(block, type, 1 .. n) =
                    TypeIn(block, type, before) \union (IF Entry.type = type THEN {n} ELSE {})
            /\ \A kind : KindIn(block, kind, 1 .. n) = KindIn(block, kind, before)
            /\ StartupIn(block, 1 .. n) = StartupIn(block, before)
            /\ TypeIn(block, "full_volume_encryption_key", before) \subseteq before
        BY <1>1, HandledExtends
      <4>2. /\ TypeIn(block, "volume_master_key", 1 .. n) = TypeIn(block, "volume_master_key", before)
            /\ TypeIn(block, "startup_key", 1 .. n) = TypeIn(block, "startup_key", before)
            /\ TypeIn(block, "full_volume_encryption_key", 1 .. n)
                = TypeIn(block, "full_volume_encryption_key", before) \union {n}
        BY <1>1, <3>2, TypeAfter
      <4>3. IsFirst(old.fullVolumeEncryptionKey,
                    TypeIn(block, "full_volume_encryption_key", before))
        BY <2>2 DEF KeysOf
      <4>4. IsFirst(First(old.fullVolumeEncryptionKey),
                    TypeIn(block, "full_volume_encryption_key", before) \union {n})
        BY <4>1, <4>3, <1>2, FirstAfter
      <4>5. First(old.fullVolumeEncryptionKey) = old.fullVolumeEncryptionKey
        BY <3>2 DEF First
      <4> QED
        BY <2>2, <4>1, <4>2, <4>4, <4>5 DEF KeysOf, ProtectorsOf
    <3> QED
      BY <3>1, <3>2, <1>1, <1>5
  <2> QED
    BY <2>1, <2>2, <1>1, <1>2, ValueStep
<1> QED
  BY <1>3, <1>4, <1>5

LEMMA KeepExternalKeyStep ==
    ASSUME IInv, KeepExternalKey
    PROVE  IInv'
<1> DEFINE old == metadata[block]
           n == metadataEntry
           before == 1 .. n - 1
           m == [old EXCEPT !.externalKey = n]
<1>1. pc = "value" /\ Entry.type = "startup_key"
  BY DEF KeepExternalKey, AtValue
<1>2. old \in MetadataRecords /\ n \in Nat \ {0} /\ old.externalKey \in Nat
  BY <1>1, LoopFacts, HandledExtends DEF InLoop, MetadataRecords
<1>3. CASE ~KeyReads(Entry, ExternalKeyParts)
  <2>1. EntriesFail(old)
    BY <1>3 DEF KeepExternalKey
  <2> QED
    BY <2>1, <1>1, <1>2, EntriesFailStep DEF InLoop
<1>4. /\ \A kind : KindIn(block, kind, 1 .. n) = KindIn(block, kind, before)
      /\ StartupIn(block, 1 .. n) = StartupIn(block, before)
      /\ TypeIn(block, "startup_key", before) \subseteq before
  BY <1>1, HandledExtends
<1>5. /\ TypeIn(block, "volume_master_key", 1 .. n) = TypeIn(block, "volume_master_key", before)
      /\ TypeIn(block, "full_volume_encryption_key", 1 .. n)
            = TypeIn(block, "full_volume_encryption_key", before)
      /\ TypeIn(block, "startup_key", 1 .. n) = TypeIn(block, "startup_key", before) \union {n}
  BY <1>1, TypeAfter
<1>6. ASSUME KeysOf(block, old, before)
      PROVE  IsFirst(First(old.externalKey), TypeIn(block, "startup_key", 1 .. n))
  <2>1. IsFirst(old.externalKey, TypeIn(block, "startup_key", before))
    BY <1>6 DEF KeysOf
  <2> QED
    BY <2>1, <1>2, <1>4, <1>5, FirstAfter
<1>7. CASE KeyReads(Entry, ExternalKeyParts) /\ old.externalKey = 0
  <2>1. ValueRead(m, {"value"})
    BY <1>7 DEF KeepExternalKey, First
  <2>2. /\ m \in MetadataRecords
        /\ m.externalKey = n
        /\ m.entries = old.entries
        /\ m.keys = old.keys
        /\ m.clearKey = old.clearKey
        /\ m.startupKey = old.startupKey
        /\ m.recoveryPassword = old.recoveryPassword
        /\ m.password = old.password
        /\ m.fullVolumeEncryptionKey = old.fullVolumeEncryptionKey
        /\ m.description = old.description
    BY <1>2 DEF MetadataRecords
  <2> HIDE DEF m
  <2>3. KeyEntries(m) = KeyEntries(old)
    BY <2>2 DEF KeyEntries
  <2>4. ASSUME NEW s
        PROVE  s \in Structures(block, m) <=>
                    \/ s \in Structures(block, old)
                    \/ \E what \in {"value"} : s = <<block, n, what>>
    BY <2>2, <2>3, <1>2, <1>7, StructureForms
  <2>5. ASSUME KeysOf(block, old, before) PROVE KeysOf(block, m, 1 .. n)
    <3>1. First(old.externalKey) = n
      BY <1>7 DEF First
    <3> QED
      BY <2>5, <2>2, <2>3, <3>1, <1>4, <1>5, <1>6 DEF KeysOf, ProtectorsOf
  <2> QED
    BY <2>1, <2>2, <2>4, <2>5, <1>1, ValueStep
<1>8. CASE KeyReads(Entry, ExternalKeyParts) /\ old.externalKey # 0
  <2>1. ValueRead(old, {})
    BY <1>8 DEF KeepExternalKey
  <2>2. ASSUME KeysOf(block, old, before) PROVE KeysOf(block, old, 1 .. n)
    <3>1. First(old.externalKey) = old.externalKey
      BY <1>8 DEF First
    <3> QED
      BY <2>2, <3>1, <1>4, <1>5, <1>6 DEF KeysOf, ProtectorsOf
  <2> QED
    BY <2>1, <2>2, <1>1, <1>2, ValueStep
<1> QED
  BY <1>3, <1>7, <1>8

(* What is no key leaves the pointers to keys alone. *)
LEMMA KeepDescriptionStep ==
    ASSUME IInv, KeepDescription
    PROVE  IInv'
<1> DEFINE old == metadata[block]
           n == metadataEntry
           m == [old EXCEPT !.description = n]
<1>1. pc = "value" /\ Entry.type = "description"
  BY DEF KeepDescription, AtValue
<1>2. old \in MetadataRecords /\ n \in Nat \ {0}
  BY <1>1, LoopFacts, HandledExtends DEF InLoop
<1>3. CASE old.description # 0
  <2>1. EntriesFail(old)
    BY <1>3 DEF KeepDescription
  <2> QED
    BY <2>1, <1>1, <1>2, EntriesFailStep DEF InLoop
<1>4. CASE old.description = 0 /\ Entry.size > 0
  <2>1. ValueRead(m, {"description"})
    BY <1>4 DEF KeepDescription
  <2>2. /\ m \in MetadataRecords
        /\ m.description = n
        /\ m.entries = old.entries
        /\ m.keys = old.keys
        /\ m.clearKey = old.clearKey
        /\ m.startupKey = old.startupKey
        /\ m.recoveryPassword = old.recoveryPassword
        /\ m.password = old.password
        /\ m.fullVolumeEncryptionKey = old.fullVolumeEncryptionKey
        /\ m.externalKey = old.externalKey
    BY <1>2 DEF MetadataRecords
  <2> HIDE DEF m
  <2>3. KeyEntries(m) = KeyEntries(old)
    BY <2>2 DEF KeyEntries
  <2>4. ASSUME NEW s
        PROVE  s \in Structures(block, m) <=>
                    \/ s \in Structures(block, old)
                    \/ \E what \in {"description"} : s = <<block, n, what>>
    BY <2>2, <2>3, <1>2, <1>4, StructureForms
  <2>5. KeysOf(block, old, 1 .. n - 1) => KeysOf(block, m, 1 .. n)
    BY <2>2, <1>1, NoKeyKept
  <2> QED
    BY <2>1, <2>2, <2>4, <2>5, <1>1, ValueStep
<1>5. CASE old.description = 0 /\ ~(Entry.size > 0)
  <2>1. ValueRead(old, {})
    BY <1>5 DEF KeepDescription
  <2>2. KeysOf(block, old, 1 .. n - 1) => KeysOf(block, old, 1 .. n)
    BY <1>1, NoKeyKept
  <2> QED
    BY <2>1, <2>2, <1>1, <1>2, ValueStep
<1> QED
  BY <1>3, <1>4, <1>5

LEMMA KeepHeaderSizeStep ==
    ASSUME IInv, KeepHeaderSize
    PROVE  IInv'
<1> DEFINE old == metadata[block]
           n == metadataEntry
           m == [old EXCEPT !.headerSize = Entry.size]
<1>1. pc = "value" /\ Entry.type = "volume_header_block"
  BY DEF KeepHeaderSize, AtValue
<1>2. old \in MetadataRecords /\ n \in Nat \ {0}
  BY <1>1, LoopFacts, HandledExtends DEF InLoop
<1>3. CASE ~(Entry.fits /\ Entry.offset = old.headerOffset)
  <2>1. EntriesFail(old)
    BY <1>3 DEF KeepHeaderSize
  <2> QED
    BY <2>1, <1>1, <1>2, EntriesFailStep DEF InLoop
<1>4. CASE Entry.fits /\ Entry.offset = old.headerOffset
  <2>1. ValueRead(m, {})
    BY <1>4 DEF KeepHeaderSize
  <2>2. Entry.size \in Nat
    <3>1. /\ BlockTyped(BlockAt(block))
          /\ position[block] \in 0 .. Len(BlockAt(block).entries)
      BY <1>1, LoopFacts DEF InLoop
    <3>2. n = position[block]
      BY <1>1 DEF IInv, Stage, HasEntry
    <3>3. n \in DOMAIN BlockAt(block).entries
      BY <3>1, <3>2, <1>2 DEF BlockTyped
    <3> QED
      BY <3>1, <3>3, <1>1, <1>4 DEF BlockTyped, Entry
  <2>3. /\ m \in MetadataRecords
        /\ m.description = old.description
        /\ m.entries = old.entries
        /\ m.keys = old.keys
        /\ m.clearKey = old.clearKey
        /\ m.startupKey = old.startupKey
        /\ m.recoveryPassword = old.recoveryPassword
        /\ m.password = old.password
        /\ m.fullVolumeEncryptionKey = old.fullVolumeEncryptionKey
        /\ m.externalKey = old.externalKey
    BY <1>2, <2>2 DEF MetadataRecords
  <2> HIDE DEF m
  <2>4. KeyEntries(m) = KeyEntries(old)
    BY <2>3 DEF KeyEntries
  <2>5. \A s : s \in Structures(block, m) <=> s \in Structures(block, old)
    BY <2>3, <2>4, StructureForms
  <2>6. KeysOf(block, old, 1 .. n - 1) => KeysOf(block, m, 1 .. n)
    BY <2>3, <1>1, NoKeyKept
  <2> QED
    BY <2>1, <2>3, <2>5, <2>6, <1>1, ValueStep
<1> QED
  BY <1>3, <1>4

LEMMA KeepNothingStep ==
    ASSUME IInv, KeepNothing
    PROVE  IInv'
<1> DEFINE old == metadata[block]
<1>1. /\ pc = "value"
      /\ Entry.type \notin {"volume_master_key", "full_volume_encryption_key", "startup_key"}
      /\ ValueRead(old, {})
  BY DEF KeepNothing
<1>2. old \in MetadataRecords
  BY <1>1, LoopFacts DEF InLoop
<1>3. KeysOf(block, old, 1 .. metadataEntry - 1) => KeysOf(block, old, 1 .. metadataEntry)
  BY <1>1, NoKeyKept
<1> QED
  BY <1>1, <1>2, <1>3, ValueStep

-----------------------------------------------------------------------------
(* The steps of the open around the values. *)
LEMMA InitHolds ==
    ASSUME Init
    PROVE  IInv
<1>1. TypeOK
  BY DEF Init, TypeOK, Copies
<1>2. Accounted
  BY DEF Init, Accounted, Local
<1> QED
  BY <1>1, <1>2 DEF Init, IInv, Stage, EntriesBefore, KeysInv, InLoop, HasEntry

LEMMA ReadHeaderStep ==
    ASSUME IInv, ReadHeader
    PROVE  IInv'
<1>1. /\ pc \in {"closed", "failed"}
      /\ \A i \in Copies : metadata[i] = NotRead
      /\ metadataEntry = 0
  BY DEF IInv, Stage, ReadHeader, HasEntry
<1>2. /\ startupKey' \in Identifiers \union {NoIdentifier}
      /\ block' = 1
      /\ position' = [i \in Copies |-> 0]
      /\ pc' \in {"block", "failing"}
      /\ offsets' \in {offsets, HeaderOffsets(volume.header)}
      /\ UNCHANGED <<volume, metadata, metadataEntry, allocated>>
  BY DEF ReadHeader
<1>3. TypeOK'
  <2>1. HeaderOffsets(volume.header) \in [Copies -> Nat]
    BY HeaderOffsetTypes DEF IInv
  <2>2. offsets' \in [Copies -> Nat]
    BY <2>1, <1>2 DEF IInv, TypeOK
  <2> QED
    BY <2>2, <1>2 DEF IInv, TypeOK, Copies
<1>4. volume' \in Volumes
  BY <1>2 DEF IInv
<1>5. Stage'
  BY <1>1, <1>2 DEF Stage, InLoop, HasEntry, Copies
<1>6. EntriesBefore' /\ KeysInv'
  BY <1>1, <1>2 DEF EntriesBefore, KeysInv
<1>7. Accounted'
  <2>1. Local = {} /\ Local' = {}
    BY <1>1, <1>2 DEF Local
  <2> QED
    BY <2>1, <1>1, <1>2 DEF IInv, Accounted
<1> QED
  BY <1>3, <1>4, <1>5, <1>6, <1>7 DEF IInv

LEMMA FilledTypes ==
    ASSUME IInv, NEW i \in Copies, BlockTyped(BlockAt(i))
    PROVE  Filled(BlockAt(i)) \in [Copies -> Nat]
<1> DEFINE h == BlockAt(i)
<1>1. offsets \in [Copies -> Nat]
  BY DEF IInv, TypeOK
<1>2. h.first \in Nat /\ h.second \in Nat /\ h.third \in Nat
  BY DEF BlockTyped
<1>3. \A k \in Copies : BlockOffsets(h)[k] \in Nat
  BY <1>2 DEF BlockOffsets, Copies
<1> HIDE DEF h
<1> QED
  BY <1>1, <1>3 DEF Filled, h

LEMMA ReadBlockStep ==
    ASSUME IInv, ReadBlock
    PROVE  IInv'
<1> DEFINE h == BlockAt(block)
<1>1. /\ pc = "block"
      /\ block \in Copies
      /\ metadata \in [Copies -> MetadataRecords \union {NotRead}]
      /\ \A i \in Copies :
            (metadata[i] # NotRead <=> i < block) /\ (i >= block => position[i] = 0)
      /\ metadataEntry = 0
  BY DEF IInv, TypeOK, Stage, ReadBlock, HasEntry
<1>2. PICK new \in MetadataRecords :
        /\ metadata' = [metadata EXCEPT ![block] = new]
        /\ new.entries = {} /\ new.keys = << >>
        /\ new.clearKey = 0 /\ new.startupKey = 0
        /\ new.recoveryPassword = 0 /\ new.password = 0
        /\ new.fullVolumeEncryptionKey = 0 /\ new.externalKey = 0
        /\ new.description = 0
  <2>1. CASE BlockHeaderReads(h)
    <3>1. BlockTyped(h)
      BY <2>1, <1>1, BlockTypes DEF BlockHeaderReads, IInv
    <3>2. HeaderOffset(h) \in Nat
      BY <3>1 DEF HeaderOffset, BlockTyped
    <3> DEFINE new == [NewMetadata EXCEPT !.headerOffset = HeaderOffset(h)]
    <3>3. new \in MetadataRecords
      BY <3>2, NewTypes, FieldTypes
    <3>4. /\ new.entries = {} /\ new.keys = << >>
          /\ new.clearKey = 0 /\ new.startupKey = 0
          /\ new.recoveryPassword = 0 /\ new.password = 0
          /\ new.fullVolumeEncryptionKey = 0 /\ new.externalKey = 0
          /\ new.description = 0
      BY DEF NewMetadata
    <3>5. metadata' = [[metadata EXCEPT ![block] = NewMetadata]
                            EXCEPT ![block].headerOffset = HeaderOffset(h)]
      BY <2>1 DEF ReadBlock
    <3>6. metadata' = [metadata EXCEPT ![block] = new]
      <4> HIDE DEF h
      <4> QED
        BY <3>5, <1>1
    <3> HIDE DEF new
    <3> QED
      BY <3>3, <3>4, <3>6
  <2>2. CASE ~BlockHeaderReads(h)
    <3>1. metadata' = [metadata EXCEPT ![block] = NewMetadata]
      BY <2>2 DEF ReadBlock
    <3>2. /\ NewMetadata.entries = {} /\ NewMetadata.keys = << >>
          /\ NewMetadata.clearKey = 0 /\ NewMetadata.startupKey = 0
          /\ NewMetadata.recoveryPassword = 0 /\ NewMetadata.password = 0
          /\ NewMetadata.fullVolumeEncryptionKey = 0 /\ NewMetadata.externalKey = 0
          /\ NewMetadata.description = 0
      BY DEF NewMetadata
    <3> QED
      BY <3>1, <3>2, NewTypes
  <2> QED
    BY <2>1, <2>2
<1>3. /\ allocated' = allocated \union {<<block, 0, "metadata">>}
      /\ UNCHANGED <<volume, startupKey, block, position, metadataEntry>>
      /\ pc' \in {"entries", "failing"}
      /\ pc' = "entries" => h # NoBlock
  BY DEF ReadBlock, BlockHeaderReads
<1>4. offsets' \in [Copies -> Nat]
  <2>1. CASE BlockHeaderReads(h)
    <3>1. BlockTyped(h)
      BY <2>1, <1>1, BlockTypes DEF BlockHeaderReads, IInv
    <3>2. offsets' = Filled(h)
      BY <2>1 DEF ReadBlock
    <3> QED
      BY <3>1, <3>2, <1>1, FilledTypes
  <2>2. CASE ~BlockHeaderReads(h)
    BY <2>2 DEF ReadBlock, IInv, TypeOK
  <2> QED
    BY <2>1, <2>2
<1>5. new # NotRead
  BY RecordIsRead
<1>6. /\ metadata'[block] = new
      /\ \A i \in Copies \ {block} : metadata'[i] = metadata[i]
  BY <1>1, <1>2
<1>7. KeyEntries(new) = {}
  BY <1>2 DEF KeyEntries
<1>8. TypeOK'
  <2>1. metadata' \in [Copies -> MetadataRecords \union {NotRead}]
    BY <1>1, <1>2
  <2>2. allocated' \subseteq Copies \X Nat \X {"metadata", "entry", "value", "description"}
    BY <1>1, <1>3 DEF IInv, TypeOK
  <2> QED
    BY <2>1, <2>2, <1>3, <1>4 DEF IInv, TypeOK
<1>9. volume' \in Volumes
  BY <1>3 DEF IInv
<1>10. Stage'
  <2>1. \A i \in Copies :
            (metadata'[i] # NotRead <=> i <= block) /\ (i > block => position[i] = 0)
    BY <1>1, <1>5, <1>6 DEF Copies
  <2>2. pc' = "entries" => BlockAt(block)' # NoBlock
                            /\ position[block] <= Len(BlockAt(block).entries)'
    <3>1. BlockAt(block)' = h
      BY <1>3 DEF BlockAt, At, HeaderOffsets
    <3>2. ASSUME h # NoBlock PROVE Len(h.entries) \in Nat
      BY <3>2, <1>1, BlockTypes DEF IInv, BlockTyped
    <3>3. position[block] = 0
      BY <1>1 DEF Copies
    <3> QED
      BY <3>1, <3>2, <3>3, <1>3
  <2> QED
    BY <2>1, <2>2, <1>1, <1>3 DEF Stage, InLoop, HasEntry
<1>11. EntriesBefore'
  BY <1>2, <1>3, <1>6 DEF IInv, EntriesBefore
<1>12. Accounted'
  <2>1. Local = {} /\ Local' = {}
    BY <1>1, <1>3 DEF Local
  <2>2. \A s : s \in Structures(block, new) <=> s = <<block, 0, "metadata">>
    BY <1>2, <1>7, StructureForms
  <2>3. \A s : s \in allocated <=>
            \E i \in Copies : metadata[i] # NotRead /\ s \in Structures(i, metadata[i])
    BY <2>1 DEF IInv, Accounted
  <2>4. metadata[block] = NotRead
    BY <1>1 DEF Copies
  <2>5. ASSUME NEW s
        PROVE  s \in allocated' <=>
            \E i \in Copies : metadata'[i] # NotRead /\ s \in Structures(i, metadata'[i])
    BY <2>2, <2>3, <2>4, <1>1, <1>3, <1>5, <1>6
  <2> QED
    BY <2>1, <2>5 DEF Accounted
<1>13. KeysInv'
  <2> SUFFICES ASSUME NEW i \in Copies, metadata'[i] # NotRead, pc' = "entries"
               PROVE  KeysOf(i, metadata[i], Handled(i))'
    BY <1>3 DEF KeysInv
  <2>1. Handled(i)' = 1 .. position[i] /\ Handled(i) = 1 .. position[i]
    BY <1>1, <1>3 DEF Handled
  <2>2. CASE i = block
    <3>1. Handled(i) = {}
      BY <2>1, <2>2, <1>1 DEF Copies
    <3>2. KeysOf(i, new, {})
      BY <1>2, <1>7 DEF KeysOf, ProtectorsOf, TypeIn, KindIn, StartupIn, IsFirst
    <3>3. KeysOf(i, metadata'[i], Handled(i)')
      BY <2>1, <2>2, <3>1, <3>2, <1>6
    <3> QED
      BY <3>3, <1>3 DEF KeysOf, ProtectorsOf, TypeIn, KindIn, StartupIn, BlockAt, At
  <2>3. CASE i # block
    <3>1. KeysOf(i, metadata[i], Handled(i))
      BY <2>3, <1>1, <1>6 DEF IInv, KeysInv
    <3>2. KeysOf(i, metadata'[i], Handled(i)')
      BY <2>1, <2>3, <3>1, <1>6
    <3> QED
      BY <3>2, <1>3 DEF KeysOf, ProtectorsOf, TypeIn, KindIn, StartupIn, BlockAt, At
  <2> QED
    BY <2>2, <2>3
<1> QED
  BY <1>8, <1>9, <1>10, <1>11, <1>12, <1>13 DEF IInv

LEMMA ReadEntryStep ==
    ASSUME IInv, ReadEntry
    PROVE  IInv'
<1> DEFINE next == position[block] + 1
           size == EntrySize(BlockAt(block).entries[next])
           old == metadata[block]
<1>1. pc = "entries" /\ ~AtEnd
  BY DEF ReadEntry
<1>2. /\ block \in Copies /\ old \in MetadataRecords /\ old # NotRead
      /\ position \in [Copies -> Nat]
      /\ position[block] \in 0 .. Len(BlockAt(block).entries)
      /\ Len(BlockAt(block).entries) \in Nat
  BY <1>1, LoopFacts DEF InLoop, BlockTyped
<1>3. size \in {1, -1}
  BY DEF EntrySize
<1>4. CASE size = -1
  <2>1. EntriesFail(old)
    BY <1>4 DEF ReadEntry
  <2> QED
    BY <2>1, <1>1, <1>2, EntriesFailStep DEF InLoop
<1>5. CASE size = 1
  <2>1. /\ pc' = "value" /\ metadataEntry' = next
        /\ position' = [position EXCEPT ![block] = next]
        /\ allocated' = allocated \union {<<block, next, "entry">>}
        /\ UNCHANGED <<volume, startupKey, offsets, block, metadata>>
    BY <1>3, <1>5 DEF ReadEntry
  <2>2. next \in Nat \ {0} /\ next <= Len(BlockAt(block).entries)
    BY <1>1, <1>2 DEF AtEnd
  <2>3. metadataEntry = 0
    BY <1>1 DEF IInv, Stage, HasEntry
  <2> HIDE DEF next
  <2>4. /\ position'[block] = next
        /\ \A i \in Copies \ {block} : position'[i] = position[i]
        /\ position' \in [Copies -> Nat]
    BY <1>2, <2>1, <2>2
  <2>5. TypeOK'
    <3>1. allocated' \subseteq Copies \X Nat \X {"metadata", "entry", "value", "description"}
      BY <1>2, <2>1, <2>2 DEF IInv, TypeOK
    <3> QED
      BY <3>1, <2>1, <2>2, <2>4 DEF IInv, TypeOK
  <2>6. volume' \in Volumes
    BY <2>1 DEF IInv
  <2>7. Stage'
    <3>1. BlockAt(block)' = BlockAt(block)
      BY <2>1 DEF BlockAt, At, HeaderOffsets
    <3>2. \A i \in Copies :
            (metadata[i] # NotRead <=> i <= block) /\ (i > block => position[i] = 0)
      BY <1>1 DEF IInv, Stage, InLoop
    <3>3. \A i \in Copies : i > block => position'[i] = 0
      BY <1>2, <2>4, <3>2 DEF Copies
    <3>4. BlockAt(block) # NoBlock
      BY <1>1 DEF IInv, Stage, InLoop
    <3> QED
      BY <2>1, <2>2, <2>4, <3>1, <3>2, <3>3, <3>4 DEF Stage, InLoop, HasEntry
  <2>8. EntriesBefore'
    <3> SUFFICES ASSUME NEW i \in Copies, metadata[i] # NotRead, NEW n \in metadata[i].entries
                 PROVE  n # 0 /\ n <= position'[i] /\ (i = block => n # next)
      BY <2>1 DEF EntriesBefore
    <3>1. n # 0 /\ n <= position[i]
      BY DEF IInv, EntriesBefore
    <3>2. metadata[i] \in MetadataRecords
      BY DEF IInv, TypeOK
    <3>3. n \in Nat
      BY <3>2 DEF MetadataRecords
    <3>4. position[i] \in Nat /\ (i = block => next = position[i] + 1)
      BY <1>2 DEF next
    <3> QED
      BY <3>1, <3>3, <3>4, <2>4
  <2>9. Accounted'
    <3>1. Local = {} /\ Local' = {<<block, next, "entry">>}
      BY <2>1, <2>2, <2>3 DEF Local
    <3> QED
      BY <3>1, <2>1 DEF IInv, Accounted
  <2>10. KeysInv'
    <3> SUFFICES ASSUME NEW i \in Copies, metadata[i] # NotRead
                 PROVE  KeysOf(i, metadata[i], Handled(i))'
      BY <2>1 DEF KeysInv
    <3>1. KeysOf(i, metadata[i], Handled(i))
      BY <1>1 DEF IInv, KeysInv
    <3>2. Handled(i)' = Handled(i)
      <4>1. CASE i = block
        <5>1. position'[i] - 1 = position[i]
          BY <4>1, <1>2, <2>4 DEF next
        <5> QED
          BY <4>1, <5>1, <1>1, <2>1 DEF Handled
      <4>2. CASE i # block
        BY <4>2, <1>1, <2>1, <2>4 DEF Handled
      <4> QED
        BY <4>1, <4>2
    <3>3. KeysOf(i, metadata'[i], Handled(i)')
      BY <3>1, <3>2, <2>1
    <3> QED
      BY <3>3, <2>1 DEF KeysOf, ProtectorsOf, TypeIn, KindIn, StartupIn, BlockAt, At
  <2> QED
    BY <2>5, <2>6, <2>7, <2>8, <2>9, <2>10 DEF IInv
<1> QED
  BY <1>3, <1>4, <1>5

LEMMA AppendEntryStep ==
    ASSUME IInv, AppendEntry
    PROVE  IInv'
<1> DEFINE old == metadata[block]
           n == metadataEntry
           new == [old EXCEPT !.entries = @ \union {n}]
<1>1. pc = "append"
  BY DEF AppendEntry
<1>2. /\ block \in Copies /\ old \in MetadataRecords /\ old # NotRead
      /\ metadata \in [Copies -> MetadataRecords \union {NotRead}]
      /\ position \in [Copies -> Nat]
  BY <1>1, LoopFacts DEF InLoop
<1>3. n = position[block] /\ n \in Nat \ {0}
  BY <1>1, <1>2 DEF IInv, Stage, HasEntry
<1>4. /\ pc' = "entries" /\ metadataEntry' = 0
      /\ metadata' = [metadata EXCEPT ![block].entries = @ \union {metadataEntry}]
      /\ UNCHANGED <<volume, startupKey, offsets, block, position, allocated>>
  BY DEF AppendEntry
<1>5. metadata' = [metadata EXCEPT ![block] = new]
  BY <1>2, <1>4
<1>6. /\ new \in MetadataRecords
      /\ new.entries = old.entries \union {n}
      /\ new.keys = old.keys
      /\ new.clearKey = old.clearKey
      /\ new.startupKey = old.startupKey
      /\ new.recoveryPassword = old.recoveryPassword
      /\ new.password = old.password
      /\ new.fullVolumeEncryptionKey = old.fullVolumeEncryptionKey
      /\ new.externalKey = old.externalKey
      /\ new.description = old.description
  BY <1>2, <1>3 DEF MetadataRecords
<1> HIDE DEF new
<1>7. new # NotRead /\ KeyEntries(new) = KeyEntries(old)
  BY <1>6, RecordIsRead DEF KeyEntries
<1>8. /\ metadata'[block] = new
      /\ \A i \in Copies \ {block} : metadata'[i] = metadata[i]
  BY <1>2, <1>5
<1>9. TypeOK'
  <2>1. metadata' \in [Copies -> MetadataRecords \union {NotRead}]
    BY <1>2, <1>5, <1>6
  <2> QED
    BY <2>1, <1>4 DEF IInv, TypeOK
<1>10. volume' \in Volumes
  BY <1>4 DEF IInv
<1>11. Stage'
  <2>1. (BlockAt(block) # NoBlock /\ position[block] <= Len(BlockAt(block).entries))'
    BY <1>1, <1>4 DEF IInv, Stage, InLoop, BlockAt, At
  <2>2. \A i \in Copies : metadata'[i] # NotRead <=> metadata[i] # NotRead
    BY <1>2, <1>7, <1>8
  <2> QED
    BY <2>1, <2>2, <1>1, <1>4 DEF IInv, Stage, InLoop, HasEntry
<1>12. EntriesBefore'
  <2> SUFFICES ASSUME NEW i \in Copies, metadata'[i] # NotRead, NEW k \in metadata'[i].entries
               PROVE  k # 0 /\ k <= position[i]
    BY <1>4 DEF EntriesBefore
  <2>1. ASSUME NEW j \in Copies, metadata[j] # NotRead, NEW e \in metadata[j].entries
        PROVE  e # 0 /\ e <= position[j]
    BY <2>1 DEF IInv, EntriesBefore
  <2>2. CASE i # block
    BY <2>1, <2>2, <1>8
  <2>3. CASE i = block /\ k = n
    BY <2>3, <1>2, <1>3
  <2>4. CASE i = block /\ k # n
    <3>1. k \in old.entries
      BY <2>4, <1>6, <1>8
    <3> QED
      BY <2>1, <2>4, <3>1, <1>2
  <2> QED
    BY <2>2, <2>3, <2>4
<1>13. Accounted'
  <2>1. Local = {<<block, n, "entry">>} /\ Local' = {}
    BY <1>3, <1>4 DEF Local
  <2> SUFFICES ASSUME NEW s
               PROVE  s \in allocated <=>
                        \E i \in Copies : metadata'[i] # NotRead
                                        /\ s \in Structures(i, metadata'[i])
    BY <2>1, <1>4 DEF Accounted
  <2>2. s \in Structures(block, new) <=> s \in Structures(block, old) \/ s \in Local
    BY <2>1, <1>6, <1>7, StructureForms
  <2>3. s \in allocated <=>
            s \in Local \/ \E i \in Copies : metadata[i] # NotRead /\ s \in Structures(i, metadata[i])
    BY DEF IInv, Accounted
  <2> QED
    BY <2>2, <2>3, <1>2, <1>7, <1>8
<1>14. KeysInv'
  <2> SUFFICES ASSUME NEW i \in Copies, metadata'[i] # NotRead
               PROVE  KeysOf(i, metadata[i], Handled(i))'
    BY DEF KeysInv
  <2>1. KeysOf(i, metadata[i], Handled(i))
    BY <1>1, <1>2, <1>8 DEF IInv, KeysInv
  <2>2. Handled(i)' = Handled(i)
    BY <1>1, <1>4 DEF Handled
  <2>3. KeysOf(i, metadata'[i], Handled(i)')
    BY <2>1, <2>2, <1>6, <1>7, <1>8 DEF KeysOf, ProtectorsOf
  <2> QED
    BY <2>3, <1>4 DEF KeysOf, ProtectorsOf, TypeIn, KindIn, StartupIn, BlockAt, At
<1> QED
  BY <1>9, <1>10, <1>11, <1>12, <1>13, <1>14 DEF IInv

LEMMA FinishBlockStep ==
    ASSUME IInv, FinishBlock
    PROVE  IInv'
<1> DEFINE old == metadata[block]
           size == HeaderSize(old)
           new == [old EXCEPT !.headerSize = size]
<1>1. pc = "entries" /\ metadataEntry = 0
  BY DEF FinishBlock, IInv, Stage, HasEntry
<1>2. /\ block \in Copies /\ old \in MetadataRecords /\ old # NotRead
      /\ metadata \in [Copies -> MetadataRecords \union {NotRead}]
      /\ BlockTyped(BlockAt(block))
  BY <1>1, LoopFacts DEF InLoop
<1>3. /\ metadata' = [metadata EXCEPT ![block].headerSize = size]
      /\ \/ block < 3 /\ block' = block + 1 /\ pc' = "block"
         \/ ~(block < 3) /\ block' = block /\ pc' \in {"read", "failing"}
      /\ UNCHANGED <<volume, startupKey, offsets, position, metadataEntry, allocated>>
  BY DEF FinishBlock
<1>4. size \in Nat
  <2>1. BlockAt(block).headerSectors \in Nat
    BY <1>2 DEF BlockTyped
  <2>2. BlockAt(block).headerSectors * BytesPerSector \in Nat
    BY <2>1, BytesPerSectorAssumption
  <2>3. old.headerSize \in Nat
    BY <1>2 DEF MetadataRecords
  <2> QED
    BY <2>2, <2>3 DEF HeaderSize
<1> HIDE DEF size
<1>5. metadata' = [metadata EXCEPT ![block] = new]
  BY <1>2, <1>3
<1>6. /\ new \in MetadataRecords
      /\ new.entries = old.entries
      /\ new.keys = old.keys
      /\ new.clearKey = old.clearKey
      /\ new.startupKey = old.startupKey
      /\ new.recoveryPassword = old.recoveryPassword
      /\ new.password = old.password
      /\ new.fullVolumeEncryptionKey = old.fullVolumeEncryptionKey
      /\ new.externalKey = old.externalKey
      /\ new.description = old.description
  BY <1>2, <1>4 DEF MetadataRecords
<1> HIDE DEF new
<1>7. new # NotRead /\ KeyEntries(new) = KeyEntries(old)
  BY <1>6, RecordIsRead DEF KeyEntries
<1>8. /\ metadata'[block] = new
      /\ \A i \in Copies \ {block} : metadata'[i] = metadata[i]
      /\ \A i \in Copies : metadata'[i] # NotRead <=> metadata[i] # NotRead
  BY <1>2, <1>5, <1>7
<1>9. block' \in Copies
  BY <1>2, <1>3 DEF Copies
<1>10. TypeOK'
  <2>1. metadata' \in [Copies -> MetadataRecords \union {NotRead}]
    BY <1>2, <1>5, <1>6
  <2> QED
    BY <2>1, <1>3, <1>9 DEF IInv, TypeOK
<1>11. volume' \in Volumes
  BY <1>3 DEF IInv
<1>12. Stage'
  <2>1. \A i \in Copies :
            (metadata[i] # NotRead <=> i <= block) /\ (i > block => position[i] = 0)
    BY <1>1 DEF IInv, Stage, InLoop
  <2>2. pc' = "block" => \A i \in Copies :
            (metadata'[i] # NotRead <=> i < block') /\ (i >= block' => position[i] = 0)
    BY <2>1, <1>2, <1>3, <1>8 DEF Copies
  <2> QED
    BY <2>2, <1>1, <1>3 DEF Stage, InLoop, HasEntry
<1>13. EntriesBefore'
  <2> SUFFICES ASSUME NEW i \in Copies, metadata'[i] # NotRead, NEW n \in metadata'[i].entries
               PROVE  n # 0 /\ n <= position[i]
    BY <1>1, <1>3 DEF EntriesBefore
  <2> QED
    BY <1>6, <1>8 DEF IInv, EntriesBefore
<1>14. Accounted'
  <2>1. Local = {} /\ Local' = {}
    BY <1>1, <1>3 DEF Local
  <2>2. \A s : s \in Structures(block, new) <=> s \in Structures(block, old)
    BY <1>6, <1>7, StructureForms
  <2> SUFFICES ASSUME NEW s
               PROVE  s \in allocated <=>
                        \E i \in Copies : metadata'[i] # NotRead
                                        /\ s \in Structures(i, metadata'[i])
    BY <2>1, <1>3 DEF Accounted
  <2>3. s \in allocated <=>
            \E i \in Copies : metadata[i] # NotRead /\ s \in Structures(i, metadata[i])
    BY <2>1 DEF IInv, Accounted
  <2> QED
    BY <2>2, <2>3, <1>2, <1>7, <1>8
<1>15. KeysInv'
  <2> SUFFICES ASSUME NEW i \in Copies, metadata'[i] # NotRead
               PROVE  KeysOf(i, metadata[i], Handled(i))'
    BY DEF KeysInv
  <2>1. KeysOf(i, metadata[i], Handled(i))
    BY <1>1, <1>8 DEF IInv, KeysInv
  <2>2. Handled(i)' = Handled(i)
    BY <1>1, <1>3 DEF Handled
  <2>3. KeysOf(i, metadata'[i], Handled(i)')
    BY <2>1, <2>2, <1>6, <1>7, <1>8 DEF KeysOf, ProtectorsOf
  <2> QED
    BY <2>3, <1>3 DEF KeysOf, ProtectorsOf, TypeIn, KindIn, StartupIn, BlockAt, At
<1> QED
  BY <1>10, <1>11, <1>12, <1>13, <1>14, <1>15 DEF IInv

(* The metadata of all blocks is freed, and with it all that there is. *)
LEMMA FreeStep ==
    ASSUME IInv, metadataEntry = 0, FreeMetadata, pc' \in {"closed", "failed"}
    PROVE  IInv'
<1>1. /\ metadata' = [i \in Copies |-> NotRead]
      /\ allocated' = allocated \ UNION {Owned(i) : i \in Copies}
      /\ UNCHANGED <<volume, startupKey, offsets, block, position, metadataEntry>>
  BY DEF FreeMetadata
<1>2. Local = {} /\ Local' = {}
  BY <1>1 DEF Local
<1>3. allocated' = {}
  BY <1>1, <1>2 DEF IInv, Accounted, Owned
<1>4. TypeOK'
  BY <1>1, <1>3 DEF IInv, TypeOK
<1>5. volume' \in Volumes
  BY <1>1 DEF IInv
<1>6. Stage'
  BY <1>1 DEF Stage, InLoop, HasEntry
<1>7. EntriesBefore' /\ KeysInv' /\ Accounted'
  BY <1>1, <1>2, <1>3 DEF EntriesBefore, KeysInv, Accounted
<1> QED
  BY <1>4, <1>5, <1>6, <1>7 DEF IInv

LEMMA OutOfMemoryStep ==
    ASSUME IInv, OutOfMemory
    PROVE  IInv'
<1> DEFINE old == metadata[block]
           p == WithProtector(old, Entry)
<1>1. InLoop
  BY DEF OutOfMemory, InLoop
<1>2. old \in MetadataRecords
  BY <1>1, LoopFacts
<1>3. CASE EntriesFail(old)
  BY <1>1, <1>2, <1>3, EntriesFailStep
<1>4. CASE AtValue({"volume_master_key"}) /\ EntriesFail(p)
  <2>1. pc = "value"
    BY <1>4 DEF AtValue
  <2>2. metadataEntry \in Nat
    BY DEF IInv, TypeOK
  <2>3. /\ p \in MetadataRecords
        /\ p.entries = old.entries
        /\ p.keys = old.keys
        /\ p.fullVolumeEncryptionKey = old.fullVolumeEncryptionKey
        /\ p.externalKey = old.externalKey
        /\ p.description = old.description
    BY <1>2, <2>2, ProtectorFields
  <2> HIDE DEF p
  <2> QED
    BY <1>1, <1>4, <2>3, EntriesFailStep
<1> QED
  BY <1>3, <1>4 DEF OutOfMemory

LEMMA NextStep ==
    ASSUME IInv, Next
    PROVE  IInv'
<1>1. CASE ReadHeader
  BY <1>1, ReadHeaderStep
<1>2. CASE ReadBlock
  BY <1>2, ReadBlockStep
<1>3. CASE ReadEntry
  BY <1>3, ReadEntryStep
<1>4. CASE KeepValue
  BY <1>4, KeepVolumeMasterKeyStep, KeepEncryptedKeyStep, KeepExternalKeyStep,
     KeepDescriptionStep, KeepHeaderSizeStep, KeepNothingStep DEF KeepValue
<1>5. CASE AppendEntry
  BY <1>5, AppendEntryStep
<1>6. CASE FinishBlock
  BY <1>6, FinishBlockStep
<1>7. CASE OpenFails
  BY <1>7, FreeStep DEF OpenFails, IInv, Stage, HasEntry
<1>8. CASE Close
  BY <1>8, FreeStep DEF Close, IInv, Stage, HasEntry
<1>9. CASE OutOfMemory
  BY <1>9, OutOfMemoryStep
<1> QED
  BY <1>1, <1>2, <1>3, <1>4, <1>5, <1>6, <1>7, <1>8, <1>9 DEF Next, Open

LEMMA StutterStep ==
    ASSUME IInv, UNCHANGED vars
    PROVE  IInv'
<1>1. /\ volume' = volume /\ startupKey' = startupKey /\ pc' = pc /\ offsets' = offsets
      /\ block' = block /\ metadata' = metadata /\ position' = position
      /\ metadataEntry' = metadataEntry /\ allocated' = allocated
  BY DEF vars
<1>2. TypeOK' /\ volume' \in Volumes
  BY <1>1 DEF IInv, TypeOK
<1>3. \A i : BlockAt(i)' = BlockAt(i)
  BY <1>1 DEF BlockAt, At
<1>4. BlockAt(block)' = BlockAt(block)
  BY <1>1 DEF BlockAt, At
<1>5. Stage'
  BY <1>1, <1>4 DEF IInv, Stage, InLoop, HasEntry
<1>6. EntriesBefore'
  BY <1>1 DEF IInv, EntriesBefore
<1>7. Accounted'
  <2>1. Local' = Local
    BY <1>1 DEF Local
  <2> QED
    BY <1>1, <2>1 DEF IInv, Accounted
<1>8. KeysInv'
  <2> SUFFICES ASSUME NEW i \in Copies, metadata'[i] # NotRead, pc' \notin {"failing", "failed"}
               PROVE  KeysOf(i, metadata[i], Handled(i))'
    BY DEF KeysInv
  <2>1. KeysOf(i, metadata[i], Handled(i))
    BY <1>1 DEF IInv, KeysInv
  <2>2. Handled(i)' = Handled(i)
    BY <1>1 DEF Handled
  <2>3. KeysOf(i, metadata'[i], Handled(i)')
    BY <1>1, <2>1, <2>2 DEF KeysOf, ProtectorsOf
  <2> QED
    BY <2>3, <1>1 DEF KeysOf, ProtectorsOf, TypeIn, KindIn, StartupIn, BlockAt, At
<1> QED
  BY <1>2, <1>5, <1>6, <1>7, <1>8 DEF IInv

(* The invariant holds of every state of every run. *)
THEOREM Invariant == Spec => []IInv
<1>1. Init => IInv
  BY InitHolds
<1>2. IInv /\ [Next]_vars => IInv'
  BY NextStep, StutterStep
<1> QED
  BY <1>1, <1>2, PTL DEF Spec

(* The types hold for any volumes whose numbers are numbers: no offset and *)
(* no size is read from an entry or a block that is not there.             *)
THEOREM TypesKept == Spec => []TypeOK
<1>1. IInv => TypeOK
  BY DEF IInv
<1> QED
  BY <1>1, Invariant, PTL

(* The library goes by the first key of each kind that a block lists, for  *)
(* lists of any length and order.                                          *)
THEOREM FirstKeysKept == Spec => []KeysAsListed
<1>1. IInv => KeysAsListed
  BY KeysInvIsKeysAsListed DEF IInv
<1> QED
  BY <1>1, Invariant, PTL

(* Nothing is lost and nothing is freed twice, wherever an open fails and  *)
(* wherever the memory runs out in the loop over the entries.              *)
THEOREM NothingLost == Spec => []EveryStructureOwned
<1>1. IInv => EveryStructureOwned
  BY OwnedFromParts DEF IInv, TypeOK
<1> QED
  BY <1>1, Invariant, PTL
=============================================================================
