--------------------------- MODULE MountCallbacks ---------------------------
(***************************************************************************)
(* What FUSE and Dokan call in bdemount while it serves a volume. A file   *)
(* keeps its entry in fh or Context from open to release; the other        *)
(* callbacks make entries of their own and free them before they return,   *)
(* whatever fails.                                                         *)
(***************************************************************************)
EXTENDS MountTool

VARIABLE answer     \* what the last callback returned

vars == <<common, mounted, answer>>

Asked(kind) == At("serving") /\ binding = kind /\ listing = NoListing
FuseAsks == Asked("fuse") /\ fuse = "inited"
DokanAsks == Asked("dokan")

Unmoved == UNCHANGED <<program, options, control, handle, fileIo, volume, presented,
                       typed, misused, binding, appended, fuse>>

FaultyEntryByPath(path) == VolumeByPath(path, 0)    \* before the append

FaultyEntryByLastPath(path) == VolumeByPath(path, NumberOfVolumes + 1)

(* mount_handle_get_file_entry_by_path *)
EntryByPath(path) == VolumeByPath(path, NumberOfVolumes)

IsEntry(found) == found \notin {NotFound, Failed}

-----------------------------------------------------------------------------
(* Opening, reading and releasing *)

(* An entry is made in the fh or Context of the file when the path has one. *)
OpenEntry(file, path) ==
    /\ entryOf[file] = NoEntry
    /\ \/ /\ Works
          /\ IF IsEntry(EntryByPath(path))
             THEN /\ entryOf' = [entryOf EXCEPT ![file] = EntryByPath(path)]
                  /\ entries' = entries + 1
                  /\ answer' = "ok"
             ELSE UNCHANGED <<entryOf, entries>> /\ answer' = "no_entry"
       \/ /\ Breaks
          /\ answer' = "no_entry"
          /\ UNCHANGED <<entryOf, entries>>
    /\ UNCHANGED listing
    /\ Unmoved

Refuse(file, reason) ==
    /\ entryOf[file] = NoEntry
    /\ answer' = reason
    /\ Works
    /\ UNCHANGED <<entryOf, entries, listing>>
    /\ Unmoved

FuseOpen(file, path) == FuseAsks /\ (OpenEntry(file, path) \/ Refuse(file, "access"))
FuseOpendir(file, path) == FuseAsks /\ OpenEntry(file, path)

(* Write access, FILE_CREATE and every other disposition than opening are  *)
(* refused. CreateFile and OpenDirectory are those of older versions.      *)
DokanZwCreateFile(file, path) ==
    /\ DokanAsks
    /\ \/ OpenEntry(file, path)
       \/ Refuse(file, "protected") \/ Refuse(file, "collision") \/ Refuse(file, "access")

DokanCreateFile(file, path) ==
    DokanAsks /\ (OpenEntry(file, path) \/ Refuse(file, "protected"))

DokanOpenDirectory(file, path) == DokanAsks /\ OpenEntry(file, path)

ReleaseEntry(file) ==
    /\ entryOf[file] # NoEntry
    /\ entryOf' = [entryOf EXCEPT ![file] = NoEntry]
    /\ entries' = entries - 1
    /\ answer' = "ok"
    /\ Works
    /\ UNCHANGED listing
    /\ Unmoved

FuseRelease(file) == FuseAsks /\ ReleaseEntry(file)
FuseReleasedir(file) == FuseAsks /\ ReleaseEntry(file)
DokanCloseFile(file) == DokanAsks /\ ReleaseEntry(file)

(* libbde_volume_read_buffer_at_offset of the entry's volume, which for    *)
(* the root is NULL.                                                       *)
ReadEntry(file) ==
    /\ entryOf[file] # NoEntry
    /\ \/ Works /\ answer' = IF Readable(entryOf[file], volume) THEN "data" ELSE "io_error"
       \/ Breaks /\ answer' = "io_error"
    /\ UNCHANGED <<entryOf, entries, listing>>
    /\ Unmoved

FuseRead(file) == FuseAsks /\ ReadEntry(file)
DokanReadFile(file) == DokanAsks /\ ReadEntry(file)

(* An entry is made for the path, asked for its mode, size and times, and  *)
(* freed.                                                                  *)
Stat(path) ==
    /\ \/ /\ Works
          /\ answer' = IF ~IsEntry(EntryByPath(path)) THEN "no_entry"
                       ELSE IF SizeOf(EntryByPath(path), volume) = "failed" THEN "io_error"
                       ELSE IF IsDirectory(EntryByPath(path)) THEN "directory" ELSE "file"
       \/ Breaks /\ answer' \in {"no_entry", "io_error"}
    /\ UNCHANGED <<entryOf, entries, listing>>
    /\ Unmoved

FuseGetattr(path) == FuseAsks /\ Stat(path)
DokanGetFileInformation(path) == DokanAsks /\ Stat(path)

(* DokanGetVolumeInformation names the drive; nothing depends on it.       *)
DokanGetVolumeInformation ==
    /\ DokanAsks
    /\ answer' = "ok"
    /\ Works
    /\ UNCHANGED <<entryOf, entries, listing>>
    /\ Unmoved

-----------------------------------------------------------------------------
(* Listing a directory *)

(***************************************************************************)
(* A listing under way: the entry that is listed, whether it was made for  *)
(* the listing (Dokan) or is that of the open file (FUSE), the entries and *)
(* the name at hand, the sub entry to come and the names delivered.        *)
(***************************************************************************)
Begin(entry, own) ==
    [at |-> "dot", entry |-> entry, own |-> IF own THEN entry ELSE NoEntry, parent |-> NoEntry, sub |-> NoEntry,
     name |-> FALSE, index |-> 0, filled |-> << >>]

AnyEntry == {NoEntry, Root} \union Nat

Listings ==
    [at : {"dot", "dotdot", "sub", "name"}, entry : AnyEntry, own : AnyEntry,
     parent : AnyEntry, sub : AnyEntry, name : BOOLEAN, index : Nat,
     filled : Seq({".", ".."} \union Seq(Digit))]

ASSUME NoListingAssumption == NoListing \notin Listings

FuseReaddir(file) ==
    /\ FuseAsks
    /\ entryOf[file] # NoEntry
    /\ listing' = Begin(entryOf[file], FALSE)
    /\ answer' = "none"
    /\ Works
    /\ UNCHANGED <<entryOf, entries>>
    /\ Unmoved

DokanFindFiles(path) ==
    /\ DokanAsks
    /\ \/ /\ Works
          /\ IsEntry(EntryByPath(path))
          /\ listing' = Begin(EntryByPath(path), TRUE)
          /\ entries' = entries + 1
          /\ answer' = "none"
       \/ /\ IF IsEntry(EntryByPath(path)) THEN Breaks ELSE Works
          /\ answer' = "no_entry"
          /\ UNCHANGED <<listing, entries>>
    /\ UNCHANGED entryOf
    /\ Unmoved

Filled(name) == Append(listing.filled, name)

(* The filler of "." and ".." shows the sizes of the entry and of its      *)
(* parent; the root has no parent and the filler takes NULL for it.        *)
ListDot ==
    /\ listing.at = "dot"
    /\ SizeOf(listing.entry, volume) # "failed"
    /\ listing' = [listing EXCEPT !.at = "dotdot", !.parent = ParentOf(listing.entry),
                                  !.filled = Filled(".")]
    /\ entries' = entries + (IF ParentOf(listing.entry) = NoEntry THEN 0 ELSE 1)
    /\ answer' = "none"

FreeParent == IF listing.parent = NoEntry THEN 0 ELSE 1

FaultyListDotDot ==             \* only with a parent
    /\ listing.at = "dotdot"
    /\ listing.parent # NoEntry
    /\ listing' = [listing EXCEPT !.at = "sub", !.parent = NoEntry, !.filled = Filled("..")]
    /\ entries' = entries - FreeParent
    /\ answer' = "none"

ListDotDot ==
    /\ listing.at = "dotdot"
    /\ listing' = [listing EXCEPT !.at = "sub", !.parent = NoEntry, !.filled = Filled("..")]
    /\ entries' = entries - FreeParent
    /\ answer' = "none"

(* A sub entry is made and room for its name; then the filler gets both.   *)
MakeSub ==
    /\ listing.at = "sub"
    /\ listing.index < NumberOfSubEntries(listing.entry, NumberOfVolumes)
    /\ listing' = [listing EXCEPT !.at = "name", !.sub = listing.index, !.name = TRUE]
    /\ entries' = entries + 1
    /\ answer' = "none"

FillSub ==
    /\ listing.at = "name"
    /\ SizeOf(listing.sub, volume) # "failed"
    /\ listing' = [listing EXCEPT !.at = "sub", !.sub = NoEntry, !.name = FALSE,
                                  !.index = @ + 1, !.filled = Filled(NameOf(listing.sub))]
    /\ entries' = entries - 1
    /\ answer' = "none"

(* The entries that are freed when a listing ends, on error with those at  *)
(* hand.                                                                   *)
FaultyAtHand == {pointer \in {"own", "sub"} : listing[pointer] # NoEntry}

AtHand == {pointer \in {"own", "parent", "sub"} : listing[pointer] # NoEntry}

EndListing ==
    /\ listing.at = "sub"
    /\ listing.index = NumberOfSubEntries(listing.entry, NumberOfVolumes)
    /\ listing' = NoListing
    /\ entries' = entries - Cardinality(AtHand)
    /\ answer' = "listed"

(* on_error of mount_fuse_readdir and mount_dokan_FindFiles. *)
ListingFails ==
    /\ listing' = NoListing
    /\ entries' = entries - Cardinality(AtHand)
    /\ answer' = "io_error"

SizeFails ==
    \/ listing.at = "dot" /\ SizeOf(listing.entry, volume) = "failed"
    \/ listing.at = "name" /\ SizeOf(listing.sub, volume) = "failed"

List ==
    /\ At("serving")
    /\ listing # NoListing
    /\ \/ Works /\ (ListDot \/ ListDotDot \/ MakeSub \/ FillSub \/ EndListing)
       \/ (IF SizeFails THEN Works ELSE Breaks) /\ ListingFails
    /\ UNCHANGED entryOf
    /\ Unmoved

Callback ==
    \/ \E file \in Files, path \in Paths :
            \/ FuseOpen(file, path) \/ FuseOpendir(file, path)
            \/ DokanZwCreateFile(file, path) \/ DokanCreateFile(file, path)
            \/ DokanOpenDirectory(file, path)
    \/ \E file \in Files :
            \/ FuseRelease(file) \/ FuseReleasedir(file) \/ FuseRead(file)
            \/ FuseReaddir(file) \/ DokanCloseFile(file) \/ DokanReadFile(file)
    \/ \E path \in Paths :
            FuseGetattr(path) \/ DokanGetFileInformation(path) \/ DokanFindFiles(path)
    \/ DokanGetVolumeInformation
    \/ List
=============================================================================
