------------------------------- MODULE Tools -------------------------------
(***************************************************************************)
(* The command line tools, one of which runs: bdeinfo, or bdemount built   *)
(* with FUSE or with Dokan. What they do with the library is what          *)
(* VolumeLifeCycle allows, and Volume implements that.                     *)
(***************************************************************************)
EXTENDS MountCallbacks, InfoTool

allVars == <<vars, printing>>

Init ==
    /\ program \in {"bdemount", "bdeinfo"}
    /\ OpenInit
    /\ MountInit
    /\ InfoInit
    /\ answer = "none"

Bdemount ==
    /\ program = "bdemount"
    /\ \/ MainNext /\ UNCHANGED answer
       \/ OpenNext /\ UNCHANGED <<mounted, answer>>
       \/ Callback
    /\ UNCHANGED printing

Bdeinfo ==
    /\ program = "bdeinfo"
    /\ InfoNext
    /\ UNCHANGED <<mounted, answer>>

(* The kernel may leave the file system mounted and idle. *)
Next == Bdemount \/ Bdeinfo

(* What main and a listing do when nobody has to call them. *)
Goes ==
    \/ program = "bdeinfo" /\ Bdeinfo
    \/ program = "bdemount" /\ step # "serving" /\ Bdemount
    \/ program = "bdemount" /\ List /\ UNCHANGED printing

Spec == Init /\ [][Next]_allVars /\ WF_allVars(Goes)

-----------------------------------------------------------------------------
Entries == {NoEntry, Root} \union 0 .. NumberOfVolumes - 1

Held == {file \in Files : entryOf[file] # NoEntry}

Pending ==
    IF listing = NoListing
    THEN {}
    ELSE {pointer \in {"own", "parent", "sub"} : listing[pointer] # NoEntry}

(* Every variable has its type; an entry refers to the root or to a volume *)
(* in the array while there is one.                                        *)
TypeOK ==
    /\ options \in CommandLines
    /\ \A n \in 1 .. Len(stack) : DOMAIN stack[n] = {"succeeded", "failed"}
    /\ failures \in 0 .. MaxFailures
    /\ exit \in {"none", "success", "failure"}
    /\ handle \in {"none", "live"}
    /\ fileIo \in {"none", "live"}
    /\ volume \in LifeCycle!States
    /\ presented \subseteq options.given
    /\ typed \in BOOLEAN
    /\ fuse \in {"none", "made", "inited", "destroyed"}
    /\ entries \in 0 .. Cardinality(Files) + 3
    /\ step = "serving" => \A file \in Files : entryOf[file] \in Entries

(* A file system is served only with a volume that is open and unlocked,   *)
(* after all that the command line gives had reached it, and all that its  *)
(* entries refer to lives.                                                 *)
ServedIsUnlocked ==
    program = "bdemount" /\ At("serving") =>
        /\ volume = "unlocked" /\ presented = options.given
        /\ appended /\ fileIo = "live" /\ handle = "live"

(* Each file entry that is allocated belongs to one open file or to the    *)
(* callback at hand, wherever a callback fails.                            *)
EntriesOwned == entries = Cardinality(Held) + Cardinality(Pending)

(* With one call that fails, anywhere, nothing is used or freed after it   *)
(* had been freed: no two ways out free the same.                          *)
NothingFreedTwice == ~misused

(* fuse_destroy does not call back when FUSE never asked, and then nobody  *)
(* frees the handle of a mount that ended well.                            *)
NeverServed == exit = "success" /\ fuse = "none" /\ handle = "live"

(* At the end of a tool the volume is freed and all that was made to print *)
(* it, and bdeinfo has no typed password on its stack; the handles are     *)
(* freed too unless a call failed. Dokan's main frees nothing.             *)
NothingLeft ==
    exit # "none" /\ binding # "dokan" /\ ~NeverServed =>
        /\ volume = "absent"
        /\ program = "bdeinfo" => ~typed
        /\ ~identifier /\ ~text /\ ~protector
        /\ failures = 0 => handle = "none" /\ fileIo = "none" /\ entries = 0

(* A listing that succeeds has delivered ".", ".." and, for the root, one  *)
(* name for each volume; each name is found again as that volume's path.   *)
ListingComplete ==
    [][answer' = "listed" /\ listing # NoListing /\ listing' = NoListing =>
        LET names == listing.filled
            count == IF IsDirectory(listing.entry) THEN NumberOfVolumes ELSE 0
        IN  /\ Len(names) = 2 + count
            /\ names[1] = "." /\ names[2] = ".."
            /\ \A n \in 1 .. count : EntryByPath(VolumePath(names[n + 2])) = n - 1
      ]_allVars

Count(line) == Cardinality({n \in 1 .. Len(printed) : printed[n] = line})

(* bdeinfo succeeds only when it has printed all there is, every protector *)
(* once, and the size exactly when the volume was unlocked.                *)
InfoComplete ==
    program = "bdeinfo" /\ exit = "success" /\ printed # << >> =>
        /\ \A line \in {"identifier", "method", "time"} : Count(line) = 1
        /\ Count("protector") = Protectors
        /\ Count("size") + Count("locked") = 1

(* However a call fails, a tool ends or serves, and a listing returns. *)
ToolsProceed ==
    /\ (exit = "none" /\ step # "serving") ~> (exit # "none" \/ step = "serving")
    /\ (listing # NoListing) ~> (listing = NoListing)
=============================================================================
