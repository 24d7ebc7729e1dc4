---------------------------- MODULE Tools_proofs ----------------------------
(***************************************************************************)
(* What holds of the tools for any files, paths, command lines, key        *)
(* protectors and number of calls that fail: what is served is unlocked,   *)
(* each file entry belongs to someone, what a tool made is freed when it   *)
(* ends and bdeinfo succeeds only with everything printed. That nothing    *)
(* is freed twice holds with one call that fails.                          *)
(***************************************************************************)
EXTENDS Tools, FiniteSetTheorems, SequenceTheorems, TLAPS

-----------------------------------------------------------------------------
(* The stacks that occur. A frame has the steps a caller goes on with.     *)

Frame(succeeded, failed) == [succeeded |-> succeeded, failed |-> failed]

Continuations ==
    {"mount", "print_identifier", "closed", "on_error", "exit_success", "exit_failure",
     "free_last", "destroy_free", "return", "free_file_system", "info_free_last"}

Frames == [succeeded : Continuations, failed : Continuations]

Push(frame, rest) == <<frame>> \o rest

(* mount_handle_open and info_handle_open, called by main *)
MountOpens == Push(Frame("mount", "on_error"), << >>)
InfoOpens == Push(Frame("print_identifier", "on_error"), << >>)

(* fuse_destroy, called by main when the loop ended well and on error      *)
LoopEnded == Push(Frame("exit_success", "exit_success"), << >>)
LoopFailed == Push(Frame("free_last", "free_last"), << >>)

(* mount_handle_close and _free, called by mount_fuse_destroy for one of   *)
(* those, and by main.                                                     *)
DestroyCloses(caller) == Push(Frame("destroy_free", "return"), caller)
DestroyFrees(caller) == Push(Frame("return", "return"), caller)
MainFrees == Push(Frame("exit_failure", "exit_failure"), << >>)
FreeCloses == Push(Frame("free_file_system", "free_file_system"), MainFrees)

(* info_handle_close and _free, called by main, and the former by the      *)
(* latter.                                                                 *)
InfoCloses == Push(Frame("closed", "on_error"), << >>)
InfoFrees == Push(Frame("exit_success", "on_error"), << >>)
InfoFreeCloses(caller) == Push(Frame("info_free_last", "info_free_last"), caller)

-----------------------------------------------------------------------------
(* Opening a volume *)

Asking == {"give_keys", "give_password", "give_recovery_password", "give_startup_key"}

OpeningSteps ==
    {"new_file_range", "set_file_range", "new_volume", "open_volume", "prompt",
     "unlock", "still_locked", "opened", "open_failed"} \union Asking

(* What there is of the volume at each step, and which of its secrets the  *)
(* library was given.                                                      *)
OpeningInv ==
    /\ step = "new_file_range" => fileIo = "none" /\ volume = "absent"
    /\ step \in {"set_file_range", "new_volume"} => fileIo = "live" /\ volume = "absent"
    /\ step \in Asking \union {"open_volume"} => fileIo = "live" /\ volume = "closed"
    /\ step \in {"prompt", "unlock", "still_locked"} => fileIo = "live" /\ volume = "locked"
    /\ step = "opened" => fileIo = "live" /\ volume = "unlocked"

Reached(secret) == secret \in options.given => secret \in presented

PresentedInv ==
    /\ presented \subseteq options.given
    /\ step \in {"give_password", "give_recovery_password", "give_startup_key", "open_volume"} =>
        Reached("keys")
    /\ step \in {"give_recovery_password", "give_startup_key", "open_volume"} =>
        Reached("password")
    /\ step \in {"give_startup_key", "open_volume"} => Reached("recovery_password")
    /\ step = "open_volume" => Reached("startup_key")
    /\ step \in {"prompt", "unlock", "still_locked", "opened", "mount", "serving"} =>
        presented = options.given

-----------------------------------------------------------------------------
(* bdemount *)

(* Nothing has been made, or all has been freed; the volume is served, or  *)
(* could be; it was closed but not the file, with as many calls failed.    *)
NothingOpen == fileIo = "none" /\ volume = "absent" /\ ~appended
AllOpen == handle = "live" /\ fileIo = "live" /\ volume = "unlocked" /\ appended
HalfOpen == handle = "live" /\ fileIo = "live" /\ volume = "absent" /\ appended
OnlyHandle == handle = "live" /\ fileIo = "none" /\ volume = "absent"

(* How many calls have failed before main began to destroy or free.        *)
Callers == {LoopEnded, LoopFailed}
FailedBefore(caller) == IF caller = LoopEnded THEN 0 ELSE 1

MountStarts ==
    /\ step \in {"options", "initialize", "set_options"} =>
        stack = << >> /\ NothingOpen /\ fuse = "none"
    /\ step \in {"options", "initialize"} => handle = "none"
    /\ step = "set_options" => handle = "live"
    /\ step \in OpeningSteps =>
        stack = MountOpens /\ handle = "live" /\ ~appended /\ fuse = "none"
    /\ step = "mount" => stack = << >> /\ AllOpen /\ fuse = "none"
    /\ step = "serving" =>
        /\ stack = << >> /\ AllOpen
        /\ fuse \in IF binding = "dokan" THEN {"none"} ELSE {"made", "inited"}

MountEnds ==
    /\ step = "on_error" =>
        /\ stack = << >>
        /\ \/ NothingOpen /\ fuse = "none"
           \/ AllOpen /\ failures >= 1 /\ fuse \in {"none", "made", "inited"}
    /\ step = "free_last" =>
        /\ stack = << >>
        /\ \/ NothingOpen
           \/ AllOpen /\ failures >= 1
           \/ HalfOpen /\ failures >= 2
    /\ step = "exit_success" =>
        /\ stack = << >>
        /\ \/ NothingOpen /\ handle = "none"
           \/ AllOpen /\ fuse = "none"
           \/ HalfOpen /\ failures >= 1
    /\ step = "exit_failure" =>
        /\ stack = << >> /\ handle = "none" /\ volume = "absent"
        /\ failures = 0 => fileIo = "none"

(* fuse_destroy and what it calls *)
MountDestroys ==
    /\ step = "fuse_destroy" =>
        \E caller \in Callers :
            /\ stack = caller
            /\ AllOpen /\ fuse \in {"made", "inited"} /\ failures >= FailedBefore(caller)
    /\ step = "return" =>
        \E caller \in Callers :
            /\ stack = caller
            /\ \/ NothingOpen /\ handle = "none"
               \/ AllOpen /\ fuse = "none" /\ failures >= FailedBefore(caller)
               \/ HalfOpen /\ failures >= FailedBefore(caller) + 1
    /\ step = "destroy_free" =>
        \E caller \in Callers : stack = caller /\ OnlyHandle

(* mount_handle_close and mount_handle_free *)
MountFrees ==
    /\ step = "close_volume" =>
        \/ \E caller \in Callers :
            /\ stack = DestroyCloses(caller)
            /\ AllOpen /\ failures >= FailedBefore(caller)
        \/ /\ stack = FreeCloses
           /\ \/ AllOpen /\ failures >= 1
              \/ HalfOpen /\ failures >= 2
    /\ step = "close_file" =>
        \/ \E caller \in Callers :
            /\ stack = DestroyCloses(caller)
            /\ HalfOpen /\ failures >= FailedBefore(caller)
        \/ stack = FreeCloses /\ HalfOpen /\ failures >= 1
    /\ step = "handle_free" =>
        \/ \E caller \in Callers : stack = DestroyFrees(caller) /\ OnlyHandle
        \/ /\ stack = MainFrees /\ handle = "live"
           /\ \/ NothingOpen
              \/ AllOpen /\ failures >= 1
              \/ HalfOpen /\ failures >= 2
    /\ step = "free_file_system" =>
        \/ \E caller \in Callers : stack = DestroyFrees(caller) /\ OnlyHandle
        \/ /\ stack = MainFrees /\ volume = "absent"
           /\ failures = 0 => fileIo = "none"

MountSteps ==
    {"options", "initialize", "set_options", "mount", "serving", "on_error", "free_last",
     "exit_success", "exit_failure", "fuse_destroy", "return", "destroy_free",
     "close_volume", "close_file", "handle_free", "free_file_system"} \union OpeningSteps

MountExits ==
    /\ exit = "success" => step \in {"options", "serving", "exit_success"}
    /\ exit = "failure" => step \in {"options", "exit_failure"}
    /\ exit # "none" /\ step = "serving" => binding = "dokan"

MountInv ==
    /\ step \in MountSteps
    /\ binding \in {"fuse", "dokan"}
    /\ MountStarts
    /\ MountEnds
    /\ MountDestroys
    /\ MountFrees
    /\ MountExits
    /\ misused => failures >= 2
    /\ ~identifier /\ ~text /\ ~protector

(* The file entries *)

Entered == {NoEntry, Root, 0}

(* Between two steps of a listing there is a parent only before "..", and  *)
(* a sub entry only until its name is filled in.                           *)
ListingInv ==
    listing # NoListing =>
        /\ program = "bdemount" /\ At("serving")
        /\ listing \in Listings
        /\ listing.entry \in {Root, 0}
        /\ listing.at # "dotdot" => listing.parent = NoEntry
        /\ listing.at # "name" => listing.sub = NoEntry
        /\ listing.at = "name" => listing.sub = 0

BeforeServing ==
    {"options", "initialize", "set_options", "mount"} \union OpeningSteps

EntriesInv ==
    /\ entryOf \in [Files -> Entered]
    /\ IsFiniteSet(Held)
    /\ EntriesOwned
    /\ ListingInv
    /\ step \in BeforeServing => Held = {}
    /\ step # "serving" \/ exit # "none" => Held = {} \/ failures >= 1

-----------------------------------------------------------------------------
(* bdeinfo *)

PrintingSteps ==
    {"print_identifier", "print_size", "print_method", "print_time",
     "print_description", "print_count", "print_protector"}

InfoSteps ==
    {"options", "initialize", "set_options", "printed", "closed", "on_error",
     "exit_success", "exit_failure", "close", "info_free", "info_free_last"}
    \union PrintingSteps \union OpeningSteps

NoVolume == fileIo = "none" /\ volume = "absent"

InfoStarts ==
    /\ step \in {"options", "initialize", "set_options"} => stack = << >> /\ NoVolume
    /\ step \in {"options", "initialize"} => handle = "none"
    /\ step = "set_options" => handle = "live"
    /\ step \in OpeningSteps => stack = InfoOpens /\ handle = "live"
    /\ step \in PrintingSteps \union {"printed"} =>
        stack = << >> /\ handle = "live" /\ fileIo = "live" /\ volume \in {"locked", "unlocked"}

(* What is still open when info_handle_free is called on error; a failed   *)
(* call left it.                                                           *)
LeftOpen ==
    /\ fileIo = "none" => volume = "absent"
    /\ fileIo # "none" => failures >= 1

InfoEnds ==
    /\ step = "closed" => stack = << >> /\ handle = "live" /\ NoVolume
    /\ step = "on_error" => stack = << >> /\ LeftOpen /\ (handle = "none" => NoVolume)
    /\ step = "close" =>
        \/ stack = InfoCloses /\ handle = "live" /\ fileIo = "live"
        \/ stack = InfoFreeCloses(MainFrees) /\ handle = "live" /\ fileIo = "live" /\ failures >= 1
    /\ step = "info_free" =>
        /\ handle = "live"
        /\ \/ stack = InfoFrees /\ NoVolume
           \/ stack = MainFrees /\ LeftOpen
    /\ step = "info_free_last" =>
        /\ handle = "live" /\ volume = "absent"
        /\ \/ stack = InfoFrees /\ NoVolume
           \/ stack = MainFrees /\ LeftOpen
    /\ step = "exit_success" => stack = << >> /\ handle = "none" /\ NoVolume
    /\ step = "exit_failure" =>
        stack = << >> /\ handle = "none" /\ volume = "absent" /\ LeftOpen

(* Objects made to print a line are there only while it is printed.        *)
ObjectsInv ==
    /\ identifier => step \in {"print_identifier", "print_time"}
    /\ text => step = "print_description"
    /\ protector => step = "print_protector" /\ index < Protectors
    /\ typed => step = "open_failed"

InfoExits ==
    /\ exit = "success" => step \in {"options", "exit_success"}
    /\ exit = "failure" => step \in {"options", "exit_failure"}

InfoInv ==
    /\ step \in InfoSteps
    /\ binding = "none"
    /\ InfoStarts
    /\ InfoEnds
    /\ ObjectsInv
    /\ InfoExits
    /\ ~misused

(* The lines that were printed when a step is reached. *)
PrintedBefore == {"options", "initialize", "set_options", "print_identifier"} \union OpeningSteps

AllLines ==
    {"identifier", "size", "method", "time", "description", "count", "locked", "protector"}

Lines(identifiers, methods, times, protectors, totals) ==
    /\ Count("identifier") = identifiers
    /\ Count("method") = methods
    /\ Count("time") = times
    /\ Count("protector") = protectors
    /\ Count("size") + Count("locked") = totals

SizeKnown == IF volume = "unlocked" THEN 1 ELSE 0

(* On the way from the last line to a good end. *)
PrintingDone ==
    \/ step \in {"printed", "closed", "exit_success"}
    \/ step = "close" /\ stack = InfoCloses
    \/ step \in {"info_free", "info_free_last"} /\ stack = InfoFrees

PrintedInv ==
    /\ printed \in Seq(AllLines)
    /\ index \in 0 .. Protectors
    /\ step \in PrintedBefore => printed = << >> /\ index = 0
    /\ step = "print_size" => Lines(1, 0, 0, 0, 0) /\ index = 0
    /\ step = "print_method" => Lines(1, 0, 0, 0, SizeKnown) /\ index = 0
    /\ step = "print_time" => Lines(1, 1, 0, 0, SizeKnown) /\ index = 0
    /\ step \in {"print_description", "print_count"} => Lines(1, 1, 1, 0, SizeKnown) /\ index = 0
    /\ step = "print_protector" => Lines(1, 1, 1, index, 1)
    /\ PrintingDone => Lines(1, 1, 1, Protectors, 1)

-----------------------------------------------------------------------------
Shared ==
    /\ program \in {"bdemount", "bdeinfo"}
    /\ options \in CommandLines
    /\ stack \in Seq(Frames)
    /\ failures \in 0 .. MaxFailures
    /\ exit \in {"none", "success", "failure"}
    /\ handle \in {"none", "live"}
    /\ fileIo \in {"none", "live"}
    /\ volume \in LifeCycle!States
    /\ typed \in BOOLEAN
    /\ misused \in BOOLEAN
    /\ appended \in BOOLEAN
    /\ fuse \in {"none", "made", "inited", "destroyed"}

IInv ==
    /\ Shared
    /\ OpeningInv
    /\ PresentedInv
    /\ EntriesInv
    /\ program = "bdemount" => MountInv
    /\ program = "bdeinfo" => InfoInv /\ PrintedInv /\ Held = {}
-----------------------------------------------------------------------------
(* Calls and returns *)

(* Where a function returns to that was called with a stack. *)
Returns(s, succeeded, failed, rest) ==
    /\ s \in Seq(Frames)
    /\ Head(s).succeeded = succeeded
    /\ Head(s).failed = failed
    /\ Tail(s) = rest

LEMMA PushReturns ==
    ASSUME NEW s \in Continuations, NEW f \in Continuations, NEW rest \in Seq(Frames)
    PROVE  Returns(Push(Frame(s, f), rest), s, f, rest)
  BY DEF Returns, Push, Frame, Frames

LEMMA CallersReturn ==
    /\ << >> \in Seq(Frames)
    /\ Returns(LoopEnded, "exit_success", "exit_success", << >>)
    /\ Returns(LoopFailed, "free_last", "free_last", << >>)
    /\ Returns(MountOpens, "mount", "on_error", << >>)
    /\ Returns(InfoOpens, "print_identifier", "on_error", << >>)
    /\ Returns(MainFrees, "exit_failure", "exit_failure", << >>)
    /\ Returns(InfoCloses, "closed", "on_error", << >>)
    /\ Returns(InfoFrees, "exit_success", "on_error", << >>)
<1>0. << >> \in Seq(Frames)
  OBVIOUS
<1>1. Returns(LoopEnded, "exit_success", "exit_success", << >>)
  BY <1>0, PushReturns DEF Continuations, LoopEnded
<1>2. Returns(LoopFailed, "free_last", "free_last", << >>)
  BY <1>0, PushReturns DEF Continuations, LoopFailed
<1>3. Returns(MountOpens, "mount", "on_error", << >>)
  BY <1>0, PushReturns DEF Continuations, MountOpens
<1>4. Returns(InfoOpens, "print_identifier", "on_error", << >>)
  BY <1>0, PushReturns DEF Continuations, InfoOpens
<1>5. Returns(MainFrees, "exit_failure", "exit_failure", << >>)
  BY <1>0, PushReturns DEF Continuations, MainFrees
<1>6. Returns(InfoCloses, "closed", "on_error", << >>)
  BY <1>0, PushReturns DEF Continuations, InfoCloses
<1>7. Returns(InfoFrees, "exit_success", "on_error", << >>)
  BY <1>0, PushReturns DEF Continuations, InfoFrees
<1> QED
  BY <1>0, <1>1, <1>2, <1>3, <1>4, <1>5, <1>6, <1>7

LEMMA CalleesReturn ==
    /\ \A caller \in Callers :
        /\ Returns(DestroyCloses(caller), "destroy_free", "return", caller)
        /\ Returns(DestroyFrees(caller), "return", "return", caller)
    /\ Returns(FreeCloses, "free_file_system", "free_file_system", MainFrees)
    /\ \A caller \in {InfoFrees, MainFrees} :
        Returns(InfoFreeCloses(caller), "info_free_last", "info_free_last", caller)
<1>1. \A caller \in Callers \union {InfoFrees, MainFrees} : caller \in Seq(Frames)
  BY CallersReturn DEF Callers, Returns
<1>2. ASSUME NEW caller \in Callers
      PROVE  /\ Returns(DestroyCloses(caller), "destroy_free", "return", caller)
             /\ Returns(DestroyFrees(caller), "return", "return", caller)
  <2>1. Returns(DestroyCloses(caller), "destroy_free", "return", caller)
    BY <1>1, PushReturns DEF Continuations, DestroyCloses
  <2>2. Returns(DestroyFrees(caller), "return", "return", caller)
    BY <1>1, PushReturns DEF Continuations, DestroyFrees
  <2> QED
    BY <2>1, <2>2
<1>3. Returns(FreeCloses, "free_file_system", "free_file_system", MainFrees)
  BY <1>1, PushReturns DEF Continuations, FreeCloses
<1>4. ASSUME NEW caller \in {InfoFrees, MainFrees}
      PROVE  Returns(InfoFreeCloses(caller), "info_free_last", "info_free_last", caller)
  BY <1>1, PushReturns DEF Continuations, InfoFreeCloses
<1> QED
  BY <1>2, <1>3, <1>4

LEMMA CallPushes ==
    ASSUME NEW label, NEW s, NEW f, Call(label, s, f)
    PROVE  stack' = Push(Frame(s, f), stack)
  BY DEF Call, Push, Frame

-----------------------------------------------------------------------------
(* bdemount: main. Each lemma says which variables an action writes, where *)
(* it goes, and that the invariant holds there.                            *)

Common == Shared /\ OpeningInv /\ PresentedInv

Kept == UNCHANGED <<program, options, presented, typed, binding, printing>>

(* Once the volume was served, or could not be, it is not opened again.    *)
NeverBack == step' \in BeforeServing => step \in BeforeServing

LEMMA MainKeeps ==
    ASSUME MainNext, UNCHANGED printing
    PROVE  /\ Kept
           /\ UNCHANGED <<entryOf, entries, listing>>
           /\ exit = "none"
  BY DEF MainNext, ReadOptions, InitializeHandle, SetOptions, StillLocked, AppendVolume,
         Mount, FuseInit, LoopEnds, ExitSuccess, OnError, FreeLast, ExitFailure, FuseDestroy,
         DestroyFree, Return, HandleFree, FreeFileSystem, CloseVolume, CloseFile,
         Quiet, mounted, Kept, At

LEMMA FailuresCounted ==
    ASSUME failures \in 0 .. MaxFailures, Works \/ Breaks
    PROVE  /\ failures' \in 0 .. MaxFailures
           /\ Works => failures' = failures
           /\ Breaks => failures' = failures + 1
  BY MaxFailuresAssumption DEF Works, Breaks

LEMMA StacksKnown ==
    {<< >>, MountOpens, LoopEnded, LoopFailed, MainFrees, FreeCloses,
     InfoOpens, InfoCloses, InfoFrees}
        \subseteq Seq(Frames)
  BY CallersReturn, CalleesReturn DEF Returns

LEMMA CallersFailed ==
    /\ LoopEnded \in Callers /\ FailedBefore(LoopEnded) = 0
    /\ LoopFailed \in Callers /\ FailedBefore(LoopFailed) = 1
    /\ \A caller \in Callers :
        /\ caller \in Seq(Frames) /\ FailedBefore(caller) \in {0, 1}
        /\ caller = LoopEnded \/ caller = LoopFailed
<1>1. LoopEnded # LoopFailed
  BY CallersReturn DEF Returns
<1> QED
  BY <1>1, StacksKnown DEF Callers, FailedBefore

LEMMA MountStartsKept ==
    ASSUME Common, program = "bdemount", MountInv, Kept,
           ReadOptions \/ InitializeHandle \/ SetOptions \/ StillLocked \/ AppendVolume \/ Mount
    PROVE  Common' /\ MountInv'
<1> USE DEF Common, Shared, OpeningInv, PresentedInv, Asking, Reached, Kept, printing,
            MountInv, MountStarts, MountEnds, MountDestroys, MountFrees, MountExits,
            MountSteps, OpeningSteps, NothingOpen, AllOpen, HalfOpen, OnlyHandle
<1>1. CASE ReadOptions
  <2>1. /\ step = "options" /\ exit = "none"
        /\ UNCHANGED <<handle, fileIo, volume, appended, fuse, misused, failures, stack>>
    BY <1>1 DEF ReadOptions, Quiet, mounted, Works, Goto, ExitWith, At
  <2>2. \/ step' = "options" /\ exit' \in {"success", "failure"}
        \/ step' = "initialize" /\ exit' = "none"
    BY <1>1 DEF ReadOptions, Goto, ExitWith, At
  <2> QED
    BY <2>1, <2>2
<1>2. CASE InitializeHandle
  <2>1. /\ step = "initialize" /\ exit = "none"
        /\ UNCHANGED <<fileIo, volume, appended, fuse, misused, stack, exit>>
    BY <1>2 DEF InitializeHandle, Quiet, mounted, Goto, At
  <2>2. \/ step' = "set_options" /\ handle' = "live" /\ failures' = failures
        \/ step' = "on_error" /\ handle' = handle
           /\ failures' = failures + 1 /\ failures' \in 0 .. MaxFailures
    BY <1>2, FailuresCounted DEF InitializeHandle, Goto
  <2> QED
    BY <2>1, <2>2
<1>3. CASE SetOptions
  <2>1. /\ step = "set_options" /\ exit = "none"
        /\ UNCHANGED <<handle, fileIo, volume, appended, fuse, misused, exit>>
    BY <1>3 DEF SetOptions, Quiet, mounted, Goto, Call, At
  <2>2. \/ step' = "new_file_range" /\ stack' = MountOpens /\ failures' = failures
        \/ step' = "on_error" /\ stack' = stack /\ failures' = failures
        \/ step' = "on_error" /\ stack' = stack
           /\ failures' = failures + 1 /\ failures' \in 0 .. MaxFailures
    BY <1>3, <2>1, FailuresCounted, CallPushes
       DEF SetOptions, Goto, Call, MountOpens
  <2>3. stack' \in Seq(Frames)
    BY <2>2, StacksKnown
  <2> QED
    BY <2>1, <2>2, <2>3
<1>4. CASE StillLocked
  <2>1. /\ step = "still_locked" /\ exit = "none"
        /\ UNCHANGED <<handle, fileIo, volume, appended, fuse, misused, failures, stack, exit>>
        /\ step' = "open_failed"
    BY <1>4 DEF StillLocked, Quiet, mounted, Works, Goto, At
  <2> QED
    BY <2>1
<1>5. CASE AppendVolume
  <2>1. /\ step = "opened" /\ exit = "none"
        /\ UNCHANGED <<handle, fileIo, volume, fuse, misused, exit>>
    BY <1>5 DEF AppendVolume, Succeed, ReturnTo, Goto, At
  <2>2. \/ step' = "mount" /\ stack' = << >> /\ appended' = TRUE /\ failures' = failures
        \/ step' = "open_failed" /\ stack' = stack /\ appended' = appended
           /\ failures' = failures + 1 /\ failures' \in 0 .. MaxFailures
    BY <1>5, <2>1, CallersReturn, FailuresCounted
       DEF AppendVolume, Succeed, ReturnTo, Goto, Returns
  <2>3. stack' \in Seq(Frames)
    BY <2>2, StacksKnown
  <2>4. CASE step' = "mount"
    BY <2>1, <2>2, <2>3, <2>4
  <2>5. CASE step' = "open_failed"
    BY <2>1, <2>2, <2>3, <2>5
  <2> QED
    BY <2>2, <2>4, <2>5
<1>6. CASE Mount
  <2>1. /\ step = "mount" /\ exit = "none"
        /\ UNCHANGED <<handle, fileIo, volume, appended, misused, stack, exit>>
    BY <1>6 DEF Mount, Goto, At
  <2>2. \/ step' = "serving" /\ failures' = failures
           /\ fuse' = IF binding = "dokan" THEN fuse ELSE "made"
        \/ step' = "on_error" /\ fuse' \in {"none", "made"}
           /\ failures' = failures + 1 /\ failures' \in 0 .. MaxFailures
    BY <1>6, FailuresCounted DEF Mount, Goto
  <2> QED
    BY <2>1, <2>2
<1> QED
  BY <1>1, <1>2, <1>3, <1>4, <1>5, <1>6

LEMMA MountEndsKept ==
    ASSUME Common, program = "bdemount", MountInv, Kept,
           FuseInit \/ LoopEnds \/ ExitSuccess \/ OnError \/ FreeLast \/ ExitFailure
    PROVE  Common' /\ MountInv' /\ NeverBack
<1> USE DEF Common, Shared, OpeningInv, PresentedInv, Asking, Reached, Kept, printing,
            MountInv, MountStarts, MountEnds, MountDestroys, MountFrees, MountExits,
            MountSteps, OpeningSteps, NothingOpen, AllOpen, HalfOpen, OnlyHandle,
            NeverBack, BeforeServing
<1>1. CASE FuseInit
  <2>1. /\ step = "serving" /\ exit = "none" /\ fuse = "made" /\ fuse' = "inited"
        /\ UNCHANGED <<step, handle, fileIo, volume, appended, misused, failures, stack, exit>>
    BY <1>1 DEF FuseInit, Works, control, At
  <2> QED
    BY <2>1
<1>2. CASE LoopEnds
  <2>1. /\ step = "serving" /\ exit = "none"
        /\ UNCHANGED <<handle, fileIo, volume, appended, fuse, misused>>
    BY <1>2 DEF LoopEnds, Quiet, mounted, At
  <2>2. \/ /\ step' = "fuse_destroy" /\ stack' = LoopEnded /\ exit' = exit
           /\ binding = "fuse" /\ failures' = failures
        \/ /\ step' = "serving" /\ stack' = stack /\ exit' = "success"
           /\ binding = "dokan" /\ failures' = failures
        \/ /\ step' = "on_error" /\ stack' = stack /\ exit' = exit
           /\ binding = "fuse" /\ failures' = failures + 1 /\ failures' \in 0 .. MaxFailures
        \/ /\ step' = "serving" /\ stack' = stack /\ exit' = "success"
           /\ binding = "dokan" /\ failures' = failures + 1 /\ failures' \in 0 .. MaxFailures
    BY <1>2, <2>1, CallPushes, FailuresCounted
       DEF LoopEnds, Goto, Call, ExitWith, LoopEnded
  <2>3. stack' \in Seq(Frames)
    BY <2>2, StacksKnown
  <2> QED
    BY <2>1, <2>2, <2>3, CallersFailed
<1>3. CASE ExitSuccess
  <2>1. /\ step = "exit_success" /\ exit = "none" /\ exit' = "success"
        /\ UNCHANGED <<step, handle, fileIo, volume, appended, fuse, misused, failures, stack>>
    BY <1>3 DEF ExitSuccess, Quiet, mounted, Works, ExitWith, At
  <2> QED
    BY <2>1
<1>4. CASE OnError
  <2>1. /\ step = "on_error" /\ exit = "none"
        /\ UNCHANGED <<handle, fileIo, volume, appended, fuse, misused, failures, exit>>
    BY <1>4 DEF OnError, Quiet, mounted, Works, Goto, Call, At
  <2>2. \/ step' = "fuse_destroy" /\ stack' = LoopFailed /\ fuse # "none"
        \/ step' = "free_last" /\ stack' = stack /\ fuse = "none"
    BY <1>4, <2>1, CallPushes DEF OnError, Goto, Call, LoopFailed
  <2>3. stack' \in Seq(Frames)
    BY <2>2, StacksKnown
  <2> QED
    BY <2>1, <2>2, <2>3, CallersFailed
<1>5. CASE FreeLast
  <2>1. /\ step = "free_last" /\ exit = "none"
        /\ UNCHANGED <<handle, fileIo, volume, appended, fuse, misused, failures, exit>>
    BY <1>5 DEF FreeLast, Quiet, mounted, Works, Goto, Call, At
  <2>2. \/ step' = "handle_free" /\ stack' = MainFrees /\ handle = "live"
        \/ step' = "exit_failure" /\ stack' = stack /\ handle # "live"
    BY <1>5, <2>1, CallPushes DEF FreeLast, Goto, Call, MainFrees
  <2> QED
    BY <2>1, <2>2, CallersReturn DEF Returns
<1>6. CASE ExitFailure
  <2>1. /\ step = "exit_failure" /\ exit = "none" /\ exit' = "failure"
        /\ UNCHANGED <<step, handle, fileIo, volume, appended, fuse, misused, failures, stack>>
    BY <1>6 DEF ExitFailure, Quiet, mounted, Works, ExitWith, At
  <2> QED
    BY <2>1
<1> QED
  BY <1>1, <1>2, <1>3, <1>4, <1>5, <1>6

LEMMA MountDestroysKept ==
    ASSUME Common, program = "bdemount", MountInv, Kept,
           FuseDestroy \/ DestroyFree \/ Return
    PROVE  Common' /\ MountInv' /\ NeverBack
<1> USE DEF Common, Shared, OpeningInv, PresentedInv, Asking, Reached, Kept, printing,
            MountInv, MountStarts, MountEnds, MountDestroys, MountFrees, MountExits,
            MountSteps, OpeningSteps, NothingOpen, AllOpen, HalfOpen, OnlyHandle,
            NeverBack, BeforeServing
<1>1. CASE FuseDestroy
  <2>1. /\ step = "fuse_destroy" /\ exit = "none"
        /\ UNCHANGED <<handle, fileIo, volume, appended, misused, failures, exit>>
    BY <1>1 DEF FuseDestroy, Works, Goto, Call, At
  <2>2. PICK caller \in Callers :
            /\ stack = caller
            /\ AllOpen /\ fuse \in {"made", "inited"} /\ failures >= FailedBefore(caller)
    BY <2>1
  <2>3. \/ step' = "close_volume" /\ stack' = DestroyCloses(caller) /\ fuse' = "destroyed"
        \/ step' = "return" /\ stack' = caller /\ fuse' = "none"
    BY <1>1, <2>2, CallPushes DEF FuseDestroy, Goto, Call, DestroyCloses
  <2>4. stack' \in Seq(Frames)
    BY <2>3, CallersFailed, CalleesReturn DEF Returns
  <2> QED
    BY <2>1, <2>2, <2>3, <2>4
<1>2. CASE DestroyFree
  <2>1. /\ step = "destroy_free" /\ exit = "none"
        /\ UNCHANGED <<handle, fileIo, volume, appended, fuse, misused, failures, exit>>
    BY <1>2 DEF DestroyFree, Quiet, mounted, Works, Call, At
  <2>2. PICK caller \in Callers : stack = caller /\ OnlyHandle
    BY <2>1
  <2>3. step' = "handle_free" /\ stack' = DestroyFrees(caller)
    BY <1>2, <2>2, CallPushes DEF DestroyFree, Call, DestroyFrees
  <2>4. stack' \in Seq(Frames)
    BY <2>3, CalleesReturn DEF Returns
  <2> QED
    BY <2>1, <2>2, <2>3, <2>4
<1>3. CASE Return
  <2>1. /\ step = "return" /\ exit = "none"
        /\ UNCHANGED <<handle, fileIo, volume, appended, fuse, misused, failures, exit>>
    BY <1>3 DEF Return, Quiet, mounted, Works, Succeed, ReturnTo, At
  <2>2. PICK caller \in Callers :
            /\ stack = caller
            /\ \/ NothingOpen /\ handle = "none"
               \/ AllOpen /\ fuse = "none" /\ failures >= FailedBefore(caller)
               \/ HalfOpen /\ failures >= FailedBefore(caller) + 1
    BY <2>1
  <2>3. \/ step' = "exit_success" /\ stack' = << >> /\ caller = LoopEnded
        \/ step' = "free_last" /\ stack' = << >> /\ caller = LoopFailed
    BY <1>3, <2>2, CallersFailed, CallersReturn DEF Return, Succeed, ReturnTo, Returns
  <2>4. stack' \in Seq(Frames)
    BY <2>3, StacksKnown
  <2> QED
    BY <2>1, <2>2, <2>3, <2>4, CallersFailed
<1> QED
  BY <1>1, <1>2, <1>3

LEMMA MountFreesKept ==
    ASSUME Common, program = "bdemount", MountInv, Kept,
           HandleFree \/ FreeFileSystem \/ CloseVolume \/ CloseFile
    PROVE  Common' /\ MountInv' /\ NeverBack
<1> USE DEF Common, Shared, OpeningInv, PresentedInv, Asking, Reached, Kept, printing,
            MountInv, MountStarts, MountEnds, MountDestroys, MountFrees, MountExits,
            MountSteps, OpeningSteps, NothingOpen, AllOpen, HalfOpen, OnlyHandle,
            NeverBack, BeforeServing
<1>1. CASE HandleFree
  <2>1. /\ step = "handle_free" /\ exit = "none"
        /\ UNCHANGED <<handle, fileIo, volume, appended, fuse, misused, failures, exit>>
    BY <1>1 DEF HandleFree, Quiet, mounted, Works, Goto, Call, At
  <2>2. CASE fileIo = "live"
    <3>1. stack = MainFrees
      BY <2>1, <2>2
    <3>2. step' = "close_volume" /\ stack' = FreeCloses
      BY <1>1, <2>2, <3>1, CallPushes DEF HandleFree, Call, FreeCloses
    <3>3. stack' \in Seq(Frames)
      BY <3>2, StacksKnown
    <3> QED
      BY <2>1, <2>2, <3>1, <3>2, <3>3
  <2>3. CASE fileIo = "none"
    <3>1. step' = "free_file_system" /\ stack' = stack
      BY <1>1, <2>3 DEF HandleFree, Goto
    <3> QED
      BY <2>1, <2>3, <3>1
  <2> QED
    BY <2>2, <2>3
<1>2. CASE FreeFileSystem
  <2>1. /\ step = "free_file_system" /\ exit = "none" /\ handle' = "none" /\ appended' = FALSE
        /\ UNCHANGED <<fileIo, volume, fuse, misused, failures, exit>>
    BY <1>2 DEF FreeFileSystem, Works, Succeed, ReturnTo, At
  <2>2. ASSUME NEW caller \in Callers, stack = DestroyFrees(caller) /\ OnlyHandle
        PROVE  Common' /\ MountInv' /\ NeverBack
    <3>1. step' = "return" /\ stack' = caller
      BY <1>2, <2>2, CalleesReturn DEF FreeFileSystem, Succeed, ReturnTo, Returns
    <3>2. stack' \in Seq(Frames)
      BY <3>1, CallersFailed
    <3> QED
      BY <2>1, <2>2, <3>1, <3>2
  <2>3. CASE stack = MainFrees /\ volume = "absent" /\ (failures = 0 => fileIo = "none")
    <3>1. step' = "exit_failure" /\ stack' = << >>
      BY <1>2, <2>3, CallersReturn DEF FreeFileSystem, Succeed, ReturnTo, Returns
    <3>2. stack' \in Seq(Frames)
      BY <3>1, StacksKnown
    <3> QED
      BY <2>1, <2>3, <3>1, <3>2
  <2> QED
    BY <2>1, <2>2, <2>3
<1>3. CASE CloseVolume
  <2>1. /\ step = "close_volume" /\ exit = "none" /\ appended
        /\ UNCHANGED <<handle, fileIo, appended, fuse, exit>>
    BY <1>3 DEF CloseVolume, mounted, Goto, Fail, ReturnTo, At
  <2>2. \/ /\ volume = "absent" /\ volume' = volume /\ failures' = failures
           /\ Fail /\ misused'
        \/ /\ volume # "absent" /\ volume' = "absent" /\ misused' = misused
           /\ Goto("close_file") /\ failures' = failures
        \/ /\ volume # "absent" /\ volume' = "absent" /\ misused' = misused
           /\ Fail /\ failures' = failures + 1 /\ failures' \in 0 .. MaxFailures
    BY <1>3, <2>1, FailuresCounted DEF CloseVolume, Works, LifeCycle!Free
  <2>3. volume' \in LifeCycle!States
    BY <2>2 DEF LifeCycle!States
  <2>4. ASSUME NEW caller \in Callers,
               stack = DestroyCloses(caller), AllOpen, failures >= FailedBefore(caller)
        PROVE  Common' /\ MountInv' /\ NeverBack
    <3>1. \/ step' = "return" /\ stack' = caller /\ failures' = failures + 1
             /\ failures' \in 0 .. MaxFailures
          \/ step' = "close_file" /\ stack' = stack /\ failures' = failures
      BY <2>2, <2>4, CalleesReturn DEF Goto, Fail, ReturnTo, Returns
    <3>2. stack' \in Seq(Frames)
      BY <3>1, <2>4, CallersFailed, CalleesReturn DEF Returns
    <3>3. misused' = misused /\ volume' = "absent"
      BY <2>2, <2>4
    <3> QED
      BY <2>1, <2>3, <2>4, <3>1, <3>2, <3>3, CallersFailed
  <2>5. CASE stack = FreeCloses /\ AllOpen /\ failures >= 1
    <3>1. \/ step' = "free_file_system" /\ stack' = MainFrees /\ failures' = failures + 1
             /\ failures' \in 0 .. MaxFailures
          \/ step' = "close_file" /\ stack' = stack /\ failures' = failures
      BY <2>2, <2>5, CalleesReturn DEF Goto, Fail, ReturnTo, Returns
    <3>2. stack' \in Seq(Frames)
      BY <3>1, <2>5, StacksKnown
    <3>3. misused' = misused /\ volume' = "absent"
      BY <2>2, <2>5
    <3> QED
      BY <2>1, <2>3, <2>5, <3>1, <3>2, <3>3
  <2>6. CASE stack = FreeCloses /\ HalfOpen /\ failures >= 2
    <3>1. /\ step' = "free_file_system" /\ stack' = MainFrees /\ failures' = failures
          /\ volume' = "absent" /\ misused'
      BY <2>2, <2>6, CalleesReturn DEF Fail, ReturnTo, Returns
    <3>2. stack' \in Seq(Frames) /\ misused' \in BOOLEAN
      BY <1>3, <3>1, StacksKnown DEF CloseVolume
    <3> QED
      BY <2>1, <2>3, <2>6, <3>1, <3>2
  <2> QED
    BY <2>1, <2>4, <2>5, <2>6
<1>4. CASE CloseFile
  <2>1. /\ step = "close_file" /\ exit = "none"
        /\ UNCHANGED <<handle, volume, appended, fuse, misused, exit>>
    BY <1>4 DEF CloseFile, Quiet, mounted, Succeed, Fail, ReturnTo, At
  <2>2. \/ fileIo' = "none" /\ Succeed /\ failures' = failures
        \/ /\ fileIo' = fileIo /\ Fail
           /\ failures' = failures + 1 /\ failures' \in 0 .. MaxFailures
    BY <1>4, FailuresCounted DEF CloseFile
  <2>3. ASSUME NEW caller \in Callers,
               stack = DestroyCloses(caller), HalfOpen, failures >= FailedBefore(caller)
        PROVE  Common' /\ MountInv' /\ NeverBack
    <3>1. \/ step' = "destroy_free" /\ stack' = caller /\ fileIo' = "none"
             /\ failures' = failures
          \/ step' = "return" /\ stack' = caller /\ fileIo' = fileIo
             /\ failures' = failures + 1 /\ failures' \in 0 .. MaxFailures
      BY <2>2, <2>3, CalleesReturn DEF Succeed, Fail, ReturnTo, Returns
    <3>2. stack' \in Seq(Frames)
      BY <3>1, CallersFailed
    <3> QED
      BY <2>1, <2>3, <3>1, <3>2, CallersFailed
  <2>4. CASE stack = FreeCloses /\ HalfOpen /\ failures >= 1
    <3>1. \/ step' = "free_file_system" /\ stack' = MainFrees /\ fileIo' = "none"
             /\ failures' = failures
          \/ step' = "free_file_system" /\ stack' = MainFrees /\ fileIo' = fileIo
             /\ failures' = failures + 1 /\ failures' \in 0 .. MaxFailures
      BY <2>2, <2>4, CalleesReturn DEF Succeed, Fail, ReturnTo, Returns
    <3>2. stack' \in Seq(Frames)
      BY <3>1, StacksKnown
    <3> QED
      BY <2>1, <2>4, <3>1, <3>2
  <2> QED
    BY <2>1, <2>3, <2>4
<1> QED
  BY <1>1, <1>2, <1>3, <1>4

-----------------------------------------------------------------------------
(* Opening a volume, in both tools *)

Advances ==
    /\ step # "open_failed"
    /\ step' \in OpeningSteps
    /\ UNCHANGED stack
    /\ typed' # typed => step' = "open_failed"
    /\ fileIo' \in {"none", "live"}
    /\ volume' \in LifeCycle!States

GivesUp ==
    /\ step = "open_failed"
    /\ Fail
    /\ fileIo' = "none" /\ volume' = "absent" /\ typed' = Wiped

LEMMA OpeningKept ==
    ASSUME Common, OpenNext, UNCHANGED <<appended, fuse>>,
           step \in OpeningSteps => stack \in {MountOpens, InfoOpens}
    PROVE  /\ Common'
           /\ step \in OpeningSteps /\ exit = "none"
           /\ UNCHANGED <<program, options, handle, misused, exit>>
           /\ failures' = failures \/ failures' = failures + 1
           /\ Advances \/ GivesUp
<1> USE DEF OpeningSteps, Asking
<1>0. /\ exit = "none"
      /\ UNCHANGED <<program, options, handle, misused, exit>>
      /\ Works \/ Breaks
      /\ typed' \in BOOLEAN
  BY DEF OpenNext, NewFileRange, SetFileRange, NewVolume, GiveKeys, GivePassword,
         GiveRecoveryPassword, GiveStartupKey, Give, OpenVolume, Prompt, UnlockVolume,
         OpenFails, FreeOpened, Wiped, At, Goto, Fail, ReturnTo, Common, Shared
<1>1. /\ failures' \in 0 .. MaxFailures
      /\ failures' = failures \/ failures' = failures + 1
  BY <1>0, FailuresCounted DEF Common, Shared
<1>2. CASE NewFileRange
  <2>1. /\ step = "new_file_range"
        /\ UNCHANGED <<volume, presented, typed, stack>>
        /\ \/ step' = "set_file_range" /\ fileIo' = "live"
           \/ step' = "open_failed" /\ fileIo' = fileIo
    BY <1>2 DEF NewFileRange, At, Goto
  <2> QED
    BY <1>0, <1>1, <2>1 DEF Common, Shared, OpeningInv, PresentedInv, Reached, Advances
<1>3. CASE SetFileRange
  <2>1. /\ step = "set_file_range"
        /\ UNCHANGED <<fileIo, volume, presented, typed, stack>>
        /\ step' \in {"new_volume", "open_failed"}
    BY <1>3 DEF SetFileRange, At, Goto
  <2> QED
    BY <1>0, <1>1, <2>1 DEF Common, Shared, OpeningInv, PresentedInv, Reached, Advances
<1>4. CASE NewVolume
  <2>1. /\ step = "new_volume" /\ presented' = {}
        /\ UNCHANGED <<fileIo, typed, stack>>
        /\ \/ step' = "give_keys" /\ volume' = "closed"
           \/ step' = "open_failed" /\ volume' = volume
    BY <1>4 DEF NewVolume, At, Goto, LifeCycle!Initialize
  <2> QED
    BY <1>0, <1>1, <2>1
       DEF Common, Shared, OpeningInv, PresentedInv, Reached, Advances, LifeCycle!States
<1>5. ASSUME NEW secret, NEW from, NEW to, Give(secret, from, to)
      PROVE  /\ step = from
             /\ UNCHANGED <<fileIo, volume, typed, stack>>
             /\ \/ /\ step' = to /\ secret \in options.given
                   /\ presented' = presented \union {secret}
                \/ step' = to /\ secret \notin options.given /\ presented' = presented
                \/ step' = "open_failed" /\ presented' = presented
  BY <1>5 DEF Give, At, Goto
<1>6. CASE GiveKeys
  <2>1. /\ step = "give_keys"
        /\ UNCHANGED <<fileIo, volume, typed, stack>>
        /\ \/ /\ step' = "give_password" /\ "keys" \in options.given
              /\ presented' = presented \union {"keys"}
           \/ /\ step' = "give_password" /\ "keys" \notin options.given
              /\ presented' = presented
           \/ step' = "open_failed" /\ presented' = presented
    <3>1. CASE Give("keys", "give_keys", "give_password")
      BY <1>5, <3>1
    <3>2. CASE ~Give("keys", "give_keys", "give_password")
      BY <1>6, <3>2 DEF GiveKeys, At, Goto
    <3> QED
      BY <3>1, <3>2
  <2> QED
    BY <1>0, <1>1, <2>1 DEF Common, Shared, OpeningInv, PresentedInv, Reached, Advances
<1>7. CASE GivePassword
  <2>1. /\ step = "give_password"
        /\ UNCHANGED <<fileIo, volume, typed, stack>>
        /\ \/ /\ step' = "give_recovery_password" /\ "password" \in options.given
              /\ presented' = presented \union {"password"}
           \/ /\ step' = "give_recovery_password" /\ "password" \notin options.given
              /\ presented' = presented
           \/ step' = "open_failed" /\ presented' = presented
    BY <1>5, <1>7 DEF GivePassword
  <2> QED
    BY <1>0, <1>1, <2>1 DEF Common, Shared, OpeningInv, PresentedInv, Reached, Advances
<1>8. CASE GiveRecoveryPassword
  <2>1. /\ step = "give_recovery_password"
        /\ UNCHANGED <<fileIo, volume, typed, stack>>
        /\ \/ /\ step' = "give_startup_key" /\ "recovery_password" \in options.given
              /\ presented' = presented \union {"recovery_password"}
           \/ /\ step' = "give_startup_key" /\ "recovery_password" \notin options.given
              /\ presented' = presented
           \/ step' = "open_failed" /\ presented' = presented
    BY <1>5, <1>8 DEF GiveRecoveryPassword
  <2> QED
    BY <1>0, <1>1, <2>1 DEF Common, Shared, OpeningInv, PresentedInv, Reached, Advances
<1>9. CASE GiveStartupKey
  <2>1. /\ step = "give_startup_key"
        /\ UNCHANGED <<fileIo, volume, typed, stack>>
        /\ \/ /\ step' = "open_volume" /\ "startup_key" \in options.given
              /\ presented' = presented \union {"startup_key"}
           \/ /\ step' = "open_volume" /\ "startup_key" \notin options.given
              /\ presented' = presented
           \/ step' = "open_failed" /\ presented' = presented
    BY <1>5, <1>9 DEF GiveStartupKey
  <2> QED
    BY <1>0, <1>1, <2>1 DEF Common, Shared, OpeningInv, PresentedInv, Reached, Advances
<1>10. CASE OpenVolume
  <2>1. /\ step = "open_volume"
        /\ UNCHANGED <<fileIo, presented, typed, stack>>
        /\ \/ step' = "opened" /\ volume' = "unlocked"
           \/ step' \in {"still_locked", "prompt"} /\ volume' = "locked"
           \/ step' = "open_failed" /\ volume' = volume
    BY <1>10 DEF OpenVolume, At, Goto, LifeCycle!Open
  <2>2. presented = options.given
    BY <2>1, CommandLinesAssumption DEF Common, Shared, PresentedInv, Reached
  <2> QED
    BY <1>0, <1>1, <2>1, <2>2
       DEF Common, Shared, OpeningInv, PresentedInv, Reached, Advances, LifeCycle!States
<1>11. CASE Prompt
  <2>1. /\ step = "prompt"
        /\ UNCHANGED <<fileIo, volume, presented, stack>>
        /\ \/ step' = "unlock" /\ typed' = typed
           \/ step' = "open_failed"
    BY <1>11 DEF Prompt, At, Goto
  <2> QED
    BY <1>0, <1>1, <2>1 DEF Common, Shared, OpeningInv, PresentedInv, Reached, Advances
<1>12. CASE UnlockVolume
  <2>1. /\ step = "unlock"
        /\ UNCHANGED <<fileIo, presented, typed, stack>>
        /\ \/ step' = "opened" /\ volume' = "unlocked"
           \/ step' \in {"still_locked", "open_failed"} /\ volume' = volume
    BY <1>12 DEF UnlockVolume, At, Goto, LifeCycle!Unlock
  <2> QED
    BY <1>0, <1>1, <2>1
       DEF Common, Shared, OpeningInv, PresentedInv, Reached, Advances, LifeCycle!States
<1>13. CASE OpenFails
  <2>1. /\ GivesUp
        /\ presented' = presented
    BY <1>13 DEF OpenFails, FreeOpened, FreeVolume, LifeCycle!Free, GivesUp, At
  <2>2. /\ step' \in {"on_error"}
        /\ stack' = << >>
    BY <2>1, CallersReturn DEF GivesUp, Fail, ReturnTo, Returns
  <2>3. stack' \in Seq(Frames)
    BY <2>2, StacksKnown
  <2> QED
    BY <1>0, <1>1, <2>1, <2>2, <2>3
       DEF Common, Shared, OpeningInv, PresentedInv, Reached, GivesUp, LifeCycle!States
<1> QED
  BY <1>2, <1>3, <1>4, <1>6, <1>7, <1>8, <1>9, <1>10, <1>11, <1>12, <1>13 DEF OpenNext

LEMMA MountOpeningKept ==
    ASSUME Common, program = "bdemount", MountInv, OpenNext, UNCHANGED <<mounted, printing>>
    PROVE  Common' /\ MountInv'
<1> USE DEF MountInv, MountStarts, MountEnds, MountDestroys, MountFrees, MountExits,
            MountSteps, OpeningSteps, Asking, NothingOpen, AllOpen, HalfOpen, OnlyHandle,
            mounted, printing
<1>1. /\ Common'
      /\ step \in OpeningSteps /\ exit = "none"
      /\ UNCHANGED <<program, options, handle, misused, exit>>
      /\ failures' = failures \/ failures' = failures + 1
      /\ Advances \/ GivesUp
  BY OpeningKept
<1>2. failures \in Nat /\ failures' \in Nat
  BY <1>1, MaxFailuresAssumption DEF Common, Shared
<1>3. CASE Advances
  BY <1>1, <1>2, <1>3 DEF Advances
<1>4. CASE GivesUp
  <2>1. step' = "on_error" /\ stack' = << >>
    BY <1>4, CallersReturn DEF GivesUp, Fail, ReturnTo, Returns
  <2> QED
    BY <1>1, <1>2, <1>4, <2>1 DEF GivesUp
<1> QED
  BY <1>1, <1>3, <1>4

-----------------------------------------------------------------------------
(* The file entries *)

Cost(entry) == IF entry = NoEntry THEN 0 ELSE 1

(* The number of entries a listing has at hand. *)
LEMMA AtHandCounted ==
    ASSUME NEW own, NEW parent, NEW sub, NEW held,
           held = (IF own = NoEntry THEN {} ELSE {"own"})
                  \union (IF parent = NoEntry THEN {} ELSE {"parent"})
                  \union (IF sub = NoEntry THEN {} ELSE {"sub"})
    PROVE  Cardinality(held) = Cost(own) + Cost(parent) + Cost(sub)
<1> DEFINE first == IF own = NoEntry THEN {} ELSE {"own"}
           second == first \union (IF parent = NoEntry THEN {} ELSE {"parent"})
           third == second \union (IF sub = NoEntry THEN {} ELSE {"sub"})
<1>1. IsFiniteSet(first) /\ Cardinality(first) = Cost(own)
  BY FS_EmptySet, FS_Singleton DEF Cost
<1>2. IsFiniteSet(second) /\ Cardinality(second) = Cost(own) + Cost(parent)
  <2>1. CASE parent = NoEntry
    <3>1. second = first
      BY <2>1
    <3> QED
      BY <1>1, <2>1, <3>1 DEF Cost
  <2>2. CASE parent # NoEntry
    <3>1. second = first \union {"parent"} /\ "parent" \notin first
      BY <2>2
    <3>2. /\ IsFiniteSet(first \union {"parent"})
          /\ Cardinality(first \union {"parent"}) = Cardinality(first) + 1
      BY <1>1, <3>1, FS_AddElement
    <3> QED
      BY <1>1, <2>2, <3>1, <3>2 DEF Cost
  <2> QED
    BY <2>1, <2>2
<1>3. Cardinality(third) = Cost(own) + Cost(parent) + Cost(sub)
  <2>1. CASE sub = NoEntry
    <3>1. third = second
      BY <2>1
    <3> QED
      BY <1>2, <2>1, <3>1 DEF Cost
  <2>2. CASE sub # NoEntry
    <3>1. third = second \union {"sub"} /\ "sub" \notin second
      BY <2>2
    <3>2. Cardinality(second \union {"sub"}) = Cardinality(second) + 1
      BY <1>2, <3>1, FS_AddElement
    <3> QED
      BY <1>2, <2>2, <3>1, <3>2 DEF Cost
  <2> QED
    BY <2>1, <2>2
<1> QED
  BY <1>3

LEMMA ListingCounted ==
    \A l : Cardinality({pointer \in {"own", "parent", "sub"} : l[pointer] # NoEntry}) =
                Cost(l.own) + Cost(l.parent) + Cost(l.sub)
<1> TAKE l
<1>1. {pointer \in {"own", "parent", "sub"} : l[pointer] # NoEntry} =
        (IF l.own = NoEntry THEN {} ELSE {"own"})
        \union (IF l.parent = NoEntry THEN {} ELSE {"parent"})
        \union (IF l.sub = NoEntry THEN {} ELSE {"sub"})
  OBVIOUS
<1> QED
  BY <1>1, AtHandCounted

(* What is at hand, without a listing and during one, at a step.           *)
LEMMA EntriesCounted ==
    /\ listing = NoListing => Cardinality(Pending) = 0
    /\ listing # NoListing =>
        Cardinality(Pending) = Cost(listing.own) + Cost(listing.parent) + Cost(listing.sub)
    /\ Cardinality(AtHand) = Cost(listing.own) + Cost(listing.parent) + Cost(listing.sub)
    /\ listing' = NoListing => Cardinality(Pending') = 0
    /\ listing' # NoListing =>
        Cardinality(Pending') = Cost(listing'.own) + Cost(listing'.parent) + Cost(listing'.sub)
<1>1. Cardinality(AtHand) = Cost(listing.own) + Cost(listing.parent) + Cost(listing.sub)
  BY ListingCounted DEF AtHand
<1>2. listing # NoListing => Pending = AtHand
  BY DEF Pending, AtHand
<1>3. listing = NoListing => Pending = {}
  BY DEF Pending
<1>4. listing' = NoListing => Pending' = {}
  BY DEF Pending
<1>5. listing' # NoListing =>
        Pending' = {pointer \in {"own", "parent", "sub"} : listing'[pointer] # NoEntry}
  BY DEF Pending
<1>6. Cardinality({pointer \in {"own", "parent", "sub"} : listing'[pointer] # NoEntry}) =
        Cost(listing'.own) + Cost(listing'.parent) + Cost(listing'.sub)
  BY ListingCounted
<1> QED
  BY <1>1, <1>2, <1>3, <1>4, <1>5, <1>6, FS_EmptySet

LEMMA HeldMakes ==
    ASSUME IsFiniteSet(Held), NEW file \in Files, entryOf \in [Files -> Entered],
           entryOf[file] = NoEntry, NEW entry \in {Root, 0},
           entryOf' = [entryOf EXCEPT ![file] = entry]
    PROVE  /\ IsFiniteSet(Held') /\ Cardinality(Held') = Cardinality(Held) + 1
           /\ entryOf' \in [Files -> Entered]
<1>1. entry # NoEntry /\ entry \in Entered
  BY DEF NoEntry, Root, Entered
<1>2. Held' = Held \union {file} /\ file \notin Held
  BY <1>1 DEF Held
<1> QED
  BY <1>1, <1>2, FS_AddElement

LEMMA HeldFrees ==
    ASSUME IsFiniteSet(Held), NEW file \in Files, entryOf \in [Files -> Entered],
           entryOf[file] # NoEntry, entryOf' = [entryOf EXCEPT ![file] = NoEntry]
    PROVE  /\ IsFiniteSet(Held') /\ Cardinality(Held') = Cardinality(Held) - 1
           /\ entryOf' \in [Files -> Entered]
<1>1. Held' = Held \ {file} /\ file \in Held
  BY DEF Held
<1> QED
  BY <1>1, FS_RemoveElement DEF Entered

(* What an entry refers to that is made for a path.                        *)
LEMMA EntryMade ==
    ASSUME appended, NEW path, IsEntry(EntryByPath(path))
    PROVE  EntryByPath(path) \in {Root, 0}
  BY DEF EntryByPath, VolumeByPath, NumberOfVolumes, IsEntry, Root

-----------------------------------------------------------------------------
(* The callbacks *)

(* What a callback does to the entries. *)
Looks == UNCHANGED <<entryOf, entries, listing>>

Makes(file) ==
    /\ listing = NoListing /\ UNCHANGED listing
    /\ entryOf[file] = NoEntry
    /\ \E path : /\ IsEntry(EntryByPath(path))
                 /\ entryOf' = [entryOf EXCEPT ![file] = EntryByPath(path)]
    /\ entries' = entries + 1

Frees(file) ==
    /\ listing = NoListing /\ UNCHANGED listing
    /\ entryOf[file] # NoEntry
    /\ entryOf' = [entryOf EXCEPT ![file] = NoEntry]
    /\ entries' = entries - 1

Reads(file) ==
    /\ listing = NoListing
    /\ entryOf[file] # NoEntry
    /\ listing' = Begin(entryOf[file], FALSE)
    /\ UNCHANGED <<entryOf, entries>>

Finds ==
    /\ listing = NoListing
    /\ \E path : /\ IsEntry(EntryByPath(path))
                 /\ listing' = Begin(EntryByPath(path), TRUE)
    /\ entries' = entries + 1
    /\ UNCHANGED entryOf

LEMMA CallbackDoes ==
    ASSUME Callback
    PROVE  /\ Looks \/ Finds \/ List
              \/ \E file \in Files : Makes(file) \/ Frees(file) \/ Reads(file)
           /\ Unmoved
           /\ step = "serving" /\ exit = "none"
           /\ Works \/ Breaks
<1> USE DEF FuseAsks, DokanAsks, Asked, At
<1>1. ASSUME NEW file \in Files, NEW path, OpenEntry(file, path), listing = NoListing
      PROVE  (Looks \/ Makes(file)) /\ Unmoved /\ (Works \/ Breaks)
  BY <1>1 DEF OpenEntry, Looks, Makes
<1>2. ASSUME NEW file \in Files, NEW reason, Refuse(file, reason)
      PROVE  Looks /\ Unmoved /\ Works
  BY <1>2 DEF Refuse, Looks
<1>3. ASSUME NEW file \in Files, NEW path,
             \/ FuseOpen(file, path) \/ FuseOpendir(file, path)
             \/ DokanZwCreateFile(file, path) \/ DokanCreateFile(file, path)
             \/ DokanOpenDirectory(file, path)
      PROVE  /\ (Looks \/ Makes(file)) /\ Unmoved /\ (Works \/ Breaks)
             /\ step = "serving" /\ exit = "none"
  BY <1>1, <1>2, <1>3
     DEF FuseOpen, FuseOpendir, DokanZwCreateFile, DokanCreateFile, DokanOpenDirectory
<1>4. ASSUME NEW file \in Files,
             \/ FuseRelease(file) \/ FuseReleasedir(file) \/ FuseRead(file)
             \/ FuseReaddir(file) \/ DokanCloseFile(file) \/ DokanReadFile(file)
      PROVE  /\ (Looks \/ Frees(file) \/ Reads(file)) /\ Unmoved /\ (Works \/ Breaks)
             /\ step = "serving" /\ exit = "none"
  BY <1>4 DEF FuseRelease, FuseReleasedir, FuseRead, FuseReaddir, DokanCloseFile,
              DokanReadFile, ReleaseEntry, ReadEntry, Looks, Frees, Reads
<1>5. ASSUME NEW path,
             FuseGetattr(path) \/ DokanGetFileInformation(path) \/ DokanFindFiles(path)
      PROVE  /\ (Looks \/ Finds) /\ Unmoved /\ (Works \/ Breaks)
             /\ step = "serving" /\ exit = "none"
  BY <1>5 DEF FuseGetattr, DokanGetFileInformation, DokanFindFiles, Stat, Looks, Finds
<1>6. CASE DokanGetVolumeInformation
  BY <1>6 DEF DokanGetVolumeInformation, Looks
<1>7. CASE List
  BY <1>7 DEF List
<1> QED
  BY <1>3, <1>4, <1>5, <1>6, <1>7 DEF Callback

(* The name of the only volume. *)
LEMMA NameOfFirst ==
    NameOf(0) \in Seq(Digit)
<1>1. DigitCount(1) = 1
  BY DEF DigitCount, MaxDigits
<1>2. Digits(1) = [n \in 1 .. 1 |-> (1 \div 10 ^ (1 - n)) % 10]
  BY <1>1 DEF Digits
<1>3. \A n \in 1 .. 1 : (1 \div 10 ^ (1 - n)) % 10 \in Digit
  BY DEF Digit
<1>4. Digits(1) \in [1 .. 1 -> Digit]
  BY <1>2, <1>3
<1>5. Digits(1) \in Seq(Digit)
  BY <1>4, SeqDef
<1>6. NameOf(0) = Digits(1)
  BY DEF NameOf, PathFromVolumeIndex, VolumePath
<1> QED
  BY <1>5, <1>6

LEMMA BeginListed ==
    ASSUME NEW entry \in {Root, 0}, NEW own \in BOOLEAN
    PROVE  /\ Begin(entry, own) \in Listings
           /\ Begin(entry, own).entry = entry
           /\ Begin(entry, own).own = IF own THEN entry ELSE NoEntry
           /\ Begin(entry, own).parent = NoEntry
           /\ Begin(entry, own).sub = NoEntry
           /\ Begin(entry, own).at = "dot"
<1>1. << >> \in Seq({".", ".."} \union Seq(Digit))
  OBVIOUS
<1>2. entry \in AnyEntry /\ NoEntry \in AnyEntry
  BY DEF AnyEntry, NoEntry, Root
<1> QED
  BY <1>1, <1>2 DEF Begin, Listings

(* A listing goes on, with other entries at hand, or it ends. *)
GoesOn ==
    /\ listing' # NoListing
    /\ entries' = entries + Cost(listing'.own) + Cost(listing'.parent) + Cost(listing'.sub)
                  - (Cost(listing.own) + Cost(listing.parent) + Cost(listing.sub))

LEMMA ListKept ==
    ASSUME appended, List, ListingInv, program = "bdemount", entries \in Int
    PROVE  /\ ListingInv'
           /\ GoesOn \/ (listing' = NoListing /\ entries' = entries - Cardinality(AtHand))
<1> USE NoListingAssumption DEF At, NoEntry, Root
<1>1. /\ UNCHANGED <<program, step, exit>>
      /\ step = "serving" /\ exit = "none"
      /\ listing # NoListing
  BY DEF List, Unmoved, control
<1>2. /\ listing \in Listings
      /\ listing.entry \in {Root, 0}
      /\ listing.at # "dotdot" => listing.parent = NoEntry
      /\ listing.at # "name" => listing.sub = NoEntry
      /\ listing.at = "name" => listing.sub = 0
  BY <1>1 DEF ListingInv
<1>3. NumberOfSubEntries(listing.entry, NumberOfVolumes) \in {0, 1}
  BY DEF NumberOfSubEntries, NumberOfVolumes, MaxListed
<1>4. /\ Filled(".") \in Seq({".", ".."} \union Seq(Digit))
      /\ Filled("..") \in Seq({".", ".."} \union Seq(Digit))
      /\ Filled(NameOf(0)) \in Seq({".", ".."} \union Seq(Digit))
  BY <1>2, NameOfFirst DEF Filled, Listings
<1>5. CASE ListDot
  <2>1. listing' \in Listings
    BY <1>2, <1>4, <1>5 DEF ListDot, Listings, ParentOf, AnyEntry
  <2>2. /\ listing'.at = "dotdot" /\ listing'.entry = listing.entry
        /\ listing'.own = listing.own /\ listing'.parent = ParentOf(listing.entry)
        /\ listing'.sub = listing.sub /\ listing.at = "dot"
    BY <1>2, <1>5 DEF ListDot, Listings
  <2>3. entries' = entries + Cost(ParentOf(listing.entry))
    BY <1>5 DEF ListDot, Cost
  <2> QED
    BY <1>1, <1>2, <2>1, <2>2, <2>3 DEF ListingInv, GoesOn, Cost
<1>6. CASE ListDotDot
  <2>1. listing' \in Listings
    BY <1>2, <1>4, <1>6 DEF ListDotDot, Listings, AnyEntry
  <2>2. /\ listing'.at = "sub" /\ listing'.entry = listing.entry
        /\ listing'.own = listing.own /\ listing'.parent = NoEntry
        /\ listing'.sub = listing.sub /\ listing.at = "dotdot"
    BY <1>2, <1>6 DEF ListDotDot, Listings
  <2>3. entries' = entries - Cost(listing.parent)
    BY <1>6 DEF ListDotDot, FreeParent, Cost
  <2> QED
    BY <1>1, <1>2, <2>1, <2>2, <2>3 DEF ListingInv, GoesOn, Cost
<1>7. CASE MakeSub
  <2>1. listing.at = "sub" /\ listing.index = 0
    BY <1>2, <1>3, <1>7 DEF MakeSub, Listings
  <2>2. listing' \in Listings
    BY <1>2, <1>7, <2>1 DEF MakeSub, Listings, AnyEntry
  <2>3. /\ listing'.at = "name" /\ listing'.entry = listing.entry
        /\ listing'.own = listing.own /\ listing'.parent = listing.parent
        /\ listing'.sub = 0
    BY <1>2, <1>7, <2>1 DEF MakeSub, Listings
  <2>4. entries' = entries + 1
    BY <1>7 DEF MakeSub
  <2> QED
    BY <1>1, <1>2, <2>1, <2>2, <2>3, <2>4 DEF ListingInv, GoesOn, Cost
<1>8. CASE FillSub
  <2>1. listing.at = "name" /\ listing.sub = 0
    BY <1>2, <1>8 DEF FillSub
  <2>2. listing' \in Listings
    <3>1. listing' = [listing EXCEPT !.at = "sub", !.sub = NoEntry, !.name = FALSE,
                                     !.index = listing.index + 1,
                                     !.filled = Filled(NameOf(0))]
      BY <1>8, <2>1 DEF FillSub
    <3>2. listing.index + 1 \in Nat /\ NoEntry \in AnyEntry
      BY <1>2 DEF Listings, AnyEntry
    <3> QED
      BY <1>2, <1>4, <3>1, <3>2 DEF Listings
  <2>3. /\ listing'.at = "sub" /\ listing'.entry = listing.entry
        /\ listing'.own = listing.own /\ listing'.parent = listing.parent
        /\ listing'.sub = NoEntry
    BY <1>2, <1>8 DEF FillSub, Listings
  <2>4. entries' = entries - 1
    BY <1>8 DEF FillSub
  <2> QED
    BY <1>1, <1>2, <2>1, <2>2, <2>3, <2>4 DEF ListingInv, GoesOn, Cost
<1>9. CASE EndListing \/ ListingFails
  BY <1>1, <1>9 DEF EndListing, ListingFails, ListingInv
<1> QED
  BY <1>5, <1>6, <1>7, <1>8, <1>9 DEF List

LEMMA CallbackKept ==
    ASSUME Common, program = "bdemount", MountInv, EntriesInv, Callback, UNCHANGED printing
    PROVE  Common' /\ MountInv' /\ EntriesInv'
<1> USE NoListingAssumption
<1>0. /\ Looks \/ Finds \/ List
         \/ \E file \in Files : Makes(file) \/ Frees(file) \/ Reads(file)
      /\ step = "serving" /\ exit = "none"
      /\ Unmoved
      /\ Works \/ Breaks
  BY CallbackDoes
<1>1. /\ failures' \in 0 .. MaxFailures
      /\ failures' = failures \/ failures' = failures + 1
      /\ failures \in Nat /\ failures' \in Nat
  BY <1>0, FailuresCounted DEF Common, Shared
<1>2. /\ UNCHANGED <<program, options, step, stack, exit, handle, fileIo, volume, presented,
                     typed, misused, binding, appended, fuse>>
  BY <1>0 DEF Unmoved, control
<1>3. Common'
  BY <1>1, <1>2 DEF Common, Shared, OpeningInv, PresentedInv, Reached, Asking
<1>4. MountInv'
  BY <1>0, <1>1, <1>2
     DEF MountInv, MountStarts, MountEnds, MountDestroys, MountFrees, MountExits,
         MountSteps, OpeningSteps, Asking, NothingOpen, AllOpen, HalfOpen, OnlyHandle, printing
<1>5. appended
  BY <1>0 DEF MountInv, MountStarts, AllOpen
<1>6. /\ entryOf \in [Files -> Entered] /\ IsFiniteSet(Held)
      /\ entries = Cardinality(Held) + Cardinality(Pending)
      /\ ListingInv
      /\ Cardinality(Held) \in Nat
  BY FS_CardinalityType DEF EntriesInv, EntriesOwned
<1>7. entries \in Int /\ Cardinality(Pending) \in Nat
  BY <1>6, EntriesCounted DEF Cost
<1>8. /\ entryOf' \in [Files -> Entered] /\ IsFiniteSet(Held')
      /\ EntriesOwned' /\ ListingInv'
  <2>1. CASE Looks
    BY <1>0, <1>2, <1>6, <2>1 DEF Looks, ListingInv, EntriesOwned, Held, Pending, At
  <2>2. CASE Finds
    <3>0. PICK path : /\ IsEntry(EntryByPath(path))
                      /\ listing' = Begin(EntryByPath(path), TRUE)
      BY <2>2 DEF Finds
    <3>1. PICK entry \in {Root, 0} : listing' = Begin(entry, TRUE)
      BY <1>5, <3>0, EntryMade
    <3>2. /\ entries' = entries + 1 /\ listing = NoListing
          /\ entryOf' = entryOf /\ Held' = Held
      BY <2>2 DEF Finds, Held
    <3>3. /\ listing' # NoListing /\ ListingInv'
          /\ Cost(listing'.own) = 1 /\ Cost(listing'.parent) = 0 /\ Cost(listing'.sub) = 0
      <4>1. /\ listing' \in Listings /\ listing'.entry = entry /\ listing'.own = entry
            /\ listing'.parent = NoEntry /\ listing'.sub = NoEntry /\ listing'.at = "dot"
        BY <3>1, BeginListed
      <4> QED
        BY <1>0, <1>2, <4>1 DEF ListingInv, At, Cost, NoEntry, Root
    <3>4. Cardinality(Pending') = 1 /\ Cardinality(Pending) = 0
      BY <3>2, <3>3, EntriesCounted
    <3> QED
      BY <1>6, <3>2, <3>3, <3>4 DEF EntriesOwned
  <2>3. CASE List
    <3>1. /\ ListingInv'
          /\ GoesOn \/ (listing' = NoListing /\ entries' = entries - Cardinality(AtHand))
      BY <1>5, <1>6, <1>7, <2>3, ListKept
    <3>2. entryOf' = entryOf /\ Held' = Held /\ listing # NoListing
      BY <2>3 DEF List, Held
    <3>3. /\ listing' = NoListing => Cardinality(Pending') = 0
          /\ listing' # NoListing =>
                Cardinality(Pending') =
                    Cost(listing'.own) + Cost(listing'.parent) + Cost(listing'.sub)
      BY EntriesCounted, <3>2
    <3>4. /\ Cardinality(Pending) =
                Cost(listing.own) + Cost(listing.parent) + Cost(listing.sub)
          /\ Cardinality(AtHand) = Cardinality(Pending)
      BY EntriesCounted, <3>2
    <3>5. \A entry : Cost(entry) \in {0, 1}
      BY DEF Cost
    <3>6. entries' = Cardinality(Held') + Cardinality(Pending')
      <4>1. CASE GoesOn
        BY <1>6, <3>2, <3>3, <3>4, <3>5, <4>1 DEF GoesOn
      <4>2. CASE listing' = NoListing /\ entries' = entries - Cardinality(AtHand)
        BY <1>6, <1>7, <3>2, <3>3, <3>4, <4>2
      <4> QED
        BY <3>1, <4>1, <4>2
    <3> QED
      BY <1>6, <3>1, <3>2, <3>6 DEF EntriesOwned
  <2>4. ASSUME NEW file \in Files, Makes(file)
        PROVE  /\ entryOf' \in [Files -> Entered] /\ IsFiniteSet(Held')
               /\ EntriesOwned' /\ ListingInv'
    <3>1. PICK entry \in {Root, 0} : entryOf' = [entryOf EXCEPT ![file] = entry]
      BY <1>5, <2>4, EntryMade DEF Makes
    <3>2. /\ IsFiniteSet(Held') /\ Cardinality(Held') = Cardinality(Held) + 1
          /\ entryOf' \in [Files -> Entered]
      BY <1>6, <2>4, <3>1, HeldMakes DEF Makes
    <3>3. ListingInv' /\ Pending' = Pending /\ entries' = entries + 1
      BY <2>4 DEF Makes, Pending, ListingInv
    <3> QED
      BY <1>6, <1>7, <3>2, <3>3 DEF EntriesOwned
  <2>5. ASSUME NEW file \in Files, Frees(file)
        PROVE  /\ entryOf' \in [Files -> Entered] /\ IsFiniteSet(Held')
               /\ EntriesOwned' /\ ListingInv'
    <3>1. /\ IsFiniteSet(Held') /\ Cardinality(Held') = Cardinality(Held) - 1
          /\ entryOf' \in [Files -> Entered]
      BY <1>6, <2>5, HeldFrees DEF Frees
    <3>2. ListingInv' /\ Pending' = Pending /\ entries' = entries - 1
      BY <2>5 DEF Frees, Pending, ListingInv
    <3> QED
      BY <1>6, <1>7, <3>1, <3>2 DEF EntriesOwned
  <2>6. ASSUME NEW file \in Files, Reads(file)
        PROVE  /\ entryOf' \in [Files -> Entered] /\ IsFiniteSet(Held')
               /\ EntriesOwned' /\ ListingInv'
    <3>1. /\ entryOf[file] \in {Root, 0} /\ listing = NoListing
          /\ listing' = Begin(entryOf[file], FALSE)
          /\ entryOf' = entryOf /\ Held' = Held /\ entries' = entries
      BY <1>6, <2>6 DEF Reads, Entered, Held
    <3>2. /\ listing' # NoListing /\ ListingInv'
          /\ Cost(listing'.own) = 0 /\ Cost(listing'.parent) = 0 /\ Cost(listing'.sub) = 0
      BY <1>0, <1>2, <3>1, BeginListed DEF ListingInv, At, Cost
    <3>3. Cardinality(Pending') = 0 /\ Cardinality(Pending) = 0
      <4>1. listing = NoListing
        BY <3>1
      <4>2. Cardinality(Pending') = 0 + 0 + 0
        BY <3>2, EntriesCounted
      <4> QED
        BY <4>1, <4>2, EntriesCounted
    <3> QED
      BY <1>6, <3>1, <3>2, <3>3 DEF EntriesOwned
  <2> QED
    BY <1>0, <2>1, <2>2, <2>3, <2>4, <2>5, <2>6
<1>9. EntriesInv'
  BY <1>0, <1>2, <1>8 DEF EntriesInv, BeforeServing, OpeningSteps, Asking
<1> QED
  BY <1>3, <1>4, <1>9

(* Nobody else touches the entries. *)
LEMMA EntriesLeft ==
    ASSUME EntriesInv, UNCHANGED <<program, entryOf, entries, listing>>,
           listing # NoListing => step' = step /\ exit' = exit,
           step' \in BeforeServing => Held = {},
           step' # "serving" \/ exit' # "none" => Held = {} \/ failures' >= 1
    PROVE  EntriesInv'
<1>1. Held' = Held /\ Pending' = Pending
  BY DEF Held, Pending
<1> QED
  BY <1>1 DEF EntriesInv, EntriesOwned, ListingInv, At

-----------------------------------------------------------------------------
(* bdeinfo: main *)

LEMMA InfoStacksDiffer ==
    /\ InfoFreeCloses(MainFrees) # InfoCloses /\ MainFrees # InfoFrees
    /\ InfoFreeCloses(MainFrees) \in Seq(Frames)
  BY CallersReturn, CalleesReturn DEF Returns

InfoCommon == Common /\ program = "bdeinfo" /\ InfoInv /\ PrintedInv

(* Nothing is printed by main. *)
LEMMA PrintedKept ==
    ASSUME PrintedInv, UNCHANGED <<printed, index>>,
           step' \notin PrintingSteps \ PrintedBefore,
           step' \in PrintedBefore => step \in PrintedBefore,
           PrintingDone' => PrintingDone
    PROVE  PrintedInv'
<1>1. Lines(1, 1, 1, Protectors, 1)' = Lines(1, 1, 1, Protectors, 1)
  BY DEF Lines, Count
<1> QED
  BY <1>1 DEF PrintedInv, PrintingSteps, PrintedBefore, OpeningSteps, Asking

LEMMA InfoStartsKept ==
    ASSUME InfoCommon, UNCHANGED mounted,
           InfoOptions \/ InitializeInfoHandle \/ SetInfoOptions \/ InfoHandleOpen
    PROVE  InfoCommon'
<1> USE DEF InfoCommon, Common, Shared, OpeningInv, PresentedInv, Asking, Reached, mounted,
            InfoInv, InfoStarts, InfoEnds, ObjectsInv, InfoExits, LeftOpen, NoVolume,
            InfoSteps, PrintingSteps, OpeningSteps
<1>0. /\ UNCHANGED <<program, options, fileIo, volume, presented, typed, misused>>
      /\ UNCHANGED printing /\ exit = "none"
  BY DEF InfoOptions, InitializeInfoHandle, SetInfoOptions, InfoHandleOpen, Aside, At
<1> HIDE DEF InfoInv
<1>1. UNCHANGED <<printed, identifier, text, protector, index>>
  BY <1>0 DEF printing
<1> USE DEF InfoInv
<1>2. CASE InfoOptions
  <2>1. step = "options" /\ UNCHANGED <<handle, failures, stack>>
    BY <1>2 DEF InfoOptions, Works, Goto, ExitWith, At
  <2>2. \/ step' = "options" /\ exit' \in {"success", "failure"}
        \/ step' = "initialize" /\ exit' = "none"
    BY <1>2 DEF InfoOptions, Goto, ExitWith, At
  <2>3. PrintedInv'
    BY <1>1, PrintedKept, <2>1, <2>2 DEF PrintedBefore, PrintingDone
  <2> QED
    BY <1>0, <1>1, <2>1, <2>2, <2>3
<1>3. CASE InitializeInfoHandle
  <2>1. step = "initialize" /\ UNCHANGED <<stack, exit>>
    BY <1>3 DEF InitializeInfoHandle, Goto, At
  <2>2. \/ step' = "set_options" /\ handle' = "live" /\ failures' = failures
        \/ step' = "on_error" /\ handle' = handle
           /\ failures' = failures + 1 /\ failures' \in 0 .. MaxFailures
    BY <1>3, FailuresCounted DEF InitializeInfoHandle, Goto
  <2>3. PrintedInv'
    BY <1>1, PrintedKept, <2>1, <2>2 DEF PrintedBefore, PrintingDone
  <2> QED
    BY <1>0, <1>1, <2>1, <2>2, <2>3
<1>4. CASE SetInfoOptions
  <2>1. step = "set_options" /\ UNCHANGED <<handle, failures, exit>>
    BY <1>4 DEF SetInfoOptions, Works, Goto, Call, At
  <2>2. \/ step' = "new_file_range" /\ stack' = InfoOpens
        \/ step' = "on_error" /\ stack' = stack
    BY <1>4, <2>1, CallPushes DEF SetInfoOptions, Goto, Call, InfoOpens
  <2>3. stack' \in Seq(Frames)
    BY <2>2, StacksKnown
  <2>4. PrintedInv'
    BY <1>1, PrintedKept, <2>1, <2>2 DEF PrintedBefore, PrintingDone
  <2> QED
    BY <1>0, <1>1, <2>1, <2>2, <2>3, <2>4
<1>5. CASE InfoHandleOpen
  <2>1. /\ step \in {"opened", "still_locked"}
        /\ UNCHANGED <<handle, failures, exit>>
    BY <1>5 DEF InfoHandleOpen, Works, Succeed, ReturnTo, At
  <2>2. step' = "print_identifier" /\ stack' = << >>
    BY <1>5, <2>1, CallersReturn DEF InfoHandleOpen, Succeed, ReturnTo, Returns
  <2>3. stack' \in Seq(Frames)
    BY <2>2, StacksKnown
  <2>4. PrintedInv'
    BY <1>1, PrintedKept, <2>1, <2>2 DEF PrintedBefore, PrintingDone
  <2> QED
    BY <1>0, <1>1, <2>1, <2>2, <2>3, <2>4
<1> QED
  BY <1>2, <1>3, <1>4, <1>5

LEMMA InfoFreesKept ==
    ASSUME InfoCommon, UNCHANGED mounted,
           CloseInfo \/ FreeInfo \/ FreeInfoLast \/ MainCalls
    PROVE  InfoCommon'
<1> USE DEF InfoCommon, Common, Shared, OpeningInv, PresentedInv, Asking, Reached, mounted,
            InfoInv, InfoStarts, InfoEnds, ObjectsInv, InfoExits, LeftOpen, NoVolume,
            InfoSteps, PrintingSteps, OpeningSteps
<1>0. /\ UNCHANGED <<program, options, presented, typed, misused>>
      /\ UNCHANGED printing /\ exit = "none"
  BY DEF CloseInfo, FreeInfo, FreeInfoLast, MainCalls, Aside, At
<1> HIDE DEF InfoInv
<1>1. UNCHANGED <<printed, identifier, text, protector, index>>
  BY <1>0 DEF printing
<1> USE DEF InfoInv
<1>2. CASE CloseInfo
  <2>1. step = "close" /\ volume' = "absent" /\ UNCHANGED <<handle, exit>>
    BY <1>2 DEF CloseInfo, FreeVolume, LifeCycle!Free, Succeed, Fail, ReturnTo, At
  <2>2. \/ Succeed /\ fileIo' = "none" /\ failures' = failures
        \/ Fail /\ fileIo' \in {"none", "live"}
           /\ failures' = failures + 1 /\ failures' \in 0 .. MaxFailures
    BY <1>2, FailuresCounted DEF CloseInfo
  <2>3. volume' \in LifeCycle!States
    BY <2>1 DEF LifeCycle!States
  <2>4. CASE stack = InfoCloses
    <3>1. \/ step' = "closed" /\ Succeed
          \/ step' = "on_error" /\ Fail
      BY <2>2, <2>4, CallersReturn DEF Succeed, Fail, ReturnTo, Returns
    <3>2. stack' = << >> /\ stack' \in Seq(Frames)
      BY <2>2, <2>4, CallersReturn, StacksKnown DEF Succeed, Fail, ReturnTo, Returns
    <3>3. \/ step' = "closed" /\ fileIo' = "none" /\ failures' = failures
          \/ step' = "on_error" /\ fileIo' = "none" /\ failures' = failures
          \/ step' = "on_error" /\ fileIo' \in {"none", "live"}
             /\ failures' = failures + 1 /\ failures' \in 0 .. MaxFailures
      BY <2>2, <2>4, CallersReturn DEF Succeed, Fail, ReturnTo, Returns
    <3>4. PrintedInv'
      BY <1>1, PrintedKept, <2>1, <2>4, <3>2, <3>3 DEF PrintedBefore, PrintingDone
    <3> QED
      BY <1>0, <1>1, <2>1, <2>3, <2>4, <3>2, <3>3, <3>4
  <2>5. CASE stack = InfoFreeCloses(MainFrees) /\ failures >= 1
    <3>1. step' = "info_free_last" /\ stack' = MainFrees /\ stack' \in Seq(Frames)
      BY <2>2, <2>5, CalleesReturn, StacksKnown DEF Succeed, Fail, ReturnTo, Returns
    <3>2. /\ fileIo' \in {"none", "live"}
          /\ failures' = failures \/ (failures' = failures + 1 /\ failures' \in 0 .. MaxFailures)
      BY <2>2
    <3>3. PrintedInv'
      BY <1>1, PrintedKept, <2>1, <3>1, InfoStacksDiffer DEF PrintedBefore, PrintingDone
    <3> QED
      BY <1>0, <1>1, <2>1, <2>3, <2>5, <3>1, <3>2, <3>3
  <2> QED
    BY <2>1, <2>4, <2>5
<1>3. CASE FreeInfo
  <2>1. step = "info_free" /\ UNCHANGED <<handle, fileIo, volume, failures, exit>>
    BY <1>3 DEF FreeInfo, Works, Goto, Call, At
  <2>2. CASE fileIo = "live"
    <3>1. stack = MainFrees
      BY <2>1, <2>2
    <3>2. step' = "close" /\ stack' = InfoFreeCloses(MainFrees)
      BY <1>3, <2>2, <3>1, CallPushes DEF FreeInfo, Call, InfoFreeCloses
    <3>3. stack' \in Seq(Frames)
      BY <3>2, InfoStacksDiffer
    <3>4. PrintedInv'
      BY <1>1, PrintedKept, <2>1, <3>2, InfoStacksDiffer DEF PrintedBefore, PrintingDone
    <3> QED
      BY <1>0, <1>1, <2>1, <2>2, <3>1, <3>2, <3>3, <3>4
  <2>3. CASE fileIo = "none"
    <3>1. step' = "info_free_last" /\ stack' = stack
      BY <1>3, <2>3 DEF FreeInfo, Goto
    <3>2. PrintedInv'
      BY <1>1, PrintedKept, <2>1, <3>1 DEF PrintedBefore, PrintingDone
    <3> QED
      BY <1>0, <1>1, <2>1, <2>3, <3>1, <3>2
  <2> QED
    BY <2>2, <2>3
<1>4. CASE FreeInfoLast
  <2>1. step = "info_free_last" /\ handle' = "none" /\ UNCHANGED <<fileIo, volume, failures, exit>>
    BY <1>4 DEF FreeInfoLast, Works, Succeed, ReturnTo, At
  <2>2. \/ stack = InfoFrees /\ NoVolume /\ step' = "exit_success" /\ stack' = << >>
        \/ stack = MainFrees /\ LeftOpen /\ step' = "exit_failure" /\ stack' = << >>
    BY <1>4, <2>1, CallersReturn DEF FreeInfoLast, Succeed, ReturnTo, Returns
  <2>3. stack' \in Seq(Frames)
    BY <2>2, StacksKnown
  <2>4. PrintedInv'
    BY <1>1, PrintedKept, <2>1, <2>2 DEF PrintedBefore, PrintingDone
  <2> QED
    BY <1>0, <1>1, <2>1, <2>2, <2>3, <2>4
<1>5. CASE MainCalls
  <2>1. UNCHANGED <<handle, fileIo, volume, failures>>
    BY <1>5 DEF MainCalls, Works
  <2>2. \/ step = "printed" /\ step' = "close" /\ stack' = InfoCloses /\ exit' = exit
        \/ step = "closed" /\ step' = "info_free" /\ stack' = InfoFrees /\ exit' = exit
        \/ /\ step = "on_error" /\ handle = "live"
           /\ step' = "info_free" /\ stack' = MainFrees /\ exit' = exit
        \/ /\ step = "on_error" /\ handle # "live"
           /\ step' = "exit_failure" /\ stack' = stack /\ exit' = exit
        \/ step = "exit_success" /\ exit' = "success" /\ step' = step /\ stack' = stack
        \/ step = "exit_failure" /\ exit' = "failure" /\ step' = step /\ stack' = stack
    BY <1>5, CallPushes DEF MainCalls, Call, Goto, ExitWith, At, InfoCloses, InfoFrees, MainFrees
  <2>3. stack' \in Seq(Frames)
    BY <2>2, StacksKnown
  <2>4. PrintedInv'
    BY <1>1, PrintedKept, <2>2, InfoStacksDiffer DEF PrintedBefore, PrintingDone
  <2> QED
    BY <1>0, <1>1, <2>1, <2>2, <2>3, <2>4
<1> QED
  BY <1>2, <1>3, <1>4, <1>5

-----------------------------------------------------------------------------
(* bdeinfo: printing *)

LEMMA CountAppended ==
    ASSUME printed \in Seq(AllLines), NEW line \in AllLines, printed' = Append(printed, line)
    PROVE  /\ printed' \in Seq(AllLines)
           /\ \A l : Count(l)' = Count(l) + (IF l = line THEN 1 ELSE 0) /\ Count(l) \in Nat
<1>1. printed' \in Seq(AllLines) /\ Len(printed') = Len(printed) + 1 /\ Len(printed) \in Nat
  OBVIOUS
<1>2. /\ \A n \in 1 .. Len(printed) : printed'[n] = printed[n]
      /\ printed'[Len(printed) + 1] = line
  OBVIOUS
<1>3. ASSUME NEW l
      PROVE  Count(l)' = Count(l) + (IF l = line THEN 1 ELSE 0) /\ Count(l) \in Nat
  <2> DEFINE before == {n \in 1 .. Len(printed) : printed[n] = l}
             after == {n \in 1 .. Len(printed') : printed'[n] = l}
  <2>0. Count(l) = Cardinality(before) /\ Count(l)' = Cardinality(after)
    BY DEF Count
  <2>1. IsFiniteSet(before) /\ Cardinality(before) \in Nat
    <3>1. IsFiniteSet(1 .. Len(printed))
      BY <1>1, FS_Interval
    <3>2. IsFiniteSet(before)
      BY <3>1, FS_Subset
    <3> QED
      BY <3>2, FS_CardinalityType
  <2>2. CASE l = line
    <3>1. after = before \union {Len(printed) + 1}
      BY <1>1, <1>2, <2>2
    <3>2. Len(printed) + 1 \notin before
      BY <1>1
    <3>3. Cardinality(after) = Cardinality(before) + 1
      BY <2>1, <3>1, <3>2, FS_AddElement
    <3> HIDE DEF before, after
    <3> QED
      BY <2>0, <2>1, <2>2, <3>3
  <2>3. CASE l # line
    <3>1. after = before
      BY <1>1, <1>2, <2>3
    <3>2. Cardinality(after) = Cardinality(before)
      BY <3>1
    <3> HIDE DEF before, after
    <3> QED
      BY <2>0, <2>1, <2>3, <3>2
  <2> QED
    BY <2>2, <2>3
<1> QED
  BY <1>1, <1>3

(* What a line that is printed, and one that is not, do to the counts.     *)
LEMMA LinesShown ==
    ASSUME printed \in Seq(AllLines), NEW line \in AllLines, Shown(line),
           NEW i, NEW m, NEW t, NEW p, NEW s, Lines(i, m, t, p, s)
    PROVE  /\ printed' \in Seq(AllLines)
           /\ line = "identifier" => Lines(i + 1, m, t, p, s)'
           /\ line = "method" => Lines(i, m + 1, t, p, s)'
           /\ line = "time" => Lines(i, m, t + 1, p, s)'
           /\ line = "protector" => Lines(i, m, t, p + 1, s)'
           /\ line \in {"size", "locked"} => Lines(i, m, t, p, s + 1)'
           /\ line \in {"description", "count"} => Lines(i, m, t, p, s)'
<1>1. /\ printed' \in Seq(AllLines)
      /\ \A l : Count(l)' = Count(l) + (IF l = line THEN 1 ELSE 0) /\ Count(l) \in Nat
  BY CountAppended DEF Shown
<1> QED
  BY <1>1 DEF Lines

LEMMA LinesKept ==
    ASSUME printed' = printed, NEW i, NEW m, NEW t, NEW p, NEW s, Lines(i, m, t, p, s)
    PROVE  Lines(i, m, t, p, s)'
  BY DEF Lines, Count

LEMMA NothingPrinted ==
    ASSUME printed = << >>
    PROVE  printed \in Seq(AllLines) /\ Lines(0, 0, 0, 0, 0)
<1>1. \A l : {n \in 1 .. Len(printed) : printed[n] = l} = {}
  OBVIOUS
<1>2. \A l : Count(l) = 0
  BY <1>1, FS_EmptySet DEF Count
<1> QED
  BY <1>2 DEF Lines

(* An error while a line is printed. *)
PrintingStops ==
    /\ Breaks /\ Goto("on_error")
    /\ ~identifier' /\ ~text' /\ ~protector'
    /\ UNCHANGED <<printed, index>>

LEMMA PrintingStopsKept ==
    ASSUME InfoCommon, PrintingStops, step \in PrintingSteps, exit = "none",
           UNCHANGED <<mounted, program, options, presented, typed, misused>>,
           UNCHANGED <<handle, fileIo, volume>>
    PROVE  InfoCommon'
<1> USE DEF InfoCommon, Common, Shared, OpeningInv, PresentedInv, Asking, Reached, mounted,
            InfoInv, InfoStarts, InfoEnds, ObjectsInv, InfoExits, LeftOpen, NoVolume,
            InfoSteps, PrintingSteps, OpeningSteps
<1>1. /\ step' = "on_error" /\ UNCHANGED <<stack, exit>>
      /\ failures' = failures + 1 /\ failures' \in 0 .. MaxFailures
      /\ ~identifier' /\ ~text' /\ ~protector' /\ UNCHANGED <<printed, index>>
  BY FailuresCounted DEF PrintingStops, Goto
<1>2. PrintedInv'
  BY <1>1, PrintedKept DEF PrintedBefore, PrintingDone
<1> QED
  BY <1>1, <1>2

LEMMA PrintingFailsKept ==
    ASSUME InfoCommon, PrintingFails, step \in PrintingSteps, exit = "none",
           UNCHANGED <<mounted, program, options, presented, typed, misused>>,
           UNCHANGED <<handle, fileIo, volume>>
    PROVE  InfoCommon'
<1>1. PrintingStops
  BY DEF PrintingFails, PrintingStops
<1> QED
  BY <1>1, PrintingStopsKept

(* From one line to the same or to another. *)
PrintingGoesOn ==
    /\ step \in PrintingSteps /\ step' \in PrintingSteps \union {"printed"}
    /\ UNCHANGED <<failures, stack, exit>>

LEMMA PrintingGoesOnKept ==
    ASSUME InfoCommon, PrintingGoesOn, exit = "none", ObjectsInv', PrintedInv',
           UNCHANGED <<mounted, program, options, presented, typed, misused>>,
           UNCHANGED <<handle, fileIo, volume>>
    PROVE  InfoCommon'
  BY DEF InfoCommon, Common, Shared, OpeningInv, PresentedInv, Asking, Reached, mounted,
         InfoInv, InfoStarts, InfoEnds, ObjectsInv, InfoExits, LeftOpen, NoVolume,
         InfoSteps, PrintingSteps, OpeningSteps, PrintingGoesOn

LEMMA ConvertedKept ==
    ASSUME InfoCommon, NEW from \in {"print_identifier", "print_time"}, NEW to, NEW line,
           Converted(from, to, line),
           UNCHANGED <<mounted, program, options, presented, typed, misused>>,
           UNCHANGED <<handle, fileIo, volume>>,
           \/ from = "print_identifier" /\ to = "print_size" /\ line = "identifier"
           \/ from = "print_time" /\ to = "print_description" /\ line = "time"
    PROVE  InfoCommon'
<1>1. /\ step = from /\ exit = "none" /\ line \in AllLines
      /\ step \in PrintingSteps /\ to \in PrintingSteps
  BY DEF Converted, At, PrintingSteps, AllLines
<1>2. CASE /\ ~identifier
           /\ Works /\ Goto(from) /\ identifier' = TRUE
           /\ UNCHANGED <<printed, text, protector, index>>
  <2>1. PrintingGoesOn
    BY <1>1, <1>2 DEF PrintingGoesOn, Works, Goto
  <2>2. ObjectsInv'
    BY <1>1, <1>2 DEF InfoCommon, InfoInv, ObjectsInv, Goto
  <2>3. PrintedInv'
    <3>1. /\ step' = step /\ UNCHANGED <<printed, index, volume>>
      BY <1>1, <1>2 DEF Goto
    <3>2. /\ Lines(1, 1, 0, 0, 0) => Lines(1, 1, 0, 0, 0)'
          /\ Lines(1, 1, 0, 0, 1) => Lines(1, 1, 0, 0, 1)'
      BY <3>1, LinesKept
    <3> QED
      BY <1>1, <3>1, <3>2
         DEF InfoCommon, PrintedInv, PrintedBefore, OpeningSteps, Asking, PrintingDone, SizeKnown
  <2> QED
    BY <1>1, <2>1, <2>2, <2>3, PrintingGoesOnKept
<1>3. CASE /\ identifier
           /\ Works /\ Goto(to) /\ identifier' = FALSE /\ Shown(line)
           /\ UNCHANGED <<text, protector, index>>
  <2>1. PrintingGoesOn
    BY <1>1, <1>3 DEF PrintingGoesOn, Works, Goto
  <2>2. ObjectsInv'
    BY <1>1, <1>3 DEF InfoCommon, InfoInv, ObjectsInv, Goto
  <2>3. PrintedInv'
    <3>1. printed \in Seq(AllLines) /\ index \in 0 .. Protectors
      BY DEF InfoCommon, PrintedInv
    <3>2. CASE from = "print_identifier"
      <4>1. Lines(0, 0, 0, 0, 0) /\ index = 0 /\ index' = 0
        BY <1>1, <1>3, <3>2, NothingPrinted DEF InfoCommon, PrintedInv, PrintedBefore
      <4>2. Lines(0 + 1, 0, 0, 0, 0)' /\ printed' \in Seq(AllLines)
        BY <1>1, <1>3, <3>1, <3>2, <4>1, LinesShown
      <4> QED
        BY <1>1, <1>3, <3>1, <3>2, <4>1, <4>2
           DEF PrintedInv, PrintedBefore, OpeningSteps, Asking, PrintingDone, Goto
    <3>3. CASE from = "print_time"
      <4>1. Lines(1, 1, 0, 0, SizeKnown) /\ index = 0 /\ index' = 0
        BY <1>1, <1>3, <3>3 DEF InfoCommon, PrintedInv
      <4>2. Lines(1, 1, 0 + 1, 0, SizeKnown)' /\ printed' \in Seq(AllLines)
        <5>1. Lines(1, 1, 0, 0, 0) => Lines(1, 1, 0 + 1, 0, 0)'
          BY <1>1, <1>3, <3>1, <3>3, LinesShown
        <5>2. Lines(1, 1, 0, 0, 1) => Lines(1, 1, 0 + 1, 0, 1)'
          BY <1>1, <1>3, <3>1, <3>3, LinesShown
        <5>3. printed' \in Seq(AllLines)
          BY <1>1, <1>3, <3>1, CountAppended DEF Shown
        <5> QED
          BY <4>1, <5>1, <5>2, <5>3 DEF SizeKnown
      <4> QED
        BY <1>1, <1>3, <3>1, <3>3, <4>1, <4>2
           DEF PrintedInv, PrintedBefore, OpeningSteps, Asking, PrintingDone, Goto
    <3> QED
      BY <3>2, <3>3
  <2> QED
    BY <1>1, <2>1, <2>2, <2>3, PrintingGoesOnKept
<1>4. CASE PrintingFails
  BY <1>1, <1>4, PrintingFailsKept
<1> QED
  BY <1>2, <1>3, <1>4 DEF Converted

LEMMA PrintSizeKept ==
    ASSUME InfoCommon, PrintSize,
           UNCHANGED <<mounted, program, options, presented, typed, misused>>,
           UNCHANGED <<handle, fileIo, volume>>
    PROVE  InfoCommon'
<1>1. /\ step = "print_size" /\ exit = "none" /\ step \in PrintingSteps
      /\ UNCHANGED <<identifier, text, protector, index>>
  BY DEF PrintSize, At, PrintingSteps
<1>2. printed \in Seq(AllLines) /\ Lines(1, 0, 0, 0, 0) /\ index = 0
  BY <1>1 DEF InfoCommon, PrintedInv
<1>3. ~identifier /\ ~text /\ ~protector
  BY <1>1 DEF InfoCommon, InfoInv, ObjectsInv
<1>4. CASE /\ Works /\ Goto("print_method")
           /\ IF volume = "unlocked" THEN Shown("size") ELSE UNCHANGED printed
  <2>1. PrintingGoesOn
    BY <1>1, <1>4 DEF PrintingGoesOn, PrintingSteps, Works, Goto
  <2>2. ObjectsInv'
    BY <1>1, <1>3, <1>4 DEF InfoCommon, InfoInv, ObjectsInv, Goto
  <2>3. printed' \in Seq(AllLines) /\ Lines(1, 0, 0, 0, SizeKnown)'
    <3>1. CASE volume = "unlocked"
      <4>1. printed' \in Seq(AllLines) /\ Lines(1, 0, 0, 0, 0 + 1)'
        BY <1>2, <1>4, <3>1, LinesShown DEF AllLines
      <4> QED
        BY <3>1, <4>1 DEF SizeKnown
    <3>2. CASE volume # "unlocked"
      <4>1. printed' = printed /\ Lines(1, 0, 0, 0, 0)'
        BY <1>2, <1>4, <3>2, LinesKept
      <4> QED
        BY <1>2, <3>2, <4>1 DEF SizeKnown
    <3> QED
      BY <3>1, <3>2
  <2>4. PrintedInv'
    BY <1>1, <1>2, <1>4, <2>3, ProtectorsAssumption
       DEF PrintedInv, PrintedBefore, OpeningSteps, Asking, PrintingDone, Goto
  <2> QED
    BY <1>1, <2>1, <2>2, <2>4, PrintingGoesOnKept
<1>5. CASE Breaks /\ Goto("on_error") /\ UNCHANGED printed
  <2>1. PrintingStops
    BY <1>1, <1>3, <1>5 DEF PrintingStops
  <2> QED
    BY <1>1, <2>1, PrintingStopsKept
<1> QED
  BY <1>4, <1>5 DEF PrintSize

LEMMA PrintMethodKept ==
    ASSUME InfoCommon, PrintMethod,
           UNCHANGED <<mounted, program, options, presented, typed, misused>>,
           UNCHANGED <<handle, fileIo, volume>>
    PROVE  InfoCommon'
<1>1. step = "print_method" /\ exit = "none" /\ step \in PrintingSteps
  BY DEF PrintMethod, At, PrintingSteps
<1>2. printed \in Seq(AllLines) /\ Lines(1, 0, 0, 0, SizeKnown) /\ index = 0
  BY <1>1 DEF InfoCommon, PrintedInv
<1>3. CASE /\ Works /\ Goto("print_time") /\ Shown("method")
           /\ UNCHANGED <<identifier, text, protector, index>>
  <2>1. PrintingGoesOn
    BY <1>1, <1>3 DEF PrintingGoesOn, PrintingSteps, Works, Goto
  <2>2. ObjectsInv'
    BY <1>1, <1>3 DEF InfoCommon, InfoInv, ObjectsInv, Goto
  <2>3. printed' \in Seq(AllLines) /\ Lines(1, 1, 0, 0, SizeKnown)'
    <3>1. Lines(1, 0, 0, 0, 0) => Lines(1, 0 + 1, 0, 0, 0)'
      BY <1>2, <1>3, LinesShown DEF AllLines
    <3>2. Lines(1, 0, 0, 0, 1) => Lines(1, 0 + 1, 0, 0, 1)'
      BY <1>2, <1>3, LinesShown DEF AllLines
    <3>3. printed' \in Seq(AllLines)
      BY <1>2, <1>3, CountAppended DEF Shown, AllLines
    <3> QED
      BY <1>2, <3>1, <3>2, <3>3 DEF SizeKnown
  <2>4. PrintedInv'
    BY <1>2, <1>3, <2>3, ProtectorsAssumption
       DEF PrintedInv, PrintedBefore, OpeningSteps, Asking, PrintingDone, Goto
  <2> QED
    BY <1>1, <2>1, <2>2, <2>4, PrintingGoesOnKept
<1>4. CASE PrintingFails
  BY <1>1, <1>4, PrintingFailsKept
<1> QED
  BY <1>3, <1>4 DEF PrintMethod

LEMMA PrintDescriptionKept ==
    ASSUME InfoCommon, PrintDescription,
           UNCHANGED <<mounted, program, options, presented, typed, misused>>,
           UNCHANGED <<handle, fileIo, volume>>
    PROVE  InfoCommon'
<1>1. step = "print_description" /\ exit = "none" /\ step \in PrintingSteps
  BY DEF PrintDescription, At, PrintingSteps
<1>2. printed \in Seq(AllLines) /\ Lines(1, 1, 1, 0, SizeKnown) /\ index = 0
  BY <1>1 DEF InfoCommon, PrintedInv
<1>3. CASE /\ step' \in {"print_description", "print_count"} /\ UNCHANGED <<stack, exit>>
           /\ Works /\ UNCHANGED <<identifier, protector, index>>
           /\ text' => step' = "print_description"
           /\ printed' = printed \/ Shown("description")
  <2>1. PrintingGoesOn
    BY <1>1, <1>3 DEF PrintingGoesOn, PrintingSteps, Works
  <2>2. ObjectsInv'
    BY <1>1, <1>3 DEF InfoCommon, InfoInv, ObjectsInv
  <2>3. printed' \in Seq(AllLines) /\ Lines(1, 1, 1, 0, SizeKnown)'
    <3>1. Lines(1, 1, 1, 0, 0) => Lines(1, 1, 1, 0, 0)'
      BY <1>2, <1>3, LinesShown, LinesKept DEF AllLines
    <3>2. Lines(1, 1, 1, 0, 1) => Lines(1, 1, 1, 0, 1)'
      BY <1>2, <1>3, LinesShown, LinesKept DEF AllLines
    <3>3. printed' \in Seq(AllLines)
      BY <1>2, <1>3, CountAppended DEF Shown, AllLines
    <3> QED
      BY <1>2, <3>1, <3>2, <3>3 DEF SizeKnown
  <2>4. PrintedInv'
    BY <1>2, <1>3, <2>3, ProtectorsAssumption
       DEF PrintedInv, PrintedBefore, OpeningSteps, Asking, PrintingDone
  <2> QED
    BY <1>1, <2>1, <2>2, <2>4, PrintingGoesOnKept
<1>4. CASE PrintingFails
  BY <1>1, <1>4, PrintingFailsKept
<1>5. CASE ~PrintingFails
  BY <1>3, <1>5 DEF PrintDescription, Goto
<1> QED
  BY <1>4, <1>5

LEMMA PrintCountKept ==
    ASSUME InfoCommon, PrintCount,
           UNCHANGED <<mounted, program, options, presented, typed, misused>>,
           UNCHANGED <<handle, fileIo, volume>>
    PROVE  InfoCommon'
<1>1. step = "print_count" /\ exit = "none" /\ step \in PrintingSteps
  BY DEF PrintCount, At, PrintingSteps
<1>2. printed \in Seq(AllLines) /\ Lines(1, 1, 1, 0, SizeKnown) /\ index = 0
  BY <1>1 DEF InfoCommon, PrintedInv
<1>3. CASE /\ Works /\ Goto("print_protector")
           /\ Shown(IF volume = "unlocked" THEN "count" ELSE "locked")
           /\ UNCHANGED <<identifier, text, protector, index>>
  <2>1. PrintingGoesOn
    BY <1>1, <1>3 DEF PrintingGoesOn, PrintingSteps, Works, Goto
  <2>2. ObjectsInv'
    BY <1>1, <1>3 DEF InfoCommon, InfoInv, ObjectsInv, Goto
  <2>3. printed' \in Seq(AllLines) /\ Lines(1, 1, 1, 0, 1)'
    <3>1. CASE volume = "unlocked"
      <4>1. Shown("count") /\ Lines(1, 1, 1, 0, 1)
        BY <1>2, <1>3, <3>1 DEF SizeKnown
      <4> QED
        BY <1>2, <4>1, LinesShown DEF AllLines
    <3>2. CASE volume # "unlocked"
      <4>1. Shown("locked") /\ Lines(1, 1, 1, 0, 0)
        BY <1>2, <1>3, <3>2 DEF SizeKnown
      <4>2. printed' \in Seq(AllLines) /\ Lines(1, 1, 1, 0, 0 + 1)'
        BY <1>2, <4>1, LinesShown DEF AllLines
      <4> QED
        BY <4>2
    <3> QED
      BY <3>1, <3>2
  <2>4. PrintedInv'
    BY <1>2, <1>3, <2>3, ProtectorsAssumption
       DEF PrintedInv, PrintedBefore, OpeningSteps, Asking, PrintingDone, Goto
  <2> QED
    BY <1>1, <2>1, <2>2, <2>4, PrintingGoesOnKept
<1>4. CASE PrintingFails
  BY <1>1, <1>4, PrintingFailsKept
<1> QED
  BY <1>3, <1>4 DEF PrintCount

LEMMA PrintProtectorKept ==
    ASSUME InfoCommon, PrintProtector,
           UNCHANGED <<mounted, program, options, presented, typed, misused>>,
           UNCHANGED <<handle, fileIo, volume>>
    PROVE  InfoCommon'
<1>1. step = "print_protector" /\ exit = "none" /\ step \in PrintingSteps
  BY DEF PrintProtector, At, PrintingSteps
<1>2. printed \in Seq(AllLines) /\ Lines(1, 1, 1, index, 1) /\ index \in 0 .. Protectors
  BY <1>1 DEF InfoCommon, PrintedInv
<1>3. CASE /\ index = Protectors
           /\ Works /\ Goto("printed")
           /\ UNCHANGED printing
  <2>1. PrintingGoesOn
    BY <1>1, <1>3 DEF PrintingGoesOn, Works, Goto
  <2>2. ObjectsInv'
    BY <1>1, <1>3, ProtectorsAssumption DEF InfoCommon, InfoInv, ObjectsInv, Goto, printing
  <2>3. printed' = printed /\ index' = index /\ Lines(1, 1, 1, Protectors, 1)'
    BY <1>2, <1>3, LinesKept DEF printing
  <2>4. PrintedInv'
    BY <1>2, <1>3, <2>3
       DEF PrintedInv, PrintedBefore, OpeningSteps, Asking, PrintingDone, Goto
  <2> QED
    BY <1>1, <2>1, <2>2, <2>4, PrintingGoesOnKept
<1>4. CASE /\ index < Protectors /\ ~protector
           /\ Works /\ Goto("print_protector")
           /\ protector' = TRUE
           /\ UNCHANGED <<printed, identifier, text, index>>
  <2>1. PrintingGoesOn
    BY <1>1, <1>4 DEF PrintingGoesOn, Works, Goto
  <2>2. ObjectsInv'
    BY <1>1, <1>4 DEF InfoCommon, InfoInv, ObjectsInv, Goto
  <2>3. Lines(1, 1, 1, index, 1)'
    <3>1. \A line : Count(line)' = Count(line)
      BY <1>4 DEF Count
    <3> QED
      BY <1>2, <1>4, <3>1 DEF Lines
  <2>4. PrintedInv'
    BY <1>2, <1>4, <2>3
       DEF PrintedInv, PrintedBefore, OpeningSteps, Asking, PrintingDone, Goto
  <2> QED
    BY <1>1, <2>1, <2>2, <2>4, PrintingGoesOnKept
<1>5. CASE /\ protector
           /\ Works /\ Goto("print_protector")
           /\ protector' = FALSE
           /\ index' = index + 1
           /\ Shown("protector")
           /\ UNCHANGED <<identifier, text>>
  <2>1. PrintingGoesOn
    BY <1>1, <1>5 DEF PrintingGoesOn, Works, Goto
  <2>2. ObjectsInv'
    BY <1>1, <1>5 DEF InfoCommon, InfoInv, ObjectsInv, Goto
  <2>3. index' \in 0 .. Protectors
    BY <1>1, <1>2, <1>5, ProtectorsAssumption DEF InfoCommon, InfoInv, ObjectsInv
  <2>4. printed' \in Seq(AllLines) /\ Lines(1, 1, 1, index, 1)'
    <3>1. /\ printed' \in Seq(AllLines)
          /\ \A l : Count(l)' = Count(l) + (IF l = "protector" THEN 1 ELSE 0) /\ Count(l) \in Nat
      BY <1>2, <1>5, CountAppended DEF Shown, AllLines
    <3> QED
      BY <1>2, <1>5, <3>1 DEF Lines
  <2>5. PrintedInv'
    BY <1>5, <2>3, <2>4
       DEF PrintedInv, PrintedBefore, OpeningSteps, Asking, PrintingDone, Goto
  <2> QED
    BY <1>1, <2>1, <2>2, <2>5, PrintingGoesOnKept
<1>6. CASE PrintingFails
  BY <1>1, <1>6, PrintingFailsKept
<1> QED
  BY <1>3, <1>4, <1>5, <1>6 DEF PrintProtector

LEMMA PrintVolumeKept ==
    ASSUME InfoCommon, UNCHANGED mounted, PrintVolume
    PROVE  InfoCommon'
<1>1. /\ UNCHANGED <<mounted, program, options, presented, typed, misused>>
      /\ UNCHANGED <<handle, fileIo, volume>>
  BY DEF PrintVolume, Aside
<1>2. CASE PrintIdentifier
  BY <1>1, <1>2, ConvertedKept DEF PrintIdentifier
<1>3. CASE PrintTime
  BY <1>1, <1>3, ConvertedKept DEF PrintTime
<1> QED
  BY <1>1, <1>2, <1>3, PrintSizeKept, PrintMethodKept, PrintDescriptionKept, PrintCountKept,
     PrintProtectorKept DEF PrintVolume

LEMMA InfoOpeningKept ==
    ASSUME InfoCommon, OpenNext, UNCHANGED <<mounted, printing>>
    PROVE  InfoCommon'
<1> USE DEF InfoInv, InfoStarts, InfoEnds, ObjectsInv, InfoExits, LeftOpen, NoVolume,
            InfoSteps, PrintingSteps, OpeningSteps, Asking
<1>1. Common /\ program = "bdeinfo" /\ InfoInv /\ PrintedInv
  BY DEF InfoCommon
<1>2. /\ Common'
      /\ step \in OpeningSteps /\ exit = "none"
      /\ UNCHANGED <<program, options, handle, misused, exit>>
      /\ failures' = failures \/ failures' = failures + 1
      /\ Advances \/ GivesUp
  BY <1>1, OpeningKept DEF mounted
<1>3. UNCHANGED <<printed, identifier, text, protector, index, binding>>
  BY DEF printing, mounted
<1>4. failures \in Nat /\ failures' \in Nat
  BY <1>1, <1>2, MaxFailuresAssumption DEF Common, Shared
<1>5. CASE Advances
  <2>1. PrintedInv'
    BY <1>1, <1>2, <1>3, <1>5, PrintedKept DEF Advances, PrintedBefore, PrintingDone
  <2> QED
    BY <1>1, <1>2, <1>3, <1>4, <1>5, <2>1 DEF Advances, InfoCommon
<1>6. CASE GivesUp
  <2>1. step' = "on_error" /\ stack' = << >>
    BY <1>1, <1>2, <1>6, CallersReturn DEF GivesUp, Fail, ReturnTo, Returns
  <2>2. PrintedInv'
    BY <1>1, <1>2, <1>3, <2>1, PrintedKept DEF PrintedBefore, PrintingDone
  <2> QED
    BY <1>1, <1>2, <1>3, <1>4, <1>6, <2>1, <2>2 DEF GivesUp, InfoCommon, Wiped
<1> QED
  BY <1>2, <1>5, <1>6

-----------------------------------------------------------------------------
(* The invariant *)

LEMMA IInvHolds ==
    Init => IInv
<1> SUFFICES ASSUME Init
             PROVE  IInv
  OBVIOUS
<1> USE DEF Init, OpenInit, MountInit, InfoInit
<1>1. Shared
  <2>1. stack \in Seq(Frames) /\ failures \in 0 .. MaxFailures
    BY StacksKnown, MaxFailuresAssumption
  <2> QED
    BY <2>1 DEF Shared, LifeCycle!States
<1>2. OpeningInv /\ PresentedInv
  BY DEF OpeningInv, PresentedInv, Asking
<1>3. Held = {}
  BY DEF Held
<1>4. EntriesInv
  BY <1>3, FS_EmptySet, EntriesCounted DEF EntriesInv, EntriesOwned, ListingInv, Entered
<1>5. program = "bdemount" => MountInv
  BY DEF MountInv, MountStarts, MountEnds, MountDestroys, MountFrees, MountExits,
         MountSteps, OpeningSteps, Asking, NothingOpen, AllOpen, HalfOpen, OnlyHandle
<1>6. program = "bdeinfo" => InfoInv
  BY DEF InfoInv, InfoStarts, InfoEnds, ObjectsInv, InfoExits, LeftOpen, NoVolume,
         InfoSteps, PrintingSteps, OpeningSteps, Asking
<1>7. PrintedInv
  BY NothingPrinted, ProtectorsAssumption
     DEF PrintedInv, PrintedBefore, PrintingDone
<1> QED
  BY <1>1, <1>2, <1>3, <1>4, <1>5, <1>6, <1>7 DEF IInv

LEMMA MainEntriesKept ==
    ASSUME Common, program = "bdemount", MountInv, EntriesInv, Common', MountInv', MainNext,
           UNCHANGED printing
    PROVE  EntriesInv'
<1>1. /\ UNCHANGED <<program, entryOf, entries, listing>> /\ exit = "none"
  BY MainKeeps DEF Kept
<1>2. /\ failures \in Nat /\ failures' \in Nat /\ failures' >= failures
  <2>1. Works \/ Breaks
    BY DEF MainNext, ReadOptions, InitializeHandle, SetOptions, StillLocked, AppendVolume,
         Mount, FuseInit, LoopEnds, ExitSuccess, OnError, FreeLast, ExitFailure, FuseDestroy,
         DestroyFree, Return, HandleFree, FreeFileSystem, CloseVolume, CloseFile
  <2> QED
    BY <2>1, FailuresCounted, MaxFailuresAssumption DEF Common, Shared
<1>3. listing # NoListing => step = "serving"
  BY DEF EntriesInv, ListingInv, At
<1>4. /\ listing # NoListing => step' = step /\ exit' = exit
      /\ step' \in BeforeServing => step \in BeforeServing
      /\ (step' # "serving" \/ exit' # "none") /\ step = "serving" => Held = {} \/ failures' >= 1
  <2> USE DEF BeforeServing, OpeningSteps, Asking, At, Goto, Call, ExitWith
  <2>1. CASE LoopEnds
    BY <2>1, <1>2, <1>3, FailuresCounted DEF LoopEnds, Held, Common, Shared
  <2>2. CASE FuseInit
    BY <2>2, <1>1 DEF FuseInit, control
  <2>3. CASE ~LoopEnds /\ ~FuseInit
    <3>1. step # "serving"
      BY <2>3 DEF MainNext, ReadOptions, InitializeHandle, SetOptions, StillLocked,
         AppendVolume, Mount, ExitSuccess, OnError, FreeLast, ExitFailure, FuseDestroy,
         DestroyFree, Return, HandleFree, FreeFileSystem, CloseVolume, CloseFile
    <3>2. step' \in BeforeServing => step \in BeforeServing
      <4>1. CASE ReadOptions \/ InitializeHandle \/ SetOptions \/ StillLocked \/ AppendVolume
                 \/ Mount
        BY <4>1 DEF ReadOptions, InitializeHandle, SetOptions, StillLocked, AppendVolume, Mount
      <4>2. CASE ~(ReadOptions \/ InitializeHandle \/ SetOptions \/ StillLocked
                   \/ AppendVolume \/ Mount)
        <5>1. NeverBack
          BY <4>2, MainKeeps, MountEndsKept, MountDestroysKept, MountFreesKept DEF MainNext
        <5> QED
          BY <5>1 DEF NeverBack
      <4> QED
        BY <4>1, <4>2
    <3> QED
      BY <1>3, <3>1, <3>2
  <2> QED
    BY <2>1, <2>2, <2>3
<1> QED
  BY <1>1, <1>2, <1>4, EntriesLeft DEF EntriesInv

LEMMA IInvKept ==
    ASSUME IInv, [Next]_allVars
    PROVE  IInv'
<1>1. CASE Bdemount
  <2> USE DEF Bdemount
  <2>1. Common /\ program = "bdemount" /\ MountInv /\ EntriesInv /\ UNCHANGED printing
    BY <1>1 DEF IInv, Common
  <2>2. CASE MainNext
    <3>1. Kept
      BY <2>1, <2>2, MainKeeps
    <3>2. Common' /\ MountInv'
      BY <2>1, <2>2, <3>1, MountStartsKept, MountEndsKept, MountDestroysKept, MountFreesKept
         DEF MainNext
    <3>3. EntriesInv'
      BY <2>1, <2>2, <3>2, MainEntriesKept
    <3>4. program' = "bdemount"
      BY <2>1, <3>1 DEF Kept
    <3> QED
      BY <3>2, <3>3, <3>4 DEF IInv, Common
  <2>3. CASE OpenNext /\ UNCHANGED <<mounted, answer>>
    <3>1. UNCHANGED <<mounted, printing>>
      BY <2>1, <2>3
    <3>2. Common' /\ MountInv'
      BY <2>1, <2>3, <3>1, MountOpeningKept
    <3>3. /\ step \in OpeningSteps /\ exit = "none" /\ exit' = exit /\ program' = program
          /\ step' # "serving"
      <4>1. /\ step \in OpeningSteps /\ exit = "none" /\ exit' = exit /\ program' = program
            /\ Advances \/ GivesUp
        BY <2>1, <2>3, OpeningKept DEF mounted, MountInv, MountStarts
      <4>2. GivesUp => step' = "on_error"
        BY <2>1, <4>1, CallersReturn
           DEF MountInv, MountStarts, GivesUp, Fail, ReturnTo, Returns
      <4> QED
        BY <4>1, <4>2 DEF Advances, OpeningSteps, Asking
    <3>4. Held = {} /\ listing = NoListing
      BY <2>1, <3>3
         DEF EntriesInv, ListingInv, BeforeServing, OpeningSteps, Asking, At
    <3>5. EntriesInv'
      BY <2>1, <3>1, <3>3, <3>4, EntriesLeft DEF mounted
    <3> QED
      BY <2>1, <3>2, <3>3, <3>5 DEF IInv, Common
  <2>4. CASE Callback
    <3>1. Common' /\ MountInv' /\ EntriesInv'
      BY <2>1, <2>4, CallbackKept
    <3>2. program' = program
      BY <2>4, CallbackDoes DEF Unmoved
    <3> QED
      BY <2>1, <3>1, <3>2 DEF IInv, Common
  <2> QED
    BY <1>1, <2>2, <2>3, <2>4
<1>2. CASE Bdeinfo
  <2>1. InfoCommon /\ EntriesInv /\ Held = {} /\ UNCHANGED mounted
    BY <1>2 DEF Bdeinfo, IInv, InfoCommon, Common
  <2>2. InfoCommon'
    BY <1>2, <2>1, InfoStartsKept, InfoFreesKept, PrintVolumeKept, InfoOpeningKept
       DEF Bdeinfo, InfoNext
  <2>3. UNCHANGED <<entryOf, entries, listing>> /\ Held' = {} /\ program' = program
    BY <2>1, <2>2 DEF mounted, Held, InfoCommon
  <2>4. listing = NoListing
    BY <2>1 DEF EntriesInv, ListingInv, InfoCommon
  <2>5. EntriesInv'
    BY <2>1, <2>3, <2>4, EntriesLeft
  <2> QED
    BY <2>2, <2>3, <2>5 DEF IInv, InfoCommon, Common
<1>3. CASE UNCHANGED allVars
  <2> USE <1>3 DEF allVars, vars, common, mounted, printing
  <2>1. Shared' /\ OpeningInv' /\ PresentedInv'
    BY DEF IInv, Shared, OpeningInv, PresentedInv, Reached
  <2>2. Held' = Held /\ EntriesInv'
    BY DEF IInv, EntriesInv, EntriesOwned, ListingInv, Held, Pending, At
  <2>3. MountInv' = MountInv
    BY DEF MountInv, MountStarts, MountEnds, MountDestroys, MountFrees, MountExits,
         NothingOpen, AllOpen, HalfOpen, OnlyHandle
  <2>4. InfoInv' = InfoInv
    BY DEF InfoInv, InfoStarts, InfoEnds, ObjectsInv, InfoExits, LeftOpen, NoVolume
  <2>5. PrintedInv' = PrintedInv
    BY DEF PrintedInv, PrintingDone, Lines, Count, SizeKnown
  <2> QED
    BY <2>1, <2>2, <2>3, <2>4, <2>5 DEF IInv
<1> QED
  BY <1>1, <1>2, <1>3 DEF Next

(* Both tools, with any command line and wherever calls fail, keep to the  *)
(* stacks and to what is open at each step: mount_handle_free and          *)
(* info_handle_free find what the callers left.                            *)
THEOREM Invariance ==
    Spec => []IInv
<1>1. Init => IInv
  BY IInvHolds
<1>2. IInv /\ [Next]_allVars => IInv'
  BY IInvKept
<1> QED
  BY <1>1, <1>2, PTL DEF Spec

-----------------------------------------------------------------------------
(* The theorems *)

(* Every variable of the tools has its type.                               *)
THEOREM TypesKept ==
    ASSUME IsFiniteSet(Files)
    PROVE  Spec => []TypeOK
<1>1. ASSUME IInv
      PROVE  TypeOK
  <2> USE <1>1 DEF IInv
  <2>1. ASSUME NEW n \in 1 .. Len(stack)
        PROVE  DOMAIN stack[n] = {"succeeded", "failed"}
    <3>1. stack[n] \in Frames
      BY DEF Shared
    <3> QED
      BY <3>1 DEF Frames
  <2>2. Held \subseteq Files /\ IsFiniteSet(Held)
    BY DEF Held, EntriesInv
  <2>3. Cardinality(Held) \in Nat /\ Cardinality(Files) \in Nat
        /\ Cardinality(Held) <= Cardinality(Files)
    BY <2>2, FS_Subset, FS_CardinalityType
  <2>4. Cardinality(Pending) \in 0 .. 3
    BY EntriesCounted DEF Cost
  <2>5. entries \in 0 .. Cardinality(Files) + 3
    BY <2>3, <2>4 DEF EntriesInv, EntriesOwned
  <2>6. ASSUME step = "serving", NEW file \in Files
        PROVE  entryOf[file] \in Entries
    <3>1. program = "bdemount" /\ appended
      BY <2>6 DEF Shared, MountInv, MountStarts, AllOpen, InfoInv, InfoSteps, PrintingSteps,
                  OpeningSteps, Asking
    <3> QED
      BY <3>1 DEF EntriesInv, Entered, Entries, NumberOfVolumes
  <2> QED
    BY <2>1, <2>5, <2>6 DEF TypeOK, Shared, PresentedInv
<1> QED
  BY <1>1, Invariance, PTL

(* What bdemount serves is open and unlocked, after all that the command   *)
(* line gave had reached the library.                                      *)
THEOREM OnlyUnlockedIsServed ==
    Spec => []ServedIsUnlocked
<1>1. IInv => ServedIsUnlocked
  BY DEF IInv, PresentedInv, MountInv, MountStarts, AllOpen, ServedIsUnlocked, At
<1> QED
  BY <1>1, Invariance, PTL

(* Every file entry of mount_file_entry_initialize belongs to an open file *)
(* or to the callback that runs, with any number of files and failures.    *)
THEOREM EntriesAreOwned ==
    Spec => []EntriesOwned
<1>1. IInv => EntriesOwned
  BY DEF IInv, EntriesInv
<1> QED
  BY <1>1, Invariance, PTL

(* However many calls fail, mount_handle_free finds in the array of the    *)
(* file system a volume that mount_handle_close had freed only when two    *)
(* of them did: one alone leads to no second free.                         *)
THEOREM TwoMustFail ==
    Spec => [](misused => failures >= 2)
<1>1. IInv => (misused => failures >= 2)
  BY DEF IInv, Shared, MountInv, InfoInv
<1> QED
  BY <1>1, Invariance, PTL

(* So nothing is freed twice where one call may fail.                      *)
THEOREM NothingIsFreedTwice ==
    ASSUME MaxFailures <= 1
    PROVE  Spec => []NothingFreedTwice
<1>1. IInv => NothingFreedTwice
  BY MaxFailuresAssumption DEF IInv, Shared, MountInv, InfoInv, NothingFreedTwice
<1> QED
  BY <1>1, Invariance, PTL

(* When a tool ends the volume is freed and what was made to print it, and *)
(* when no call failed the handles and the file entries are freed too.     *)
THEOREM NothingIsLeft ==
    Spec => []NothingLeft
<1>1. ASSUME IInv
      PROVE  NothingLeft
  <2> USE <1>1 DEF IInv
  <2>1. SUFFICES ASSUME exit # "none", binding # "dokan", ~NeverServed
                 PROVE  /\ volume = "absent"
                        /\ program = "bdeinfo" => ~typed
                        /\ ~identifier /\ ~text /\ ~protector
                        /\ failures = 0 => handle = "none" /\ fileIo = "none" /\ entries = 0
    BY DEF NothingLeft
  <2>2. listing = NoListing
    BY <2>1 DEF EntriesInv, ListingInv, At
  <2>3. failures = 0 => entries = 0
    BY <2>1, <2>2, FS_EmptySet, EntriesCounted DEF EntriesInv, EntriesOwned
  <2>4. CASE program = "bdemount"
    <3>1. step \in {"options", "exit_success", "exit_failure"}
      BY <2>1, <2>4 DEF Shared, MountInv, MountExits
    <3>2. step = "exit_success" => exit = "success"
      BY <2>1, <2>4 DEF Shared, MountInv, MountExits
    <3> QED
      BY <2>1, <2>3, <2>4, <3>1, <3>2
         DEF MountInv, MountStarts, MountEnds, NothingOpen, AllOpen, HalfOpen, NeverServed,
             Shared
  <2>5. CASE program = "bdeinfo"
    <3>1. step \in {"options", "exit_success", "exit_failure"}
      BY <2>1, <2>5 DEF Shared, InfoInv, InfoExits
    <3> QED
      BY <2>1, <2>3, <2>5, <3>1
         DEF InfoInv, InfoStarts, InfoEnds, ObjectsInv, NoVolume, LeftOpen, Shared
  <2> QED
    BY <2>4, <2>5 DEF Shared
<1> QED
  BY <1>1, Invariance, PTL

(* bdeinfo ends well only with every line of info_handle_volume_fprint     *)
(* printed once, and each of any number of key protectors.                 *)
THEOREM AllIsPrinted ==
    Spec => []InfoComplete
<1>1. ASSUME IInv
      PROVE  InfoComplete
  <2>1. SUFFICES ASSUME program = "bdeinfo", exit = "success", printed # << >>
                 PROVE  Lines(1, 1, 1, Protectors, 1)
    BY DEF InfoComplete, Lines
  <2> QED
    BY <1>1, <2>1
       DEF IInv, InfoInv, InfoExits, PrintedInv, PrintedBefore, PrintingDone
<1> QED
  BY <1>1, Invariance, PTL

-----------------------------------------------------------------------------
(* What a listing delivers *)

(* The number that a digit is. *)
LEMMA NumberOfDigit ==
    ASSUME NEW d \in Nat
    PROVE  Number(<<d>>) = d
<1> DEFINE Value(f, s) == IF s = {} THEN 0 ELSE 10 * f[s \ {Max(s)}] + <<d>>[Max(s)]
           fold == CHOOSE f : f = [s \in SUBSET (DOMAIN <<d>>) |-> Value(f, s)]
           g == [s \in SUBSET {1} |-> IF s = {} THEN 0 ELSE d]
<1>1. Number(<<d>>) = fold[DOMAIN <<d>>]
  BY DEF Number, FoldLeft, MapThenFoldSet
<1>2. DOMAIN <<d>> = {1}
  OBVIOUS
<1>3. Max({1}) = 1
  BY DEF Max
<1>4. SUBSET {1} = {{}, {1}} /\ {1} \ {1} = {}
  OBVIOUS
<1>5. ASSUME NEW f
      PROVE  Value(f, {}) = 0 /\ Value(f, {1}) = 10 * f[{}] + d
  <2>1. Value(f, {1}) = 10 * f[{1} \ {1}] + <<d>>[1]
    BY <1>3
  <2> QED
    BY <1>4, <2>1
<1>6. g = [s \in SUBSET (DOMAIN <<d>>) |-> Value(g, s)]
  <2>1. g[{}] = 0 /\ g[{1}] = d
    BY <1>4
  <2>2. \A s \in SUBSET {1} : g[s] = Value(g, s)
    <3> HIDE DEF g, Value
    <3>1. Value(g, {}) = 0 /\ Value(g, {1}) = 10 * g[{}] + d
      BY <1>5
    <3>2. Value(g, {1}) = d
      BY <2>1, <3>1
    <3> QED
      BY <1>4, <2>1, <3>1, <3>2
  <2> QED
    BY <1>2, <2>2
<1>7. fold = [s \in SUBSET (DOMAIN <<d>>) |-> Value(fold, s)]
  BY <1>6
<1> HIDE DEF fold
<1>8. fold[{}] = Value(fold, {}) /\ fold[{1}] = Value(fold, {1})
  <2> HIDE DEF Value
  <2> QED
    BY <1>2, <1>4, <1>7
<1> HIDE DEF Value
<1> QED
  BY <1>1, <1>2, <1>5, <1>8

LEMMA NameOfFirstIs ==
    NameOf(0) = <<1>>
<1>1. DigitCount(1) = 1
  BY DEF DigitCount, MaxDigits
<1>2. Digits(1) = [n \in 1 .. 1 |-> (1 \div 10 ^ (1 - n)) % 10]
  BY <1>1 DEF Digits
<1>3. (1 \div 10 ^ (1 - 1)) % 10 = 1
  <2>1. 10 ^ (1 - 1) = 1
    OBVIOUS
  <2> QED
    BY <2>1
<1>4. Digits(1) = [n \in 1 .. 1 |-> 1]
  BY <1>2, <1>3
<1>5. NameOf(0) = Digits(1)
  BY DEF NameOf, PathFromVolumeIndex, VolumePath
<1> QED
  BY <1>4, <1>5

(* The name under which the only volume is listed is its path. *)
LEMMA FirstNameResolves ==
    ASSUME appended
    PROVE  EntryByPath(VolumePath(NameOf(0))) = 0
<1>1. Number(<<1>>) = 1
  BY NumberOfDigit
<1> QED
  BY <1>1, NameOfFirstIs
     DEF EntryByPath, VolumeByPath, VolumePath, NumberOfVolumes, MaxDigits

Volumes(entry) == IF IsDirectory(entry) THEN 1 ELSE 0

Delivered(at, count) ==
    IF at = "dot" THEN << >>
    ELSE IF at = "dotdot" THEN <<".">>
    ELSE IF count = 0 THEN <<".", "..">>
    ELSE <<".", "..", NameOf(0)>>

(* The names that were delivered when a listing is at a step. *)
DeliveredInv ==
    listing # NoListing =>
        /\ listing.filled = Delivered(listing.at, listing.index)
        /\ listing.index \in 0 .. Volumes(listing.entry)
        /\ listing.at \in {"dot", "dotdot"} => listing.index = 0
        /\ listing.at = "name" => listing.index < Volumes(listing.entry)

(* A list of names with one more. *)
LEMMA AppendNames ==
    ASSUME NEW a, NEW b, NEW c
    PROVE  Append(<<a>>, b) = <<a, b>> /\ Append(<<a, b>>, c) = <<a, b, c>>
<1> DEFINE S == {a, b, c}
<1>1. <<a>> \in Seq(S) /\ <<a, b>> \in Seq(S) /\ <<a, b, c>> \in Seq(S)
  OBVIOUS
<1>2. /\ Append(<<a>>, b) \in Seq(S) /\ Len(Append(<<a>>, b)) = 2
      /\ Append(<<a>>, b)[1] = a /\ Append(<<a>>, b)[2] = b
  BY <1>1, AppendProperties
<1>3. /\ Append(<<a, b>>, c) \in Seq(S) /\ Len(Append(<<a, b>>, c)) = 3
      /\ Append(<<a, b>>, c)[1] = a /\ Append(<<a, b>>, c)[2] = b /\ Append(<<a, b>>, c)[3] = c
  BY <1>1, AppendProperties
<1> HIDE DEF S
<1>4. ASSUME NEW s \in Seq(S), Len(s) = 2, s[1] = a, s[2] = b
      PROVE  s = <<a, b>>
  <2>1. \A i \in 1 .. 2 : s[i] = <<a, b>>[i]
    BY <1>4
  <2>2. Len(<<a, b>>) = 2
    OBVIOUS
  <2> QED
    BY <1>1, <1>4, <2>1, <2>2, SeqEqual
<1>5. ASSUME NEW s \in Seq(S), Len(s) = 3, s[1] = a, s[2] = b, s[3] = c
      PROVE  s = <<a, b, c>>
  <2>1. \A i \in 1 .. 3 : s[i] = <<a, b, c>>[i]
    BY <1>5
  <2>2. Len(<<a, b, c>>) = 3
    OBVIOUS
  <2> QED
    BY <1>1, <1>5, <2>1, <2>2, SeqEqual
<1> QED
  BY <1>2, <1>3, <1>4, <1>5

LEMMA DeliveredKept ==
    ASSUME IInv, DeliveredInv, [Next]_allVars
    PROVE  DeliveredInv'
<1>1. CASE listing' = listing
  BY <1>1 DEF DeliveredInv
<1>2. CASE listing' # listing
  <2>1. Callback /\ program = "bdemount"
    BY <1>2, MainKeeps
       DEF Next, Bdemount, Bdeinfo, mounted, allVars, vars
  <2>2. step = "serving"
    BY <2>1, CallbackDoes
  <2>3. appended
    BY <2>1, <2>2 DEF IInv, MountInv, MountStarts, AllOpen
  <2>4. ASSUME NEW entry, NEW own, listing' = Begin(entry, own)
        PROVE  DeliveredInv'
    BY <2>4 DEF DeliveredInv, Begin, Delivered, Volumes
  <2>5. CASE List
    <3>1. /\ listing \in Listings /\ listing.entry \in {Root, 0}
          /\ listing # NoListing
          /\ listing.at = "name" => listing.sub = 0
      BY <2>5 DEF IInv, EntriesInv, ListingInv, List
    <3>2. /\ listing.filled = Delivered(listing.at, listing.index)
          /\ listing.index \in 0 .. Volumes(listing.entry)
          /\ listing.at \in {"dot", "dotdot"} => listing.index = 0
          /\ listing.at = "name" => listing.index < Volumes(listing.entry)
      BY <3>1 DEF DeliveredInv
    <3>3. NumberOfSubEntries(listing.entry, NumberOfVolumes) = Volumes(listing.entry)
      BY <2>3 DEF NumberOfSubEntries, NumberOfVolumes, MaxListed, Volumes
    <3>4. Volumes(listing.entry) \in {0, 1}
      BY DEF Volumes
    <3>5. CASE ListDot
      <4>1. /\ listing'.at = "dotdot" /\ listing'.index = listing.index
            /\ listing'.entry = listing.entry /\ listing'.filled = Append(listing.filled, ".")
            /\ listing.at = "dot"
        BY <3>1, <3>5 DEF ListDot, Listings, Filled
      <4>2. listing'.filled = <<".">>
        BY <3>2, <4>1 DEF Delivered
      <4> QED
        BY <3>2, <4>1, <4>2 DEF DeliveredInv, Delivered
    <3>6. CASE ListDotDot
      <4>1. /\ listing'.at = "sub" /\ listing'.index = listing.index
            /\ listing'.entry = listing.entry /\ listing'.filled = Append(listing.filled, "..")
            /\ listing.at = "dotdot"
        BY <3>1, <3>6 DEF ListDotDot, Listings, Filled
      <4>2. listing'.filled = <<".", "..">>
        <5>1. listing.filled = <<".">>
          BY <3>2, <4>1 DEF Delivered
        <5>2. Append(<<".">>, "..") = <<".", "..">>
          BY AppendNames
        <5> QED
          BY <4>1, <5>1, <5>2
      <4> QED
        BY <3>2, <4>1, <4>2 DEF DeliveredInv, Delivered
    <3>7. CASE MakeSub
      <4>1. /\ listing'.at = "name" /\ listing'.index = listing.index
            /\ listing'.entry = listing.entry /\ listing'.filled = listing.filled
            /\ listing.at = "sub" /\ listing.index < Volumes(listing.entry)
        BY <3>1, <3>3, <3>7 DEF MakeSub, Listings
      <4> QED
        BY <3>2, <4>1 DEF DeliveredInv, Delivered
    <3>8. CASE FillSub
      <4>1. /\ listing'.at = "sub" /\ listing'.index = listing.index + 1
            /\ listing'.entry = listing.entry
            /\ listing'.filled = Append(listing.filled, NameOf(0))
            /\ listing.at = "name"
        BY <3>1, <3>8 DEF FillSub, Listings, Filled
      <4>2. listing.index = 0 /\ Volumes(listing.entry) = 1
        BY <3>2, <3>4, <4>1
      <4>3. listing'.filled = <<".", "..", NameOf(0)>>
        <5>1. listing.filled = <<".", "..">>
          BY <3>2, <4>1, <4>2 DEF Delivered
        <5>2. \A name : Append(<<".", "..">>, name) = <<".", "..", name>>
          BY AppendNames
        <5> QED
          BY <4>1, <5>1, <5>2
      <4>4. Delivered("sub", 1) = <<".", "..", NameOf(0)>>
        BY DEF Delivered
      <4>5. /\ listing'.at = "sub" /\ listing'.index = 1
            /\ Volumes(listing'.entry) = 1
        BY <4>1, <4>2
      <4> QED
        BY <4>3, <4>4, <4>5 DEF DeliveredInv
    <3>9. CASE EndListing \/ ListingFails
      BY <3>9 DEF EndListing, ListingFails, DeliveredInv
    <3> QED
      BY <2>5, <3>5, <3>6, <3>7, <3>8, <3>9 DEF List
  <2>6. CASE Finds
    BY <2>4, <2>6 DEF Finds
  <2>7. ASSUME NEW file \in Files, Makes(file) \/ Frees(file) \/ Reads(file)
        PROVE  DeliveredInv'
    BY <1>2, <2>4, <2>7 DEF Makes, Frees, Reads
  <2>8. CASE Looks
    BY <1>2, <2>8 DEF Looks
  <2> QED
    BY <2>1, <2>5, <2>6, <2>7, <2>8, CallbackDoes
<1> QED
  BY <1>1, <1>2

(* A listing of mount_fuse_readdir or mount_dokan_FindFiles that succeeds  *)
(* has delivered every name once, and the volume's name leads to it.       *)
THEOREM ListingsAreComplete ==
    Spec => ListingComplete
<1>1. Init => DeliveredInv
  BY DEF Init, MountInit, DeliveredInv
<1>2. IInv /\ DeliveredInv /\ [Next]_allVars => DeliveredInv'
  BY DeliveredKept
<1>3. ASSUME IInv, DeliveredInv, [Next]_allVars,
             answer' = "listed", listing # NoListing, listing' = NoListing
      PROVE  LET names == listing.filled
                 count == IF IsDirectory(listing.entry) THEN NumberOfVolumes ELSE 0
             IN  /\ Len(names) = 2 + count
                 /\ names[1] = "." /\ names[2] = ".."
                 /\ \A n \in 1 .. count : EntryByPath(VolumePath(names[n + 2])) = n - 1
  <2>1. Callback /\ program = "bdemount"
    BY <1>3, MainKeeps
       DEF Next, Bdemount, Bdeinfo, mounted, allVars, vars
  <2>2. appended
    BY <1>3, <2>1, CallbackDoes DEF IInv, MountInv, MountStarts, AllOpen
  <2>3. List
    <3>1. Looks \/ Finds \/ List
          \/ \E file \in Files : Makes(file) \/ Frees(file) \/ Reads(file)
      BY <2>1, CallbackDoes
    <3> QED
      BY <1>3, <3>1 DEF Looks, Finds, Makes, Frees, Reads
  <2>4. /\ listing.at = "sub"
        /\ listing.index = NumberOfSubEntries(listing.entry, NumberOfVolumes)
    BY <1>3, <2>3, NoListingAssumption, ListKept
       DEF List, ListDot, ListDotDot, MakeSub, FillSub, EndListing, ListingFails
  <2>5. /\ NumberOfVolumes = 1
        /\ listing.index = IF IsDirectory(listing.entry) THEN 1 ELSE 0
    BY <2>2, <2>4 DEF NumberOfSubEntries, NumberOfVolumes, MaxListed
  <2>6. listing.filled = Delivered("sub", listing.index)
    BY <1>3, <2>4 DEF DeliveredInv
  <2>7. EntryByPath(VolumePath(NameOf(0))) = 0
    BY <2>2, FirstNameResolves
  <2>8. CASE IsDirectory(listing.entry)
    <3>1. listing.filled = <<".", "..", NameOf(0)>>
      BY <2>5, <2>6, <2>8 DEF Delivered
    <3> QED
      BY <2>5, <2>7, <2>8, <3>1
  <2>9. CASE ~IsDirectory(listing.entry)
    <3>1. listing.filled = <<".", "..">>
      BY <2>5, <2>6, <2>9 DEF Delivered
    <3> QED
      BY <2>9, <3>1
  <2> QED
    BY <2>8, <2>9
<1> QED
  BY <1>1, <1>2, <1>3, Invariance, PTL DEF Spec, ListingComplete
=============================================================================
