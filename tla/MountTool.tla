----------------------------- MODULE MountTool -----------------------------
(***************************************************************************)
(* bdemount: main, the mount handle, and what FUSE or Dokan call while the *)
(* volume is mounted. Both call back one at a time (fuse_loop, not         *)
(* fuse_loop_mt; SingleThread of Dokan), so a callback is one action; a    *)
(* listing of a directory, which makes and frees entries in a loop, takes  *)
(* several, and no other callback comes between.                           *)
(***************************************************************************)
EXTENDS ToolOpen, MountFileSystem, FiniteSets

CONSTANTS
    Files,      \* what the kernel has open: fuse_file_info, DOKAN_FILE_INFO
    Paths,      \* paths that are asked for
    NoListing   \* no listing is under way

VARIABLES
    binding,    \* "fuse" or "dokan", what bdemount was built with
    appended,   \* the volumes array of the file system holds the volume
    fuse,       \* the fuse handle: "none", "made", "inited" once it runs and
                \* "destroyed" after that
    entryOf,    \* file |-> the entry in its fh or Context
    entries,    \* how many file entries are allocated
    listing     \* the listing under way, see Begin

mounted == <<binding, appended, fuse, entryOf, entries, listing>>

NumberOfVolumes == IF appended THEN 1 ELSE 0

MountInit ==
    /\ binding \in IF program = "bdemount" THEN {"fuse", "dokan"} ELSE {"none"}
    /\ appended = FALSE
    /\ fuse = "none"
    /\ entryOf = [file \in Files |-> NoEntry]
    /\ entries = 0
    /\ listing = NoListing

-----------------------------------------------------------------------------
(* main and the mount handle *)

Quiet == UNCHANGED <<program, options, presented, typed, misused, mounted>>

(* -h, -V and wrong usage end here; or the mount handle is made, if memory *)
(* and the clock allow.                                                    *)
ReadOptions ==
    /\ At("options")
    /\ UNCHANGED <<fileIo, volume, handle>>
    /\ \/ Works /\ \E status \in {"success", "failure"} : ExitWith(status)
       \/ Works /\ Goto("initialize")
    /\ Quiet

InitializeHandle ==
    /\ At("initialize")
    /\ \/ Works /\ Goto("set_options") /\ handle' = "live"
       \/ Breaks /\ Goto("on_error") /\ UNCHANGED handle
    /\ UNCHANGED <<fileIo, volume>>
    /\ Quiet

(* mount_handle_set_keys and _set_offset; the passwords, the startup key   *)
(* path and the path prefix are only kept.                                 *)
SetOptions ==
    /\ At("set_options")
    /\ IF WellFormed
       THEN \/ Works /\ Call("new_file_range", "mount", "on_error")
            \/ Breaks /\ Goto("on_error")
       ELSE Works /\ Goto("on_error")
    /\ UNCHANGED <<handle, fileIo, volume>>
    /\ Quiet

(* The end of mount_handle_open: a volume that is still locked is refused, *)
(* else it goes into the array of the file system.                         *)
FaultyStillLocked ==            \* as bdeinfo goes on
    /\ At("still_locked")
    /\ Works /\ Goto("opened")
    /\ UNCHANGED <<handle, fileIo, volume>>
    /\ Quiet

StillLocked ==
    /\ At("still_locked")
    /\ Works /\ Goto("open_failed")
    /\ UNCHANGED <<handle, fileIo, volume>>
    /\ Quiet

AppendVolume ==
    /\ At("opened")
    /\ \/ Works /\ Succeed /\ appended' = TRUE
       \/ Breaks /\ Goto("open_failed") /\ UNCHANGED appended
    /\ UNCHANGED <<program, options, handle, fileIo, volume, presented, typed, misused,
                   binding, fuse, entryOf, entries, listing>>

(* fuse_new and fuse_mount, in either order, then fuse_daemonize. The      *)
(* handle of a mount that failed may have been made.                       *)
Mount ==
    /\ At("mount")
    /\ IF binding = "dokan"
       THEN Works /\ Goto("serving") /\ UNCHANGED fuse
       ELSE \/ Works /\ Goto("serving") /\ fuse' = "made"
            \/ Breaks /\ Goto("on_error") /\ fuse' \in {"none", "made"}
    /\ UNCHANGED <<program, options, handle, fileIo, volume, presented, typed, misused,
                   binding, appended, entryOf, entries, listing>>

(* fuse_loop starts to call back. *)
FuseInit ==
    /\ At("serving")
    /\ fuse = "made"
    /\ fuse' = "inited"
    /\ Works
    /\ UNCHANGED <<program, options, control, handle, fileIo, volume, presented, typed,
                   misused, binding, appended, entryOf, entries, listing>>

(* fuse_loop returns when the file system is unmounted, with its files     *)
(* released, or when it fails, with files left. DokanMain returns for      *)
(* either, and main ends without another call.                             *)
LoopEnds ==
    /\ At("serving")
    /\ listing = NoListing
    /\ \/ /\ Works
          /\ \A file \in Files : entryOf[file] = NoEntry
          /\ IF binding = "fuse"
             THEN Call("fuse_destroy", "exit_success", "exit_success")
             ELSE ExitWith("success")
       \/ Breaks /\ (IF binding = "fuse" THEN Goto("on_error") ELSE ExitWith("success"))
    /\ UNCHANGED <<handle, fileIo, volume>>
    /\ Quiet

ExitSuccess ==
    /\ At("exit_success")
    /\ Works /\ ExitWith("success")
    /\ UNCHANGED <<handle, fileIo, volume>>
    /\ Quiet

(* on_error of main *)
OnError ==
    /\ At("on_error")
    /\ Works
    /\ IF fuse # "none"
       THEN Call("fuse_destroy", "free_last", "free_last")
       ELSE Goto("free_last")
    /\ UNCHANGED <<handle, fileIo, volume>>
    /\ Quiet

FreeLast ==
    /\ At("free_last")
    /\ Works
    /\ IF handle = "live"
       THEN Call("handle_free", "exit_failure", "exit_failure")
       ELSE Goto("exit_failure")
    /\ UNCHANGED <<handle, fileIo, volume>>
    /\ Quiet

ExitFailure ==
    /\ At("exit_failure")
    /\ Works /\ ExitWith("failure")
    /\ UNCHANGED <<handle, fileIo, volume>>
    /\ Quiet

(* fuse_destroy calls mount_fuse_destroy when FUSE was initialised, and    *)
(* that closes the mount handle; only when it was closed it is freed.      *)
FuseDestroy ==
    /\ At("fuse_destroy")
    /\ Works
    /\ fuse' = IF fuse = "inited" THEN "destroyed" ELSE "none"
    /\ IF fuse = "inited" /\ handle = "live"
       THEN Call("close_volume", "destroy_free", "return")
       ELSE Goto("return")
    /\ UNCHANGED <<program, options, handle, fileIo, volume, presented, typed, misused,
                   binding, appended, entryOf, entries, listing>>

DestroyFree ==
    /\ At("destroy_free")
    /\ Works /\ Call("handle_free", "return", "return")
    /\ UNCHANGED <<handle, fileIo, volume>>
    /\ Quiet

Return ==
    /\ At("return")
    /\ Works /\ Succeed
    /\ UNCHANGED <<handle, fileIo, volume>>
    /\ Quiet

(* mount_handle_free closes what is open, and goes on when that fails. *)
HandleFree ==
    /\ At("handle_free")
    /\ Works
    /\ IF fileIo = "live"
       THEN Call("close_volume", "free_file_system", "free_file_system")
       ELSE Goto("free_file_system")
    /\ UNCHANGED <<handle, fileIo, volume>>
    /\ Quiet

(* mount_file_system_free frees the array without the volumes in it. *)
FreeFileSystem ==
    /\ At("free_file_system")
    /\ handle' = "none"
    /\ appended' = FALSE
    /\ Works /\ Succeed
    /\ UNCHANGED <<program, options, fileIo, volume, presented, typed, misused,
                   binding, fuse, entryOf, entries, listing>>

(* mount_handle_close: the volume of the array is closed and freed but     *)
(* stays in the array, so that a second call would find it there.          *)
CloseVolume ==
    /\ At("close_volume")
    /\ CASE ~appended ->
                Works /\ Goto("close_file") /\ UNCHANGED <<volume, misused>>
         [] appended /\ volume = "absent" ->
                Works /\ Fail /\ misused' = TRUE /\ UNCHANGED volume
         [] OTHER ->
                /\ \/ Works /\ Goto("close_file")
                   \/ Breaks /\ Fail
                /\ LifeCycle!Free
                /\ UNCHANGED misused
    /\ UNCHANGED <<program, options, handle, fileIo, presented, typed, mounted>>

FaultyCloseFile ==              \* closed but not freed
    /\ At("close_file")
    /\ \/ Works /\ Succeed
       \/ Breaks /\ Fail
    /\ UNCHANGED <<handle, volume, fileIo>>
    /\ Quiet

(* The handle is closed and freed; when that fails it is still set. *)
CloseFile ==
    /\ At("close_file")
    /\ \/ Works /\ Succeed /\ fileIo' = "none"
       \/ Breaks /\ Fail /\ UNCHANGED fileIo
    /\ UNCHANGED <<handle, volume>>
    /\ Quiet

MainNext ==
    \/ ReadOptions \/ InitializeHandle \/ SetOptions \/ StillLocked \/ AppendVolume
    \/ Mount \/ FuseInit \/ LoopEnds \/ ExitSuccess \/ OnError \/ FreeLast
    \/ ExitFailure \/ FuseDestroy \/ DestroyFree \/ Return \/ HandleFree
    \/ FreeFileSystem \/ CloseVolume \/ CloseFile

=============================================================================
