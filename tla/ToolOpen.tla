------------------------------ MODULE ToolOpen ------------------------------
(***************************************************************************)
(* What bdemount and bdeinfo have in common: the options they take, their  *)
(* calls and returns, and the opening of the volume, which mount_handle.c  *)
(* and info_handle.c do in the same order.                                 *)
(*                                                                         *)
(* step is the next step of the running function, stack has the steps its  *)
(* callers go on with when it succeeds or fails. A call to a library or to *)
(* the system may fail; MaxFailures bounds how often.                      *)
(***************************************************************************)
EXTENDS ToolOptions

CONSTANTS
    CommandLines,   \* what the command line may say: which secrets are given,
                    \* the segments of -k, the text of -o, and -u
    MaxFailures     \* bound: that many calls may fail in a run

ASSUME CommandLinesAssumption ==
    \A line \in CommandLines :
        line.given \subseteq {"keys", "password", "recovery_password", "startup_key"}
ASSUME MaxFailuresAssumption == MaxFailures \in Nat

VARIABLES
    program,    \* "bdemount" or "bdeinfo"
    options,    \* what the command line says
    step,
    stack,
    failures,   \* how many calls have failed
    exit,       \* "none", then EXIT_SUCCESS or EXIT_FAILURE
    handle,     \* the mount or info handle: "none" or "live"
    fileIo,     \* the file range handle: "none" or "live"
    volume,     \* the libbde volume, a state of VolumeLifeCycle
    presented,  \* options the library was given for this volume (history)
    typed,      \* the stack has the password that was typed
    misused     \* something that had been freed was used or freed (history)

control == <<step, stack, exit>>
common == <<program, options, step, stack, failures, exit, handle, fileIo,
            volume, presented, typed, misused>>

LifeCycle == INSTANCE VolumeLifeCycle WITH state <- volume

WellFormed ==
    /\ "keys" \in options.given => Segments(options.keys)
    /\ ReadsAsOffset(options.offset)

OpenInit ==
    /\ options \in CommandLines
    /\ step = "options"
    /\ stack = << >>
    /\ failures = 0
    /\ exit = "none"
    /\ handle = "none"
    /\ fileIo = "none"
    /\ volume = "absent"
    /\ presented = {}
    /\ typed = FALSE
    /\ misused = FALSE

-----------------------------------------------------------------------------
(* Control *)

At(label) == step = label /\ exit = "none"

Goto(label) == step' = label /\ UNCHANGED <<stack, exit>>

Call(label, succeeded, failed) ==
    /\ step' = label
    /\ stack' = <<[succeeded |-> succeeded, failed |-> failed]>> \o stack
    /\ UNCHANGED exit

ReturnTo(label) == step' = label /\ stack' = Tail(stack) /\ UNCHANGED exit
Succeed == ReturnTo(Head(stack).succeeded)
Fail == ReturnTo(Head(stack).failed)

ExitWith(status) == exit' = status /\ UNCHANGED <<step, stack>>

(* A call to a library that works, and one that does not. *)
Works == UNCHANGED failures
Breaks == failures < MaxFailures /\ failures' = failures + 1

-----------------------------------------------------------------------------
(* mount_handle_open and info_handle_open *)

(* libbfio_file_range_initialize *)
NewFileRange ==
    /\ At("new_file_range")
    /\ \/ Works /\ Goto("set_file_range") /\ fileIo' = "live"
       \/ Breaks /\ Goto("open_failed") /\ UNCHANGED fileIo
    /\ UNCHANGED <<program, options, handle, volume, presented, typed, misused>>

(* The name of the source and the offset in it; the library takes no       *)
(* negative offset.                                                        *)
SetFileRange ==
    /\ At("set_file_range")
    /\ IF IsFileOffset(OffsetOf(options.offset))
       THEN \/ Works /\ Goto("new_volume")
            \/ Breaks /\ Goto("open_failed")
       ELSE Works /\ Goto("open_failed")
    /\ UNCHANGED <<program, options, handle, fileIo, volume, presented, typed, misused>>

NewVolume ==
    /\ At("new_volume")
    /\ \/ Works /\ Goto("give_keys") /\ LifeCycle!Initialize
       \/ Breaks /\ Goto("open_failed") /\ UNCHANGED volume
    /\ presented' = {}
    /\ UNCHANGED <<program, options, handle, fileIo, typed, misused>>

(* What the command line gave is handed to the library, the rest skipped.  *)
Give(secret, from, to) ==
    /\ At(from)
    /\ IF secret \in options.given
       THEN \/ Works /\ Goto(to) /\ presented' = presented \union {secret}
            \/ Breaks /\ Goto("open_failed") /\ UNCHANGED presented
       ELSE Works /\ Goto(to) /\ UNCHANGED presented
    /\ UNCHANGED <<program, options, handle, fileIo, volume, typed, misused>>

GiveKeys ==
    \/ /\ "keys" \in options.given => TakenByLibrary(KeysOf(options.keys))
       /\ Give("keys", "give_keys", "give_password")
    \/ /\ At("give_keys")
       /\ "keys" \in options.given
       /\ ~TakenByLibrary(KeysOf(options.keys))
       /\ Works /\ Goto("open_failed")
       /\ UNCHANGED <<program, options, handle, fileIo, volume, presented, typed, misused>>

GivePassword == Give("password", "give_password", "give_recovery_password")
GiveRecoveryPassword ==
    Give("recovery_password", "give_recovery_password", "give_startup_key")

GiveStartupKey == Give("startup_key", "give_startup_key", "open_volume")

(* libbde_volume_open_file_io_handle, then libbde_volume_is_locked: only   *)
(* who is attended and locked out is asked for a password.                 *)
OpenVolume ==
    /\ At("open_volume")
    /\ \/ /\ Works
          /\ LifeCycle!Open
          /\ Goto(IF volume' = "unlocked" THEN "opened"
                  ELSE IF options.unattended THEN "still_locked" ELSE "prompt")
       \/ Breaks /\ Goto("open_failed") /\ UNCHANGED volume
    /\ UNCHANGED <<program, options, handle, fileIo, presented, typed, misused>>

(* A password of no length is not set. Setting one can fail with the       *)
(* password in the buffer; when it does not the buffer is wiped at once.   *)
Prompt ==
    /\ At("prompt")
    /\ \/ /\ Works /\ Goto("unlock")
          /\ UNCHANGED typed
       \/ /\ Breaks /\ Goto("open_failed")
          /\ typed' \in BOOLEAN
    /\ UNCHANGED <<program, options, handle, fileIo, volume, presented, misused>>

(* libbde_volume_unlock: unlocked, no secret fits, or an error. *)
UnlockVolume ==
    /\ At("unlock")
    /\ \/ Works /\ Goto("opened") /\ LifeCycle!Unlock
       \/ Works /\ Goto("still_locked") /\ UNCHANGED volume
       \/ Breaks /\ Goto("open_failed") /\ UNCHANGED volume
    /\ UNCHANGED <<program, options, handle, fileIo, presented, typed, misused>>

(* on_error of both: what was made is freed; bdeinfo wipes the password.   *)
Wiped == IF program = "bdeinfo" THEN FALSE ELSE typed

FreeVolume == IF volume = "absent" THEN UNCHANGED volume ELSE LifeCycle!Free

FreeOpened ==
    /\ fileIo' = "none"
    /\ FreeVolume
    /\ typed' = Wiped

OpenFails ==
    /\ At("open_failed")
    /\ FreeOpened
    /\ Works /\ Fail
    /\ UNCHANGED <<program, options, handle, presented, misused>>

OpenNext ==
    \/ NewFileRange \/ SetFileRange \/ NewVolume
    \/ GiveKeys \/ GivePassword \/ GiveRecoveryPassword \/ GiveStartupKey
    \/ OpenVolume \/ Prompt \/ UnlockVolume \/ OpenFails
=============================================================================
