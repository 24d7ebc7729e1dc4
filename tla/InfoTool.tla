------------------------------ MODULE InfoTool ------------------------------
(***************************************************************************)
(* bdeinfo: main, the info handle, and the printing of what the volume     *)
(* tells about itself. The info handle points at the volume and the file   *)
(* handle while they are being opened, so that its own free would close    *)
(* what an open left.                                                      *)
(***************************************************************************)
EXTENDS ToolOpen

CONSTANT Protectors     \* how many key protectors a volume has

ASSUME ProtectorsAssumption == Protectors \in Nat

VARIABLES
    printed,    \* what has been printed, in order
    identifier, \* a GUID or FILETIME object is allocated
    text,       \* the string with the description is allocated
    protector,  \* a key protector is allocated
    index       \* of the next key protector

printing == <<printed, identifier, text, protector, index>>

InfoInit ==
    /\ printed = << >>
    /\ identifier = FALSE
    /\ text = FALSE
    /\ protector = FALSE
    /\ index = 0

Aside == UNCHANGED <<program, options, presented, typed, misused>>

-----------------------------------------------------------------------------
(* main *)

InfoOptions ==
    /\ At("options")
    /\ \/ Works /\ \E status \in {"success", "failure"} : ExitWith(status)
       \/ Works /\ Goto("initialize")
    /\ UNCHANGED <<handle, fileIo, volume, printing>>
    /\ Aside

InitializeInfoHandle ==
    /\ At("initialize")
    /\ \/ Works /\ Goto("set_options") /\ handle' = "live"
       \/ Breaks /\ Goto("on_error") /\ UNCHANGED handle
    /\ UNCHANGED <<fileIo, volume, printing>>
    /\ Aside

(* info_handle_set_keys and _set_volume_offset; the rest is only kept. *)
SetInfoOptions ==
    /\ At("set_options")
    /\ IF WellFormed
       THEN Works /\ Call("new_file_range", "print_identifier", "on_error")
       ELSE Works /\ Goto("on_error")
    /\ UNCHANGED <<handle, fileIo, volume, printing>>
    /\ Aside

(* The end of info_handle_open: a volume that stays locked is opened too.  *)
InfoHandleOpen ==
    /\ At("opened") \/ At("still_locked")
    /\ Works /\ Succeed
    /\ UNCHANGED <<handle, fileIo, volume, printing>>
    /\ Aside

(* info_handle_close: each of the three steps is made whether or not those *)
(* before it failed.                                                       *)
CloseInfo ==
    /\ At("close")
    /\ \/ Works /\ Succeed /\ fileIo' = "none"
       \/ Breaks /\ Fail /\ fileIo' \in {"none", fileIo}
    /\ FreeVolume
    /\ UNCHANGED <<handle, printing>>
    /\ Aside

(* info_handle_free: an info handle with a file handle is closed first.    *)
FreeInfo ==
    /\ At("info_free")
    /\ Works
    /\ IF fileIo = "live"
       THEN Call("close", "info_free_last", "info_free_last")
       ELSE Goto("info_free_last")
    /\ UNCHANGED <<handle, fileIo, volume, printing>>
    /\ Aside

FreeInfoLast ==
    /\ At("info_free_last")
    /\ handle' = "none"
    /\ Works /\ Succeed
    /\ UNCHANGED <<fileIo, volume, printing>>
    /\ Aside

(* The calls of main behind the open. *)
MainCalls ==
    /\ Works
    /\ \/ At("printed") /\ Call("close", "closed", "on_error")
       \/ At("closed") /\ Call("info_free", "exit_success", "on_error")
       \/ /\ At("on_error")
          /\ IF handle = "live"
             THEN Call("info_free", "exit_failure", "exit_failure")
             ELSE Goto("exit_failure")
       \/ At("exit_success") /\ ExitWith("success")
       \/ At("exit_failure") /\ ExitWith("failure")
    /\ UNCHANGED <<handle, fileIo, volume, printing>>
    /\ Aside

-----------------------------------------------------------------------------
(* info_handle_volume_fprint *)

(* A step that prints a line and may fail; on_error frees what is at hand. *)
FaultyPrintingFails ==          \* the key protector is forgotten
    /\ Breaks /\ Goto("on_error")
    /\ identifier' = FALSE /\ text' = FALSE
    /\ UNCHANGED <<protector, printed, index>>

PrintingFails ==
    /\ Breaks /\ Goto("on_error")
    /\ identifier' = FALSE /\ text' = FALSE /\ protector' = FALSE
    /\ UNCHANGED <<printed, index>>

Shown(line) == printed' = Append(printed, line)

(* A GUID or a time is printed through an object made for it and freed:    *)
(* the printing can fail with the object made.                             *)
Converted(from, to, line) ==
    /\ At(from)
    /\ \/ /\ ~identifier
          /\ Works /\ Goto(from) /\ identifier' = TRUE
          /\ UNCHANGED <<printed, text, protector, index>>
       \/ /\ identifier
          /\ Works /\ Goto(to) /\ identifier' = FALSE /\ Shown(line)
          /\ UNCHANGED <<text, protector, index>>
       \/ PrintingFails

PrintIdentifier == Converted("print_identifier", "print_size", "identifier")

FaultyPrintSize ==                          \* of a locked volume too
    /\ At("print_size")
    /\ \/ Works /\ Goto("print_method") /\ Shown("size")
       \/ Breaks /\ Goto("on_error") /\ UNCHANGED printed
    /\ UNCHANGED <<identifier, text, protector, index>>

(* Only the size of an unlocked volume is asked for. *)
PrintSize ==
    /\ At("print_size")
    /\ \/ Works /\ Goto("print_method")
          /\ IF volume = "unlocked" THEN Shown("size") ELSE UNCHANGED printed
       \/ Breaks /\ Goto("on_error") /\ UNCHANGED printed
    /\ UNCHANGED <<identifier, text, protector, index>>

PrintMethod ==
    /\ At("print_method")
    /\ \/ /\ Works /\ Goto("print_time") /\ Shown("method")
          /\ UNCHANGED <<identifier, text, protector, index>>
       \/ PrintingFails

PrintTime == Converted("print_time", "print_description", "time")

(* A volume may have no description. *)
PrintDescription ==
    /\ At("print_description")
    /\ \/ /\ ~text
          /\ Works
          /\ \/ Goto("print_description") /\ text' = TRUE
             \/ Goto("print_count") /\ UNCHANGED text
          /\ UNCHANGED <<printed, identifier, protector, index>>
       \/ /\ text
          /\ Works /\ Goto("print_count") /\ text' = FALSE /\ Shown("description")
          /\ UNCHANGED <<identifier, protector, index>>
       \/ PrintingFails

PrintCount ==
    /\ At("print_count")
    /\ \/ /\ Works /\ Goto("print_protector")
          /\ Shown(IF volume = "unlocked" THEN "count" ELSE "locked")
          /\ UNCHANGED <<identifier, text, protector, index>>
       \/ PrintingFails

PrintProtector ==
    /\ At("print_protector")
    /\ \/ /\ index = Protectors
          /\ Works /\ Goto("printed")
          /\ UNCHANGED printing
       \/ /\ index < Protectors /\ ~protector
          /\ Works /\ Goto("print_protector")
          /\ protector' = TRUE
          /\ UNCHANGED <<printed, identifier, text, index>>
       \/ /\ protector
          /\ Works /\ Goto("print_protector")
          /\ protector' = FALSE
          /\ index' = index + 1
          /\ Shown("protector")
          /\ UNCHANGED <<identifier, text>>
       \/ PrintingFails

PrintVolume ==
    /\ \/ PrintIdentifier \/ PrintSize \/ PrintMethod \/ PrintTime
       \/ PrintDescription \/ PrintCount \/ PrintProtector
    /\ UNCHANGED <<handle, fileIo, volume>>
    /\ Aside

InfoNext ==
    \/ InfoOptions \/ InitializeInfoHandle \/ SetInfoOptions \/ InfoHandleOpen
    \/ CloseInfo \/ FreeInfo \/ FreeInfoLast \/ MainCalls \/ PrintVolume
    \/ OpenNext /\ UNCHANGED printing
=============================================================================
