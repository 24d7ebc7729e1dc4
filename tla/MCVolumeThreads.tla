-------------------------- MODULE MCVolumeThreads --------------------------
(***************************************************************************)
(* Who calls what in the run of VolumeThreads.                             *)
(***************************************************************************)
EXTENDS VolumeThreads

CONSTANTS owner, user, other

(* One thread opens and closes, two others use the volume. *)
OwnerAndUsers ==
    [t \in {owner, user, other} |->
        IF t = owner
        THEN {"open", "open_file_io_handle", "close", "read_startup_key"}
        ELSE IF t = user THEN {"unlock", "read_buffer", "get_size"}
        ELSE {"read_buffer", "get_size"}]

(* All open, close and use the volume, with handles of their own. *)
OwnHandles ==
    [t \in {owner, user, other} |->
        {"open_file_io_handle", "close", "unlock", "read_buffer", "get_size"}]

(* Two open, let the library open, and close as they like.                 *)
Rivals ==
    [t \in {owner, user, other} |->
        IF t = other THEN {"unlock", "read_buffer"}
        ELSE {"open", "open_file_io_handle", "close"}]

MCPrograms == {OwnerAndUsers, OwnHandles, Rivals}

ASSUME OneReadsKeys == OneKeyReader
=============================================================================
