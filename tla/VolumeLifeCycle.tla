-------------------------- MODULE VolumeLifeCycle --------------------------
(***************************************************************************)
(* What a program that uses the library can rely on: a libbde volume does  *)
(* not exist, is closed, or is open, and then it is locked or unlocked. A  *)
(* call that fails changes nothing. Volume implements this, and the models *)
(* of the programs (MountTool, InfoTool, PythonVolume) are built upon it.  *)
(***************************************************************************)

VARIABLE state      \* of one volume

States == {"absent", "closed", "locked", "unlocked"}

IsOpen == state \in {"locked", "unlocked"}

Init == state \in {"absent", "closed"}

(* libbde_volume_initialize *)
Initialize ==
    /\ state = "absent"
    /\ state' = "closed"

(* libbde_volume_open and libbde_volume_open_file_io_handle: with a right  *)
(* secret or key the volume is unlocked at once.                           *)
Open ==
    /\ state = "closed"
    /\ state' \in {"locked", "unlocked"}

(* libbde_volume_unlock, when a secret fits *)
Unlock ==
    /\ state = "locked"
    /\ state' = "unlocked"

(* libbde_volume_close *)
Close ==
    /\ IsOpen
    /\ state' = "closed"

(* libbde_volume_free, which closes the volume when it is open *)
Free ==
    /\ state # "absent"
    /\ state' = "absent"

Next == Initialize \/ Open \/ Unlock \/ Close \/ Free

Spec == Init /\ [][Next]_state
=============================================================================
