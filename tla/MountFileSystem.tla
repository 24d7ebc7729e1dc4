-------------------------- MODULE MountFileSystem --------------------------
(***************************************************************************)
(* mount_file_system_t and mount_file_entry_t of bdemount: a root          *)
(* directory and in it one file for each volume, named by its number.      *)
(*                                                                         *)
(* A path is the root, the path prefix followed by decimal digits, or      *)
(* anything else; of the second only the digits matter. An entry is what a *)
(* mount_file_entry_t refers to: no volume, or the volume with an index.   *)
(***************************************************************************)
EXTENDS Naturals, Integers, SequencesExt

Root == -1          \* an entry whose bde_volume is NULL
NotFound == -2      \* result 0: there is no such entry
Failed == -3        \* result -1
NoEntry == -4       \* a pointer to an entry that is NULL

RootPath == [kind |-> "root", digits |-> << >>]
OtherPath == [kind |-> "other", digits |-> << >>]
VolumePath(digits) == [kind |-> "volume", digits |-> digits]

(* path_length is compared with path_prefix_size, which counts the end of  *)
(* the string.                                                             *)
MaxDigits == 4
MaxListed == 999

Number(digits) == FoldLeft(LAMBDA number, digit : 10 * number + digit, 0, digits)

(* mount_file_system_get_volume_by_path; no index below 0 is in the array. *)
VolumeByPath(path, numberOfVolumes) ==
    IF path.kind = "root"
    THEN Root
    ELSE IF path.kind = "other" \/ Len(path.digits) \notin 1 .. MaxDigits
    THEN NotFound
    ELSE IF Number(path.digits) \in 1 .. numberOfVolumes
    THEN Number(path.digits) - 1
    ELSE Failed

DigitCount(number) ==
    CHOOSE count \in 1 .. MaxDigits :
        number \div 10 ^ count = 0 /\ (count = 1 \/ number \div 10 ^ (count - 1) > 0)

(* The digits are written from the last to the first. *)
Digits(number) ==
    [n \in 1 .. DigitCount(number) |->
        (number \div 10 ^ (DigitCount(number) - n)) % 10]

(* mount_file_system_get_path_from_volume_index *)
PathFromVolumeIndex(index) == VolumePath(Digits(index + 1))

(* The file mode and the size a stat of an entry shows; the size of a      *)
(* volume is asked of the library, which refuses when it is locked.        *)
IsDirectory(entry) == entry = Root

Sizes == {"zero", "volume", "failed"}

SizeOf(entry, volume) ==
    IF entry \in {Root, NoEntry} THEN "zero"
    ELSE IF volume = "unlocked" THEN "volume"
    ELSE "failed"

(* A root entry for the file of a volume; result 0 and none for the root. *)
ParentOf(entry) == IF IsDirectory(entry) THEN NoEntry ELSE Root

NumberOfSubEntries(entry, numberOfVolumes) ==
    IF ~IsDirectory(entry) THEN 0
    ELSE IF numberOfVolumes > MaxListed THEN Failed
    ELSE numberOfVolumes

(* The sub entry with an index has the name of its path behind the slash.  *)
NameOf(entry) == PathFromVolumeIndex(entry).digits

(* Reading is left to the library; the root has no volume to read from.    *)
Readable(entry, volume) == ~IsDirectory(entry) /\ volume = "unlocked"

(* Every name under which a directory may list a volume is found again and *)
(* is the name of that very volume, however many there are.                *)
NamesResolve(numberOfVolumes) ==
    \A index \in 0 .. numberOfVolumes - 1 :
        VolumeByPath(PathFromVolumeIndex(index), numberOfVolumes) = index
=============================================================================
