--------------------------- MODULE MCVolumeRead ---------------------------
(***************************************************************************)
(* Small volumes for VolumeRead: sectors of 2 bytes, volumes of 5 sectors, *)
(* one with each way of storing its first sectors.                         *)
(***************************************************************************)
EXTENDS VolumeRead

(* Vista: the first two sectors as they are, the first one patched. *)
Vista ==
    [version |-> "vista", bytesPerSector |-> 2, metadataOffsets |-> <<4, 6, 6>>,
     metadataSize |-> 2, headerOffset |-> 0, headerSize |-> 0,
     encryptedSize |-> 0, method |-> "aes_128_cbc_diffuser",
     volumeSize |-> 10, fileSize |-> 10]

(* Windows 7: the first sector moved to the fourth; the encryption of the  *)
(* volume has not reached the last sector; the file goes on behind it.     *)
Windows7 ==
    [version |-> "windows_7", bytesPerSector |-> 2, metadataOffsets |-> <<4, 4, 4>>,
     metadataSize |-> 2, headerOffset |-> 6, headerSize |-> 2,
     encryptedSize |-> 8, method |-> "aes_128_xts",
     volumeSize |-> 10, fileSize |-> 12]

(* BitLocker To Go, decrypted: nothing is encrypted any more. The file is  *)
(* shorter than the volume.                                                *)
ToGo ==
    [version |-> "to_go", bytesPerSector |-> 2, metadataOffsets |-> <<2, 4, 4>>,
     metadataSize |-> 2, headerOffset |-> 6, headerSize |-> 2,
     encryptedSize |-> 0, method |-> "none",
     volumeSize |-> 10, fileSize |-> 8]

MCLayouts == {Vista, Windows7, ToGo}
MCOffsets == {0, 1, 4, 9}
MCSizes == {0, 1, 4, 7}
=============================================================================
