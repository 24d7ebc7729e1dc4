----------------------------- MODULE MCVolume -----------------------------
(***************************************************************************)
(* Small instances of Volume: two disks with different keys, methods and   *)
(* protectors, and callers with the passwords of each.                     *)
(***************************************************************************)
EXTENDS Volume

CONSTANTS dA, dB, kA, kB, sA, sB

MCDisks == {dA, dB}
MCDiskKey == [d \in {dA, dB} |-> IF d = dA THEN kA ELSE kB]
MCDiskMethod ==
    [d \in {dA, dB} |-> IF d = dA THEN "aes_256_xts" ELSE "aes_128_cbc_diffuser"]

BlockA == [method |-> "aes_256_xts", clearKey |-> NoProtector,
           startupKey |-> NoProtector, password |-> sA, recovery |-> sB,
           fvek |-> kA]
BlockB == [method |-> "aes_128_cbc_diffuser", clearKey |-> NoProtector,
           startupKey |-> sB, password |-> sA, recovery |-> NoProtector,
           fvek |-> kB]

(* The first block of A has a key of an unsupported version. *)
MCBlocks ==
    [d \in {dA, dB} |->
        IF d = dA
        THEN <<[BlockA EXCEPT !.fvek = Unknown], BlockA, BlockA>>
        ELSE <<BlockB, BlockB, [BlockB EXCEPT !.password = Malformed]>>]

(* The volume header of A states a size that is a sector short; B has its  *)
(* size in the NTFS header, and no file for the sector more.               *)
MCHeaderSize == [d \in {dA, dB} |-> IF d = dA THEN 4 ELSE 0]

(* Both state their size: a wrong key goes unnoticed. *)
MCStatedSize == [d \in {dA, dB} |-> 4]

MCNtfsSize == [d \in {dA, dB} |-> 3]
MCEncryptedSize == [d \in {dA, dB} |-> IF d = dA THEN 5 ELSE 4]
MCFileSize == [d \in {dA, dB} |-> IF d = dA THEN 6 ELSE 3]
=============================================================================
