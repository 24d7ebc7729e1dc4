--------------------------- MODULE KeyProtectors ---------------------------
(***************************************************************************)
(* How the keys of a volume are taken from one of its metadata blocks:     *)
(* libbde_metadata_read_volume_master_key and                              *)
(* libbde_metadata_read_full_volume_encryption_key.                        *)
(*                                                                         *)
(* A metadata block is a record                                            *)
(*   method     encryption method                                          *)
(*   clearKey, startupKey, password, recovery                              *)
(*              the volume master key of each kind that the block keeps:   *)
(*              NoProtector, Malformed (a part of it is missing or short)  *)
(*              or the secret that opens it                                *)
(*   fvek       the volume key it wraps, or NoProtector, Malformed (its    *)
(*              size is not the method's), Unknown (another version)       *)
(* The secrets a caller gave are a record of external (the startup key),   *)
(* password and recovery, each NoSecret or a secret.                       *)
(***************************************************************************)
EXTENDS Integers

CONSTANTS
    NoSecret,       \* the caller gave none
    NoProtector,    \* the block has none
    Malformed,      \* the block has one that cannot be used
    Unknown,        \* a full volume encryption key of an unsupported version
    ZeroKey         \* bytes of a key that are zero

ASSUME MarkersAssumption ==
    /\ NoProtector # Malformed
    /\ Malformed # Unknown
    /\ NoProtector # Unknown
    /\ NoSecret # NoProtector

FaultyAttempt(protector, secret) ==         \* does not look at the secret
    IF secret = NoSecret THEN "none"
    ELSE IF protector \in {NoProtector, Malformed} THEN "error"
    ELSE "key"

(***************************************************************************)
(* One of the four attempts. What the caller did not give is not tried; a  *)
(* secret for which the block has no usable protector ends the search with *)
(* an error, a wrong one does not.                                         *)
(***************************************************************************)
Attempt(protector, secret) ==
    IF secret = NoSecret THEN "none"
    ELSE IF protector \in {NoProtector, Malformed} THEN "error"
    ELSE IF protector = secret THEN "key"
    ELSE "none"

(* A clear key needs no secret and is tried whenever the block has one. *)
ClearKeyAttempt(protector) ==
    IF protector = NoProtector THEN "none"
    ELSE IF protector = Malformed THEN "error"
    ELSE "key"

Attempts(block, secrets) ==
    << ClearKeyAttempt(block.clearKey),
       Attempt(block.startupKey, secrets.external),
       Attempt(block.password, secrets.password),
       Attempt(block.recovery, secrets.recovery) >>

(* The attempts are made in this order until one is decisive. *)
VolumeMasterKey(block, secrets) ==
    LET attempts == Attempts(block, secrets)
    IN  IF \A i \in 1 .. 4 : attempts[i] = "none"
        THEN "none"
        ELSE attempts[CHOOSE i \in 1 .. 4 :
                        /\ attempts[i] # "none"
                        /\ \A j \in 1 .. i - 1 : attempts[j] = "none"]

-----------------------------------------------------------------------------
(* The 64 bytes of a full volume encryption key in three parts: bytes 0 to *)
(* 15, 16 to 31 and 32 to 63. The 32 bytes of a TWEAK key are the first two.*)
KeyParts == 1 .. 3
TweakParts == 1 .. 2

PartEnd == <<16, 32, 64>>
PartsOfSize(size) == {p \in KeyParts : PartEnd[p] <= size}

(* Any other method fails the unwrapping, as a Malformed key does. *)
EncryptionMethods ==
    {"none", "aes_128_cbc_diffuser", "aes_256_cbc_diffuser", "aes_128_cbc",
     "aes_256_cbc", "aes_128_xts", "aes_256_xts"}

Diffuser(method) == method \in {"aes_128_cbc_diffuser", "aes_256_cbc_diffuser"}

FaultyWrappedSize(method) == IF method = "aes_128_cbc" THEN 16 ELSE 32

(* Bytes that unwrapping writes, by method. *)
WrappedSize(method) ==
    CASE method = "aes_128_cbc" -> 16
      [] method = "aes_256_xts" -> 64
      [] OTHER -> 32

(* Bytes of each key that the encryption context uses, by method. *)
UsedSize(method) ==
    CASE method = "none" -> 0
      [] method \in {"aes_128_cbc", "aes_128_cbc_diffuser"} -> 16
      [] method = "aes_256_xts" -> 64
      [] OTHER -> 32

NoKey == [p \in KeyParts |-> ZeroKey]
NoTweak == [p \in TweakParts |-> ZeroKey]

(* A key of this size in an otherwise zero buffer. *)
KeyOfSize(key, size) ==
    [p \in KeyParts |-> IF p \in PartsOfSize(size) THEN key ELSE ZeroKey]

FaultyTweakOfSize(key, size) ==             \* writes beyond the 32 bytes
    KeyOfSize(key, size)

TweakOfSize(key, size) ==
    [p \in TweakParts |-> IF p \in PartsOfSize(size) THEN key ELSE ZeroKey]

(* What unwrapping the full volume encryption key gives. *)
FullVolumeEncryptionKey(block) ==
    CASE block.fvek \in {NoProtector, Malformed} -> "error"
      [] block.fvek = Unknown -> "none"
      [] OTHER -> "key"
=============================================================================
