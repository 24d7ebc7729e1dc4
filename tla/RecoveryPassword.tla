-------------------------- MODULE RecoveryPassword --------------------------
(***************************************************************************)
(* Setting a recovery password: libbde_volume_set_utf8_recovery_password   *)
(* with libbde_utf8_recovery_password_calculate_hash, segment by segment.  *)
(* (The UTF-16 functions differ in the character type only.)               *)
(*                                                                         *)
(* A password is a sequence of segments, each a number or NoNumber. The    *)
(* hash is modelled by what is hashed: the binary password.                *)
(***************************************************************************)
EXTENDS Integers, Sequences

CONSTANTS
    Passwords,      \* what callers set
    Segments,       \* segments of a recovery password: 8
    Divisor,        \* 11
    MaxBinary,      \* UINT16_MAX
    NoNumber,       \* a segment that is no decimal number
    Uninitialised,  \* bytes of the stack that nothing was written to
    Wiped,          \* bytes set to zero after use
    NoHash          \* no hash was calculated yet

ASSUME SegmentsAssumption == Segments \in Nat \ {0} /\ Divisor \in Nat \ {0}
ASSUME MaxBinaryAssumption == MaxBinary \in Nat
ASSUME PasswordsAssumption == \A p \in Passwords : p \in Seq(Nat \union {NoNumber})
ASSUME MarkersAssumption == {NoNumber, Uninitialised, Wiped} \intersect Nat = {}

VARIABLES
    pc,         \* "idle", "split" (into segments), "segment", "hash", "return"
    given,      \* the password of this call
    index,      \* segment_index: segments read
    binary,     \* binary_recovery_password: a number in two bytes per segment
    hash,       \* password_keep->recovery_password_hash
    isSet,      \* password_keep->recovery_password_is_set
    result      \* what the last call returned

vars == <<pc, given, index, binary, hash, isSet, result>>

Buffer(value) == [i \in 1 .. Segments |-> value]
Binaries == [1 .. Segments -> 0 .. MaxBinary]

Init ==
    /\ pc = "idle"
    /\ given = << >>
    /\ index = 0
    /\ binary = Buffer(Uninitialised)
    /\ hash = NoHash
    /\ isSet = FALSE
    /\ result = 0

SetRecoveryPassword ==
    /\ pc = "idle"
    /\ pc' = "split"
    /\ given' \in Passwords
    /\ index' = 0
    /\ binary' = Buffer(Uninitialised)
    /\ UNCHANGED <<hash, isSet, result>>

(* on_error of the calculation, which the setter returns as it is. *)
Fail ==
    /\ pc' = "return"
    /\ binary' = Buffer(Wiped)
    /\ result' = -1
    /\ UNCHANGED <<given, index, hash, isSet>>

(* Another number of segments is no error of the calculation: it returns 0,*)
(* of which the setter makes an error.                                     *)
Split ==
    /\ pc = "split"
    /\ IF Len(given) = Segments
       THEN pc' = "segment" /\ UNCHANGED result
       ELSE pc' = "return" /\ result' = -1
    /\ UNCHANGED <<given, index, binary, hash, isSet>>

FaultyFits(number) ==               \* refuses the largest number
    number % Divisor = 0 /\ number \div Divisor < MaxBinary

(* The check of a segment. *)
Fits(number) == number % Divisor = 0 /\ number \div Divisor <= MaxBinary

(* A segment that does not fit ends the loop, not the calculation. *)
ReadSegment ==
    /\ pc = "segment"
    /\ IF index = Segments
       THEN /\ pc' = "hash"
            /\ UNCHANGED <<given, index, binary, hash, isSet, result>>
       ELSE IF given[index + 1] = NoNumber
       THEN Fail
       ELSE IF Fits(given[index + 1])
       THEN /\ binary' = [binary EXCEPT ![index + 1] = given[index + 1] \div Divisor]
            /\ index' = index + 1
            /\ UNCHANGED <<pc, given, hash, isSet, result>>
       ELSE /\ pc' = "hash"
            /\ UNCHANGED <<given, index, binary, hash, isSet, result>>

(* What the bytes are when read: those never written may be anything. *)
ReadsAs(numbers) ==
    \A i \in 1 .. Segments : binary[i] # Uninitialised => numbers[i] = binary[i]

FaultyCalculateHash ==              \* leaves the binary password on the stack
    /\ pc = "hash"
    /\ \E numbers \in Binaries :
        /\ ReadsAs(numbers)
        /\ hash' = numbers
    /\ pc' = "return"
    /\ isSet' = TRUE
    /\ result' = 1
    /\ UNCHANGED <<given, index, binary>>

CalculateHash ==
    /\ pc = "hash"
    /\ \/ /\ \E numbers \in Binaries :
                /\ ReadsAs(numbers)
                /\ hash' = numbers
          /\ binary' = Buffer(Wiped)
          /\ pc' = "return"
          /\ isSet' = TRUE
          /\ result' = 1
          /\ UNCHANGED <<given, index>>
       \/ Fail                      \* of the hash function

Return ==
    /\ pc = "return"
    /\ pc' = "idle"
    /\ UNCHANGED <<given, index, binary, hash, isSet, result>>

Call == Split \/ ReadSegment \/ CalculateHash \/ Return

Next == SetRecoveryPassword \/ Call

Spec == Init /\ [][Next]_vars /\ WF_vars(Call)

-----------------------------------------------------------------------------
TypeOK ==
    /\ pc \in {"idle", "split", "segment", "hash", "return"}
    /\ given \in Passwords \union {<< >>}
    /\ index \in 0 .. Segments
    /\ binary \in [1 .. Segments -> (0 .. MaxBinary) \union {Uninitialised, Wiped}]
    /\ hash \in Binaries \union {NoHash}
    /\ isSet \in BOOLEAN
    /\ result \in {-1, 0, 1}

(* As the format has it: so many numbers, each a multiple of 11 whose      *)
(* eleventh part is of 16 bits.                                            *)
Valid(password) ==
    /\ Len(password) = Segments
    /\ \A i \in 1 .. Segments :
          password[i] # NoNumber /\ \E n \in 0 .. MaxBinary : password[i] = n * Divisor

(* A valid password that was accepted is hashed as its numbers divided by  *)
(* 11, in their order, whatever was set or refused before it and whatever  *)
(* the stack held (libbde_utf8_recovery_password_calculate_hash).          *)
ValidIsHashed ==
    pc = "return" /\ result = 1 /\ Valid(given)
        => /\ isSet
           /\ \A i \in 1 .. Segments : hash[i] * Divisor = given[i]

(* No part of the binary password stays on the stack after a call, however *)
(* the call ended (the memory_set of recovery.c:216 and of on_error).      *)
NoPasswordOnStack ==
    pc \in {"return", "idle"} =>
        \A i \in 1 .. Segments : binary[i] \in {Uninitialised, Wiped}

(* The comment of the function says that it returns 0 if the recovery      *)
(* password is invalid, that of the setter the same. A password of the     *)
(* right number of segments is accepted whatever its check digits: the loop*)
(* over the segments ends early and its result is still 1.                 *)
InvalidIsRefused == pc = "return" /\ result = 1 => Valid(given)
=============================================================================
