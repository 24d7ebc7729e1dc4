---------------------------- MODULE ToolOptions ----------------------------
(***************************************************************************)
(* How bdemount and bdeinfo read the two options that are more than kept:  *)
(* -k, one or two segments of base16 digits between colons, and -o, a      *)
(* decimal number. A key option is the sequence of its segments' lengths,  *)
(* an offset its sign and its characters.                                  *)
(***************************************************************************)
EXTENDS Naturals, Integers, SequencesExt

CONSTANT Width      \* of an offset: 64 bits, fewer in the instances

ASSUME WidthAssumption == Width \in 1 .. 30

Malformed == [size |-> 0, tweakSize |-> 0]

(* A full volume encryption key of 16, 32 or 64 bytes; only beside one of  *)
(* the former a TWEAK key of 16 or 32 bytes.                               *)
Segments(segments) ==
    /\ Len(segments) \in 1 .. 2
    /\ segments[1] \in {32, 64, 128}
    /\ Len(segments) = 2 => segments[1] # 128 /\ segments[2] \in {32, 64}

(* mount_handle_set_keys and info_handle_set_keys *)
KeysOf(segments) ==
    IF Segments(segments)
    THEN [size |-> segments[1] \div 2,
          tweakSize |-> IF Len(segments) = 2 THEN segments[2] \div 2 ELSE 0]
    ELSE Malformed

(* What libbde_volume_set_keys takes: see SetKeys of Volume. *)
TakenByLibrary(keys) ==
    /\ keys.size \in {16, 32, 64}
    /\ keys.tweakSize \in {0, keys.size}
    /\ keys.tweakSize <= 32

(* The digits of the largest number there is, and one more, are read.      *)
MaximumDigits ==
    1 + CHOOSE count \in 1 .. Width :
            10 ^ (count - 1) < 2 ^ Width /\ 2 ^ Width <= 10 ^ count

Digit == 0 .. 9

Wrapped(number) == number % 2 ^ Width

(* A number that does not fit is wrapped, a negative one is as well: as    *)
(* the signed volume offset it is then negative again.                     *)
OffsetOf(text) ==
    LET number == FoldLeft(LAMBDA n, d : Wrapped(10 * n + d), 0, text.digits)
    IN  IF text.negative THEN Wrapped(2 ^ Width - number) ELSE number

ReadsAsOffset(text) ==
    /\ Len(text.digits) <= MaximumDigits
    /\ \A n \in 1 .. Len(text.digits) : text.digits[n] \in Digit

(* As a file offset the upper half of the numbers is negative.             *)
IsFileOffset(offset) == offset < 2 ^ (Width - 1)
=============================================================================
