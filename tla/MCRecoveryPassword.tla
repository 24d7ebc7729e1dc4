------------------------- MODULE MCRecoveryPassword -------------------------
(***************************************************************************)
(* Passwords of up to three segments where two are right, with segments    *)
(* that are valid, no multiple of 11, too large, or no number.             *)
(***************************************************************************)
EXTENDS RecoveryPassword

MCPasswords == UNION {[1 .. n -> {0, 5, 11, 22, 33, NoNumber}] : n \in 0 .. 3}
=============================================================================
