---------------------- MODULE RecoveryPassword_proofs ----------------------
(***************************************************************************)
(* What holds of RecoveryPassword for any passwords, any number of         *)
(* segments and any divisor.                                               *)
(***************************************************************************)
EXTENDS RecoveryPassword, TLAPS

-----------------------------------------------------------------------------
LEMMA Division ==
    ASSUME NEW d \in Nat \ {0}, NEW x \in Nat
    PROVE  /\ x \div d \in Nat
           /\ x % d \in 0 .. d - 1
           /\ x = d * (x \div d) + (x % d)
OBVIOUS

(* Dividing a multiple gives the factor and no remainder. *)
LEMMA Multiple ==
    ASSUME NEW d \in Nat \ {0}, NEW n \in Nat
    PROVE  (n * d) % d = 0 /\ (n * d) \div d = n
<1> DEFINE x == n * d
           q == x \div d
           m == x % d
<1>1. x \in Nat
  OBVIOUS
<1>2. q \in Nat /\ m \in 0 .. d - 1 /\ x = d * q + m
  BY <1>1, Division
<1> HIDE DEF q, m
<1>3. d * (n - q) = m
  <2>1. d * (n - q) = d * n - d * q
    BY <1>2
  <2> QED
    BY <2>1, <1>2
<1>4. ~(n > q)
  <2> SUFFICES ASSUME n > q PROVE FALSE
    OBVIOUS
  <2>1. d * (n - q - 1) >= 0
    BY <1>2
  <2>2. d * (n - q - 1) = d * (n - q) - d
    BY <1>2
  <2> QED
    BY <2>1, <2>2, <1>3, <1>2
<1>5. ~(n < q)
  <2> SUFFICES ASSUME n < q PROVE FALSE
    OBVIOUS
  <2>1. d * (q - n - 1) >= 0
    BY <1>2
  <2>2. d * (q - n - 1) = -(d * (n - q)) - d
    BY <1>2
  <2> QED
    BY <2>1, <2>2, <1>3, <1>2
<1>6. n = q
  BY <1>2, <1>4, <1>5
<1>7. m = 0
  BY <1>3, <1>6, <1>2
<1> QED
  BY <1>6, <1>7 DEF q, m

(* The check of a segment accepts every segment of a valid password, and   *)
(* from what it stores the segment can be told.                            *)
LEMMA ValidFits ==
    ASSUME NEW password, Valid(password), NEW i \in 1 .. Segments
    PROVE  password[i] # NoNumber /\ Fits(password[i])
<1>1. PICK n \in 0 .. MaxBinary : password[i] = n * Divisor
  BY DEF Valid
<1>2. (n * Divisor) % Divisor = 0 /\ (n * Divisor) \div Divisor = n
  BY Multiple, SegmentsAssumption, MaxBinaryAssumption
<1> QED
  BY <1>1, <1>2 DEF Valid, Fits

LEMMA StoredDetermines ==
    ASSUME NEW number \in Nat, Fits(number)
    PROVE  /\ number \div Divisor \in 0 .. MaxBinary
           /\ (number \div Divisor) * Divisor = number
<1>1. /\ number \div Divisor \in Nat
      /\ number % Divisor \in 0 .. Divisor - 1
      /\ number = Divisor * (number \div Divisor) + (number % Divisor)
  BY Division, SegmentsAssumption
<1>2. number % Divisor = 0 /\ number \div Divisor <= MaxBinary
  BY DEF Fits
<1> QED
  BY <1>1, <1>2, SegmentsAssumption, MaxBinaryAssumption

-----------------------------------------------------------------------------
(* Where the loop is: what was read of the password fits and is stored, and*)
(* the loop ended at its end or at a segment that does not fit.            *)
Stored(i) ==
    /\ given[i] # NoNumber
    /\ Fits(given[i])
    /\ binary[i] = given[i] \div Divisor

InLoop ==
    /\ pc = "split" => index = 0 /\ binary = Buffer(Uninitialised)
    /\ pc \in {"segment", "hash"} =>
          /\ Len(given) = Segments
          /\ \A i \in 1 .. index : Stored(i)
          /\ pc = "hash" => \/ index = Segments
                            \/ index < Segments /\ ~Fits(given[index + 1])

(* The inductive invariant. *)
IInv == TypeOK /\ InLoop /\ ValidIsHashed /\ NoPasswordOnStack

(* A segment of what was given is a number or none. *)
LEMMA SegmentType ==
    ASSUME TypeOK, Len(given) = Segments, NEW i \in 1 .. Segments
    PROVE  given[i] \in Nat \union {NoNumber}
<1>1. given \in Seq(Nat \union {NoNumber})
  BY PasswordsAssumption DEF TypeOK
<1> QED
  BY <1>1

LEMMA InitIInv == Init => IInv
<1> SUFFICES ASSUME Init PROVE IInv
  OBVIOUS
<1>1. TypeOK
  <2>1. index \in 0 .. Segments
    BY SegmentsAssumption DEF Init
  <2>2. binary \in [1 .. Segments -> (0 .. MaxBinary) \union {Uninitialised, Wiped}]
    BY DEF Init, Buffer
  <2> QED
    BY <2>1, <2>2 DEF Init, TypeOK
<1>2. InLoop
  BY DEF Init, InLoop
<1>3. ValidIsHashed
  BY DEF Init, ValidIsHashed
<1>4. NoPasswordOnStack
  BY DEF Init, NoPasswordOnStack, Buffer
<1> QED
  BY <1>1, <1>2, <1>3, <1>4 DEF IInv

(* Whatever fails wipes the buffer and leaves the keep alone. *)
LEMMA FailIInv == ASSUME IInv, Fail PROVE IInv'
<1>1. TypeOK'
  BY SegmentsAssumption DEF IInv, TypeOK, Fail, Buffer
<1>2. InLoop'
  BY DEF Fail, InLoop
<1>3. ValidIsHashed'
  BY DEF Fail, ValidIsHashed
<1>4. NoPasswordOnStack'
  BY DEF Fail, NoPasswordOnStack, Buffer
<1> QED
  BY <1>1, <1>2, <1>3, <1>4 DEF IInv

(* Storing a segment. *)
LEMMA ReadSegmentIInv == ASSUME IInv, ReadSegment PROVE IInv'
<1>1. CASE index = Segments
  <2>1. pc' = "hash" /\ UNCHANGED <<given, index, binary, hash, isSet, result>>
    BY <1>1 DEF ReadSegment
  <2>2. TypeOK'
    BY <2>1 DEF IInv, TypeOK
  <2>3. InLoop'
    BY <2>1, <1>1 DEF IInv, InLoop, Stored, ReadSegment
  <2> QED
    BY <2>1, <2>2, <2>3 DEF IInv, ValidIsHashed, NoPasswordOnStack
<1>2. CASE index # Segments /\ given[index + 1] = NoNumber
  BY <1>2, FailIInv DEF ReadSegment
<1>3. CASE index # Segments /\ given[index + 1] # NoNumber /\ Fits(given[index + 1])
  <2> DEFINE n == given[index + 1]
  <2>1. /\ binary' = [binary EXCEPT ![index + 1] = n \div Divisor]
        /\ index' = index + 1
        /\ UNCHANGED <<pc, given, hash, isSet, result>>
        /\ pc = "segment"
    BY <1>3 DEF ReadSegment
  <2>2. index \in 0 .. Segments - 1 /\ Len(given) = Segments /\ index + 1 \in 1 .. Segments
    BY <1>3, <2>1, SegmentsAssumption DEF IInv, TypeOK, InLoop
  <2>3. n \in Nat
    BY <1>3, <2>2, SegmentType DEF IInv
  <2>4. n \div Divisor \in 0 .. MaxBinary
    BY <1>3, <2>3, StoredDetermines
  <2> HIDE DEF n
  <2>5. binary' \in [1 .. Segments -> (0 .. MaxBinary) \union {Uninitialised, Wiped}]
    BY <2>1, <2>4 DEF IInv, TypeOK
  <2>6. TypeOK'
    BY <2>1, <2>2, <2>5, SegmentsAssumption DEF IInv, TypeOK
  <2>7. ASSUME NEW i \in 1 .. index + 1 PROVE Stored(i)'
    <3>1. CASE i = index + 1
      <4>1. binary'[i] = n \div Divisor
        BY <2>1, <2>2, <3>1 DEF IInv, TypeOK
      <4> QED
        BY <4>1, <2>1, <3>1, <1>3 DEF Stored, n, Fits
    <3>2. CASE i # index + 1
      <4>1. i \in 1 .. index /\ i \in 1 .. Segments
        BY <3>2, <2>2, SegmentsAssumption
      <4>2. Stored(i)
        BY <4>1, <2>1 DEF IInv, InLoop
      <4>3. binary'[i] = binary[i]
        BY <4>1, <3>2, <2>1 DEF IInv, TypeOK
      <4> QED
        BY <4>2, <4>3, <2>1 DEF Stored, Fits
    <3> QED
      BY <3>1, <3>2
  <2>8. InLoop'
    BY <2>1, <2>2, <2>7 DEF InLoop
  <2>9. ValidIsHashed' /\ NoPasswordOnStack'
    BY <2>1 DEF ValidIsHashed, NoPasswordOnStack
  <2> QED
    BY <2>6, <2>8, <2>9 DEF IInv
<1>4. CASE index # Segments /\ given[index + 1] # NoNumber /\ ~Fits(given[index + 1])
  <2>1. /\ pc' = "hash" /\ pc = "segment"
        /\ UNCHANGED <<given, index, binary, hash, isSet, result>>
    BY <1>4 DEF ReadSegment
  <2>2. TypeOK'
    BY <2>1 DEF IInv, TypeOK
  <2>3. index < Segments
    BY <1>4, SegmentsAssumption DEF IInv, TypeOK
  <2>4. InLoop'
    BY <2>1, <2>3, <1>4 DEF IInv, InLoop, Stored, Fits
  <2> QED
    BY <2>1, <2>2, <2>4 DEF IInv, ValidIsHashed, NoPasswordOnStack
<1> QED
  BY <1>1, <1>2, <1>3, <1>4

(* Hashing: of a valid password all segments were stored. *)
LEMMA CalculateHashIInv == ASSUME IInv, CalculateHash PROVE IInv'
<1>1. CASE Fail
  BY <1>1, FailIInv
<1>2. ASSUME NEW numbers \in Binaries, ReadsAs(numbers), hash' = numbers,
             binary' = Buffer(Wiped), pc' = "return", isSet' = TRUE, result' = 1,
             UNCHANGED <<given, index>>, pc = "hash"
      PROVE  IInv'
  <2>1. TypeOK'
    BY <1>2, SegmentsAssumption DEF IInv, TypeOK, Buffer
  <2>2. InLoop'
    BY <1>2 DEF InLoop
  <2>3. ASSUME Valid(given), NEW i \in 1 .. Segments
        PROVE  numbers[i] * Divisor = given[i]
    <3>1. index = Segments
      <4>1. CASE index < Segments /\ ~Fits(given[index + 1])
        <5>1. index + 1 \in 1 .. Segments
          BY <4>1, SegmentsAssumption DEF IInv, TypeOK
        <5> QED
          BY <5>1, <4>1, <2>3, ValidFits
      <4> QED
        BY <4>1, <1>2 DEF IInv, InLoop
    <3>2. Stored(i) /\ Len(given) = Segments
      BY <3>1, <1>2 DEF IInv, InLoop
    <3>3. given[i] \in Nat
      BY <3>2, SegmentType DEF IInv, Stored
    <3>4. /\ given[i] \div Divisor \in 0 .. MaxBinary
          /\ (given[i] \div Divisor) * Divisor = given[i]
      BY <3>2, <3>3, StoredDetermines DEF Stored
    <3>5. binary[i] # Uninitialised
      BY <3>2, <3>4, MarkersAssumption, MaxBinaryAssumption DEF Stored
    <3>6. numbers[i] = given[i] \div Divisor
      BY <3>5, <3>2, <1>2 DEF ReadsAs, Stored
    <3> QED
      BY <3>4, <3>6
  <2>4. Valid(given)' <=> Valid(given)
    BY <1>2 DEF Valid
  <2>5. ValidIsHashed'
    BY <1>2, <2>3, <2>4 DEF ValidIsHashed
  <2>6. NoPasswordOnStack'
    BY <1>2 DEF NoPasswordOnStack, Buffer
  <2> QED
    BY <2>1, <2>2, <2>5, <2>6 DEF IInv
<1> QED
  BY <1>1, <1>2 DEF CalculateHash

LEMMA NextIInv == IInv /\ [Next]_vars => IInv'
<1> SUFFICES ASSUME IInv, [Next]_vars PROVE IInv'
  OBVIOUS
<1>1. CASE SetRecoveryPassword
  <2>1. TypeOK'
    BY <1>1, SegmentsAssumption DEF IInv, TypeOK, SetRecoveryPassword, Buffer
  <2>2. InLoop'
    BY <1>1 DEF InLoop, SetRecoveryPassword, Buffer
  <2>3. ValidIsHashed' /\ NoPasswordOnStack'
    BY <1>1 DEF ValidIsHashed, NoPasswordOnStack, SetRecoveryPassword
  <2> QED
    BY <2>1, <2>2, <2>3 DEF IInv
<1>2. CASE Split
  <2>1. TypeOK'
    BY <1>2 DEF IInv, TypeOK, Split
  <2>2. InLoop'
    <3>1. CASE Len(given) = Segments
      <4>1. pc' = "segment" /\ UNCHANGED <<given, index, binary>>
        BY <3>1, <1>2 DEF Split
      <4>2. index = 0
        BY <1>2 DEF Split, IInv, InLoop
      <4> QED
        BY <4>1, <4>2, <3>1 DEF InLoop
    <3>2. CASE Len(given) # Segments
      BY <3>2, <1>2 DEF InLoop, Split
    <3> QED
      BY <3>1, <3>2
  <2>3. ValidIsHashed' /\ NoPasswordOnStack'
    BY <1>2 DEF ValidIsHashed, NoPasswordOnStack, Split, IInv, InLoop, Buffer
  <2> QED
    BY <2>1, <2>2, <2>3 DEF IInv
<1>3. CASE ReadSegment
  BY <1>3, ReadSegmentIInv
<1>4. CASE CalculateHash
  BY <1>4, CalculateHashIInv
<1>5. CASE Return
  <2>1. TypeOK' /\ InLoop' /\ ValidIsHashed' /\ NoPasswordOnStack'
    BY <1>5 DEF IInv, TypeOK, InLoop, ValidIsHashed, NoPasswordOnStack, Return
  <2> QED
    BY <2>1 DEF IInv
<1>6. CASE UNCHANGED vars
  <2>1. TypeOK' /\ InLoop'
    BY <1>6 DEF IInv, TypeOK, InLoop, Stored, Fits, vars
  <2>2. ValidIsHashed' /\ NoPasswordOnStack'
    BY <1>6 DEF IInv, ValidIsHashed, Valid, NoPasswordOnStack, vars
  <2> QED
    BY <2>1, <2>2 DEF IInv
<1> QED
  BY <1>1, <1>2, <1>3, <1>4, <1>5, <1>6 DEF Next, Call

LEMMA SpecIInv == Spec => []IInv
<1>1. Init => IInv
  BY InitIInv
<1>2. IInv /\ [Next]_vars => IInv'
  BY NextIInv
<1> QED
  BY <1>1, <1>2, PTL DEF Spec

-----------------------------------------------------------------------------
(* The numbers that are stored are of 16 bits, for any password.           *)
THEOREM TypesKept == Spec => []TypeOK
<1>1. IInv => TypeOK
  BY DEF IInv
<1> QED
  BY <1>1, SpecIInv, PTL

(* A valid password that is accepted is hashed as what it stands for.      *)
THEOREM ValidPasswordHashed == Spec => []ValidIsHashed
<1>1. IInv => ValidIsHashed
  BY DEF IInv
<1> QED
  BY <1>1, SpecIInv, PTL

(* No call leaves a part of the binary password on the stack.              *)
THEOREM StackIsWiped == Spec => []NoPasswordOnStack
<1>1. IInv => NoPasswordOnStack
  BY DEF IInv
<1> QED
  BY <1>1, SpecIInv, PTL
=============================================================================
