---------------------------------- MODULE CUIT ----------------------------------
(***************************************************************************)
(* The check digit of a CUIT (internal/domain/customer/customer.go):       *)
(* eleven digits, of which the last is computed from the others modulo 11. *)
(* The weights, and the two remainders that have no digit of their own,    *)
(* decide which slips of a person typing a CUIT NewCustomer notices.  The  *)
(* text is abstracted to the sequence of its digits, so a text that is not *)
(* eleven digits is a sequence of another length.                          *)
(***************************************************************************)
EXTENDS Integers, Sequences, TLAPS

Digit == 0 .. 9
Cuit == [1 .. 11 -> Digit]

\* sum of validateCUITChecksum: the digits before the last, weighted.
Weighted(cuit) ==
    5 * cuit[1] + 4 * cuit[2] + 3 * cuit[3] + 2 * cuit[4] + 7 * cuit[5]
        + 6 * cuit[6] + 5 * cuit[7] + 4 * cuit[8] + 3 * cuit[9] + 2 * cuit[10]

checkDigit(remainder) ==
    IF 11 - remainder = 11 THEN 0
    ELSE IF 11 - remainder = 10 THEN 9
    ELSE 11 - remainder

validateCUITChecksum(cuit) == checkDigit(Weighted(cuit) % 11) = cuit[11]

isValidCUIT(cuit) == cuit \in Cuit /\ validateCUITChecksum(cuit)

\* cuit with another digit at place i.
Slip(cuit, i, d) == [cuit EXCEPT ![i] = d]

-----------------------------------------------------------------------------
\* The digits of a CUIT are numbers, and so is their weighted sum.
LEMMA WeightedType ==
    ASSUME NEW cuit \in Cuit
    PROVE  Weighted(cuit) \in Nat
<1>1. /\ cuit[1] \in Nat /\ cuit[2] \in Nat /\ cuit[3] \in Nat /\ cuit[4] \in Nat
      /\ cuit[5] \in Nat /\ cuit[6] \in Nat /\ cuit[7] \in Nat /\ cuit[8] \in Nat
      /\ cuit[9] \in Nat /\ cuit[10] \in Nat
  BY DEF Cuit, Digit
<1>2. /\ 5 * cuit[1] \in Nat /\ 4 * cuit[2] \in Nat /\ 3 * cuit[3] \in Nat
      /\ 2 * cuit[4] \in Nat /\ 7 * cuit[5] \in Nat /\ 6 * cuit[6] \in Nat
      /\ 5 * cuit[7] \in Nat /\ 4 * cuit[8] \in Nat /\ 3 * cuit[9] \in Nat
      /\ 2 * cuit[10] \in Nat
  BY <1>1
<1> QED
  BY <1>2 DEF Weighted

\* The check digit is a digit, whatever the remainder is: no ten digits are
\* without a valid CUIT, and checkDigit never compares with 10 or 11
\* (customer.go:115-121).
THEOREM CheckDigitExists ==
    ASSUME NEW cuit \in Cuit
    PROVE  \E d \in Digit : isValidCUIT(Slip(cuit, 11, d))
<1> DEFINE d == checkDigit(Weighted(cuit) % 11)
<1>1. Weighted(cuit) % 11 \in 0 .. 10
  BY WeightedType
<1>2. d \in Digit
  BY <1>1 DEF checkDigit, Digit
<1>3. Weighted(Slip(cuit, 11, d)) = Weighted(cuit)
  BY DEF Weighted, Slip, Cuit
<1>4. Slip(cuit, 11, d) \in Cuit /\ Slip(cuit, 11, d)[11] = d
  BY <1>2 DEF Slip, Cuit
<1> QED
  BY <1>2, <1>3, <1>4 DEF isValidCUIT, validateCUITChecksum

\* The weight of each place is prime to 11, so another digit at a place gives
\* another remainder.
LEMMA SlipChangesRemainder ==
    ASSUME NEW s \in Int, NEW w \in 2 .. 7, NEW a \in Digit, NEW b \in Digit, a # b
    PROVE  (s + w * a) % 11 # (s + w * b) % 11
<1>1. CASE w = 2
  BY <1>1, SMTT(60) DEF Digit
<1>2. CASE w = 3
  BY <1>2, SMTT(60) DEF Digit
<1>3. CASE w = 4
  BY <1>3, SMTT(60) DEF Digit
<1>4. CASE w = 5
  BY <1>4, SMTT(60) DEF Digit
<1>5. CASE w = 6
  BY <1>5, SMTT(60) DEF Digit
<1>6. CASE w = 7
  BY <1>6, SMTT(60) DEF Digit
<1> QED
  BY <1>1, <1>2, <1>3, <1>4, <1>5, <1>6

\* checkDigit tells remainders apart, except 1 from 2.
LEMMA CheckDigitInjective ==
    ASSUME NEW m \in 0 .. 10, NEW n \in 0 .. 10, m # n, checkDigit(m) = checkDigit(n)
    PROVE  checkDigit(m) = 9 /\ {m, n} = {1, 2}
BY DEF checkDigit

\* A slip at one of the first ten places moves the sum by its weight.
LEMMA SlipMovesSum ==
    ASSUME NEW cuit \in Cuit, NEW i \in 1 .. 10, NEW d \in Digit
    PROVE  \E s \in Int, w \in 2 .. 7 :
              /\ Weighted(cuit) = s + w * cuit[i]
              /\ Weighted(Slip(cuit, i, d)) = s + w * d
<1>0. /\ cuit[1] \in Int /\ cuit[2] \in Int /\ cuit[3] \in Int /\ cuit[4] \in Int
      /\ cuit[5] \in Int /\ cuit[6] \in Int /\ cuit[7] \in Int /\ cuit[8] \in Int
      /\ cuit[9] \in Int /\ cuit[10] \in Int /\ d \in Int /\ Weighted(cuit) \in Int
  BY WeightedType DEF Cuit, Digit
<1>1. CASE i = 1
  <2>1. Weighted(cuit) - 5 * cuit[1] \in Int
    BY <1>0
  <2>2. Weighted(Slip(cuit, 1, d)) = (Weighted(cuit) - 5 * cuit[1]) + 5 * d
    BY <1>0 DEF Weighted, Slip, Cuit
  <2>3. Weighted(cuit) = (Weighted(cuit) - 5 * cuit[1]) + 5 * cuit[1]
    BY <1>0
  <2> QED
    BY <1>1, <2>1, <2>2, <2>3
<1>2. CASE i = 2
  <2>1. Weighted(cuit) - 4 * cuit[2] \in Int
    BY <1>0
  <2>2. Weighted(Slip(cuit, 2, d)) = (Weighted(cuit) - 4 * cuit[2]) + 4 * d
    BY <1>0 DEF Weighted, Slip, Cuit
  <2>3. Weighted(cuit) = (Weighted(cuit) - 4 * cuit[2]) + 4 * cuit[2]
    BY <1>0
  <2> QED
    BY <1>2, <2>1, <2>2, <2>3
<1>3. CASE i = 3
  <2>1. Weighted(cuit) - 3 * cuit[3] \in Int
    BY <1>0
  <2>2. Weighted(Slip(cuit, 3, d)) = (Weighted(cuit) - 3 * cuit[3]) + 3 * d
    BY <1>0 DEF Weighted, Slip, Cuit
  <2>3. Weighted(cuit) = (Weighted(cuit) - 3 * cuit[3]) + 3 * cuit[3]
    BY <1>0
  <2> QED
    BY <1>3, <2>1, <2>2, <2>3
<1>4. CASE i = 4
  <2>1. Weighted(cuit) - 2 * cuit[4] \in Int
    BY <1>0
  <2>2. Weighted(Slip(cuit, 4, d)) = (Weighted(cuit) - 2 * cuit[4]) + 2 * d
    BY <1>0 DEF Weighted, Slip, Cuit
  <2>3. Weighted(cuit) = (Weighted(cuit) - 2 * cuit[4]) + 2 * cuit[4]
    BY <1>0
  <2> QED
    BY <1>4, <2>1, <2>2, <2>3
<1>5. CASE i = 5
  <2>1. Weighted(cuit) - 7 * cuit[5] \in Int
    BY <1>0
  <2>2. Weighted(Slip(cuit, 5, d)) = (Weighted(cuit) - 7 * cuit[5]) + 7 * d
    BY <1>0 DEF Weighted, Slip, Cuit
  <2>3. Weighted(cuit) = (Weighted(cuit) - 7 * cuit[5]) + 7 * cuit[5]
    BY <1>0
  <2> QED
    BY <1>5, <2>1, <2>2, <2>3
<1>6. CASE i = 6
  <2>1. Weighted(cuit) - 6 * cuit[6] \in Int
    BY <1>0
  <2>2. Weighted(Slip(cuit, 6, d)) = (Weighted(cuit) - 6 * cuit[6]) + 6 * d
    BY <1>0 DEF Weighted, Slip, Cuit
  <2>3. Weighted(cuit) = (Weighted(cuit) - 6 * cuit[6]) + 6 * cuit[6]
    BY <1>0
  <2> QED
    BY <1>6, <2>1, <2>2, <2>3
<1>7. CASE i = 7
  <2>1. Weighted(cuit) - 5 * cuit[7] \in Int
    BY <1>0
  <2>2. Weighted(Slip(cuit, 7, d)) = (Weighted(cuit) - 5 * cuit[7]) + 5 * d
    BY <1>0 DEF Weighted, Slip, Cuit
  <2>3. Weighted(cuit) = (Weighted(cuit) - 5 * cuit[7]) + 5 * cuit[7]
    BY <1>0
  <2> QED
    BY <1>7, <2>1, <2>2, <2>3
<1>8. CASE i = 8
  <2>1. Weighted(cuit) - 4 * cuit[8] \in Int
    BY <1>0
  <2>2. Weighted(Slip(cuit, 8, d)) = (Weighted(cuit) - 4 * cuit[8]) + 4 * d
    BY <1>0 DEF Weighted, Slip, Cuit
  <2>3. Weighted(cuit) = (Weighted(cuit) - 4 * cuit[8]) + 4 * cuit[8]
    BY <1>0
  <2> QED
    BY <1>8, <2>1, <2>2, <2>3
<1>9. CASE i = 9
  <2>1. Weighted(cuit) - 3 * cuit[9] \in Int
    BY <1>0
  <2>2. Weighted(Slip(cuit, 9, d)) = (Weighted(cuit) - 3 * cuit[9]) + 3 * d
    BY <1>0 DEF Weighted, Slip, Cuit
  <2>3. Weighted(cuit) = (Weighted(cuit) - 3 * cuit[9]) + 3 * cuit[9]
    BY <1>0
  <2> QED
    BY <1>9, <2>1, <2>2, <2>3
<1>10. CASE i = 10
  <2>1. Weighted(cuit) - 2 * cuit[10] \in Int
    BY <1>0
  <2>2. Weighted(Slip(cuit, 10, d)) = (Weighted(cuit) - 2 * cuit[10]) + 2 * d
    BY <1>0 DEF Weighted, Slip, Cuit
  <2>3. Weighted(cuit) = (Weighted(cuit) - 2 * cuit[10]) + 2 * cuit[10]
    BY <1>0
  <2> QED
    BY <1>10, <2>1, <2>2, <2>3
<1> QED
  BY <1>1, <1>2, <1>3, <1>4, <1>5, <1>6, <1>7, <1>8, <1>9, <1>10

\* One wrong digit in a valid CUIT is noticed, at every place, unless the check
\* digit is the 9 that stands for two remainders (customer.go:115-121).
THEOREM SlipNoticed ==
    ASSUME NEW cuit \in Cuit, NEW i \in 1 .. 11, NEW d \in Digit, d # cuit[i],
           isValidCUIT(cuit), isValidCUIT(Slip(cuit, i, d))
    PROVE  i # 11 /\ cuit[11] = 9
<1> DEFINE slip == Slip(cuit, i, d)
<1>1. Weighted(cuit) % 11 \in 0 .. 10 /\ Weighted(slip) % 11 \in 0 .. 10
  BY WeightedType DEF isValidCUIT
<1>2. i # 11
  <2>1. ASSUME i = 11 PROVE Weighted(slip) = Weighted(cuit) /\ slip[11] = d
    BY <2>1 DEF Weighted, Slip, Cuit
  <2> QED
    BY <2>1 DEF isValidCUIT, validateCUITChecksum
<1>3. slip[11] = cuit[11]
  BY <1>2 DEF Slip, Cuit
<1>4. Weighted(cuit) % 11 # Weighted(slip) % 11
  <2>1. i \in 1 .. 10 /\ cuit[i] \in Digit
    BY <1>2 DEF Cuit
  <2>2. PICK s \in Int, w \in 2 .. 7 :
          /\ Weighted(cuit) = s + w * cuit[i]
          /\ Weighted(slip) = s + w * d
    BY <2>1, SlipMovesSum
  <2> QED
    BY <2>1, <2>2, SlipChangesRemainder
<1>5. checkDigit(Weighted(cuit) % 11) = checkDigit(Weighted(slip) % 11)
  BY <1>3 DEF isValidCUIT, validateCUITChecksum
<1> QED
  BY <1>1, <1>2, <1>4, <1>5, CheckDigitInjective DEF isValidCUIT, validateCUITChecksum

=============================================================================
