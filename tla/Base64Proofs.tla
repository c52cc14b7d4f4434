------------------------------ MODULE Base64Proofs ------------------------------
(***************************************************************************)
(* The decoder stays within its target and accepts just the strings that   *)
(* ntop makes, for every string, every target and every set of digits.     *)
(***************************************************************************)
EXTENDS Base64, TLAPS

(* The parts of a digit as they are stored. *)
LEMMA DigitParts ==
  ASSUME NEW ch \in 0 .. 63
  PROVE  /\ (ch * 4) % 256 = 4 * ch
         /\ ch \div 16 \in 0 .. 3 /\ ch % 16 \in 0 .. 15
         /\ ch \div 4 \in 0 .. 15 /\ ch % 4 \in 0 .. 3
OBVIOUS

(* The first digit of a group: a new byte. *)
LEMMA FirstDigit ==
  ASSUME DecoderInv, targsize \in Nat, NEW ch \in 0 .. 63, phase = "digits", state = 0,
         ~NoRoom, target' = [target EXCEPT ![tarindex] = (ch * 4) % 256],
         tarindex' = tarindex, state' = 1, UNCHANGED <<phase, result, targsize>>
  PROVE  DecoderInv'
<1>0. (ch * 4) % 256 = 4 * ch
  BY DigitParts
<1>1. (ch * 4) % 256 = 4 * ch /\ 4 * ch \in 0 .. 255 /\ tarindex \in 0 .. targsize - 1
  <2>1. 4 * ch \in 0 .. 255
    OBVIOUS
  <2>2. tarindex \in 0 .. targsize - 1
    BY DEF NoRoom, DecoderInv, TypeOK
  <2> QED
    BY <1>0, <2>1, <2>2
<1>2. target' \in [0 .. targsize' - 1 -> 0 .. 255] /\ target'[tarindex'] = 4 * ch
  BY <1>1 DEF DecoderInv, TypeOK
<1>3. TypeOK'
  BY <1>1, <1>2 DEF DecoderInv, TypeOK
<1>4. Partial'
  BY <1>2 DEF Partial
<1> QED
  BY <1>3, <1>4 DEF DecoderInv

(* Storing a digit that ends the current byte and begins the next one. *)
LEMMA StoreBoth ==
  ASSUME TypeOK, targsize \in Nat, tarindex + 1 < targsize, UNCHANGED targsize,
         NEW current \in 0 .. 63, NEW next \in 0 .. 255, Store(current, next),
         target[tarindex] + current \in 0 .. 255, tarindex' = tarindex + 1
  PROVE  /\ target' \in [0 .. targsize' - 1 -> 0 .. 255]
         /\ target'[tarindex'] = next
<1>1. tarindex \in 0 .. targsize - 1 /\ tarindex + 1 \in 0 .. targsize - 1 /\ next # -1
  BY DEF TypeOK
<1> QED
  BY <1>1 DEF TypeOK, Store

(* Every step keeps the decoder within its target.                           *)
LEMMA DecoderStep ==
  DecoderInv /\ targsize \in Nat /\ [Next]_vars => (DecoderInv /\ targsize \in Nat)'
<1> USE Base64Assumption DEF Pad, Space, Bad, End, Pending
<1> SUFFICES ASSUME DecoderInv, targsize \in Nat, [Next]_vars
             PROVE  DecoderInv' /\ (targsize \in Nat)'
  OBVIOUS
<1>f. ASSUME Fail, UNCHANGED targsize PROVE DecoderInv'
  BY <1>f DEF Fail, DecoderInv, TypeOK, Partial
<1>1. ASSUME NEW ch \in 0 .. 63, UNCHANGED targsize, phase = "digits", ~NoRoom,
             StoreDigit(ch)
      PROVE  DecoderInv'
  <2>0. UNCHANGED <<phase, result>> /\ state' = (state + 1) % 4
    BY <1>1, Zenon DEF StoreDigit
  <2>1. CASE state = 0
    <3>1. target' = [target EXCEPT ![tarindex] = (ch * 4) % 256] /\ tarindex' = tarindex
      BY <1>1, <2>1, Zenon DEF StoreDigit
    <3>2. state' = 1
      BY <2>0, <2>1
    <3> QED
      BY <1>1, <2>0, <2>1, <3>1, <3>2, FirstDigit
  <2>2. CASE state = 1
    <3>1. PICK k \in 0 .. 63 : target[tarindex] = 4 * k
      BY <2>2 DEF DecoderInv, Partial
    <3>2. Store(ch \div 16, (ch % 16) * 16) /\ tarindex' = tarindex + 1
      BY <1>1, <2>2 DEF StoreDigit
    <3>3. tarindex + 1 < targsize /\ state' = 2
      BY <1>1, <2>0, <2>2 DEF NoRoom, DecoderInv, TypeOK
    <3>4. /\ ch \div 16 \in 0 .. 63 /\ (ch % 16) * 16 \in 0 .. 255
          /\ target[tarindex] + ch \div 16 \in 0 .. 255
      BY <1>1, <3>1, DigitParts
    <3>5. /\ target' \in [0 .. targsize' - 1 -> 0 .. 255]
          /\ target'[tarindex'] = (ch % 16) * 16
      BY <1>1, <3>2, <3>3, <3>4, StoreBoth DEF DecoderInv
    <3>6. TypeOK'
      BY <1>1, <2>0, <3>2, <3>3, <3>5 DEF DecoderInv, TypeOK
    <3>7. ch % 16 \in 0 .. 15 /\ target'[tarindex'] = 16 * (ch % 16)
      BY <1>1, <3>5, DigitParts
    <3>8. Partial'
      BY <1>1, <2>0, <3>3, <3>7 DEF Partial
    <3> QED
      BY <3>6, <3>8 DEF DecoderInv
  <2>3. CASE state = 2
    <3>1. PICK k \in 0 .. 15 : target[tarindex] = 16 * k
      BY <2>3 DEF DecoderInv, Partial
    <3>2. Store(ch \div 4, (ch % 4) * 64) /\ tarindex' = tarindex + 1
      BY <1>1, <2>3 DEF StoreDigit
    <3>3. tarindex + 1 < targsize /\ state' = 3
      BY <1>1, <2>0, <2>3 DEF NoRoom, DecoderInv, TypeOK
    <3>4. /\ ch \div 4 \in 0 .. 63 /\ (ch % 4) * 64 \in 0 .. 255
          /\ target[tarindex] + ch \div 4 \in 0 .. 255
      BY <1>1, <3>1, DigitParts
    <3>5. /\ target' \in [0 .. targsize' - 1 -> 0 .. 255]
          /\ target'[tarindex'] = (ch % 4) * 64
      BY <1>1, <3>2, <3>3, <3>4, StoreBoth DEF DecoderInv
    <3>6. TypeOK'
      BY <1>1, <2>0, <3>2, <3>3, <3>5 DEF DecoderInv, TypeOK
    <3>7. ch % 4 \in 0 .. 3 /\ target'[tarindex'] = 64 * (ch % 4)
      BY <1>1, <3>5, DigitParts
    <3>8. Partial'
      BY <1>1, <2>0, <3>3, <3>7 DEF Partial
    <3> QED
      BY <3>6, <3>8 DEF DecoderInv
  <2>4. CASE state = 3
    <3>1. PICK k \in 0 .. 3 : target[tarindex] = 64 * k
      BY <2>4 DEF DecoderInv, Partial
    <3>2. Store(ch, -1) /\ tarindex' = tarindex + 1
      BY <1>1, <2>4 DEF StoreDigit
    <3>3. tarindex < targsize /\ state' = 0
      BY <1>1, <2>0, <2>4 DEF NoRoom, DecoderInv, TypeOK
    <3>4. target[tarindex] + ch \in 0 .. 255 /\ tarindex \in 0 .. targsize - 1
      BY <1>1, <3>1, <3>3 DEF DecoderInv, TypeOK
    <3>5. target' \in [0 .. targsize' - 1 -> 0 .. 255]
      BY <1>1, <3>2, <3>4 DEF DecoderInv, TypeOK, Store
    <3>6. TypeOK'
      BY <1>1, <2>0, <3>2, <3>3, <3>4, <3>5 DEF DecoderInv, TypeOK
    <3>7. Partial'
      BY <1>1, <2>0, <3>3 DEF Partial
    <3> QED
      BY <3>6, <3>7 DEF DecoderInv
  <2>5. state \in 0 .. 3
    BY DEF DecoderInv, TypeOK
  <2> QED
    BY <2>1, <2>2, <2>3, <2>4, <2>5
<1>2. CASE ReadDigit
  <2>1. PICK ch \in Digits : /\ Read(ch)
                             /\ phase = "digits"
                             /\ \/ NoRoom /\ Fail
                                \/ ~NoRoom /\ StoreDigit(ch)
    BY <1>2, Zenon DEF ReadDigit
  <2>2. ch \in 0 .. 63 /\ UNCHANGED targsize
    BY <2>1 DEF Read
  <2> QED
    BY <2>1, <2>2, <1>1, <1>f
<1>3. CASE ReadSpace
  BY <1>3 DEF ReadSpace, Read, DecoderInv, TypeOK, Partial
<1>4. CASE ReadPad
  <2>1. CASE Fail
    BY <1>4, <2>1, <1>f DEF ReadPad, Read
  <2>2. CASE ~Fail
    <3>1. /\ phase' \in {"digits", "second", "tail"}
          /\ UNCHANGED <<state, target, tarindex, result, targsize>>
      BY <1>4, <2>2 DEF ReadPad, Read
    <3>2. phase' # "digits" => state \in {2, 3}
      BY <1>4, <2>2 DEF ReadPad, DecoderInv, Partial
    <3>3. TypeOK'
      BY <3>1 DEF DecoderInv, TypeOK
    <3>4. Partial'
      BY <3>1, <3>2 DEF DecoderInv, Partial
    <3> QED
      BY <3>1, <3>3, <3>4 DEF DecoderInv
  <2> QED
    BY <2>1, <2>2
<1>5. CASE ReadOther
  BY <1>5, <1>f DEF ReadOther, Read
<1>6. CASE ReadEnd
  <2>1. CASE MayEnd
    BY <1>6, <2>1 DEF ReadEnd, Read, DecoderInv, TypeOK, Partial
  <2>2. CASE ~MayEnd
    BY <1>6, <2>2, <1>f DEF ReadEnd, Read
  <2> QED
    BY <2>1, <2>2
<1>7. CASE Returned \/ UNCHANGED vars
  <2>1. UNCHANGED vars
    BY <1>7 DEF Returned
  <2>2. UNCHANGED <<phase, state, target, tarindex, targsize, result>>
    BY <2>1 DEF vars
  <2>3. TypeOK'
    BY <2>2 DEF DecoderInv, TypeOK
  <2>4. Partial'
    BY <2>2 DEF DecoderInv, Partial
  <2> QED
    BY <2>2, <2>3, <2>4 DEF DecoderInv
<1>8. DecoderInv'
  BY <1>2, <1>3, <1>4, <1>5, <1>6, <1>7 DEF Next
<1>9. UNCHANGED targsize
  BY DEF Next, ReadDigit, ReadSpace, ReadPad, ReadOther, ReadEnd, Returned, Read, vars
<1> QED
  BY <1>8, <1>9

(* No byte is written or read outside the target, whatever the string is     *)
(* (pton_do): the byte a digit begins has its place before it is begun.      *)
THEOREM StaysInTarget == Spec => []DecoderInv
<1>1. Init => DecoderInv /\ targsize \in Nat
  BY Base64Assumption DEF Init, DecoderInv, TypeOK, Partial, Pending
<1>2. DecoderInv /\ targsize \in Nat /\ [Next]_vars => (DecoderInv /\ targsize \in Nat)'
  BY DecoderStep
<1> QED
  BY <1>1, <1>2, PTL DEF Spec

---------------------------------------------------------------------------
(* The bytes of the digits, and the digits of the bytes. *)

(* A digit is the sum of its bits, and so are its parts.                     *)
LEMMA DigitBits ==
  ASSUME NEW d \in 0 .. 63
  PROVE  LET bit(w) == (d \div w) % 2
         IN  /\ 4 * d = 128 * bit(32) + 64 * bit(16) + 32 * bit(8) + 16 * bit(4)
                        + 8 * bit(2) + 4 * bit(1)
             /\ d \div 16 = 2 * bit(32) + bit(16)
             /\ 16 * (d % 16) = 128 * bit(8) + 64 * bit(4) + 32 * bit(2) + 16 * bit(1)
             /\ d \div 4 = 8 * bit(32) + 4 * bit(16) + 2 * bit(8) + bit(4)
             /\ 64 * (d % 4) = 128 * bit(2) + 64 * bit(1)
             /\ d = 32 * bit(32) + 16 * bit(16) + 8 * bit(8) + 4 * bit(4) + 2 * bit(2) + bit(1)
BY Z3

(* The bits of digit a + 1.                                                  *)
LEMMA BitOfDigit ==
  ASSUME NEW s, NEW a \in Nat
  PROVE  /\ Bit(s, 6 * a) = (s[a + 1] \div 32) % 2
         /\ Bit(s, 6 * a + 1) = (s[a + 1] \div 16) % 2
         /\ Bit(s, 6 * a + 2) = (s[a + 1] \div 8) % 2
         /\ Bit(s, 6 * a + 3) = (s[a + 1] \div 4) % 2
         /\ Bit(s, 6 * a + 4) = (s[a + 1] \div 2) % 2
         /\ Bit(s, 6 * a + 5) = (s[a + 1] \div 1) % 2
<1> DEFINE weights == <<32, 16, 8, 4, 2, 1>>
<1>1. ASSUME NEW c \in 0 .. 5 PROVE Bit(s, 6 * a + c) = (s[a + 1] \div weights[c + 1]) % 2
  <2>1. (6 * a + c) \div 6 = a /\ (6 * a + c) % 6 = c
    BY Z3
  <2> QED
    BY <2>1 DEF Bit
<1>2. /\ weights[1] = 32 /\ weights[2] = 16 /\ weights[3] = 8
      /\ weights[4] = 4 /\ weights[5] = 2 /\ weights[6] = 1
  OBVIOUS
<1> HIDE DEF weights
<1>3. 6 * a + 0 = 6 * a
  OBVIOUS
<1>4. Bit(s, 6 * a) = (s[a + 1] \div 32) % 2
  <2>1. Bit(s, 6 * a + 0) = (s[a + 1] \div weights[0 + 1]) % 2
    BY <1>1
  <2> QED
    BY <1>2, <1>3, <2>1
<1>5. Bit(s, 6 * a + 1) = (s[a + 1] \div 16) % 2
  <2>1. Bit(s, 6 * a + 1) = (s[a + 1] \div weights[1 + 1]) % 2
    BY <1>1
  <2> QED
    BY <1>2, <2>1
<1>6. Bit(s, 6 * a + 2) = (s[a + 1] \div 8) % 2
  <2>1. Bit(s, 6 * a + 2) = (s[a + 1] \div weights[2 + 1]) % 2
    BY <1>1
  <2> QED
    BY <1>2, <2>1
<1>7. Bit(s, 6 * a + 3) = (s[a + 1] \div 4) % 2
  <2>1. Bit(s, 6 * a + 3) = (s[a + 1] \div weights[3 + 1]) % 2
    BY <1>1
  <2> QED
    BY <1>2, <2>1
<1>8. Bit(s, 6 * a + 4) = (s[a + 1] \div 2) % 2
  <2>1. Bit(s, 6 * a + 4) = (s[a + 1] \div weights[4 + 1]) % 2
    BY <1>1
  <2> QED
    BY <1>2, <2>1
<1>9. Bit(s, 6 * a + 5) = (s[a + 1] \div 1) % 2
  <2>1. Bit(s, 6 * a + 5) = (s[a + 1] \div weights[5 + 1]) % 2
    BY <1>1
  <2> QED
    BY <1>2, <2>1
<1> QED
  BY <1>4, <1>5, <1>6, <1>7, <1>8, <1>9

(* The bits of the digits of the k-th group.                                 *)
BitsAre(s, a, d) ==
  /\ Bit(s, 6 * a) = (d \div 32) % 2 /\ Bit(s, 6 * a + 1) = (d \div 16) % 2
  /\ Bit(s, 6 * a + 2) = (d \div 8) % 2 /\ Bit(s, 6 * a + 3) = (d \div 4) % 2
  /\ Bit(s, 6 * a + 4) = (d \div 2) % 2 /\ Bit(s, 6 * a + 5) = (d \div 1) % 2

LEMMA BitsOfGroup ==
  ASSUME NEW s, NEW k \in Nat
  PROVE  /\ BitsAre(s, 4 * k, s[4 * k + 1]) /\ BitsAre(s, 4 * k + 1, s[4 * k + 2])
         /\ BitsAre(s, 4 * k + 2, s[4 * k + 3]) /\ BitsAre(s, 4 * k + 3, s[4 * k + 4])
<1>1. ASSUME NEW a \in Nat PROVE BitsAre(s, a, s[a + 1])
  BY BitOfDigit, Zenon DEF BitsAre
<1>2. /\ 4 * k \in Nat /\ 4 * k + 1 \in Nat /\ 4 * k + 2 \in Nat /\ 4 * k + 3 \in Nat
      /\ (4 * k + 1) + 1 = 4 * k + 2 /\ (4 * k + 2) + 1 = 4 * k + 3
      /\ (4 * k + 3) + 1 = 4 * k + 4
  OBVIOUS
<1>3. /\ BitsAre(s, 4 * k, s[4 * k + 1]) /\ BitsAre(s, 4 * k + 1, s[(4 * k + 1) + 1])
      /\ BitsAre(s, 4 * k + 2, s[(4 * k + 2) + 1]) /\ BitsAre(s, 4 * k + 3, s[(4 * k + 3) + 1])
  BY <1>1, <1>2, Zenon
<1> QED
  BY <1>2, <1>3, Zenon

(* The three bytes that four digits stand for.                               *)
First(d1, d2)  == 4 * d1 + d2 \div 16
Middle(d2, d3) == 16 * (d2 % 16) + d3 \div 4
Last(d3, d4)   == 64 * (d3 % 4) + d4

(* The bytes of the k-th group of digits.                                    *)
LEMMA BytesOfGroup ==
  ASSUME NEW s, NEW k \in Nat
  PROVE  /\ s[4 * k + 1] \in 0 .. 63 /\ s[4 * k + 2] \in 0 .. 63
            => Byte(s, 3 * k + 1) = First(s[4 * k + 1], s[4 * k + 2])
         /\ s[4 * k + 2] \in 0 .. 63 /\ s[4 * k + 3] \in 0 .. 63
            => Byte(s, 3 * k + 2) = Middle(s[4 * k + 2], s[4 * k + 3])
         /\ s[4 * k + 3] \in 0 .. 63 /\ s[4 * k + 4] \in 0 .. 63
            => Byte(s, 3 * k + 3) = Last(s[4 * k + 3], s[4 * k + 4])
<1> DEFINE b(d, w) == (d \div w) % 2
<1>1. ASSUME s[4 * k + 1] \in 0 .. 63, s[4 * k + 2] \in 0 .. 63
      PROVE  Byte(s, 3 * k + 1) = First(s[4 * k + 1], s[4 * k + 2])
  <2> DEFINE x == s[4 * k + 1]
             y == s[4 * k + 2]
  <2>1. /\ Bit(s, 6 * (4 * k)) = b(x, 32)
        /\ Bit(s, 6 * (4 * k) + 1) = b(x, 16)
        /\ Bit(s, 6 * (4 * k) + 2) = b(x, 8)
        /\ Bit(s, 6 * (4 * k) + 3) = b(x, 4)
        /\ Bit(s, 6 * (4 * k) + 4) = b(x, 2)
        /\ Bit(s, 6 * (4 * k) + 5) = b(x, 1)
    BY BitsOfGroup, Zenon DEF BitsAre
  <2>2. /\ Bit(s, 6 * (4 * k + 1)) = b(y, 32)
        /\ Bit(s, 6 * (4 * k + 1) + 1) = b(y, 16)
    BY BitsOfGroup, Zenon DEF BitsAre
  <2>3. LET bit(j) == Bit(s, 8 * ((3 * k + 1) - 1) + j)
        IN  Byte(s, 3 * k + 1) = 128 * bit(0) + 64 * bit(1) + 32 * bit(2) + 16 * bit(3)
                                   + 8 * bit(4) + 4 * bit(5) + 2 * bit(6) + bit(7)
    BY DEF Byte
  <2>4. /\ 8 * ((3 * k + 1) - 1) + 0 = 6 * (4 * k)
        /\ 8 * ((3 * k + 1) - 1) + 1 = 6 * (4 * k) + 1
        /\ 8 * ((3 * k + 1) - 1) + 2 = 6 * (4 * k) + 2
        /\ 8 * ((3 * k + 1) - 1) + 3 = 6 * (4 * k) + 3
        /\ 8 * ((3 * k + 1) - 1) + 4 = 6 * (4 * k) + 4
        /\ 8 * ((3 * k + 1) - 1) + 5 = 6 * (4 * k) + 5
        /\ 8 * ((3 * k + 1) - 1) + 6 = 6 * (4 * k + 1)
        /\ 8 * ((3 * k + 1) - 1) + 7 = 6 * (4 * k + 1) + 1
    OBVIOUS
  <2>5. Byte(s, 3 * k + 1) = 128 * b(x, 32) + 64 * b(x, 16) + 32 * b(x, 8) + 16 * b(x, 4)
                               + 8 * b(x, 2) + 4 * b(x, 1) + 2 * b(y, 32) + b(y, 16)
    BY <2>1, <2>2, <2>3, <2>4
  <2>6. x \in 0 .. 63 /\ y \in 0 .. 63
    BY <1>1
  <2> HIDE DEF x, y
  <2>7. \A d \in 0 .. 63, w \in {1, 2, 4, 8, 16, 32} : b(d, w) \in 0 .. 1
    BY Z3
  <2>10. \A d \in 0 .. 63 : /\ d % 16 \in Nat /\ d % 4 \in Nat
                            /\ d \div 16 \in Nat /\ d \div 4 \in Nat
    OBVIOUS
  <2>8. /\ 4 * x = 128 * b(x, 32) + 64 * b(x, 16) + 32 * b(x, 8) + 16 * b(x, 4)
                   + 8 * b(x, 2) + 4 * b(x, 1)
        /\ y \div 16 = 2 * b(y, 32) + b(y, 16)
    BY <2>6, DigitBits
  <2>11. /\ b(x, 32) \in Int /\ b(x, 16) \in Int /\ b(x, 8) \in Int /\ b(x, 4) \in Int
         /\ b(x, 2) \in Int /\ b(x, 1) \in Int /\ b(y, 32) \in Int /\ b(y, 16) \in Int
    BY <2>6, <2>7
  <2> HIDE DEF b
  <2>9. Byte(s, 3 * k + 1) = 4 * x + y \div 16
    BY <2>5, <2>6, <2>8, <2>10, <2>11
  <2> QED
    BY <2>9 DEF First, x, y
<1>2. ASSUME s[4 * k + 2] \in 0 .. 63, s[4 * k + 3] \in 0 .. 63
      PROVE  Byte(s, 3 * k + 2) = Middle(s[4 * k + 2], s[4 * k + 3])
  <2> DEFINE x == s[4 * k + 2]
             y == s[4 * k + 3]
  <2>1. /\ Bit(s, 6 * (4 * k + 1) + 2) = b(x, 8)
        /\ Bit(s, 6 * (4 * k + 1) + 3) = b(x, 4)
        /\ Bit(s, 6 * (4 * k + 1) + 4) = b(x, 2)
        /\ Bit(s, 6 * (4 * k + 1) + 5) = b(x, 1)
    BY BitsOfGroup, Zenon DEF BitsAre
  <2>2. /\ Bit(s, 6 * (4 * k + 2)) = b(y, 32)
        /\ Bit(s, 6 * (4 * k + 2) + 1) = b(y, 16)
        /\ Bit(s, 6 * (4 * k + 2) + 2) = b(y, 8)
        /\ Bit(s, 6 * (4 * k + 2) + 3) = b(y, 4)
    BY BitsOfGroup, Zenon DEF BitsAre
  <2>3. LET bit(j) == Bit(s, 8 * ((3 * k + 2) - 1) + j)
        IN  Byte(s, 3 * k + 2) = 128 * bit(0) + 64 * bit(1) + 32 * bit(2) + 16 * bit(3)
                                   + 8 * bit(4) + 4 * bit(5) + 2 * bit(6) + bit(7)
    BY DEF Byte
  <2>4. /\ 8 * ((3 * k + 2) - 1) + 0 = 6 * (4 * k + 1) + 2
        /\ 8 * ((3 * k + 2) - 1) + 1 = 6 * (4 * k + 1) + 3
        /\ 8 * ((3 * k + 2) - 1) + 2 = 6 * (4 * k + 1) + 4
        /\ 8 * ((3 * k + 2) - 1) + 3 = 6 * (4 * k + 1) + 5
        /\ 8 * ((3 * k + 2) - 1) + 4 = 6 * (4 * k + 2)
        /\ 8 * ((3 * k + 2) - 1) + 5 = 6 * (4 * k + 2) + 1
        /\ 8 * ((3 * k + 2) - 1) + 6 = 6 * (4 * k + 2) + 2
        /\ 8 * ((3 * k + 2) - 1) + 7 = 6 * (4 * k + 2) + 3
    OBVIOUS
  <2>5. Byte(s, 3 * k + 2) = 128 * b(x, 8) + 64 * b(x, 4) + 32 * b(x, 2) + 16 * b(x, 1)
                               + 8 * b(y, 32) + 4 * b(y, 16) + 2 * b(y, 8) + b(y, 4)
    BY <2>1, <2>2, <2>3, <2>4
  <2>6. x \in 0 .. 63 /\ y \in 0 .. 63
    BY <1>2
  <2> HIDE DEF x, y
  <2>7. \A d \in 0 .. 63, w \in {1, 2, 4, 8, 16, 32} : b(d, w) \in 0 .. 1
    BY Z3
  <2>10. \A d \in 0 .. 63 : /\ d % 16 \in Nat /\ d % 4 \in Nat
                            /\ d \div 16 \in Nat /\ d \div 4 \in Nat
    OBVIOUS
  <2>8. /\ 16 * (x % 16) = 128 * b(x, 8) + 64 * b(x, 4) + 32 * b(x, 2) + 16 * b(x, 1)
        /\ y \div 4 = 8 * b(y, 32) + 4 * b(y, 16) + 2 * b(y, 8) + b(y, 4)
    BY <2>6, DigitBits
  <2>11. /\ b(x, 8) \in Int /\ b(x, 4) \in Int /\ b(x, 2) \in Int /\ b(x, 1) \in Int
         /\ b(y, 32) \in Int /\ b(y, 16) \in Int /\ b(y, 8) \in Int /\ b(y, 4) \in Int
    BY <2>6, <2>7
  <2> HIDE DEF b
  <2>9. Byte(s, 3 * k + 2) = 16 * (x % 16) + y \div 4
    BY <2>5, <2>6, <2>8, <2>10, <2>11
  <2> QED
    BY <2>9 DEF Middle, x, y
<1>3. ASSUME s[4 * k + 3] \in 0 .. 63, s[4 * k + 4] \in 0 .. 63
      PROVE  Byte(s, 3 * k + 3) = Last(s[4 * k + 3], s[4 * k + 4])
  <2> DEFINE x == s[4 * k + 3]
             y == s[4 * k + 4]
  <2>1. /\ Bit(s, 6 * (4 * k + 2) + 4) = b(x, 2)
        /\ Bit(s, 6 * (4 * k + 2) + 5) = b(x, 1)
    BY BitsOfGroup, Zenon DEF BitsAre
  <2>2. /\ Bit(s, 6 * (4 * k + 3)) = b(y, 32)
        /\ Bit(s, 6 * (4 * k + 3) + 1) = b(y, 16)
        /\ Bit(s, 6 * (4 * k + 3) + 2) = b(y, 8)
        /\ Bit(s, 6 * (4 * k + 3) + 3) = b(y, 4)
        /\ Bit(s, 6 * (4 * k + 3) + 4) = b(y, 2)
        /\ Bit(s, 6 * (4 * k + 3) + 5) = b(y, 1)
    BY BitsOfGroup, Zenon DEF BitsAre
  <2>3. LET bit(j) == Bit(s, 8 * ((3 * k + 3) - 1) + j)
        IN  Byte(s, 3 * k + 3) = 128 * bit(0) + 64 * bit(1) + 32 * bit(2) + 16 * bit(3)
                                   + 8 * bit(4) + 4 * bit(5) + 2 * bit(6) + bit(7)
    BY DEF Byte
  <2>4. /\ 8 * ((3 * k + 3) - 1) + 0 = 6 * (4 * k + 2) + 4
        /\ 8 * ((3 * k + 3) - 1) + 1 = 6 * (4 * k + 2) + 5
        /\ 8 * ((3 * k + 3) - 1) + 2 = 6 * (4 * k + 3)
        /\ 8 * ((3 * k + 3) - 1) + 3 = 6 * (4 * k + 3) + 1
        /\ 8 * ((3 * k + 3) - 1) + 4 = 6 * (4 * k + 3) + 2
        /\ 8 * ((3 * k + 3) - 1) + 5 = 6 * (4 * k + 3) + 3
        /\ 8 * ((3 * k + 3) - 1) + 6 = 6 * (4 * k + 3) + 4
        /\ 8 * ((3 * k + 3) - 1) + 7 = 6 * (4 * k + 3) + 5
    OBVIOUS
  <2>5. Byte(s, 3 * k + 3) = 128 * b(x, 2) + 64 * b(x, 1) + 32 * b(y, 32) + 16 * b(y, 16)
                               + 8 * b(y, 8) + 4 * b(y, 4) + 2 * b(y, 2) + b(y, 1)
    BY <2>1, <2>2, <2>3, <2>4
  <2>6. x \in 0 .. 63 /\ y \in 0 .. 63
    BY <1>3
  <2> HIDE DEF x, y
  <2>7. \A d \in 0 .. 63, w \in {1, 2, 4, 8, 16, 32} : b(d, w) \in 0 .. 1
    BY Z3
  <2>10. \A d \in 0 .. 63 : /\ d % 16 \in Nat /\ d % 4 \in Nat
                            /\ d \div 16 \in Nat /\ d \div 4 \in Nat
    OBVIOUS
  <2>8. /\ 64 * (x % 4) = 128 * b(x, 2) + 64 * b(x, 1)
        /\ y = 32 * b(y, 32) + 16 * b(y, 16) + 8 * b(y, 8) + 4 * b(y, 4) + 2 * b(y, 2) + b(y, 1)
    BY <2>6, DigitBits
  <2>11. /\ b(x, 2) \in Int /\ b(x, 1) \in Int /\ b(y, 32) \in Int /\ b(y, 16) \in Int
         /\ b(y, 8) \in Int /\ b(y, 4) \in Int /\ b(y, 2) \in Int /\ b(y, 1) \in Int
    BY <2>6, <2>7
  <2> HIDE DEF b
  <2>9. Byte(s, 3 * k + 3) = 64 * (x % 4) + y
    BY <2>5, <2>6, <2>8, <2>10, <2>11
  <2> QED
    BY <2>9 DEF Last, x, y
<1> QED
  BY <1>1, <1>2, <1>3

(* The digits a string begins with are counted.                              *)
LEMMA LeadingIs ==
  ASSUME NEW s, Len(s) \in Nat, NEW n \in 0 .. Len(s),
         \A i \in 1 .. Len(s) : s[i] \in 0 .. 66,
         \A i \in 1 .. n : s[i] < Pad, n < Len(s) => s[n + 1] >= Pad
  PROVE  Leading(s) = n
<1> DEFINE P(m) == /\ \A i \in 1 .. m : s[i] < Pad
                   /\ m < Len(s) => s[m + 1] >= Pad
<1>1. P(n)
  OBVIOUS
<1>2. ASSUME NEW m \in 0 .. Len(s), P(m) PROVE m = n
  <2>1. CASE m < n
    <3>1. m + 1 \in 1 .. n /\ m < Len(s) /\ m + 1 \in 1 .. Len(s)
      BY <2>1
    <3>2. s[m + 1] < Pad
      BY <3>1
    <3>3. s[m + 1] >= Pad
      BY <1>2, <3>1
    <3>4. s[m + 1] \in 0 .. 66
      BY <3>1
    <3> DEFINE v == s[m + 1]
    <3> HIDE DEF v
    <3>5. v < 64 /\ v >= 64 /\ v \in 0 .. 66
      BY <3>2, <3>3, <3>4 DEF Pad, v
    <3> QED
      BY <3>5
  <2>2. CASE n < m
    <3>1. n + 1 \in 1 .. m /\ n < Len(s) /\ n + 1 \in 1 .. Len(s)
      BY <2>2
    <3>2. s[n + 1] < Pad
      BY <1>2, <3>1
    <3>3. s[n + 1] >= Pad
      BY <3>1
    <3>4. s[n + 1] \in 0 .. 66
      BY <3>1
    <3> DEFINE v == s[n + 1]
    <3> HIDE DEF v
    <3>5. v < 64 /\ v >= 64 /\ v \in 0 .. 66
      BY <3>2, <3>3, <3>4 DEF Pad, v
    <3> QED
      BY <3>5
  <2> QED
    BY <2>1, <2>2
<1>3. Leading(s) = CHOOSE m \in 0 .. Len(s) : P(m)
  BY DEF Leading
<1> HIDE DEF P
<1> QED
  BY <1>1, <1>2, <1>3

(* A digit from its two parts.                                               *)
LEMMA DigitFromParts ==
  ASSUME NEW d \in 0 .. 63
  PROVE  /\ (d \div 16) * 16 + (d % 16) = d /\ (d \div 4) * 4 + (d % 4) = d
         /\ d \div 16 \in 0 .. 3 /\ d \div 4 \in 0 .. 15
         /\ d % 16 \in 0 .. 15 /\ d % 4 \in 0 .. 3
BY Z3

(* The parts of the digits from the bytes.                                   *)
LEMMA PartsOfFirst ==
  ASSUME NEW x \in 0 .. 63, NEW y \in 0 .. 63
  PROVE  First(x, y) \in 0 .. 255 /\ First(x, y) \div 4 = x /\ First(x, y) % 4 = y \div 16
BY Z3 DEF First

LEMMA PartsOfMiddle ==
  ASSUME NEW x \in 0 .. 63, NEW y \in 0 .. 63
  PROVE  /\ Middle(x, y) \in 0 .. 255 /\ Middle(x, y) \div 16 = x % 16
         /\ Middle(x, y) % 16 = y \div 4
BY Z3 DEF Middle

LEMMA PartsOfLast ==
  ASSUME NEW x \in 0 .. 63, NEW y \in 0 .. 63
  PROVE  Last(x, y) \in 0 .. 255 /\ Last(x, y) \div 64 = x % 4 /\ Last(x, y) % 64 = y
BY Z3 DEF Last

(* A digit whose bits below w are dropped.                                   *)
Without(d, w) == (d \div w) * w

LEMMA WithoutIs ==
  ASSUME NEW d \in 0 .. 63
  PROVE  /\ Without(d, 16) = d <=> d % 16 = 0
         /\ Without(d, 4) = d <=> d % 4 = 0
         /\ Without(d, 16) \in 0 .. 63 /\ Without(d, 4) \in 0 .. 63
BY Z3 DEF Without

(* The digits of the group that starts at i.                                 *)
GroupIs(b, i, d1, d2, d3, d4) ==
  /\ Group(b, i)[1] = d1 /\ Group(b, i)[2] = d2
  /\ Group(b, i)[3] = d3 /\ Group(b, i)[4] = d4

(* At i come the bytes of so many digits, and no other.                      *)
BytesOfTwo(b, i, d1, d2) ==
  Len(b) \in Nat /\ Len(b) - i + 1 = 1 /\ b[i] = First(d1, d2)
BytesOfThree(b, i, d1, d2, d3) ==
  /\ Len(b) \in Nat /\ Len(b) - i + 1 = 2
  /\ b[i] = First(d1, d2) /\ b[i + 1] = Middle(d2, d3)
BytesOfFour(b, i, d1, d2, d3, d4) ==
  /\ Len(b) \in Nat /\ Len(b) - i + 1 >= 3
  /\ b[i] = First(d1, d2) /\ b[i + 1] = Middle(d2, d3) /\ b[i + 2] = Last(d3, d4)

(* ntop turns three bytes into the digits they were made of.                 *)
LEMMA GroupOfThree ==
  ASSUME NEW b, NEW i \in Nat,
         NEW d1 \in 0 .. 63, NEW d2 \in 0 .. 63, NEW d3 \in 0 .. 63, NEW d4 \in 0 .. 63,
         BytesOfFour(b, i, d1, d2, d3, d4)
  PROVE  GroupIs(b, i, d1, d2, d3, d4)
<1> USE DEF BytesOfFour
<1> DEFINE left == Len(b) - i + 1
           input == [k \in 0 .. 2 |-> IF k < left THEN b[i + k] ELSE 0]
<1>1. input[0] = First(d1, d2) /\ input[1] = Middle(d2, d3) /\ input[2] = Last(d3, d4)
  <2>1. i + 0 = i /\ left \in Int /\ left >= 3
    OBVIOUS
  <2> HIDE DEF left
  <2>2. \A k \in 0 .. 2 : input[k] = IF k < left THEN b[i + k] ELSE 0
    OBVIOUS
  <2> HIDE DEF input
  <2> QED
    BY <2>1, <2>2
<1>2. left \in Int /\ left # 1 /\ ~(left <= 2)
  OBVIOUS
<1>3. Group(b, i) = <<input[0] \div 4, (input[0] % 4) * 16 + input[1] \div 16,
                      IF left = 1 THEN Pad ELSE (input[1] % 16) * 4 + input[2] \div 64,
                      IF left <= 2 THEN Pad ELSE input[2] % 64>>
  BY DEF Group
<1> HIDE DEF left, input
<1>4. /\ input[0] \div 4 = d1 /\ input[0] % 4 = d2 \div 16 /\ input[1] \div 16 = d2 % 16
      /\ input[1] % 16 = d3 \div 4 /\ input[2] \div 64 = d3 % 4 /\ input[2] % 64 = d4
  <2>1. First(d1, d2) \div 4 = d1 /\ First(d1, d2) % 4 = d2 \div 16
    BY PartsOfFirst, Zenon
  <2>2. Middle(d2, d3) \div 16 = d2 % 16 /\ Middle(d2, d3) % 16 = d3 \div 4
    BY PartsOfMiddle, Zenon
  <2>3. Last(d3, d4) \div 64 = d3 % 4 /\ Last(d3, d4) % 64 = d4
    BY PartsOfLast, Zenon
  <2> QED
    BY <1>1, <2>1, <2>2, <2>3, Zenon
<1>5. (d2 \div 16) * 16 + (d2 % 16) = d2 /\ (d3 \div 4) * 4 + (d3 % 4) = d3
  BY DigitFromParts
<1> QED
  BY <1>2, <1>3, <1>4, <1>5 DEF GroupIs

(* Two bytes are followed by one pad, and what is left of the third digit    *)
(* does not come back.                                                       *)
LEMMA GroupOfTwo ==
  ASSUME NEW b, NEW i \in Nat, NEW d1 \in 0 .. 63, NEW d2 \in 0 .. 63, NEW d3 \in 0 .. 63,
         BytesOfThree(b, i, d1, d2, d3)
  PROVE  GroupIs(b, i, d1, d2, Without(d3, 4), Pad)
<1> USE DEF BytesOfThree
<1> DEFINE left == Len(b) - i + 1
           input == [k \in 0 .. 2 |-> IF k < left THEN b[i + k] ELSE 0]
<1>1. input[0] = First(d1, d2) /\ input[1] = Middle(d2, d3) /\ input[2] = 0
  <2>1. i + 0 = i /\ left \in Int /\ left = 2
    OBVIOUS
  <2> HIDE DEF left
  <2>2. \A k \in 0 .. 2 : input[k] = IF k < left THEN b[i + k] ELSE 0
    OBVIOUS
  <2> HIDE DEF input
  <2> QED
    BY <2>1, <2>2
<1>2. left \in Int /\ left # 1 /\ left <= 2
  OBVIOUS
<1>3. Group(b, i) = <<input[0] \div 4, (input[0] % 4) * 16 + input[1] \div 16,
                      IF left = 1 THEN Pad ELSE (input[1] % 16) * 4 + input[2] \div 64,
                      IF left <= 2 THEN Pad ELSE input[2] % 64>>
  BY DEF Group
<1> HIDE DEF left, input
<1>4. /\ input[0] \div 4 = d1 /\ input[0] % 4 = d2 \div 16 /\ input[1] \div 16 = d2 % 16
      /\ input[1] % 16 = d3 \div 4
  <2>1. First(d1, d2) \div 4 = d1 /\ First(d1, d2) % 4 = d2 \div 16
    BY PartsOfFirst, Zenon
  <2>2. Middle(d2, d3) \div 16 = d2 % 16 /\ Middle(d2, d3) % 16 = d3 \div 4
    BY PartsOfMiddle, Zenon
  <2> QED
    BY <1>1, <2>1, <2>2, Zenon
<1>5. (d2 \div 16) * 16 + (d2 % 16) = d2
  BY DigitFromParts
<1>6. input[2] \div 64 = 0 /\ d3 \div 4 \in Nat
  BY <1>1
<1>7. (d3 \div 4) * 4 + 0 = (d3 \div 4) * 4
  BY <1>6
<1> QED
  BY <1>2, <1>3, <1>4, <1>5, <1>6, <1>7 DEF Without, GroupIs

(* One byte is followed by two pads.                                         *)
LEMMA GroupOfOne ==
  ASSUME NEW b, NEW i \in Nat, NEW d1 \in 0 .. 63, NEW d2 \in 0 .. 63,
         BytesOfTwo(b, i, d1, d2)
  PROVE  GroupIs(b, i, d1, Without(d2, 16), Pad, Pad)
<1> USE DEF BytesOfTwo
<1> DEFINE left == Len(b) - i + 1
           input == [k \in 0 .. 2 |-> IF k < left THEN b[i + k] ELSE 0]
<1>1. input[0] = First(d1, d2) /\ input[1] = 0
  <2>1. i + 0 = i /\ left \in Int /\ left = 1
    OBVIOUS
  <2> HIDE DEF left
  <2>2. \A k \in 0 .. 2 : input[k] = IF k < left THEN b[i + k] ELSE 0
    OBVIOUS
  <2> HIDE DEF input
  <2> QED
    BY <2>1, <2>2
<1>2. left = 1 /\ left <= 2
  OBVIOUS
<1>3. Group(b, i) = <<input[0] \div 4, (input[0] % 4) * 16 + input[1] \div 16,
                      IF left = 1 THEN Pad ELSE (input[1] % 16) * 4 + input[2] \div 64,
                      IF left <= 2 THEN Pad ELSE input[2] % 64>>
  BY DEF Group
<1> HIDE DEF left, input
<1>4. input[0] \div 4 = d1 /\ input[0] % 4 = d2 \div 16
  <2>1. First(d1, d2) \div 4 = d1 /\ First(d1, d2) % 4 = d2 \div 16
    BY PartsOfFirst, Zenon
  <2> QED
    BY <1>1, <2>1, Zenon
<1>5. input[1] \div 16 = 0 /\ d2 \div 16 \in Nat
  BY <1>1
<1>6. (d2 \div 16) * 16 + 0 = (d2 \div 16) * 16
  BY <1>5
<1> QED
  BY <1>2, <1>3, <1>4, <1>5, <1>6 DEF Without, GroupIs

(* Where the digits of a group are.                                          *)
LEMMA NtopAt ==
  ASSUME NEW b, Len(b) \in Nat, NEW k \in Nat, NEW c \in 1 .. 4, NEW g \in Nat,
         (Len(b) + 2) \div 3 = g, k < g
  PROVE  Ntop(b)[4 * k + c] = Group(b, 3 * k + 1)[c]
<1>1. 4 * k + c \in 1 .. 4 * g
  OBVIOUS
<1>2. ((4 * k + c) - 1) \div 4 = k /\ ((4 * k + c) - 1) % 4 = c - 1 /\ (c - 1) + 1 = c
  BY Z3
<1> QED
  BY <1>1, <1>2 DEF Ntop

(* Strings that agree on their digits agree on the bytes made of them.       *)
LEMMA SameDigitsSameByte ==
  ASSUME NEW s, NEW t, NEW n \in Nat, \A i \in 1 .. n : s[i] = t[i],
         NEW m \in Nat, 1 <= m, 8 * m <= 6 * n
  PROVE  Byte(s, m) = Byte(t, m)
<1>1. ASSUME NEW j \in 0 .. 7 PROVE Bit(s, 8 * (m - 1) + j) = Bit(t, 8 * (m - 1) + j)
  <2>1. (8 * (m - 1) + j) \div 6 + 1 \in 1 .. n
    BY Z3
  <2> QED
    BY <2>1, Zenon DEF Bit
<1>2. /\ Bit(s, 8 * (m - 1) + 0) = Bit(t, 8 * (m - 1) + 0)
      /\ Bit(s, 8 * (m - 1) + 1) = Bit(t, 8 * (m - 1) + 1)
      /\ Bit(s, 8 * (m - 1) + 2) = Bit(t, 8 * (m - 1) + 2)
      /\ Bit(s, 8 * (m - 1) + 3) = Bit(t, 8 * (m - 1) + 3)
      /\ Bit(s, 8 * (m - 1) + 4) = Bit(t, 8 * (m - 1) + 4)
      /\ Bit(s, 8 * (m - 1) + 5) = Bit(t, 8 * (m - 1) + 5)
      /\ Bit(s, 8 * (m - 1) + 6) = Bit(t, 8 * (m - 1) + 6)
      /\ Bit(s, 8 * (m - 1) + 7) = Bit(t, 8 * (m - 1) + 7)
  BY <1>1
<1> QED
  BY <1>2, Zenon DEF Byte

(* A string that begins with q groups of digits and some more, no digit      *)
(* after them.                                                               *)
BeginsWith(s, q, some) ==
  /\ Len(s) \in Nat /\ 4 * q + some <= Len(s)
  /\ \A i \in 1 .. Len(s) : s[i] \in 0 .. 66
  /\ \A i \in 1 .. 4 * q + some : s[i] \in 0 .. 63
  /\ 4 * q + some < Len(s) => s[4 * q + some + 1] >= Pad

(* As many bytes as its digits fill.                                         *)
Filled(q, some) == 3 * q + (IF some <= 1 THEN 0 ELSE some - 1)

LEMMA BytesFilled ==
  ASSUME NEW s, NEW q \in Nat, NEW some \in 0 .. 3, BeginsWith(s, q, some)
  PROVE  Bytes(s) = [m \in 1 .. Filled(q, some) |-> Byte(s, m)]
<1>1. Leading(s) = 4 * q + some
  <2> DEFINE n == 4 * q + some
  <2>2. \A i \in 1 .. n : s[i] < Pad
    <3>1. \A i \in 1 .. n : s[i] \in 0 .. 63
      BY DEF BeginsWith
    <3>2. ASSUME NEW d \in 0 .. 63 PROVE d < 64
      OBVIOUS
    <3> QED
      BY <3>1, <3>2 DEF Pad
  <2>3. n \in 0 .. Len(s) /\ Len(s) \in Nat /\ (n < Len(s) => s[n + 1] >= Pad)
    BY DEF BeginsWith
  <2>4. \A i \in 1 .. Len(s) : s[i] \in 0 .. 66
    BY DEF BeginsWith
  <2> HIDE DEF n
  <2>5. Leading(s) = n
    BY <2>2, <2>3, <2>4, LeadingIs
  <2> QED
    BY <2>5 DEF n
<1>2. (6 * (4 * q + some)) \div 8 = Filled(q, some)
  <2>1. CASE some = 0
    BY <2>1, Z3 DEF Filled
  <2>2. CASE some = 1
    BY <2>2, Z3 DEF Filled
  <2>3. CASE some = 2
    BY <2>3, Z3 DEF Filled
  <2>4. CASE some = 3
    BY <2>4, Z3 DEF Filled
  <2> QED
    BY <2>1, <2>2, <2>3, <2>4
<1> QED
  BY <1>1, <1>2, Zenon DEF Bytes

LEMMA FilledIs ==
  ASSUME NEW q \in Nat, NEW some \in 0 .. 3
  PROVE  /\ Filled(q, some) \in Nat
         /\ (Filled(q, some) + 2) \div 3 = q + (IF some <= 1 THEN 0 ELSE 1)
         /\ some = 2 => Filled(q, some) = 3 * q + 1
         /\ some = 3 => Filled(q, some) = 3 * q + 2
         /\ some <= 1 => Filled(q, some) = 3 * q
         /\ Filled(q, some) >= 3 * q
<1>1. CASE some = 0
  BY <1>1, Z3 DEF Filled
<1>2. CASE some = 1
  BY <1>2, Z3 DEF Filled
<1>3. CASE some = 2
  BY <1>3, Z3 DEF Filled
<1>4. CASE some = 3
  BY <1>4, Z3 DEF Filled
<1> QED
  BY <1>1, <1>2, <1>3, <1>4

(* The full groups come back from ntop.                                      *)
LEMMA FullGroup ==
  ASSUME NEW s, NEW q \in Nat, NEW some \in 0 .. 3, BeginsWith(s, q, some),
         NEW k \in Nat, k < q
  PROVE  LET g == Group(Bytes(s), 3 * k + 1)
         IN  /\ g[1] = s[4 * k + 1] /\ g[2] = s[4 * k + 2]
             /\ g[3] = s[4 * k + 3] /\ g[4] = s[4 * k + 4]
<1> DEFINE b == Bytes(s)
<1>1. b = [m \in 1 .. Filled(q, some) |-> Byte(s, m)] /\ Filled(q, some) \in Nat
  BY BytesFilled, FilledIs
<1>2. Filled(q, some) >= 3 * k + 3
  <2>1. Filled(q, some) >= 3 * q /\ Filled(q, some) \in Nat
    BY FilledIs, Zenon
  <2> QED
    BY <2>1
<1> HIDE DEF b
<1>3. /\ Len(b) \in Nat /\ Len(b) - (3 * k + 1) + 1 >= 3
      /\ b[3 * k + 1] = Byte(s, 3 * k + 1) /\ b[3 * k + 2] = Byte(s, 3 * k + 2)
      /\ b[3 * k + 3] = Byte(s, 3 * k + 3)
  BY <1>1, <1>2
<1>4. /\ s[4 * k + 1] \in 0 .. 63 /\ s[4 * k + 2] \in 0 .. 63
      /\ s[4 * k + 3] \in 0 .. 63 /\ s[4 * k + 4] \in 0 .. 63
  BY DEF BeginsWith
<1>5. /\ Byte(s, 3 * k + 1) = First(s[4 * k + 1], s[4 * k + 2])
      /\ Byte(s, 3 * k + 2) = Middle(s[4 * k + 2], s[4 * k + 3])
      /\ Byte(s, 3 * k + 3) = Last(s[4 * k + 3], s[4 * k + 4])
  BY <1>4, BytesOfGroup, Zenon
<1> DEFINE i == 3 * k + 1
<1>6. /\ i \in Nat /\ Len(b) - i + 1 >= 3 /\ b[i] = First(s[4 * k + 1], s[4 * k + 2])
      /\ i + 1 = 3 * k + 2 /\ i + 2 = 3 * k + 3
  BY <1>3, <1>5
<1> HIDE DEF i
<1>7. /\ b[i + 1] = Middle(s[4 * k + 2], s[4 * k + 3])
      /\ b[i + 2] = Last(s[4 * k + 3], s[4 * k + 4])
  BY <1>3, <1>5, <1>6, Zenon
<1> DEFINE d(c) == s[4 * k + c]
<1>8. /\ d(1) \in 0 .. 63 /\ d(2) \in 0 .. 63 /\ d(3) \in 0 .. 63 /\ d(4) \in 0 .. 63
      /\ b[i] = First(d(1), d(2)) /\ b[i + 1] = Middle(d(2), d(3))
      /\ b[i + 2] = Last(d(3), d(4))
  BY <1>4, <1>6, <1>7, Zenon
<1> HIDE DEF d
<1>9. /\ Group(b, i)[1] = d(1) /\ Group(b, i)[2] = d(2)
      /\ Group(b, i)[3] = d(3) /\ Group(b, i)[4] = d(4)
  <2>1. BytesOfFour(b, i, d(1), d(2), d(3), d(4))
    BY <1>3, <1>6, <1>8 DEF BytesOfFour
  <2>2. GroupIs(b, i, d(1), d(2), d(3), d(4))
    BY <1>6, <1>8, <2>1, GroupOfThree
  <2> QED
    BY <2>2 DEF GroupIs
<1> QED
  BY <1>9 DEF b, i, d

(* The group that is not full has one digit more than it has bytes.          *)
LEMMA LastGroup ==
  ASSUME NEW s, NEW q \in Nat, NEW some \in {2, 3}, BeginsWith(s, q, some)
  PROVE  LET g == Group(Bytes(s), 3 * q + 1)
         IN  /\ g[1] = s[4 * q + 1] /\ g[4] = Pad
             /\ some = 2 => g[2] = Without(s[4 * q + 2], 16) /\ g[3] = Pad
             /\ some = 3 => g[2] = s[4 * q + 2] /\ g[3] = Without(s[4 * q + 3], 4)
<1> DEFINE b == Bytes(s)
           i == 3 * q + 1
           d(c) == s[4 * q + c]
<1>0. some \in 0 .. 3 /\ i \in Nat
  OBVIOUS
<1>1. b = [m \in 1 .. Filled(q, some) |-> Byte(s, m)] /\ Filled(q, some) \in Nat
  BY <1>0, BytesFilled, FilledIs
<1>2. d(1) \in 0 .. 63 /\ d(2) \in 0 .. 63
  BY DEF BeginsWith
<1>3. Byte(s, i) = First(d(1), d(2))
  BY <1>2, BytesOfGroup, Zenon
<1> HIDE DEF b
<1>4. ASSUME some = 2
      PROVE  /\ Group(b, i)[1] = d(1) /\ Group(b, i)[2] = Without(d(2), 16)
             /\ Group(b, i)[3] = Pad /\ Group(b, i)[4] = Pad
  <2>1. Filled(q, some) = 3 * q + 1
    BY <1>0, <1>4, FilledIs
  <2>2. Len(b) \in Nat /\ Len(b) - i + 1 = 1 /\ b[i] = Byte(s, i)
    BY <1>1, <2>1
  <2> HIDE DEF i, d
  <2>3. BytesOfTwo(b, i, d(1), d(2))
    BY <1>3, <2>2 DEF BytesOfTwo
  <2>4. GroupIs(b, i, d(1), Without(d(2), 16), Pad, Pad)
    BY <1>0, <1>2, <2>3, GroupOfOne
  <2> QED
    BY <2>4 DEF GroupIs
<1>5. ASSUME some = 3
      PROVE  /\ Group(b, i)[1] = d(1) /\ Group(b, i)[2] = d(2)
             /\ Group(b, i)[3] = Without(d(3), 4) /\ Group(b, i)[4] = Pad
  <2>1. Filled(q, some) = 3 * q + 2
    BY <1>0, <1>5, FilledIs
  <2>2. d(3) \in 0 .. 63
    BY <1>5 DEF BeginsWith
  <2>3. i + 1 = 3 * q + 2
    OBVIOUS
  <2>4. Byte(s, i + 1) = Middle(d(2), d(3))
    BY <1>2, <2>2, <2>3, BytesOfGroup, Zenon
  <2>5. /\ Len(b) \in Nat /\ Len(b) - i + 1 = 2 /\ b[i] = Byte(s, i)
        /\ b[i + 1] = Byte(s, i + 1)
    BY <1>1, <2>1
  <2> HIDE DEF i, d
  <2>6. BytesOfThree(b, i, d(1), d(2), d(3))
    BY <1>3, <2>4, <2>5 DEF BytesOfThree
  <2>7. GroupIs(b, i, d(1), d(2), Without(d(3), 4), Pad)
    BY <1>0, <1>2, <2>2, <2>6, GroupOfTwo
  <2> QED
    BY <2>7 DEF GroupIs
<1> HIDE DEF i, d
<1>6. /\ Group(b, i)[1] = d(1) /\ Group(b, i)[4] = Pad
      /\ some = 2 => Group(b, i)[2] = Without(d(2), 16) /\ Group(b, i)[3] = Pad
      /\ some = 3 => Group(b, i)[2] = d(2) /\ Group(b, i)[3] = Without(d(3), 4)
  BY <1>4, <1>5
<1> QED
  BY <1>6 DEF b, i, d

(* What ntop makes of the bytes of a string.                                 *)
LEMMA EncodingOf ==
  ASSUME NEW s, NEW q \in Nat, NEW some \in 0 .. 3, BeginsWith(s, q, some)
  PROVE  LET e == Ntop(Bytes(s))
             g == q + (IF some <= 1 THEN 0 ELSE 1)
         IN  /\ Len(e) = 4 * g
             /\ e = [i \in 1 .. 4 * g |-> e[i]]
             /\ \A i \in 1 .. 4 * q : e[i] = s[i]
             /\ some \in {2, 3} =>
                  /\ e[4 * q + 1] = s[4 * q + 1] /\ e[4 * q + 4] = Pad
                  /\ some = 2 => e[4 * q + 2] = Without(s[4 * q + 2], 16) /\ e[4 * q + 3] = Pad
                  /\ some = 3 => /\ e[4 * q + 2] = s[4 * q + 2]
                                 /\ e[4 * q + 3] = Without(s[4 * q + 3], 4)
<1> DEFINE b == Bytes(s)
           e == Ntop(b)
           g == q + (IF some <= 1 THEN 0 ELSE 1)
<1>1. Len(b) \in Nat /\ (Len(b) + 2) \div 3 = g
  <2>1. b = [m \in 1 .. Filled(q, some) |-> Byte(s, m)]
    BY BytesFilled
  <2>2. Filled(q, some) \in Nat /\ (Filled(q, some) + 2) \div 3 = g
    BY FilledIs, Zenon
  <2> HIDE DEF b, g
  <2>3. Len(b) = Filled(q, some)
    BY <2>1, <2>2
  <2> QED
    BY <2>2, <2>3, Zenon
<1>2. g \in Nat /\ q <= g /\ (some \in {2, 3} => q < g)
  OBVIOUS
<1>3. ASSUME NEW k \in Nat, k < g, NEW c \in 1 .. 4
      PROVE  e[4 * k + c] = Group(b, 3 * k + 1)[c]
  <2> HIDE DEF b, g
  <2> QED
    BY <1>1, <1>2, <1>3, NtopAt
<1>4. ASSUME NEW i \in 1 .. 4 * q PROVE e[i] = s[i]
  <2> DEFINE k == (i - 1) \div 4
             c == ((i - 1) % 4) + 1
  <2>1. k \in Nat /\ k < q /\ c \in 1 .. 4 /\ i = 4 * k + c
    BY Z3
  <2> HIDE DEF k, c
  <2>2. e[4 * k + c] = Group(b, 3 * k + 1)[c]
    <3>1. k < g
      BY <1>2, <2>1
    <3> HIDE DEF b, e, g
    <3> QED
      BY <1>3, <2>1, <3>1
  <2>3. Group(b, 3 * k + 1)[c] = s[4 * k + c]
    <3>1. /\ Group(b, 3 * k + 1)[1] = s[4 * k + 1] /\ Group(b, 3 * k + 1)[2] = s[4 * k + 2]
          /\ Group(b, 3 * k + 1)[3] = s[4 * k + 3] /\ Group(b, 3 * k + 1)[4] = s[4 * k + 4]
      BY <2>1, FullGroup
    <3>2. c = 1 \/ c = 2 \/ c = 3 \/ c = 4
      BY <2>1
    <3> HIDE DEF b
    <3> QED
      BY <3>1, <3>2, Zenon
  <2> HIDE DEF e, b
  <2> QED
    BY <2>1, <2>2, <2>3
<1>5. ASSUME some \in {2, 3}
      PROVE  /\ e[4 * q + 1] = s[4 * q + 1] /\ e[4 * q + 4] = Pad
             /\ some = 2 => e[4 * q + 2] = Without(s[4 * q + 2], 16) /\ e[4 * q + 3] = Pad
             /\ some = 3 => /\ e[4 * q + 2] = s[4 * q + 2]
                            /\ e[4 * q + 3] = Without(s[4 * q + 3], 4)
  <2>1. ASSUME NEW c \in 1 .. 4 PROVE e[4 * q + c] = Group(b, 3 * q + 1)[c]
    <3> HIDE DEF b, e, g
    <3> QED
      BY <1>2, <1>3, <1>5
  <2>2. /\ e[4 * q + 1] = Group(b, 3 * q + 1)[1] /\ e[4 * q + 2] = Group(b, 3 * q + 1)[2]
        /\ e[4 * q + 3] = Group(b, 3 * q + 1)[3] /\ e[4 * q + 4] = Group(b, 3 * q + 1)[4]
    <3> HIDE DEF b, e
    <3> QED
      BY <2>1
  <2>3. /\ Group(b, 3 * q + 1)[1] = s[4 * q + 1] /\ Group(b, 3 * q + 1)[4] = Pad
        /\ some = 2 => /\ Group(b, 3 * q + 1)[2] = Without(s[4 * q + 2], 16)
                       /\ Group(b, 3 * q + 1)[3] = Pad
        /\ some = 3 => /\ Group(b, 3 * q + 1)[2] = s[4 * q + 2]
                       /\ Group(b, 3 * q + 1)[3] = Without(s[4 * q + 3], 4)
    BY <1>5, LastGroup, Zenon
  <2> HIDE DEF e, b
  <2> QED
    BY <2>2, <2>3, Zenon
<1>6. e = [i \in 1 .. 4 * g |-> e[i]] /\ Len(e) = 4 * g
  <2>1. e = [n \in 1 .. 4 * ((Len(b) + 2) \div 3) |->
               Group(b, 3 * ((n - 1) \div 4) + 1)[((n - 1) % 4) + 1]]
    BY Zenon DEF Ntop
  <2> DEFINE f(n) == Group(b, 3 * ((n - 1) \div 4) + 1)[((n - 1) % 4) + 1]
  <2> HIDE DEF b, g, f
  <2>2. e = [n \in 1 .. 4 * g |-> f(n)]
    BY <1>1, <2>1, Zenon DEF f
  <2> HIDE DEF e
  <2>3. 4 * g \in Nat
    BY <1>2
  <2> QED
    BY <2>2, <2>3
<1> QED
  BY <1>4, <1>5, <1>6, Zenon

(* A string is what ntop makes of its bytes just when its digits fill whole  *)
(* groups, or the last group is filled up with pads and the bits its digits  *)
(* have to spare are zero.                                                   *)
EndsWhole(s, q, some) ==
  /\ Len(s) = 4 * (q + (IF some <= 1 THEN 0 ELSE 1))
  /\ some = 2 => /\ s[4 * q + 2] % 16 = 0 /\ s[4 * q + 3] = Pad /\ s[4 * q + 4] = Pad
  /\ some = 3 => s[4 * q + 3] % 4 = 0 /\ s[4 * q + 4] = Pad

LEMMA EncodingIs ==
  ASSUME NEW s \in Seq(0 .. 66), NEW q \in Nat, NEW some \in 0 .. 3, BeginsWith(s, q, some)
  PROVE  s = Ntop(Bytes(s)) <=> EndsWhole(s, q, some)
<1> DEFINE e == Ntop(Bytes(s))
           g == q + (IF some <= 1 THEN 0 ELSE 1)
<1>1. /\ Len(e) = 4 * g /\ e = [i \in 1 .. 4 * g |-> e[i]]
      /\ \A i \in 1 .. 4 * q : e[i] = s[i]
      /\ some \in {2, 3} =>
           /\ e[4 * q + 1] = s[4 * q + 1] /\ e[4 * q + 4] = Pad
           /\ some = 2 => e[4 * q + 2] = Without(s[4 * q + 2], 16) /\ e[4 * q + 3] = Pad
           /\ some = 3 => /\ e[4 * q + 2] = s[4 * q + 2]
                          /\ e[4 * q + 3] = Without(s[4 * q + 3], 4)
  BY EncodingOf, Zenon
<1>2. some \in {2, 3} => s[4 * q + 2] \in 0 .. 63
  BY DEF BeginsWith
<1>3. some = 3 => s[4 * q + 3] \in 0 .. 63
  BY DEF BeginsWith
<1> HIDE DEF e
<1>4. ASSUME s = e PROVE EndsWhole(s, q, some)
  <2>1. CASE some <= 1
    BY <1>1, <1>4, <2>1 DEF EndsWhole
  <2>2. CASE some = 2
    <3>1. Without(s[4 * q + 2], 16) = s[4 * q + 2] /\ s[4 * q + 3] = Pad /\ s[4 * q + 4] = Pad
      BY <1>1, <1>4, <2>2
    <3>2. s[4 * q + 2] % 16 = 0
      BY <1>2, <2>2, <3>1, WithoutIs, Zenon
    <3> QED
      BY <1>1, <1>4, <2>2, <3>1, <3>2 DEF EndsWhole
  <2>3. CASE some = 3
    <3>1. Without(s[4 * q + 3], 4) = s[4 * q + 3] /\ s[4 * q + 4] = Pad
      BY <1>1, <1>4, <2>3
    <3>2. s[4 * q + 3] % 4 = 0
      BY <1>3, <2>3, <3>1, WithoutIs, Zenon
    <3> QED
      BY <1>1, <1>4, <2>3, <3>1, <3>2 DEF EndsWhole
  <2> QED
    BY <2>1, <2>2, <2>3
<1>5. ASSUME EndsWhole(s, q, some) PROVE s = e
  <2>1. Len(s) = 4 * g
    BY <1>5, Zenon DEF EndsWhole
  <2>2. some = 2 => Without(s[4 * q + 2], 16) = s[4 * q + 2]
    BY <1>2, <1>5, WithoutIs, Zenon DEF EndsWhole
  <2>3. some = 3 => Without(s[4 * q + 3], 4) = s[4 * q + 3]
    BY <1>3, <1>5, WithoutIs, Zenon DEF EndsWhole
  <2>4. ASSUME NEW i \in 1 .. 4 * g PROVE e[i] = s[i]
    <3>1. CASE i <= 4 * q
      <4>1. i \in 1 .. 4 * q
        BY <3>1
      <4> QED
        BY <1>1, <4>1, Zenon
    <3>2. CASE ~(i <= 4 * q)
      <4>1. /\ some \in {2, 3}
            /\ i = 4 * q + 1 \/ i = 4 * q + 2 \/ i = 4 * q + 3 \/ i = 4 * q + 4
        BY <3>2
      <4>2. CASE some = 2
        <5>1. s[4 * q + 3] = Pad /\ s[4 * q + 4] = Pad
          BY <1>5, <4>2, Zenon DEF EndsWhole
        <5>2. /\ e[4 * q + 1] = s[4 * q + 1] /\ e[4 * q + 2] = s[4 * q + 2]
              /\ e[4 * q + 3] = s[4 * q + 3] /\ e[4 * q + 4] = s[4 * q + 4]
          BY <1>1, <2>2, <4>2, <5>1
        <5> QED
          BY <4>1, <5>2, Zenon
      <4>3. CASE some = 3
        <5>1. s[4 * q + 4] = Pad
          BY <1>5, <4>3, Zenon DEF EndsWhole
        <5> QED
          BY <1>1, <2>3, <4>1, <4>3, <5>1, Zenon
      <4> QED
        BY <4>1, <4>2, <4>3
    <3> QED
      BY <3>1, <3>2
  <2>5. s = [i \in 1 .. Len(s) |-> s[i]]
    OBVIOUS
  <2> HIDE DEF g
  <2> QED
    BY <1>1, <2>1, <2>4, <2>5
<1> QED
  BY <1>4, <1>5 DEF e

---------------------------------------------------------------------------
(* The decoder: what it has read at any time. *)

(* The string has q full groups of digits and the beginning of another, then *)
(* its pads; the target has the bytes that are full and the bits of the next *)
(* one.                                                                      *)
Pads == IF phase = "digits" THEN 0 ELSE IF phase = "second" THEN 1 ELSE 4 - state

Begun(q) ==
  /\ state = 1 => target[tarindex] = 4 * src[4 * q + 1]
  /\ state = 2 => target[tarindex] = 16 * (src[4 * q + 2] % 16)
  /\ state = 3 => target[tarindex] = 64 * (src[4 * q + 3] % 4)

HasRead(q) ==
  /\ BeginsWith(src, q, state)
  /\ Len(src) = 4 * q + state + Pads
  /\ \A i \in 4 * q + state + 1 .. Len(src) : src[i] = Pad
  /\ phase = "second" => state = 2
  /\ tarindex = Filled(q, state)
  /\ \A m \in 1 .. tarindex : target[m - 1] = Byte(src, m)
  /\ Begun(q)

(* The strengthening of DecodesEncodings.                                    *)
DecodingInv ==
  /\ DecoderInv /\ targsize \in Nat
  /\ src \in Seq(0 .. 66)
  /\ result = Pending => \E q \in Nat : HasRead(q)
  /\ DecodesEncodings

(* The string s is continued to t by the digit ch.                           *)
DigitAdded(s, t, n, ch, p, some) ==
  /\ t \in Seq(0 .. 66) /\ Len(t) = 4 * p + some /\ BeginsWith(t, p, some)
  /\ t[n + 1] = ch
  /\ \A i \in 1 .. n : t[i] = s[i]
  /\ \A m \in Nat : 1 <= m /\ 8 * m <= 6 * n => Byte(t, m) = Byte(s, m)

LEMMA NextDigit ==
  ASSUME NEW s \in Seq(0 .. 66), NEW n \in Nat, Len(s) = n, \A i \in 1 .. n : s[i] \in 0 .. 63,
         NEW ch \in 0 .. 63, NEW p \in Nat, NEW some \in 0 .. 3, 4 * p + some = n + 1
  PROVE  DigitAdded(s, Append(s, ch), n, ch, p, some)
<1> DEFINE t == Append(s, ch)
<1>1. /\ t \in Seq(0 .. 66) /\ Len(t) = n + 1 /\ t[n + 1] = ch
      /\ \A i \in 1 .. n : t[i] = s[i]
  <2>1. ch \in 0 .. 66
    OBVIOUS
  <2> QED
    BY <2>1
<1> HIDE DEF t
<1>2. ASSUME NEW i \in 1 .. n + 1 PROVE t[i] \in 0 .. 63 /\ t[i] \in 0 .. 66
  <2>1. CASE i = n + 1
    <3>1. ch \in 0 .. 66
      OBVIOUS
    <3> QED
      BY <1>1, <2>1, <3>1, Zenon
  <2>2. CASE i # n + 1
    <3>1. i \in 1 .. n
      BY <2>2
    <3>2. t[i] \in 0 .. 63
      BY <1>1, <3>1, Zenon
    <3> QED
      BY <3>2
  <2> QED
    BY <2>1, <2>2
<1>3. BeginsWith(t, p, some)
  <2>1. 4 * p + some = Len(t) /\ Len(t) \in Nat
    BY <1>1
  <2>2. /\ \A i \in 1 .. Len(t) : t[i] \in 0 .. 66
        /\ \A i \in 1 .. 4 * p + some : t[i] \in 0 .. 63
    BY <1>1, <1>2, <2>1, Zenon
  <2> DEFINE m == 4 * p + some
  <2>3. m <= Len(t) /\ ~(m < Len(t))
    BY <2>1
  <2> HIDE DEF m
  <2> QED
    BY <2>1, <2>2, <2>3, Zenon DEF BeginsWith, m
<1>4. ASSUME NEW m \in Nat, 1 <= m, 8 * m <= 6 * n PROVE Byte(t, m) = Byte(s, m)
  BY <1>1, <1>4, SameDigitsSameByte
<1> QED
  BY <1>1, <1>3, <1>4, Zenon DEF DigitAdded, t

(* The bytes that are full stay, and the next one is the current one.        *)
LEMMA ByteFilled ==
  ASSUME DecoderInv, targsize \in Nat, tarindex < targsize,
         NEW s, NEW byte, NEW next,
         \A m \in 1 .. tarindex : target[m - 1] = Byte(s, m),
         NEW current, Store(current, next), target[tarindex] + current = Byte(s, tarindex + 1)
  PROVE  \A m \in 1 .. tarindex + 1 : target'[m - 1] = Byte(s, m)
<1>1. DOMAIN target = 0 .. targsize - 1 /\ tarindex \in Nat
  BY DEF DecoderInv, TypeOK
<1>2. ASSUME NEW m \in 1 .. tarindex + 1 PROVE target'[m - 1] = Byte(s, m)
  <2>1. m - 1 \in 0 .. targsize - 1 /\ m \in Int
    BY <1>1
  <2>2. CASE m = tarindex + 1
    <3>1. m - 1 = tarindex
      BY <1>1, <2>2
    <3>2. target'[m - 1] = target[tarindex] + current
      BY <1>1, <2>1, <3>1 DEF Store
    <3> QED
      BY <2>2, <3>2, Zenon
  <2>3. CASE m # tarindex + 1
    <3>1. m \in 1 .. tarindex /\ m - 1 # tarindex /\ m - 1 # tarindex + 1
      BY <1>1, <2>3
    <3>2. target'[m - 1] = target[m - 1]
      BY <1>1, <2>1, <3>1 DEF Store
    <3> QED
      BY <3>1, <3>2, Zenon
  <2> QED
    BY <2>2, <2>3
<1> QED
  BY <1>2

(* The next byte begins with what is left of the digit.                      *)
LEMMA ByteBegun ==
  ASSUME DecoderInv, targsize \in Nat, tarindex + 1 < targsize,
         NEW current, NEW next \in Nat, Store(current, next)
  PROVE  target'[tarindex + 1] = next
<1>1. /\ DOMAIN target = 0 .. targsize - 1 /\ tarindex + 1 \in 0 .. targsize - 1
      /\ next # -1 /\ tarindex + 1 # tarindex
  BY DEF DecoderInv, TypeOK
<1> QED
  BY <1>1 DEF Store

(* What is to be shown of a string without pads.                             *)
LEMMA DigitsHaveRead ==
  ASSUME NEW p \in Nat, NEW some \in 0 .. 3, state' = some, phase' = "digits",
         BeginsWith(src', p, some), Len(src') = 4 * p + some,
         tarindex' = Filled(p, some),
         \A m \in 1 .. tarindex' : target'[m - 1] = Byte(src', m), Begun(p)'
  PROVE  HasRead(p)'
<1> DEFINE n == 4 * p + some
           s == src'
<1>1. n \in Nat /\ Len(s) = n
  <2>1. Len(s) = n
    BY Zenon
  <2>2. n \in Nat
    OBVIOUS
  <2> QED
    BY <2>1, <2>2, Zenon
<1> HIDE DEF n, s
<1>2. Len(s) = n + 0 /\ \A i \in n + 1 .. Len(s) : s[i] = Pad
  BY <1>1
<1>3. Pads' = 0 /\ phase' # "second"
  BY DEF Pads
<1> QED
  BY <1>2, <1>3 DEF HasRead, n, s

(* A digit that has its place is stored.                                     *)
LEMMA DigitIsStored ==
  ASSUME DecoderInv, targsize \in Nat, src \in Seq(0 .. 66), NEW q \in Nat, HasRead(q),
         phase = "digits", NEW ch \in 0 .. 63, src' = Append(src, ch),
         ~NoRoom, StoreDigit(ch)
  PROVE  \E p \in Nat : HasRead(p)'
<1> DEFINE n == 4 * q + state
           s == src'
<1>0. state \in 0 .. 3 /\ tarindex \in Nat
  BY DEF DecoderInv, TypeOK
<1>1. phase' = "digits" /\ state' = (state + 1) % 4
  BY Zenon DEF StoreDigit
<1>2. /\ tarindex = Filled(q, state) /\ BeginsWith(src, q, state)
      /\ \A m \in 1 .. tarindex : target[m - 1] = Byte(src, m)
  BY Zenon DEF HasRead
<1>3. \A i \in 1 .. n : src[i] \in 0 .. 63
  BY DEF HasRead, BeginsWith
<1>4. ASSUME NEW p \in Nat, NEW some \in 0 .. 3, 4 * p + some = n + 1
      PROVE  /\ Len(s) = 4 * p + some /\ BeginsWith(s, p, some)
             /\ \A i \in 1 .. n : s[i] = src[i]
             /\ s[n + 1] = ch
             /\ \A m \in 1 .. tarindex : target[m - 1] = Byte(s, m)
  <2>1. DigitAdded(src, Append(src, ch), n, ch, p, some)
    <3>1. Len(src) = n /\ n \in Nat
      BY <1>0 DEF HasRead, Pads
    <3> HIDE DEF n
    <3> QED
      BY <1>3, <1>4, <3>1, NextDigit
  <2>2. DigitAdded(src, s, n, ch, p, some)
    BY <2>1, Zenon
  <2>3. ASSUME NEW m \in 1 .. tarindex PROVE Byte(s, m) = Byte(src, m)
    <3>1. m \in Nat /\ 1 <= m /\ 8 * m <= 6 * n
      <4>1. CASE state = 0
        BY <1>2, <4>1 DEF Filled
      <4>2. CASE state = 1
        BY <1>2, <4>2 DEF Filled
      <4>3. CASE state = 2
        BY <1>2, <4>3 DEF Filled
      <4>4. CASE state = 3
        BY <1>2, <4>4 DEF Filled
      <4> QED
        BY <1>0, <4>1, <4>2, <4>3, <4>4
    <3> HIDE DEF s, n
    <3> QED
      BY <2>2, <3>1, Zenon DEF DigitAdded
  <2> HIDE DEF s, n
  <2>4. \A m \in 1 .. tarindex : target[m - 1] = Byte(s, m)
    BY <1>2, <2>3, Zenon
  <2> QED
    BY <2>2, <2>4, Zenon DEF DigitAdded
<1>5. CASE state = 0
  <2>1. state' = 1 /\ tarindex' = tarindex /\ n = 4 * q
        /\ target' = [target EXCEPT ![tarindex] = (ch * 4) % 256]
    BY <1>1, <1>5 DEF StoreDigit
  <2>2. /\ Len(s) = 4 * q + 1 /\ BeginsWith(s, q, 1) /\ s[n + 1] = ch
        /\ \A m \in 1 .. tarindex : target[m - 1] = Byte(s, m)
    BY <1>4, <1>5
  <2>3. tarindex = Filled(q, 1)
    BY <1>2, <1>5 DEF Filled
  <2>4. DOMAIN target = 0 .. targsize - 1 /\ tarindex \in 0 .. targsize - 1
    BY <1>5 DEF DecoderInv, TypeOK, NoRoom
  <2>5. target'[tarindex] = 4 * ch
    BY <2>1, <2>4, DigitParts
  <2>6. \A m \in 1 .. tarindex : target'[m - 1] = target[m - 1]
    BY <2>1, <2>4
  <2>7. \A m \in 1 .. tarindex' : target'[m - 1] = Byte(s, m)
    BY <2>1, <2>2, <2>6, Zenon
  <2>8. Begun(q)'
    BY <2>1, <2>2, <2>5 DEF Begun
  <2> HIDE DEF s
  <2>9. HasRead(q)'
    BY <1>1, <2>1, <2>2, <2>3, <2>7, <2>8, DigitsHaveRead DEF s
  <2> QED
    BY <2>9
<1>6. CASE state = 1
  <2>1. /\ state' = 2 /\ tarindex' = tarindex + 1 /\ n + 1 = 4 * q + 2
        /\ Store(ch \div 16, (ch % 16) * 16)
    BY <1>1, <1>6 DEF StoreDigit
  <2>2. /\ Len(s) = 4 * q + 2 /\ BeginsWith(s, q, 2) /\ s[4 * q + 2] = ch
        /\ s[4 * q + 1] = src[4 * q + 1]
        /\ \A m \in 1 .. tarindex : target[m - 1] = Byte(s, m)
    BY <1>4, <1>6, <2>1
  <2>3. tarindex = 3 * q /\ tarindex + 1 = Filled(q, 2)
    BY <1>2, <1>6 DEF Filled
  <2>4. tarindex + 1 < targsize /\ tarindex < targsize
    BY <1>0, <1>6 DEF NoRoom
  <2>5. target[tarindex] = 4 * s[4 * q + 1] /\ s[4 * q + 1] \in 0 .. 63
    BY <1>3, <1>6, <2>2 DEF HasRead, Begun
  <2>6. Byte(s, tarindex + 1) = target[tarindex] + ch \div 16
    <3>1. Byte(s, 3 * q + 1) = First(s[4 * q + 1], s[4 * q + 2])
      BY <2>2, <2>5, BytesOfGroup, Zenon
    <3> QED
      BY <2>2, <2>3, <2>5, <3>1, Zenon DEF First
  <2>7. \A m \in 1 .. tarindex' : target'[m - 1] = Byte(s, m)
    BY <2>1, <2>2, <2>4, <2>6, ByteFilled
  <2>8. target'[tarindex'] = 16 * (s[4 * q + 2] % 16)
    <3>1. (ch % 16) * 16 \in Nat /\ (ch % 16) * 16 = 16 * (ch % 16)
      OBVIOUS
    <3>2. target'[tarindex + 1] = (ch % 16) * 16
      BY <2>1, <2>4, <3>1, ByteBegun
    <3> QED
      BY <2>1, <2>2, <3>1, <3>2, Zenon
  <2>9. Begun(q)'
    BY <2>1, <2>8 DEF Begun
  <2> HIDE DEF s
  <2>10. HasRead(q)'
    BY <1>1, <2>1, <2>2, <2>3, <2>7, <2>9, DigitsHaveRead DEF s
  <2> QED
    BY <2>10
<1>7. CASE state = 2
  <2>1. /\ state' = 3 /\ tarindex' = tarindex + 1 /\ n + 1 = 4 * q + 3
        /\ Store(ch \div 4, (ch % 4) * 64)
    BY <1>1, <1>7 DEF StoreDigit
  <2>2. /\ Len(s) = 4 * q + 3 /\ BeginsWith(s, q, 3) /\ s[4 * q + 3] = ch
        /\ s[4 * q + 2] = src[4 * q + 2]
        /\ \A m \in 1 .. tarindex : target[m - 1] = Byte(s, m)
    BY <1>4, <1>7, <2>1
  <2>3. tarindex + 1 = 3 * q + 2 /\ tarindex + 1 = Filled(q, 3)
    BY <1>2, <1>7 DEF Filled
  <2>4. tarindex + 1 < targsize /\ tarindex < targsize
    BY <1>0, <1>7 DEF NoRoom
  <2>5. target[tarindex] = 16 * (s[4 * q + 2] % 16) /\ s[4 * q + 2] \in 0 .. 63
    BY <1>3, <1>7, <2>2 DEF HasRead, Begun
  <2>6. Byte(s, tarindex + 1) = target[tarindex] + ch \div 4
    <3>1. Byte(s, 3 * q + 2) = Middle(s[4 * q + 2], s[4 * q + 3])
      BY <2>2, <2>5, BytesOfGroup, Zenon
    <3> QED
      BY <2>2, <2>3, <2>5, <3>1, Zenon DEF Middle
  <2>7. \A m \in 1 .. tarindex' : target'[m - 1] = Byte(s, m)
    BY <2>1, <2>2, <2>4, <2>6, ByteFilled
  <2>8. target'[tarindex'] = 64 * (s[4 * q + 3] % 4)
    <3>1. (ch % 4) * 64 \in Nat /\ (ch % 4) * 64 = 64 * (ch % 4)
      OBVIOUS
    <3>2. target'[tarindex + 1] = (ch % 4) * 64
      BY <2>1, <2>4, <3>1, ByteBegun
    <3> QED
      BY <2>1, <2>2, <3>1, <3>2, Zenon
  <2>9. Begun(q)'
    BY <2>1, <2>8 DEF Begun
  <2> HIDE DEF s
  <2>10. HasRead(q)'
    BY <1>1, <2>1, <2>2, <2>3, <2>7, <2>9, DigitsHaveRead DEF s
  <2> QED
    BY <2>10
<1>8. CASE state = 3
  <2>1. /\ state' = 0 /\ tarindex' = tarindex + 1 /\ n + 1 = 4 * (q + 1) + 0
        /\ Store(ch, -1)
    BY <1>1, <1>8 DEF StoreDigit
  <2>2. /\ Len(s) = 4 * (q + 1) + 0 /\ BeginsWith(s, q + 1, 0) /\ s[4 * q + 4] = ch
        /\ s[4 * q + 3] = src[4 * q + 3]
        /\ \A m \in 1 .. tarindex : target[m - 1] = Byte(s, m)
    <3>1. q + 1 \in Nat /\ 4 * q + 4 = n + 1 /\ 4 * q + 3 \in 1 .. n /\ 0 \in 0 .. 3
      BY <1>8, <2>1
    <3>2. PICK p \in Nat : p = q + 1
      BY <3>1
    <3>3. 4 * p + 0 = n + 1
      BY <2>1, <3>2, Zenon
    <3> HIDE DEF s, n
    <3>4. /\ Len(s) = 4 * p + 0 /\ BeginsWith(s, p, 0) /\ s[n + 1] = ch
          /\ \A i \in 1 .. n : s[i] = src[i]
          /\ \A m \in 1 .. tarindex : target[m - 1] = Byte(s, m)
      BY <1>4, <3>1, <3>3, Zenon
    <3> QED
      BY <3>1, <3>2, <3>4, Zenon
  <2>3. tarindex + 1 = 3 * q + 3 /\ tarindex + 1 = Filled(q + 1, 0)
    BY <1>2, <1>8 DEF Filled
  <2>4. tarindex < targsize
    BY <1>0, <1>8 DEF NoRoom
  <2>5. target[tarindex] = 64 * (s[4 * q + 3] % 4) /\ s[4 * q + 3] \in 0 .. 63
    BY <1>3, <1>8, <2>2 DEF HasRead, Begun
  <2>6. Byte(s, tarindex + 1) = target[tarindex] + ch
    <3>1. Byte(s, 3 * q + 3) = Last(s[4 * q + 3], s[4 * q + 4])
      BY <2>2, <2>5, BytesOfGroup, Zenon
    <3> QED
      BY <2>2, <2>3, <2>5, <3>1, Zenon DEF Last
  <2>7. \A m \in 1 .. tarindex' : target'[m - 1] = Byte(s, m)
    BY <2>1, <2>2, <2>4, <2>6, ByteFilled
  <2>9. Begun(q + 1)'
    BY <2>1 DEF Begun
  <2> HIDE DEF s
  <2>10. q + 1 \in Nat
    OBVIOUS
  <2>11. HasRead(q + 1)'
    BY <1>1, <2>1, <2>2, <2>3, <2>7, <2>9, <2>10, DigitsHaveRead DEF s
  <2> QED
    BY <2>10, <2>11
<1> QED
  BY <1>0, <1>5, <1>6, <1>7, <1>8

(* A character that is no digit of the string leaves its digits as they are. *)
LEMMA OtherAppended ==
  ASSUME src \in Seq(0 .. 66), state \in 0 .. 3, NEW q \in Nat, HasRead(q),
         NEW ch \in 0 .. 66, ch >= Pad \/ phase # "digits"
  PROVE  LET t == Append(src, ch)
             n == 4 * q + state + Pads
         IN  /\ t \in Seq(0 .. 66) /\ Len(t) = n + 1 /\ n \in Nat /\ t[n + 1] = ch
             /\ \A i \in 1 .. n : t[i] = src[i]
             /\ BeginsWith(t, q, state)
<1> DEFINE t == Append(src, ch)
           n == 4 * q + state + Pads
           k == 4 * q + state
<1>1. Pads \in Nat /\ (phase # "digits" => Pads >= 1)
  BY DEF Pads, HasRead
<1>2. n \in Nat /\ k \in Nat /\ k <= n /\ (phase # "digits" => k < n)
  BY <1>1
<1>3. Len(src) = n
  BY DEF HasRead
<1>4. t \in Seq(0 .. 66) /\ Len(t) = n + 1 /\ t[n + 1] = ch /\ \A i \in 1 .. n : t[i] = src[i]
  <2> HIDE DEF n
  <2> QED
    BY <1>2, <1>3
<1>5. /\ \A i \in 1 .. n : src[i] \in 0 .. 66
      /\ \A i \in 1 .. k : src[i] \in 0 .. 63
      /\ \A i \in k + 1 .. n : src[i] = Pad
  BY <1>3, Zenon DEF HasRead, BeginsWith
<1> HIDE DEF t, n
<1>6. ASSUME NEW i \in 1 .. n + 1 PROVE t[i] \in 0 .. 66
  <2>1. i = n + 1 \/ i \in 1 .. n
    BY <1>2
  <2> QED
    BY <1>4, <1>5, <2>1, Zenon
<1>7. ASSUME NEW i \in 1 .. k PROVE t[i] \in 0 .. 63
  <2>1. i \in 1 .. n
    BY <1>2
  <2> QED
    BY <1>4, <1>5, <2>1, Zenon
<1>8. t[k + 1] >= Pad
  <2>1. CASE k = n
    <3>1. t[k + 1] = ch /\ ch >= Pad
      BY <1>2, <1>4, <2>1
    <3> QED
      BY <3>1, Zenon
  <2>2. CASE k # n
    <3>1. k + 1 \in 1 .. n /\ k + 1 \in k + 1 .. n
      BY <1>2, <2>2
    <3>2. t[k + 1] = Pad
      BY <1>4, <1>5, <3>1, Zenon
    <3> QED
      BY <3>2 DEF Pad
  <2> QED
    BY <2>1, <2>2
<1>9. BeginsWith(t, q, state)
  <2>1. Len(t) \in Nat /\ k <= Len(t)
    BY <1>2, <1>4
  <2> QED
    BY <1>4, <1>6, <1>7, <1>8, <2>1, Zenon DEF BeginsWith
<1> QED
  BY <1>2, <1>4, <1>9 DEF t, n

(* A character that cannot come ends every encoding.                         *)
LEMMA NoEncoding ==
  ASSUME src \in Seq(0 .. 66), state \in 0 .. 3, NEW q \in Nat, HasRead(q),
         phase # "digits" => state \in {2, 3}, phase \in {"digits", "second", "tail"},
         NEW ch \in 0 .. 66, ch >= Pad \/ phase # "digits",
         ch # Pad \/ phase = "tail" \/ (phase = "digits" /\ state \in {0, 1})
  PROVE  ~EndsWhole(Append(src, ch), q, state)
<1> DEFINE t == Append(src, ch)
           n == 4 * q + state + Pads
<1>1. Len(t) = n + 1 /\ t[n + 1] = ch
  BY OtherAppended, Zenon
<1> HIDE DEF t
<1> SUFFICES ~EndsWhole(t, q, state)
  BY DEF t
<1>2. CASE phase = "digits" /\ state \in {0, 1}
  <2>1. Len(t) = 4 * q + state + 1
    BY <1>1, <1>2 DEF Pads
  <2>2. EndsWhole(t, q, state) => Len(t) = 4 * q
    BY <1>2 DEF EndsWhole
  <2>3. 4 * q + state + 1 # 4 * q
    BY <1>2
  <2> QED
    BY <2>1, <2>2, <2>3, Zenon
<1>3. CASE phase = "digits" /\ state = 2
  BY <1>1, <1>3 DEF EndsWhole, Pads
<1>4. CASE phase = "digits" /\ state = 3
  BY <1>1, <1>4 DEF EndsWhole, Pads
<1>5. CASE phase = "second"
  <2>1. state = 2
    BY <1>5 DEF HasRead
  <2> QED
    BY <1>1, <1>5, <2>1 DEF EndsWhole, Pads
<1>6. CASE phase = "tail"
  <2>1. Len(t) = 4 * q + 5
    BY <1>1, <1>6 DEF Pads
  <2>2. EndsWhole(t, q, state) => Len(t) = 4 * (q + 1)
    BY <1>6 DEF EndsWhole
  <2>3. 4 * q + 5 # 4 * (q + 1)
    OBVIOUS
  <2> QED
    BY <2>1, <2>2, <2>3, Zenon
<1> QED
  BY <1>2, <1>3, <1>4, <1>5, <1>6

(* What is refused is no encoding.                                           *)
LEMMA Refused ==
  ASSUME NEW s, s = src', s \in Seq(0 .. 66), NEW q \in Nat, NEW some \in 0 .. 3,
         BeginsWith(s, q, some), ~EndsWhole(s, q, some), result' = -1
  PROVE  DecodesEncodings'
<1>1. s # Ntop(Bytes(s))
  BY EncodingIs
<1> QED
  BY <1>1, Zenon DEF DecodesEncodings

(* What is decoded is an encoding.                                           *)
LEMMA Accepted ==
  ASSUME DecoderInv, targsize \in Nat, src \in Seq(0 .. 66), NEW q \in Nat, HasRead(q), MayEnd,
         UNCHANGED <<src, target, tarindex>>, result' = tarindex
  PROVE  DecodesEncodings'
<1>0. state \in 0 .. 3 /\ tarindex \in Nat
  BY DEF DecoderInv, TypeOK
<1>1. EndsWhole(src, q, state)
  <2>0. /\ Len(src) = 4 * q + state + Pads
        /\ \A i \in 4 * q + state + 1 .. 4 * q + state + Pads : src[i] = Pad
        /\ BeginsWith(src, q, state) /\ Begun(q)
    BY Zenon DEF HasRead
  <2>1. CASE phase = "digits" /\ state = 0
    BY <2>0, <2>1 DEF EndsWhole, Pads
  <2>2. CASE phase = "tail" /\ target[tarindex] = 0 /\ state = 2
    <3>1. Len(src) = 4 * (q + 1)
      BY <2>0, <2>2 DEF Pads
    <3>2. src[4 * q + 3] = Pad /\ src[4 * q + 4] = Pad
      BY <2>0, <2>2 DEF Pads
    <3>3. src[4 * q + 2] % 16 = 0
      <4>1. src[4 * q + 2] \in 0 .. 63
        BY <2>0, <2>2 DEF BeginsWith
      <4> DEFINE d == src[4 * q + 2]
      <4>2. 16 * (d % 16) = 0
        BY <2>0, <2>2 DEF Begun
      <4> HIDE DEF d
      <4>3. d \in 0 .. 63
        BY <4>1 DEF d
      <4>4. d % 16 = 0
        BY <4>2, <4>3
      <4> QED
        BY <4>4 DEF d
    <3> QED
      BY <2>2, <3>1, <3>2, <3>3 DEF EndsWhole
  <2>3. CASE phase = "tail" /\ target[tarindex] = 0 /\ state = 3
    <3>1. Len(src) = 4 * (q + 1)
      BY <2>0, <2>3 DEF Pads
    <3>2. src[4 * q + 4] = Pad
      BY <2>0, <2>3 DEF Pads
    <3>3. src[4 * q + 3] % 4 = 0
      <4>1. src[4 * q + 3] \in 0 .. 63
        BY <2>0, <2>3 DEF BeginsWith
      <4> DEFINE d == src[4 * q + 3]
      <4>2. 64 * (d % 4) = 0
        BY <2>0, <2>3 DEF Begun
      <4> HIDE DEF d
      <4>3. d \in 0 .. 63
        BY <4>1 DEF d
      <4>4. d % 4 = 0
        BY <4>2, <4>3
      <4> QED
        BY <4>4 DEF d
    <3> QED
      BY <2>3, <3>1, <3>2, <3>3 DEF EndsWhole
  <2> QED
    BY <2>1, <2>2, <2>3 DEF MayEnd, DecoderInv, Partial
<1>2. BeginsWith(src, q, state)
  BY DEF HasRead
<1>3. src = Ntop(Bytes(src))
  BY <1>0, <1>1, <1>2, EncodingIs
<1>4. Decoded = Bytes(src)
  <2>1. Bytes(src) = [m \in 1 .. Filled(q, state) |-> Byte(src, m)]
    BY <1>0, <1>2, BytesFilled
  <2> QED
    BY <2>1, Zenon DEF Decoded, HasRead
<1>5. Decoded' = Decoded
  BY DEF Decoded
<1>6. tarindex # -1
  BY <1>0
<1> QED
  BY <1>3, <1>4, <1>5, <1>6, Zenon DEF DecodesEncodings

(* A pad in its place.                                                       *)
LEMMA PadIsRead ==
  ASSUME DecoderInv, src \in Seq(0 .. 66), NEW q \in Nat, HasRead(q), src' = Append(src, Pad),
         \/ phase = "digits" /\ state = 2 /\ phase' = "second"
         \/ phase = "digits" /\ state = 3 /\ phase' = "tail"
         \/ phase = "second" /\ phase' = "tail",
         UNCHANGED <<state, target, tarindex>>
  PROVE  HasRead(q)'
<1> DEFINE t == Append(src, Pad)
           k == 4 * q + state
           n == k + Pads
<1>0. state \in {2, 3} /\ state \in 0 .. 3 /\ k \in Nat /\ Pad \in 0 .. 66 /\ Pad >= Pad
  BY DEF DecoderInv, TypeOK, Partial, Pad
<1>1. /\ Len(src) = n /\ BeginsWith(src, q, state) /\ Begun(q)
      /\ \A i \in k + 1 .. n : src[i] = Pad
      /\ tarindex = Filled(q, state) /\ \A m \in 1 .. tarindex : target[m - 1] = Byte(src, m)
  BY Zenon DEF HasRead
<1>2. Pads' = Pads + 1 /\ Pads \in Nat /\ (phase' = "second" => state = 2)
  <2>1. phase = "second" => state = 2
    BY DEF HasRead
  <2> QED
    BY <2>1 DEF Pads
<1>3. /\ Len(t) = n + 1 /\ n \in Nat /\ t[n + 1] = Pad /\ BeginsWith(t, q, state)
      /\ \A i \in 1 .. n : t[i] = src[i]
  BY <1>0, OtherAppended, Zenon
<1> HIDE DEF t, k, n
<1>4. k <= n
  BY <1>0, <1>2 DEF n
<1>5. ASSUME NEW i \in k + 1 .. n + 1 PROVE t[i] = Pad
  <2>1. i = n + 1 \/ (i \in k + 1 .. n /\ i \in 1 .. n)
    BY <1>0, <1>3
  <2> QED
    BY <1>1, <1>3, <2>1, Zenon
<1>6. ASSUME NEW i \in 1 .. k PROVE t[i] = src[i]
  <2>1. i \in 1 .. n
    BY <1>0, <1>3, <1>4
  <2> QED
    BY <1>3, <2>1, Zenon
<1>7. ASSUME NEW m \in 1 .. tarindex PROVE target[m - 1] = Byte(t, m)
  <2>1. m \in Nat /\ 1 <= m /\ 8 * m <= 6 * k
    <3>1. CASE state = 2
      BY <1>1, <3>1 DEF Filled, k
    <3>2. CASE state = 3
      BY <1>1, <3>2 DEF Filled, k
    <3> QED
      BY <1>0, <3>1, <3>2
  <2> DEFINE s == src
  <2>2. \A i \in 1 .. k : t[i] = s[i]
    BY <1>6
  <2> HIDE DEF s
  <2>3. Byte(t, m) = Byte(s, m)
    BY <1>0, <2>1, <2>2, SameDigitsSameByte
  <2> QED
    BY <1>1, <2>3, Zenon DEF s
<1>8. /\ state = 2 => t[4 * q + 2] = src[4 * q + 2]
      /\ state = 3 => t[4 * q + 3] = src[4 * q + 3]
  BY <1>6 DEF k
<1>9. Begun(q)'
  <2>1. t = src'
    BY Zenon DEF t
  <2> QED
    BY <1>0, <1>1, <1>8, <2>1, Zenon DEF Begun
<1>10. Len(t) = 4 * q + state + Pads'
  <2>1. n + 1 = 4 * q + state + Pads'
    BY <1>0, <1>2 DEF n, k
  <2> QED
    BY <1>3, <2>1, Zenon
<1>11. \A i \in 4 * q + state + 1 .. Len(t) : t[i] = Pad
  BY <1>3, <1>5 DEF k
<1>12. t = src'
  BY Zenon DEF t
<1> QED
  BY <1>1, <1>2, <1>3, <1>7, <1>9, <1>10, <1>11, <1>12, Zenon DEF HasRead

(* A digit for whose byte there is no room leaves its group unfinished.      *)
LEMMA DigitIsRefused ==
  ASSUME DecoderInv, targsize \in Nat, src \in Seq(0 .. 66), NEW q \in Nat, HasRead(q),
         phase = "digits", NEW ch \in 0 .. 63, src' = Append(src, ch), NoRoom, result' = -1
  PROVE  DecodesEncodings'
<1> DEFINE t == Append(src, ch)
           n == 4 * q + state
           some == state + 1
<1>1. some \in 0 .. 3 /\ some # 0 /\ n \in Nat /\ 4 * q + some = n + 1
  BY DEF DecoderInv, TypeOK, NoRoom
<1>2. Len(src) = n /\ \A i \in 1 .. n : src[i] \in 0 .. 63
  BY <1>1 DEF HasRead, Pads, BeginsWith
<1> HIDE DEF n, some
<1>3. DigitAdded(src, t, n, ch, q, some)
  BY <1>1, <1>2, NextDigit
<1> HIDE DEF t
<1>4. t \in Seq(0 .. 66) /\ Len(t) = 4 * q + some /\ BeginsWith(t, q, some)
  BY <1>3, Zenon DEF DigitAdded
<1>5. ~EndsWhole(t, q, some)
  <2>1. 4 * q + some # 4 * (q + (IF some <= 1 THEN 0 ELSE 1))
    <3>1. some = 1 \/ some = 2 \/ some = 3
      BY <1>1
    <3> QED
      BY <3>1
  <2> QED
    BY <1>4, <2>1, Zenon DEF EndsWhole
<1>6. t = src'
  BY Zenon DEF t
<1> QED
  BY <1>1, <1>4, <1>5, <1>6, Refused, Zenon

(* A character that cannot come.                                             *)
LEMMA OtherIsRefused ==
  ASSUME src \in Seq(0 .. 66), state \in 0 .. 3, NEW q \in Nat, HasRead(q),
         phase # "digits" => state \in {2, 3}, phase \in {"digits", "second", "tail"},
         NEW ch \in 0 .. 66, ch >= Pad \/ phase # "digits",
         ch # Pad \/ phase = "tail" \/ (phase = "digits" /\ state \in {0, 1}),
         src' = Append(src, ch), result' = -1
  PROVE  DecodesEncodings'
<1> DEFINE t == Append(src, ch)
<1>1. t \in Seq(0 .. 66) /\ BeginsWith(t, q, state)
  BY OtherAppended, Zenon
<1>2. ~EndsWhole(t, q, state)
  BY NoEncoding, Zenon
<1>3. t = src'
  BY Zenon
<1> HIDE DEF t
<1> QED
  BY <1>1, <1>2, <1>3, Refused, Zenon

(* A string that may not end.                                                *)
LEMMA EndIsRefused ==
  ASSUME DecoderInv, src \in Seq(0 .. 66), NEW q \in Nat, HasRead(q), ~MayEnd,
         UNCHANGED src, result' = -1
  PROVE  DecodesEncodings'
<1>0. /\ state \in 0 .. 3 /\ phase \in {"digits", "second", "tail"}
      /\ phase # "digits" => state \in {2, 3}
  BY DEF DecoderInv, TypeOK, Partial
<1>1. /\ Len(src) = 4 * q + state + Pads /\ BeginsWith(src, q, state) /\ Begun(q)
      /\ phase = "second" => state = 2
  BY Zenon DEF HasRead
<1>2. ~EndsWhole(src, q, state)
  <2>1. CASE phase = "digits"
    <3>1. state = 1 \/ state = 2 \/ state = 3
      BY <1>0, <2>1 DEF MayEnd
    <3>2. 4 * q + state + 0 # 4 * (q + (IF state <= 1 THEN 0 ELSE 1))
      BY <3>1
    <3> QED
      BY <1>1, <2>1, <3>2, Zenon DEF EndsWhole, Pads
  <2>2. CASE phase = "second"
    <3>1. 4 * q + 2 + 1 # 4 * (q + (IF 2 <= 1 THEN 0 ELSE 1))
      OBVIOUS
    <3>2. Pads = 1 /\ state = 2
      BY <1>1, <2>2 DEF Pads
    <3> QED
      BY <1>1, <3>1, <3>2, Zenon DEF EndsWhole
  <2>3. CASE phase = "tail" /\ state = 2
    <3>1. target[tarindex] # 0 /\ target[tarindex] = 16 * (src[4 * q + 2] % 16)
      BY <1>1, <2>3 DEF MayEnd, Begun
    <3>2. 16 * 0 = 0
      OBVIOUS
    <3> QED
      BY <2>3, <3>1, <3>2, Zenon DEF EndsWhole
  <2>4. CASE phase = "tail" /\ state = 3
    <3>1. target[tarindex] # 0 /\ target[tarindex] = 64 * (src[4 * q + 3] % 4)
      BY <1>1, <2>4 DEF MayEnd, Begun
    <3>2. 64 * 0 = 0
      OBVIOUS
    <3> QED
      BY <2>4, <3>1, <3>2, Zenon DEF EndsWhole
  <2> QED
    BY <1>0, <2>1, <2>2, <2>3, <2>4
<1> DEFINE s == src
<1>3. s = src' /\ s \in Seq(0 .. 66) /\ BeginsWith(s, q, state) /\ ~EndsWhole(s, q, state)
  BY <1>1, <1>2, Zenon
<1> HIDE DEF s
<1> QED
  BY <1>0, <1>3, Refused, Zenon

(* The string stays a string of characters.                                  *)
LEMMA CharactersAreRead ==
  ASSUME NEW ch \in 0 .. 67, Read(ch), src \in Seq(0 .. 66)
  PROVE  src' \in Seq(0 .. 66)
<1>1. CASE ch \in {Space, End}
  BY <1>1, Zenon DEF Read
<1>2. CASE ch \notin {Space, End}
  <2>1. src' = Append(src, ch)
    BY <1>2, Zenon DEF Read
  <2>2. ch \in 0 .. 66
    BY <1>2 DEF End
  <2> QED
    BY <2>1, <2>2
<1> QED
  BY <1>1, <1>2

(* The decoder accepts a string just when it is what ntop makes of the bytes *)
(* it stands for, and those are the bytes it leaves in the target, for every *)
(* string and every target (DecodesEncodings).                               *)
THEOREM DecodesOnlyEncodings == Spec => []DecodesEncodings
<1> USE Base64Assumption
<1>1. Init => DecodingInv
  <2> SUFFICES ASSUME Init PROVE DecodingInv
    OBVIOUS
  <2>1. DecoderInv /\ targsize \in Nat
    BY DEF Init, DecoderInv, TypeOK, Partial, Pending
  <2>2. src \in Seq(0 .. 66) /\ Len(src) = 0
    BY DEF Init
  <2>3. HasRead(0)
    <3>1. BeginsWith(src, 0, 0)
      BY <2>2 DEF BeginsWith
    <3> QED
      BY <2>2, <3>1 DEF Init, HasRead, Pads, Begun, Filled
  <2>4. DecodesEncodings
    BY DEF Init, DecodesEncodings
  <2> QED
    BY <2>1, <2>2, <2>3, <2>4 DEF DecodingInv
<1>2. DecodingInv /\ [Next]_vars => DecodingInv'
  <2> SUFFICES ASSUME DecodingInv, [Next]_vars PROVE DecodingInv'
    OBVIOUS
  <2>0. /\ DecoderInv /\ targsize \in Nat /\ src \in Seq(0 .. 66)
        /\ result = Pending => \E q \in Nat : HasRead(q)
        /\ DecodesEncodings /\ state \in 0 .. 3
        /\ phase \in {"digits", "second", "tail"} /\ (phase # "digits" => state \in {2, 3})
    BY DEF DecodingInv, DecoderInv, TypeOK, Partial
  <2>1. DecoderInv' /\ (targsize \in Nat)'
    BY <2>0, DecoderStep
  <2>2. CASE UNCHANGED vars
    <3>1. UNCHANGED <<src, phase, state, target, tarindex, targsize, result>>
      BY <2>2 DEF vars
    <3>2. ASSUME NEW q \in Nat, HasRead(q) PROVE HasRead(q)'
      BY <3>1, <3>2, Zenon DEF HasRead, Pads, Begun
    <3>3. DecodesEncodings'
      BY <2>0, <3>1, Zenon DEF DecodesEncodings, Decoded
    <3> QED
      BY <2>0, <2>1, <3>1, <3>2, <3>3, Zenon DEF DecodingInv
  <2>3. ASSUME Next, result = Pending PROVE DecodingInv'
    <3>1. PICK q \in Nat : HasRead(q)
      BY <2>0, <2>3
    <3>2. Pad \in 0 .. 67 /\ Space \in 0 .. 67 /\ Bad \in 0 .. 67 /\ End \in 0 .. 67
      BY DEF Pad, Space, Bad, End
    <3>3. ASSUME NEW ch \in 0 .. 67, Read(ch), (\E p \in Nat : HasRead(p)') /\ result' = Pending
          PROVE  DecodingInv'
      <4>1. src' \in Seq(0 .. 66)
        BY <2>0, <3>3, CharactersAreRead
      <4>2. DecodesEncodings'
        BY <3>3, Zenon DEF DecodesEncodings
      <4> QED
        BY <2>1, <3>3, <4>1, <4>2, Zenon DEF DecodingInv
    <3>4. ASSUME NEW ch \in 0 .. 67, Read(ch), DecodesEncodings', result' # Pending
          PROVE  DecodingInv'
      <4>1. src' \in Seq(0 .. 66)
        BY <2>0, <3>4, CharactersAreRead
      <4> QED
        BY <2>1, <3>4, <4>1, Zenon DEF DecodingInv
    <3>5. CASE ReadDigit
      <4>1. PICK ch \in Digits : /\ Read(ch)
                                 /\ phase = "digits"
                                 /\ \/ NoRoom /\ Fail
                                    \/ ~NoRoom /\ StoreDigit(ch)
        BY <3>5, Zenon DEF ReadDigit
      <4>2. ch \in 0 .. 63 /\ ch \in 0 .. 67 /\ src' = Append(src, ch)
        BY <4>1 DEF Read, Space, End
      <4>3. CASE NoRoom /\ Fail
        <5>1. result' = -1 /\ result' # Pending
          BY <4>3 DEF Fail, Pending
        <5> QED
          BY <2>0, <3>1, <3>4, <4>1, <4>2, <4>3, <5>1, DigitIsRefused, Zenon
      <4>4. CASE ~NoRoom /\ StoreDigit(ch)
        <5>1. result' = Pending
          BY <2>3, <4>4, Zenon DEF StoreDigit
        <5> QED
          BY <2>0, <3>1, <3>3, <4>1, <4>2, <4>4, <5>1, DigitIsStored, Zenon
      <4> QED
        BY <4>1, <4>3, <4>4
    <3>6. CASE ReadSpace
      <4>1. Read(Space) /\ UNCHANGED <<src, phase, state, target, tarindex, result>>
        BY <3>6 DEF ReadSpace, Read
      <4>2. HasRead(q)'
        BY <3>1, <4>1, Zenon DEF HasRead, Pads, Begun
      <4> QED
        BY <2>3, <3>1, <3>2, <3>3, <4>1, <4>2, Zenon
    <3>7. CASE ReadPad
      <4>1. Read(Pad) /\ src' = Append(src, Pad) /\ Pad \in 0 .. 66 /\ Pad >= Pad
        BY <3>7 DEF ReadPad, Read, Pad, Space, End
      <4>2. CASE Fail /\ (phase = "tail" \/ (phase = "digits" /\ state \in {0, 1}))
        <5>1. result' = -1 /\ result' # Pending
          BY <4>2 DEF Fail, Pending
        <5>2. DecodesEncodings'
          BY <2>0, <3>1, <4>1, <4>2, <5>1, OtherIsRefused, Zenon
        <5> QED
          BY <3>2, <3>4, <4>1, <5>1, <5>2, Zenon
      <4>3. CASE ~(Fail /\ (phase = "tail" \/ (phase = "digits" /\ state \in {0, 1})))
        <5>1. /\ UNCHANGED <<state, target, tarindex, result>>
              /\ \/ phase = "digits" /\ state = 2 /\ phase' = "second"
                 \/ phase = "digits" /\ state = 3 /\ phase' = "tail"
                 \/ phase = "second" /\ phase' = "tail"
          BY <3>7, <4>3 DEF ReadPad
        <5>2. HasRead(q)'
          BY <2>0, <3>1, <4>1, <5>1, PadIsRead, Zenon
        <5> QED
          BY <2>3, <3>1, <3>2, <3>3, <4>1, <5>1, <5>2, Zenon
      <4> QED
        BY <4>2, <4>3
    <3>8. CASE ReadOther
      <4>1. PICK ch \in 0 .. 66 : /\ Read(ch) /\ ch # Pad /\ (ch >= Pad \/ phase # "digits")
                                  /\ src' = Append(src, ch)
        <5>1. CASE Read(Bad)
          BY <5>1 DEF Read, Bad, Pad, Space, End
        <5>2. CASE phase # "digits" /\ \E ch \in Digits : Read(ch)
          BY <5>2 DEF Read, Bad, Pad, Space, End
        <5> QED
          BY <3>8, <5>1, <5>2 DEF ReadOther
      <4>2. result' = -1 /\ result' # Pending /\ ch \in 0 .. 67
        BY <3>8 DEF ReadOther, Fail, Pending
      <4>3. DecodesEncodings'
        BY <2>0, <3>1, <4>1, <4>2, OtherIsRefused, Zenon
      <4> QED
        BY <3>4, <4>1, <4>2, <4>3, Zenon
    <3>9. CASE ReadEnd
      <4>1. Read(End) /\ UNCHANGED src
        BY <3>9 DEF ReadEnd, Read
      <4>2. CASE MayEnd
        <5>1. result' = tarindex /\ UNCHANGED <<target, tarindex>>
          BY <3>9, <4>2 DEF ReadEnd
        <5>2. DecodesEncodings'
          BY <2>0, <3>1, <4>1, <4>2, <5>1, Accepted, Zenon
        <5>3. result' # Pending
          BY <2>0, <5>1 DEF Pending, DecoderInv, TypeOK
        <5> QED
          BY <3>2, <3>4, <4>1, <5>2, <5>3, Zenon
      <4>3. CASE ~MayEnd
        <5>1. result' = -1 /\ result' # Pending
          BY <3>9, <4>3 DEF ReadEnd, Fail, Pending
        <5>2. DecodesEncodings'
          BY <2>0, <3>1, <4>1, <4>3, <5>1, EndIsRefused, Zenon
        <5> QED
          BY <3>2, <3>4, <4>1, <5>1, <5>2, Zenon
      <4> QED
        BY <4>2, <4>3
    <3> QED
      BY <2>3, <3>5, <3>6, <3>7, <3>8, <3>9 DEF Next, Returned
  <2>4. Next => result = Pending \/ UNCHANGED vars
    BY DEF Next, ReadDigit, ReadSpace, ReadPad, ReadOther, ReadEnd, Read, Returned
  <2> QED
    BY <2>2, <2>3, <2>4
<1>3. DecodingInv => DecodesEncodings
  BY DEF DecodingInv
<1> QED
  BY <1>1, <1>2, <1>3, PTL DEF Spec
================================================================================
