--------------------------------- MODULE Base64 ---------------------------------
(***************************************************************************)
(* The base64 routines of mongoc-b64.c: mongoc_b64_ntop as a function of   *)
(* the bytes, mongoc_b64_pton_do as the machine that takes a string one    *)
(* character after another.  The string is chosen as it is read, so that   *)
(* the behaviours are the decodings of all strings.                        *)
(*                                                                         *)
(* A character is known by its entry of the reverse map: the value of a    *)
(* base64 digit, or one of Pad, Space, Bad and End.  A char is unsigned    *)
(* here, so that one above 127 is Bad.                                     *)
(***************************************************************************)
EXTENDS Integers, Sequences

CONSTANTS
  Digits,       (* the base64 digits strings are made of *)
  MaxLength,    (* most characters before the end of a string *)
  TargSizes     (* sizes of the target buffer *)

ASSUME Base64Assumption ==
  /\ Digits \subseteq 0 .. 63
  /\ MaxLength \in Nat
  /\ TargSizes \subseteq Nat

Pad   == 64
Space == 65
Bad   == 66
End   == 67

Pending == -2

VARIABLES
  src,        (* the characters read, without spaces *)
  length,     (* how many were read, with spaces *)
  phase,      (* "digits", "second" for the second pad, "tail" after the last one *)
  state,      (* place in the group of four digits *)
  target,     (* the target buffer *)
  tarindex,
  targsize,
  result      (* Pending, -1 or the number of bytes decoded *)

vars == <<src, length, phase, state, target, tarindex, targsize, result>>

---------------------------------------------------------------------------
(* mongoc_b64_ntop *)

(* The digits of the group of up to three bytes that starts at i, padded. *)
Group(bytes, i) ==
  LET left == Len(bytes) - i + 1
      input == [k \in 0 .. 2 |-> IF k < left THEN bytes[i + k] ELSE 0]
      second == (input[0] % 4) * 16 + input[1] \div 16
      third  == (input[1] % 16) * 4 + input[2] \div 64
  IN  <<input[0] \div 4, second,
        IF left = 1 THEN Pad ELSE third,
        IF left <= 2 THEN Pad ELSE input[2] % 64>>

Ntop(bytes) ==
  LET groups == (Len(bytes) + 2) \div 3
  IN  [n \in 1 .. 4 * groups |->
         Group(bytes, 3 * ((n - 1) \div 4) + 1)[((n - 1) % 4) + 1]]

---------------------------------------------------------------------------
(* mongoc_b64_pton_do *)

Init ==
  /\ src = <<>> /\ length = 0 /\ phase = "digits" /\ state = 0
  /\ targsize \in TargSizes
  /\ target = [i \in 0 .. targsize - 1 |-> 0]
  /\ tarindex = 0
  /\ result = Pending

Read(ch) ==
  /\ result = Pending
  /\ ch # End => length < MaxLength
  /\ length' = length + 1
  /\ src' = IF ch \in {Space, End} THEN src ELSE Append(src, ch)
  /\ UNCHANGED targsize

Fail == result' = -1 /\ UNCHANGED <<phase, state, target, tarindex>>

(* The six bits of a digit go to the rest of the current byte and the start  *)
(* of the next one.                                                          *)
Store(current, next) ==
  target' = [i \in DOMAIN target |-> IF i = tarindex THEN target[i] + current
                                     ELSE IF i = tarindex + 1 /\ next # -1 THEN next
                                     ELSE target[i]]

(* Mutant: the last byte may be begun one place too far. *)
NoRoomOffByOne == tarindex + (IF state \in {1, 2} THEN 1 ELSE 0) > targsize

(* The digit ends, continues or starts a byte that has no place. *)
NoRoom == tarindex + (IF state \in {1, 2} THEN 1 ELSE 0) >= targsize

StoreDigit(ch) ==
  /\ \/ /\ state = 0
        /\ target' = [target EXCEPT ![tarindex] = (ch * 4) % 256]
        /\ tarindex' = tarindex
     \/ /\ state # 0
        /\ \/ state = 1 /\ Store(ch \div 16, (ch % 16) * 16)
           \/ state = 2 /\ Store(ch \div 4, (ch % 4) * 64)
           \/ state = 3 /\ Store(ch, -1)
        /\ tarindex' = tarindex + 1
  /\ state' = (state + 1) % 4
  /\ UNCHANGED <<phase, result>>

ReadDigit ==
  \E ch \in Digits :
    /\ Read(ch)
    /\ phase = "digits"
    /\ \/ NoRoom /\ Fail
       \/ ~NoRoom /\ StoreDigit(ch)

ReadSpace ==
  /\ Read(Space)
  /\ UNCHANGED <<phase, state, target, tarindex, result>>

(* A pad after two digits is followed by another one; nothing but spaces     *)
(* comes after the last.                                                     *)
ReadPad ==
  /\ Read(Pad)
  /\ \/ /\ phase = "digits" /\ state \in {2, 3}
        /\ phase' = IF state = 2 THEN "second" ELSE "tail"
        /\ UNCHANGED <<state, target, tarindex, result>>
     \/ /\ phase = "second"
        /\ phase' = "tail"
        /\ UNCHANGED <<state, target, tarindex, result>>
     \/ /\ phase = "tail" \/ (phase = "digits" /\ state \in {0, 1})
        /\ Fail

ReadOther ==
  /\ \/ Read(Bad)
     \/ phase # "digits" /\ \E ch \in Digits : Read(ch)
  /\ Fail

(* Mutant: the bits that are left over are not looked at. *)
AnyBits == phase = "tail" \/ (phase = "digits" /\ state = 0)

(* A string may end on a full group, or after its pads when the bits that    *)
(* did not make a byte are zero.                                             *)
MayEnd ==
  \/ phase = "digits" /\ state = 0
  \/ phase = "tail" /\ target[tarindex] = 0

ReadEnd ==
  /\ Read(End)
  /\ IF MayEnd THEN result' = tarindex /\ UNCHANGED <<phase, state, target, tarindex>>
     ELSE Fail

Returned == result # Pending /\ UNCHANGED vars

Next == ReadDigit \/ ReadSpace \/ ReadPad \/ ReadOther \/ ReadEnd \/ Returned

Spec == Init /\ [][Next]_vars

---------------------------------------------------------------------------
Decoded == [i \in 1 .. tarindex |-> target[i - 1]]

(* The bytes that the digits a string begins with stand for, bit by bit      *)
(* (RFC 4648).                                                               *)
Leading(string) ==
  CHOOSE n \in 0 .. Len(string) : /\ \A i \in 1 .. n : string[i] < Pad
                                  /\ n < Len(string) => string[n + 1] >= Pad

Bit(digits, i) == (digits[i \div 6 + 1] \div <<32, 16, 8, 4, 2, 1>>[(i % 6) + 1]) % 2
Byte(digits, n) ==
  LET bit(k) == Bit(digits, 8 * (n - 1) + k)
  IN  128 * bit(0) + 64 * bit(1) + 32 * bit(2) + 16 * bit(3)
        + 8 * bit(4) + 4 * bit(5) + 2 * bit(6) + bit(7)
Bytes(string) == [n \in 1 .. (6 * Leading(string)) \div 8 |-> Byte(string, n)]

(* Type invariant: a byte that has been begun has its place in the target,   *)
(* which is read once more when the string ends.                             *)
TypeOK ==
  /\ state \in 0 .. 3
  /\ phase \in {"digits", "second", "tail"}
  /\ target \in [0 .. targsize - 1 -> 0 .. 255]
  /\ tarindex \in 0 .. targsize
  /\ state # 0 => tarindex < targsize
  /\ result \in {Pending, -1} \cup 0 .. targsize

(* A string is decoded just when it is, spaces aside, what ntop makes of the *)
(* bytes it stands for, and those are the bytes in the target: "make sure    *)
(* ... that the extra bits that slopped past the last full byte were zeros", *)
(* so that no two strings decode to the same bytes (mongoc-b64.c:388).  One  *)
(* that is refused before its end is no encoding so far.                     *)
DecodesEncodings ==
  result # Pending =>
    /\ result # -1 <=> src = Ntop(Bytes(src))
    /\ result # -1 => result = tarindex /\ Decoded = Bytes(src)

(* The bits of a byte that the next digits are to fill are still zero, and   *)
(* pads come only where a byte has been begun.                               *)
Partial ==
  /\ state = 1 => \E k \in 0 .. 63 : target[tarindex] = 4 * k
  /\ state = 2 => \E k \in 0 .. 15 : target[tarindex] = 16 * k
  /\ state = 3 => \E k \in 0 .. 3 : target[tarindex] = 64 * k
  /\ phase # "digits" => state \in {2, 3}

(* The inductive invariant. *)
DecoderInv == TypeOK /\ Partial
================================================================================
