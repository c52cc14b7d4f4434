---------------------------------- MODULE Md5 ----------------------------------
(***************************************************************************)
(* The MD5 of bson-md5.c: a message is taken in pieces, blocks are         *)
(* processed when they are full, and the end is padded with the length.    *)
(* Processing a block mixes its words into the digest in 64 operations;    *)
(* the digest is kept as the sequence of what was mixed in, the arithmetic *)
(* of an operation is left out.  Sizes are parameters, bytes are numbers.  *)
(***************************************************************************)
EXTENDS Integers, Sequences, SequencesExt

CONSTANTS
  BlockSize,      (* 64 bytes, 16 words *)
  WordBytes       (* the bytes of each of the two words that count bits: 4 *)

LengthSize == 2 * WordBytes

(* What a byte of that place counts for. *)
PlaceValue[i \in 0 .. LengthSize] == IF i = 0 THEN 1 ELSE 256 * PlaceValue[i - 1]

Word == PlaceValue[WordBytes]

ASSUME Md5Assumption ==
  /\ WordBytes \in Nat \ {0}
  /\ BlockSize \in Nat /\ BlockSize > LengthSize /\ BlockSize % 16 = 0
  /\ Word % (8 * BlockSize) = 0

(* bson_md5_init; the buffer is not set. *)
Junk == -1
Md5Init == [low |-> 0, high |-> 0, buf |-> [i \in 1 .. BlockSize |-> Junk], abcd |-> <<>>]

(* bson_md5_process: the words of the block in the order the four rounds read *)
(* them, and by how many bits each is rotated.                                *)
WordOrder ==
  <<0, 1,  2,  3, 4,  5,  6,  7, 8,  9, 10, 11, 12, 13, 14, 15,
    1, 6, 11,  0, 5, 10, 15,  4, 9, 14,  3,  8, 13,  2,  7, 12,
    5, 8, 11, 14, 1,  4,  7, 10, 13, 0,  3,  6,  9, 12, 15,  2,
    0, 7, 14,  5, 12, 3, 10,  1, 8, 15,  6, 13,  4, 11,  2,  9>>

Rotations == <<<<7, 12, 17, 22>>, <<5, 9, 14, 20>>, <<4, 11, 16, 23>>, <<6, 10, 15, 21>>>>

WordAt(block, k) ==
  SubSeq(block, k * (BlockSize \div 16) + 1, (k + 1) * (BlockSize \div 16))

(* Mutant: the second round reads the words in the order of the third. *)
ProcessRoundTwice(md5, block) ==
  [md5 EXCEPT !.abcd = @ \o [t \in 1 .. 64 |->
     [word     |-> WordAt(block, WordOrder[IF t \in 17 .. 32 THEN t + 16 ELSE t]),
      rotation |-> Rotations[((t - 1) \div 16) + 1][((t - 1) % 4) + 1]]]]

Process(md5, block) ==
  [md5 EXCEPT !.abcd = @ \o [t \in 1 .. 64 |->
     [word     |-> WordAt(block, WordOrder[t]),
      rotation |-> Rotations[((t - 1) \div 16) + 1][((t - 1) % 4) + 1]]]]

(* memcpy to the buffer from offset on. *)
Fill(md5, offset, data) ==
  [md5 EXCEPT !.buf = [i \in 1 .. BlockSize |->
     IF i - offset \in 1 .. Len(data) THEN data[i - offset] ELSE @[i]]]

(* Mutant: the bits of the low word that did not fit are not carried. *)
NoCarry(md5, nbytes) ==
  [md5 EXCEPT !.low = (@ + 8 * nbytes) % Word, !.high = @ % Word]

(* The number of bits is kept in two words. *)
Count(md5, nbytes) ==
  LET nbits == (8 * nbytes) % Word
      low   == (md5.low + nbits) % Word
  IN  [md5 EXCEPT !.low = low,
                  !.high = (@ + nbytes \div (Word \div 8) + (IF low < nbits THEN 1 ELSE 0))
                             % Word]

(* The full blocks of data are processed, the rest begins the next block. *)
Blocks(md5, data) ==
  LET full == Len(data) \div BlockSize
      run[n \in 0 .. full] ==
        IF n = 0 THEN md5
        ELSE Process(run[n - 1], SubSeq(data, (n - 1) * BlockSize + 1, n * BlockSize))
  IN  Fill(run[full], 0, SubSeq(data, full * BlockSize + 1, Len(data)))

(* bson_md5_append *)
AppendData(md5, data) ==
  LET offset  == (md5.low \div 8) % BlockSize
      counted == Count(md5, Len(data))
      copy    == IF offset + Len(data) > BlockSize THEN BlockSize - offset ELSE Len(data)
      filled  == Fill(counted, offset, SubSeq(data, 1, copy))
      rest    == SubSeq(data, copy + 1, Len(data))
  IN  IF data = <<>> THEN md5
      ELSE IF offset = 0 THEN Blocks(counted, data)
      ELSE IF offset + copy < BlockSize THEN filled
      ELSE Blocks(Process(filled, filled.buf), rest)

(* Mutant: a message that leaves just the room of the length is padded with   *)
(* nothing.                                                                   *)
PadToLength(low) == (BlockSize - LengthSize - low \div 8) % BlockSize

PadSize(low) == ((BlockSize - LengthSize - 1 - low \div 8) % BlockSize) + 1

Pad == [i \in 1 .. BlockSize |-> IF i = 1 THEN 128 ELSE 0]

(* The length in bits, least significant byte first. *)
LengthBytes(md5) ==
  [i \in 1 .. LengthSize |->
     LET word == IF i <= WordBytes THEN md5.low ELSE md5.high
     IN  (word \div PlaceValue[(i - 1) % WordBytes]) % 256]

(* bson_md5_finish: the length is saved before padding. *)
Finish(md5) ==
  AppendData(AppendData(md5, SubSeq(Pad, 1, PadSize(md5.low))), LengthBytes(md5))

(* _mongoc_hex_md5 *)
HexMd5(input) == Finish(AppendData(Md5Init, input)).abcd

---------------------------------------------------------------------------
(* The reference (RFC 1321): the message, a byte with its first bit set, the  *)
(* fewest zeros that make a whole number of blocks with the length.           *)

Zeros(n) ==
  CHOOSE k \in 0 .. BlockSize - 1 : (n + 1 + k + LengthSize) % BlockSize = 0

PaddedMessage(input) ==
  input \o <<128>> \o [i \in 1 .. Zeros(Len(input)) |-> 0]
    \o [i \in 1 .. LengthSize |-> ((8 * Len(input)) \div PlaceValue[i - 1]) % 256]

(* The rounds take every first, fifth, third and seventh word of a block; the *)
(* rotations are the RFC's, written as formulas.                              *)
WordOf(i) ==
  LET round == i \div 16
  IN  CASE round = 0 -> i % 16
        [] round = 1 -> (5 * i + 1) % 16
        [] round = 2 -> (3 * i + 5) % 16
        [] round = 3 -> (7 * i) % 16

RotationOf(i) ==
  LET round == i \div 16
      turn  == i % 4
  IN  CASE round = 0 -> 7 + 5 * turn
        [] round = 1 -> 5 + 4 * turn + ((turn * (turn - 1)) \div 2)
        [] round = 2 -> 4 + 6 * turn + (turn % 2)
        [] round = 3 -> 6 + 4 * turn + ((turn * (turn - 1)) \div 2)

MixedIn(bytes) ==
  [n \in 1 .. (Len(bytes) \div BlockSize) * 64 |->
     LET i     == (n - 1) % 64
         first == (((n - 1) \div 64) * BlockSize) + (WordOf(i) * (BlockSize \div 16))
     IN  [word     |-> SubSeq(bytes, first + 1, first + (BlockSize \div 16)),
          rotation |-> RotationOf(i)]]
===============================================================================
