------------------------------- MODULE Iterations -------------------------------
(***************************************************************************)
(* How SCRAM's second step reads the server's iteration count:             *)
(* bson_ascii_strtoll (mongoc-misc.c) for base 10, the only base it is     *)
(* called with, and the checks of its result (mongoc-scram.c).  The widths *)
(* of the integers are parameters.                                         *)
(*                                                                         *)
(* A character is its value as a digit, Letter for those above 9, or one   *)
(* of the codes below.                                                     *)
(***************************************************************************)
EXTENDS Integers, Sequences

CONSTANTS
  LongMax,          (* INT64_MAX; INT64_MIN is -LongMax - 1 *)
  IntModulus,       (* 2 to the width of an int *)
  MinIterations     (* 4096 *)

ASSUME IterationsAssumption ==
  /\ LongMax \in Nat /\ LongMax >= 10
  /\ IntModulus \in Nat \ {0}
  /\ MinIterations \in Nat \ {0}

Letter == 10
Space  == 11
Minus  == 12
Plus   == 13
Other  == 14
Nul    == 15
Wild   == 16     (* no character: the address cannot be read *)

LongMin == -LongMax - 1
Long == LongMin .. LongMax

(* The outcomes that are not a number: the end of the number was not stored,  *)
(* the count is refused, and the read through the end pointer ends the        *)
(* process.                                                                   *)
Unset == 0
Refused == -1
Ended == -2

IsDigit(c) == c \in 0 .. 9
At(text, i) == IF i \in 1 .. Len(text) THEN text[i] ELSE Nul

---------------------------------------------------------------------------
(* bson_ascii_strtoll *)

(* The operators of C round towards zero. *)
Quotient(a, b) == IF a >= 0 THEN a \div b ELSE -((-a) \div b)
Remainder(a, b) == a - b * Quotient(a, b)

(* The greatest magnitude that may be multiplied, and the greatest digit that *)
(* may follow it.                                                             *)
Cutoff(sign) == Quotient(IF sign = -1 THEN LongMin ELSE LongMax, 10)
Cutlim(sign) == IF sign = -1 THEN -Remainder(LongMin, 10) ELSE Remainder(LongMax, 10)

(* Mutant: the digit after the cutoff is not looked at. *)
OverflowsPastCutoff(sign, number, c) ==
  IF sign = -1 THEN number < Cutoff(sign) ELSE number > Cutoff(sign)

Overflows(sign, number, c) ==
  \/ IF sign = -1 THEN number < Cutoff(sign) ELSE number > Cutoff(sign)
  \/ number = Cutoff(sign) /\ c > Cutlim(sign)

Accumulate(sign, number, c) == number * 10 + sign * c

(* The digits are read from tok on, up to the end, another character or the   *)
(* digit that would overflow.                                                 *)
Scan(text, start, sign) ==
  LET scan[n \in 0 .. Len(text) + 1] ==
        IF n = 0 THEN [tok |-> start, number |-> 0, stopped |-> FALSE]
        ELSE LET s == scan[n - 1]
                 c == At(text, s.tok)
             IN  IF s.stopped \/ ~IsDigit(c) THEN [s EXCEPT !.stopped = TRUE]
                 ELSE IF Overflows(sign, s.number, c)
                 THEN [s EXCEPT !.number = IF sign = -1 THEN LongMin ELSE LongMax,
                                !.stopped = TRUE]
                 ELSE [s EXCEPT !.number = Accumulate(sign, @, c), !.tok = @ + 1]
  IN  scan[Len(text) + 1]

(* The end is stored only when there was a digit. *)
Strtoll(text) ==
  LET first == CHOOSE i \in 1 .. Len(text) + 1 :
                 /\ At(text, i) # Space
                 /\ \A j \in 1 .. i - 1 : text[j] = Space
      sign   == IF At(text, first) = Minus THEN -1 ELSE 1
      start  == IF At(text, first) \in {Minus, Plus} THEN first + 1 ELSE first
      result == Scan(text, start, sign)
  IN  IF start = first /\ ~IsDigit(At(text, first)) THEN [number |-> 0, end |-> Unset]
      ELSE [number |-> result.number,
            end |-> IF result.tok > start THEN result.tok ELSE Unset]

---------------------------------------------------------------------------
(* _mongoc_scram_step2 *)

(* The value of a long that is assigned to an int. *)
AsInt(number) ==
  LET low == number % IntModulus
  IN  IF low >= IntModulus \div 2 THEN low - IntModulus ELSE low

(* The character at the end decides whether the text was a number; an end     *)
(* that was not stored is what tmp was before: never set (SHA-256), or the    *)
(* digest input that has been freed (SHA-1).  What lies behind it, stale, is  *)
(* any character, or nothing that can be read.                                *)
EndCharacter(text, stale) ==
  LET end == Strtoll(text).end IN IF end = Unset THEN stale ELSE At(text, end)

IterationCount(text, stale) ==
  LET iterations == AsInt(Strtoll(text).number)
      end == EndCharacter(text, stale)
  IN  IF end = Wild THEN Ended
      ELSE IF end # Nul \/ iterations < 0 \/ iterations < MinIterations
      THEN Refused ELSE iterations

---------------------------------------------------------------------------
(* The reference: spaces, a sign, and digits to the end of the text *)

BeginsAt(text, i) ==
  /\ \A j \in 1 .. i - 1 :
       text[j] = Space \/ (j = i - 1 /\ text[j] \in {Minus, Plus})
  /\ i <= Len(text) /\ IsDigit(text[i])

IsNumber(text, i) == BeginsAt(text, i) /\ \A j \in i .. Len(text) : IsDigit(text[j])

Value(text, i) ==
  LET value[j \in i - 1 .. Len(text)] ==
        IF j = i - 1 THEN 0 ELSE 10 * value[j - 1] + text[j]
  IN  IF i > 1 /\ text[i - 1] = Minus THEN -value[Len(text)] ELSE value[Len(text)]

(* Some start makes the text a number whose int is large enough. *)
Acceptable(text, n) ==
  \E i \in 1 .. Len(text) :
    /\ IsNumber(text, i) /\ (i = 1 \/ ~IsDigit(text[i - 1]))
    /\ Value(text, i) \in Long
    /\ n = AsInt(Value(text, i)) /\ n >= MinIterations
===============================================================================
