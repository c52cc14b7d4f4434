------------------------------ MODULE HelpersProofs ------------------------------
(***************************************************************************)
(* Proofs about the operators of the helpers, for inputs of every length,  *)
(* for every width of an integer and every size of a block: each digit of  *)
(* a number, the padding of a message, the comparison of signatures, the   *)
(* preparation of a password, the parameters of a user name, and the       *)
(* packets messages travel in.  A loop of the code is a function that is   *)
(* chosen: that it exists, and what it is, follows from induction over a   *)
(* set of numbers.                                                         *)
(***************************************************************************)
EXTENDS Helpers, TLAPS, WellFoundedInduction, SequenceTheorems

---------------------------------------------------------------------------
(* Induction, and what a loop computes *)

(* A set of numbers that is not empty has a least element. *)
LEMMA LeastExists ==
  ASSUME NEW S, S \subseteq Nat, S # {}
  PROVE  \E m \in S : \A n \in S : m <= n
<1> DEFINE R == {p \in Nat \X Nat : p[1] < p[2]}
<1>1. IsWellFoundedOn(R, Nat)
  BY NatLessThanWellFounded, Zenon DEF OpToRel
<1>2. \A m, n \in Nat : n < m => <<n, m>> \in R
  OBVIOUS
<1> HIDE DEF R
<1>3. PICK m \in S : \A n \in S : ~ (<<n, m>> \in R)
  BY <1>1, WFMin
<1>4. \A n \in S : m <= n
  <2> SUFFICES ASSUME NEW n \in S PROVE m <= n
    OBVIOUS
  <2>1. ~ (n < m)
    BY <1>2, <1>3
  <2> QED BY <2>1
<1> QED BY <1>4

(* Induction over a set of numbers, in place of a formula. *)
LEMMA SetInduction ==
  ASSUME NEW S, 0 \in S, \A n \in Nat : n \in S => n + 1 \in S
  PROVE  \A n \in Nat : n \in S
<1> SUFFICES ASSUME Nat \ S # {} PROVE FALSE
  OBVIOUS
<1>1. PICK m \in Nat \ S : \A n \in Nat \ S : m <= n
  <2> DEFINE T == Nat \ S
  <2>1. T \subseteq Nat /\ T # {}
    OBVIOUS
  <2> HIDE DEF T
  <2>2. \E m \in T : \A n \in T : m <= n
    BY <2>1, LeastExists
  <2> QED
    BY <2>2 DEF T
<1>2. m # 0 /\ m - 1 \in Nat /\ (m - 1) + 1 = m
  BY <1>1
<1>3. m - 1 \in S
  BY <1>1, <1>2
<1> QED
  BY <1>1, <1>2, <1>3

(* f starts with b at m, and each value up to last follows from the one      *)
(* before by G.                                                              *)
IsLoop(f, b, m, last, G) ==
  f[m] = b /\ \A i \in m + 1 .. last : f[i] = G[<<f[i - 1], i>>]

(* What a loop computes exists: a function whose first value is given and    *)
(* whose others each follow from the one before.                             *)
LEMMA LoopExists ==
  ASSUME NEW V, NEW b \in V, NEW m \in Nat, NEW last \in Int, last >= m,
         NEW G \in [V \X (m + 1 .. last) -> V]
  PROVE  \E f \in [m .. last -> V] : IsLoop(f, b, m, last, G)
<1> DEFINE Loop(f, n) == /\ f[m] = b
                         /\ \A i \in m + 1 .. n : f[i] = G[<<f[i - 1], i>>]
           S == {k \in Nat : m + k <= last => \E f \in [m .. m + k -> V] : Loop(f, m + k)}
<1>1. 0 \in S
  <2>1. [i \in m .. m + 0 |-> b] \in [m .. m + 0 -> V] /\ Loop([i \in m .. m + 0 |-> b], m + 0)
    OBVIOUS
  <2> QED
    BY <2>1
<1>2. ASSUME NEW k \in Nat, k \in S PROVE k + 1 \in S
  <2> SUFFICES ASSUME m + (k + 1) <= last
               PROVE  \E f \in [m .. m + (k + 1) -> V] : Loop(f, m + (k + 1))
    OBVIOUS
  <2>1. PICK f \in [m .. m + k -> V] : Loop(f, m + k)
    BY <1>2
  <2>2. <<f[m + k], m + k + 1>> \in V \X (m + 1 .. last)
    OBVIOUS
  <2> DEFINE v == G[<<f[m + k], m + k + 1>>]
  <2>3. v \in V
    BY <2>2
  <2> HIDE DEF v
  <2> DEFINE g == [i \in m .. m + (k + 1) |-> IF i = m + k + 1 THEN v ELSE f[i]]
  <2>4. g \in [m .. m + (k + 1) -> V]
    BY <2>3
  <2>5. g[m] = b /\ g[m + k + 1] = v /\ \A i \in m .. m + k : g[i] = f[i]
    BY <2>1
  <2>6. ASSUME NEW i \in m + 1 .. m + (k + 1) PROVE g[i] = G[<<g[i - 1], i>>]
    <3>1. i - 1 \in m .. m + k /\ g[i - 1] = f[i - 1]
      BY <2>5
    <3>2. CASE i = m + k + 1
      <4>1. i - 1 = m + k
        BY <3>2
      <4> QED
        BY <2>5, <3>1, <3>2, <4>1 DEF v
    <3>3. CASE i \in m + 1 .. m + k
      BY <2>1, <2>5, <3>1, <3>3
    <3> QED
      BY <3>2, <3>3
  <2> HIDE DEF g
  <2> QED
    BY <2>4, <2>5, <2>6
<1> HIDE DEF S
<1>3. \A k \in Nat : k \in S
  BY <1>1, <1>2, SetInduction
<1>4. last - m \in Nat /\ m + (last - m) = last
  OBVIOUS
<1>5. last - m \in S
  BY <1>3, <1>4
<1>6. PICK f \in [m .. last -> V] : Loop(f, last)
  BY <1>4, <1>5 DEF S
<1> QED
  BY <1>4, <1>6 DEF IsLoop

---------------------------------------------------------------------------
(* bson_ascii_strtoll, and step 2's check of what it read *)

(* What is cut off from the ends of a long. *)
LEMMA CutoffOfLong ==
  /\ LongMax = 10 * Cutoff(1) + Cutlim(1) /\ Cutlim(1) \in 0 .. 9
  /\ -LongMin = -10 * Cutoff(-1) + Cutlim(-1) /\ Cutlim(-1) \in 0 .. 9
  /\ Cutoff(1) \in Nat /\ Cutoff(-1) \in Int /\ -Cutoff(-1) \in Nat
<1> DEFINE p == LongMax \div 10
           q == (LongMax + 1) \div 10
<1>1. p \in Nat /\ q \in Nat /\ LongMax \in Nat
  BY IterationsAssumption
<1>2. LongMax - 10 * p \in 0 .. 9 /\ (LongMax + 1) - 10 * q \in 0 .. 9
  BY IterationsAssumption
<1>3. Cutoff(1) = p /\ Cutoff(-1) = -q
  BY IterationsAssumption DEF Cutoff, Quotient, LongMin
<1>4. Cutlim(1) = LongMax - 10 * p /\ Cutlim(-1) = (LongMax + 1) - 10 * q
  BY IterationsAssumption DEF Cutlim, Remainder, Quotient, LongMin
<1> HIDE DEF p, q
<1> QED
  BY <1>1, <1>2, <1>3, <1>4 DEF LongMin

(* bson_ascii_strtoll never overflows, and never refuses a number it could   *)
(* hold: a digit is taken exactly when the number with it is a long.         *)
THEOREM StrtollStaysInLong ==
  ASSUME NEW sign \in {-1, 1}, NEW number \in Long, sign * number >= 0, NEW c \in 0 .. 9
  PROVE  Overflows(sign, number, c) <=> Accumulate(sign, number, c) \notin Long
<1>1. CASE sign = 1
  BY <1>1, CutoffOfLong, IterationsAssumption DEF Overflows, Accumulate, Long, LongMin
<1>2. CASE sign = -1
  <2> DEFINE m == -number
             cutoff == -Cutoff(-1)
  <2>1. number = -m /\ m \in Nat
    BY <1>2 DEF Long, LongMin
  <2>2. cutoff \in Nat /\ Cutlim(-1) \in 0 .. 9 /\ LongMax + 1 = 10 * cutoff + Cutlim(-1)
    BY CutoffOfLong, IterationsAssumption DEF LongMin
  <2>3. Overflows(sign, number, c) <=> m > cutoff \/ (m = cutoff /\ c > Cutlim(-1))
    <3>1. Cutoff(-1) = -cutoff /\ Cutoff(-1) \in Int
      BY CutoffOfLong
    <3> HIDE DEF cutoff, m
    <3>2. number < Cutoff(-1) <=> m > cutoff
      BY <2>1, <2>2, <3>1
    <3>3. number = Cutoff(-1) <=> m = cutoff
      BY <2>1, <2>2, <3>1
    <3> QED
      BY <1>2, <3>2, <3>3 DEF Overflows
  <2>4. Accumulate(sign, number, c) = -(10 * m + c)
    BY <1>2, <2>1 DEF Accumulate
  <2> HIDE DEF m, cutoff
  <2>5. m > cutoff \/ (m = cutoff /\ c > Cutlim(-1)) <=> 10 * m + c > LongMax + 1
    BY <2>1, <2>2
  <2>6. -(10 * m + c) \in Long <=> 10 * m + c <= LongMax + 1
    BY <2>1, IterationsAssumption DEF Long, LongMin
  <2> QED
    BY <2>1, <2>3, <2>4, <2>5, <2>6, IterationsAssumption
<1> QED
  BY <1>1, <1>2

(* A number of that sign and magnitude.                                      *)
Signed(sign, m) == IF sign = -1 THEN -m ELSE m

(* The magnitude of the digits from i on, after each of them.                *)
Magnitudes(text, i) ==
  LET value[j \in i - 1 .. Len(text)] ==
        IF j = i - 1 THEN 0 ELSE 10 * value[j - 1] + text[j]
  IN  value

IsMagnitude(text, i, v) ==
  /\ v \in [i - 1 .. Len(text) -> Nat]
  /\ v[i - 1] = 0
  /\ \A j \in i .. Len(text) : v[j] = 10 * v[j - 1] + text[j]

(* It is what the reference computes.                                        *)
LEMMA MagnitudesAre ==
  ASSUME NEW text \in Seq(0 .. Nul - 1), NEW i \in 1 .. Len(text) + 1
  PROVE  IsMagnitude(text, i, Magnitudes(text, i))
<1> DEFINE len == Len(text)
           m == i - 1
           G == [p \in Nat \X (m + 1 .. len) |-> 10 * p[1] + text[p[2]]]
           v == CHOOSE v : v = [j \in i - 1 .. Len(text) |->
                                  IF j = i - 1 THEN 0 ELSE 10 * v[j - 1] + text[j]]
<1>1. len \in Nat /\ m \in Nat /\ len >= m /\ i = m + 1 /\ \A j \in 1 .. len : text[j] \in Nat
  BY DEF Nul
<1>2. G \in [Nat \X (m + 1 .. len) -> Nat]
  BY <1>1
<1>3. \E f \in [m .. len -> Nat] : IsLoop(f, 0, m, len, G)
  <2>1. 0 \in Nat /\ len \in Int
    BY <1>1
  <2> HIDE DEF G, m, len, v
  <2> QED
    BY <1>1, <1>2, <2>1, LoopExists
<1>4. PICK f \in [m .. len -> Nat] : IsLoop(f, 0, m, len, G)
  BY <1>3
<1>5. ASSUME NEW j \in i .. len PROVE f[j] = 10 * f[j - 1] + text[j]
  <2>1. f[j - 1] \in Nat /\ j \in m + 1 .. len
    BY <1>1
  <2>2. f[j] = G[<<f[j - 1], j>>]
    BY <1>4, <2>1 DEF IsLoop
  <2> QED
    BY <2>1, <2>2
<1>6. f = [j \in i - 1 .. Len(text) |-> IF j = i - 1 THEN 0 ELSE 10 * f[j - 1] + text[j]]
  <2>1. f[i - 1] = 0
    BY <1>4 DEF IsLoop
  <2>2. ASSUME NEW j \in i - 1 .. len
        PROVE  f[j] = IF j = i - 1 THEN 0 ELSE 10 * f[j - 1] + text[j]
    BY <1>1, <1>5, <2>1
  <2> QED
    BY <2>2
<1>7. v = [j \in i - 1 .. Len(text) |-> IF j = i - 1 THEN 0 ELSE 10 * v[j - 1] + text[j]]
  BY <1>6
<1>8. Magnitudes(text, i) = v
  BY DEF Magnitudes
<1> HIDE DEF v
<1> DEFINE T == {k \in Nat : m + k <= len => v[m + k] \in Nat}
<1>9. 0 \in T
  BY <1>1, <1>7
<1>10. ASSUME NEW k \in Nat, k \in T PROVE k + 1 \in T
  <2> SUFFICES ASSUME m + (k + 1) <= len PROVE v[m + (k + 1)] \in Nat
    OBVIOUS
  <2>1. v[m + k] \in Nat
    BY <1>1, <1>10
  <2>2. m + (k + 1) \in i - 1 .. Len(text) /\ m + (k + 1) # i - 1
        /\ (m + (k + 1)) - 1 = m + k /\ text[m + (k + 1)] \in Nat
    BY <1>1
  <2>3. v[m + (k + 1)] = 10 * v[m + k] + text[m + (k + 1)]
    BY <1>7, <2>2
  <2> QED
    BY <2>1, <2>2, <2>3
<1> HIDE DEF T
<1>11. \A k \in Nat : k \in T
  BY <1>9, <1>10, SetInduction
<1>12. ASSUME NEW j \in i - 1 .. len PROVE v[j] \in Nat
  <2>1. PICK k \in Nat : m + k = j
    <3>1. j - m \in Nat /\ m + (j - m) = j
      BY <1>1
    <3> QED
      BY <3>1
  <2>2. m + k <= len
    BY <2>1
  <2>3. m + k <= len => v[m + k] \in Nat
    BY <1>11 DEF T
  <2> QED
    BY <2>1, <2>2, <2>3
<1>13. v \in [i - 1 .. Len(text) -> Nat]
  BY <1>7, <1>12
<1>14. v[i - 1] = 0 /\ \A j \in i .. Len(text) : v[j] = 10 * v[j - 1] + text[j]
  BY <1>1, <1>7
<1> QED
  BY <1>8, <1>13, <1>14 DEF IsMagnitude

(* More digits never make a magnitude smaller.                               *)
LEMMA MagnitudesGrow ==
  ASSUME NEW text \in Seq(0 .. Nul - 1), NEW i \in 1 .. Len(text) + 1,
         NEW v, IsMagnitude(text, i, v), NEW j \in i .. Len(text)
  PROVE  v[j] <= v[Len(text)]
<1> DEFINE T == {k \in Nat : j + k <= Len(text) => v[j] <= v[j + k]}
<1>1. \A n \in i - 1 .. Len(text) : v[n] \in Nat
  BY DEF IsMagnitude
<1>2. 0 \in T
  BY <1>1
<1>3. ASSUME NEW k \in Nat, k \in T PROVE k + 1 \in T
  <2> SUFFICES ASSUME j + (k + 1) <= Len(text) PROVE v[j] <= v[j + (k + 1)]
    OBVIOUS
  <2>1. v[j] <= v[j + k] /\ v[j] \in Nat /\ v[j + k] \in Nat
    BY <1>1, <1>3
  <2>2. j + (k + 1) \in i .. Len(text) /\ (j + (k + 1)) - 1 = j + k /\ text[j + (k + 1)] \in Nat
    BY DEF Nul
  <2>3. v[j + (k + 1)] = 10 * v[j + k] + text[j + (k + 1)]
    BY <2>2 DEF IsMagnitude
  <2> QED
    BY <2>1, <2>2, <2>3
<1> HIDE DEF T
<1>4. \A k \in Nat : k \in T
  BY <1>2, <1>3, SetInduction
<1>5. Len(text) - j \in Nat /\ j + (Len(text) - j) = Len(text)
  OBVIOUS
<1> QED
  BY <1>4, <1>5 DEF T

(* One turn of the loop over the digits.                                     *)
ScanStep(text, sign, s) ==
  LET c == At(text, s.tok)
  IN  IF s.stopped \/ ~IsDigit(c) THEN [s EXCEPT !.stopped = TRUE]
      ELSE IF Overflows(sign, s.number, c)
      THEN [s EXCEPT !.number = IF sign = -1 THEN LongMin ELSE LongMax,
                     !.stopped = TRUE]
      ELSE [s EXCEPT !.number = Accumulate(sign, @, c), !.tok = @ + 1]

ScanState == [tok : Nat, number : Int, stopped : BOOLEAN]

IsScan(text, start, sign, f) ==
  /\ f[0] = [tok |-> start, number |-> 0, stopped |-> FALSE]
  /\ \A n \in 1 .. Len(text) + 1 : f[n] = ScanStep(text, sign, f[n - 1])

(* A turn leaves a state of the loop.                                        *)
LEMMA ScanStepType ==
  ASSUME NEW text, NEW sign \in {-1, 1}, NEW s \in ScanState
  PROVE  ScanStep(text, sign, s) \in ScanState
<1>1. LongMin \in Int /\ LongMax \in Int
  BY IterationsAssumption DEF LongMin
<1> DEFINE c == At(text, s.tok)
<1>2. CASE IsDigit(c)
  <2>1. Accumulate(sign, s.number, c) \in Int
    BY <1>2 DEF Accumulate, IsDigit, ScanState
  <2> HIDE DEF c
  <2>2. ScanStep(text, sign, s) = IF s.stopped \/ ~IsDigit(c) THEN [s EXCEPT !.stopped = TRUE]
      ELSE IF Overflows(sign, s.number, c)
      THEN [s EXCEPT !.number = IF sign = -1 THEN LongMin ELSE LongMax,
                     !.stopped = TRUE]
      ELSE [s EXCEPT !.number = Accumulate(sign, @, c), !.tok = @ + 1]
    BY DEF ScanStep, c
  <2> DEFINE limit == IF sign = -1 THEN LongMin ELSE LongMax
             a == Accumulate(sign, s.number, c)
  <2>3. limit \in Int /\ a \in Int /\ s.tok \in Nat /\ s.number \in Int
    BY <1>1, <2>1 DEF ScanState
  <2> HIDE DEF limit, a
  <2>4. \/ ScanStep(text, sign, s) = [s EXCEPT !.stopped = TRUE]
        \/ ScanStep(text, sign, s) = [s EXCEPT !.number = limit, !.stopped = TRUE]
        \/ ScanStep(text, sign, s) = [s EXCEPT !.number = a, !.tok = s.tok + 1]
    <3>1. [s EXCEPT !.number = Accumulate(sign, @, c), !.tok = @ + 1]
            = [s EXCEPT !.number = a, !.tok = s.tok + 1]
      BY DEF a, ScanState
    <3> QED
      BY <2>2, <3>1 DEF limit
  <2>5. [s EXCEPT !.stopped = TRUE] \in ScanState
    BY DEF ScanState
  <2>6. [s EXCEPT !.number = limit, !.stopped = TRUE] \in ScanState
    BY <2>3 DEF ScanState
  <2>7. [s EXCEPT !.number = a, !.tok = s.tok + 1] \in ScanState
    <3> DEFINE k == s.tok + 1
    <3>1. k \in Nat
      BY <2>3
    <3> HIDE DEF k
    <3>2. [s EXCEPT !.number = a, !.tok = k] \in ScanState
      BY <2>3, <3>1 DEF ScanState
    <3> QED
      BY <3>2 DEF k
  <2> QED
    BY <2>4, <2>5, <2>6, <2>7, Zenon
<1>3. CASE ~IsDigit(c)
  <2>1. ScanStep(text, sign, s) = [s EXCEPT !.stopped = TRUE]
    BY <1>3 DEF ScanStep
  <2> QED
    BY <2>1 DEF ScanState
<1> QED
  BY <1>2, <1>3

(* The loop is one of turns.                                                 *)
LEMMA ScanExists ==
  ASSUME NEW text \in Seq(0 .. Nul - 1), NEW start \in Nat, NEW sign \in {-1, 1}
  PROVE  \E f : IsScan(text, start, sign, f) /\ Scan(text, start, sign) = f[Len(text) + 1]
<1> DEFINE last == Len(text) + 1
           b == [tok |-> start, number |-> 0, stopped |-> FALSE]
           G == [p \in ScanState \X (0 + 1 .. last) |-> ScanStep(text, sign, p[1])]
           f == CHOOSE f : f =
             [n \in 0 .. Len(text) + 1 |->
               IF n = 0 THEN [tok |-> start, number |-> 0, stopped |-> FALSE]
               ELSE LET s == f[n - 1]
                        c == At(text, s.tok)
                    IN  IF s.stopped \/ ~IsDigit(c) THEN [s EXCEPT !.stopped = TRUE]
                        ELSE IF Overflows(sign, s.number, c)
                        THEN [s EXCEPT !.number = IF sign = -1 THEN LongMin ELSE LongMax,
                                       !.stopped = TRUE]
                        ELSE [s EXCEPT !.number = Accumulate(sign, @, c), !.tok = @ + 1]]
<1>1. 0 \in Nat /\ last \in Int /\ last >= 0
  OBVIOUS
<1>2. b \in ScanState
  BY DEF ScanState
<1>3. G \in [ScanState \X (0 + 1 .. last) -> ScanState]
  BY ScanStepType, Zenon
<1>4. \E g \in [0 .. last -> ScanState] : IsLoop(g, b, 0, last, G)
  <2> HIDE DEF last, b, G, f
  <2> QED
    BY <1>1, <1>2, <1>3, LoopExists
<1>5. PICK g \in [0 .. last -> ScanState] : IsLoop(g, b, 0, last, G)
  BY <1>4
<1>6. ASSUME NEW n \in 1 .. last PROVE g[n] = ScanStep(text, sign, g[n - 1])
  <2>1. g[n - 1] \in ScanState /\ n \in 0 + 1 .. last
    OBVIOUS
  <2>2. g[n] = G[<<g[n - 1], n>>]
    BY <1>5, <2>1 DEF IsLoop
  <2> QED
    BY <2>1, <2>2
<1>7. g = [n \in 0 .. Len(text) + 1 |->
             IF n = 0 THEN [tok |-> start, number |-> 0, stopped |-> FALSE]
             ELSE ScanStep(text, sign, g[n - 1])]
  <2>1. g[0] = b
    BY <1>5 DEF IsLoop
  <2>2. ASSUME NEW n \in 0 .. last
        PROVE  g[n] = IF n = 0 THEN b ELSE ScanStep(text, sign, g[n - 1])
    <3>1. n # 0 => n \in 1 .. last
      OBVIOUS
    <3> QED
      BY <1>6, <2>1, <3>1
  <2> QED
    BY <2>2
<1>8. \E h : h =
             [n \in 0 .. Len(text) + 1 |->
               IF n = 0 THEN [tok |-> start, number |-> 0, stopped |-> FALSE]
               ELSE LET s == h[n - 1]
                        c == At(text, s.tok)
                    IN  IF s.stopped \/ ~IsDigit(c) THEN [s EXCEPT !.stopped = TRUE]
                        ELSE IF Overflows(sign, s.number, c)
                        THEN [s EXCEPT !.number = IF sign = -1 THEN LongMin ELSE LongMax,
                                       !.stopped = TRUE]
                        ELSE [s EXCEPT !.number = Accumulate(sign, @, c), !.tok = @ + 1]]
  BY <1>7, Zenon DEF ScanStep
<1>9. f = [n \in 0 .. Len(text) + 1 |->
             IF n = 0 THEN [tok |-> start, number |-> 0, stopped |-> FALSE]
             ELSE ScanStep(text, sign, f[n - 1])]
  BY <1>8, Zenon DEF ScanStep
<1>10. Scan(text, start, sign) = f[Len(text) + 1]
  BY DEF Scan
<1> HIDE DEF f
<1>11. IsScan(text, start, sign, f)
  <2>1. ASSUME NEW n \in 1 .. Len(text) + 1 PROVE f[n] = ScanStep(text, sign, f[n - 1])
    <3>1. n \in 0 .. Len(text) + 1 /\ n # 0
      OBVIOUS
    <3> QED
      BY <1>9, <3>1
  <2>2. f[0] = b
    <3>1. 0 \in 0 .. Len(text) + 1
      OBVIOUS
    <3> QED
      BY <1>9, <3>1
  <2> QED
    BY <2>1, <2>2 DEF IsScan
<1> QED
  BY <1>10, <1>11

(* Where a scan is, and what it has read.                                    *)
InScan(text, start, sign, v, s) ==
  /\ s \in ScanState
  /\ s.tok \in start .. Len(text) + 1
  /\ \A j \in start .. s.tok - 1 : IsDigit(text[j])
  /\ \/ /\ s.number = Signed(sign, v[s.tok - 1]) /\ s.number \in Long
        /\ s.stopped => ~IsDigit(At(text, s.tok))
     \/ /\ s.stopped /\ s.tok <= Len(text) /\ IsDigit(text[s.tok])
        /\ Signed(sign, v[s.tok]) \notin Long

(* A turn goes to the next digit, or stops.                                  *)
LEMMA ScanTurn ==
  ASSUME NEW text \in Seq(0 .. Nul - 1), NEW start \in 1 .. Len(text) + 1,
         NEW sign \in {-1, 1}, NEW v, IsMagnitude(text, start, v),
         NEW s, InScan(text, start, sign, v, s)
  PROVE  /\ InScan(text, start, sign, v, ScanStep(text, sign, s))
         /\ s.stopped => ScanStep(text, sign, s).stopped
         /\ ~s.stopped => \/ ScanStep(text, sign, s).stopped
                          \/ ScanStep(text, sign, s).tok = s.tok + 1
<1> DEFINE c == At(text, s.tok)
           t == ScanStep(text, sign, s)
<1>1. s \in ScanState /\ t \in ScanState /\ s.tok \in start .. Len(text) + 1
  BY ScanStepType DEF InScan
<1>2. CASE s.stopped \/ ~IsDigit(c)
  <2>1. t = [s EXCEPT !.stopped = TRUE]
    BY <1>2 DEF ScanStep
  <2>2. t.tok = s.tok /\ t.number = s.number /\ t.stopped
    BY <1>1, <2>1 DEF ScanState
  <2> HIDE DEF t
  <2>3. IsDigit(c) => s.tok <= Len(text) /\ c = text[s.tok]
    BY <1>1 DEF c, At, IsDigit, Nul
  <2>4. \/ s.number = Signed(sign, v[s.tok - 1]) /\ s.number \in Long /\ ~IsDigit(c)
        \/ /\ s.tok <= Len(text) /\ IsDigit(text[s.tok])
           /\ Signed(sign, v[s.tok]) \notin Long
    <3>1. CASE ~IsDigit(c)
      <4>1. s.tok <= Len(text) => c = text[s.tok]
        BY <1>1 DEF c, At
      <4> QED
        BY <3>1, <4>1 DEF InScan
    <3>2. CASE s.stopped /\ IsDigit(c)
      BY <3>2 DEF InScan
    <3> QED
      BY <1>2, <3>1, <3>2
  <2>5. \A j \in start .. s.tok - 1 : IsDigit(text[j])
    BY DEF InScan
  <2>6. InScan(text, start, sign, v, t)
    BY <1>1, <2>2, <2>4, <2>5 DEF InScan, c
  <2> QED
    BY <2>2, <2>6 DEF t
<1>3. CASE ~s.stopped /\ IsDigit(c)
  <2>1. s.tok \in 1 .. Len(text) /\ c = text[s.tok] /\ c \in 0 .. 9
    BY <1>1, <1>3 DEF At, IsDigit, Nul
  <2>2. s.number = Signed(sign, v[s.tok - 1]) /\ s.number \in Long
    BY <1>3 DEF InScan
  <2>3. v[s.tok - 1] \in Nat /\ v[s.tok] = 10 * v[s.tok - 1] + c
    <3>1. s.tok \in start .. Len(text) /\ s.tok - 1 \in start - 1 .. Len(text)
      BY <1>1, <2>1
    <3> QED
      BY <2>1, <3>1 DEF IsMagnitude
  <2> DEFINE m == v[s.tok - 1]
  <2>4. sign * s.number >= 0 /\ Accumulate(sign, s.number, c) = Signed(sign, v[s.tok])
    <3> HIDE DEF m, c
    <3>1. CASE sign = 1
      <4>1. s.number = m
        BY <2>2, <3>1 DEF Signed, m
      <4> QED
        BY <2>1, <2>3, <3>1, <4>1 DEF Signed, Accumulate, m
    <3>2. CASE sign = -1
      <4>1. s.number = -m
        BY <2>2, <3>2 DEF Signed, m
      <4> QED
        <5> DEFINE w == v[s.tok]
                   x == s.number
        <5>1. w = 10 * m + c /\ m \in Nat
          BY <2>3 DEF m
        <5>2. x = -m
          BY <4>1
        <5> HIDE DEF w, x
        <5>3. sign * x >= 0 /\ x * 10 + sign * c = -w
          BY <2>1, <3>2, <5>1, <5>2
        <5>4. sign * x >= 0 /\ Accumulate(sign, x, c) = Signed(sign, w)
          BY <3>2, <5>3 DEF Accumulate, Signed
        <5> QED
          BY <5>4 DEF w, x
    <3> QED
      BY <3>1, <3>2
  <2>5. Overflows(sign, s.number, c) <=> Signed(sign, v[s.tok]) \notin Long
    <3> HIDE DEF c
    <3> QED
      BY <2>1, <2>2, <2>4, StrtollStaysInLong
  <2>6. CASE Overflows(sign, s.number, c)
    <3>1. t = [s EXCEPT !.number = IF sign = -1 THEN LongMin ELSE LongMax,
                        !.stopped = TRUE]
      BY <1>3, <2>6 DEF ScanStep
    <3>2. t.tok = s.tok /\ t.stopped
      BY <1>1, <3>1 DEF ScanState
    <3>3. IsDigit(text[t.tok]) /\ t.tok <= Len(text) /\ Signed(sign, v[t.tok]) \notin Long
      BY <1>3, <2>1, <2>5, <2>6, <3>2
    <3>4. t.tok \in start .. Len(text) + 1 /\ \A j \in start .. t.tok - 1 : IsDigit(text[j])
      BY <1>1, <3>2 DEF InScan
    <3> HIDE DEF t
    <3>5. InScan(text, start, sign, v, t)
      BY <1>1, <3>2, <3>3, <3>4, Zenon DEF InScan
    <3> QED
      BY <1>3, <3>2, <3>5 DEF t
  <2>7. CASE ~Overflows(sign, s.number, c)
    <3>1. t = [s EXCEPT !.number = Accumulate(sign, @, c), !.tok = @ + 1]
      BY <1>3, <2>7 DEF ScanStep
    <3> HIDE DEF c
    <3>2. t.tok = s.tok + 1 /\ t.number = Signed(sign, v[s.tok]) /\ ~t.stopped
      BY <1>1, <1>3, <2>4, <3>1 DEF ScanState
    <3>3. t.tok - 1 = s.tok /\ t.tok \in start .. Len(text) + 1
      BY <1>1, <2>1, <3>2
    <3>4. \A j \in start .. t.tok - 1 : IsDigit(text[j])
      <4>1. \A j \in start .. s.tok - 1 : IsDigit(text[j])
        BY DEF InScan
      <4>2. IsDigit(text[s.tok])
        BY <1>3, <2>1
      <4>3. \A j \in start .. s.tok : j = s.tok \/ j \in start .. s.tok - 1
        BY <1>1
      <4> QED
        BY <3>3, <4>1, <4>2, <4>3
    <3>5. t.number \in Long
      BY <2>5, <2>7, <3>2
    <3> HIDE DEF t
    <3>6. t.number = Signed(sign, v[t.tok - 1])
      BY <3>2, <3>3
    <3>7. InScan(text, start, sign, v, t)
      BY <1>1, <3>2, <3>3, <3>4, <3>5, <3>6, Zenon DEF InScan
    <3> QED
      BY <1>3, <3>2, <3>7 DEF t
  <2> QED
    BY <2>6, <2>7
<1> QED
  BY <1>2, <1>3

(* The loop reads all digits up to where it stops, and it stops.             *)
LEMMA ScanResult ==
  ASSUME NEW text \in Seq(0 .. Nul - 1), NEW start \in 1 .. Len(text) + 1,
         NEW sign \in {-1, 1}, NEW v, IsMagnitude(text, start, v)
  PROVE  /\ InScan(text, start, sign, v, Scan(text, start, sign))
         /\ Scan(text, start, sign).stopped
<1> DEFINE Holds(s, n) == /\ InScan(text, start, sign, v, s)
                          /\ s.stopped \/ s.tok = start + n
<1>1. PICK f : IsScan(text, start, sign, f) /\ Scan(text, start, sign) = f[Len(text) + 1]
  <2>1. start \in Nat
    OBVIOUS
  <2> QED
    BY <2>1, ScanExists
<1> DEFINE T == {n \in Nat : n <= Len(text) + 1 => Holds(f[n], n)}
<1>2. 0 \in T
  <2>1. f[0] = [tok |-> start, number |-> 0, stopped |-> FALSE]
    BY <1>1 DEF IsScan
  <2>2. f[0].tok = start /\ f[0].number = 0 /\ ~f[0].stopped /\ f[0] \in ScanState
    BY <2>1 DEF ScanState
  <2>3. 0 = Signed(sign, v[start - 1]) /\ 0 \in Long
    <3> DEFINE m == v[start - 1]
    <3>1. m \in Int /\ m <= 0 /\ m >= 0 /\ m = 0
      BY DEF IsMagnitude
    <3> HIDE DEF m
    <3>2. 0 = -m
      <4>1. \A k \in Int : k <= 0 /\ k >= 0 => 0 = -k
        OBVIOUS
      <4> QED
        BY <3>1, <4>1
    <3>3. 0 = Signed(sign, m)
      BY <3>1, <3>2, Zenon DEF Signed
    <3>4. 0 \in Long
      BY IterationsAssumption DEF Long, LongMin
    <3> QED
      BY <3>3, <3>4 DEF m
  <2> QED
    BY <2>2, <2>3 DEF InScan
<1>3. ASSUME NEW n \in Nat, n \in T PROVE n + 1 \in T
  <2> SUFFICES ASSUME n + 1 <= Len(text) + 1 PROVE Holds(f[n + 1], n + 1)
    OBVIOUS
  <2>1. Holds(f[n], n)
    BY <1>3
  <2>2. f[n + 1] = ScanStep(text, sign, f[n])
    <3>1. n + 1 \in 1 .. Len(text) + 1 /\ (n + 1) - 1 = n
      OBVIOUS
    <3> QED
      BY <1>1, <3>1 DEF IsScan
  <2> DEFINE s == f[n]
             t == ScanStep(text, sign, s)
  <2>3. InScan(text, start, sign, v, s)
    BY <2>1
  <2> HIDE DEF s
  <2>4. /\ InScan(text, start, sign, v, t)
        /\ s.stopped => t.stopped
        /\ ~s.stopped => t.stopped \/ t.tok = s.tok + 1
    BY <2>3, ScanTurn
  <2>5. s.stopped \/ s.tok = start + n
    BY <2>1 DEF s
  <2> HIDE DEF t
  <2>6. Holds(t, n + 1)
    BY <2>4, <2>5
  <2> QED
    BY <2>2, <2>6 DEF s, t
<1> HIDE DEF T
<1>4. \A n \in Nat : n \in T
  BY <1>2, <1>3, SetInduction
<1>5. Holds(f[Len(text) + 1], Len(text) + 1)
  BY <1>4 DEF T
<1> DEFINE r == f[Len(text) + 1]
<1> HIDE DEF r
<1>6. InScan(text, start, sign, v, r) /\ (r.stopped \/ r.tok = start + (Len(text) + 1))
  BY <1>5 DEF r
<1>7. r.tok <= Len(text) + 1
  BY <1>6 DEF InScan
<1>8. r.stopped
  BY <1>6, <1>7
<1> QED
  BY <1>1, <1>6, <1>8 DEF r

(* Where strtoll looks first: behind the spaces.                             *)
IsFirst(text, first) ==
  /\ first \in 1 .. Len(text) + 1
  /\ At(text, first) # Space
  /\ \A j \in 1 .. first - 1 : text[j] = Space

(* There is such a place: the end of the text is no space.                   *)
LEMMA FirstExists ==
  ASSUME NEW text \in Seq(0 .. Nul - 1)
  PROVE  \E first : IsFirst(text, first)
<1> DEFINE S == {i \in 1 .. Len(text) + 1 : At(text, i) # Space}
<1>1. Len(text) + 1 \in S
  BY DEF At, Nul, Space
<1>2. S \subseteq Nat /\ S # {}
  BY <1>1
<1>3. PICK first \in S : \A i \in S : first <= i
  <2> HIDE DEF S
  <2> QED
    BY <1>2, LeastExists
<1>4. ASSUME NEW j \in 1 .. first - 1 PROVE text[j] = Space
  <2>1. j \in 1 .. Len(text) /\ j < first
    BY <1>3
  <2>2. j \notin S
    BY <1>2, <1>3, <2>1
  <2> QED
    BY <2>1, <2>2 DEF At
<1>5. IsFirst(text, first)
  BY <1>3, <1>4 DEF IsFirst
<1> QED
  BY <1>5

(* The sign there, and where the digits begin.                               *)
SignAt(text, first) == IF At(text, first) = Minus THEN -1 ELSE 1
StartAt(text, first) == IF At(text, first) \in {Minus, Plus} THEN first + 1 ELSE first

(* When a number begins in the text, strtoll starts at its first digit.            *)
LEMMA NumberStarts ==
  ASSUME NEW text \in Seq(0 .. Nul - 1), NEW first, IsFirst(text, first),
         NEW i \in 1 .. Len(text), BeginsAt(text, i)
  PROVE  /\ StartAt(text, first) = i /\ IsDigit(text[i]) /\ IsDigit(At(text, i))
         /\ SignAt(text, first) = -1 <=> (i > 1 /\ text[i - 1] = Minus)
<1>1. /\ \A j \in 1 .. i - 1 :
           text[j] = Space \/ (j = i - 1 /\ text[j] \in {Minus, Plus})
      /\ IsDigit(text[i])
  BY DEF BeginsAt
<1>2. IsDigit(text[i]) /\ At(text, i) = text[i]
  BY <1>1 DEF At
<1>3. /\ first \in 1 .. Len(text) + 1 /\ At(text, first) # Space
      /\ \A j \in 1 .. first - 1 : text[j] = Space
  BY DEF IsFirst
<1>4. first <= i
  <2> SUFFICES ASSUME first > i PROVE FALSE
    BY <1>3
  <2>1. text[i] = Space
    BY <1>3
  <2> QED
    BY <1>2, <2>1 DEF IsDigit, Space
<1>5. CASE first = i
  <2>1. text[i] \notin {Minus, Plus, Space}
    BY <1>2 DEF IsDigit, Minus, Plus, Space
  <2>2. i > 1 => text[i - 1] # Minus
    <3> SUFFICES ASSUME i > 1 PROVE text[i - 1] # Minus
      OBVIOUS
    <3>1. i - 1 \in 1 .. first - 1
      BY <1>5
    <3>2. text[i - 1] = Space
      BY <1>3, <3>1
    <3> QED
      BY <3>2 DEF Space, Minus
  <2>3. StartAt(text, first) = i /\ SignAt(text, first) # -1
    BY <1>2, <1>5, <2>1 DEF StartAt, SignAt
  <2> QED
    BY <1>2, <2>2, <2>3
<1>6. CASE first < i
  <2>1. first \in 1 .. i - 1 /\ At(text, first) = text[first]
    BY <1>3, <1>6 DEF At
  <2>2. first = i - 1 /\ text[first] \in {Minus, Plus}
    BY <1>1, <1>3, <2>1
  <2>3. StartAt(text, first) = first + 1 /\ first + 1 = i /\ i > 1
    BY <2>1, <2>2 DEF StartAt
  <2>4. SignAt(text, first) = -1 <=> text[first] = Minus
    BY <2>1, <2>2 DEF SignAt
  <2> QED
    BY <1>2, <2>2, <2>3, <2>4
<1> QED
  BY <1>3, <1>4, <1>5, <1>6

(* What strtoll returns, from where it starts.                               *)
LEMMA StrtollStarts ==
  ASSUME NEW text \in Seq(0 .. Nul - 1)
  PROVE  \E first :
           /\ IsFirst(text, first)
           /\ LET start == StartAt(text, first)
                  scan  == Scan(text, start, SignAt(text, first))
              IN  Strtoll(text) =
                    IF start = first /\ ~IsDigit(At(text, first))
                    THEN [number |-> 0, end |-> Unset]
                    ELSE [number |-> scan.number,
                          end |-> IF scan.tok > start THEN scan.tok ELSE Unset]
<1> DEFINE first == CHOOSE i \in 1 .. Len(text) + 1 :
                      /\ At(text, i) # Space
                      /\ \A j \in 1 .. i - 1 : text[j] = Space
<1>1. IsFirst(text, first)
  BY FirstExists DEF IsFirst
<1>2. LET start == StartAt(text, first)
          scan  == Scan(text, start, SignAt(text, first))
      IN  Strtoll(text) =
            IF start = first /\ ~IsDigit(At(text, first))
            THEN [number |-> 0, end |-> Unset]
            ELSE [number |-> scan.number,
                  end |-> IF scan.tok > start THEN scan.tok ELSE Unset]
  BY Zenon DEF Strtoll, StartAt, SignAt
<1> HIDE DEF first
<1> QED
  BY <1>1, <1>2

(* Zero is no positive int.                                                  *)
LEMMA AsIntType == \A x \in Int : AsInt(x) \in Int /\ (x = 0 => AsInt(x) <= 0)
<1> SUFFICES ASSUME NEW x \in Int PROVE AsInt(x) \in Int /\ (x = 0 => AsInt(x) <= 0)
  OBVIOUS
<1> DEFINE low == x % IntModulus
<1>1. IntModulus \in Nat \ {0} /\ IntModulus \div 2 \in Int
  BY IterationsAssumption
<1>2. low \in Int /\ (x = 0 => low = 0)
  BY <1>1, Z3
<1>3. AsInt(x) = IF low >= IntModulus \div 2 THEN low - IntModulus ELSE low
  BY DEF AsInt
<1> HIDE DEF low
<1> QED
  BY <1>1, <1>2, <1>3

(* The count is the number's when the text is one and has a count at all.    *)
LEMMA IterationCountAnswers ==
  ASSUME NEW text \in Seq(0 .. Nul - 1), NEW stale \in {Nul, Other}
  PROVE  IF IterationCount(text, stale) = Refused
         THEN \A n \in MinIterations .. IntModulus : ~Acceptable(text, n)
         ELSE Acceptable(text, IterationCount(text, stale))
<1>1. PICK first :
        /\ IsFirst(text, first)
        /\ LET start == StartAt(text, first)
               scan  == Scan(text, start, SignAt(text, first))
           IN  Strtoll(text) =
                 IF start = first /\ ~IsDigit(At(text, first))
                 THEN [number |-> 0, end |-> Unset]
                 ELSE [number |-> scan.number,
                       end |-> IF scan.tok > start THEN scan.tok ELSE Unset]
  BY StrtollStarts
<1> DEFINE start == StartAt(text, first)
           sign == SignAt(text, first)
           r == Scan(text, start, sign)
           v == Magnitudes(text, start)
           number == Strtoll(text).number
           end == EndCharacter(text, stale)
           count == AsInt(number)
           len == Len(text)
<1>2. start \in 1 .. len + 1 /\ sign \in {-1, 1}
  <2>1. first \in 1 .. len + 1
    BY <1>1 DEF IsFirst
  <2>2. CASE At(text, first) \in {Minus, Plus}
    <3>1. first # len + 1
      BY <2>2 DEF At, Nul, Minus, Plus
    <3> QED
      BY <2>1, <3>1 DEF StartAt, SignAt
  <2>3. CASE At(text, first) \notin {Minus, Plus}
    BY <2>1, <2>3 DEF StartAt, SignAt
  <2> QED
    BY <2>2, <2>3
<1>3. IsMagnitude(text, start, v)
  <2> HIDE DEF start, v
  <2>1. start \in 1 .. Len(text) + 1
    BY <1>2
  <2> QED
    BY <2>1, MagnitudesAre DEF v
<1>4. InScan(text, start, sign, v, r) /\ r.stopped
  <2> HIDE DEF start, v, sign, r
  <2>1. start \in 1 .. Len(text) + 1
    BY <1>2
  <2> QED
    BY <1>2, <1>3, <2>1, ScanResult DEF r
(* A number begins where strtoll does. *)
<1>5. ASSUME NEW i \in 1 .. len, IsNumber(text, i)
      PROVE  /\ i = start /\ IsDigit(At(text, start))
             /\ sign = -1 <=> (i > 1 /\ text[i - 1] = Minus)
  BY <1>1, <1>5, NumberStarts DEF IsNumber
<1>6. ASSUME NEW i \in 1 .. len, IsNumber(text, i)
      PROVE  Value(text, i) = Signed(sign, v[len])
  <2>1. i = start /\ (sign = -1 <=> (i > 1 /\ text[i - 1] = Minus))
    BY <1>5, <1>6
  <2>2. Value(text, i) = IF i > 1 /\ text[i - 1] = Minus
                         THEN -Magnitudes(text, i)[Len(text)] ELSE Magnitudes(text, i)[Len(text)]
    BY Zenon DEF Value, Magnitudes
  <2>3. Value(text, i) = IF sign = -1 THEN -Magnitudes(text, i)[len] ELSE Magnitudes(text, i)[len]
    BY <2>1, <2>2
  <2> QED
    BY <2>1, <2>3 DEF Signed
<1>7. IterationCount(text, stale) =
        IF end # Nul \/ count < 0 \/ count < MinIterations THEN Refused ELSE count
  <2>1. end # Wild
    <3>1. \A k : At(text, k) \in 0 .. Nul
      BY DEF At, Nul
    <3>2. stale # Wild /\ \A k : At(text, k) # Wild
      BY <3>1 DEF Nul, Other, Wild
    <3> QED
      BY <3>2, Zenon DEF EndCharacter
  <2> QED
    BY <2>1, Zenon DEF IterationCount
<1> HIDE DEF v, end
<1>8. ASSUME end # Nul \/ count < MinIterations,
             \A i \in 1 .. len : IsNumber(text, i) => Value(text, i) \notin Long
      PROVE  IF IterationCount(text, stale) = Refused
             THEN \A n \in MinIterations .. IntModulus : ~Acceptable(text, n)
             ELSE Acceptable(text, IterationCount(text, stale))
  <2>1. IterationCount(text, stale) = Refused
    BY <1>7, <1>8
  <2>2. \A n : ~Acceptable(text, n)
    BY <1>8 DEF Acceptable
  <2> QED
    BY <2>1, <2>2
<1>9. CASE ~IsDigit(At(text, start))
  <2>1. \A i \in 1 .. len : ~IsNumber(text, i)
    BY <1>5, <1>9
  <2>2. number = 0
    <3>1. r.number = 0
      <4> HIDE DEF start, sign, r
      <4>1. r.tok \in start .. len + 1 /\ \A j \in start .. r.tok - 1 : IsDigit(text[j])
        BY <1>4 DEF InScan
      <4>2. start <= len => At(text, start) = text[start]
        BY <1>2 DEF At
      <4>3. r.tok = start
        <5> SUFFICES ASSUME r.tok > start PROVE FALSE
          BY <1>2, <4>1
        <5>1. start \in start .. r.tok - 1 /\ start <= len
          BY <1>2, <4>1
        <5> QED
          BY <1>9, <4>1, <4>2, <5>1
      <4>4. r.number = Signed(sign, v[start - 1])
        BY <1>4, <1>9, <4>2, <4>3 DEF InScan
      <4> DEFINE m == v[start - 1]
      <4>5. m = 0 /\ m \in Int /\ m <= 0 /\ m >= 0
        BY <1>3 DEF IsMagnitude
      <4> HIDE DEF m
      <4>6. -m = 0
        <5>1. \A k \in Int : k <= 0 /\ k >= 0 => 0 = -k
          OBVIOUS
        <5> QED
          BY <4>5, <5>1
      <4>7. Signed(sign, m) = 0
        BY <4>5, <4>6, Zenon DEF Signed
      <4> QED
        BY <4>4, <4>7 DEF m
    <3> HIDE DEF start, sign
    <3> QED
      BY <1>1, <3>1 DEF start, sign
  <2>3. count < MinIterations
    <3>1. count \in Int /\ count <= 0
      BY <2>2, AsIntType
    <3> HIDE DEF count
    <3> QED
      BY <3>1, IterationsAssumption
  <2> QED
    BY <1>8, <2>1, <2>3
<1>10. CASE IsDigit(At(text, start))
  <2>1. start <= len /\ At(text, start) = text[start] /\ text[start] \in 0 .. 9
    <3> HIDE DEF start
    <3> QED
      BY <1>2, <1>10 DEF At, IsDigit, Nul
  <2>2. number = r.number /\ end = IF r.tok > start THEN At(text, r.tok) ELSE stale
    <3>1. Strtoll(text) = [number |-> r.number, end |-> IF r.tok > start THEN r.tok ELSE Unset]
      BY <1>1, <1>10
    <3> DEFINE e == IF r.tok > start THEN r.tok ELSE Unset
               x == r.number
    <3>2. Strtoll(text).number = x /\ Strtoll(text).end = e
      <4>1. Strtoll(text) = [number |-> x, end |-> e]
        BY <3>1
      <4> HIDE DEF e, x
      <4> QED
        BY <4>1
    <3> HIDE DEF start, r, sign
    <3>3. r.tok > start => r.tok # Unset
      BY <1>2, <1>4 DEF InScan, Unset
    <3> QED
      BY <3>2, <3>3, Zenon DEF EndCharacter, end
  <2> HIDE DEF start, sign, r, count
  <2>3. /\ r.tok \in start .. len + 1 /\ r.number \in Int
        /\ \A j \in start .. r.tok - 1 : IsDigit(text[j])
    BY <1>4 DEF InScan, ScanState
  <2>4. r.tok > start
    <3> SUFFICES ASSUME r.tok = start PROVE FALSE
      BY <1>2, <2>3
    <3>1. Signed(sign, v[start]) \notin Long
      BY <1>4, <1>10 DEF InScan
    <3>2. v[start] = text[start]
      <4>1. v[start - 1] = 0 /\ v[start] = 10 * v[start - 1] + text[start]
        BY <1>2, <1>3, <2>1 DEF IsMagnitude
      <4> QED
        BY <2>1, <4>1
    <3> QED
      BY <1>2, <2>1, <3>1, <3>2, IterationsAssumption DEF Signed, Long, LongMin
  <2>5. end = At(text, r.tok)
    BY <2>2, <2>4
  <2>6. CASE IsDigit(At(text, r.tok))
    <3>1. r.tok \in start .. len /\ Signed(sign, v[r.tok]) \notin Long
      BY <1>4, <2>3, <2>6 DEF InScan
    <3>2. v[r.tok] <= v[len] /\ v[r.tok] \in Nat /\ v[len] \in Nat
      <4>1. v[r.tok] \in Nat /\ v[len] \in Nat
        BY <1>2, <1>3, <3>1 DEF IsMagnitude
      <4>2. start \in 1 .. Len(text) + 1 /\ r.tok \in start .. Len(text)
        BY <1>2, <3>1
      <4> HIDE DEF len
      <4> QED
        BY <1>3, <4>1, <4>2, MagnitudesGrow DEF len
    <3>3. Signed(sign, v[len]) \notin Long
      <4> DEFINE a == v[r.tok]
                 b == v[len]
      <4> HIDE DEF a, b
      <4>1. a <= b /\ a \in Nat /\ b \in Nat /\ Signed(sign, a) \notin Long
        BY <3>1, <3>2 DEF a, b
      <4>2. Signed(sign, b) \notin Long
        BY <1>2, <4>1, IterationsAssumption DEF Signed, Long, LongMin
      <4> QED
        BY <4>2 DEF b
    <3>4. \A i \in 1 .. len : IsNumber(text, i) => Value(text, i) \notin Long
      BY <1>6, <3>3
    <3>5. end # Nul
      BY <2>5, <2>6 DEF IsDigit, Nul
    <3> QED
      BY <1>8, <3>4, <3>5
  <2>7. CASE ~IsDigit(At(text, r.tok)) /\ r.tok <= len
    <3>1. At(text, r.tok) = text[r.tok] /\ r.tok \in 1 .. len
      BY <1>2, <2>3, <2>7 DEF At
    <3>2. end # Nul
      BY <2>5, <3>1 DEF Nul
    <3>3. ASSUME NEW i \in 1 .. len PROVE ~IsNumber(text, i)
      <4> SUFFICES ASSUME IsNumber(text, i) PROVE FALSE
        OBVIOUS
      <4>1. i = start
        BY <1>5
      <4>2. r.tok \in i .. Len(text)
        BY <2>3, <2>7, <4>1
      <4> QED
        BY <2>7, <3>1, <4>2 DEF IsNumber
    <3> QED
      BY <1>8, <3>2, <3>3
  <2>8. CASE ~IsDigit(At(text, r.tok)) /\ r.tok = len + 1
    <3>1. end = Nul
      BY <2>5, <2>8 DEF At
    <3>2. \A j \in start .. len : IsDigit(text[j])
      BY <1>2, <2>3, <2>8
    <3>3. start \in 1 .. len /\ IsNumber(text, start)
      <4>1. first \in 1 .. len + 1 /\ \A j \in 1 .. first - 1 : text[j] = Space
        BY <1>1 DEF IsFirst
      <4>2. \A j \in 1 .. start - 1 :
              text[j] = Space \/ (j = start - 1 /\ text[j] \in {Minus, Plus})
        <5>1. CASE start = first
          BY <4>1, <5>1
        <5>2. CASE start = first + 1 /\ At(text, first) \in {Minus, Plus}
          <6>1. text[first] \in {Minus, Plus}
            BY <2>1, <4>1, <5>2 DEF At
          <6>2. \A j \in 1 .. start - 1 : j = first \/ j \in 1 .. first - 1
            BY <4>1, <5>2
          <6> QED
            BY <4>1, <5>2, <6>1, <6>2
        <5> QED
          BY <5>1, <5>2 DEF start, StartAt
      <4> QED
        BY <1>2, <2>1, <3>2, <4>2 DEF IsNumber, BeginsAt
    <3>4. Value(text, start) = number /\ number \in Long
      <4>1. r.number = Signed(sign, v[r.tok - 1]) /\ r.number \in Long
        BY <1>4, <2>8 DEF InScan
      <4>2. r.tok - 1 = len
        BY <2>8
      <4> QED
        BY <1>6, <2>2, <3>3, <4>1, <4>2
    <3>5. start = 1 \/ ~IsDigit(text[start - 1])
      BY <1>2, <3>3 DEF IsNumber, BeginsAt, IsDigit, Space, Minus, Plus
    <3>6. \A n : Acceptable(text, n) <=> n = count /\ n >= MinIterations
      <4>1. ASSUME NEW n, Acceptable(text, n) PROVE n = count /\ n >= MinIterations
        <5>1. PICK i \in 1 .. Len(text) : IsNumber(text, i) /\ n = AsInt(Value(text, i))
                                          /\ n >= MinIterations
          BY <4>1 DEF Acceptable
        <5>2. i = start
          BY <1>5, <5>1
        <5> QED
          BY <3>4, <5>1, <5>2 DEF count
      <4>2. ASSUME NEW n, n = count /\ n >= MinIterations PROVE Acceptable(text, n)
        BY <3>3, <3>4, <3>5, <4>2 DEF Acceptable, count
      <4> QED
        BY <4>1, <4>2
    <3>7. count \in Int /\ MinIterations \in Nat \ {0}
      BY <2>2, <2>3, AsIntType, IterationsAssumption DEF count
    <3>8. CASE count >= MinIterations
      <4>1. IterationCount(text, stale) = count
        BY <1>7, <3>1, <3>7, <3>8
      <4>2. count # Refused
        BY <3>7, <3>8 DEF Refused
      <4> QED
        BY <3>6, <3>8, <4>1, <4>2
    <3>9. CASE count < MinIterations
      <4>1. IterationCount(text, stale) = Refused
        BY <1>7, <3>9
      <4>2. \A n : ~Acceptable(text, n)
        <5> SUFFICES ASSUME NEW n, n = count /\ n >= MinIterations PROVE FALSE
          BY <3>6
        <5> QED
          BY <3>7, <3>9
      <4> QED
        BY <4>1, <4>2
    <3> QED
      BY <3>7, <3>8, <3>9
  <2> QED
    BY <2>3, <2>6, <2>7, <2>8
<1> QED
  BY <1>9, <1>10

(* The end is stored when a number begins in the text: its first digit does  *)
(* not overflow.                                                             *)
LEMMA EndIsStored ==
  ASSUME NEW text \in Seq(0 .. Nul - 1), NEW i \in 1 .. Len(text), BeginsAt(text, i)
  PROVE  Strtoll(text).end # Unset
<1>1. PICK first :
        /\ IsFirst(text, first)
        /\ LET start == StartAt(text, first)
               scan  == Scan(text, start, SignAt(text, first))
           IN  Strtoll(text) =
                 IF start = first /\ ~IsDigit(At(text, first))
                 THEN [number |-> 0, end |-> Unset]
                 ELSE [number |-> scan.number,
                       end |-> IF scan.tok > start THEN scan.tok ELSE Unset]
  BY StrtollStarts
<1> DEFINE sign == SignAt(text, first)
           r == Scan(text, i, sign)
           v == Magnitudes(text, i)
<1>2. StartAt(text, first) = i /\ IsDigit(text[i]) /\ IsDigit(At(text, i))
  BY <1>1, NumberStarts
<1>3. Strtoll(text) = [number |-> r.number, end |-> IF r.tok > i THEN r.tok ELSE Unset]
  BY <1>1, <1>2
<1>4. sign \in {-1, 1}
  BY DEF SignAt
<1>5. IsMagnitude(text, i, v)
  <2> HIDE DEF v
  <2>1. i \in 1 .. Len(text) + 1
    OBVIOUS
  <2> QED
    BY <2>1, MagnitudesAre DEF v
<1> HIDE DEF v, sign
<1>6. InScan(text, i, sign, v, r) /\ r.stopped
  <2> HIDE DEF r
  <2>1. i \in 1 .. Len(text) + 1
    OBVIOUS
  <2> QED
    BY <1>4, <1>5, <2>1, ScanResult DEF r
<1> HIDE DEF r
<1>7. r.tok \in i .. Len(text) + 1
  BY <1>6 DEF InScan
<1>8. r.tok > i
  <2> SUFFICES ASSUME r.tok = i PROVE FALSE
    BY <1>7
  <2>1. Signed(sign, v[i]) \notin Long
    BY <1>2, <1>6 DEF InScan
  <2>2. v[i] = text[i] /\ text[i] \in 0 .. 9
    <3>1. v[i - 1] = 0 /\ v[i] = 10 * v[i - 1] + text[i]
      BY <1>5 DEF IsMagnitude
    <3> QED
      BY <1>2, <3>1 DEF IsDigit
  <2> QED
    BY <1>4, <2>1, <2>2, IterationsAssumption DEF Signed, Long, LongMin
<1> DEFINE e == IF r.tok > i THEN r.tok ELSE Unset
           x == r.number
<1>9. Strtoll(text).end = e
  <2>1. Strtoll(text) = [number |-> x, end |-> e]
    BY <1>3
  <2> HIDE DEF e, x
  <2> QED
    BY <2>1
<1> QED
  BY <1>7, <1>8, <1>9 DEF Unset

(* Step 2 with nothing to read behind the end pointer: the process ends when *)
(* it has not been set, and otherwise all is as before.                      *)
LEMMA IterationCountEnds ==
  ASSUME NEW text \in Seq(0 .. Nul - 1), NEW r, r = IterationCount(text, Wild)
  PROVE  \/ r = Ended /\ (\A i \in 1 .. Len(text) : ~BeginsAt(text, i))
         \/ r = IterationCount(text, Nul)
<1>1. CASE Strtoll(text).end = Unset
  <2>1. r = Ended
    BY <1>1, Zenon DEF IterationCount, EndCharacter
  <2> QED
    BY <1>1, <2>1, EndIsStored
<1>2. CASE Strtoll(text).end # Unset
  <2>1. EndCharacter(text, Wild) = EndCharacter(text, Nul)
    BY <1>2, Zenon DEF EndCharacter
  <2> QED
    BY <2>1, Zenon DEF IterationCount
<1> QED
  BY <1>1, <1>2

---------------------------------------------------------------------------
(* The padding of bson_md5 *)

(* bson_md5_finish pads with at least one byte and at most a block, up to    *)
(* where the length fits at the end of a block.                              *)
THEOREM PaddingFillsBlock ==
  ASSUME NEW low \in Nat
  PROVE  /\ PadSize(low) \in 1 .. BlockSize
         /\ \E k \in Int : low \div 8 + PadSize(low) + LengthSize = BlockSize * k
<1> DEFINE n == low \div 8
           a == BlockSize - LengthSize - 1 - n
           q == a \div BlockSize
<1>1. BlockSize \in Nat \ {0} /\ LengthSize \in Nat /\ n \in Int
  BY Md5Assumption DEF LengthSize
<1>2. PadSize(low) = (a % BlockSize) + 1 /\ a \in Int
  BY <1>1 DEF PadSize
<1>3. a = BlockSize - LengthSize - 1 - n
  OBVIOUS
<1> HIDE DEF a, n
<1>4. a % BlockSize \in 0 .. BlockSize - 1
  BY <1>1, <1>2
<1>5. a = BlockSize * q + (a % BlockSize) /\ q \in Int
  BY <1>1, <1>2, Z3
<1> HIDE DEF q
<1>6. BlockSize * (1 - q) = BlockSize - BlockSize * q /\ BlockSize * q \in Int
  BY <1>1, <1>5
<1>7. n + PadSize(low) + LengthSize = BlockSize * (1 - q)
  <2> DEFINE r == a % BlockSize
             p == BlockSize * q
  <2>1. p \in Int /\ r \in Int /\ a = p + r /\ PadSize(low) = r + 1
    BY <1>1, <1>2, <1>4, <1>5, <1>6
  <2>2. BlockSize * (1 - q) = BlockSize - p
    BY <1>6
  <2> HIDE DEF p, r
  <2> QED
    BY <1>1, <1>3, <2>1, <2>2
<1>8. PadSize(low) \in 1 .. BlockSize
  BY <1>1, <1>2, <1>4
<1> QED
  BY <1>5, <1>7, <1>8 DEF n

---------------------------------------------------------------------------
(* mongoc_memcmp *)

(* A byte has a value, which is zero just when it has no bit.                *)
LEMMA ByteValueZero ==
  ASSUME NEW bits \in SUBSET (0 .. 7)
  PROVE  ByteValue(bits) \in 0 .. 255 /\ (ByteValue(bits) = 0 <=> bits = {})
<1> DEFINE bit(k) == IF k \in bits THEN 1 ELSE 0
<1>1. ByteValue(bits) = 128 * bit(7) + 64 * bit(6) + 32 * bit(5) + 16 * bit(4)
                          + 8 * bit(3) + 4 * bit(2) + 2 * bit(1) + bit(0)
  BY DEF ByteValue
<1>2. bits = {} <=> \A k \in 0 .. 7 : k \notin bits
  OBVIOUS
<1>3. bits = {} <=> /\ bit(0) = 0 /\ bit(1) = 0 /\ bit(2) = 0 /\ bit(3) = 0
                    /\ bit(4) = 0 /\ bit(5) = 0 /\ bit(6) = 0 /\ bit(7) = 0
  <2>1. \A k \in 0 .. 7 : k = 0 \/ k = 1 \/ k = 2 \/ k = 3 \/ k = 4 \/ k = 5 \/ k = 6 \/ k = 7
    OBVIOUS
  <2> QED
    BY <1>2, <2>1
<1>4. \A k \in 0 .. 7 : bit(k) \in {0, 1}
  OBVIOUS
<1> HIDE DEF bit
<1> QED
  BY <1>1, <1>3, <1>4

(* mongoc_memcmp: zero just when all bytes are equal, for any length.        *)
LEMMA MemcmpEqual ==
  ASSUME NEW s1 \in Seq(SUBSET (0 .. 7)), NEW s2 \in Seq(SUBSET (0 .. 7)), Len(s1) = Len(s2)
  PROVE  Memcmp(s1, s2, Len(s1)) = 0 <=> s1 = s2
<1> DEFINE Bits == SUBSET (0 .. 7)
           len == Len(s1)
           F == [p \in Bits \X (0 + 1 .. len) |-> OrDifference(p[1], s1[p[2]], s2[p[2]])]
           d == CHOOSE d : d = [i \in 0 .. len |->
                                  IF i = 0 THEN {} ELSE OrDifference(d[i - 1], s1[i], s2[i])]
<1>1. len \in Nat /\ \A i \in 1 .. len : s1[i] \in Bits /\ s2[i] \in Bits
  OBVIOUS
<1>2. F \in [Bits \X (0 + 1 .. len) -> Bits]
  BY <1>1 DEF OrDifference, Differ
<1>3. {} \in Bits
  OBVIOUS
<1>4. \E f \in [0 .. len -> Bits] : IsLoop(f, {}, 0, len, F)
  <2>1. 0 \in Nat /\ len \in Int /\ len >= 0
    BY <1>1
  <2> HIDE DEF F, d, len, Bits
  <2> QED
    BY <1>2, <1>3, <2>1, LoopExists
<1>5. \E f : f = [i \in 0 .. len |-> IF i = 0 THEN {} ELSE OrDifference(f[i - 1], s1[i], s2[i])]
  <2>1. PICK f \in [0 .. len -> Bits] : IsLoop(f, {}, 0, len, F)
    BY <1>4
  <2>2. ASSUME NEW i \in 0 .. len, i # 0
        PROVE  f[i] = OrDifference(f[i - 1], s1[i], s2[i])
    <3>1. f[i - 1] \in Bits /\ i \in 0 + 1 .. len
      BY <1>1, <2>2
    <3> QED
      BY <2>1, <3>1 DEF IsLoop
  <2>3. f = [i \in 0 .. len |-> IF i = 0 THEN {} ELSE OrDifference(f[i - 1], s1[i], s2[i])]
    <3> HIDE DEF F
    <3> QED
      BY <2>1, <2>2 DEF IsLoop
  <2> QED
    BY <2>3
<1>6. d = [i \in 0 .. len |-> IF i = 0 THEN {} ELSE OrDifference(d[i - 1], s1[i], s2[i])]
  BY <1>5
<1> DEFINE T == {n \in Nat : n <= len =>
                   d[n] \in Bits /\ (d[n] = {} <=> \A j \in 1 .. n : s1[j] = s2[j])}
<1>7. Memcmp(s1, s2, Len(s1)) = (((ByteValue(d[len]) - 1) \div 256) % 2) - 1
  BY DEF Memcmp
<1> HIDE DEF d
<1>8. 0 \in T
  BY <1>1, <1>6
<1>9. ASSUME NEW n \in Nat, n \in T PROVE n + 1 \in T
  <2> SUFFICES ASSUME n + 1 <= len
               PROVE  /\ d[n + 1] \in Bits
                      /\ d[n + 1] = {} <=> \A j \in 1 .. n + 1 : s1[j] = s2[j]
    BY <1>9
  <2>1. d[n] \in Bits /\ (d[n] = {} <=> \A j \in 1 .. n : s1[j] = s2[j])
    BY <1>1, <1>9
  <2>2. d[n + 1] = d[n] \cup ((s1[n + 1] \ s2[n + 1]) \cup (s2[n + 1] \ s1[n + 1]))
    BY <1>1, <1>6 DEF OrDifference, Differ
  <2>3. s1[n + 1] \in Bits /\ s2[n + 1] \in Bits
    BY <1>1
  <2>4. d[n + 1] \in Bits /\ (d[n + 1] = {} <=> d[n] = {} /\ s1[n + 1] = s2[n + 1])
    BY <2>1, <2>2, <2>3
  <2> QED
    BY <2>1, <2>4
<1> HIDE DEF T
<1>10. len \in T
  BY <1>1, <1>8, <1>9, SetInduction
<1>11. d[len] \in Bits /\ (d[len] = {} <=> s1 = s2)
  BY <1>1, <1>10 DEF T
<1>12. ByteValue(d[len]) \in 0 .. 255 /\ (ByteValue(d[len]) = 0 <=> s1 = s2)
  BY <1>11, ByteValueZero
<1>13. \A v \in 0 .. 255 : ((((v - 1) \div 256) % 2) - 1 = 0 <=> v = 0)
  OBVIOUS
<1> QED
  BY <1>7, <1>12, <1>13

(* The server's signature is taken just when it is the one computed.         *)
LEMMA VerifyIsEquality ==
  ASSUME NEW s1 \in Seq(SUBSET (0 .. 7)), NEW s2 \in Seq(SUBSET (0 .. 7))
  PROVE  Verify(s1, s2) <=> s1 = s2
<1>1. CASE Len(s1) = Len(s2)
  BY <1>1, MemcmpEqual DEF Verify
<1>2. CASE Len(s1) # Len(s2)
  BY <1>2 DEF Verify
<1> QED
  BY <1>1, <1>2

---------------------------------------------------------------------------
(* _mongoc_sasl_prep_impl *)

(* Preparing with ICU: what is held when it returns, and what it refuses.    *)
LEMMA PrepImplResult ==
  ASSUME NEW p \in Passwords, NEW failing \in SUBSET LibraryCalls
  PROVE  LET r == PrepImpl(p, failing)
         IN  /\ r.refused \in BOOLEAN
             /\ r.held = IF r.refused THEN {} ELSE {"out_utf8"}
             /\ ~r.refused => p.utf8 /\ p.allowed
             /\ failing = {} /\ p.printable => (r.refused <=> p.length = 0)
<1> DEFINE Objects == {"in_utf16", "prep", "out_utf16", "out_utf8"}
           V == [held : SUBSET Objects, refused : BOOLEAN]
           start == [held |-> {}, refused |-> FALSE]
           steps == ImplSteps(p, failing)
           run == CHOOSE run : run = [n \in 0 .. Len(steps) |->
                                        IF n = 0 THEN start ELSE Do(run[n - 1], steps[n])]
           G == [q \in V \X (0 + 1 .. 7) |-> Do(q[1], steps[q[2]])]
           (* what is held when the first n steps have worked *)
           H(n) == IF n <= 1 THEN {} ELSE IF n = 2 THEN {"in_utf16"}
                   ELSE IF n <= 4 THEN {"in_utf16", "prep"}
                   ELSE IF n <= 6 THEN {"out_utf16"} ELSE {"out_utf8"}
           Works(n) == \A k \in 1 .. n : steps[k].works
<1>1. PrepImpl(p, failing) = run[7] /\ Len(steps) = 7
  BY DEF PrepImpl, ImplSteps
<1>2. /\ p.utf8 \in BOOLEAN /\ p.allowed \in BOOLEAN /\ p.printable \in BOOLEAN
      /\ p.length \in 0 .. 1 /\ p.prepared \in 0 .. 1
      /\ p.printable => p.utf8 /\ p.allowed /\ p.prepared = p.length
  BY DEF Passwords
<1>3. ASSUME NEW k \in 1 .. 7
      PROVE  /\ steps[k].works \in BOOLEAN
             /\ steps[k].gets \subseteq Objects
             /\ steps[k].works => (H(k - 1) \cup steps[k].gets) \ steps[k].frees = H(k)
             /\ (H(k - 1) \cup steps[k].gets) \ steps[k].undo = {}
  <2>1. k = 1 \/ k = 2 \/ k = 3 \/ k = 4 \/ k = 5 \/ k = 6 \/ k = 7
    OBVIOUS
  <2>2. CASE k = 1
    <3>1. /\ steps[1].gets = {} /\ steps[1].undo = {}
          /\ steps[1].frees = {} /\ steps[1].works \in BOOLEAN
      <4>1. steps[1] = [gets |-> {}, works |-> p.utf8 /\ Overflow(p.length),
                        undo |-> {}, frees |-> {}]
        BY DEF ImplSteps
      <4> HIDE DEF steps
      <4> QED
        BY <1>2, <4>1 DEF Overflow
    <3> HIDE DEF steps
    <3> QED
      BY <2>2, <3>1
  <2>3. CASE k = 2
    <3>1. /\ steps[2].gets = {"in_utf16"} /\ steps[2].undo = {"in_utf16"}
          /\ steps[2].frees = {} /\ steps[2].works \in BOOLEAN
      <4>1. steps[2] = [gets |-> {"in_utf16"}, works |-> "u_strFromUTF8" \notin failing,
                        undo |-> {"in_utf16"}, frees |-> {}]
        BY DEF ImplSteps
      <4> HIDE DEF steps
      <4> QED
        BY <1>2, <4>1
    <3> HIDE DEF steps
    <3> QED
      BY <2>3, <3>1
  <2>4. CASE k = 3
    <3>1. /\ steps[3].gets = {"prep"} /\ steps[3].undo = {"in_utf16", "prep"}
          /\ steps[3].frees = {} /\ steps[3].works \in BOOLEAN
      <4>1. steps[3] = [gets |-> {"prep"}, works |-> "usprep_openByType" \notin failing,
                        undo |-> {"in_utf16", "prep"}, frees |-> {}]
        BY DEF ImplSteps
      <4> HIDE DEF steps
      <4> QED
        BY <1>2, <4>1
    <3> HIDE DEF steps
    <3> QED
      BY <2>4, <3>1
  <2>5. CASE k = 4
    <3>1. /\ steps[4].gets = {} /\ steps[4].undo = {"in_utf16", "prep"}
          /\ steps[4].frees = {} /\ steps[4].works \in BOOLEAN
      <4>1. steps[4] = [gets |-> {}, works |-> p.allowed /\ Overflow(p.prepared),
                        undo |-> {"in_utf16", "prep"}, frees |-> {}]
        BY DEF ImplSteps, UndoLength
      <4> HIDE DEF steps
      <4> QED
        BY <1>2, <4>1 DEF Overflow
    <3> HIDE DEF steps
    <3> QED
      BY <2>5, <3>1
  <2>6. CASE k = 5
    <3>1. /\ steps[5].gets = {"out_utf16"} /\ steps[5].undo = {"in_utf16", "out_utf16", "prep"}
          /\ steps[5].frees = {"in_utf16", "prep"} /\ steps[5].works \in BOOLEAN
      <4>1. steps[5] = [gets |-> {"out_utf16"}, works |-> "usprep_prepare" \notin failing,
                        undo |-> {"in_utf16", "out_utf16", "prep"}, frees |-> {"in_utf16", "prep"}]
        BY DEF ImplSteps
      <4> HIDE DEF steps
      <4> QED
        BY <1>2, <4>1
    <3> HIDE DEF steps
    <3> QED
      BY <2>6, <3>1
  <2>7. CASE k = 6
    <3>1. /\ steps[6].gets = {} /\ steps[6].undo = {"out_utf16"}
          /\ steps[6].frees = {} /\ steps[6].works \in BOOLEAN
      <4>1. steps[6] = [gets |-> {}, works |-> Overflow(p.prepared),
                        undo |-> {"out_utf16"}, frees |-> {}]
        BY DEF ImplSteps
      <4> HIDE DEF steps
      <4> QED
        BY <1>2, <4>1 DEF Overflow
    <3> HIDE DEF steps
    <3> QED
      BY <2>7, <3>1
  <2>8. CASE k = 7
    <3>1. /\ steps[7].gets = {"out_utf8"} /\ steps[7].undo = {"out_utf8", "out_utf16"}
          /\ steps[7].frees = {"out_utf16"} /\ steps[7].works \in BOOLEAN
      <4>1. steps[7] = [gets |-> {"out_utf8"}, works |-> "u_strToUTF8" \notin failing,
                        undo |-> {"out_utf8", "out_utf16"}, frees |-> {"out_utf16"}]
        BY DEF ImplSteps
      <4> HIDE DEF steps
      <4> QED
        BY <4>1
    <3> HIDE DEF steps
    <3> QED
      BY <2>8, <3>1
  <2> QED
    BY <2>1, <2>2, <2>3, <2>4, <2>5, <2>6, <2>7, <2>8
<1>4. /\ Works(7) => p.utf8 /\ p.allowed
      /\ failing = {} /\ p.printable => (Works(7) <=> p.length # 0)
  <2>1. /\ steps[1].works <=> p.utf8 /\ p.length > 0
        /\ steps[2].works <=> "u_strFromUTF8" \notin failing
        /\ steps[3].works <=> "usprep_openByType" \notin failing
        /\ steps[4].works <=> p.allowed /\ p.prepared > 0
        /\ steps[5].works <=> "usprep_prepare" \notin failing
        /\ steps[6].works <=> p.prepared > 0
        /\ steps[7].works <=> "u_strToUTF8" \notin failing
    BY <1>2 DEF ImplSteps, Overflow
  <2>2. Works(7) <=> /\ steps[1].works /\ steps[2].works /\ steps[3].works /\ steps[4].works
                     /\ steps[5].works /\ steps[6].works /\ steps[7].works
    <3>1. \A k \in 1 .. 7 : k = 1 \/ k = 2 \/ k = 3 \/ k = 4 \/ k = 5 \/ k = 6 \/ k = 7
      OBVIOUS
    <3> HIDE DEF steps
    <3> QED
      BY <3>1
  <2> HIDE DEF Works, steps
  <2> QED
    BY <1>2, <2>1, <2>2
<1>5. run = [n \in 0 .. 7 |-> IF n = 0 THEN start ELSE Do(run[n - 1], steps[n])]
  <2>1. G \in [V \X (0 + 1 .. 7) -> V]
    <3>1. ASSUME NEW s \in V, NEW k \in 1 .. 7 PROVE Do(s, steps[k]) \in V
      <4> HIDE DEF steps
      <4> QED
        BY <1>3, <3>1 DEF Do
    <3> HIDE DEF V, steps
    <3> QED
      BY <3>1
  <2>2. start \in V /\ 0 \in Nat /\ 7 \in Int /\ 7 >= 0
    OBVIOUS
  <2>3. \E f \in [0 .. 7 -> V] : IsLoop(f, start, 0, 7, G)
    <3> HIDE DEF run, G, V, start
    <3> QED
      BY <2>1, <2>2, LoopExists
  <2>4. PICK f \in [0 .. 7 -> V] : IsLoop(f, start, 0, 7, G)
    BY <2>3
  <2>5. ASSUME NEW i \in 0 .. 7, i # 0 PROVE f[i] = Do(f[i - 1], steps[i])
    <3>1. f[i - 1] \in V /\ i \in 0 + 1 .. 7
      BY <2>5
    <3> HIDE DEF V, steps, start, run
    <3> QED
      BY <2>4, <3>1 DEF IsLoop
  <2>6. f = [n \in 0 .. 7 |-> IF n = 0 THEN start ELSE Do(f[n - 1], steps[n])]
    <3> HIDE DEF G, steps, start, V, run
    <3> QED
      BY <2>4, <2>5 DEF IsLoop
  <2> HIDE DEF steps, start, V, G
  <2> QED
    BY <1>1, <2>6
<1> HIDE DEF run
<1> DEFINE P(n) == run[n] = IF Works(n) THEN [held |-> H(n), refused |-> FALSE]
                            ELSE [held |-> {}, refused |-> TRUE]
<1>6. P(0)
  BY <1>5
<1>7. ASSUME NEW n \in 0 .. 6, P(n) PROVE P(n + 1)
  <2>1. run[n + 1] = Do(run[n], steps[n + 1])
    <3>1. n + 1 \in 0 .. 7 /\ n + 1 # 0 /\ (n + 1) - 1 = n
      OBVIOUS
    <3> HIDE DEF steps, start
    <3> QED
      BY <1>5, <3>1
  <2>2. Works(n + 1) <=> Works(n) /\ steps[n + 1].works
    <3>1. \A k \in 1 .. n + 1 : k \in 1 .. n \/ k = n + 1
      OBVIOUS
    <3> HIDE DEF steps
    <3> QED
      BY <3>1
  <2> HIDE DEF H, Works, steps
  <2>3. /\ steps[n + 1].works => (H(n) \cup steps[n + 1].gets) \ steps[n + 1].frees = H(n + 1)
        /\ (H(n) \cup steps[n + 1].gets) \ steps[n + 1].undo = {}
        /\ steps[n + 1].works \in BOOLEAN
    <3>1. n + 1 \in 1 .. 7 /\ (n + 1) - 1 = n
      OBVIOUS
    <3>2. H((n + 1) - 1) = H(n)
      BY <3>1
    <3> QED
      BY <1>3, <3>1, <3>2
  <2>4. CASE Works(n)
    <3>1. run[n] = [held |-> H(n), refused |-> FALSE]
      BY <1>7, <2>4
    <3>2. run[n + 1] =
            [held |-> (H(n) \cup steps[n + 1].gets)
                        \ (IF steps[n + 1].works THEN steps[n + 1].frees ELSE steps[n + 1].undo),
             refused |-> ~steps[n + 1].works]
      BY <2>1, <3>1 DEF Do
    <3>3. CASE steps[n + 1].works
      BY <2>2, <2>3, <2>4, <3>2, <3>3
    <3>4. CASE ~steps[n + 1].works
      BY <2>2, <2>3, <2>4, <3>2, <3>4
    <3> QED
      BY <3>3, <3>4
  <2>5. CASE ~Works(n)
    <3>1. run[n] = [held |-> {}, refused |-> TRUE]
      BY <1>7, <2>5
    <3> QED
      BY <2>1, <2>2, <2>5, <3>1 DEF Do
  <2> QED
    BY <2>4, <2>5
<1>8. P(7)
  <2> HIDE DEF P
  <2>1. P(0 + 1)
    BY <1>6, <1>7
  <2>2. P(1 + 1)
    BY <1>7, <2>1
  <2>3. P(2 + 1)
    BY <1>7, <2>2
  <2>4. P(3 + 1)
    BY <1>7, <2>3
  <2>5. P(4 + 1)
    BY <1>7, <2>4
  <2>6. P(5 + 1)
    BY <1>7, <2>5
  <2>7. P(6 + 1)
    BY <1>7, <2>6
  <2> QED
    BY <2>7
<1>9. run[7] = IF Works(7) THEN [held |-> {"out_utf8"}, refused |-> FALSE]
               ELSE [held |-> {}, refused |-> TRUE]
  BY <1>8
<1> HIDE DEF Works, steps, H
<1> QED
  BY <1>1, <1>2, <1>4, <1>9

---------------------------------------------------------------------------
(* The user name and its parameters *)

(* A set of numbers up to a bound has a greatest and a least element, when   *)
(* it has any.                                                               *)
LEMMA MaxMinExist ==
  ASSUME NEW n \in Nat, NEW S \in SUBSET (1 .. n), S # {}
  PROVE  /\ Max(S) \in S /\ \A j \in S : Max(S) >= j
         /\ Min(S) \in S /\ \A j \in S : Min(S) <= j
<1>1. PICK m \in S : \A j \in S : m <= j
  <2>1. S \subseteq Nat
    OBVIOUS
  <2> QED
    BY <2>1, LeastExists
<1>2. PICK M \in S : \A j \in S : M >= j
  <2> DEFINE T == {n - j : j \in S}
  <2>1. T \subseteq Nat /\ T # {}
    <3>1. \A j \in S : n - j \in Nat
      OBVIOUS
    <3> QED
      BY <3>1
  <2> HIDE DEF T
  <2>2. PICK k \in T : \A l \in T : k <= l
    BY <2>1, LeastExists
  <2>3. PICK M \in S : k = n - M
    BY <2>2 DEF T
  <2>4. ASSUME NEW j \in S PROVE M >= j
    <3>1. n - j \in T
      BY DEF T
    <3>2. k <= n - j
      BY <2>2, <3>1
    <3> QED
      BY <2>3, <3>2
  <2> QED
    BY <2>4
<1>3. Max(S) = CHOOSE x \in S : \A y \in S : x >= y
  BY DEF Max
<1>4. Min(S) = CHOOSE x \in S : \A y \in S : x =< y
  BY DEF Min
<1>5. Max(S) \in S /\ \A j \in S : Max(S) >= j
  BY <1>2, <1>3
<1>6. Min(S) \in S /\ \A j \in S : Min(S) <= j
  BY <1>1, <1>4
<1> QED
  BY <1>5, <1>6

(* The part of a text from m to n.                                           *)
LEMMA PartOf ==
  ASSUME NEW S, NEW s \in Seq(S), NEW m \in 1 .. Len(s) + 2, NEW n \in 0 .. Len(s)
  PROVE  /\ SubSeq(s, m, n) \in Seq(S)
         /\ Len(SubSeq(s, m, n)) = IF m <= n THEN n - m + 1 ELSE 0
         /\ \A i \in 1 .. n - m + 1 : SubSeq(s, m, n)[i] = s[m + i - 1]
         /\ DOMAIN SubSeq(s, m, n) = 1 .. Len(SubSeq(s, m, n))
<1>1. \A i \in m .. n : s[i] \in S
  OBVIOUS
<1>2. m \in Int /\ n \in Int
  OBVIOUS
<1>3. /\ SubSeq(s, m, n) \in Seq(S)
      /\ Len(SubSeq(s, m, n)) = IF m <= n THEN n - m + 1 ELSE 0
      /\ \A i \in 1 .. n - m + 1 : SubSeq(s, m, n)[i] = s[m + i - 1]
  BY <1>1, <1>2, SubSeqProperties
<1> QED
  BY <1>3, LenProperties

(* _mongosql_auth_conversation_init: the last "?" ends the name.             *)
LEMMA SplitUserResult ==
  ASSUME NEW text \in Seq(STRING)
  PROVE  \/ /\ Places(text, "?") = {}
            /\ SplitUser(text)[1] = text /\ SplitUser(text)[2] = Null
         \/ \E i \in 1 .. Len(text) :
              /\ text[i] = "?" /\ \A j \in i + 1 .. Len(text) : text[j] # "?"
              /\ SplitUser(text)[1] = SubSeq(text, 1, i - 1)
              /\ SplitUser(text)[2] = SubSeq(text, i + 1, Len(text))
<1>1. CASE Places(text, "?") = {}
  BY <1>1 DEF SplitUser
<1>2. CASE Places(text, "?") # {}
  <2> DEFINE i == Max(Places(text, "?"))
  <2>1. Places(text, "?") \in SUBSET (1 .. Len(text)) /\ Len(text) \in Nat
    BY LenProperties DEF Places
  <2>2. i \in Places(text, "?") /\ \A j \in Places(text, "?") : i >= j
    BY <1>2, <2>1, MaxMinExist
  <2>3. /\ SplitUser(text)[1] = SubSeq(text, 1, i - 1)
        /\ SplitUser(text)[2] = SubSeq(text, i + 1, Len(text))
    BY <1>2 DEF SplitUser
  <2> HIDE DEF i
  <2>4. i \in 1 .. Len(text) /\ text[i] = "?"
    BY <2>1, <2>2 DEF Places
  <2>5. ASSUME NEW j \in i + 1 .. Len(text) PROVE text[j] # "?"
    <3>1. j \in DOMAIN text /\ ~(i >= j)
      BY <2>4, LenProperties
    <3> QED
      BY <2>2, <3>1 DEF Places
  <2> QED
    BY <2>3, <2>4, <2>5
<1> QED
  BY <1>1, <1>2

(* A text is put together again from the parts around a place.               *)
LEMMA PartsAround ==
  ASSUME NEW S, NEW text \in Seq(S), NEW i \in 1 .. Len(text)
  PROVE  text = SubSeq(text, 1, i - 1) \o <<text[i]>> \o SubSeq(text, i + 1, Len(text))
<1> DEFINE left == SubSeq(text, 1, i - 1)
           right == SubSeq(text, i + 1, Len(text))
<1>1. /\ left \in Seq(S) /\ Len(left) = i - 1
      /\ \A j \in 1 .. i - 1 : left[j] = text[j]
  <2>1. 1 \in 1 .. Len(text) + 2 /\ i - 1 \in 0 .. Len(text)
    OBVIOUS
  <2>2. \A j \in 1 .. i - 1 : 1 + j - 1 = j /\ j \in 1 .. (i - 1) - 1 + 1
    OBVIOUS
  <2>3. /\ left \in Seq(S) /\ Len(left) = IF 1 <= i - 1 THEN (i - 1) - 1 + 1 ELSE 0
        /\ \A j \in 1 .. (i - 1) - 1 + 1 : left[j] = text[1 + j - 1]
    BY <2>1, PartOf
  <2> HIDE DEF left
  <2> QED
    BY <2>2, <2>3
<1>2. /\ right \in Seq(S) /\ Len(right) = Len(text) - i
      /\ \A j \in 1 .. Len(text) - i : right[j] = text[i + j]
  <2>1. i + 1 \in 1 .. Len(text) + 2 /\ Len(text) \in 0 .. Len(text)
    OBVIOUS
  <2>2. \A j \in 1 .. Len(text) - i : (i + 1) + j - 1 = i + j /\ j \in 1 .. Len(text) - (i + 1) + 1
    OBVIOUS
  <2>3. /\ right \in Seq(S)
        /\ Len(right) = IF i + 1 <= Len(text) THEN Len(text) - (i + 1) + 1 ELSE 0
        /\ \A j \in 1 .. Len(text) - (i + 1) + 1 : right[j] = text[(i + 1) + j - 1]
    BY <2>1, PartOf
  <2> HIDE DEF right
  <2> QED
    BY <2>2, <2>3
<1>3. text[i] \in S /\ <<text[i]>> \in Seq(S) /\ Len(<<text[i]>>) = 1 /\ <<text[i]>>[1] = text[i]
  OBVIOUS
<1> HIDE DEF left, right
<1> DEFINE begin == left \o <<text[i]>>
<1>4. /\ begin \in Seq(S) /\ Len(begin) = i
      /\ \A j \in 1 .. i : begin[j] = text[j]
  <2> DEFINE c == <<text[i]>>
  <2> HIDE DEF c
  <2>1. /\ left \o c \in Seq(S) /\ Len(left \o c) = Len(left) + Len(c)
        /\ \A j \in 1 .. Len(left) + Len(c) :
             (left \o c)[j] = IF j <= Len(left) THEN left[j] ELSE c[j - Len(left)]
    BY <1>1, <1>3, ConcatProperties DEF c
  <2>2. Len(c) = 1 /\ c[1] = text[i]
    BY <1>3 DEF c
  <2>3. \A j \in 1 .. i : j <= i - 1 \/ (j = i /\ j - (i - 1) = 1)
    OBVIOUS
  <2>4. begin = left \o c
    BY DEF c
  <2> HIDE DEF begin
  <2> QED
    BY <1>1, <2>1, <2>2, <2>3, <2>4
<1> HIDE DEF begin
<1>5. /\ begin \o right \in Seq(S) /\ Len(begin \o right) = Len(begin) + Len(right)
      /\ \A j \in 1 .. Len(begin) + Len(right) :
           (begin \o right)[j] = IF j <= Len(begin) THEN begin[j] ELSE right[j - Len(begin)]
  BY <1>2, <1>4, ConcatProperties
<1>6. Len(begin \o right) = Len(text)
  BY <1>2, <1>4, <1>5
<1>7. ASSUME NEW j \in 1 .. Len(text) PROVE (begin \o right)[j] = text[j]
  <2>1. CASE j <= i
    BY <1>2, <1>4, <1>5, <2>1
  <2>2. CASE ~(j <= i)
    <3>1. j - i \in 1 .. Len(text) - i /\ i + (j - i) = j
      BY <2>2
    <3> QED
      BY <1>2, <1>4, <1>5, <2>2, <3>1
  <2> QED
    BY <2>1, <2>2
<1>8. begin \o right = text
  BY <1>5, <1>6, <1>7, SeqEqual
<1> QED
  BY <1>8 DEF begin, left, right

(* Whether find_param finds a value: an "=" follows the first occurrence. *)
HasValue(list) ==
  /\ Occurrences(list) # {}
  /\ Min(Occurrences(list)) + Len(Name) \in Places(list, "=")

(* _mongosql_auth_conversation_find_param: what lies behind that "=", up to  *)
(* the end of the parameter.                                                 *)
LEMMA FindParamResult ==
  ASSUME NEW list \in Seq(STRING)
  PROVE  IF ~HasValue(list) THEN FindParam(list) = Null
         ELSE IsValueOf(list, Min(Occurrences(list)), FindParam(list)) /\ Len(list) >= 2
<1>1. CASE ~HasValue(list)
  <2> SUFFICES ASSUME Occurrences(list) # {} PROVE FindParam(list) = Null
    BY <1>1, Zenon DEF FindParam
  <2> DEFINE idx == Min(Occurrences(list)) + Len(Name)
  <2>1. Len(list) \in Nat /\ Len(Name) \in Nat \ {0} /\ DOMAIN list = 1 .. Len(list)
    BY TextsAssumption, LenProperties, EmptySeq
  <2>2. Min(Occurrences(list)) \in 1 .. Len(list)
    <3>1. Occurrences(list) \in SUBSET (1 .. Len(list))
      BY <2>1 DEF Occurrences
    <3> QED
      BY <2>1, <3>1, MaxMinExist
  <2>3. idx \in Nat \ {0} /\ idx \notin Places(list, "=")
    BY <1>1, <2>1, <2>2 DEF HasValue
  <2>4. ~(idx <= Len(list) /\ list[idx] = "=")
    <3> HIDE DEF idx
    <3> QED
      BY <2>1, <2>3 DEF Places
  <2> QED
    BY <2>4, Zenon DEF FindParam
<1>2. CASE HasValue(list)
  <2> DEFINE key == Min(Occurrences(list))
             idx == key + Len(Name)
             start == idx + 1
             Ends == {i \in start .. Len(list) : list[i] = "&"} \cup {Len(list) + 1}
             e == Min(Ends)
             value == SubSeq(list, start, e - 1)
  <2>1. Len(list) \in Nat /\ Len(Name) \in Nat \ {0} /\ DOMAIN list = 1 .. Len(list)
    BY TextsAssumption, LenProperties, EmptySeq
  <2>2. Occurrences(list) \in SUBSET (1 .. Len(list))
    BY <2>1 DEF Occurrences
  <2>3. key \in Occurrences(list)
    <3>1. Occurrences(list) # {}
      BY <1>2 DEF HasValue
    <3> QED
      BY <2>1, <2>2, <3>1, MaxMinExist
  <2>4. idx \in 1 .. Len(list) /\ list[idx] = "=" /\ key \in 1 .. Len(list) /\ idx >= 2
    <3>1. key \in Occurrences(list) /\ key + Len(Name) \in Places(list, "=")
      BY <1>2, <2>3 DEF HasValue
    <3> QED
      BY <2>1, <2>2, <3>1 DEF Places
  <2>5. FindParam(list) = value
    <3>1. Occurrences(list) # {} /\ Min(Occurrences(list)) + Len(Name) = idx
      BY <1>2 DEF HasValue
    <3>2. ValueEnd(list, idx + 1) = e
      BY DEF ValueEnd
    <3>3. idx <= Len(list)
      BY <2>4
    <3>4. FindParam(list) = SubSeq(list, idx + 1, ValueEnd(list, idx + 1) - 1)
      <4> HIDE DEF idx
      <4> QED
        BY <2>4, <3>1, <3>3 DEF FindParam
    <3> QED
      BY <3>2, <3>4
  <2>6. e \in Ends /\ \A j \in Ends : e <= j
    <3> HIDE DEF idx
    <3>1. Ends \in SUBSET (1 .. Len(list) + 1) /\ Ends # {} /\ Len(list) + 1 \in Nat
      BY <2>1, <2>4
    <3> HIDE DEF Ends
    <3> QED
      BY <3>1, MaxMinExist
  <2> HIDE DEF e
  <2>7. e \in start .. Len(list) + 1 /\ (e = Len(list) + 1 \/ list[e] = "&")
    <3> HIDE DEF idx
    <3> QED
      BY <2>1, <2>4, <2>6
  <2>8. ASSUME NEW j \in start .. e - 1 PROVE list[j] # "&"
    <3>1. j \in start .. Len(list) /\ ~(e <= j)
      BY <2>1, <2>4, <2>7
    <3> QED
      BY <2>6, <3>1
  <2> HIDE DEF idx
  <2>9. /\ value \in Seq(STRING) /\ Len(value) = e - start
        /\ \A j \in 1 .. e - start : value[j] = list[start + j - 1]
        /\ DOMAIN value = 1 .. Len(value)
    <3>1. start \in 1 .. Len(list) + 2 /\ e - 1 \in 0 .. Len(list)
      BY <2>1, <2>4, <2>7
    <3>2. /\ value \in Seq(STRING)
          /\ Len(value) = IF start <= e - 1 THEN (e - 1) - start + 1 ELSE 0
          /\ \A j \in 1 .. (e - 1) - start + 1 : value[j] = list[start + j - 1]
          /\ DOMAIN value = 1 .. Len(value)
      <4> HIDE DEF start
      <4> QED
        BY <3>1, PartOf
    <3>3. (e - 1) - start + 1 = e - start /\ (~(start <= e - 1) => e - start = 0)
      BY <2>1, <2>4, <2>7
    <3> HIDE DEF value, start
    <3> QED
      BY <3>2, <3>3
  <2>10. Places(value, "&") = {}
    <3> SUFFICES ASSUME NEW j \in 1 .. e - start PROVE value[j] # "&"
      <4> HIDE DEF value, start
      <4> QED
        BY <2>9 DEF Places
    <3>1. start + j - 1 \in start .. e - 1
      BY <2>1, <2>4, <2>7
    <3> HIDE DEF value, start
    <3> QED
      BY <2>8, <2>9, <3>1
  <2> HIDE DEF value
  <2>11. start + Len(value) = e /\ start = key + Len(Name) + 1
    BY <2>1, <2>4, <2>7, <2>9 DEF idx
  <2>12. IsValueOf(list, key, value)
    <3>1. value = SubSeq(list, start, e - 1)
      BY DEF value
    <3>2. e <= Len(list) + 1
      BY <2>1, <2>4, <2>7
    <3> HIDE DEF start, key
    <3> QED
      BY <2>7, <2>10, <2>11, <3>1, <3>2 DEF IsValueOf
  <2> QED
    BY <1>2, <2>1, <2>4, <2>5, <2>12
<1> QED
  BY <1>1, <1>2

(* The user name and the value of the parameter, for every text.             *)
LEMMA ServiceNameFound ==
  ASSUME NEW text \in Seq(STRING)
  PROVE  LET user == SplitUser(text)[1]
             name == ServiceName(text)
             list == SubSeq(text, Len(user) + 2, Len(text))
         IN  /\ text = user \/ text = user \o <<"?">> \o list
             /\ Places(list, "?") = {}
             /\ user = text => Places(user, "?") = {} /\ name = Null
             /\ IsFound(list, name)
<1> DEFINE user == SplitUser(text)[1]
           name == ServiceName(text)
           list == SubSeq(text, Len(user) + 2, Len(text))
<1>0. Len(text) \in Nat /\ Len(Name) \in Nat \ {0}
  BY TextsAssumption, LenProperties, EmptySeq
<1>1. CASE Places(text, "?") = {}
  <2>1. user = text /\ SplitUser(text)[2] = Null
    BY <1>1 DEF SplitUser
  <2>2. name = Null
    BY <2>1 DEF ServiceName
  <2>3. list = <<>>
    <3>1. Len(text) + 2 \in Int /\ Len(text) < Len(text) + 2
      BY <1>0
    <3> QED
      BY <1>0, <2>1, <3>1, SubSeqEmpty
  <2> HIDE DEF user, name, list
  <2>4. Places(list, "?") = {} /\ Occurrences(list) = {}
    BY <1>0, <2>3 DEF Places, Occurrences
  <2>5. IsFound(list, name)
    BY <2>2, <2>4 DEF IsFound
  <2> QED
    BY <1>1, <2>1, <2>2, <2>4, <2>5 DEF user, name, list
<1>2. CASE Places(text, "?") # {}
  <2>1. PICK i \in 1 .. Len(text) :
          /\ text[i] = "?" /\ \A j \in i + 1 .. Len(text) : text[j] # "?"
          /\ user = SubSeq(text, 1, i - 1)
          /\ SplitUser(text)[2] = SubSeq(text, i + 1, Len(text))
    BY <1>2, SplitUserResult
  <2>2. Len(user) = i - 1
    <3>1. 1 \in 1 .. Len(text) + 2 /\ i - 1 \in 0 .. Len(text)
      BY <1>0
    <3>2. Len(SubSeq(text, 1, i - 1)) = IF 1 <= i - 1 THEN (i - 1) - 1 + 1 ELSE 0
      BY <3>1, PartOf
    <3> HIDE DEF user
    <3> QED
      BY <1>0, <2>1, <3>2
  <2>3. list = SubSeq(text, i + 1, Len(text)) /\ SplitUser(text)[2] = list
    <3>1. Len(user) + 2 = i + 1
      BY <2>2
    <3> HIDE DEF user
    <3> QED
      BY <2>1, <3>1
  <2>4. text = user \o <<"?">> \o list
    BY <2>1, <2>3, PartsAround
  <2>5. /\ list \in Seq(STRING) /\ DOMAIN list = 1 .. Len(list)
        /\ Len(list) = Len(text) - i
        /\ \A j \in 1 .. Len(text) - i : list[j] = text[i + j]
    <3>1. i + 1 \in 1 .. Len(text) + 2 /\ Len(text) \in 0 .. Len(text)
      BY <1>0
    <3> DEFINE l == SubSeq(text, i + 1, Len(text))
    <3>2. /\ l \in Seq(STRING) /\ DOMAIN l = 1 .. Len(l)
          /\ Len(l) = IF i + 1 <= Len(text) THEN Len(text) - (i + 1) + 1 ELSE 0
          /\ \A j \in 1 .. Len(text) - (i + 1) + 1 : l[j] = text[(i + 1) + j - 1]
      BY <3>1, PartOf
    <3>3. \A j \in 1 .. Len(text) - i :
            (i + 1) + j - 1 = i + j /\ j \in 1 .. Len(text) - (i + 1) + 1
      BY <1>0
    <3>4. list = l
      BY <2>3
    <3> HIDE DEF l, list
    <3> QED
      BY <1>0, <3>2, <3>3, <3>4
  <2>6. user # text
    <3> HIDE DEF user
    <3> QED
      BY <1>0, <2>2
  <2>7. name = IF list = Null THEN Null ELSE FindParam(list)
    <3> HIDE DEF list
    <3> QED
      BY <2>3 DEF ServiceName
  <2> HIDE DEF user, name, list
  <2>8. Places(list, "?") = {}
    <3> SUFFICES ASSUME NEW j \in 1 .. Len(list) PROVE list[j] # "?"
      BY <2>5 DEF Places
    <3>1. j \in 1 .. Len(text) - i /\ i + j \in i + 1 .. Len(text)
      BY <1>0, <2>5
    <3> QED
      BY <2>1, <2>5, <3>1
  <2>9. IsFound(list, name)
    <3>1. CASE ~HasValue(list)
      <4>1. name = Null
        BY <2>5, <2>7, <3>1, FindParamResult
      <4>2. Occurrences(list) = {} \/ Min(Occurrences(list)) \notin Keys(list)
        BY <3>1 DEF HasValue, Keys
      <4> QED
        BY <4>1, <4>2, Zenon DEF IsFound
    <3>2. CASE HasValue(list)
      <4>1. IsValueOf(list, Min(Occurrences(list)), FindParam(list)) /\ Len(list) >= 2
        BY <2>5, <3>2, FindParamResult
      <4>2. list # Null
        <5>1. Len(Null) = 1
          BY DEF Null
        <5>2. Len(list) >= 2
          BY <4>1
        <5>3. ~(1 >= 2)
          OBVIOUS
        <5> QED
          BY <5>1, <5>2, <5>3, Zenon
      <4>3. name = FindParam(list) /\ Occurrences(list) # {}
        BY <2>7, <3>2, <4>2 DEF HasValue
      <4> QED
        BY <4>1, <4>3, Zenon DEF IsFound
    <3> QED
      BY <3>1, <3>2
  <2> QED
    BY <2>4, <2>6, <2>8, <2>9 DEF user, name, list
<1> QED
  BY <1>1, <1>2

---------------------------------------------------------------------------
(* The payloads *)

(* A length that its four bytes can hold.                                    *)
InFourBytes(n) == n \div 16777216 < 256

(* A length that is written is read again.                                   *)
LEMMA LengthIsRead ==
  ASSUME NEW n \in Nat, InFourBytes(n)
  PROVE  /\ NumberOf(LengthOf(n)) = n
         /\ LengthOf(n) \in Seq(0 .. 255) /\ Len(LengthOf(n)) = 4
<1> DEFINE a == n \div 256
           b == n \div 65536
           c == n \div 16777216
<1>1. a \in Nat /\ b \in Nat /\ c \in 0 .. 255
  BY Z3 DEF InFourBytes
<1>2. b = a \div 256 /\ c = b \div 256
  BY Z3
<1>3. n = 256 * a + (n % 256) /\ a = 256 * b + (a % 256) /\ b = 256 * c + (b % 256) /\ c % 256 = c
  <2>1. n = 256 * a + (n % 256)
    BY Z3
  <2>2. \A x \in Nat : x = 256 * (x \div 256) + (x % 256)
    BY Z3
  <2> HIDE DEF a, b, c
  <2> QED
    BY <1>1, <1>2, <2>1, <2>2
<1>4. n % 256 \in 0 .. 255 /\ a % 256 \in 0 .. 255 /\ b % 256 \in 0 .. 255
  <2> HIDE DEF a, b, c
  <2> QED
    BY <1>1
<1>5. LengthOf(n) = <<n % 256, a % 256, b % 256, c % 256>>
  BY DEF LengthOf
<1> DEFINE w == n % 256
           x == a % 256
           y == b % 256
<1>6. /\ w \in 0 .. 255 /\ x \in 0 .. 255 /\ y \in 0 .. 255
      /\ n = 256 * a + w /\ a = 256 * b + x /\ b = 256 * c + y
      /\ LengthOf(n) = <<w, x, y, c>>
  BY <1>3, <1>4, <1>5
<1> HIDE DEF a, b, c, w, x, y
<1>7. NumberOf(LengthOf(n)) = w + 256 * x + 65536 * y + 16777216 * c
  BY <1>6 DEF NumberOf
<1>8. w + 256 * x + 65536 * y + 16777216 * c = n
  BY <1>1, <1>6
<1>9. LengthOf(n) \in Seq(0 .. 255) /\ Len(LengthOf(n)) = 4
  <2>2. w \in 0 .. 255 /\ x \in 0 .. 255 /\ y \in 0 .. 255 /\ c \in 0 .. 255
    BY <1>1, <1>6
  <2>3. <<w, x, y, c>> \in Seq(0 .. 255) /\ Len(<<w, x, y, c>>) = 4
    BY <2>2
  <2>4. LengthOf(n) = <<w, x, y, c>>
    BY <1>6
  <2> QED
    BY <2>3, <2>4
<1> QED
  BY <1>7, <1>8, <1>9

(* A number is read from its four bytes alone.                               *)
LEMMA NumberOfBytes ==
  ASSUME NEW s, NEW t, s[1] = t[1], s[2] = t[2], s[3] = t[3], s[4] = t[4]
  PROVE  NumberOf(s) = NumberOf(t)
BY DEF NumberOf

(* at says where the parts end in the packet they make.                      *)
IsLayout(at, parts, pkt) ==
  /\ at[0] = 0 /\ Len(pkt) = at[Len(parts)]
  /\ \A c \in 1 .. Len(parts) :
       /\ at[c] = at[c - 1] + Len(parts[c]) /\ at[c] <= Len(pkt)
       /\ \A j \in 1 .. Len(parts[c]) : pkt[at[c - 1] + j] = parts[c][j]

(* t goes on where s ends.                                                   *)
Continues(t, s) == Len(s) <= Len(t) /\ \A j \in 1 .. Len(s) : t[j] = s[j]

(* Both parts of a concatenation, and their places in it.                    *)
LEMMA ConcatParts ==
  ASSUME NEW S, NEW s \in Seq(S), NEW t \in Seq(S)
  PROVE  /\ s \o t \in Seq(S) /\ Len(s \o t) = Len(s) + Len(t)
         /\ \A j \in 1 .. Len(s) : (s \o t)[j] = s[j]
         /\ \A j \in 1 .. Len(t) : (s \o t)[Len(s) + j] = t[j]
<1>1. Len(s) \in Nat /\ Len(t) \in Nat
  BY LenProperties
<1>2. /\ s \o t \in Seq(S) /\ Len(s \o t) = Len(s) + Len(t)
      /\ \A j \in 1 .. Len(s) + Len(t) :
           (s \o t)[j] = IF j <= Len(s) THEN s[j] ELSE t[j - Len(s)]
  BY ConcatProperties
<1> DEFINE u == s \o t
           l == Len(s)
           k == Len(t)
<1> HIDE DEF u, l, k
<1>3. \A j \in 1 .. l : u[j] = s[j]
  BY <1>1, <1>2 DEF u, l, k
<1>4. ASSUME NEW j \in 1 .. k PROVE u[l + j] = t[j]
  <2>1. l \in Nat /\ k \in Nat
    BY <1>1 DEF l, k
  <2>2. l + j \in 1 .. l + k /\ ~(l + j <= l) /\ (l + j) - l = j
    BY <2>1
  <2>3. u[l + j] = IF l + j <= l THEN s[l + j] ELSE t[(l + j) - l]
    BY <1>2, <2>2 DEF u, l, k
  <2> QED
    BY <2>2, <2>3
<1> QED
  BY <1>2, <1>3, <1>4 DEF u, l, k

(* Parts that are put one after the other can be found again.                *)
LEMMA FlattenLayout ==
  ASSUME NEW S, NEW parts \in Seq(Seq(S))
  PROVE  /\ FlattenSeq(parts) \in Seq(S)
         /\ \E at \in [0 .. Len(parts) -> Nat] : IsLayout(at, parts, FlattenSeq(parts))
<1> DEFINE N == Len(parts)
           pkt == FlattenSeq(parts)
<1>1. N \in Nat /\ \A n \in 1 .. N : parts[n] \in Seq(S)
  BY LenProperties, ElementOfSeq
<1>2. CASE N = 0
  <2>1. parts = <<>> /\ <<>> \in Seq(S)
    BY <1>2, EmptySeq, LenProperties
  <2>2. pkt = <<>> /\ Len(<<>>) = 0
    BY <1>2, <2>1 DEF FlattenSeq
  <2> DEFINE at == [i \in 0 .. N |-> 0]
  <2>3. at \in [0 .. N -> Nat] /\ at[0] = 0 /\ at[N] = 0
    BY <1>2
  <2> HIDE DEF at
  <2>4. IsLayout(at, parts, pkt)
    BY <1>2, <2>2, <2>3 DEF IsLayout
  <2> QED
    BY <2>1, <2>2, <2>3, <2>4
<1>3. CASE N # 0
  <2> DEFINE G == [q \in Seq(S) \X (1 + 1 .. N) |-> q[1] \o parts[q[2]]]
             flat == CHOOSE flat : flat = [i \in 1 .. N |->
                                             IF i = 1 THEN parts[i] ELSE flat[i - 1] \o parts[i]]
  <2>1. pkt = flat[N]
    BY <1>3 DEF FlattenSeq
  <2>2. G \in [Seq(S) \X (1 + 1 .. N) -> Seq(S)]
    <3>1. ASSUME NEW s \in Seq(S), NEW n \in 1 + 1 .. N PROVE s \o parts[n] \in Seq(S)
      BY <1>1, ConcatProperties
    <3> HIDE DEF N
    <3> QED
      BY <3>1
  <2> HIDE DEF flat, N
  <2>17. ASSUME NEW s \in Seq(S), NEW n \in 1 + 1 .. N PROVE G[<<s, n>>] = s \o parts[n]
    OBVIOUS
  <2> HIDE DEF G
  <2>3. PICK f \in [1 .. N -> Seq(S)] : IsLoop(f, parts[1], 1, N, G)
    <3>1. parts[1] \in Seq(S) /\ 1 \in Nat /\ N \in Int /\ N >= 1
      BY <1>1, <1>3 DEF N
    <3> QED
      BY <2>2, <3>1, LoopExists
  <2>4. ASSUME NEW i \in 1 .. N, i # 1 PROVE f[i] = f[i - 1] \o parts[i]
    <3>1. i \in 1 + 1 .. N /\ i - 1 \in 1 .. N
      BY <1>1, <2>4
    <3>2. f[i - 1] \in Seq(S)
      BY <2>3, <3>1
    <3>3. f[i] = G[<<f[i - 1], i>>]
      BY <2>3, <3>1 DEF IsLoop
    <3> QED
      BY <2>17, <3>1, <3>2, <3>3
  <2>5. f = [i \in 1 .. N |-> IF i = 1 THEN parts[i] ELSE f[i - 1] \o parts[i]]
    BY <2>3, <2>4 DEF IsLoop
  <2>6. flat = [i \in 1 .. N |-> IF i = 1 THEN parts[i] ELSE flat[i - 1] \o parts[i]]
    BY <2>5 DEF flat
  <2> DEFINE all == [i \in 0 .. N |-> IF i = 0 THEN <<>> ELSE flat[i]]
             at == [i \in 0 .. N |-> Len(all[i])]
  <2>7. ASSUME NEW n \in 1 .. N, all[n - 1] \in Seq(S) PROVE all[n] = all[n - 1] \o parts[n]
    <3>1. CASE n = 1
      <4>1. all[n - 1] = <<>> /\ all[n] = parts[n]
        BY <1>1, <2>6, <3>1
      <4>2. parts[n] \in Seq(S)
        BY <1>1
      <4> HIDE DEF all
      <4> QED
        BY <4>1, <4>2, ConcatEmptySeq
    <3>2. CASE n # 1
      <4>1. n - 1 \in 1 .. N /\ n - 1 \in 0 .. N /\ n \in 0 .. N
        BY <1>1, <3>2
      <4>2. all[n - 1] = flat[n - 1] /\ all[n] = flat[n]
        BY <3>2, <4>1
      <4> HIDE DEF all, N
      <4> QED
        BY <2>6, <3>2, <4>2
    <3> QED
      BY <3>1, <3>2
  <2>8. all[0] = <<>> /\ all[N] = pkt
    BY <1>1, <1>3, <2>1
  <2> HIDE DEF all
  <2> DEFINE T == {n \in Nat : n <= N => all[n] \in Seq(S)}
  <2>9. \A n \in 0 .. N : all[n] \in Seq(S)
    <3>1. 0 \in T
      BY <2>8, EmptySeq
    <3>2. ASSUME NEW n \in Nat, n \in T PROVE n + 1 \in T
      <4> SUFFICES ASSUME n + 1 <= N PROVE all[n + 1] \in Seq(S)
        OBVIOUS
      <4>1. all[n] \in Seq(S) /\ n + 1 \in 1 .. N /\ (n + 1) - 1 = n
        BY <1>1, <3>2
      <4>2. all[n + 1] = all[n] \o parts[n + 1] /\ parts[n + 1] \in Seq(S)
        BY <1>1, <2>7, <4>1
      <4> QED
        BY <4>1, <4>2, ConcatProperties
    <3> HIDE DEF T
    <3>3. \A n \in Nat : n \in T
      BY <3>1, <3>2, SetInduction
    <3> QED
      BY <1>1, <3>3 DEF T
  <2>10. ASSUME NEW n \in 1 .. N
         PROVE  /\ all[n] \in Seq(S) /\ all[n - 1] \in Seq(S)
                /\ Len(all[n]) = Len(all[n - 1]) + Len(parts[n])
                /\ \A j \in 1 .. Len(all[n - 1]) : all[n][j] = all[n - 1][j]
                /\ \A j \in 1 .. Len(parts[n]) : all[n][Len(all[n - 1]) + j] = parts[n][j]
    <3>1. all[n] \in Seq(S) /\ all[n - 1] \in Seq(S) /\ parts[n] \in Seq(S)
      BY <1>1, <2>9
    <3>2. all[n] = all[n - 1] \o parts[n]
      BY <2>7, <3>1
    <3> DEFINE s == all[n - 1]
               t == parts[n]
               u == all[n]
    <3>3. s \in Seq(S) /\ t \in Seq(S) /\ u = s \o t
      BY <3>1, <3>2
    <3> HIDE DEF s, t, u
    <3>4. /\ u \in Seq(S) /\ Len(u) = Len(s) + Len(t)
          /\ \A j \in 1 .. Len(s) : u[j] = s[j]
          /\ \A j \in 1 .. Len(t) : u[Len(s) + j] = t[j]
      BY <3>3, ConcatParts
    <3> QED
      BY <3>3, <3>4 DEF s, t, u
  <2> DEFINE Keeps(c, n) == Continues(all[n], all[c])
             U == {k \in Nat : \A c \in 0 .. N : c + k <= N => Keeps(c, c + k)}
  <2>11. \A c \in 0 .. N : Keeps(c, N)
    <3>0. \A c \in 0 .. N : Len(all[c]) \in Nat
      BY <2>9, LenProperties
    <3>1. 0 \in U
      BY <3>0 DEF Continues
    <3>2. ASSUME NEW k \in Nat, k \in U PROVE k + 1 \in U
      <4> SUFFICES ASSUME NEW c \in 0 .. N, c + (k + 1) <= N PROVE Keeps(c, c + (k + 1))
        OBVIOUS
      <4> DEFINE n == c + (k + 1)
      <4>1. n \in 1 .. N /\ n - 1 = c + k /\ c + k \in 0 .. N /\ n \in 0 .. N
        BY <1>1
      <4>2. Keeps(c, n - 1)
        BY <3>2, <4>1
      <4>3. /\ Len(all[c]) \in Nat /\ Len(all[n - 1]) \in Nat /\ Len(all[n]) \in Nat
            /\ Len(parts[n]) \in Nat /\ Len(all[n]) = Len(all[n - 1]) + Len(parts[n])
            /\ \A j \in 1 .. Len(all[n - 1]) : all[n][j] = all[n - 1][j]
        BY <1>1, <2>10, <3>0, <4>1, LenProperties
      <4> DEFINE s == all[c]
                 t == all[n - 1]
                 u == all[n]
      <4>4. Continues(t, s) /\ Continues(u, t)
        <5>1. Len(t) <= Len(u)
          <6>1. \A x, y, z \in Nat : z = x + y => x <= z
            OBVIOUS
          <6> HIDE DEF n, all
          <6> QED
            BY <4>3, <6>1
        <5>2. Continues(u, t)
          BY <4>3, <5>1 DEF Continues
        <5>3. Continues(t, s)
          BY <4>2
        <5> QED
          BY <5>2, <5>3
      <4>5. Len(s) \in Nat /\ Len(t) \in Nat /\ Len(u) \in Nat
        BY <4>3
      <4> HIDE DEF s, t, u
      <4>6. Continues(u, s)
        BY <4>4, <4>5 DEF Continues
      <4> QED
        BY <4>6 DEF s, u
    <3> HIDE DEF U
    <3>3. \A k \in Nat : k \in U
      BY <3>1, <3>2, SetInduction
    <3> SUFFICES ASSUME NEW c \in 0 .. N PROVE Keeps(c, N)
      OBVIOUS
    <3>4. N - c \in Nat /\ c + (N - c) = N
      BY <1>1
    <3>5. N - c \in U
      BY <3>3, <3>4
    <3>6. \A d \in 0 .. N : d + (N - c) <= N => Keeps(d, d + (N - c))
      BY <3>5 DEF U
    <3>7. c + (N - c) <= N
      BY <3>4, <1>1
    <3> HIDE DEF Keeps
    <3> QED
      BY <3>4, <3>6, <3>7
  <2>12. at \in [0 .. N -> Nat] /\ at[0] = 0 /\ at[N] = Len(pkt)
    BY <1>1, <2>8, <2>9, LenProperties, EmptySeq
  <2>13. ASSUME NEW c \in 1 .. N
         PROVE  /\ at[c] = at[c - 1] + Len(parts[c]) /\ at[c] <= Len(pkt)
                /\ \A j \in 1 .. Len(parts[c]) : pkt[at[c - 1] + j] = parts[c][j]
    <3>1. at[c] = Len(all[c]) /\ at[c - 1] = Len(all[c - 1]) /\ c \in 0 .. N
      BY <1>1
    <3>2. at[c] \in Nat /\ at[c - 1] \in Nat /\ Len(parts[c]) \in Nat
      BY <1>1, <2>12, LenProperties
    <3>3. Keeps(c, N)
      BY <2>11, <3>1
    <3> HIDE DEF at
    <3>4. /\ Len(all[c]) = Len(all[c - 1]) + Len(parts[c])
          /\ \A j \in 1 .. Len(parts[c]) : all[c][Len(all[c - 1]) + j] = parts[c][j]
      BY <2>10
    <3>5. Len(all[c]) <= Len(pkt) /\ \A j \in 1 .. Len(all[c]) : pkt[j] = all[c][j]
      BY <2>8, <3>3 DEF Continues
    <3> DEFINE a == at[c]
               b == at[c - 1]
               k == Len(parts[c])
               s == all[c]
               t == parts[c]
    <3>6. /\ a \in Nat /\ b \in Nat /\ k \in Nat /\ a = b + k /\ a <= Len(pkt)
          /\ \A j \in 1 .. k : s[b + j] = t[j]
          /\ \A j \in 1 .. a : pkt[j] = s[j]
      BY <3>1, <3>2, <3>4, <3>5
    <3> HIDE DEF a, b, k, s, t, pkt
    <3>7. \A j \in 1 .. k : b + j \in 1 .. a
      BY <3>6
    <3>8. \A j \in 1 .. k : pkt[b + j] = t[j]
      BY <3>6, <3>7
    <3> QED
      BY <3>6, <3>8 DEF a, b, k, t
  <2> HIDE DEF at
  <2>15. pkt \in Seq(S)
    <3>1. N \in 0 .. N
      BY <1>1
    <3> HIDE DEF pkt, N
    <3> QED
      BY <2>8, <2>9, <3>1
  <2>14. IsLayout(at, parts, pkt)
    <3> HIDE DEF pkt
    <3> QED
      BY <2>12, <2>13 DEF IsLayout, N
  <2> HIDE DEF pkt
  <2>16. \E p \in [0 .. N -> Nat] : IsLayout(p, parts, pkt)
    BY <2>12, <2>14
  <2> QED
    BY <2>15, <2>16 DEF pkt, N
<1> QED
  BY <1>2, <1>3

(* A byte of a payload.                                                      *)
Octet == 0 .. 255

(* The bytes of a frame of the server.                                       *)
LEMMA ServerFrameBytes ==
  ASSUME NEW m \in Seq(Octet), InFourBytes(Len(m))
  PROVE  /\ ServerFrame(m) \in Seq(Octet) /\ Len(ServerFrame(m)) = 4 + Len(m)
         /\ \A j \in 1 .. 4 : ServerFrame(m)[j] = LengthOf(Len(m))[j]
         /\ \A j \in 1 .. Len(m) : ServerFrame(m)[4 + j] = m[j]
<1> DEFINE l == LengthOf(Len(m))
<1>1. Len(m) \in Nat
  BY LenProperties
<1>2. l \in Seq(Octet) /\ Len(l) = 4
  BY <1>1, LengthIsRead DEF Octet
<1> HIDE DEF l
<1> DEFINE u == ServerFrame(m)
<1>3. u = l \o m
  BY DEF ServerFrame, l
<1> HIDE DEF u
<1>4. /\ u \in Seq(Octet) /\ Len(u) = Len(l) + Len(m)
      /\ \A j \in 1 .. Len(l) : u[j] = l[j]
      /\ \A j \in 1 .. Len(m) : u[Len(l) + j] = m[j]
  <2>1. l \in Seq(Octet)
    BY <1>2
  <2> QED
    BY <1>3, <2>1, ConcatParts
<1> QED
  BY <1>2, <1>4 DEF l, u

(* The bytes of a frame of the client: done, and then what the server sends. *)
LEMMA ClientFrameBytes ==
  ASSUME NEW d \in Octet, NEW m \in Seq(Octet), InFourBytes(Len(m)),
         NEW f, f = [done |-> d, message |-> m]
  PROVE  /\ ClientFrame(f) \in Seq(Octet) /\ Len(ClientFrame(f)) = 5 + Len(m)
         /\ ClientFrame(f)[1] = d
         /\ \A j \in 1 .. 4 + Len(m) : ClientFrame(f)[1 + j] = ServerFrame(m)[j]
<1> DEFINE l == LengthOf(Len(m))
           o == <<d>>
<1>1. Len(m) \in Nat
  BY LenProperties
<1>2. l \in Seq(Octet) /\ Len(l) = 4
  BY <1>1, LengthIsRead DEF Octet
<1>3. o \in Seq(Octet) /\ Len(o) = 1 /\ o[1] = d
  OBVIOUS
<1> HIDE DEF l, o
<1>4. ServerFrame(m) = l \o m /\ ClientFrame(f) = o \o l \o m
  BY DEF ServerFrame, ClientFrame, l, o
<1>5. o \o l \o m = o \o (l \o m)
  BY <1>2, <1>3, ConcatAssociative
<1> DEFINE s == ServerFrame(m)
<1>6. s \in Seq(Octet) /\ Len(s) = 4 + Len(m)
  BY ServerFrameBytes
<1> DEFINE u == ClientFrame(f)
<1>7. u = o \o s
  BY <1>4, <1>5
<1> HIDE DEF s, u
<1>8. /\ u \in Seq(Octet) /\ Len(u) = Len(o) + Len(s)
      /\ \A j \in 1 .. Len(o) : u[j] = o[j]
      /\ \A j \in 1 .. Len(s) : u[Len(o) + j] = s[j]
  <2>1. o \in Seq(Octet) /\ s \in Seq(Octet)
    BY <1>3, <1>6
  <2> QED
    BY <1>7, <2>1, ConcatParts
<1>9. Len(u) = 5 + Len(m)
  BY <1>1, <1>3, <1>6, <1>8
<1>10. u[1] = d
  BY <1>3, <1>8
<1>11. \A j \in 1 .. 4 + Len(m) : u[1 + j] = s[j]
  BY <1>3, <1>6, <1>8
<1> QED
  BY <1>8, <1>9, <1>10, <1>11 DEF s, u

(* The message of a frame that lies in a packet is read from it.             *)
LEMMA FrameIsRead ==
  ASSUME NEW pkt \in Seq(Octet), NEW p \in Nat \ {0}, NEW m \in Seq(Octet),
         InFourBytes(Len(m)), p + 3 + Len(m) <= Len(pkt),
         \A j \in 1 .. 4 + Len(m) : pkt[p + j - 1] = ServerFrame(m)[j]
  PROVE  /\ NumberOf(SubSeq(pkt, p, p + 3)) = Len(m)
         /\ SubSeq(pkt, p + 4, p + 3 + Len(m)) = m
<1> DEFINE n == Len(m)
           k == Len(pkt)
<1>1. n \in Nat /\ k \in Nat /\ p + 3 + n <= k
  BY LenProperties
<1>2. \A j \in 1 .. k : pkt[j] \in Octet
  BY LenProperties, ElementOfSeq
<1>3. NumberOf(SubSeq(pkt, p, p + 3)) = n
  <2> DEFINE s == SubSeq(pkt, p, p + 3)
             t == LengthOf(n)
  <2> HIDE DEF n, k
  <2>1. \A j \in p .. p + 3 : pkt[j] \in Octet
    BY <1>1, <1>2
  <2>2. \A j \in 1 .. (p + 3) - p + 1 : s[j] = pkt[p + j - 1]
    BY <2>1, SubSeqProperties
  <2>3. \A j \in 1 .. 4 : s[j] = pkt[p + j - 1]
    BY <2>2
  <2>4. \A j \in 1 .. 4 : pkt[p + j - 1] = ServerFrame(m)[j]
    BY <1>1 DEF n
  <2>5. \A j \in 1 .. 4 : ServerFrame(m)[j] = t[j]
    BY ServerFrameBytes DEF n
  <2> HIDE DEF s, t
  <2>6. \A j \in 1 .. 4 : s[j] = t[j]
    BY <2>3, <2>4, <2>5
  <2>7. s[1] = t[1] /\ s[2] = t[2] /\ s[3] = t[3] /\ s[4] = t[4]
    BY <2>6
  <2>8. NumberOf(s) = NumberOf(t)
    BY <2>7, NumberOfBytes
  <2>9. NumberOf(t) = n
    BY <1>1, LengthIsRead DEF t, n
  <2> QED
    BY <2>8, <2>9 DEF s
<1>4. SubSeq(pkt, p + 4, p + 3 + n) = m
  <2> DEFINE s == SubSeq(pkt, p + 4, p + 3 + n)
  <2> HIDE DEF n, k
  <2>1. \A j \in p + 4 .. p + 3 + n : pkt[j] \in Octet
    BY <1>1, <1>2
  <2>2. p + 4 \in Int /\ p + 3 + n \in Int
    BY <1>1
  <2>3. /\ s \in Seq(Octet) /\ Len(s) = IF p + 4 <= p + 3 + n THEN (p + 3 + n) - (p + 4) + 1 ELSE 0
        /\ \A j \in 1 .. (p + 3 + n) - (p + 4) + 1 : s[j] = pkt[(p + 4) + j - 1]
    BY <2>1, <2>2, SubSeqProperties
  <2>4. Len(s) = n /\ (p + 3 + n) - (p + 4) + 1 = n
    BY <1>1, <2>3
  <2>5. ASSUME NEW j \in 1 .. n PROVE s[j] = m[j]
    <3>1. 4 + j \in 1 .. 4 + n /\ p + (4 + j) - 1 = (p + 4) + j - 1
      BY <1>1
    <3>2. s[j] = pkt[(p + 4) + j - 1]
      BY <2>3, <2>4
    <3>3. pkt[p + (4 + j) - 1] = ServerFrame(m)[4 + j]
      BY <3>1 DEF n
    <3>4. ServerFrame(m)[4 + j] = m[j]
      BY ServerFrameBytes DEF n
    <3> QED
      BY <3>1, <3>2, <3>3, <3>4
  <2> HIDE DEF s
  <2>6. Len(s) = Len(m) /\ \A i \in 1 .. Len(s) : s[i] = m[i]
    BY <2>4, <2>5 DEF n
  <2>7. s = m
    BY <2>3, <2>6, SeqEqual
  <2> QED
    BY <2>7 DEF s
<1> QED
  BY <1>3, <1>4

(* A prefix grows by the next element.                                       *)
LEMMA PrefixGrows ==
  ASSUME NEW S, NEW s \in Seq(S), NEW c \in 1 .. Len(s)
  PROVE  Append(SubSeq(s, 1, c - 1), s[c]) = SubSeq(s, 1, c)
<1>1. \A i \in 1 .. c : s[i] \in S
  BY LenProperties, ElementOfSeq
<1> DEFINE u == SubSeq(s, 1, c - 1)
           t == SubSeq(s, 1, c)
           v == Append(u, s[c])
<1>2. 1 \in Int /\ c \in Int /\ c - 1 \in Int /\ c >= 1
  OBVIOUS
<1>3. /\ u \in Seq(S) /\ Len(u) = c - 1
      /\ \A i \in 1 .. c - 1 : u[i] = s[i]
  <2>1. \A i \in 1 .. c - 1 : s[i] \in S
    BY <1>1, <1>2
  <2>2. /\ u \in Seq(S) /\ Len(u) = IF 1 <= c - 1 THEN (c - 1) - 1 + 1 ELSE 0
        /\ \A i \in 1 .. (c - 1) - 1 + 1 : u[i] = s[1 + i - 1]
    BY <1>2, <2>1, SubSeqProperties
  <2> HIDE DEF u
  <2> QED
    BY <1>2, <2>2
<1>4. t \in Seq(S) /\ Len(t) = c /\ \A i \in 1 .. c : t[i] = s[i]
  <2>1. /\ t \in Seq(S) /\ Len(t) = IF 1 <= c THEN c - 1 + 1 ELSE 0
        /\ \A i \in 1 .. c - 1 + 1 : t[i] = s[1 + i - 1]
    BY <1>1, <1>2, SubSeqProperties
  <2> HIDE DEF t
  <2> QED
    BY <1>2, <2>1
<1> HIDE DEF u, t
<1>5. s[c] \in S
  BY <1>1, <1>2
<1>6. /\ v \in Seq(S) /\ Len(v) = Len(u) + 1
      /\ \A i \in 1 .. Len(u) : v[i] = u[i]
      /\ v[Len(u) + 1] = s[c]
  BY <1>3, <1>5, AppendProperties
<1> HIDE DEF v
<1>7. Len(v) = Len(t) /\ \A i \in 1 .. Len(v) : v[i] = t[i]
  BY <1>2, <1>3, <1>4, <1>6
<1>8. v = t
  BY <1>4, <1>6, <1>7, SeqEqual
<1> QED
  BY <1>8 DEF v, u, t

(* What write_payload is given of each conversation.                         *)
Frame == [done : {0, 1}, message : Seq(Octet)]

(* Whatever number of conversations there are, the payload of the client     *)
(* fills its room, and its frames are read from it again.                    *)
LEMMA ClientPayloadIsRead ==
  ASSUME NEW frames \in Seq(Frame),
         \A n \in 1 .. Len(frames) : InFourBytes(Len(frames[n].message))
  PROVE  /\ Len(WritePayload(frames).bytes) = WritePayload(frames).room
         /\ ClientFrames(WritePayload(frames).bytes, Len(frames)) = frames
<1> DEFINE N == Len(frames)
           msg(n) == frames[n].message
           parts == [n \in DOMAIN frames |-> ClientFrame(frames[n])]
           pkt == FlattenSeq(parts)
<1>1. N \in Nat /\ DOMAIN frames = 1 .. N
  BY LenProperties
<1>2. ASSUME NEW n \in 1 .. N
      PROVE  /\ frames[n] = [done |-> frames[n].done, message |-> msg(n)]
             /\ frames[n].done \in Octet /\ msg(n) \in Seq(Octet) /\ Len(msg(n)) \in Nat
             /\ InFourBytes(Len(msg(n)))
  <2>1. frames[n] \in Frame
    BY ElementOfSeq
  <2> DEFINE f == frames[n]
  <2> HIDE DEF f
  <2>2. f = [done |-> f.done, message |-> f.message] /\ f.done \in Octet /\ f.message \in Seq(Octet)
    BY <2>1 DEF f, Frame, Octet
  <2>3. Len(f.message) \in Nat
    BY <2>2, LenProperties
  <2> QED
    BY <2>2, <2>3 DEF f
<1>3. ASSUME NEW n \in 1 .. N
      PROVE  /\ parts[n] \in Seq(Octet) /\ Len(parts[n]) = 5 + Len(msg(n))
             /\ parts[n][1] = frames[n].done
             /\ \A j \in 1 .. 4 + Len(msg(n)) : parts[n][1 + j] = ServerFrame(msg(n))[j]
  <2>1. parts[n] = ClientFrame(frames[n])
    BY <1>1
  <2> DEFINE d == frames[n].done
             m == msg(n)
             f == frames[n]
  <2>2. d \in Octet /\ m \in Seq(Octet) /\ InFourBytes(Len(m)) /\ f = [done |-> d, message |-> m]
    BY <1>2
  <2> HIDE DEF d, m, f
  <2>3. /\ ClientFrame(f) \in Seq(Octet) /\ Len(ClientFrame(f)) = 5 + Len(m)
        /\ ClientFrame(f)[1] = d
        /\ \A j \in 1 .. 4 + Len(m) : ClientFrame(f)[1 + j] = ServerFrame(m)[j]
    BY <2>2, ClientFrameBytes
  <2> QED
    BY <2>1, <2>3 DEF d, m, f
<1>4. parts \in Seq(Seq(Octet)) /\ Len(parts) = N
  <2>1. DOMAIN parts = 1 .. N /\ \A n \in 1 .. N : parts[n] \in Seq(Octet)
    BY <1>1, <1>3
  <2>2. parts = [n \in 1 .. N |-> parts[n]]
    BY <1>1
  <2> HIDE DEF parts, N
  <2> QED
    BY <1>1, <2>1, <2>2
<1>5. pkt \in Seq(Octet) /\ \E at \in [0 .. Len(parts) -> Nat] : IsLayout(at, parts, pkt)
  <2> HIDE DEF parts
  <2> QED
    BY <1>4, FlattenLayout
<1>6. PICK at \in [0 .. N -> Nat] : IsLayout(at, parts, pkt)
  <2> HIDE DEF parts, pkt, N
  <2> QED
    BY <1>4, <1>5
<1>7. at[0] = 0 /\ Len(pkt) = at[N]
  <2> HIDE DEF parts, pkt, N
  <2> QED
    BY <1>4, <1>6 DEF IsLayout
<1>8. ASSUME NEW n \in 1 .. N
      PROVE  /\ n - 1 \in 0 .. N /\ at[n] \in Nat /\ at[n - 1] \in Nat
             /\ at[n] = at[n - 1] + Len(msg(n)) + 5 /\ at[n] <= Len(pkt)
             /\ \A j \in 1 .. 5 + Len(msg(n)) : pkt[at[n - 1] + j] = parts[n][j]
  <2>1. /\ at[n] = at[n - 1] + Len(parts[n]) /\ at[n] <= Len(pkt)
        /\ \A j \in 1 .. Len(parts[n]) : pkt[at[n - 1] + j] = parts[n][j]
    <3> HIDE DEF parts, pkt, N
    <3> QED
      BY <1>4, <1>6 DEF IsLayout
  <2>2. n - 1 \in 0 .. N /\ n \in 0 .. N
    BY <1>1
  <2>3. at[n] \in Nat /\ at[n - 1] \in Nat
    BY <1>6, <2>2
  <2>4. Len(parts[n]) = 5 + Len(msg(n)) /\ Len(msg(n)) \in Nat
    BY <1>2, <1>3
  <2> HIDE DEF parts, pkt, N, msg
  <2> QED
    BY <2>1, <2>2, <2>3, <2>4
<1>9. PayloadSize(frames) = at[N]
  <2> DEFINE size == CHOOSE size : size = [n \in 0 .. N |->
                       IF n = 0 THEN 0 ELSE size[n - 1] + Len(frames[n].message) + 5]
  <2>1. PayloadSize(frames) = size[N]
    BY DEF PayloadSize
  <2>2. at = [n \in 0 .. N |-> IF n = 0 THEN 0 ELSE at[n - 1] + Len(frames[n].message) + 5]
    <3> HIDE DEF parts, pkt, N
    <3> QED
      BY <1>1, <1>6, <1>7, <1>8
  <2>3. size = [n \in 0 .. N |-> IF n = 0 THEN 0 ELSE size[n - 1] + Len(frames[n].message) + 5]
    BY <2>2
  <2> HIDE DEF size
  <2> DEFINE S == {n \in Nat : n <= N => size[n] = at[n]}
  <2>4. 0 \in S
    BY <1>1, <1>7, <2>3
  <2>5. ASSUME NEW n \in Nat, n \in S PROVE n + 1 \in S
    <3> SUFFICES ASSUME n + 1 <= N PROVE size[n + 1] = at[n + 1]
      OBVIOUS
    <3>1. n + 1 \in 1 .. N /\ n + 1 \in 0 .. N /\ n + 1 # 0 /\ (n + 1) - 1 = n
      BY <1>1
    <3>2. at[n + 1] = at[n] + Len(msg(n + 1)) + 5
      BY <1>8, <3>1
    <3>3. size[n] = at[n]
      BY <1>1, <2>5
    <3>4. size[n + 1] = size[n] + Len(frames[n + 1].message) + 5
      BY <2>3, <3>1
    <3> QED
      BY <3>2, <3>3, <3>4
  <2> HIDE DEF S
  <2>6. \A n \in Nat : n \in S
    BY <2>4, <2>5, SetInduction
  <2>7. N <= N /\ N \in S
    BY <1>1, <2>6
  <2> QED
    BY <2>1, <2>7 DEF S
<1>10. ClientFrames(pkt, N) = frames
  <2> DEFINE Step(s, c) == LET len == NumberOf(SubSeq(pkt, s.place + 1, s.place + 4))
               IN  [place  |-> s.place + 5 + len,
                    frames |-> Append(s.frames,
                      [done    |-> pkt[s.place],
                       message |-> SubSeq(pkt, s.place + 5, s.place + 4 + len)])]
             cut == CHOOSE cut : cut = [c \in 0 .. N |->
               IF c = 0 THEN [place |-> 1, frames |-> <<>>] ELSE Step(cut[c - 1], c)]
             val(c) == [place |-> at[c] + 1, frames |-> SubSeq(frames, 1, c)]
             w == [c \in 0 .. N |-> val(c)]
  <2>1. ClientFrames(pkt, N) = cut[N].frames
    BY DEF ClientFrames
  <2>2. w[0] = [place |-> 1, frames |-> <<>>]
    <3>1. SubSeq(frames, 1, 0) = <<>>
      BY SubSeqEmpty
    <3> QED
      BY <1>1, <1>7, <3>1
  <2>3. ASSUME NEW c \in 1 .. N PROVE w[c] = Step(w[c - 1], c)
    <3> DEFINE s == w[c - 1]
               p == at[c - 1] + 1
               m == msg(c)
    <3>1. s = [place |-> p, frames |-> SubSeq(frames, 1, c - 1)] /\ p \in Nat /\ p # 0
      BY <1>8
    <3>2. m \in Seq(Octet) /\ Len(m) \in Nat /\ InFourBytes(Len(m))
      BY <1>2
    <3>3. (p + 1) + 3 + Len(m) <= Len(pkt)
      <4>1. /\ at[c] = at[c - 1] + Len(m) + 5 /\ at[c] <= Len(pkt)
            /\ at[c] \in Nat /\ at[c - 1] \in Nat
        BY <1>8
      <4> HIDE DEF m, pkt
      <4>2. (p + 1) + 3 + Len(m) = at[c]
        BY <3>2, <4>1
      <4> QED
        BY <4>1, <4>2
    <3>4. ASSUME NEW j \in 1 .. 4 + Len(m) PROVE pkt[(p + 1) + j - 1] = ServerFrame(m)[j]
      <4>1. (p + 1) + j - 1 = at[c - 1] + (1 + j) /\ 1 + j \in 1 .. 5 + Len(m)
        <5>1. \A a, l \in Nat : \A k \in 1 .. 4 + l :
                ((a + 1) + 1) + k - 1 = a + (1 + k) /\ 1 + k \in 1 .. 5 + l
          OBVIOUS
        <5>2. at[c - 1] \in Nat
          BY <1>8
        <5> HIDE DEF m
        <5> QED
          BY <3>2, <5>1, <5>2
      <4>2. pkt[at[c - 1] + (1 + j)] = parts[c][1 + j]
        BY <1>8, <4>1
      <4>3. parts[c][1 + j] = ServerFrame(m)[j]
        BY <1>3
      <4> QED
        BY <4>1, <4>2, <4>3
    <3>5. /\ NumberOf(SubSeq(pkt, p + 1, (p + 1) + 3)) = Len(m)
          /\ SubSeq(pkt, (p + 1) + 4, (p + 1) + 3 + Len(m)) = m
      <4>1. p + 1 \in Nat \ {0}
        BY <3>1
      <4> HIDE DEF p, m, pkt, parts
      <4> QED
        BY <1>5, <3>2, <3>3, <3>4, <4>1, FrameIsRead
    <3>6. /\ (p + 1) + 3 = p + 4 /\ (p + 1) + 4 = p + 5 /\ (p + 1) + 3 + Len(m) = p + 4 + Len(m)
          /\ p + 5 + Len(m) = at[c] + 1
      <4>1. at[c] = at[c - 1] + Len(m) + 5 /\ at[c] \in Nat /\ at[c - 1] \in Nat
        BY <1>8
      <4> HIDE DEF m, pkt
      <4> QED
        BY <3>2, <4>1
    <3>7. pkt[p] = frames[c].done
      <4>1. 1 \in 1 .. 5 + Len(m)
        BY <3>2
      <4>2. pkt[at[c - 1] + 1] = parts[c][1]
        BY <1>8, <4>1
      <4> QED
        BY <1>3, <4>2
    <3>8. Append(SubSeq(frames, 1, c - 1), frames[c]) = SubSeq(frames, 1, c)
      BY PrefixGrows
    <3>9. frames[c] = [done |-> frames[c].done, message |-> m]
      BY <1>2
    <3>10. w[c] = [place |-> at[c] + 1, frames |-> SubSeq(frames, 1, c)]
      BY <1>1
    <3> HIDE DEF w, p, m, pkt, parts, s
    <3>11. s.place = p /\ s.frames = SubSeq(frames, 1, c - 1)
      BY <3>1
    <3>12. NumberOf(SubSeq(pkt, p + 1, p + 4)) = Len(m) /\ SubSeq(pkt, p + 5, p + 4 + Len(m)) = m
      BY <3>5, <3>6
    <3>13. Step(s, c) = [place |-> p + 5 + Len(m), frames |-> Append(SubSeq(frames, 1, c - 1),
                          [done |-> pkt[p], message |-> SubSeq(pkt, p + 5, p + 4 + Len(m))])]
      BY <3>11, <3>12
    <3>14. Step(s, c) = w[c]
      BY <3>6, <3>7, <3>8, <3>9, <3>10, <3>12, <3>13
    <3> QED
      BY <3>14 DEF s
  <2>4. w = [c \in 0 .. N |-> IF c = 0 THEN [place |-> 1, frames |-> <<>>] ELSE Step(w[c - 1], c)]
    <3>1. w = [c \in 0 .. N |-> w[c]]
      <4> HIDE DEF val, N
      <4> QED
        OBVIOUS
    <3>2. \A c \in 0 .. N : c = 0 \/ c \in 1 .. N
      BY <1>1
    <3> HIDE DEF w, Step, N
    <3> QED
      BY <2>2, <2>3, <3>1, <3>2
  <2>5. cut = [c \in 0 .. N |->
                IF c = 0 THEN [place |-> 1, frames |-> <<>>] ELSE Step(cut[c - 1], c)]
    <3> HIDE DEF w, Step, N
    <3> QED
      BY <2>4
  <2> HIDE DEF cut, Step, w
  <2> DEFINE S == {n \in Nat : n <= N => cut[n] = w[n]}
  <2>6. 0 \in S
    <3> QED
      BY <1>1, <2>2, <2>5
  <2>7. ASSUME NEW n \in Nat, n \in S PROVE n + 1 \in S
    <3> SUFFICES ASSUME n + 1 <= N PROVE cut[n + 1] = w[n + 1]
      OBVIOUS
    <3>1. n + 1 \in 1 .. N /\ n + 1 \in 0 .. N /\ n + 1 # 0 /\ (n + 1) - 1 = n /\ n <= N
      BY <1>1
    <3> HIDE DEF N
    <3> QED
      BY <2>3, <2>5, <2>7, <3>1
  <2> HIDE DEF S
  <2>8. \A n \in Nat : n \in S
    BY <2>6, <2>7, SetInduction
  <2>9. N <= N /\ N \in S /\ N \in 0 .. N
    BY <1>1, <2>8
  <2>10. cut[N].frames = SubSeq(frames, 1, N)
    BY <2>9 DEF S, w
  <2> QED
    BY <2>1, <2>10, SubSeqFull
<1>11. WritePayload(frames).bytes = pkt /\ WritePayload(frames).room = PayloadSize(frames)
  BY DEF WritePayload
<1> QED
  BY <1>7, <1>9, <1>10, <1>11

(* Whatever number of conversations there are, each finds its message in the *)
(* payload of the server, up to the first that is too large.                 *)
LEMMA ServerPayloadIsRead ==
  ASSUME NEW msgs \in Seq(Seq(Octet)), \A n \in 1 .. Len(msgs) : InFourBytes(Len(msgs[n]))
  PROVE  LET result1 == Take(ServerPayload(msgs), Len(msgs))
             large == {c \in DOMAIN msgs : Len(msgs[c]) > MaxFrame}
         IN  /\ result1.error <=> large # {}
             /\ IsPrefix(result1.taken, msgs)
             /\ large = {} => /\ result1.taken = msgs
                              /\ result1.place = Len(ServerPayload(msgs)) + 1
<1> DEFINE N == Len(msgs)
           large == {c \in DOMAIN msgs : Len(msgs[c]) > MaxFrame}
           parts == [n \in DOMAIN msgs |-> ServerFrame(msgs[n])]
           pkt == FlattenSeq(parts)
<1>1. N \in Nat /\ DOMAIN msgs = 1 .. N
  BY LenProperties
<1>2. ASSUME NEW n \in 1 .. N
      PROVE  msgs[n] \in Seq(Octet) /\ Len(msgs[n]) \in Nat /\ InFourBytes(Len(msgs[n]))
  <2>1. msgs[n] \in Seq(Octet)
    BY ElementOfSeq
  <2> QED
    BY <2>1, LenProperties
<1>3. ASSUME NEW n \in 1 .. N
      PROVE  /\ parts[n] = ServerFrame(msgs[n]) /\ parts[n] \in Seq(Octet)
             /\ Len(parts[n]) = 4 + Len(msgs[n])
  <2>1. parts[n] = ServerFrame(msgs[n])
    BY <1>1
  <2> DEFINE m == msgs[n]
  <2>2. m \in Seq(Octet) /\ InFourBytes(Len(m))
    BY <1>2
  <2> HIDE DEF m
  <2>3. ServerFrame(m) \in Seq(Octet) /\ Len(ServerFrame(m)) = 4 + Len(m)
    BY <2>2, ServerFrameBytes
  <2> HIDE DEF parts
  <2> QED
    BY <2>1, <2>3 DEF m
<1>4. parts \in Seq(Seq(Octet)) /\ Len(parts) = N
  <2>1. DOMAIN parts = 1 .. N /\ \A n \in 1 .. N : parts[n] \in Seq(Octet)
    BY <1>1, <1>3
  <2>2. parts = [n \in 1 .. N |-> parts[n]]
    BY <1>1
  <2> HIDE DEF parts, N
  <2>3. parts \in [1 .. N -> Seq(Octet)]
    BY <2>1, <2>2
  <2> QED
    BY <1>1, <2>3
<1>5. pkt \in Seq(Octet) /\ \E at \in [0 .. Len(parts) -> Nat] : IsLayout(at, parts, pkt)
  <2> HIDE DEF parts
  <2> QED
    BY <1>4, FlattenLayout
<1>6. PICK at \in [0 .. N -> Nat] : IsLayout(at, parts, pkt)
  <2> HIDE DEF parts, pkt, N
  <2> QED
    BY <1>4, <1>5
<1>7. at[0] = 0 /\ Len(pkt) = at[N]
  <2> HIDE DEF parts, pkt, N
  <2> QED
    BY <1>4, <1>6 DEF IsLayout
<1>8. ASSUME NEW n \in 1 .. N
      PROVE  /\ n - 1 \in 0 .. N /\ n \in 0 .. N /\ at[n] \in Nat /\ at[n - 1] \in Nat
             /\ at[n] = at[n - 1] + Len(msgs[n]) + 4 /\ at[n] <= Len(pkt)
             /\ \A j \in 1 .. 4 + Len(msgs[n]) : pkt[at[n - 1] + j] = ServerFrame(msgs[n])[j]
  <2>1. /\ at[n] = at[n - 1] + Len(parts[n]) /\ at[n] <= Len(pkt)
        /\ \A j \in 1 .. Len(parts[n]) : pkt[at[n - 1] + j] = parts[n][j]
    <3> HIDE DEF parts, pkt, N
    <3> QED
      BY <1>4, <1>6 DEF IsLayout
  <2>2. n - 1 \in 0 .. N /\ n \in 0 .. N
    BY <1>1
  <2>3. at[n] \in Nat /\ at[n - 1] \in Nat
    BY <1>6, <2>2
  <2>4. Len(parts[n]) = 4 + Len(msgs[n]) /\ Len(msgs[n]) \in Nat /\ parts[n] = ServerFrame(msgs[n])
    BY <1>2, <1>3
  <2> HIDE DEF parts, pkt, N
  <2> QED
    BY <2>1, <2>2, <2>3, <2>4
<1>9. PICK first \in 1 .. N + 1 :
        /\ \A c \in 1 .. N : c < first => ~(Len(msgs[c]) > MaxFrame)
        /\ first \in 1 .. N => Len(msgs[first]) > MaxFrame
  <2> DEFINE S == large \cup {N + 1}
  <2>1. S \subseteq Nat /\ S # {} /\ S \subseteq 1 .. N + 1
    BY <1>1
  <2> HIDE DEF S
  <2>2. \E m \in S : \A n \in S : m <= n
    BY <2>1, LeastExists
  <2>3. PICK m \in S : \A n \in S : m <= n
    BY <2>2
  <2>4. m \in 1 .. N + 1
    BY <2>1
  <2>5. ASSUME NEW c \in 1 .. N, c < m PROVE ~(Len(msgs[c]) > MaxFrame)
    <3>1. c \notin S
      BY <1>1, <2>3, <2>4, <2>5
    <3> QED
      BY <1>1, <3>1 DEF S
  <2>6. ASSUME m \in 1 .. N PROVE Len(msgs[m]) > MaxFrame
    BY <1>1, <2>3, <2>6 DEF S
  <2> QED
    BY <2>4, <2>5, <2>6
<1> DEFINE Step(s, c) == LET len == NumberOf(SubSeq(pkt, s.place, s.place + 3))
             IN  IF s.error THEN s
                 ELSE IF len > MaxFrame THEN [s EXCEPT !.error = TRUE]
                 ELSE [s EXCEPT !.place = BehindFrame(@, len),
                                !.taken = Append(@, SubSeq(pkt, s.place + 4, s.place + 3 + len))]
           start == [place |-> 1, taken |-> <<>>, error |-> FALSE]
           take == CHOOSE take : take = [c \in 0 .. N |->
                                           IF c = 0 THEN start ELSE Step(take[c - 1], c)]
           Read(n, e) == [place |-> at[n] + 1, taken |-> SubSeq(msgs, 1, n), error |-> e]
           val(c) == IF c < first THEN Read(c, FALSE) ELSE Read(first - 1, TRUE)
           w == [c \in 0 .. N |-> val(c)]
<1>10. Take(pkt, N) = take[N]
  BY DEF Take
<1>11. w[0] = start
  <2>1. SubSeq(msgs, 1, 0) = <<>>
    BY SubSeqEmpty
  <2>2. w[0] = Read(0, FALSE)
    BY <1>1, <1>9
  <2>3. Read(0, FALSE) = start
    <3>1. at[0] + 1 = 1
      BY <1>7
    <3> QED
      BY <2>1, <3>1
  <2> HIDE DEF w, Read, start
  <2> QED
    BY <2>2, <2>3
<1>12. ASSUME NEW c \in 1 .. N PROVE w[c] = Step(w[c - 1], c)
  <2> DEFINE p == at[c - 1] + 1
             m == msgs[c]
             s == Read(c - 1, FALSE)
  <2>0. at[c - 1] \in Nat
    BY <1>8
  <2>1. p \in Nat /\ p # 0
    BY <2>0
  <2>2. m \in Seq(Octet) /\ Len(m) \in Nat /\ InFourBytes(Len(m))
    BY <1>2
  <2>3. p + 3 + Len(m) <= Len(pkt) /\ BehindFrame(p, Len(m)) = at[c] + 1
    <3>1. at[c] = at[c - 1] + Len(m) + 4 /\ at[c] <= Len(pkt) /\ at[c] \in Nat /\ at[c - 1] \in Nat
      BY <1>8
    <3> HIDE DEF m, pkt
    <3>2. \A a, b, l \in Nat : b = a + l + 4 => (a + 1) + 3 + l = b /\ (a + 1) + 4 + l = b + 1
      OBVIOUS
    <3>3. p + 3 + Len(m) = at[c] /\ p + 4 + Len(m) = at[c] + 1
      BY <2>2, <3>1, <3>2
    <3> QED
      BY <3>1, <3>3 DEF BehindFrame
  <2>4. ASSUME NEW j \in 1 .. 4 + Len(m) PROVE pkt[p + j - 1] = ServerFrame(m)[j]
    <3>1. \A a, l \in Nat : \A k \in 1 .. 4 + l : (a + 1) + k - 1 = a + k
      OBVIOUS
    <3>2. at[c - 1] \in Nat
      BY <1>8
    <3>3. p + j - 1 = at[c - 1] + j
      <4> HIDE DEF m
      <4> QED
        BY <2>2, <3>1, <3>2
    <3> QED
      BY <1>8, <3>3
  <2>5. /\ NumberOf(SubSeq(pkt, p, p + 3)) = Len(m)
        /\ SubSeq(pkt, p + 4, p + 3 + Len(m)) = m
    <3>1. p \in Nat \ {0}
      BY <2>1
    <3> HIDE DEF p, m, pkt, parts
    <3> QED
      BY <1>5, <2>2, <2>3, <2>4, <3>1, FrameIsRead
  <2>6. Append(SubSeq(msgs, 1, c - 1), msgs[c]) = SubSeq(msgs, 1, c)
    BY PrefixGrows
  <2>7. c - 1 \in 0 .. N /\ c \in 0 .. N /\ first \in Nat /\ c \in Nat
    BY <1>1, <1>8, <1>9
  <2>8. CASE c < first
    <3>1. w[c] = Read(c, FALSE) /\ w[c - 1] = s
      <4>1. c - 1 < first
        BY <2>7, <2>8
      <4> HIDE DEF Read, N
      <4> QED
        BY <2>7, <2>8, <4>1
    <3>2. ~(Len(m) > MaxFrame)
      BY <1>9, <2>8
    <3>3. s = [place |-> p, taken |-> SubSeq(msgs, 1, c - 1), error |-> FALSE]
      OBVIOUS
    <3> HIDE DEF s, p, m, w, pkt
    <3>4. s.place = p /\ s.taken = SubSeq(msgs, 1, c - 1) /\ s.error = FALSE
      BY <3>3
    <3>5. Step(s, c) = [s EXCEPT !.place = BehindFrame(p, Len(m)),
                                 !.taken = Append(SubSeq(msgs, 1, c - 1), m)]
      BY <2>5, <3>2, <3>4
    <3>6. Step(s, c) = [place |-> at[c] + 1, taken |-> SubSeq(msgs, 1, c), error |-> FALSE]
      BY <2>3, <2>6, <3>3, <3>5 DEF m
    <3> QED
      BY <3>1, <3>6
  <2>9. CASE c = first
    <3>1. w[c] = Read(c - 1, TRUE) /\ w[c - 1] = s
      <4>1. c - 1 < first /\ ~(c < first)
        BY <2>7, <2>9
      <4> HIDE DEF Read, N
      <4> QED
        BY <2>7, <2>9, <4>1
    <3>2. Len(m) > MaxFrame
      BY <1>9, <2>9
    <3>3. s = [place |-> p, taken |-> SubSeq(msgs, 1, c - 1), error |-> FALSE]
      OBVIOUS
    <3>7. Read(c - 1, TRUE) = [place |-> p, taken |-> SubSeq(msgs, 1, c - 1), error |-> TRUE]
      OBVIOUS
    <3> HIDE DEF s, p, m, w, pkt, Read
    <3>4. Read(c - 1, TRUE) = [s EXCEPT !.error = TRUE]
      <4> DEFINE e == TRUE
                 f == FALSE
                 v == SubSeq(msgs, 1, c - 1)
      <4>1. s = [place |-> p, taken |-> v, error |-> f]
        BY <3>3
      <4> HIDE DEF e, f, v
      <4>2. [place |-> p, taken |-> v, error |-> e] = [s EXCEPT !.error = e]
        BY <4>1
      <4> QED
        BY <3>7, <4>2, Zenon DEF e, v
    <3>5. s.place = p /\ s.error = FALSE
      BY <3>3
    <3>6. Step(s, c) = [s EXCEPT !.error = TRUE]
      BY <2>5, <3>2, <3>5
    <3> QED
      BY <3>1, <3>4, <3>6
  <2>10. CASE c > first
    <3>1. w[c] = Read(first - 1, TRUE) /\ w[c - 1] = Read(first - 1, TRUE)
      <4>1. ~(c - 1 < first) /\ ~(c < first)
        BY <2>7, <2>10
      <4> HIDE DEF Read, N
      <4> QED
        BY <2>7, <4>1
    <3> HIDE DEF w
    <3>2. w[c - 1].error
      BY <3>1
    <3>3. Step(w[c - 1], c) = w[c - 1]
      BY <3>2
    <3> QED
      BY <3>1, <3>3
  <2> QED
    BY <2>7, <2>8, <2>9, <2>10
<1>13. w = [c \in 0 .. N |-> IF c = 0 THEN start ELSE Step(w[c - 1], c)]
  <2>1. w = [c \in 0 .. N |-> w[c]]
    <3> HIDE DEF val, N
    <3> QED
      OBVIOUS
  <2>2. \A c \in 0 .. N : c = 0 \/ c \in 1 .. N
    BY <1>1
  <2> HIDE DEF w, Step, N, start
  <2> QED
    BY <1>11, <1>12, <2>1, <2>2
<1>14. take = [c \in 0 .. N |-> IF c = 0 THEN start ELSE Step(take[c - 1], c)]
  <2> HIDE DEF w, Step, N, start
  <2> QED
    BY <1>13
<1> HIDE DEF take, Step
<1>15. take[N] = w[N]
  <2> DEFINE S == {n \in Nat : n <= N => take[n] = w[n]}
  <2>1. 0 \in S
    <3> HIDE DEF w, start
    <3> QED
      BY <1>1, <1>11, <1>14
  <2>2. ASSUME NEW n \in Nat, n \in S PROVE n + 1 \in S
    <3> SUFFICES ASSUME n + 1 <= N PROVE take[n + 1] = w[n + 1]
      OBVIOUS
    <3>1. n + 1 \in 1 .. N /\ n + 1 \in 0 .. N /\ n + 1 # 0 /\ (n + 1) - 1 = n /\ n <= N
      BY <1>1
    <3> HIDE DEF w, N, start
    <3> QED
      BY <1>12, <1>14, <2>2, <3>1
  <2> HIDE DEF S
  <2>3. \A n \in Nat : n \in S
    BY <2>1, <2>2, SetInduction
  <2>4. N <= N /\ N \in S
    BY <1>1, <2>3
  <2> QED
    BY <2>4 DEF S
<1>16. ServerPayload(msgs) = pkt
  BY DEF ServerPayload
<1> DEFINE t == Take(ServerPayload(msgs), Len(msgs))
<1>17. t = val(N)
  <2>1. N \in 0 .. N
    BY <1>1
  <2>2. t = w[N]
    BY <1>10, <1>15, <1>16
  <2> HIDE DEF val, N, t
  <2> QED
    BY <2>1, <2>2
<1> HIDE DEF t
<1>18. ASSUME NEW k \in 0 .. N PROVE IsPrefix(SubSeq(msgs, 1, k), msgs)
  <2> DEFINE u == SubSeq(msgs, 1, k)
  <2>1. /\ u \in Seq(Seq(Octet)) /\ Len(u) = k
    <3>1. 1 \in Int /\ k \in Int /\ \A i \in 1 .. k : msgs[i] \in Seq(Octet)
      BY <1>1, <1>2
    <3>2. u \in Seq(Seq(Octet)) /\ Len(u) = IF 1 <= k THEN k - 1 + 1 ELSE 0
      BY <3>1, SubSeqProperties
    <3> HIDE DEF u
    <3> QED
      BY <1>1, <3>2
  <2> HIDE DEF u
  <2>2. SubSeq(u, 1, Len(u)) = u
    BY <2>1, SubSeqFull
  <2> QED
    BY <1>1, <2>1, <2>2 DEF IsPrefix, u
<1>19. CASE first = N + 1
  <2>1. large = {}
    <3>1. \A c \in 1 .. N : c < first
      BY <1>1, <1>19
    <3>2. \A c \in 1 .. N : ~(Len(msgs[c]) > MaxFrame)
      BY <1>9, <3>1
    <3> QED
      BY <1>1, <3>2
  <2>2. t = Read(N, FALSE)
    <3>1. N < first
      BY <1>1, <1>19
    <3> HIDE DEF N, Read
    <3> QED
      BY <1>17, <3>1
  <2>3. t.place = at[N] + 1 /\ t.taken = SubSeq(msgs, 1, N) /\ t.error = FALSE
    BY <2>2
  <2>4. SubSeq(msgs, 1, N) = msgs
    BY SubSeqFull
  <2>5. IsPrefix(t.taken, msgs)
    <3>1. N \in 0 .. N
      BY <1>1
    <3> QED
      BY <1>18, <2>3, <3>1
  <2> QED
    BY <1>7, <1>16, <2>1, <2>3, <2>4, <2>5 DEF t
<1>20. CASE first # N + 1
  <2>1. first \in 1 .. N /\ first - 1 \in 0 .. N
    BY <1>1, <1>9, <1>20
  <2>2. large # {}
    BY <1>1, <1>9, <2>1
  <2>3. t = Read(first - 1, TRUE)
    <3>1. ~(N < first)
      BY <1>1, <2>1
    <3> HIDE DEF N, Read
    <3> QED
      BY <1>17, <3>1
  <2>4. t.taken = SubSeq(msgs, 1, first - 1) /\ t.error = TRUE
    BY <2>3
  <2>5. IsPrefix(t.taken, msgs)
    BY <1>18, <2>1, <2>4
  <2> QED
    BY <2>2, <2>4, <2>5 DEF t
<1> QED
  BY <1>19, <1>20

---------------------------------------------------------------------------
(* The MD5 of a message *)

(* Each place counts 256 times what the one before it does.                  *)
LEMMA PlaceValues ==
  /\ PlaceValue[0] = 1
  /\ \A i \in 1 .. LengthSize : PlaceValue[i] = 256 * PlaceValue[i - 1]
  /\ \A i \in 0 .. LengthSize : PlaceValue[i] \in Nat \ {0}
<1> DEFINE G == [p \in (Nat \ {0}) \X (0 + 1 .. LengthSize) |-> 256 * p[1]]
<1>1. LengthSize \in Nat
  BY Md5Assumption DEF LengthSize
<1>2. PICK f \in [0 .. LengthSize -> Nat \ {0}] : IsLoop(f, 1, 0, LengthSize, G)
  <2>1. 1 \in Nat \ {0} /\ 0 \in Nat /\ LengthSize \in Int /\ LengthSize >= 0
    BY <1>1
  <2>2. G \in [(Nat \ {0}) \X (0 + 1 .. LengthSize) -> Nat \ {0}]
    OBVIOUS
  <2> HIDE DEF G
  <2> DEFINE V == Nat \ {0}
  <2> HIDE DEF V
  <2>3. \E f \in [0 .. LengthSize -> V] : IsLoop(f, 1, 0, LengthSize, G)
    BY <2>1, <2>2, LoopExists DEF V
  <2> QED
    BY <2>3 DEF V
<1>3. ASSUME NEW i \in 1 .. LengthSize PROVE f[i] = 256 * f[i - 1]
  <2>1. f[i - 1] \in Nat \ {0} /\ i \in 0 + 1 .. LengthSize
    BY <1>1
  <2>2. f[i] = G[<<f[i - 1], i>>]
    BY <1>2, <2>1 DEF IsLoop
  <2> QED
    BY <2>1, <2>2
<1>4. f = [i \in 0 .. LengthSize |-> IF i = 0 THEN 1 ELSE 256 * f[i - 1]]
  <2>1. f[0] = 1
    BY <1>2 DEF IsLoop
  <2>2. ASSUME NEW i \in 0 .. LengthSize
        PROVE  f[i] = IF i = 0 THEN 1 ELSE 256 * f[i - 1]
    BY <1>1, <1>3, <2>1
  <2> QED
    BY <2>2
<1>5. PlaceValue = [i \in 0 .. LengthSize |-> IF i = 0 THEN 1 ELSE 256 * PlaceValue[i - 1]]
  BY <1>4 DEF PlaceValue
<1>6. PlaceValue[0] = 1 /\ \A i \in 1 .. LengthSize : PlaceValue[i] = 256 * PlaceValue[i - 1]
  BY <1>1, <1>5
<1> DEFINE S == {i \in Nat : i <= LengthSize => PlaceValue[i] \in Nat \ {0}}
<1>7. 0 \in S
  BY <1>6
<1>8. ASSUME NEW i \in Nat, i \in S PROVE i + 1 \in S
  <2> SUFFICES ASSUME i + 1 <= LengthSize PROVE PlaceValue[i + 1] \in Nat \ {0}
    OBVIOUS
  <2>1. PlaceValue[i] \in Nat \ {0}
    BY <1>1, <1>8
  <2>2. i + 1 \in 1 .. LengthSize /\ (i + 1) - 1 = i
    BY <1>1
  <2>3. PlaceValue[i + 1] = 256 * PlaceValue[i]
    BY <1>6, <2>2
  <2> QED
    BY <2>1, <2>3
<1> HIDE DEF S
<1>9. \A i \in Nat : i \in S
  BY <1>7, <1>8, SetInduction
<1>10. \A i \in 0 .. LengthSize : PlaceValue[i] \in Nat \ {0}
  BY <1>1, <1>9 DEF S
<1> QED
  BY <1>6, <1>10

(* Quotient and remainder are unique.                                        *)
LEMMA DivUnique ==
  ASSUME NEW a \in Int, NEW d \in Nat \ {0}, NEW q \in Int, NEW r \in Int, 0 <= r, r < d,
         a = d * q + r
  PROVE  a \div d = q /\ a % d = r
  BY Z3

(* Quotient and remainder.                                                   *)
LEMMA DivMod ==
  ASSUME NEW a \in Int, NEW d \in Nat \ {0}
  PROVE  /\ a \div d \in Int /\ a % d \in Int /\ 0 <= a % d /\ a % d < d
         /\ a = d * (a \div d) + (a % d)
         /\ a \in Nat => a \div d \in Nat
  BY Z3

(* Dividing by a product is dividing twice.                                  *)
LEMMA DivideTwice ==
  ASSUME NEW a \in Nat, NEW d \in Nat \ {0}, NEW e \in Nat \ {0}
  PROVE  (a \div d) \div e = a \div (d * e) /\ (a % (d * e)) \div d = (a \div d) % e
<1> DEFINE q == a \div d
           r == a % d
           s == q \div e
           t == q % e
<1>1. q \in Int /\ r \in Int /\ 0 <= r /\ r < d /\ a = d * q + r
  BY DivMod
<1> HIDE DEF q, r
<1>2. s \in Int /\ t \in Int /\ 0 <= t /\ t < e /\ q = e * s + t
  BY <1>1, DivMod
<1> HIDE DEF s, t
<1>3. d * e \in Nat \ {0}
  BY Z3
<1>4. d * t \in Int /\ 0 <= d * t /\ d * t <= d * e - d
  BY <1>2, Z3
<1>5. a = (d * e) * s + (d * t + r)
  BY <1>1, <1>2, Z3
<1>6. d * t + r \in Int /\ 0 <= d * t + r /\ d * t + r < d * e
  <2> DEFINE p == d * e
             x == d * t
  <2>1. p \in Nat /\ x \in Int /\ 0 <= x /\ x <= p - d
    BY <1>3, <1>4
  <2> HIDE DEF p, x
  <2>2. x + r \in Int /\ 0 <= x + r /\ x + r < p
    BY <1>1, <2>1
  <2> QED
    BY <2>2 DEF p, x
<1> DEFINE u == d * t + r
           p == d * e
<1>7. u \in Int /\ 0 <= u /\ u < p /\ p \in Nat \ {0} /\ a = p * s + u /\ u = d * t + r
  BY <1>3, <1>5, <1>6
<1> HIDE DEF u, p
<1>8. a \div p = s /\ a % p = u
  BY <1>2, <1>7, DivUnique
<1>9. u \div d = t
  BY <1>1, <1>2, <1>7, DivUnique
<1> QED
  BY <1>8, <1>9 DEF p, q, s, t

(* A remainder keeps its own remainders.                                     *)
LEMMA ModuloTwice ==
  ASSUME NEW a \in Int, NEW d \in Nat \ {0}, NEW e \in Nat \ {0}
  PROVE  (a % (d * e)) % e = a % e
<1> DEFINE p == d * e
           s == a \div p
           u == a % p
           x == u \div e
           y == u % e
<1>1. p \in Nat \ {0}
  BY Z3
<1>2. p = d * e
  OBVIOUS
<1> HIDE DEF p
<1>3. s \in Int /\ u \in Int /\ a = p * s + u
  BY <1>1, DivMod
<1> HIDE DEF s, u
<1>4. x \in Int /\ y \in Int /\ 0 <= y /\ y < e /\ u = e * x + y
  BY <1>3, DivMod
<1> HIDE DEF x, y
<1>5. a = e * (d * s + x) + y /\ d * s + x \in Int
  BY <1>2, <1>3, <1>4, Z3
<1> DEFINE z == d * s + x
<1> HIDE DEF z
<1>6. a % e = y
  <2>1. z \in Int /\ a = e * z + y
    BY <1>5 DEF z
  <2> QED
    BY <1>4, <2>1, DivUnique
<1> QED
  BY <1>6 DEF y, u, p

(* The remainder of a sum.                                                   *)
LEMMA ModuloSum ==
  ASSUME NEW a \in Int, NEW b \in Int, NEW d \in Nat \ {0}
  PROVE  ((a % d) + b) % d = (a + b) % d
<1> DEFINE q == a \div d
           r == a % d
           s == (r + b) \div d
           t == (r + b) % d
<1>1. q \in Int /\ r \in Int /\ a = d * q + r
  BY DivMod
<1> HIDE DEF q, r
<1>2. s \in Int /\ t \in Int /\ 0 <= t /\ t < d /\ r + b = d * s + t
  <2> DEFINE c == r + b
  <2>1. c \in Int
    BY <1>1
  <2> HIDE DEF c
  <2>2. c \div d \in Int /\ c % d \in Int /\ 0 <= c % d /\ c % d < d
        /\ c = d * (c \div d) + (c % d)
    BY <2>1, DivMod
  <2> QED
    BY <2>2 DEF c
<1> HIDE DEF s, t
<1>3. a + b = d * (q + s) + t
  BY <1>1, <1>2, Z3
<1> DEFINE c == a + b
           z == q + s
<1>4. c \in Int /\ z \in Int /\ c = d * z + t
  BY <1>1, <1>2, <1>3
<1> HIDE DEF c, z
<1>5. c % d = t
  BY <1>2, <1>4, DivUnique
<1> QED
  BY <1>5 DEF c, t, r

(* The sum of two words and its carry.                                       *)
LEMMA CarryOfSum ==
  ASSUME NEW x \in Nat, NEW y \in Nat, NEW d \in Nat \ {0}
  PROVE  /\ ((x % d) + (y % d)) % d = (x + y) % d
         /\ (x + y) \div d = (x \div d) + (y \div d)
                               + (IF (x + y) % d < y % d THEN 1 ELSE 0)
<1> DEFINE q == x \div d
           r == x % d
           s == y \div d
           t == y % d
           c == x + y
<1>1. q \in Int /\ r \in Int /\ 0 <= r /\ r < d /\ x = d * q + r
  BY DivMod
<1>2. s \in Int /\ t \in Int /\ 0 <= t /\ t < d /\ y = d * s + t
  BY DivMod
<1>3. c = x + y /\ c \in Int
  OBVIOUS
<1> HIDE DEF q, r, s, t, c
<1>4. CASE r + t < d
  <2> DEFINE z == q + s
             u == r + t
  <2>1. c = d * (q + s) + (r + t)
    BY <1>1, <1>2, <1>3, Z3
  <2>2. z \in Int /\ u \in Int /\ c = d * z + u /\ 0 <= u /\ u < d /\ u >= t
    BY <1>1, <1>2, <1>4, <2>1
  <2> HIDE DEF z, u
  <2>3. c \div d = z /\ c % d = u
    BY <1>3, <2>2, DivUnique
  <2>4. u % d = u
    <3>1. u = d * 0 + u
      BY <2>2
    <3> QED
      BY <2>2, <3>1, DivUnique
  <2>5. c \div d = z + (IF c % d < t THEN 1 ELSE 0)
    BY <1>2, <2>2, <2>3
  <2> QED
    BY <2>3, <2>4, <2>5, Zenon DEF z, u, c, q, r, s, t
<1>5. CASE r + t >= d
  <2> DEFINE z == q + s + 1
             u == r + t - d
             v == r + t
  <2>1. c = d * (q + s + 1) + (r + t - d)
    BY <1>1, <1>2, <1>3, Z3
  <2>2. z \in Int /\ u \in Int /\ c = d * z + u /\ 0 <= u /\ u < d /\ u < t
    BY <1>1, <1>2, <1>5, <2>1
  <2>3. v \in Int /\ v = d * 1 + u
    BY <1>1, <1>2
  <2>4. z = q + s + 1
    OBVIOUS
  <2> HIDE DEF z, u, v
  <2>5. c \div d = z /\ c % d = u
    BY <1>3, <2>2, DivUnique
  <2>6. v % d = u
    BY <2>2, <2>3, DivUnique
  <2>7. c \div d = q + s + (IF c % d < t THEN 1 ELSE 0)
    BY <1>2, <2>2, <2>4, <2>5
  <2> QED
    BY <2>5, <2>6, <2>7, Zenon DEF v, c, q, r, s, t
<1> QED
  BY <1>1, <1>2, <1>4, <1>5

(* Places add up.                                                            *)
LEMMA PlaceProduct ==
  ASSUME NEW i \in 0 .. LengthSize, NEW j \in Nat, i + j <= LengthSize
  PROVE  PlaceValue[i + j] = PlaceValue[i] * PlaceValue[j]
<1> DEFINE S == {k \in Nat : i + k <= LengthSize =>
                   PlaceValue[i + k] = PlaceValue[i] * PlaceValue[k]}
<1>1. LengthSize \in Nat
  BY Md5Assumption DEF LengthSize
<1>2. 0 \in S
  BY <1>1, PlaceValues
<1>3. ASSUME NEW k \in Nat, k \in S PROVE k + 1 \in S
  <2> SUFFICES ASSUME i + (k + 1) <= LengthSize
               PROVE  PlaceValue[i + (k + 1)] = PlaceValue[i] * PlaceValue[k + 1]
    OBVIOUS
  <2>1. PlaceValue[i + k] = PlaceValue[i] * PlaceValue[k]
    BY <1>1, <1>3
  <2>2. /\ i + (k + 1) \in 1 .. LengthSize /\ (i + (k + 1)) - 1 = i + k
        /\ k + 1 \in 1 .. LengthSize /\ (k + 1) - 1 = k /\ k \in 0 .. LengthSize
    BY <1>1
  <2>3. /\ PlaceValue[i + (k + 1)] = 256 * PlaceValue[i + k]
        /\ PlaceValue[k + 1] = 256 * PlaceValue[k]
    BY <2>2, PlaceValues
  <2> DEFINE a == PlaceValue[i]
             b == PlaceValue[k]
  <2>4. a \in Nat /\ b \in Nat
    BY <2>2, PlaceValues
  <2> HIDE DEF a, b
  <2>5. 256 * (a * b) = a * (256 * b)
    BY <2>4, Z3
  <2> QED
    BY <2>1, <2>3, <2>5 DEF a, b
<1> HIDE DEF S
<1>4. \A k \in Nat : k \in S
  BY <1>2, <1>3, SetInduction
<1> QED
  BY <1>4 DEF S

(* The bytes of a word are those of the whole number.                        *)
LEMMA ByteOfWord ==
  ASSUME NEW a \in Nat, NEW i \in 0 .. WordBytes - 1
  PROVE  ((a % Word) \div PlaceValue[i]) % 256 = (a \div PlaceValue[i]) % 256
<1>1. WordBytes \in Nat \ {0} /\ LengthSize = 2 * WordBytes
  BY Md5Assumption DEF LengthSize
<1> DEFINE d == PlaceValue[i]
           k == PlaceValue[WordBytes - i - 1]
           e == PlaceValue[WordBytes - i]
<1>2. Word = d * e
  <2>1. i \in 0 .. LengthSize /\ WordBytes - i \in Nat /\ i + (WordBytes - i) = WordBytes
        /\ i + (WordBytes - i) <= LengthSize
    BY <1>1
  <2>2. PlaceValue[i + (WordBytes - i)] = PlaceValue[i] * PlaceValue[WordBytes - i]
    BY <2>1, PlaceProduct
  <2> QED
    BY <2>1, <2>2 DEF Word
<1>3. e = 256 * k /\ k \in Nat \ {0} /\ d \in Nat \ {0} /\ e \in Nat \ {0}
  <2>1. /\ WordBytes - i \in 1 .. LengthSize /\ WordBytes - i - 1 \in 0 .. LengthSize
        /\ i \in 0 .. LengthSize /\ WordBytes - i \in 0 .. LengthSize
    BY <1>1
  <2> QED
    BY <2>1, PlaceValues
<1> HIDE DEF d, k, e
<1>4. (a % (d * e)) \div d = (a \div d) % e
  <2>1. d \in Nat \ {0} /\ e \in Nat \ {0}
    BY <1>3
  <2> QED
    BY <2>1, DivideTwice
<1> DEFINE b == a \div d
<1>5. b \in Int
  BY <1>3, DivMod
<1> HIDE DEF b
<1>6. (b % (k * 256)) % 256 = b % 256
  BY <1>3, <1>5, ModuloTwice
<1>7. k * 256 = e
  BY <1>3
<1> QED
  BY <1>2, <1>4, <1>6, <1>7 DEF b, d

(* The bytes of the next word follow.                                        *)
LEMMA ByteOfNextWord ==
  ASSUME NEW a \in Nat, NEW i \in WordBytes .. LengthSize - 1
  PROVE  (((a \div Word) % Word) \div PlaceValue[i - WordBytes]) % 256 = (a \div PlaceValue[i]) % 256
<1>1. WordBytes \in Nat \ {0} /\ LengthSize = 2 * WordBytes
  BY Md5Assumption DEF LengthSize
<1> DEFINE j == i - WordBytes
           b == a \div Word
<1>2. j \in 0 .. WordBytes - 1 /\ j \in Nat /\ WordBytes \in 0 .. LengthSize /\ j \in 0 .. LengthSize
      /\ WordBytes + j = i /\ WordBytes + j <= LengthSize
  BY <1>1
<1>3. Word \in Nat \ {0} /\ PlaceValue[j] \in Nat \ {0}
  BY <1>2, PlaceValues DEF Word
<1>4. b \in Nat
  BY <1>3, DivMod
<1>5. PlaceValue[i] = Word * PlaceValue[j]
  <2> HIDE DEF j
  <2>1. PlaceValue[WordBytes + j] = PlaceValue[WordBytes] * PlaceValue[j]
    BY <1>2, PlaceProduct
  <2> QED
    BY <1>2, <2>1 DEF Word
<1> DEFINE d == PlaceValue[j]
           w == Word
<1>6. (a \div w) \div d = a \div (w * d)
  <2>1. w \in Nat \ {0} /\ d \in Nat \ {0}
    BY <1>3
  <2> HIDE DEF w, d
  <2> QED
    BY <2>1, DivideTwice
<1> HIDE DEF b, j
<1>7. ((b % Word) \div PlaceValue[j]) % 256 = (b \div PlaceValue[j]) % 256
  BY <1>2, <1>4, ByteOfWord
<1>8. b \div PlaceValue[j] = a \div PlaceValue[i]
  BY <1>5, <1>6 DEF b
<1> QED
  BY <1>7, <1>8 DEF b, j

(* A word counts the bits of a whole number of blocks.                       *)
LEMMA WordSize == \E k \in Nat \ {0} : Word = 8 * (BlockSize * k)
<1>1. WordBytes \in Nat \ {0} /\ LengthSize = 2 * WordBytes /\ BlockSize \in Nat \ {0}
      /\ BlockSize % 16 = 0
  BY Md5Assumption DEF LengthSize
<1>2. Word \in Nat \ {0}
  <2>1. WordBytes \in 0 .. LengthSize
    BY <1>1
  <2> QED
    BY <2>1, PlaceValues DEF Word
<1> DEFINE d == 8 * BlockSize
           k == Word \div d
           r == Word % d
<1>3. d \in Nat \ {0} /\ r = 0
  BY <1>1, Md5Assumption
<1>4. k \in Nat /\ Word = d * k + r
  <2> HIDE DEF d
  <2> QED
    BY <1>2, <1>3, DivMod
<1> HIDE DEF k, r
<1>5. Word = d * k
  <2>1. d * k \in Int
    BY <1>3, <1>4, Z3
  <2> HIDE DEF d
  <2> QED
    BY <1>2, <1>3, <1>4, <2>1
<1>6. k # 0
  <2> SUFFICES ASSUME k = 0 PROVE FALSE
    OBVIOUS
  <2>1. d * k = 0
    BY <1>3
  <2> QED
    BY <1>2, <1>5, <2>1
<1>7. Word = 8 * (BlockSize * k)
  BY <1>1, <1>4, <1>5, Z3
<1> QED
  BY <1>4, <1>6, <1>7

(* Where the next byte goes: the bytes in the last, begun block.             *)
LEMMA OffsetOfCount ==
  ASSUME NEW n \in Nat
  PROVE  /\ (((8 * n) % Word) \div 8) % BlockSize = n % BlockSize
         /\ ((8 * n) % Word) \div 8 \in Nat
<1>1. PICK k \in Nat \ {0} : Word = 8 * (BlockSize * k)
  BY WordSize
<1>2. BlockSize \in Nat \ {0}
  BY Md5Assumption DEF LengthSize
<1> DEFINE e == BlockSize * k
           a == 8 * n
<1>3. e \in Nat \ {0} /\ a \in Nat /\ 8 \in Nat \ {0} /\ e = k * BlockSize
  BY <1>2, Z3
<1>4. (a % (8 * e)) \div 8 = (a \div 8) % e
  <2> HIDE DEF a, e
  <2> QED
    BY <1>3, DivideTwice
<1>5. a \div 8 = n
  OBVIOUS
<1>6. (n % (k * BlockSize)) % BlockSize = n % BlockSize
  BY <1>2, ModuloTwice
<1>7. ((8 * n) % Word) \div 8 = n % e
  BY <1>1, <1>4, <1>5
<1>8. n % e \in Nat
  <2> HIDE DEF e
  <2>1. n % e \in Int /\ 0 <= n % e
    BY <1>3, DivMod
  <2> QED
    BY <2>1
<1> HIDE DEF e, a
<1> QED
  BY <1>3, <1>6, <1>7, <1>8

(* The two words hold the number of bits of n bytes. *)
Counted(md5, n) == md5.low = (8 * n) % Word /\ md5.high = ((8 * n) \div Word) % Word

Mixing == [word : Seq(Int), rotation : Int]
Md5State == [low : Nat, high : Nat, buf : [1 .. BlockSize -> Int], abcd : Seq(Mixing)]

(* The carry between the two words is right, however much is appended.       *)
LEMMA CountAdds ==
  ASSUME NEW md5 \in Md5State, NEW n \in Nat, NEW k \in Nat, Counted(md5, n)
  PROVE  /\ Count(md5, k) \in Md5State /\ Counted(Count(md5, k), n + k)
         /\ Count(md5, k).buf = md5.buf /\ Count(md5, k).abcd = md5.abcd
<1> DEFINE w == Word
           x == 8 * n
           y == 8 * k
           nbits == y % w
           low == (md5.low + nbits) % w
           carry == IF low < nbits THEN 1 ELSE 0
           more == k \div (w \div 8)
           high == (md5.high + more + carry) % w
           c == Count(md5, k)
<1>1. PICK v \in Nat \ {0} : w = 8 * v
  <2>1. PICK j \in Nat \ {0} : Word = 8 * (BlockSize * j)
    BY WordSize
  <2>2. BlockSize \in Nat \ {0}
    BY Md5Assumption DEF LengthSize
  <2>3. BlockSize * j \in Nat \ {0}
    BY <2>2, Z3
  <2> QED
    BY <2>1, <2>3
<1>2. w \in Nat \ {0} /\ x \in Nat /\ y \in Nat
  BY <1>1
<1>3. c = [md5 EXCEPT !.low = low, !.high = high]
  <2>1. c = [md5 EXCEPT !.low = low, !.high = (@ + more + carry) % w]
    BY Zenon DEF Count
  <2> HIDE DEF low, more, carry, w, c
  <2> QED
    BY <2>1 DEF Md5State
<1> HIDE DEF c
<1>4. md5.low = x % w /\ md5.high = (x \div w) % w
  BY DEF Counted
<1>5. /\ low = (x + y) % w
      /\ (x + y) \div w = (x \div w) + (y \div w) + carry
  <2> HIDE DEF w, x, y
  <2>1. /\ ((x % w) + (y % w)) % w = (x + y) % w
        /\ (x + y) \div w = (x \div w) + (y \div w) + (IF (x + y) % w < y % w THEN 1 ELSE 0)
    BY <1>2, CarryOfSum
  <2> QED
    BY <1>4, <2>1
<1>6. more = y \div w /\ more \in Nat
  <2> DEFINE q == k \div v
             r == k % v
  <2>1. q \in Nat /\ r \in Int /\ 0 <= r /\ r < v /\ k = v * q + r
    BY DivMod
  <2> HIDE DEF q, r
  <2>2. w \div 8 = v
    BY <1>1
  <2> DEFINE z == 8 * r
  <2>3. y = w * q + z
    BY <1>1, <2>1, Z3
  <2>4. z \in Int /\ 0 <= z /\ z < w
    BY <1>1, <2>1
  <2> HIDE DEF z, w, y
  <2>5. y \div w = q
    BY <1>2, <2>1, <2>3, <2>4, DivUnique
  <2> QED
    BY <2>1, <2>2, <2>5 DEF q, w
<1> DEFINE a == x \div w
           b == more + carry
<1>7. a \in Int /\ b \in Int /\ carry \in Int /\ nbits \in Int /\ low \in Nat
  <2>1. a \in Int
    <3> HIDE DEF w, x
    <3> QED
      BY <1>2, DivMod
  <2>2. carry \in Int
    <3> HIDE DEF low, nbits
    <3> QED
      OBVIOUS
  <2>3. nbits \in Int
    <3> HIDE DEF w, y
    <3> QED
      BY <1>2, DivMod
  <2>4. low \in Nat
    <3> DEFINE s == x + y
    <3>1. s \in Int
      BY <1>2
    <3> HIDE DEF w, s, low
    <3>2. s % w \in Int /\ 0 <= s % w
      BY <1>2, <3>1, DivMod
    <3> QED
      BY <1>5, <3>2 DEF s
  <2> HIDE DEF carry, more
  <2> QED
    BY <1>6, <2>1, <2>2, <2>3, <2>4
<1>8. high = ((x + y) \div w) % w
  <2> HIDE DEF a, b, w, carry, more
  <2>1. ((a % w) + b) % w = (a + b) % w
    BY <1>2, <1>7, ModuloSum
  <2>2. a + b = (x + y) \div w
    <3>1. a + b = a + more + carry
      BY <1>6, <1>7 DEF b
    <3> QED
      BY <1>5, <1>6, <3>1 DEF a
  <2>3. (a % w) + b = md5.high + more + carry
    <3>1. md5.high \in Int /\ md5.high = a % w
      BY <1>4 DEF Md5State, a
    <3> QED
      BY <1>6, <1>7, <3>1 DEF b
  <2> QED
    BY <2>1, <2>2, <2>3
<1>9. high \in Nat
  <2> DEFINE s == (x + y) \div w
  <2>1. s \in Int
    <3> DEFINE t == x + y
    <3>1. t \in Int
      BY <1>2
    <3> HIDE DEF t, w
    <3>2. t \div w \in Int
      BY <1>2, <3>1, DivMod
    <3> QED
      BY <3>2 DEF t
  <2> HIDE DEF s, w, high
  <2>2. s % w \in Int /\ 0 <= s % w
    BY <1>2, <2>1, DivMod
  <2> QED
    BY <1>8, <2>2 DEF s
<1>10. 8 * (n + k) = x + y
  OBVIOUS
<1> HIDE DEF low, high
<1>11. c \in Md5State /\ c.low = low /\ c.high = high /\ c.buf = md5.buf /\ c.abcd = md5.abcd
  BY <1>3, <1>7, <1>9 DEF Md5State
<1>12. Counted(c, n + k)
  BY <1>5, <1>8, <1>10, <1>11 DEF Counted
<1> QED
  BY <1>11, <1>12 DEF c

(* The tables of bson_md5_process are the formulas of the RFC.               *)
LEMMA RoundTables ==
  \A t \in 1 .. 64 :
    /\ WordOrder[t] = WordOf(t - 1) /\ WordOf(t - 1) \in 0 .. 15
    /\ Rotations[((t - 1) \div 16) + 1][((t - 1) % 4) + 1] = RotationOf(t - 1)
    /\ RotationOf(t - 1) \in Nat
<1>1. \A t \in 1 .. 16 : WordOrder[t] = WordOf(t - 1) /\ WordOf(t - 1) \in 0 .. 15
  <2>1. \A t \in 1 .. 16 : WordOrder[t] = t - 1
    BY DEF WordOrder
  <2>2. \A t \in 1 .. 16 : WordOf(t - 1) = t - 1
    BY DEF WordOf
  <2> QED
    BY <2>1, <2>2
<1>2. \A t \in 17 .. 32 : WordOrder[t] = WordOf(t - 1) /\ WordOf(t - 1) \in 0 .. 15
  <2>1. \A t \in 17 .. 32 : WordOrder[t] = (5 * (t - 1) + 1) % 16
    BY DEF WordOrder
  <2>2. \A t \in 17 .. 32 : WordOf(t - 1) = (5 * (t - 1) + 1) % 16
    BY DEF WordOf
  <2> QED
    BY <2>1, <2>2
<1>3. \A t \in 33 .. 48 : WordOrder[t] = WordOf(t - 1) /\ WordOf(t - 1) \in 0 .. 15
  BY DEF WordOrder, WordOf
<1>4. \A t \in 49 .. 64 : WordOrder[t] = WordOf(t - 1) /\ WordOf(t - 1) \in 0 .. 15
  BY DEF WordOrder, WordOf
<1> DEFINE Rotation(t) == Rotations[((t - 1) \div 16) + 1][((t - 1) % 4) + 1]
<1>5. \A t \in 1 .. 16 : Rotation(t) = RotationOf(t - 1)
  <2>1. Rotations[1] = <<7, 12, 17, 22>>
    BY DEF Rotations
  <2>2. \A t \in 1 .. 16 : Rotations[1][((t - 1) % 4) + 1] = 7 + 5 * ((t - 1) % 4)
    BY <2>1
  <2>3. \A t \in 1 .. 16 : ((t - 1) \div 16) + 1 = 1
    OBVIOUS
  <2>4. \A t \in 1 .. 16 : RotationOf(t - 1) = 7 + 5 * ((t - 1) % 4)
    BY DEF RotationOf
  <2> QED
    BY <2>2, <2>3, <2>4
<1>6. \A t \in 17 .. 32 : Rotation(t) = RotationOf(t - 1)
  BY DEF Rotations, RotationOf
<1>7. \A t \in 33 .. 48 : Rotation(t) = RotationOf(t - 1)
  BY DEF Rotations, RotationOf
<1>8. \A t \in 49 .. 64 : Rotation(t) = RotationOf(t - 1)
  BY DEF Rotations, RotationOf
<1>9. \A i \in 0 .. 63 : RotationOf(i) \in Nat
  BY DEF RotationOf
<1> HIDE DEF Rotation
<1>10. ASSUME NEW t \in 1 .. 64
       PROVE  /\ WordOrder[t] = WordOf(t - 1) /\ WordOf(t - 1) \in 0 .. 15
              /\ Rotation(t) = RotationOf(t - 1) /\ RotationOf(t - 1) \in Nat
  <2>1. t \in 1 .. 16 \/ t \in 17 .. 32 \/ t \in 33 .. 48 \/ t \in 49 .. 64
    OBVIOUS
  <2>2. t - 1 \in 0 .. 63
    OBVIOUS
  <2> QED
    BY <1>1, <1>2, <1>3, <1>4, <1>5, <1>6, <1>7, <1>8, <1>9, <2>1, <2>2
<1> QED
  BY <1>10 DEF Rotation

(* What is mixed in n-th, and what the first k blocks mix in.                *)
MixedEntry(bytes, n) ==
  LET i     == (n - 1) % 64
      first == (((n - 1) \div 64) * BlockSize) + (WordOf(i) * (BlockSize \div 16))
  IN  [word     |-> SubSeq(bytes, first + 1, first + (BlockSize \div 16)),
       rotation |-> RotationOf(i)]

MixedBlocks(bytes, k) == [n \in 1 .. k * 64 |-> MixedEntry(bytes, n)]

(* Equal parts of two sequences.                                             *)
LEMMA EqualParts ==
  ASSUME NEW s \in Seq(Int), NEW t \in Seq(Int), NEW a \in Nat, NEW b \in Nat, NEW u \in Nat,
         a + u <= Len(s), b + u <= Len(t), \A j \in 1 .. u : s[a + j] = t[b + j]
  PROVE  SubSeq(s, a + 1, a + u) = SubSeq(t, b + 1, b + u) /\ SubSeq(s, a + 1, a + u) \in Seq(Int)
<1> DEFINE p == SubSeq(s, a + 1, a + u)
           q == SubSeq(t, b + 1, b + u)
<1>1. p \in Seq(Int) /\ Len(p) = u /\ \A j \in 1 .. u : p[j] = s[a + j]
  <2>1. \A i \in a + 1 .. a + u : s[i] \in Int
    OBVIOUS
  <2>2. a + 1 \in Int /\ a + u \in Int
    OBVIOUS
  <2>3. /\ p \in Seq(Int)
        /\ Len(p) = IF a + 1 <= a + u THEN (a + u) - (a + 1) + 1 ELSE 0
        /\ \A i \in 1 .. (a + u) - (a + 1) + 1 : p[i] = s[(a + 1) + i - 1]
    BY <2>1, <2>2, SubSeqProperties
  <2> HIDE DEF p
  <2> QED
    BY <2>3
<1>2. q \in Seq(Int) /\ Len(q) = u /\ \A j \in 1 .. u : q[j] = t[b + j]
  <2>1. \A i \in b + 1 .. b + u : t[i] \in Int
    OBVIOUS
  <2>2. b + 1 \in Int /\ b + u \in Int
    OBVIOUS
  <2>3. /\ q \in Seq(Int)
        /\ Len(q) = IF b + 1 <= b + u THEN (b + u) - (b + 1) + 1 ELSE 0
        /\ \A i \in 1 .. (b + u) - (b + 1) + 1 : q[i] = t[(b + 1) + i - 1]
    BY <2>1, <2>2, SubSeqProperties
  <2> HIDE DEF q
  <2> QED
    BY <2>3
<1> HIDE DEF p, q
<1>3. Len(p) = Len(q) /\ \A i \in 1 .. Len(p) : p[i] = q[i]
  BY <1>1, <1>2
<1>4. p = q
  BY <1>1, <1>2, <1>3, SeqEqual
<1> QED
  BY <1>1, <1>4 DEF p, q

(* The words of a block, from wherever it is read.                           *)
LEMMA EntryOfBlock ==
  ASSUME NEW t \in Seq(Int), NEW k \in Nat, BlockSize * k + BlockSize <= Len(t),
         NEW block \in [1 .. BlockSize -> Int],
         \A i \in 1 .. BlockSize : block[i] = t[BlockSize * k + i],
         NEW j \in 1 .. 64
  PROVE  /\ MixedEntry(t, 64 * k + j) = [word |-> WordAt(block, WordOrder[j]),
               rotation |-> Rotations[((j - 1) \div 16) + 1][((j - 1) % 4) + 1]]
         /\ MixedEntry(t, 64 * k + j) \in Mixing
<1> DEFINE u == BlockSize \div 16
           w == WordOrder[j]
           x == w * u
           y == BlockSize * k
           r == RotationOf(j - 1)
<1>1. BlockSize = 16 * u /\ u \in Nat /\ BlockSize \in Nat
  BY Md5Assumption DEF LengthSize
<1>2. /\ w = WordOf(j - 1) /\ w \in 0 .. 15 /\ r \in Nat
      /\ Rotations[((j - 1) \div 16) + 1][((j - 1) % 4) + 1] = r
  BY RoundTables
<1>3. ((64 * k + j) - 1) % 64 = j - 1 /\ ((64 * k + j) - 1) \div 64 = k
  <2> DEFINE n == (64 * k + j) - 1
             z == j - 1
  <2>1. n \in Int /\ z \in Int /\ 0 <= z /\ z < 64 /\ n = 64 * k + z /\ 64 \in Nat \ {0}
    OBVIOUS
  <2> HIDE DEF n, z
  <2>2. n \div 64 = k /\ n % 64 = z
    BY <2>1, DivUnique
  <2> QED
    BY <2>2 DEF n, z
<1>4. k * BlockSize = y /\ y \in Nat
  BY <1>1, Z3
<1>5. MixedEntry(t, 64 * k + j) = [word |-> SubSeq(t, (y + x) + 1, (y + x) + u), rotation |-> r]
  BY <1>2, <1>3, <1>4, Zenon DEF MixedEntry
<1>6. x \in Nat /\ x + u <= BlockSize /\ (w + 1) * u = x + u
  <2> HIDE DEF w, u
  <2>0. w \in 0 .. 15 /\ u \in Nat
    BY <1>1, <1>2
  <2>1. w * u \in Nat /\ w * u <= 15 * u /\ (w + 1) * u = w * u + u
    BY <2>0, Z3
  <2> QED
    BY <1>1, <2>1
<1> HIDE DEF x, y, u, w, r
<1>7. block \in Seq(Int) /\ Len(block) = BlockSize
  BY <1>1
<1> DEFINE a == y + x
<1>8. a \in Nat /\ a + u <= Len(t) /\ \A i \in 1 .. u : t[a + i] = block[x + i]
  <2>1. y + BlockSize <= Len(t) /\ \A i \in 1 .. BlockSize : block[i] = t[y + i]
    BY DEF y
  <2>2. ASSUME NEW i \in 1 .. u PROVE t[a + i] = block[x + i]
    <3>1. x + i \in 1 .. BlockSize /\ a + i = y + (x + i)
      BY <1>1, <1>4, <1>6
    <3> QED
      BY <2>1, <3>1
  <2> QED
    BY <1>1, <1>4, <1>6, <2>1, <2>2
<1> HIDE DEF a
<1>9. /\ SubSeq(t, a + 1, a + u) = SubSeq(block, x + 1, x + u)
      /\ SubSeq(t, a + 1, a + u) \in Seq(Int)
  <2>1. x + u <= Len(block)
    BY <1>6, <1>7
  <2>2. x \in Nat /\ u \in Nat /\ a \in Nat /\ a + u <= Len(t)
    BY <1>1, <1>6, <1>8
  <2>3. \A i \in 1 .. u : t[a + i] = block[x + i]
    BY <1>8
  <2> QED
    BY <1>7, <2>1, <2>2, <2>3, EqualParts
<1>10. WordAt(block, w) = SubSeq(block, x + 1, x + u)
  BY <1>6, Zenon DEF WordAt, x, u
<1> DEFINE v == SubSeq(t, a + 1, a + u)
<1>11. v = WordAt(block, w) /\ v \in Seq(Int)
  BY <1>9, <1>10
<1>12. MixedEntry(t, 64 * k + j) = [word |-> v, rotation |-> r]
  BY <1>5 DEF a
<1> HIDE DEF v
<1>13. r \in Int
  BY <1>2
<1>14. [word |-> v, rotation |-> r] \in Mixing
  BY <1>11, <1>13 DEF Mixing
<1>15. [word |-> v, rotation |-> r] = [word |-> WordAt(block, WordOrder[j]),
               rotation |-> Rotations[((j - 1) \div 16) + 1][((j - 1) % 4) + 1]]
  BY <1>2, <1>11, Zenon DEF w
<1> QED
  BY <1>12, <1>14, <1>15

LEMMA BlocksAreMixed ==
  ASSUME NEW t \in Seq(Int), NEW k \in Nat, BlockSize * k <= Len(t)
  PROVE  MixedBlocks(t, k) \in Seq(Mixing) /\ Len(MixedBlocks(t, k)) = k * 64
<1> DEFINE m == MixedBlocks(t, k)
<1>1. BlockSize \in Nat /\ Len(t) \in Nat
  BY Md5Assumption
<1>2. ASSUME NEW n \in 1 .. k * 64 PROVE MixedEntry(t, n) \in Mixing
  <2> DEFINE q == (n - 1) \div 64
             j == ((n - 1) % 64) + 1
             block == [i \in 1 .. BlockSize |-> t[BlockSize * q + i]]
  <2>1. q \in Nat /\ j \in 1 .. 64 /\ n = 64 * q + j /\ q <= k - 1
    OBVIOUS
  <2> HIDE DEF q, j
  <2>2. BlockSize * q \in Nat /\ BlockSize * q + BlockSize <= BlockSize * k
    <3>1. q + 1 <= k
      BY <2>1
    <3> QED
      BY <1>1, <2>1, <3>1, Z3
  <2> DEFINE y == BlockSize * q
  <2>3. y \in Nat /\ y + BlockSize <= Len(t)
    <3> DEFINE x == BlockSize * k
    <3>1. x <= Len(t) /\ x \in Int /\ y + BlockSize <= x /\ y \in Nat
      BY <1>1, <2>2, Z3
    <3> HIDE DEF x, y
    <3> QED
      BY <1>1, <3>1
  <2>4. \A i \in 1 .. BlockSize : t[y + i] \in Int
    <3> HIDE DEF y
    <3> QED
      BY <1>1, <2>3
  <2>5. block \in [1 .. BlockSize -> Int] /\ \A i \in 1 .. BlockSize : block[i] = t[BlockSize * q + i]
    BY <2>4
  <2>6. BlockSize * q + BlockSize <= Len(t)
    BY <2>3
  <2> HIDE DEF block
  <2>7. MixedEntry(t, 64 * q + j) \in Mixing
    BY <2>1, <2>5, <2>6, EntryOfBlock
  <2> QED
    BY <2>1, <2>7
<1>3. k * 64 \in Nat
  OBVIOUS
<1>4. m \in [1 .. k * 64 -> Mixing]
  BY <1>2 DEF MixedBlocks
<1> HIDE DEF m
<1>5. m \in Seq(Mixing) /\ Len(m) = k * 64
  <2> DEFINE l == k * 64
  <2>1. l \in Nat /\ m \in [1 .. l -> Mixing]
    BY <1>3, <1>4
  <2> HIDE DEF l
  <2>2. m \in Seq(Mixing) /\ Len(m) = l
    BY <2>1
  <2> QED
    BY <2>2 DEF l
<1> QED
  BY <1>5 DEF m

(* A block more is 64 operations more.                                       *)
LEMMA BlockIsAdded ==
  ASSUME NEW t \in Seq(Int), NEW k \in Nat, BlockSize * k + BlockSize <= Len(t),
         NEW block \in [1 .. BlockSize -> Int],
         \A i \in 1 .. BlockSize : block[i] = t[BlockSize * k + i]
  PROVE  MixedBlocks(t, k) \o [j \in 1 .. 64 |->
             [word     |-> WordAt(block, WordOrder[j]),
              rotation |-> Rotations[((j - 1) \div 16) + 1][((j - 1) % 4) + 1]]]
           = MixedBlocks(t, k + 1)
<1> DEFINE e == [j \in 1 .. 64 |->
             [word     |-> WordAt(block, WordOrder[j]),
              rotation |-> Rotations[((j - 1) \div 16) + 1][((j - 1) % 4) + 1]]]
           m == MixedBlocks(t, k)
           m1 == MixedBlocks(t, k + 1)
<1>1. BlockSize \in Nat /\ Len(t) \in Nat /\ BlockSize * k \in Nat /\ k + 1 \in Nat
      /\ BlockSize * (k + 1) = BlockSize * k + BlockSize
  BY Md5Assumption, Z3
<1>2. \A j \in 1 .. 64 : e[j] = MixedEntry(t, 64 * k + j) /\ e[j] \in Mixing
  <2> SUFFICES ASSUME NEW j \in 1 .. 64
               PROVE  e[j] = MixedEntry(t, 64 * k + j) /\ e[j] \in Mixing
    OBVIOUS
  <2>1. /\ MixedEntry(t, 64 * k + j) = [word |-> WordAt(block, WordOrder[j]),
             rotation |-> Rotations[((j - 1) \div 16) + 1][((j - 1) % 4) + 1]]
        /\ MixedEntry(t, 64 * k + j) \in Mixing
    BY EntryOfBlock
  <2> QED
    BY <2>1, Zenon
<1>3. e \in Seq(Mixing) /\ Len(e) = 64
  <2>1. e \in [1 .. 64 -> Mixing]
    <3>1. e = [j \in 1 .. 64 |-> e[j]]
      OBVIOUS
    <3> HIDE DEF e
    <3> QED
      BY <1>2, <3>1
  <2> DEFINE n == 64
  <2>2. n \in Nat /\ e \in [1 .. n -> Mixing]
    BY <2>1
  <2> HIDE DEF e, n
  <2>3. e \in Seq(Mixing) /\ Len(e) = n
    BY <2>2
  <2> QED
    BY <2>3 DEF n
<1>4. m \in Seq(Mixing) /\ Len(m) = k * 64
  <2>1. BlockSize * k <= Len(t)
    BY <1>1
  <2> QED
    BY <2>1, BlocksAreMixed
<1>5. m1 \in Seq(Mixing) /\ Len(m1) = (k + 1) * 64
  <2>1. BlockSize * (k + 1) <= Len(t)
    BY <1>1
  <2> QED
    BY <1>1, <2>1, BlocksAreMixed
<1>6. \A n \in 1 .. k * 64 : m[n] = MixedEntry(t, n)
  BY DEF MixedBlocks
<1>7. \A n \in 1 .. (k + 1) * 64 : m1[n] = MixedEntry(t, n)
  BY DEF MixedBlocks
<1> HIDE DEF e, m, m1
<1> DEFINE c == m \o e
<1>8. /\ c \in Seq(Mixing) /\ Len(c) = Len(m) + Len(e)
      /\ \A i \in 1 .. Len(m) + Len(e) : c[i] = IF i <= Len(m) THEN m[i] ELSE e[i - Len(m)]
  BY <1>3, <1>4, ConcatProperties
<1> HIDE DEF c
<1>9. Len(c) = Len(m1)
  BY <1>3, <1>4, <1>5, <1>8
<1>10. ASSUME NEW i \in 1 .. Len(c) PROVE c[i] = m1[i]
  <2>1. i \in 1 .. (k + 1) * 64 /\ m1[i] = MixedEntry(t, i)
    BY <1>5, <1>7, <1>9
  <2>2. CASE i <= k * 64
    <3>1. i \in 1 .. k * 64
      BY <2>1, <2>2
    <3>2. c[i] = m[i]
      BY <1>4, <1>8, <2>2
    <3> QED
      BY <1>6, <2>1, <3>1, <3>2
  <2>3. CASE i > k * 64
    <3>1. i - k * 64 \in 1 .. 64 /\ 64 * k + (i - k * 64) = i
      BY <2>1, <2>3
    <3>2. c[i] = e[i - k * 64]
      BY <1>4, <1>8, <2>1, <2>3
    <3> QED
      BY <1>2, <2>1, <3>1, <3>2
  <2> QED
    BY <2>1, <2>2, <2>3
<1>11. c = m1
  BY <1>5, <1>8, <1>9, <1>10, SeqEqual
<1> QED
  BY <1>11 DEF c, m1, m, e

(* The first bytes of t have been taken: k full blocks and r bytes of the    *)
(* next one.                                                                 *)
Held(md5, t, k, r) ==
  /\ md5 \in Md5State
  /\ md5.abcd = MixedBlocks(t, k)
  /\ \A i \in 1 .. r : md5.buf[i] = t[BlockSize * k + i]

(* The pieces come from t.                                                   *)
Piece(data, t, n) ==
  /\ data \in Seq(Int) /\ n + Len(data) <= Len(t)
  /\ \A i \in 1 .. Len(data) : data[i] = t[n + i]

(* A full block is processed.                                                *)
LEMMA ProcessTakes ==
  ASSUME NEW t \in Seq(Int), NEW k \in Nat, BlockSize * k + BlockSize <= Len(t),
         NEW md5, Held(md5, t, k, 0),
         NEW block \in [1 .. BlockSize -> Int],
         \A i \in 1 .. BlockSize : block[i] = t[BlockSize * k + i]
  PROVE  /\ Held(Process(md5, block), t, k + 1, 0)
         /\ Process(md5, block) = [md5 EXCEPT !.abcd = MixedBlocks(t, k + 1)]
         /\ Process(md5, block).low = md5.low /\ Process(md5, block).high = md5.high
<1> DEFINE e == [j \in 1 .. 64 |->
             [word     |-> WordAt(block, WordOrder[j]),
              rotation |-> Rotations[((j - 1) \div 16) + 1][((j - 1) % 4) + 1]]]
           p == Process(md5, block)
           a == MixedBlocks(t, k + 1)
<1>1. md5 \in Md5State /\ md5.abcd = MixedBlocks(t, k)
  BY DEF Held
<1>2. p = [md5 EXCEPT !.abcd = @ \o e]
  BY Zenon DEF Process
<1>3. md5.abcd \o e = a
  BY <1>1, BlockIsAdded
<1>4. a \in Seq(Mixing)
  <2>1. k + 1 \in Nat /\ BlockSize * (k + 1) <= Len(t)
    BY Md5Assumption, Z3
  <2> QED
    BY <2>1, BlocksAreMixed
<1> HIDE DEF e, a, p
<1>5. p = [md5 EXCEPT !.abcd = a]
  BY <1>1, <1>2, <1>3 DEF Md5State
<1>6. p \in Md5State /\ p.abcd = a /\ p.low = md5.low /\ p.high = md5.high
  BY <1>1, <1>4, <1>5 DEF Md5State
<1>7. Held(p, t, k + 1, 0)
  BY <1>6 DEF Held, a
<1> QED
  BY <1>5, <1>6, <1>7 DEF p, a

(* memcpy behind what is in the buffer.                                      *)
LEMMA FillTakes ==
  ASSUME NEW t \in Seq(Int), NEW k \in Nat, NEW r \in Nat,
         NEW md5, Held(md5, t, k, r), NEW data, Piece(data, t, BlockSize * k + r),
         r + Len(data) <= BlockSize
  PROVE  /\ Held(Fill(md5, r, data), t, k, r + Len(data))
         /\ Fill(md5, r, data).low = md5.low /\ Fill(md5, r, data).high = md5.high
<1> DEFINE buf == [i \in 1 .. BlockSize |->
                     IF i - r \in 1 .. Len(data) THEN data[i - r] ELSE md5.buf[i]]
           f == Fill(md5, r, data)
           y == BlockSize * k
<1>1. md5 \in Md5State /\ md5.abcd = MixedBlocks(t, k) /\ \A i \in 1 .. r : md5.buf[i] = t[y + i]
  BY DEF Held
<1>2. data \in Seq(Int) /\ Len(data) \in Nat /\ \A i \in 1 .. Len(data) : data[i] = t[(y + r) + i]
  BY DEF Piece
<1>3. BlockSize \in Nat /\ y \in Nat
  BY Md5Assumption, Z3
<1>4. f = [md5 EXCEPT !.buf = buf]
  <2>1. f = [md5 EXCEPT !.buf = [i \in 1 .. BlockSize |->
                     IF i - r \in 1 .. Len(data) THEN data[i - r] ELSE @[i]]]
    BY Zenon DEF Fill
  <2> HIDE DEF f
  <2> QED
    BY <1>1, <2>1 DEF Md5State
<1>5. buf \in [1 .. BlockSize -> Int]
  <2>1. \A i \in 1 .. BlockSize : md5.buf[i] \in Int
    BY <1>1 DEF Md5State
  <2>2. \A j \in 1 .. Len(data) : data[j] \in Int
    BY <1>2, ElementOfSeq
  <2>3. \A i \in 1 .. BlockSize :
          (IF i - r \in 1 .. Len(data) THEN data[i - r] ELSE md5.buf[i]) \in Int
    BY <2>1, <2>2, Zenon
  <2> QED
    BY <2>3
<1>6. \A i \in 1 .. r + Len(data) : buf[i] = t[y + i]
  <2> SUFFICES ASSUME NEW i \in 1 .. r + Len(data) PROVE buf[i] = t[y + i]
    OBVIOUS
  <2>1. i \in 1 .. BlockSize
    BY <1>2, <1>3
  <2> HIDE DEF y
  <2>2. CASE i <= r
    BY <1>1, <2>1, <2>2
  <2>3. CASE i > r
    <3>1. i - r \in 1 .. Len(data) /\ (y + r) + (i - r) = y + i
      BY <1>2, <1>3, <2>3
    <3>2. buf[i] = data[i - r]
      BY <2>1, <3>1
    <3> QED
      BY <1>2, <3>1, <3>2
  <2> QED
    BY <2>2, <2>3
<1> HIDE DEF buf, f
<1>7. f \in Md5State /\ f.buf = buf /\ f.abcd = md5.abcd /\ f.low = md5.low /\ f.high = md5.high
  BY <1>1, <1>4, <1>5 DEF Md5State
<1>8. Held(f, t, k, r + Len(data))
  BY <1>1, <1>6, <1>7 DEF Held
<1> QED
  BY <1>7, <1>8 DEF f

PieceOfLen(data, t, n, c) == Piece(data, t, n) /\ Len(data) = c

(* A part of a piece is a piece.                                             *)
LEMMA PieceOfPiece ==
  ASSUME NEW t \in Seq(Int), NEW n \in Nat, NEW data, Piece(data, t, n),
         NEW a \in Nat, NEW c \in Nat, a + c <= Len(data)
  PROVE  PieceOfLen(SubSeq(data, a + 1, a + c), t, n + a, c)
<1> DEFINE p == SubSeq(data, a + 1, a + c)
<1>1. data \in Seq(Int) /\ Len(data) \in Nat /\ n + Len(data) <= Len(t)
      /\ \A i \in 1 .. Len(data) : data[i] = t[n + i]
  BY DEF Piece
<1>2. \A i \in a + 1 .. a + c : data[i] \in Int
  BY <1>1, ElementOfSeq
<1>3. /\ p \in Seq(Int)
      /\ Len(p) = IF a + 1 <= a + c THEN (a + c) - (a + 1) + 1 ELSE 0
      /\ \A i \in 1 .. (a + c) - (a + 1) + 1 : p[i] = data[(a + 1) + i - 1]
  <2>1. a + 1 \in Int /\ a + c \in Int
    OBVIOUS
  <2> QED
    BY <1>2, <2>1, SubSeqProperties
<1> HIDE DEF p
<1>4. p \in Seq(Int) /\ Len(p) = c /\ \A i \in 1 .. c : p[i] = data[a + i]
  BY <1>3
<1>5. ASSUME NEW i \in 1 .. c PROVE p[i] = t[(n + a) + i]
  <2>1. a + i \in 1 .. Len(data) /\ n + (a + i) = (n + a) + i
    BY <1>1
  <2> QED
    BY <1>1, <1>4, <2>1
<1>6. (n + a) + Len(p) <= Len(t)
  <2>1. Len(t) \in Nat
    OBVIOUS
  <2> DEFINE l == Len(t)
             m == Len(data)
  <2>2. l \in Nat /\ m \in Nat /\ n + m <= l /\ a + c <= m
    BY <1>1, <2>1
  <2> HIDE DEF l, m
  <2>3. (n + a) + c <= l
    BY <2>2
  <2> QED
    BY <1>4, <2>3 DEF l
<1> QED
  BY <1>4, <1>5, <1>6, Zenon DEF Piece, PieceOfLen, p

(* The blocks of a piece are processed, and what is left begins the next.    *)
LEMMA BlocksTake ==
  ASSUME NEW t \in Seq(Int), NEW k \in Nat, NEW md5, Held(md5, t, k, 0),
         NEW data, Piece(data, t, BlockSize * k)
  PROVE  /\ Held(Blocks(md5, data), t, k + (Len(data) \div BlockSize), Len(data) % BlockSize)
         /\ Blocks(md5, data).low = md5.low /\ Blocks(md5, data).high = md5.high
<1> DEFINE full == Len(data) \div BlockSize
           left == Len(data) % BlockSize
           block(n) == SubSeq(data, (n - 1) * BlockSize + 1, n * BlockSize)
           run == CHOOSE run : run = [n \in 0 .. full |->
                    IF n = 0 THEN md5 ELSE Process(run[n - 1], block(n))]
           val(n) == [md5 EXCEPT !.abcd = MixedBlocks(t, k + n)]
           w == [n \in 0 .. full |-> val(n)]
           rest == SubSeq(data, full * BlockSize + 1, Len(data))
<1>1. BlockSize \in Nat \ {0} /\ BlockSize * k \in Nat
  BY Md5Assumption, Z3 DEF LengthSize
<1>2. data \in Seq(Int) /\ Len(data) \in Nat
  BY DEF Piece
<1>3. full \in Nat /\ left \in Nat /\ left < BlockSize /\ Len(data) = BlockSize * full + left
  <2> DEFINE l == Len(data)
  <2>1. l \in Nat
    BY <1>2
  <2> HIDE DEF l
  <2>2. /\ l \div BlockSize \in Nat /\ l % BlockSize \in Int /\ 0 <= l % BlockSize
        /\ l % BlockSize < BlockSize /\ l = BlockSize * (l \div BlockSize) + (l % BlockSize)
    BY <1>1, <2>1, DivMod
  <2> DEFINE q == l \div BlockSize
             r == l % BlockSize
  <2> HIDE DEF q, r
  <2>3. q \in Nat /\ r \in Nat /\ r < BlockSize /\ l = BlockSize * q + r
    BY <2>2 DEF q, r
  <2> QED
    BY <2>3 DEF l, q, r
<1>4. Blocks(md5, data) = Fill(run[full], 0, rest)
  BY DEF Blocks
<1>5. md5 \in Md5State /\ md5.abcd = MixedBlocks(t, k)
  BY DEF Held
<1>6. w[0] = md5
  <2>1. k + 0 = k
    OBVIOUS
  <2>2. [md5 EXCEPT !.abcd = md5.abcd] = md5
    BY <1>5 DEF Md5State
  <2>3. 0 \in 0 .. full
    BY <1>3
  <2> HIDE DEF full
  <2> QED
    BY <1>5, <2>1, <2>2, <2>3
(* What a turn of the loop starts with. *)
<1>7. ASSUME NEW n \in Nat, n <= full
      PROVE  Held(val(n), t, k + n, 0) /\ val(n).low = md5.low /\ val(n).high = md5.high
  <2>1. BlockSize * (k + n) <= Len(t)
    <3>1. BlockSize * n <= BlockSize * full /\ BlockSize * n \in Nat /\ BlockSize * full \in Nat
      <4> HIDE DEF full
      <4> QED
        BY <1>1, <1>3, <1>7, Z3
    <3>2. BlockSize * (k + n) = BlockSize * k + BlockSize * n
      BY <1>1, Z3
    <3>3. BlockSize * k + Len(data) <= Len(t) /\ Len(t) \in Nat
      BY DEF Piece
    <3> DEFINE x == BlockSize * n
               z == BlockSize * full
               y == BlockSize * k
    <3>4. x <= z /\ x \in Nat /\ z \in Nat /\ y \in Nat
      BY <1>1, <3>1
    <3>5. Len(data) = z + left
      BY <1>3
    <3> HIDE DEF x, y, z, left, full
    <3>6. y + x <= Len(t)
      BY <1>2, <1>3, <3>3, <3>4, <3>5 DEF y
    <3> QED
      BY <3>2, <3>6 DEF x, y
  <2> DEFINE a == MixedBlocks(t, k + n)
  <2>2. a \in Seq(Mixing)
    <3>1. k + n \in Nat
      OBVIOUS
    <3> HIDE DEF full
    <3> QED
      BY <2>1, <3>1, BlocksAreMixed
  <2> HIDE DEF a
  <2> DEFINE v == [md5 EXCEPT !.abcd = a]
  <2>3. v \in Md5State /\ v.abcd = a /\ v.low = md5.low /\ v.high = md5.high
    BY <1>5, <2>2 DEF Md5State
  <2>4. v = val(n)
    BY DEF a
  <2> HIDE DEF v
  <2>5. Held(v, t, k + n, 0)
    BY <2>3 DEF Held, a
  <2> QED
    BY <2>3, <2>4, <2>5
<1>8. ASSUME NEW n \in 1 .. full PROVE w[n] = Process(w[n - 1], block(n))
  <2> DEFINE m == n - 1
             b == block(n)
             s == val(m)
  <2>1. m \in Nat /\ m <= full /\ n = m + 1 /\ n \in 0 .. full /\ n - 1 \in 0 .. full
    BY <1>3
  <2>2. Held(s, t, k + m, 0)
    BY <1>7, <2>1
  <2>3. m * BlockSize \in Nat /\ n * BlockSize = m * BlockSize + BlockSize
        /\ m * BlockSize + BlockSize <= Len(data)
    <3>1. m * BlockSize \in Nat /\ (m + 1) * BlockSize = m * BlockSize + BlockSize
      <4> HIDE DEF m
      <4> QED
        BY <1>1, <2>1, Z3
    <3>2. (m + 1) * BlockSize <= BlockSize * full
      <4>1. m + 1 <= full
        BY <2>1
      <4> HIDE DEF m, full
      <4> QED
        BY <1>1, <1>3, <2>1, <4>1, Z3
    <3> DEFINE z == BlockSize * full
               x == (m + 1) * BlockSize
    <3>3. z \in Nat /\ x \in Nat /\ x <= z /\ Len(data) = z + left
      <4>1. z \in Nat
        <5> HIDE DEF full
        <5> QED
          BY <1>1, <1>3, Z3
      <4> HIDE DEF left, full
      <4> QED
        BY <1>1, <1>3, <3>1, <3>2, <4>1
    <3>4. left \in Nat
      BY <1>3
    <3> HIDE DEF z, left
    <3>5. x <= Len(data)
      <4> HIDE DEF x
      <4> QED
        BY <1>2, <3>3, <3>4
    <3> HIDE DEF m
    <3> QED
      BY <2>1, <3>1, <3>5
  <2>4. b = SubSeq(data, m * BlockSize + 1, m * BlockSize + BlockSize)
    BY <2>3
  <2> DEFINE a == m * BlockSize
  <2>5. Piece(b, t, BlockSize * k + a) /\ Len(b) = BlockSize
    <3>1. a \in Nat /\ BlockSize \in Nat /\ a + BlockSize <= Len(data) /\ BlockSize * k \in Nat
      BY <1>1, <2>3
    <3> HIDE DEF a, b, full
    <3>2. b = SubSeq(data, a + 1, a + BlockSize)
      BY <2>4 DEF a
    <3> DEFINE y == BlockSize * k
    <3>3. y \in Nat /\ Piece(data, t, y)
      BY <3>1
    <3> HIDE DEF y
    <3>4. PieceOfLen(SubSeq(data, a + 1, a + BlockSize), t, y + a, BlockSize)
      BY <3>1, <3>3, PieceOfPiece
    <3> QED
      BY <3>2, <3>4, Zenon DEF PieceOfLen, y
  <2>6. BlockSize * (k + m) = BlockSize * k + a
    <3> HIDE DEF m
    <3> QED
      BY <1>1, <2>1, Z3 DEF a
  <2> HIDE DEF a, b, s, m
  <2>7. b \in [1 .. BlockSize -> Int] /\ \A i \in 1 .. BlockSize : b[i] = t[BlockSize * (k + m) + i]
    <3>1. b \in Seq(Int) /\ \A i \in 1 .. Len(b) : b[i] = t[(BlockSize * k + a) + i]
      BY <2>5 DEF Piece
    <3>2. b \in [1 .. Len(b) -> Int]
      BY <3>1, LenProperties
    <3> QED
      BY <2>5, <2>6, <3>1, <3>2
  <2>8. BlockSize * (k + m) + BlockSize <= Len(t)
    BY <2>5, <2>6 DEF Piece
  <2>9. k + m \in Nat
    BY <2>1
  <2>10. Process(s, b) = [s EXCEPT !.abcd = MixedBlocks(t, (k + m) + 1)]
    <3> DEFINE j == k + m
    <3> HIDE DEF j
    <3>1. j \in Nat /\ Held(s, t, j, 0) /\ BlockSize * j + BlockSize <= Len(t)
          /\ b \in [1 .. BlockSize -> Int] /\ \A i \in 1 .. BlockSize : b[i] = t[BlockSize * j + i]
      BY <2>2, <2>7, <2>8, <2>9 DEF j
    <3>2. Process(s, b) = [s EXCEPT !.abcd = MixedBlocks(t, j + 1)]
      BY <3>1, ProcessTakes
    <3> QED
      BY <3>2 DEF j
  <2>11. (k + m) + 1 = k + n
    BY <2>1
  <2>12. [s EXCEPT !.abcd = MixedBlocks(t, k + n)] = val(n)
    BY <1>5 DEF s, Md5State
  <2>13. w[n] = val(n) /\ w[n - 1] = val(n - 1)
    <3> HIDE DEF full, val
    <3> QED
      BY <2>1
  <2> QED
    BY <2>10, <2>11, <2>12, <2>13, Zenon DEF s, b, m
<1>9. w = [n \in 0 .. full |-> IF n = 0 THEN md5 ELSE Process(w[n - 1], block(n))]
  <2>1. w = [n \in 0 .. full |-> w[n]]
    OBVIOUS
  <2>2. \A n \in 0 .. full : n = 0 \/ n \in 1 .. full
    BY <1>3
  <2> HIDE DEF w, full, block
  <2> QED
    BY <1>6, <1>8, <2>1, <2>2
<1>10. run = [n \in 0 .. full |-> IF n = 0 THEN md5 ELSE Process(run[n - 1], block(n))]
  <2> HIDE DEF w, full, block
  <2> QED
    BY <1>9
<1> HIDE DEF run, w, full, block
<1> DEFINE S == {n \in Nat : n <= full => run[n] = w[n]}
<1>11. 0 \in S
  BY <1>3, <1>6, <1>10
<1>12. ASSUME NEW n \in Nat, n \in S PROVE n + 1 \in S
  <2> SUFFICES ASSUME n + 1 <= full PROVE run[n + 1] = w[n + 1]
    OBVIOUS
  <2>1. n + 1 \in 1 .. full /\ n + 1 \in 0 .. full /\ n + 1 # 0 /\ (n + 1) - 1 = n /\ n <= full
    BY <1>3
  <2> QED
    BY <1>8, <1>10, <1>12, <2>1
<1> HIDE DEF S
<1>13. \A n \in Nat : n \in S
  BY <1>11, <1>12, SetInduction
<1>14. run[full] = val(full)
  <2>1. full \in S /\ full <= full /\ full \in 0 .. full
    BY <1>3, <1>13
  <2>2. run[full] = w[full]
    BY <2>1 DEF S
  <2> QED
    BY <2>1, <2>2 DEF w
<1> DEFINE v == val(full)
<1>15. Held(v, t, k + full, 0) /\ v.low = md5.low /\ v.high = md5.high
  <2>1. full <= full
    BY <1>3
  <2> QED
    BY <1>3, <1>7, <2>1
<1> HIDE DEF v
<1> DEFINE z == full * BlockSize
<1>16. z \in Nat /\ z = BlockSize * full /\ Len(data) = z + left /\ left \in Nat
  <2> HIDE DEF left
  <2> QED
    BY <1>1, <1>3, Z3
<1> HIDE DEF z, left
<1>17. Piece(rest, t, BlockSize * k + z) /\ Len(rest) = left
  <2>1. rest = SubSeq(data, z + 1, z + left)
    BY <1>16 DEF z
  <2> DEFINE y == BlockSize * k
  <2>2. y \in Nat /\ Piece(data, t, y)
    BY <1>1
  <2>3. z + left <= Len(data)
    BY <1>2, <1>16
  <2>4. z \in Nat /\ left \in Nat
    BY <1>16
  <2> HIDE DEF rest, y
  <2>5. PieceOfLen(SubSeq(data, z + 1, z + left), t, y + z, left)
    BY <2>2, <2>3, <2>4, PieceOfPiece
  <2> QED
    BY <2>1, <2>5, Zenon DEF PieceOfLen, y
<1>18. BlockSize * (k + full) + 0 = BlockSize * k + z
  <2>1. BlockSize * (k + full) = BlockSize * k + BlockSize * full
    BY <1>1, <1>3, Z3
  <2> QED
    BY <1>1, <1>16, <2>1
<1> HIDE DEF rest
<1>19. /\ Held(Fill(v, 0, rest), t, k + full, 0 + Len(rest))
       /\ Fill(v, 0, rest).low = v.low /\ Fill(v, 0, rest).high = v.high
  <2> DEFINE j == k + full
  <2>1. j \in Nat /\ 0 \in Nat /\ Held(v, t, j, 0) /\ Piece(rest, t, BlockSize * j + 0)
        /\ 0 + Len(rest) <= BlockSize
    BY <1>1, <1>3, <1>15, <1>16, <1>17, <1>18
  <2> HIDE DEF j
  <2>2. /\ Held(Fill(v, 0, rest), t, j, 0 + Len(rest))
        /\ Fill(v, 0, rest).low = v.low /\ Fill(v, 0, rest).high = v.high
    BY <2>1, FillTakes
  <2> QED
    BY <2>2 DEF j
<1>20. 0 + Len(rest) = left
  BY <1>16, <1>17
<1> QED
  BY <1>4, <1>14, <1>15, <1>19, <1>20 DEF v, full, left

(* The first n bytes of t have been taken.                                   *)
Taken(md5, t, n) ==
  \E k, r \in Nat : /\ r < BlockSize /\ n = BlockSize * k + r
                    /\ Held(md5, t, k, r) /\ Counted(md5, n)

(* Wherever the last piece ended: bson_md5_append takes the next one.        *)
LEMMA AppendTakes ==
  ASSUME NEW t \in Seq(Int), NEW n \in Nat, NEW md5, Taken(md5, t, n),
         NEW data, Piece(data, t, n)
  PROVE  Taken(AppendData(md5, data), t, n + Len(data))
<1> DEFINE l == Len(data)
           offset == (md5.low \div 8) % BlockSize
           counted == Count(md5, l)
           copy == IF offset + l > BlockSize THEN BlockSize - offset ELSE l
           first == SubSeq(data, 1, copy)
           filled == Fill(counted, offset, first)
           rest == SubSeq(data, copy + 1, l)
           out == AppendData(md5, data)
<1>1. PICK k, r \in Nat : /\ r < BlockSize /\ n = BlockSize * k + r
                          /\ Held(md5, t, k, r) /\ Counted(md5, n)
  BY DEF Taken
<1>2. BlockSize \in Nat \ {0} /\ BlockSize * k \in Nat /\ l \in Nat /\ md5 \in Md5State
      /\ data \in Seq(Int)
  BY <1>1, Md5Assumption, Z3 DEF LengthSize, Piece, Held
<1>3. offset = r
  <2>1. (((8 * n) % Word) \div 8) % BlockSize = n % BlockSize
    BY OffsetOfCount
  <2>2. n % BlockSize = r
    <3>1. r \in Int /\ 0 <= r /\ r < BlockSize /\ n \in Int /\ k \in Int
      BY <1>1
    <3> QED
      BY <1>1, <1>2, <3>1, DivUnique
  <2> QED
    BY <1>1, <2>1, <2>2 DEF Counted
<1>4. out = IF data = <<>> THEN md5
            ELSE IF offset = 0 THEN Blocks(counted, data)
            ELSE IF offset + copy < BlockSize THEN filled
            ELSE Blocks(Process(filled, filled.buf), rest)
  BY Zenon DEF AppendData
<1>5. /\ counted \in Md5State /\ Counted(counted, n + l)
      /\ counted.buf = md5.buf /\ counted.abcd = md5.abcd
  <2> HIDE DEF l
  <2> QED
    BY <1>1, <1>2, CountAdds
<1>6. Held(counted, t, k, r)
  <2> HIDE DEF counted
  <2> QED
    BY <1>1, <1>5, Zenon DEF Held
<1> HIDE DEF out, counted, offset
<1>7. CASE data = <<>>
  <2>1. out = md5 /\ n + l = n
    BY <1>4, <1>7
  <2> QED
    BY <2>1 DEF out, l
<1>8. CASE data # <<>> /\ r = 0
  <2> DEFINE q == l \div BlockSize
             p == l % BlockSize
  <2>1. q \in Nat /\ p \in Nat /\ p < BlockSize /\ l = BlockSize * q + p
    <3>1. l \in Nat /\ BlockSize \in Nat \ {0}
      BY <1>2
    <3> HIDE DEF l
    <3>2. /\ l \div BlockSize \in Nat /\ l % BlockSize \in Int /\ 0 <= l % BlockSize
          /\ l % BlockSize < BlockSize /\ l = BlockSize * (l \div BlockSize) + (l % BlockSize)
      BY <3>1, DivMod
    <3> QED
      BY <3>2
  <2>2. out = Blocks(counted, data)
    BY <1>3, <1>4, <1>8
  <2>3. /\ Held(out, t, k + q, p)
        /\ out.low = counted.low /\ out.high = counted.high
    <3> DEFINE y == BlockSize * k
    <3>1. n = y
      BY <1>1, <1>2, <1>8
    <3>2. Piece(data, t, BlockSize * k) /\ Held(counted, t, k, 0)
      BY <1>6, <1>8, <3>1
    <3> HIDE DEF out
    <3> QED
      BY <2>2, <3>2, BlocksTake
  <2>4. n + l = BlockSize * (k + q) + p
    <3>1. BlockSize * (k + q) = BlockSize * k + BlockSize * q /\ BlockSize * q \in Nat
      <4> HIDE DEF q
      <4> QED
        BY <1>2, <2>1, Z3
    <3> DEFINE y == BlockSize * k
               x == BlockSize * q
    <3>2. y \in Nat /\ x \in Nat /\ n = y /\ l = x + p
      BY <1>1, <1>2, <1>8, <2>1, <3>1
    <3> HIDE DEF y, x, l, p
    <3>3. n + l = (y + x) + p
      BY <2>1, <3>2
    <3> QED
      BY <3>1, <3>3 DEF y, x
  <2>5. Counted(out, n + l)
    BY <1>5, <2>3 DEF Counted
  <2> HIDE DEF q, p, l
  <2>6. k + q \in Nat
    BY <2>1
  <2>7. Taken(out, t, n + l)
    BY <2>1, <2>3, <2>4, <2>5, <2>6 DEF Taken
  <2> QED
    BY <2>7 DEF out, l
<1>9. CASE data # <<>> /\ r # 0
  <2>1. out = IF r + copy < BlockSize THEN filled
              ELSE Blocks(Process(filled, filled.buf), rest)
    BY <1>3, <1>4, <1>9
  <2>2. copy \in Nat /\ copy <= l /\ r + copy <= BlockSize
        /\ (r + copy < BlockSize => copy = l)
    <3> HIDE DEF l
    <3> QED
      BY <1>1, <1>2, <1>3
  <2> HIDE DEF copy
  <2>3. PieceOfLen(first, t, n, copy)
    <3>1. first = SubSeq(data, 0 + 1, 0 + copy) /\ 0 + copy <= Len(data) /\ 0 \in Nat /\ n + 0 = n
      BY <2>2
    <3> HIDE DEF first, l
    <3>2. PieceOfLen(SubSeq(data, 0 + 1, 0 + copy), t, n + 0, copy)
      BY <2>2, <3>1, PieceOfPiece
    <3> QED
      BY <3>1, <3>2, Zenon
  <2>4. /\ Held(filled, t, k, r + Len(first))
        /\ filled.low = counted.low /\ filled.high = counted.high
    <3>1. filled = Fill(counted, r, first)
      BY <1>3
    <3> HIDE DEF filled, first
    <3>2. Piece(first, t, BlockSize * k + r) /\ r + Len(first) <= BlockSize
      BY <1>1, <2>2, <2>3 DEF PieceOfLen
    <3>3. /\ Held(Fill(counted, r, first), t, k, r + Len(first))
          /\ Fill(counted, r, first).low = counted.low
          /\ Fill(counted, r, first).high = counted.high
      BY <1>6, <3>2, FillTakes
    <3> QED
      BY <3>1, <3>3
  <2>5. Held(filled, t, k, r + copy)
    BY <2>3, <2>4, Zenon DEF PieceOfLen
  <2>6. Counted(filled, n + l)
    BY <1>5, <2>4 DEF Counted
  <2> HIDE DEF filled, first
  <2>7. CASE r + copy < BlockSize
    <3>1. out = filled /\ copy = l
      BY <2>1, <2>2, <2>7
    <3> DEFINE y == BlockSize * k
    <3>2. n + l = y + (r + copy)
      <4>1. y \in Nat /\ n = y + r
        BY <1>1, <1>2
      <4> HIDE DEF y, l
      <4> QED
        BY <1>2, <3>1, <4>1
    <3>3. n + l = BlockSize * k + (r + copy) /\ r + copy \in Nat
      BY <2>2, <3>2
    <3> HIDE DEF l
    <3>4. Taken(out, t, n + l)
      <4> DEFINE x == r + copy
      <4>1. x \in Nat /\ x < BlockSize /\ n + l = BlockSize * k + x /\ Held(out, t, k, x)
            /\ Counted(out, n + l)
        BY <2>5, <2>6, <2>7, <3>1, <3>3
      <4> HIDE DEF x
      <4> QED
        BY <4>1 DEF Taken
    <3> QED
      BY <3>4 DEF out, l
  <2>8. CASE r + copy = BlockSize
    <3> DEFINE y == BlockSize * k
               z == Process(filled, filled.buf)
               left == l - copy
               q == left \div BlockSize
               p == left % BlockSize
    <3>1. out = Blocks(z, rest)
      BY <1>2, <2>1, <2>8
    <3>2. y \in Nat /\ n = y + r /\ n + copy = y + BlockSize
      <4>1. y \in Nat /\ n = y + r
        BY <1>1, <1>2
      <4> HIDE DEF y
      <4> QED
        BY <1>2, <2>2, <2>8, <4>1
    <3>3. y + BlockSize <= Len(t)
      <4>1. n + l <= Len(t) /\ Len(t) \in Nat
        BY DEF Piece
      <4> HIDE DEF y, l
      <4> QED
        BY <1>2, <2>2, <3>2, <4>1
    <3>4. /\ filled.buf \in [1 .. BlockSize -> Int]
          /\ \A i \in 1 .. BlockSize : filled.buf[i] = t[BlockSize * k + i]
          /\ Held(filled, t, k, 0)
      BY <2>5, <2>8 DEF Held, Md5State
    <3>5. /\ Held(z, t, k + 1, 0)
          /\ z.low = filled.low /\ z.high = filled.high
      <4> DEFINE b == filled.buf
      <4>1. b \in [1 .. BlockSize -> Int] /\ \A i \in 1 .. BlockSize : b[i] = t[BlockSize * k + i]
        BY <3>4
      <4>2. BlockSize * k + BlockSize <= Len(t)
        BY <3>3
      <4> HIDE DEF b
      <4>3. Held(filled, t, k, 0)
        BY <3>4
      <4> DEFINE f == filled
      <4> HIDE DEF f
      <4>4. Held(f, t, k, 0) /\ BlockSize * k + BlockSize <= Len(t)
            /\ b \in [1 .. BlockSize -> Int] /\ \A i \in 1 .. BlockSize : b[i] = t[BlockSize * k + i]
        BY <4>1, <4>2, <4>3 DEF f
      <4>5. Held(Process(f, b), t, k + 1, 0)
        BY <4>4, ProcessTakes
      <4> DEFINE a == f.abcd \o [j \in 1 .. 64 |->
                        [word     |-> WordAt(b, WordOrder[j]),
                         rotation |-> Rotations[((j - 1) \div 16) + 1][((j - 1) % 4) + 1]]]
      <4>6. Process(f, b) = [f EXCEPT !.abcd = a]
        BY Zenon DEF Process
      <4>7. f \in Md5State
        BY <4>4 DEF Held
      <4> HIDE DEF a
      <4>8. Process(f, b).low = f.low /\ Process(f, b).high = f.high
        BY <4>6, <4>7 DEF Md5State
      <4> QED
        BY <4>5, <4>8 DEF b, f
    <3>6. PieceOfLen(rest, t, n + copy, left)
      <4>1. left \in Nat /\ copy + left = l
        <5> HIDE DEF l
        <5> QED
          BY <1>2, <2>2
      <4>2. rest = SubSeq(data, copy + 1, copy + left) /\ copy + left <= Len(data)
        <5>1. rest = SubSeq(data, copy + 1, l) /\ l = Len(data)
          OBVIOUS
        <5> HIDE DEF rest, left, l
        <5>2. copy + left = l
          BY <4>1
        <5>3. rest = SubSeq(data, copy + 1, copy + left)
          BY <5>1, <5>2, Zenon
        <5>4. l <= Len(data)
          BY <1>2, <5>1
        <5> QED
          BY <5>2, <5>3, <5>4, Zenon
      <4> HIDE DEF rest, left, l
      <4>3. PieceOfLen(SubSeq(data, copy + 1, copy + left), t, n + copy, left)
        BY <2>2, <4>1, <4>2, PieceOfPiece
      <4> QED
        BY <4>2, <4>3, Zenon
    <3>7. BlockSize * (k + 1) = y + BlockSize
      BY <1>2, Z3
    <3>8. left \in Nat /\ copy + left = l
      <4> HIDE DEF l
      <4> QED
        BY <1>2, <2>2
    <3> HIDE DEF z, rest, left
    <3>9. q \in Nat /\ p \in Nat /\ p < BlockSize /\ left = BlockSize * q + p
      <4>1. left \in Nat /\ BlockSize \in Nat \ {0}
        BY <1>2, <3>8
      <4>2. /\ left \div BlockSize \in Nat /\ left % BlockSize \in Int /\ 0 <= left % BlockSize
            /\ left % BlockSize < BlockSize
            /\ left = BlockSize * (left \div BlockSize) + (left % BlockSize)
        BY <4>1, DivMod
      <4> QED
        BY <4>2
    <3>10. /\ Held(out, t, (k + 1) + q, p)
           /\ out.low = z.low /\ out.high = z.high
      <4> DEFINE j == k + 1
      <4>1. j \in Nat /\ Held(z, t, j, 0) /\ Piece(rest, t, BlockSize * j) /\ Len(rest) = left
        BY <3>2, <3>5, <3>6, <3>7 DEF PieceOfLen
      <4> HIDE DEF j
      <4>2. /\ Held(Blocks(z, rest), t, j + (Len(rest) \div BlockSize), Len(rest) % BlockSize)
            /\ Blocks(z, rest).low = z.low /\ Blocks(z, rest).high = z.high
        BY <4>1, BlocksTake
      <4> QED
        BY <3>1, <4>1, <4>2 DEF j
    <3>11. n + l = BlockSize * ((k + 1) + q) + p
      <4>1. BlockSize * ((k + 1) + q) = BlockSize * (k + 1) + BlockSize * q /\ BlockSize * q \in Nat
        <5> HIDE DEF q
        <5> QED
          BY <1>2, <3>9, Z3
      <4> DEFINE x == BlockSize * q
      <4>2. x \in Nat /\ left = x + p
        BY <3>9, <4>1
      <4> HIDE DEF y, x, l, p
      <4>3. n + l = (y + BlockSize) + (x + p)
        <5>1. n + l = (n + copy) + left
          BY <2>2, <3>8
        <5> QED
          BY <3>2, <4>2, <5>1
      <4>4. n + l = ((y + BlockSize) + x) + p
        BY <1>2, <3>2, <3>9, <4>2, <4>3
      <4> QED
        BY <3>7, <4>1, <4>4 DEF x
    <3>12. Counted(out, n + l)
      BY <2>6, <3>5, <3>10 DEF Counted
    <3> HIDE DEF q, p, l
    <3> DEFINE j == (k + 1) + q
    <3>13. j \in Nat /\ n + l = BlockSize * j + p /\ Held(out, t, j, p)
      BY <3>9, <3>10, <3>11
    <3> HIDE DEF j
    <3>14. Taken(out, t, n + l)
      BY <3>9, <3>12, <3>13 DEF Taken
    <3> QED
      BY <3>14 DEF out, l
  <2> QED
    BY <1>2, <2>2, <2>7, <2>8
<1> QED
  BY <1>7, <1>8, <1>9

(* The padding is the shortest that makes whole blocks with the length: what *)
(* bson_md5_finish takes from its table of bytes is one more than the zeros. *)
LEMMA PaddingIsShortest ==
  ASSUME NEW n \in Nat
  PROVE  /\ Zeros(n) \in 0 .. BlockSize - 1
         /\ (n + 1 + Zeros(n) + LengthSize) % BlockSize = 0
         /\ PadSize((8 * n) % Word) = Zeros(n) + 1
<1> DEFINE x == ((8 * n) % Word) \div 8
           l == LengthSize
           b == BlockSize
           m == b - l - 1 - x
           q == m \div b
           p == m % b
           a == n \div b
           r == n % b
           c == x \div b
<1>1. b \in Nat \ {0} /\ l \in Nat
  BY Md5Assumption DEF LengthSize
<1>2. x \in Nat /\ x % b = r
  BY OffsetOfCount
<1>3. m \in Int
  BY <1>1, <1>2
<1>4. q \in Int /\ p \in Int /\ 0 <= p /\ p < b /\ m = b * q + p
  <2> HIDE DEF m, b
  <2> QED
    BY <1>1, <1>3, DivMod
<1>5. a \in Int /\ r \in Int /\ n = b * a + r
  <2> HIDE DEF b
  <2> QED
    BY <1>1, DivMod
<1>6. c \in Int /\ x = b * c + r
  <2> HIDE DEF b, x, r
  <2>1. x \div b \in Int /\ x = b * (x \div b) + (x % b)
    BY <1>1, <1>2, DivMod
  <2> QED
    BY <1>2, <2>1
<1>7. PadSize((8 * n) % Word) = p + 1
  BY DEF PadSize
<1>8. m = b - l - 1 - x
  OBVIOUS
<1> HIDE DEF x, l, b, m, q, p, a, r, c
<1>9. n + 1 + p + l = b * (a + 1 - c - q)
  BY <1>1, <1>2, <1>3, <1>4, <1>5, <1>6, <1>8, Z3
<1> DEFINE P(k) == (n + 1 + k + l) % b = 0
           v == a + 1 - c - q
           s == n + 1 + p + l
<1>10. v \in Int /\ s \in Int /\ s = b * v + 0
  <2>1. v \in Int /\ s \in Int
    BY <1>1, <1>4, <1>5, <1>6
  <2>2. s = b * v
    BY <1>9
  <2> HIDE DEF v, s
  <2> QED
    BY <2>1, <2>2
<1>11. P(p)
  <2> HIDE DEF v, s
  <2>1. s % b = 0
    BY <1>1, <1>10, DivUnique
  <2> QED
    BY <2>1 DEF s
<1>12. p \in 0 .. b - 1
  BY <1>1, <1>4
<1> DEFINE z == CHOOSE k \in 0 .. b - 1 : P(k)
<1>13. z \in 0 .. b - 1 /\ P(z)
  <2> HIDE DEF P
  <2> QED
    BY <1>11, <1>12
<1>14. Zeros(n) = z
  BY DEF Zeros, l, b
<1> HIDE DEF z
<1> DEFINE u == n + 1 + z + l
           w == u \div b
<1>15. u \in Int /\ u % b = 0
  BY <1>1, <1>13
<1>16. w \in Int /\ u = b * w
  <2> HIDE DEF u
  <2>1. u \div b \in Int /\ u = b * (u \div b) + (u % b)
    BY <1>1, <1>15, DivMod
  <2> DEFINE y == b * (u \div b)
  <2>2. y \in Int
    BY <1>1, <2>1, Z3
  <2> HIDE DEF y
  <2>3. u = y
    BY <1>15, <2>1, <2>2 DEF y
  <2> QED
    BY <2>1, <2>3 DEF y
<1>17. z = p
  <2>1. u = n + 1 + z + l /\ s = n + 1 + p + l
    OBVIOUS
  <2> HIDE DEF u, s, w, v, P
  <2>2. z \in Int /\ 0 <= z /\ z < b
    BY <1>1, <1>13
  <2>3. CASE p >= z
    <3> DEFINE d == p - z
    <3>1. d \in Int /\ 0 <= d /\ d < b /\ s = u + d
      BY <1>1, <1>4, <1>10, <1>15, <2>1, <2>2, <2>3
    <3> HIDE DEF d
    <3>2. s = b * w + d
      BY <1>16, <3>1
    <3>3. s % b = d
      BY <1>1, <1>10, <1>16, <3>1, <3>2, DivUnique
    <3>4. s % b = 0
      BY <1>1, <1>10, DivUnique
    <3>5. p - z = 0
      BY <3>3, <3>4 DEF d
    <3> QED
      BY <1>4, <2>2, <3>5
  <2>4. CASE z > p
    <3> DEFINE d == z - p
    <3>1. d \in Int /\ 0 <= d /\ d < b /\ u = s + d
      BY <1>1, <1>4, <1>10, <1>15, <2>1, <2>2, <2>4
    <3> HIDE DEF d
    <3>2. u = b * v + d
      <4>1. s = b * v
        BY <1>9 DEF s, v
      <4> QED
        BY <3>1, <4>1
    <3>3. u % b = d
      BY <1>1, <1>10, <1>15, <3>1, <3>2, DivUnique
    <3>4. z - p = 0
      BY <1>15, <3>3 DEF d
    <3> QED
      BY <1>4, <2>2, <2>4, <3>4
  <2> QED
    BY <1>4, <2>2, <2>3, <2>4
<1> QED
  BY <1>7, <1>13, <1>14, <1>17 DEF b, l

(* The two words are written as the eight bytes of the number of bits.       *)
LEMMA LengthIsWritten ==
  ASSUME NEW md5, NEW n \in Nat, Counted(md5, n), NEW i \in 1 .. LengthSize
  PROVE  LengthBytes(md5)[i] = ((8 * n) \div PlaceValue[i - 1]) % 256
<1> DEFINE a == 8 * n
           word == IF i <= WordBytes THEN md5.low ELSE md5.high
           j == (i - 1) % WordBytes
<1>1. WordBytes \in Nat \ {0} /\ LengthSize = 2 * WordBytes /\ a \in Nat
  BY Md5Assumption DEF LengthSize
<1>2. md5.low = a % Word /\ md5.high = (a \div Word) % Word
  BY DEF Counted
<1>3. LengthBytes(md5)[i] = (word \div PlaceValue[j]) % 256
  BY DEF LengthBytes
<1> HIDE DEF a
<1>4. CASE i <= WordBytes
  <2> DEFINE h == i - 1
  <2>1. h \in 0 .. WordBytes - 1 /\ word = a % Word
    BY <1>1, <1>2, <1>4
  <2>2. j = h
    <3>1. h \in Int /\ 0 <= h /\ h < WordBytes /\ h = WordBytes * 0 + h
      BY <1>1, <1>4
    <3> HIDE DEF h
    <3>2. h % WordBytes = h
      BY <1>1, <3>1, DivUnique
    <3> QED
      BY <3>2 DEF h
  <2> HIDE DEF h, j, word
  <2>3. ((a % Word) \div PlaceValue[h]) % 256 = (a \div PlaceValue[h]) % 256
    BY <1>1, <2>1, ByteOfWord
  <2> QED
    BY <1>3, <2>1, <2>2, <2>3 DEF h, a
<1>5. CASE i > WordBytes
  <2> DEFINE h == i - 1
             g == h - WordBytes
  <2>1. h \in WordBytes .. LengthSize - 1 /\ word = (a \div Word) % Word
    BY <1>1, <1>2, <1>5
  <2>2. j = g
    <3>1. g \in Int /\ 0 <= g /\ g < WordBytes /\ h \in Int /\ h = WordBytes * 1 + g
      BY <1>1, <1>5
    <3> HIDE DEF g, h
    <3>2. h % WordBytes = g
      BY <1>1, <3>1, DivUnique
    <3> QED
      BY <3>2 DEF h
  <2> HIDE DEF h, j, word
  <2>3. (((a \div Word) % Word) \div PlaceValue[h - WordBytes]) % 256 = (a \div PlaceValue[h]) % 256
    BY <1>1, <2>1, ByteOfNextWord
  <2> QED
    BY <1>3, <2>1, <2>2, <2>3 DEF h, g, a
<1> QED
  BY <1>1, <1>4, <1>5

(* A function on the first n numbers is a sequence.                          *)
LEMMA FunctionIsSeq ==
  ASSUME NEW S, NEW n \in Nat, NEW f \in [1 .. n -> S]
  PROVE  f \in Seq(S) /\ Len(f) = n
OBVIOUS

(* u is s with t behind it.                                                  *)
Joined(u, s, t) ==
  /\ u \in Seq(Int) /\ Len(u) = Len(s) + Len(t)
  /\ \A i \in 1 .. Len(s) : u[i] = s[i]
  /\ \A i \in 1 .. Len(t) : u[Len(s) + i] = t[i]

LEMMA Joining ==
  ASSUME NEW s \in Seq(Int), NEW t \in Seq(Int)
  PROVE  Joined(s \o t, s, t)
BY ConcatParts DEF Joined

(* What stands where in a padded message.                                    *)
LaidOut(t, input, n, z) ==
  /\ t \in Seq(Int) /\ Len(t) = n + 1 + z + LengthSize
  /\ \A i \in 1 .. n : t[i] = input[i]
  /\ t[n + 1] = 128
  /\ \A i \in 1 .. z : t[n + 1 + i] = 0
  /\ \A i \in 1 .. LengthSize : t[n + 1 + z + i] = ((8 * n) \div PlaceValue[i - 1]) % 256

(* The bytes of the number of bits.                                          *)
LEMMA BytesOfLength ==
  ASSUME NEW n \in Nat, NEW i \in 1 .. LengthSize
  PROVE  ((8 * n) \div PlaceValue[i - 1]) % 256 \in Int
<1> DEFINE a == 8 * n
           d == PlaceValue[i - 1]
           q == a \div d
<1>1. a \in Int /\ d \in Nat \ {0}
  <2>1. i - 1 \in 0 .. LengthSize
    BY Md5Assumption DEF LengthSize
  <2> QED
    BY <2>1, PlaceValues
<1> HIDE DEF a, d
<1>2. q \in Int
  BY <1>1, DivMod
<1> HIDE DEF q
<1>3. q % 256 \in Int
  BY <1>2
<1> QED
  BY <1>3 DEF q, d, a

(* The parts of the reference, each where it belongs.                        *)
LEMMA PaddedParts ==
  ASSUME NEW input \in Seq(Int)
  PROVE  LaidOut(PaddedMessage(input), input, Len(input), Zeros(Len(input)))
<1> DEFINE n == Len(input)
           z == Zeros(n)
           l == LengthSize
           bit == <<128>>
           zeros == [i \in 1 .. z |-> 0]
           bytes == [i \in 1 .. l |-> ((8 * n) \div PlaceValue[i - 1]) % 256]
           a == input \o bit
           b == a \o zeros
           t == b \o bytes
<1>1. n \in Nat /\ z \in Nat /\ l \in Nat
  <2>1. n \in Nat
    OBVIOUS
  <2> HIDE DEF n
  <2>2. z \in 0 .. BlockSize - 1
    BY <2>1, PaddingIsShortest
  <2> HIDE DEF z
  <2> QED
    BY <2>1, <2>2, Md5Assumption DEF LengthSize
<1>2. bit \in Seq(Int) /\ Len(bit) = 1 /\ bit[1] = 128
  OBVIOUS
<1>3. zeros \in Seq(Int) /\ Len(zeros) = z /\ \A i \in 1 .. z : zeros[i] = 0
  <2> HIDE DEF z
  <2>1. zeros \in [1 .. z -> Int] /\ \A i \in 1 .. z : zeros[i] = 0
    OBVIOUS
  <2> HIDE DEF zeros
  <2> QED
    BY <1>1, <2>1, FunctionIsSeq
<1>4. /\ bytes \in Seq(Int) /\ Len(bytes) = l
      /\ \A i \in 1 .. l : bytes[i] = ((8 * n) \div PlaceValue[i - 1]) % 256
  <2> HIDE DEF n
  <2>1. \A i \in 1 .. l : ((8 * n) \div PlaceValue[i - 1]) % 256 \in Int
    BY <1>1, BytesOfLength
  <2>2. /\ bytes \in [1 .. l -> Int]
        /\ \A i \in 1 .. l : bytes[i] = ((8 * n) \div PlaceValue[i - 1]) % 256
    BY <2>1
  <2> HIDE DEF bytes, l
  <2>3. bytes \in Seq(Int) /\ Len(bytes) = l
    BY <1>1, <2>2, FunctionIsSeq
  <2> QED
    BY <2>2, <2>3
<1>5. PaddedMessage(input) = t
  BY Zenon DEF PaddedMessage
<1> HIDE DEF bit, zeros, bytes
<1>6. /\ a \in Seq(Int) /\ Len(a) = n + 1
      /\ \A i \in 1 .. n : a[i] = input[i]
      /\ a[n + 1] = 128
  <2>1. /\ a \in Seq(Int) /\ Len(a) = Len(input) + Len(bit)
        /\ \A i \in 1 .. Len(input) : a[i] = input[i]
        /\ \A i \in 1 .. Len(bit) : a[Len(input) + i] = bit[i]
    <3>1. Joined(a, input, bit)
      BY <1>2, Joining
    <3> HIDE DEF a
    <3> QED
      BY <3>1 DEF Joined
  <2> HIDE DEF a
  <2>2. 1 \in 1 .. Len(bit)
    BY <1>2
  <2> QED
    BY <1>2, <2>1, <2>2
<1> HIDE DEF a
<1>7. /\ b \in Seq(Int) /\ Len(b) = n + 1 + z
      /\ \A i \in 1 .. n + 1 : b[i] = a[i]
      /\ \A i \in 1 .. z : b[n + 1 + i] = 0
  <2>1. /\ b \in Seq(Int) /\ Len(b) = Len(a) + Len(zeros)
        /\ \A i \in 1 .. Len(a) : b[i] = a[i]
        /\ \A i \in 1 .. Len(zeros) : b[Len(a) + i] = zeros[i]
    <3>1. Joined(b, a, zeros)
      BY <1>3, <1>6, Joining
    <3> HIDE DEF b
    <3> QED
      BY <3>1 DEF Joined
  <2> HIDE DEF b, n, z
  <2> QED
    BY <1>3, <1>6, <2>1
<1> HIDE DEF b
<1>8. /\ t \in Seq(Int) /\ Len(t) = n + 1 + z + l
      /\ \A i \in 1 .. n + 1 + z : t[i] = b[i]
      /\ \A i \in 1 .. l : t[n + 1 + z + i] = bytes[i]
  <2>1. /\ t \in Seq(Int) /\ Len(t) = Len(b) + Len(bytes)
        /\ \A i \in 1 .. Len(b) : t[i] = b[i]
        /\ \A i \in 1 .. Len(bytes) : t[Len(b) + i] = bytes[i]
    <3>1. Joined(t, b, bytes)
      BY <1>4, <1>7, Joining
    <3> HIDE DEF t
    <3> QED
      BY <3>1 DEF Joined
  <2> HIDE DEF t, n, z, l
  <2> QED
    BY <1>4, <1>7, <2>1
<1> HIDE DEF t, n, z, l
<1>9. \A i \in 1 .. n : t[i] = input[i]
  <2>1. \A i \in 1 .. n : i \in 1 .. n + 1 /\ i \in 1 .. n + 1 + z
    BY <1>1
  <2> QED
    BY <1>6, <1>7, <1>8, <2>1
<1>10. t[n + 1] = 128
  <2>1. n + 1 \in 1 .. n + 1 /\ n + 1 \in 1 .. n + 1 + z
    BY <1>1
  <2> QED
    BY <1>6, <1>7, <1>8, <2>1
<1>11. \A i \in 1 .. z : t[n + 1 + i] = 0
  <2>1. \A i \in 1 .. z : n + 1 + i \in 1 .. n + 1 + z
    BY <1>1
  <2> QED
    BY <1>7, <1>8, <2>1
<1>12. \A i \in 1 .. LengthSize : t[n + 1 + z + i] = ((8 * n) \div PlaceValue[i - 1]) % 256
  BY <1>4, <1>8 DEF l
<1>13. LaidOut(t, input, n, z)
  BY <1>8, <1>9, <1>10, <1>11, <1>12 DEF LaidOut, l
<1> QED
  BY <1>5, <1>13 DEF z, n

(* bson_md5_init                                                             *)
LEMMA NothingTaken ==
  ASSUME NEW t \in Seq(Int)
  PROVE  Taken(Md5Init, t, 0)
<1>1. Md5Init \in Md5State
  <2> DEFINE buf == [i \in 1 .. BlockSize |-> Junk]
  <2>1. buf \in [1 .. BlockSize -> Int]
    BY DEF Junk
  <2> HIDE DEF buf
  <2>2. Md5Init = [low |-> 0, high |-> 0, buf |-> buf, abcd |-> <<>>]
    BY DEF Md5Init, buf
  <2>3. <<>> \in Seq(Mixing)
    BY EmptySeq
  <2> QED
    BY <2>1, <2>2, <2>3 DEF Md5State
<1>2. Md5Init.abcd = MixedBlocks(t, 0)
  <2>1. MixedBlocks(t, 0) = [n \in 1 .. 0 |-> MixedEntry(t, n)]
    BY DEF MixedBlocks
  <2>2. MixedBlocks(t, 0) \in Seq(Mixing) /\ Len(MixedBlocks(t, 0)) = 0 * 64
    <3>1. BlockSize * 0 <= Len(t) /\ 0 \in Nat
      BY Md5Assumption
    <3> QED
      BY <3>1, BlocksAreMixed
  <2> DEFINE m == MixedBlocks(t, 0)
  <2> HIDE DEF m
  <2>3. m \in Seq(Mixing) /\ Len(m) = 0
    BY <2>2 DEF m
  <2>4. m = <<>>
    BY <2>3, EmptySeq
  <2>5. Md5Init.abcd = <<>>
    BY DEF Md5Init
  <2> QED
    BY <2>4, <2>5 DEF m
<1>3. Held(Md5Init, t, 0, 0)
  BY <1>1, <1>2 DEF Held
<1>4. Counted(Md5Init, 0)
  <2>1. Word \in Nat \ {0}
    <3>1. WordBytes \in 0 .. LengthSize
      BY Md5Assumption DEF LengthSize
    <3> QED
      BY <3>1, PlaceValues DEF Word
  <2>2. 0 % Word = 0 /\ 0 \div Word = 0
    <3>1. 0 = Word * 0 + 0 /\ 0 \in Int /\ 0 <= 0 /\ 0 < Word
      BY <2>1
    <3> DEFINE w == Word
    <3>2. w \in Nat \ {0} /\ 0 = w * 0 + 0 /\ 0 < w
      BY <2>1, <3>1
    <3> HIDE DEF w
    <3>3. 0 \div w = 0 /\ 0 % w = 0
      BY <3>1, <3>2, DivUnique
    <3> QED
      BY <3>3 DEF w
  <2>3. Md5Init.low = 0 /\ Md5Init.high = 0
    BY DEF Md5Init
  <2> QED
    BY <2>2, <2>3 DEF Counted
<1>5. 0 \in Nat /\ 0 < BlockSize /\ 0 = BlockSize * 0 + 0
  BY Md5Assumption DEF LengthSize
<1> QED
  BY <1>3, <1>4, <1>5 DEF Taken

(* A message is taken, its padding and its length after it, whatever its     *)
(* length: the digest holds all blocks of the padded message and no other.   *)
LEMMA HexMd5Is ==
  ASSUME NEW input \in Seq(Int)
  PROVE  HexMd5(input) = MixedIn(PaddedMessage(input))
<1> DEFINE t == PaddedMessage(input)
           n == Len(input)
           z == Zeros(n)
           l == LengthSize
           m1 == AppendData(Md5Init, input)
           pad == SubSeq(Pad, 1, PadSize(m1.low))
           m2 == AppendData(m1, pad)
           bytes == LengthBytes(m1)
           m3 == AppendData(m2, bytes)
<1>1. HexMd5(input) = m3.abcd
  BY Zenon DEF HexMd5, Finish
<1>2. LaidOut(t, input, n, z)
  BY PaddedParts
<1>3. BlockSize \in Nat \ {0} /\ l \in Nat
  BY Md5Assumption DEF LengthSize
<1>4. n \in Nat
  OBVIOUS
<1> HIDE DEF n, t, l
<1>5. /\ z \in 0 .. BlockSize - 1
      /\ (n + 1 + z + l) % BlockSize = 0
      /\ PadSize((8 * n) % Word) = z + 1
  <2>1. /\ Zeros(n) \in 0 .. BlockSize - 1
        /\ (n + 1 + Zeros(n) + LengthSize) % BlockSize = 0
        /\ PadSize((8 * n) % Word) = Zeros(n) + 1
    BY <1>4, PaddingIsShortest
  <2> QED
    BY <2>1 DEF l
<1>6. z \in Nat
  BY <1>3, <1>5
<1> HIDE DEF z
<1>7. /\ t \in Seq(Int) /\ Len(t) = n + 1 + z + l
      /\ \A i \in 1 .. n : t[i] = input[i]
      /\ t[n + 1] = 128
      /\ \A i \in 1 .. z : t[n + 1 + i] = 0
      /\ \A i \in 1 .. l : t[n + 1 + z + i] = ((8 * n) \div PlaceValue[i - 1]) % 256
  BY <1>2, Zenon DEF LaidOut, l
<1>8. Taken(m1, t, n)
  <2>1. Taken(Md5Init, t, 0)
    BY <1>7, NothingTaken
  <2>2. Piece(input, t, 0)
    <3>1. Len(input) = n /\ 0 + n <= Len(t) /\ \A i \in 1 .. n : 0 + i = i
      BY <1>3, <1>4, <1>6, <1>7 DEF n
    <3> QED
      BY <1>7, <3>1 DEF Piece
  <2> DEFINE c == 0
  <2>3. Taken(Md5Init, t, c) /\ Piece(input, t, c) /\ c \in Nat
    BY <2>1, <2>2
  <2> HIDE DEF c, m1
  <2>4. Taken(AppendData(Md5Init, input), t, c + Len(input))
    BY <1>7, <2>3, AppendTakes
  <2>5. c + Len(input) = n
    BY <1>4 DEF c, n
  <2> QED
    BY <2>4, <2>5 DEF m1
<1> HIDE DEF m1
<1>9. Counted(m1, n)
  BY <1>8 DEF Taken
<1>10. Piece(pad, t, n) /\ Len(pad) = z + 1
  <2> DEFINE s == z + 1
  <2>1. s \in 1 .. BlockSize /\ PadSize(m1.low) = s
    BY <1>3, <1>5, <1>9 DEF Counted
  <2>2. \A i \in 1 .. s : Pad[i] = IF i = 1 THEN 128 ELSE 0
    BY <1>3, <2>1 DEF Pad
  <2> HIDE DEF s
  <2>3. pad = SubSeq(Pad, 1, s)
    BY <2>1
  <2>4. /\ SubSeq(Pad, 1, s) \in Seq(Int)
        /\ Len(SubSeq(Pad, 1, s)) = IF 1 <= s THEN s - 1 + 1 ELSE 0
        /\ \A i \in 1 .. s - 1 + 1 : SubSeq(Pad, 1, s)[i] = Pad[1 + i - 1]
    <3>1. \A i \in 1 .. s : Pad[i] \in Int
      BY <2>2
    <3>2. 1 \in Int /\ s \in Int
      BY <2>1
    <3> QED
      BY <3>1, <3>2, SubSeqProperties
  <2> HIDE DEF pad
  <2>5. pad \in Seq(Int) /\ Len(pad) = s /\ \A i \in 1 .. s : pad[i] = Pad[i]
    <3> DEFINE p == SubSeq(Pad, 1, s)
    <3> HIDE DEF p
    <3>1. p \in Seq(Int) /\ Len(p) = (IF 1 <= s THEN s - 1 + 1 ELSE 0)
          /\ \A i \in 1 .. s - 1 + 1 : p[i] = Pad[1 + i - 1]
      BY <2>4 DEF p
    <3>2. p \in Seq(Int) /\ Len(p) = s /\ \A i \in 1 .. s : p[i] = Pad[i]
      BY <2>1, <3>1
    <3> QED
      BY <2>3, <3>2 DEF p
  <2>6. \A i \in 1 .. s : t[n + i] = IF i = 1 THEN 128 ELSE 0
    <3> SUFFICES ASSUME NEW i \in 1 .. s
                 PROVE  t[n + i] = IF i = 1 THEN 128 ELSE 0
      OBVIOUS
    <3>1. CASE i = 1
      BY <1>7, <3>1
    <3>2. CASE i # 1
      <4>1. i - 1 \in 1 .. z /\ n + 1 + (i - 1) = n + i
        BY <1>4, <1>6, <3>2 DEF s
      <4> QED
        BY <1>7, <3>2, <4>1
    <3> QED
      BY <3>1, <3>2
  <2>7. n + s <= Len(t)
    BY <1>3, <1>4, <1>6, <1>7 DEF s
  <2>8. Piece(pad, t, n)
    BY <2>2, <2>5, <2>6, <2>7 DEF Piece
  <2> QED
    BY <2>5, <2>8 DEF s
<1> DEFINE c == n + (z + 1)
<1>11. Taken(m2, t, c)
  <2> HIDE DEF pad, m2
  <2>1. Taken(AppendData(m1, pad), t, n + Len(pad))
    BY <1>4, <1>7, <1>8, <1>10, AppendTakes
  <2>2. n + Len(pad) = c
    BY <1>10
  <2> QED
    BY <2>1, <2>2, Zenon DEF m2
<1> HIDE DEF m2, pad
<1>12. c \in Nat /\ c + l = Len(t) /\ \A i \in 1 .. l : c + i = n + 1 + z + i
  BY <1>3, <1>4, <1>6, <1>7
<1> HIDE DEF c
<1>13. Piece(bytes, t, c) /\ Len(bytes) = l
  <2>1. \A i \in 1 .. l : bytes[i] = ((8 * n) \div PlaceValue[i - 1]) % 256
    <3> SUFFICES ASSUME NEW i \in 1 .. LengthSize
                 PROVE  LengthBytes(m1)[i] = ((8 * n) \div PlaceValue[i - 1]) % 256
      BY DEF l
    <3> QED
      BY <1>4, <1>9, LengthIsWritten
  <2>2. \A i \in 1 .. l : bytes[i] = t[c + i]
    BY <1>7, <1>12, <2>1
  <2>3. \A i \in 1 .. l : t[c + i] \in Int
    <3> SUFFICES ASSUME NEW i \in 1 .. l PROVE t[c + i] \in Int
      OBVIOUS
    <3>1. c + i \in 1 .. Len(t)
      BY <1>3, <1>12
    <3> QED
      BY <1>7, <3>1, ElementOfSeq
  <2>4. bytes = [i \in 1 .. l |-> bytes[i]]
    BY DEF LengthBytes, l
  <2> HIDE DEF bytes
  <2>5. bytes \in [1 .. l -> Int]
    BY <2>2, <2>3, <2>4
  <2>6. bytes \in Seq(Int) /\ Len(bytes) = l
    BY <1>3, <2>5, FunctionIsSeq
  <2>7. c + Len(bytes) <= Len(t)
    <3>1. Len(t) \in Nat
      BY <1>7
    <3> QED
      BY <1>12, <2>6, <3>1
  <2> QED
    BY <2>2, <2>6, <2>7 DEF Piece
<1>14. Taken(m3, t, Len(t))
  <2> HIDE DEF bytes, m3
  <2>1. Taken(AppendData(m2, bytes), t, c + Len(bytes))
    BY <1>7, <1>11, <1>12, <1>13, AppendTakes
  <2>2. c + Len(bytes) = Len(t)
    BY <1>12, <1>13
  <2> QED
    BY <2>1, <2>2, Zenon DEF m3
<1> HIDE DEF m3, bytes
<1> DEFINE len == Len(t)
<1>15. PICK k, r \in Nat : /\ r < BlockSize /\ len = BlockSize * k + r
                           /\ Held(m3, t, k, r)
  BY <1>14 DEF Taken
<1>16. len \in Nat /\ len % BlockSize = 0
  BY <1>4, <1>5, <1>6, <1>7, <1>3
<1> HIDE DEF len
<1>17. len \div BlockSize = k
  <2>1. BlockSize \in Nat \ {0} /\ len \in Int /\ k \in Int /\ r \in Int /\ 0 <= r /\ r < BlockSize
        /\ len = BlockSize * k + r
    BY <1>3, <1>15, <1>16
  <2> QED
    BY <2>1, DivUnique
<1>18. m3.abcd = MixedBlocks(t, k)
  BY <1>15 DEF Held
<1>19. MixedIn(t) = MixedBlocks(t, k)
  <2>1. MixedIn(t) = MixedBlocks(t, len \div BlockSize)
    BY Zenon DEF MixedIn, MixedBlocks, MixedEntry, len
  <2> QED
    BY <1>17, <2>1
<1> QED
  BY <1>1, <1>18, <1>19 DEF t

---------------------------------------------------------------------------
(* What is called and what it returned. *)

CalledInv ==
  /\ call.helper = "iterations" => call.text \in Counts /\ call.stale \in {Nul, Other, Wild}
  /\ call.helper = "md5" => call.input \in Inputs
  /\ call.helper = "service" => call.username \in Usernames
  /\ call.helper = "verify" => call.received \in Signatures /\ call.computed \in Signatures
  /\ call.helper = "prep" =>
       /\ call.icu \in BOOLEAN /\ call.password \in Passwords
       /\ call.failing \in SUBSET LibraryCalls
  /\ call.helper = "write" => \E m1, m2 \in Messages, d1, d2 \in {0, 1} :
       call.frames = <<[done |-> d1, message |-> m1], [done |-> d2, message |-> m2]>>
  /\ call.helper = "read" => \E m1, m2 \in Messages : call.messages = <<m1, m2>>

ReturnedInv ==
  /\ Returned("iterations") => result = <<IterationCount(call.text, call.stale)>>
  /\ Returned("md5") => result = <<HexMd5(call.input)>>
  /\ Returned("service") =>
       result = <<<<SplitUser(call.username)[1], ServiceName(call.username)>>>>
  /\ Returned("verify") => result = <<Verify(call.received, call.computed)>>
  /\ Returned("prep") => result = <<Prep(call.icu, call.password, call.failing)>>
  /\ Returned("write") => result = <<WritePayload(call.frames)>>
  /\ Returned("read") => result = <<Take(ServerPayload(call.messages), 2)>>

HelpersInv == CalledInv /\ ReturnedInv

(* A helper returns what it makes of its arguments.                          *)
LEMMA HelpersReturn == HelpersSpec => []HelpersInv
<1>1. HelpersInit => HelpersInv
  <2> SUFFICES ASSUME HelpersInit PROVE HelpersInv
    OBVIOUS
  <2>1. ReturnedInv
    BY DEF HelpersInit, ReturnedInv, Returned
  <2>2. ASSUME \E text \in Counts, stale \in {Nul, Other, Wild} :
               call = [helper |-> "iterations", text |-> text, stale |-> stale]
        PROVE  CalledInv
    <3>1. call.helper = "iterations" /\ call.text \in Counts /\ call.stale \in {Nul, Other, Wild}
      BY <2>2
    <3> QED
      BY <3>1 DEF CalledInv
  <2>3. ASSUME \E input \in Inputs : call = [helper |-> "md5", input |-> input]
        PROVE  CalledInv
    <3>1. call.helper = "md5" /\ call.input \in Inputs
      BY <2>3
    <3> QED
      BY <3>1 DEF CalledInv
  <2>4. ASSUME \E name \in Usernames : call = [helper |-> "service", username |-> name]
        PROVE  CalledInv
    <3>1. call.helper = "service" /\ call.username \in Usernames
      BY <2>4
    <3> QED
      BY <3>1 DEF CalledInv
  <2>5. ASSUME \E s1, s2 \in Signatures :
               call = [helper |-> "verify", received |-> s1, computed |-> s2]
        PROVE  CalledInv
    <3>1. call.helper = "verify" /\ call.received \in Signatures /\ call.computed \in Signatures
      BY <2>5
    <3> QED
      BY <3>1 DEF CalledInv
  <2>6. ASSUME \E icu \in BOOLEAN, p \in Passwords, failing \in SUBSET LibraryCalls :
               call = [helper |-> "prep", icu |-> icu, password |-> p, failing |-> failing]
        PROVE  CalledInv
    <3>1. /\ call.helper = "prep" /\ call.icu \in BOOLEAN
          /\ call.password \in Passwords /\ call.failing \in SUBSET LibraryCalls
      BY <2>6
    <3> QED
      BY <3>1 DEF CalledInv
  <2>7. ASSUME \E m1, m2 \in Messages, d1, d2 \in {0, 1} :
               call = [helper |-> "write", frames |-> <<[done |-> d1, message |-> m1],
                                                        [done |-> d2, message |-> m2]>>]
        PROVE  CalledInv
    <3>1. call.helper = "write"
      BY <2>7
    <3>2. \E m1, m2 \in Messages, d1, d2 \in {0, 1} :
            call.frames = <<[done |-> d1, message |-> m1], [done |-> d2, message |-> m2]>>
      BY <2>7
    <3> QED
      BY <3>1, <3>2 DEF CalledInv
  <2>8. ASSUME \E m1, m2 \in Messages : call = [helper |-> "read", messages |-> <<m1, m2>>]
        PROVE  CalledInv
    <3>1. call.helper = "read" /\ (\E m1, m2 \in Messages : call.messages = <<m1, m2>>)
      BY <2>8
    <3> QED
      BY <3>1 DEF CalledInv
  <2>9. CalledInv
    BY <2>2, <2>3, <2>4, <2>5, <2>6, <2>7, <2>8 DEF HelpersInit
  <2> QED
    BY <2>1, <2>9 DEF HelpersInv
<1>2. HelpersInv /\ [HelpersNext]_helperVars => HelpersInv'
  <2> SUFFICES ASSUME HelpersInv, [HelpersNext]_helperVars PROVE HelpersInv'
    OBVIOUS
  <2>1. call' = call
    BY DEF HelpersNext, helperVars, Return, CallIterations, CallMd5, CallService, CallVerify,
           CallPrep, CallWrite, CallRead
  <2>2. CalledInv'
    BY <2>1 DEF HelpersInv, CalledInv
  <2>3. ASSUME UNCHANGED helperVars PROVE ReturnedInv'
    <3>1. call' = call /\ result' = result
      BY <2>3 DEF helperVars
    <3> QED
      BY <3>1, Zenon DEF HelpersInv, ReturnedInv, Returned
  <2>4. ASSUME CallIterations PROVE ReturnedInv'
    <3>1. call.helper = "iterations" /\ result' = <<IterationCount(call.text, call.stale)>>
      BY <2>4 DEF CallIterations, Return
    <3> QED
      BY <2>1, <3>1 DEF ReturnedInv, Returned
  <2>5. ASSUME CallMd5 PROVE ReturnedInv'
    <3>1. call.helper = "md5" /\ result' = <<HexMd5(call.input)>>
      BY <2>5 DEF CallMd5, Return
    <3> QED
      BY <2>1, <3>1 DEF ReturnedInv, Returned
  <2>6. ASSUME CallService PROVE ReturnedInv'
    <3>1. /\ call.helper = "service"
          /\ result' = <<<<SplitUser(call.username)[1], ServiceName(call.username)>>>>
      BY <2>6 DEF CallService, Return
    <3> QED
      BY <2>1, <3>1 DEF ReturnedInv, Returned
  <2>7. ASSUME CallVerify PROVE ReturnedInv'
    <3>1. call.helper = "verify" /\ result' = <<Verify(call.received, call.computed)>>
      BY <2>7 DEF CallVerify, Return
    <3> QED
      BY <2>1, <3>1 DEF ReturnedInv, Returned
  <2>8. ASSUME CallPrep PROVE ReturnedInv'
    <3>1. call.helper = "prep" /\ result' = <<Prep(call.icu, call.password, call.failing)>>
      BY <2>8 DEF CallPrep, Return
    <3> QED
      BY <2>1, <3>1 DEF ReturnedInv, Returned
  <2>9. ASSUME CallWrite PROVE ReturnedInv'
    <3>1. call.helper = "write" /\ result' = <<WritePayload(call.frames)>>
      BY <2>9 DEF CallWrite, Return
    <3> QED
      BY <2>1, <3>1 DEF ReturnedInv, Returned
  <2>10. ASSUME CallRead PROVE ReturnedInv'
    <3>1. call.helper = "read" /\ result' = <<Take(ServerPayload(call.messages), 2)>>
      BY <2>10 DEF CallRead, Return
    <3> QED
      BY <2>1, <3>1 DEF ReturnedInv, Returned
  <2>11. ReturnedInv'
    BY <2>3, <2>4, <2>5, <2>6, <2>7, <2>8, <2>9, <2>10 DEF HelpersNext
  <2> QED
    BY <2>2, <2>11 DEF HelpersInv
<1> QED
  BY <1>1, <1>2, PTL DEF HelpersSpec

(* For texts of any length and every width of an integer: the iteration      *)
(* count is accepted just when the whole text is a number that a long holds  *)
(* and whose int is large enough, and it is that int (bson_ascii_strtoll,    *)
(* _mongoc_scram_step2).  What lies behind an end pointer that was not set   *)
(* makes no count, and ends the process only when no number begins.          *)
THEOREM IterationsAreRead == HelpersSpec => []IterationsAreTheNumber
<1>1. HelpersInv => IterationsAreTheNumber
  <2> SUFFICES ASSUME HelpersInv, Returned("iterations") PROVE IterationsAreTheNumber
    BY DEF IterationsAreTheNumber
  <2> DEFINE text == call.text
             stale == call.stale
             r == IterationCount(text, stale)
             counts(n) == IF n = Refused
                          THEN \A k \in MinIterations .. IntModulus : ~Acceptable(text, k)
                          ELSE Acceptable(text, n)
             unnumbered == \A i \in 1 .. Len(text) : ~BeginsAt(text, i)
  <2>1. text \in Seq(0 .. Nul - 1) /\ stale \in {Nul, Other, Wild}
    BY HelpersAssumption DEF HelpersInv, CalledInv, Returned
  <2>2. result = <<r>>
    BY DEF HelpersInv, ReturnedInv
  <2> HIDE DEF text, stale
  <2>3. (r = Ended /\ unnumbered) \/ counts(r)
    <3>1. CASE stale \in {Nul, Other}
      BY <2>1, <3>1, IterationCountAnswers
    <3>2. CASE stale = Wild
      <4>1. (r = Ended /\ unnumbered) \/ r = IterationCount(text, Nul)
        BY <2>1, <3>2, IterationCountEnds
      <4>2. counts(IterationCount(text, Nul))
        BY <2>1, IterationCountAnswers
      <4> QED
        BY <4>1, <4>2
    <3> QED
      BY <2>1, <3>1, <3>2
  <2>4. Ended # Refused /\ ~Acceptable(text, Ended)
    BY IterationsAssumption DEF Ended, Refused, Acceptable
  <2> HIDE DEF r
  <2>5. result[1] = r
    BY <2>2
  <2>6. /\ r = Ended => unnumbered
        /\ r = Refused => counts(r)
        /\ r \notin {Ended, Refused} => counts(r)
    BY <2>3, <2>4
  <2> QED
    BY <2>5, <2>6, Zenon DEF IterationsAreTheNumber, text
<1> QED
  BY <1>1, HelpersReturn, PTL

(* For blocks and words of any size and messages of any length: what is      *)
(* mixed into the digest are the words of the padded message, each round in  *)
(* its order (bson_md5_process, append, finish); the buffer always holds the *)
(* begun block and the digest the full ones, and the two words count the     *)
(* bits, with the carry between them, so that the padding ends a block.      *)
THEOREM PaddedMessagesAreHashed == HelpersSpec => []HashesPaddedMessage
<1>1. HelpersInv => HashesPaddedMessage
  <2> SUFFICES ASSUME HelpersInv, Returned("md5")
               PROVE  result[1] = MixedIn(PaddedMessage(call.input))
    BY DEF HashesPaddedMessage
  <2>1. call.helper = "md5"
    BY DEF Returned
  <2>2. call.input \in Inputs /\ result = <<HexMd5(call.input)>>
    BY <2>1 DEF HelpersInv, CalledInv, ReturnedInv
  <2> DEFINE x == call.input
  <2>3. x \in Seq(0 .. 255)
    BY <2>2, HelpersAssumption
  <2> HIDE DEF x
  <2>4. x \in Seq(Int)
    <3>1. Len(x) \in Nat /\ x \in [1 .. Len(x) -> 0 .. 255]
      BY <2>3, LenProperties
    <3>2. \A i \in 1 .. Len(x) : x[i] \in 0 .. 255
      BY <3>1
    <3>3. \A i \in 1 .. Len(x) : x[i] \in Int
      <4>1. \A y \in 0 .. 255 : y \in Int
        OBVIOUS
      <4> QED
        BY <3>2, <4>1, Zenon
    <3>4. x = [i \in 1 .. Len(x) |-> x[i]]
      BY <3>1
    <3> DEFINE n == Len(x)
    <3>5. n \in Nat
      BY <3>1
    <3> HIDE DEF n
    <3>6. x \in [1 .. n -> Int]
      BY <3>3, <3>4 DEF n
    <3> QED
      BY <3>5, <3>6, FunctionIsSeq
  <2>5. HexMd5(x) = MixedIn(PaddedMessage(x))
    BY <2>4, HexMd5Is
  <2>6. result[1] = HexMd5(x)
    BY <2>2 DEF x
  <2> QED
    BY <2>5, <2>6 DEF x
<1> QED
  BY <1>1, HelpersReturn, PTL

(* For signatures of any length: the server's is accepted when it is the one *)
(* computed and at no other time (_mongoc_scram_verify_server_signature).    *)
THEOREM SignaturesAreCompared == HelpersSpec => []VerifiesEqualSignatures
<1>1. HelpersInv => VerifiesEqualSignatures
  <2> SUFFICES ASSUME HelpersInv, Returned("verify")
               PROVE  result[1] <=> call.received = call.computed
    BY DEF VerifiesEqualSignatures
  <2> DEFINE s1 == call.received
             s2 == call.computed
  <2>1. s1 \in Seq(SUBSET (0 .. 7)) /\ s2 \in Seq(SUBSET (0 .. 7))
    BY HelpersAssumption DEF HelpersInv, CalledInv, Returned
  <2>2. result = <<Verify(s1, s2)>>
    BY DEF HelpersInv, ReturnedInv
  <2> HIDE DEF s1, s2
  <2>3. Verify(s1, s2) <=> s1 = s2
    BY <2>1, VerifyIsEquality
  <2>4. result[1] = Verify(s1, s2)
    BY <2>2
  <2> QED
    BY <2>3, <2>4, Zenon DEF s1, s2
<1> QED
  BY <1>1, HelpersReturn, PTL

(* Whichever calls of ICU fail: nothing but the prepared password is left    *)
(* allocated, and no password is taken that may not be prepared              *)
(* (_mongoc_sasl_prep_impl).                                                 *)
THEOREM PasswordsArePrepared == HelpersSpec => []PasswordIsPrepared
<1>1. HelpersInv => PasswordIsPrepared
  <2> SUFFICES ASSUME HelpersInv, Returned("prep") PROVE PasswordIsPrepared
    BY DEF PasswordIsPrepared
  <2> DEFINE p == call.password
             icu == call.icu
             failing == call.failing
             r == Prep(icu, p, failing)
  <2>1. icu \in BOOLEAN /\ p \in Passwords /\ failing \in SUBSET LibraryCalls /\ result[1] = r
    BY DEF HelpersInv, CalledInv, ReturnedInv, Returned
  <2> SUFFICES /\ r.held = IF r.refused THEN {} ELSE {"out_utf8"}
               /\ ~r.refused => p.utf8 /\ p.allowed
               /\ failing = {} /\ p.printable => (r.refused <=> icu /\ p.length = 0)
    BY <2>1 DEF PasswordIsPrepared
  <2> HIDE DEF p, icu, failing
  <2>2. CASE icu
    <3> DEFINE i == PrepImpl(p, failing)
    <3>1. r = i
      BY <2>2 DEF Prep
    <3>2. /\ i.held = IF i.refused THEN {} ELSE {"out_utf8"}
          /\ ~i.refused => p.utf8 /\ p.allowed
          /\ failing = {} /\ p.printable => (i.refused <=> p.length = 0)
      BY <2>1, PrepImplResult
    <3> HIDE DEF r, i
    <3> QED
      BY <2>2, <3>1, <3>2
  <2>3. CASE ~icu
    <3>1. CASE PrepRequired(p)
      BY <2>3, <3>1 DEF Prep, PrepRequired
    <3>2. CASE ~PrepRequired(p)
      <4>1. p.utf8 /\ p.allowed
        BY <2>1, <3>2 DEF PrepRequired, Passwords
      <4> QED
        BY <2>3, <3>2, <4>1 DEF Prep
    <3> QED
      BY <3>1, <3>2
  <2> QED
    BY <2>2, <2>3
<1> QED
  BY <1>1, HelpersReturn, PTL

(* For user names of any length: the name and its parameters are split       *)
(* without a loss and what is found among them is the service's name, or     *)
(* what hides it                                                             *)
(* (_mongosql_auth_conversation_init, find_param).                           *)
THEOREM ServiceNamesAreFound == HelpersSpec => []FindsServiceName
<1>1. HelpersInv => FindsServiceName
  <2> SUFFICES ASSUME HelpersInv, Returned("service") PROVE FindsServiceName
    BY DEF FindsServiceName
  <2> DEFINE text == call.username
             user == SplitUser(text)[1]
             name == ServiceName(text)
             list == SubSeq(text, Len(user) + 2, Len(text))
  <2>1. text \in Seq(STRING) /\ result[1][1] = user /\ result[1][2] = name
    BY HelpersAssumption DEF HelpersInv, CalledInv, ReturnedInv, Returned
  <2> SUFFICES /\ text = user \/ text = user \o <<"?">> \o list
               /\ Places(list, "?") = {}
               /\ user = text => Places(user, "?") = {} /\ name = Null
               /\ IsFound(list, name)
    BY <2>1 DEF FindsServiceName
  <2> HIDE DEF text
  <2> QED
    BY <2>1, ServiceNameFound
<1> QED
  BY <1>1, HelpersReturn, PTL

(* Messages of any length, up to what four bytes can count, arrive: in the   *)
(* payloads of the client and, up to the first that is too large for the     *)
(* buffer of a conversation, in those of the server (write_payload,          *)
(* read_payload).                                                            *)
THEOREM MessagesArrive == HelpersSpec => []PayloadsArrive
<1>0. \A m \in Messages : m \in Seq(Octet) /\ InFourBytes(Len(m))
  BY HelpersAssumption DEF Octet, InFourBytes
<1>1. HelpersInv => PayloadsArrive
  <2> SUFFICES ASSUME HelpersInv PROVE PayloadsArrive
    OBVIOUS
  <2>1. ASSUME Returned("write")
        PROVE  /\ Len(result[1].bytes) = result[1].room
               /\ ClientFrames(result[1].bytes, Len(call.frames)) = call.frames
    <3> DEFINE frames == call.frames
    <3>1. PICK m1, m2 \in Messages, d1, d2 \in {0, 1} :
            frames = <<[done |-> d1, message |-> m1], [done |-> d2, message |-> m2]>>
      BY <2>1 DEF HelpersInv, CalledInv, Returned
    <3>2. result[1] = WritePayload(frames)
      BY <2>1 DEF HelpersInv, ReturnedInv
    <3> HIDE DEF frames
    <3>3. /\ frames \in Seq(Frame) /\ Len(frames) = 2
          /\ frames[1].message = m1 /\ frames[2].message = m2
      <4> DEFINE f1 == [done |-> d1, message |-> m1]
                 f2 == [done |-> d2, message |-> m2]
      <4>1. f1 \in Frame /\ f2 \in Frame /\ f1.message = m1 /\ f2.message = m2
        BY <1>0 DEF Frame
      <4> HIDE DEF f1, f2
      <4>2. frames = <<f1, f2>>
        BY <3>1 DEF f1, f2
      <4> QED
        BY <4>1, <4>2
    <3>4. \A n \in 1 .. Len(frames) : InFourBytes(Len(frames[n].message))
      BY <1>0, <3>3
    <3>5. /\ Len(WritePayload(frames).bytes) = WritePayload(frames).room
          /\ ClientFrames(WritePayload(frames).bytes, Len(frames)) = frames
      BY <3>3, <3>4, ClientPayloadIsRead
    <3> QED
      BY <3>2, <3>5 DEF frames
  <2>2. ASSUME Returned("read")
        PROVE  LET large == {c \in DOMAIN call.messages : Len(call.messages[c]) > MaxFrame}
               IN  /\ result[1].error <=> large # {}
                   /\ IsPrefix(result[1].taken, call.messages)
                   /\ large = {} => /\ result[1].taken = call.messages
                                    /\ result[1].place = Len(ServerPayload(call.messages)) + 1
    <3> DEFINE msgs == call.messages
               r == result[1]
    <3>1. PICK m1, m2 \in Messages : msgs = <<m1, m2>>
      BY <2>2 DEF HelpersInv, CalledInv, Returned
    <3>2. r = Take(ServerPayload(msgs), 2)
      BY <2>2 DEF HelpersInv, ReturnedInv
    <3> HIDE DEF msgs, r
    <3>3. msgs \in Seq(Seq(Octet)) /\ Len(msgs) = 2 /\ msgs[1] = m1 /\ msgs[2] = m2
      BY <1>0, <3>1
    <3>4. \A n \in 1 .. Len(msgs) : InFourBytes(Len(msgs[n]))
      BY <1>0, <3>3
    <3>5. r = Take(ServerPayload(msgs), Len(msgs))
      BY <3>2, <3>3
    <3> DEFINE large == {c \in DOMAIN msgs : Len(msgs[c]) > MaxFrame}
    <3>6. /\ r.error <=> large # {}
          /\ IsPrefix(r.taken, msgs)
          /\ large = {} => r.taken = msgs /\ r.place = Len(ServerPayload(msgs)) + 1
      BY <3>3, <3>4, <3>5, ServerPayloadIsRead
    <3> QED
      BY <3>6 DEF msgs, r
  <2> QED
    BY <2>1, <2>2 DEF PayloadsArrive
<1> QED
  BY <1>1, HelpersReturn, PTL
================================================================================
