--------------------------- MODULE Base64TableProofs ---------------------------
(***************************************************************************)
(* The reverse map for any number of threads and all 64 digits.            *)
(***************************************************************************)
EXTENDS Base64Table, TLAPS

(* What the filling threads leave each other: the invariant of the map and   *)
(* of those who read it.                                                     *)
THEOREM TableInvariance == Spec => []TableInv
<1> USE TableAssumption
<1>1. Init => TableInv
  <2> SUFFICES ASSUME Init PROVE TableInv
    OBVIOUS
  <2>1. /\ \A s \in {<<>>} : s \in Seq(Digits) /\ s \in Seq(0 .. 63)
        /\ text = [t \in Threads |-> <<>>] /\ decoded = [t \in Threads |-> <<>>]
    BY DEF Init
  <2>3. text \in [Threads -> Seq(Digits)] /\ decoded \in [Threads -> Seq(0 .. 63)]
    BY <2>1
  <2>4. decodings \in [Threads -> 0 .. Restarts + 1]
    BY DEF Init
  <2>6. rmap \in [Digits -> 0 .. 63 \cup {Invalid}]
    BY DEF Init
  <2>7. /\ initialized \in BOOLEAN
        /\ pc \in [Threads -> {"idle", "clear", "fill", "decode", "refused"}]
        /\ todo \in [Threads -> SUBSET Digits]
    BY DEF Init
  <2>5. TypeOK
    BY <2>3, <2>4, <2>6, <2>7 DEF TypeOK
  <2>2. NeverWrong /\ Filling /\ Ready /\ Mending
    BY DEF Init, NeverWrong, Filling, Ready, Mending, Invalid
  <2> QED
    BY <2>5, <2>2 DEF TableInv
<1>2. TableInv /\ [Next]_vars => TableInv'
  <2> SUFFICES ASSUME TableInv, [Next]_vars PROVE TableInv'
    OBVIOUS
  <2>t. TypeOK /\ NeverWrong /\ Filling /\ Ready /\ Mending
    BY DEF TableInv
  <2>1. ASSUME NEW t \in Threads, Pton(t) PROVE TableInv'
    <3>1. PICK s \in Texts : text' = [text EXCEPT ![t] = s]
      BY <2>1 DEF Pton
    <3>a. s \in Seq(Digits) /\ <<>> \in Seq(0 .. 63)
      OBVIOUS
    <3>b. text' \in [Threads -> Seq(Digits)] /\ decoded' \in [Threads -> Seq(0 .. 63)]
      BY <2>1, <2>t, <3>1, <3>a DEF Pton, TypeOK
    <3>c. decodings' \in [Threads -> 0 .. Restarts + 1]
      <4>1. decodings[t] - 1 \in 0 .. Restarts + 1
        BY <2>1, <2>t DEF Pton, TypeOK
      <4> QED
        BY <2>1, <2>t, <4>1 DEF Pton, TypeOK
    <3>2. TypeOK'
      BY <2>1, <2>t, <3>b, <3>c DEF Pton, TypeOK
    <3>3. NeverWrong'
      BY <2>1, <2>t, <3>1 DEF Pton, TypeOK, NeverWrong
    <3>4. \A u \in Threads : Len(decoded'[u]) <= Len(text'[u])
      BY <2>1, <2>t, <3>1 DEF Pton, TypeOK, Filling
    <3>5. Filling'
      BY <2>1, <2>t, <3>4 DEF Pton, TypeOK, Filling
    <3>6. Mending'
      <4>1. \A u \in Threads : pc[u] \in {"clear", "fill"} =>
              pc'[u] = pc[u] /\ todo'[u] = todo[u]
        BY <2>1, <2>t DEF Pton, TypeOK
      <4>2. UNCHANGED rmap
        BY <2>1 DEF Pton
      <4> QED
        BY <2>t, <4>1, <4>2 DEF Mending
    <3>7. Ready'
      BY <2>1, <2>t DEF Pton, Ready
    <3> QED
      BY <3>2, <3>3, <3>5, <3>6, <3>7 DEF TableInv
  <2>2. ASSUME NEW t \in Threads, Clear(t) PROVE TableInv'
    <3>1. PICK d \in todo[t] :
            /\ rmap' = [rmap EXCEPT ![d] = Invalid]
            /\ \/ /\ pc' = [pc EXCEPT ![t] = "fill"]
                  /\ todo' = [todo EXCEPT ![t] = Digits]
               \/ /\ pc' = pc
                  /\ todo' = [todo EXCEPT ![t] = @ \ {d}]
      BY <2>2 DEF Clear
    <3>2. /\ d \in Digits /\ pc[t] = "clear"
          /\ UNCHANGED <<initialized, text, decoded, decodings>>
      BY <2>2, <2>t DEF Clear, TypeOK, local
    <3>a. rmap' \in [Digits -> 0 .. 63 \cup {Invalid}]
      BY <2>t, <3>1, <3>2 DEF TypeOK
    <3>b. pc' \in [Threads -> {"idle", "clear", "fill", "decode", "refused"}]
          /\ todo' \in [Threads -> SUBSET Digits]
      BY <2>t, <3>1, <3>2 DEF TypeOK
    <3>3. TypeOK'
      BY <2>t, <3>2, <3>a, <3>b DEF TypeOK
    <3>4. NeverWrong'
      BY <2>t, <3>2 DEF NeverWrong
    <3>5. Filling'
      BY <2>t, <3>1, <3>2 DEF Filling, TypeOK
    <3>6. Ready'
      BY <2>t, <3>1, <3>2 DEF Ready, TypeOK
    <3>7. Mending'
      <4>1. \A u \in Threads \ {t} : pc'[u] = pc[u] /\ todo'[u] = todo[u]
        BY <2>t, <3>1 DEF TypeOK
      <4>2. \A e \in Digits : pc'[t] = "clear" \/ (pc'[t] = "fill" /\ e \in todo'[t])
        BY <2>t, <3>1, <3>2 DEF TypeOK
      <4> QED
        BY <4>2 DEF Mending
    <3> QED
      BY <3>3, <3>4, <3>5, <3>6, <3>7 DEF TableInv
  <2>3. ASSUME NEW t \in Threads, Fill(t) PROVE TableInv'
    <3>1. pc[t] = "fill" /\ UNCHANGED <<text, decoded, decodings>>
      BY <2>3 DEF Fill, local
    <3>2. NeverWrong'
      BY <2>t, <3>1 DEF NeverWrong
    <3>3. CASE /\ todo[t] = {} /\ initialized' = TRUE
               /\ pc' = [pc EXCEPT ![t] = "decode"] /\ UNCHANGED <<rmap, todo>>
      <4>1. TypeOK'
        BY <2>t, <3>1, <3>3 DEF TypeOK
      <4>2. Ready'
        BY <2>t, <3>1, <3>3 DEF Ready, Filling
      <4>3. Filling'
        BY <2>t, <3>1, <3>3 DEF Filling, TypeOK
      <4>4. Mending'
        <5>1. \A u \in Threads, d \in Digits :
                pc[u] = "clear" \/ (pc[u] = "fill" /\ d \in todo[u]) =>
                  u # t /\ pc'[u] = pc[u] /\ todo'[u] = todo[u]
          BY <2>t, <3>1, <3>3 DEF TypeOK
        <5> QED
          BY <2>t, <3>3, <5>1 DEF Mending
      <4> QED
        BY <3>2, <4>1, <4>2, <4>3, <4>4 DEF TableInv
    <3>4. CASE \E d \in todo[t] :
                 /\ rmap' = [rmap EXCEPT ![d] = d]
                 /\ todo' = [todo EXCEPT ![t] = @ \ {d}]
                 /\ UNCHANGED <<initialized, pc>>
      <4>1. PICK d \in todo[t] :
                 /\ rmap' = [rmap EXCEPT ![d] = d]
                 /\ todo' = [todo EXCEPT ![t] = @ \ {d}]
                 /\ UNCHANGED <<initialized, pc>>
        BY <3>4
      <4>2. d \in Digits /\ d \in 0 .. 63
        BY <2>t DEF TypeOK
      <4>3. TypeOK'
        BY <2>t, <3>1, <4>1, <4>2 DEF TypeOK
      <4>4. Ready'
        BY <2>t, <4>1, <4>2 DEF Ready, TypeOK
      <4>5. Filling'
        BY <2>t, <3>1, <4>1, <4>2 DEF Filling, TypeOK
      <4>6. Mending'
        <5>1. rmap'[d] # Invalid /\ \A e \in Digits \ {d} : rmap'[e] = rmap[e]
          BY <2>t, <4>1, <4>2 DEF TypeOK, Invalid
        <5>2. \A u \in Threads, e \in Digits \ {d} : e \in todo[u] => e \in todo'[u]
          BY <2>t, <4>1 DEF TypeOK
        <5> QED
          BY <2>t, <4>1, <5>1, <5>2 DEF Mending
      <4> QED
        BY <3>2, <4>3, <4>4, <4>5, <4>6 DEF TableInv
    <3> QED
      BY <2>3, <3>3, <3>4 DEF Fill
  <2>4. ASSUME NEW t \in Threads, Decode(t) PROVE TableInv'
    <3> DEFINE next == Len(decoded[t]) + 1
    <3>0. /\ decoded[t] \in Seq(0 .. 63) /\ text[t] \in Seq(Digits) /\ pc[t] = "decode"
          /\ UNCHANGED <<rmap, initialized, todo, text, decodings>>
      BY <2>4, <2>t DEF Decode, TypeOK
    <3>1. CASE UNCHANGED decoded
      <4>1. /\ pc' \in [Threads -> {"idle", "clear", "fill", "decode", "refused"}]
            /\ \A u \in Threads : pc'[u] = pc[u] \/ pc'[u] \in {"idle", "refused"}
        BY <2>4, <2>t, <3>1 DEF Decode, TypeOK
      <4>2. TypeOK'
        BY <3>0, <3>1, <2>t, <4>1 DEF TypeOK
      <4>3. NeverWrong' /\ Ready'
        BY <3>0, <3>1, <2>t DEF NeverWrong, Ready
      <4>4. Filling'
        BY <3>0, <3>1, <2>t, <4>1 DEF Filling
      <4>5. Mending'
        <5>1. \A u \in Threads : pc[u] \in {"clear", "fill"} => pc'[u] = pc[u]
          BY <2>4, <2>t, <3>0, <3>1 DEF Decode, TypeOK
        <5> QED
          BY <2>t, <3>0, <5>1 DEF Mending
      <4> QED
        BY <4>2, <4>3, <4>4, <4>5 DEF TableInv
    <3>2. CASE /\ ~(next > Len(text[t])) /\ rmap[text[t][next]] # Invalid
               /\ decoded' = [decoded EXCEPT ![t] = Append(@, rmap[text[t][next]])]
               /\ UNCHANGED pc
      <4>1. next \in 1 .. Len(text[t])
        BY <3>0, <3>2
      <4>2. text[t][next] \in Digits /\ text[t][next] \in 0 .. 63
        <5>1. \A s \in Seq(Digits) : \A i \in 1 .. Len(s) : s[i] \in Digits
          OBVIOUS
        <5> QED
          BY <3>0, <4>1, <5>1
      <4>3. rmap[text[t][next]] = text[t][next]
        BY <3>0, <4>2, <3>2, <2>t DEF Filling, Ready
      <4>4. /\ decoded' = [decoded EXCEPT ![t] = Append(decoded[t], text[t][next])]
            /\ Append(decoded[t], text[t][next]) \in Seq(0 .. 63)
        BY <3>0, <3>2, <4>2, <4>3, <2>t
      <4>5. TypeOK'
        <5>1. decoded' \in [Threads -> Seq(0 .. 63)]
          BY <4>4, <2>t DEF TypeOK
        <5> QED
          BY <3>0, <3>2, <5>1, <2>t DEF TypeOK
      <4>6. NeverWrong'
        BY <3>0, <4>2, <4>4, <2>t DEF TypeOK, NeverWrong
      <4>7. \A u \in Threads : Len(decoded'[u]) <= Len(text[u])
        BY <3>0, <3>2, <4>2, <4>4, <2>t DEF TypeOK, Filling
      <4>8. Filling' /\ Ready'
        BY <3>0, <3>2, <4>7, <2>t DEF Filling, Ready
      <4>9. Mending'
        BY <2>t, <3>0, <3>2 DEF Mending
      <4> QED
        BY <4>5, <4>6, <4>8, <4>9 DEF TableInv
    <3> QED
      BY <2>4, <3>1, <3>2 DEF Decode
  <2>5. ASSUME NEW t \in Threads, Refused(t) PROVE TableInv'
    <3>1. TypeOK'
      BY <2>5, <2>t DEF Refused, TypeOK
    <3>2. NeverWrong' /\ Ready'
      BY <2>5, <2>t DEF Refused, TypeOK, NeverWrong, Ready
    <3>3. \A u \in Threads : Len(decoded'[u]) <= Len(text'[u])
      BY <2>5, <2>t DEF Refused, TypeOK, Filling
    <3>4. Filling'
      BY <2>5, <2>t, <3>3 DEF Refused, TypeOK, Filling
    <3>5. Mending'
      <4>1. \A u \in Threads : pc[u] \in {"clear", "fill"} => pc'[u] = pc[u]
        BY <2>5, <2>t DEF Refused, TypeOK
      <4> QED
        BY <2>5, <2>t, <4>1 DEF Refused, Mending
    <3> QED
      BY <3>1, <3>2, <3>4, <3>5 DEF TableInv
  <2>6. CASE UNCHANGED vars
    <3>1. TypeOK'
      BY <2>6, <2>t DEF vars, TypeOK
    <3> QED
      BY <2>6, <2>t, <3>1 DEF vars, TableInv, NeverWrong, Filling, Ready, Mending
  <2> QED
    BY <2>1, <2>2, <2>3, <2>4, <2>5, <2>6 DEF Next
<1> QED
  BY <1>1, <1>2, PTL DEF Spec

(* A decoding that is not refused is right, however many connections fill    *)
(* the map at the same time.                                                 *)
THEOREM NobodyReadsZeros == Spec => []NeverWrong
<1>1. TableInv => NeverWrong
  BY DEF TableInv
<1> QED
  BY <1>1, TableInvariance, PTL

(* The map does not stay broken: a thread that has filled it or found it      *)
(* ready is refused only while another one is still in its loops.             *)
THEOREM MapIsRepaired == Spec => Repaired
<1>1. TableInv /\ [Next]_vars =>
        [\A t \in Threads : pc[t] = "decode" /\ pc'[t] = "refused" =>
           \E u \in Threads : pc[u] \in {"clear", "fill"}]_vars
  <2> SUFFICES ASSUME TableInv, Next, NEW t \in Threads,
                      pc[t] = "decode", pc'[t] = "refused"
               PROVE  \E u \in Threads : pc[u] \in {"clear", "fill"}
    OBVIOUS
  <2>t. TypeOK /\ Mending
    BY DEF TableInv
  <2>1. PICK u \in Threads : Pton(u) \/ Clear(u) \/ Fill(u) \/ Decode(u) \/ Refused(u)
    BY DEF Next
  <2>2. Decode(u) /\ u = t
    BY <2>t, <2>1 DEF TypeOK, Pton, Clear, Fill, Decode, Refused
  <2> DEFINE next == Len(decoded[t]) + 1
  <2>3. /\ next \in 1 .. Len(text[t]) /\ rmap[text[t][next]] = Invalid
        /\ text[t] \in Seq(Digits)
    <3>1. decoded[t] \in Seq(0 .. 63) /\ text[t] \in Seq(Digits)
      BY <2>t DEF TypeOK
    <3>2. ~(next > Len(text[t])) /\ rmap[text[t][next]] = Invalid
      BY <2>t, <2>2 DEF Decode, TypeOK
    <3> QED
      BY <3>1, <3>2
  <2>4. text[t][next] \in Digits
    <3>1. \A s \in Seq(Digits) : \A i \in 1 .. Len(s) : s[i] \in Digits
      OBVIOUS
    <3> QED
      BY <2>3, <3>1
  <2> QED
    BY <2>t, <2>3, <2>4 DEF Mending
<1> QED
  BY <1>1, TableInvariance, PTL DEF Spec, Repaired
================================================================================
