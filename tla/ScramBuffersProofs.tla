--------------------------- MODULE ScramBuffersProofs ---------------------------
(***************************************************************************)
(* The room for the client proof, for every size of the buffers and every  *)
(* length of the messages.                                                 *)
(***************************************************************************)
EXTENDS ScramBuffers, TLAPS

(* What is known of the lengths that are constants of the mechanism. *)
LEMMA Lengths ==
  ASSUME hash \in {20, 32}
  PROVE  /\ NonceLength = 32
         /\ hash = 20 => Encoded(hash) = 28 /\ SaltLength = 24
         /\ hash = 32 => Encoded(hash) = 44 /\ SaltLength = 40
BY DEF NonceLength, SaltLength, Encoded

(* The lengths stay within the buffers and the proof has its room, whatever  *)
(* the user's name and the server's message are (step2).                     *)
THEOREM BuffersInvariance == Spec => []BuffersInv
<1>1. Init => BuffersInv
  BY BuffersAssumption DEF Init, BuffersInv, TypeOK, ProofIsSent, WithinBuffers
<1>2. BuffersInv /\ [Next]_vars => BuffersInv'
  <2> SUFFICES ASSUME BuffersInv, [Next]_vars PROVE BuffersInv'
    OBVIOUS
  <2> USE BuffersAssumption
  <2>0. hash \in {20, 32}
    BY DEF BuffersInv, TypeOK
  <2>1. CASE Start
    <3>1. PICK user \in UserLengths :
            LET out == 5 + user + 3 + NonceLength
            IN  IF Fits(0, out) /\ Fits(0, out - 3) /\ Fits(out - 3, 1)
                THEN /\ outbuflen' = out
                     /\ auth_messagelen' = out - 3 + 1
                     /\ UNCHANGED <<status, repeated, proof>>
                ELSE Fail
      BY <2>1 DEF Start
    <3>2. hash' = hash /\ step' = 1
      BY <2>1 DEF Start
    <3>3. user \in Nat
      OBVIOUS
    <3> QED
      BY <3>1, <3>2, <3>3, <2>0, Lengths
      DEF BuffersInv, TypeOK, ProofIsSent, WithinBuffers, Fits, Fail, NonceLength, Encoded
  <2>2. CASE Step2
    <3>1. PICK r \in NonceLengths, other \in OtherLengths :
            IF /\ Fits(0, Transcript(auth_messagelen, LeastServerFirst(r) + other, 9 + r))
               /\ Fits(9 + r, 3)
            THEN /\ auth_messagelen' =
                      Transcript(auth_messagelen, LeastServerFirst(r) + other, 9 + r)
                 /\ proof' = B64Ntop(hash, Max - (9 + r + 3))
                 /\ repeated' = r
                 /\ outbuflen' = 9 + r + 3 + (IF B64Ntop(hash, Max - (9 + r + 3)) = -1 THEN 0
                                              ELSE B64Ntop(hash, Max - (9 + r + 3)))
                 /\ UNCHANGED status
            ELSE Fail
      BY <2>2 DEF Step2
    <3>2. /\ hash' = hash /\ step = 1 /\ step' = 2 /\ status = "ok"
          /\ r \in Nat /\ other \in Nat
      BY <2>2 DEF Step2
    <3>3. CASE Fail
      BY <3>2, <3>3 DEF BuffersInv, TypeOK, ProofIsSent, WithinBuffers, Fail
    <3>4. CASE ~Fail
      <4>1. auth_messagelen >= 38 /\ auth_messagelen \in Nat
        BY <3>2, <2>0, Lengths DEF BuffersInv, TypeOK
      <4>2. LeastServerFirst(r) = r + SaltLength + 12
        BY <3>2, <2>0, Lengths DEF LeastServerFirst
      (* The transcript is longer than what the output needs.                *)
      <4>3. 9 + r + 3 + Encoded(hash) < Max
        BY <3>1, <3>2, <3>4, <4>1, <4>2, <2>0, Lengths DEF Fits, Transcript
      <4>4. B64Ntop(hash, Max - (9 + r + 3)) = Encoded(hash)
        BY <4>3, <3>2, <2>0, Lengths DEF B64Ntop
      <4>5. outbuflen' = 9 + r + 3 + Encoded(hash)
        BY <3>1, <3>2, <3>4, <4>4, <2>0, Lengths
      <4>6. auth_messagelen' \in Nat /\ auth_messagelen' < Max
        BY <3>1, <3>2, <3>4, <4>1, <4>2, <2>0, Lengths DEF Fits, Transcript
      <4>7. /\ status' = "ok" /\ repeated' = r /\ proof' = Encoded(hash)
        BY <3>1, <3>2, <3>4, <4>4
      <4>8. Encoded(hash) \in Nat /\ Encoded(hash') = Encoded(hash) /\ NonceLength = 32
        BY <3>2, <2>0, Lengths
      <4>9. TypeOK'
        BY <3>2, <4>5, <4>6, <4>7, <4>8 DEF BuffersInv, TypeOK
      <4>10. auth_messagelen' >= 38
        BY <3>1, <3>2, <3>4, <4>1, <4>2, <2>0, Lengths DEF Transcript
      <4> HIDE DEF Encoded
      <4> QED
        BY <3>2, <4>3, <4>5, <4>6, <4>7, <4>8, <4>9, <4>10
        DEF BuffersInv, ProofIsSent, WithinBuffers
    <3> QED
      BY <3>3, <3>4
  <2>3. CASE Step3
    BY <2>3 DEF Step3, Fail, BuffersInv, TypeOK, ProofIsSent, WithinBuffers, NonceLength, Encoded
  <2>4. CASE Finished \/ UNCHANGED vars
    BY <2>4 DEF Finished, vars, BuffersInv, TypeOK, ProofIsSent, WithinBuffers,
                NonceLength, Encoded
  <2> QED
    BY <2>1, <2>2, <2>3, <2>4 DEF Next
<1> QED
  BY <1>1, <1>2, PTL DEF Spec

(* The client's last message always carries its proof: the encoding whose    *)
(* result step 2 ignores cannot fail.                                        *)
THEOREM ProofAlwaysSent == Spec => []ProofIsSent
<1>1. BuffersInv => ProofIsSent
  BY DEF BuffersInv
<1> QED
  BY <1>1, BuffersInvariance, PTL

(* No write passes the end of a buffer. *)
THEOREM NoOverflow == Spec => []WithinBuffers
<1>1. BuffersInv => WithinBuffers
  BY DEF BuffersInv
<1> QED
  BY <1>1, BuffersInvariance, PTL
================================================================================
