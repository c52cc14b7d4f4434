------------------------------ MODULE ScramBuffers ------------------------------
(***************************************************************************)
(* The lengths one SCRAM conversation keeps (mongoc-scram.c): what it has  *)
(* written to the output buffer of a step and to auth_message, which       *)
(* collects the transcript of all three steps.  Both hold Max bytes, and   *)
(* every write but the last is checked by _mongoc_scram_buf_write; the     *)
(* last, the base64 of the client proof, may fail without anyone noticing. *)
(***************************************************************************)
EXTENDS Integers

CONSTANTS
  Max,            (* MONGOSQL_SCRAM_MAX_BUF_SIZE *)
  HashSizes,      (* 20 for SHA-1, 32 for SHA-256 *)
  UserLengths,    (* lengths of user names, ',' and '=' counted three times *)
  NonceLengths,   (* lengths of the r value the server sends *)
  OtherLengths    (* bytes of the server's message its three values leave *)

ASSUME BuffersAssumption ==
  /\ Max \in Nat
  /\ HashSizes \subseteq {20, 32}
  /\ UserLengths \subseteq Nat /\ NonceLengths \subseteq Nat /\ OtherLengths \subseteq Nat

VARIABLES
  hash,           (* the hash size of the mechanism *)
  step,
  status,         (* "ok", or "error" once a step has failed *)
  outbuflen,
  auth_messagelen,
  repeated,       (* length of the r value that was repeated to the server *)
  proof           (* length of the encoded client proof, -1 when it did not fit *)

vars == <<hash, step, status, outbuflen, auth_messagelen, repeated, proof>>

(* mongoc_b64_ntop: four characters for three bytes begun, and room for a    *)
(* terminating NUL.                                                          *)
Encoded(n) == 4 * ((n + 2) \div 3)
B64Ntop(n, targsize) == IF Encoded(n) >= targsize THEN -1 ELSE Encoded(n)

(* Mutant: a write is not checked. *)
FitsAlways(len, src_len) == TRUE

(* _mongoc_scram_buf_write succeeds. *)
Fits(len, src_len) == len + src_len < Max

NonceLength == Encoded(24)

(* The least salt of the expected length, in base64, and the four digits of  *)
(* an iteration count that is not refused.                                   *)
SaltLength == Encoded(hash - 4)
LeastServerFirst(r) == (2 + r) + 1 + (2 + SaltLength) + 1 + (2 + 4)

---------------------------------------------------------------------------
Init ==
  /\ hash \in HashSizes
  /\ step = 0 /\ status = "ok"
  /\ outbuflen = 0 /\ auth_messagelen = 0 /\ repeated = 0 /\ proof = 0

Fail ==
  /\ status' = "error"
  /\ UNCHANGED <<outbuflen, auth_messagelen, repeated, proof>>

(* step 1: "n,,n=", the user, ",r=" and the nonce; auth_message takes what   *)
(* follows the first three bytes and a comma.                                *)
Start ==
  /\ step = 0 /\ status = "ok"
  /\ step' = 1
  /\ \E user \in UserLengths :
       LET out == 5 + user + 3 + NonceLength
       IN  IF Fits(0, out) /\ Fits(0, out - 3) /\ Fits(out - 3, 1)
           THEN /\ outbuflen' = out
                /\ auth_messagelen' = out - 3 + 1
                /\ UNCHANGED <<status, repeated, proof>>
           ELSE Fail
  /\ UNCHANGED hash

(* Mutant: the server's message does not become part of the transcript. *)
TranscriptWithoutServer(auth, inbuflen, out) == auth + 1 + out

(* auth_message after step 2: the server's message, a comma and the client's *)
(* message without its proof.                                                *)
Transcript(auth, inbuflen, out) == auth + inbuflen + 1 + out

(* step 2: "c=biws,r=", the r value, ",p=" and the proof, whose encoding is  *)
(* not asked for its result.                                                 *)
Step2 ==
  /\ step = 1 /\ status = "ok"
  /\ step' = 2
  /\ \E r \in NonceLengths, other \in OtherLengths :
       LET out  == 9 + r
           auth == Transcript(auth_messagelen, LeastServerFirst(r) + other, out)
           r64  == B64Ntop(hash, Max - (out + 3))
       IN  IF Fits(0, auth) /\ Fits(out, 3)
           THEN /\ auth_messagelen' = auth
                /\ proof' = r64
                /\ repeated' = r
                /\ outbuflen' = out + 3 + (IF r64 = -1 THEN 0 ELSE r64)
                /\ UNCHANGED status
           ELSE Fail
  /\ UNCHANGED hash

(* step 3: nothing is left to send. *)
Step3 ==
  /\ step = 2 /\ status = "ok"
  /\ step' = 3
  /\ \/ outbuflen' = 0 /\ UNCHANGED <<status, auth_messagelen, repeated, proof>>
     \/ Fail
  /\ UNCHANGED hash

Finished == (step = 3 \/ status = "error") /\ UNCHANGED vars

Next == Start \/ Step2 \/ Step3 \/ Finished

Spec == Init /\ [][Next]_vars

---------------------------------------------------------------------------
(* Type invariant: lengths are natural numbers, a step fails for good. *)
TypeOK ==
  /\ hash \in HashSizes
  /\ step \in 0 .. 3
  /\ status \in {"ok", "error"}
  /\ outbuflen \in Nat /\ auth_messagelen \in Nat /\ repeated \in Nat
  /\ proof \in Nat \cup {-1}

(* A client-final message that is sent carries its proof: although step 2    *)
(* does not look at the result of the encoding, the room it has checked for  *)
(* the transcript leaves enough for the proof in the output buffer.          *)
ProofIsSent ==
  step = 2 /\ status = "ok" => outbuflen = 9 + repeated + 3 + Encoded(hash)

(* No write goes past the end of a buffer, the unchecked one and the NUL it  *)
(* appends included.                                                         *)
WithinBuffers == outbuflen <= Max /\ auth_messagelen <= Max

(* The inductive invariant: after step 1 the transcript holds at least its   *)
(* fixed parts.                                                              *)
BuffersInv ==
  /\ TypeOK /\ ProofIsSent /\ WithinBuffers
  /\ step >= 1 /\ status = "ok" => auth_messagelen >= 5 + 3 + NonceLength - 3 + 1
================================================================================
