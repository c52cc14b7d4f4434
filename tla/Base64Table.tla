------------------------------ MODULE Base64Table ------------------------------
(***************************************************************************)
(* The reverse map of mongoc-b64.c, shared by all threads of the client    *)
(* program: mongosql_auth runs in the thread that opens a connection, and  *)
(* the first decodings of several connections may fill the map at once.    *)
(* "Initializing the reverse map is not thread safe."                      *)
(*                                                                         *)
(* The map is not atomic and not locked; each store and each load is a     *)
(* step, and a thread's stores take effect in program order.               *)
(***************************************************************************)
EXTENDS Integers, Sequences

CONSTANTS
  Threads,
  Digits,       (* some base64 digits, by their values *)
  Texts,        (* strings the threads decode, sequences of digits *)
  Restarts      (* decodings of a thread after its first *)

ASSUME TableAssumption ==
  /\ Digits \subseteq 0 .. 63 /\ Digits # {}
  /\ Texts \subseteq Seq(Digits)
  /\ Restarts \in Nat

Invalid == 255   (* mongoc_b64rmap_invalid *)

VARIABLES
  rmap,           (* the digits' entries of the reverse map, zero at first *)
  initialized,    (* mongoc_b64rmap_initialized *)
  pc,
  todo,           (* the entries a thread has yet to store in its loop *)
  text,           (* the string a thread decodes *)
  decoded,        (* the values it has got for the digits it has read *)
  decodings       (* how many more a thread makes *)

vars == <<rmap, initialized, pc, todo, text, decoded, decodings>>
local == <<text, decoded, decodings>>

---------------------------------------------------------------------------
Init ==
  /\ rmap = [d \in Digits |-> 0]
  /\ initialized = FALSE
  /\ pc = [t \in Threads |-> "idle"]
  /\ todo = [t \in Threads |-> {}]
  /\ text = [t \in Threads |-> <<>>]
  /\ decoded = [t \in Threads |-> <<>>]
  /\ decodings = [t \in Threads |-> Restarts + 1]

(* Mutant: the map is declared ready before it is filled. *)
DeclareThenFill(t) ==
  /\ pc[t] = "idle" /\ decodings[t] > 0
  /\ decodings' = [decodings EXCEPT ![t] = @ - 1]
  /\ \E s \in Texts : text' = [text EXCEPT ![t] = s]
  /\ decoded' = [decoded EXCEPT ![t] = <<>>]
  /\ pc' = [pc EXCEPT ![t] = IF initialized THEN "decode" ELSE "clear"]
  /\ todo' = [todo EXCEPT ![t] = Digits]
  /\ initialized' = TRUE
  /\ UNCHANGED rmap

(* mongoc_b64_pton: fill the map unless somebody has. *)
Pton(t) ==
  /\ pc[t] = "idle" /\ decodings[t] > 0
  /\ decodings' = [decodings EXCEPT ![t] = @ - 1]
  /\ \E s \in Texts : text' = [text EXCEPT ![t] = s]
  /\ decoded' = [decoded EXCEPT ![t] = <<>>]
  /\ pc' = [pc EXCEPT ![t] = IF initialized THEN "decode" ELSE "clear"]
  /\ todo' = [todo EXCEPT ![t] = Digits]
  /\ UNCHANGED <<rmap, initialized>>

(* The first loop, its order left open: all entries become invalid but       *)
(* those of spaces and pads.                                                 *)
Clear(t) ==
  /\ pc[t] = "clear"
  /\ \E d \in todo[t] :
       /\ rmap' = [rmap EXCEPT ![d] = Invalid]
       /\ IF todo[t] = {d}
          THEN pc' = [pc EXCEPT ![t] = "fill"] /\ todo' = [todo EXCEPT ![t] = Digits]
          ELSE pc' = pc /\ todo' = [todo EXCEPT ![t] = @ \ {d}]
  /\ UNCHANGED <<initialized, local>>

(* Mutant: the second loop leaves the last digit out. *)
FillAllButLast(t) ==
  /\ pc[t] = "fill"
  /\ \E d \in todo[t] :
       /\ \A e \in todo[t] : d <= e
       /\ IF todo[t] = {d}
          THEN /\ initialized' = TRUE
               /\ pc' = [pc EXCEPT ![t] = "decode"]
               /\ UNCHANGED <<rmap, todo>>
          ELSE /\ rmap' = [rmap EXCEPT ![d] = d]
               /\ todo' = [todo EXCEPT ![t] = @ \ {d}]
               /\ UNCHANGED <<initialized, pc>>
  /\ UNCHANGED local

(* The second loop gives the digits their values, then the map is ready. *)
Fill(t) ==
  /\ pc[t] = "fill"
  /\ IF todo[t] = {}
     THEN /\ initialized' = TRUE
          /\ pc' = [pc EXCEPT ![t] = "decode"]
          /\ UNCHANGED <<rmap, todo>>
     ELSE \E d \in todo[t] :
            /\ \A e \in todo[t] : d <= e
            /\ rmap' = [rmap EXCEPT ![d] = d]
            /\ todo' = [todo EXCEPT ![t] = @ \ {d}]
            /\ UNCHANGED <<initialized, pc>>
  /\ UNCHANGED local

(* pton_do: a digit whose entry is invalid ends the decoding with -1. *)
Decode(t) ==
  /\ pc[t] = "decode"
  /\ LET next == Len(decoded[t]) + 1
     IN  IF next > Len(text[t])
         THEN pc' = [pc EXCEPT ![t] = "idle"] /\ UNCHANGED decoded
         ELSE IF rmap[text[t][next]] = Invalid
              THEN pc' = [pc EXCEPT ![t] = "refused"] /\ UNCHANGED decoded
              ELSE /\ decoded' = [decoded EXCEPT ![t] = Append(@, rmap[text[t][next]])]
                   /\ UNCHANGED pc
  /\ UNCHANGED <<rmap, initialized, todo, text, decodings>>

(* The login fails; the program may open another connection. *)
Refused(t) ==
  /\ pc[t] = "refused"
  /\ pc' = [pc EXCEPT ![t] = "idle"]
  /\ decoded' = [decoded EXCEPT ![t] = <<>>]
  /\ UNCHANGED <<rmap, initialized, todo, text, decodings>>

Next == \E t \in Threads : Pton(t) \/ Clear(t) \/ Fill(t) \/ Decode(t) \/ Refused(t)

Spec == Init /\ [][Next]_vars

---------------------------------------------------------------------------
(* Type invariant: an entry is zero, invalid or the digit's own value.       *)
TypeOK ==
  /\ rmap \in [Digits -> 0 .. 63 \cup {Invalid}]
  /\ initialized \in BOOLEAN
  /\ pc \in [Threads -> {"idle", "clear", "fill", "decode", "refused"}]
  /\ todo \in [Threads -> SUBSET Digits]
  /\ text \in [Threads -> Seq(Digits)]
  /\ decoded \in [Threads -> Seq(0 .. 63)]
  /\ decodings \in [Threads -> 0 .. Restarts + 1]

(* However the threads interleave, a decoding that is not refused yields the *)
(* right values: the zeros the map starts with are read by nobody.           *)
NeverWrong ==
  \A t \in Threads : \A i \in DOMAIN decoded[t] : decoded[t][i] = text[t][i]

(* Once every thread that found the map empty has filled it, no decoding is  *)
(* refused any more: the map does not stay broken.                           *)
Repaired ==
  [][\A t \in Threads : pc[t] = "decode" /\ pc'[t] = "refused" =>
       \E u \in Threads : pc[u] \in {"clear", "fill"}]_vars

(* A thread in its loops leaves its own mark on every entry it has passed.   *)
Filling ==
  \A t \in Threads :
    /\ Len(decoded[t]) <= Len(text[t])
    /\ pc[t] = "decode" => initialized
    /\ pc[t] = "fill" => \A d \in Digits : d \in todo[t] \/ rmap[d] \in {d, Invalid}

(* A map that is ready holds right values, or invalid ones that a thread     *)
(* which is still filling it is about to replace.                            *)
Ready == initialized => \A d \in Digits : rmap[d] \in {d, Invalid}

(* An entry that is invalid is about to be replaced: a thread that is still   *)
(* clearing will fill it, or one that is filling has not come to it yet.      *)
Mending ==
  \A d \in Digits : rmap[d] = Invalid =>
    \E u \in Threads : pc[u] = "clear" \/ (pc[u] = "fill" /\ d \in todo[u])

(* The inductive invariant. *)
TableInv == TypeOK /\ NeverWrong /\ Filling /\ Ready /\ Mending
================================================================================
