--------------------------------- MODULE Texts ---------------------------------
(***************************************************************************)
(* The plugin's own routines on texts: the parameters behind a user name   *)
(* (mongosql-auth-conversation.c) and the comparison of the server's       *)
(* signature (mongoc-memcmp.c, mongoc-scram.c).                            *)
(***************************************************************************)
EXTENDS Integers, Sequences, FiniteSetsExt

CONSTANTS
  Name            (* the name of the parameter, "serviceName" *)

ASSUME TextsAssumption == Name \in Seq(STRING) /\ Name # <<>>

Null == <<"null">>

---------------------------------------------------------------------------
(* _mongosql_auth_conversation_init: the user name ends at its last "?" *)

Places(text, c) == {i \in DOMAIN text : text[i] = c}

(* Mutant: the name ends at the first "?". *)
SplitAtFirst(text) ==
  IF Places(text, "?") = {} THEN <<text, Null>>
  ELSE LET i == Min(Places(text, "?"))
       IN  <<SubSeq(text, 1, i - 1), SubSeq(text, i + 1, Len(text))>>

SplitUser(text) ==
  IF Places(text, "?") = {} THEN <<text, Null>>
  ELSE LET i == Max(Places(text, "?"))
       IN  <<SubSeq(text, 1, i - 1), SubSeq(text, i + 1, Len(text))>>

(* strstr: where the name occurs. *)
Occurrences(text) ==
  {i \in 1 .. Len(text) - Len(Name) + 1 : SubSeq(text, i, i + Len(Name) - 1) = Name}

(* The end of a value: the next "&" or the end of the list. *)
ValueEnd(text, start) ==
  Min({i \in start .. Len(text) : text[i] = "&"} \cup {Len(text) + 1})

(* Mutant: the value goes on to the end of the list. *)
FindToTheEnd(list) ==
  IF Occurrences(list) = {} THEN Null
  ELSE LET idx == Min(Occurrences(list)) + Len(Name)
       IN  IF idx <= Len(list) /\ list[idx] = "="
           THEN SubSeq(list, idx + 1, Len(list)) ELSE Null

(* _mongosql_auth_conversation_find_param: the first occurrence counts. *)
FindParam(list) ==
  IF Occurrences(list) = {} THEN Null
  ELSE LET idx == Min(Occurrences(list)) + Len(Name)
       IN  IF idx <= Len(list) /\ list[idx] = "="
           THEN SubSeq(list, idx + 1, ValueEnd(list, idx + 1) - 1) ELSE Null

(* _mongosql_auth_conversation_init: the user, and the service name it gives. *)
ServiceName(username) ==
  LET list == SplitUser(username)[2] IN IF list = Null THEN Null ELSE FindParam(list)

(* The reference: where a parameter of that name begins, and whether value is *)
(* what lies between its "=" and the next "&" or the end.                     *)
Keys(list) ==
  {i \in Occurrences(list) : /\ i = 1 \/ list[i - 1] = "&"
                             /\ i + Len(Name) \in Places(list, "=")}

IsValueOf(list, key, value) ==
  LET start == key + Len(Name) + 1
      after == start + Len(value)
  IN  /\ after <= Len(list) + 1 /\ value = SubSeq(list, start, after - 1)
      /\ Places(value, "&") = {}
      /\ after = Len(list) + 1 \/ list[after] = "&"

(* What a search for the first occurrence may find: nothing when there is     *)
(* none, the value when it is the name of a parameter, and otherwise, when    *)
(* the name is a part of another name or of a value, nothing or what lies     *)
(* behind it up to the end of that parameter.                                 *)
IsFound(list, value) ==
  IF Occurrences(list) = {} THEN value = Null
  ELSE LET first == Min(Occurrences(list))
       IN  IsValueOf(list, first, value) \/ (first \notin Keys(list) /\ value = Null)

---------------------------------------------------------------------------
(* mongoc_memcmp: bytes are sets of bits, so that exclusive or is the         *)
(* symmetric difference and or the union.                                     *)

ByteValue(bits) ==
  LET bit(k) == IF k \in bits THEN 1 ELSE 0
  IN  128 * bit(7) + 64 * bit(6) + 32 * bit(5) + 16 * bit(4)
        + 8 * bit(3) + 4 * bit(2) + 2 * bit(1) + bit(0)

Differ(b1, b2) == (b1 \ b2) \cup (b2 \ b1)

(* Mutant: only the last bytes count. *)
AssignDifference(d, b1, b2) == Differ(b1, b2)
OrDifference(d, b1, b2) == d \cup Differ(b1, b2)

(* The shift of a negative number rounds down. *)
Memcmp(s1, s2, len) ==
  LET d[i \in 0 .. len] == IF i = 0 THEN {} ELSE OrDifference(d[i - 1], s1[i], s2[i])
  IN  (((ByteValue(d[len]) - 1) \div 256) % 2) - 1

(* _mongoc_scram_verify_server_signature: the end of it. *)
Verify(verification, signature) ==
  Len(verification) = Len(signature) /\ Memcmp(verification, signature, Len(verification)) = 0
===============================================================================
