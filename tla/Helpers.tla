-------------------------------- MODULE Helpers --------------------------------
(***************************************************************************)
(* One call of a helper of the plugin, for every input of a small set:     *)
(* its result is compared with what the helper is for.                     *)
(***************************************************************************)
EXTENDS Iterations, Md5, Texts, Packets, SaslPrep

CONSTANTS
  Counts,         (* texts of iteration counts *)
  Inputs,         (* messages to be hashed *)
  Usernames,      (* user names with their parameters *)
  Signatures,     (* signatures, computed and received *)
  Messages        (* messages of a conversation, ours or the server's *)

(* Texts have no Nul inside, the length of a message fits its four bytes. *)
ASSUME HelpersAssumption ==
  /\ Counts \subseteq Seq(0 .. Nul - 1)
  /\ Inputs \subseteq Seq(0 .. 255)
  /\ Usernames \subseteq Seq(STRING)
  /\ Signatures \subseteq Seq(SUBSET (0 .. 7))
  /\ \A m \in Messages : m \in Seq(0 .. 255) /\ Len(m) \div 16777216 < 256

VARIABLES call, result

helperVars == <<call, result>>

Pending == <<>>

HelpersInit ==
  /\ result = Pending
  /\ \/ \E text \in Counts, stale \in {Nul, Other, Wild} :
          call = [helper |-> "iterations", text |-> text, stale |-> stale]
     \/ \E input \in Inputs : call = [helper |-> "md5", input |-> input]
     \/ \E name \in Usernames : call = [helper |-> "service", username |-> name]
     \/ \E s1, s2 \in Signatures : call = [helper |-> "verify", received |-> s1, computed |-> s2]
     \/ \E icu \in BOOLEAN, p \in Passwords, failing \in SUBSET LibraryCalls :
          call = [helper |-> "prep", icu |-> icu, password |-> p, failing |-> failing]
     \/ \E m1, m2 \in Messages, d1, d2 \in {0, 1} :
          call = [helper |-> "write", frames |-> <<[done |-> d1, message |-> m1],
                                                   [done |-> d2, message |-> m2]>>]
     \/ \E m1, m2 \in Messages : call = [helper |-> "read", messages |-> <<m1, m2>>]

Return(value) == result = Pending /\ result' = <<value>> /\ UNCHANGED call

CallIterations == call.helper = "iterations" /\ Return(IterationCount(call.text, call.stale))
CallMd5        == call.helper = "md5" /\ Return(HexMd5(call.input))
CallService    ==
  call.helper = "service" /\ Return(<<SplitUser(call.username)[1], ServiceName(call.username)>>)
CallVerify     == call.helper = "verify" /\ Return(Verify(call.received, call.computed))
CallPrep       ==
  call.helper = "prep" /\ Return(Prep(call.icu, call.password, call.failing))
CallWrite      == call.helper = "write" /\ Return(WritePayload(call.frames))
CallRead       == call.helper = "read" /\ Return(Take(ServerPayload(call.messages), 2))

HelpersNext ==
  \/ CallIterations \/ CallMd5 \/ CallService \/ CallVerify
  \/ CallPrep \/ CallWrite \/ CallRead

HelpersSpec == HelpersInit /\ [][HelpersNext]_helperVars

Returned(helper) == result # Pending /\ call.helper = helper

---------------------------------------------------------------------------
(* An iteration count is accepted just when the whole text is a number, with  *)
(* spaces and a sign before it, that a long can hold and that is large enough *)
(* as an int; the salted password is computed with that int, and a number cut *)
(* at the overflow is refused.  Step 2 looks through the end pointer also     *)
(* when strtoll has not set it: no character found there makes a count of a   *)
(* text that has none, and the read may end the process only for a text in    *)
(* which no number begins.  (A number beyond an int counts as what is left of *)
(* it, a negative one too: the check that it "is negative" comes after the    *)
(* cast, mongoc-scram.c:581-604.)                                             *)
IterationsAreTheNumber ==
  Returned("iterations") =>
    /\ result[1] = Ended => \A i \in 1 .. Len(call.text) : ~BeginsAt(call.text, i)
    /\ result[1] = Refused => \A n \in MinIterations .. IntModulus : ~Acceptable(call.text, n)
    /\ result[1] \notin {Ended, Refused} => Acceptable(call.text, result[1])

(* What is mixed into the digest are the words of the padded message, each    *)
(* round in its order, wherever the message's length lies between two blocks, *)
(* and beyond what the low word counts (bson_md5_process, append, finish).    *)
HashesPaddedMessage ==
  Returned("md5") => result[1] = MixedIn(PaddedMessage(call.input))

(* The user name and the parameters behind its last "?" are told apart        *)
(* without a loss.  When the first occurrence of the service's name is the    *)
(* name of a parameter its value is found, to its end.  When that occurrence  *)
(* lies inside another name or value it hides the parameter: nothing is found *)
(* or the rest of what it lies in, never more than one parameter              *)
(* (_mongosql_auth_conversation_init, find_param).                            *)
FindsServiceName ==
  Returned("service") =>
    LET user == result[1][1]
        name == result[1][2]
        list == SubSeq(call.username, Len(user) + 2, Len(call.username))
    IN  /\ call.username = user \/ call.username = user \o <<"?">> \o list
        /\ Places(list, "?") = {}
        /\ user = call.username => Places(user, "?") = {} /\ name = Null
        /\ IsFound(list, name)

(* The server's signature is accepted only when it is the one computed, in    *)
(* every byte and in its length, and always then (mongoc_memcmp).             *)
VerifiesEqualSignatures ==
  Returned("verify") => (result[1] <=> call.received = call.computed)

(* Whichever call of ICU fails, nothing but the prepared password is left     *)
(* allocated.  A password that may not be prepared is refused, and when no    *)
(* call fails a printable one is taken with and without ICU -- but for the    *)
(* empty one, which only the build without ICU takes: it overflows nothing    *)
(* (mongoc-scram.c:887).                                                      *)
PasswordIsPrepared ==
  Returned("prep") =>
    LET p == call.password
    IN  /\ result[1].held = IF result[1].refused THEN {} ELSE {"out_utf8"}
        /\ ~result[1].refused => p.utf8 /\ p.allowed
        /\ call.failing = {} /\ p.printable =>
             (result[1].refused <=> call.icu /\ p.length = 0)

(* The packets hold the messages of all conversations.  A payload of the      *)
(* client fills the room made for it, no less and no more, and the server     *)
(* finds every frame in it.  Of a payload of the server each conversation     *)
(* gets its own message, up to the first that is too large, and without one   *)
(* the packet is read just to its end, although pkt_len is not looked at      *)
(* (write_payload, read_payload).                                             *)
PayloadsArrive ==
  /\ Returned("write") =>
       /\ Len(result[1].bytes) = result[1].room
       /\ ClientFrames(result[1].bytes, Len(call.frames)) = call.frames
  /\ Returned("read") =>
       LET large == {c \in DOMAIN call.messages : Len(call.messages[c]) > MaxFrame}
       IN  /\ result[1].error <=> large # {}
           /\ IsPrefix(result[1].taken, call.messages)
           /\ large = {} => /\ result[1].taken = call.messages
                            /\ result[1].place = Len(ServerPayload(call.messages)) + 1
===============================================================================
