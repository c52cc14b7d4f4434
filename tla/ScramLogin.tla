------------------------------- MODULE ScramLogin -------------------------------
(***************************************************************************)
(* MongosqlAuth with the SCRAM mechanism in its place (mongoc-scram.c) and *)
(* a server to talk to.  Cryptography is symbolic: a key is known by the   *)
(* password, salt and iteration count it is derived from, a proof or a     *)
(* signature by the key and the messages it is made over, and two of them  *)
(* are equal when those are.                                               *)
(*                                                                         *)
(* The server is external.  A correct one keeps a session for each         *)
(* conversation; it may also mix up sessions, send something else, or not  *)
(* repeat the client's nonce.                                              *)
(***************************************************************************)
EXTENDS MongosqlAuth

CONSTANTS
  IntRange,        (* number of values of an int, 2^32 *)
  MinIterations,   (* 4096 *)
  Counts,          (* iteration counts a server names *)
  Salts,           (* salts a server sends, "short" for one that is refused *)
  Passwords,       (* passwords the server may hold for the user *)
  Confused,        (* the server makes mistakes *)
  LocalFailures    (* random bytes, SASLprep or buffer space may fail *)

ASSUME LoginAssumption ==
  /\ Mechanisms = {"SCRAM"}
  /\ IntRange \in Nat \ {0} /\ MinIterations \in Nat
  /\ Counts \subseteq Int
  /\ Confused \in BOOLEAN /\ LocalFailures \in BOOLEAN

VARIABLES
  scram,           (* the client's side of each conversation *)
  message,         (* what the buffer of each conversation holds *)
  sessions         (* the server's side *)

loginVars == <<vars, scram, message, sessions>>

NoMessage == [kind |-> "none"]
NoKey == [password |-> "none", salt |-> "none", iterations |-> 0]
NoScram == [nonce |-> 0, key |-> NoKey, auth_message |-> [bare |-> 0, first |-> NoMessage]]

Password == "pencil"

---------------------------------------------------------------------------
(* The client: each step takes the message in the buffer, updates the scram  *)
(* struct and leaves an answer in the buffer.                                *)

(* The conversion of the 64 bit number that was parsed to an int. *)
ToInt(n) == ((n + IntRange \div 2) % IntRange) - IntRange \div 2

(* step 1: conversation c draws a nonce of its own. *)
Start(c) ==
  [ok      |-> TRUE,
   scram   |-> [NoScram EXCEPT !.nonce = c],
   message |-> [kind |-> "client-first", nonce |-> c]]

(* Mutant: the bound is off by one. *)
AlmostEnough(first) == ToInt(first.iterations) >= MinIterations - 1

EnoughIterations(first) == ToInt(first.iterations) >= MinIterations

(* step 2: the salt must have the expected length and the iterations must    *)
(* be enough.  That the nonce was not repeated is noted in an error, but the *)
(* step goes on.                                                             *)
Step2(client, first) ==
  LET key  == [password |-> Password, salt |-> first.salt,
               iterations |-> ToInt(first.iterations)]
      auth == [bare |-> client.nonce, first |-> first]
  IN  IF first.kind = "server-first" /\ first.salt # "short" /\ EnoughIterations(first)
      THEN [ok      |-> TRUE,
            scram   |-> [client EXCEPT !.key = key, !.auth_message = auth],
            message |-> [kind |-> "client-final", nonce |-> first.nonce,
                         proof |-> <<key, auth>>]]
      ELSE [ok |-> FALSE, scram |-> client, message |-> NoMessage]

(* Mutant: the signature does not cover the messages exchanged. *)
VerifyKeyOnly(client, signature) == signature[1] = client.key

VerifyServerSignature(client, signature) ==
  signature = <<client.key, client.auth_message>>

(* step 3 *)
Step3(client, final) ==
  IF final.kind = "server-final" /\ VerifyServerSignature(client, final.signature)
  THEN [ok |-> TRUE, scram |-> client, message |-> NoMessage]
  ELSE [ok |-> FALSE, scram |-> client, message |-> NoMessage]

ScramResult(c) ==
  CASE conversations[c].step = 0 -> Start(c)
    [] conversations[c].step = 1 -> Step2(scram[c], message[c])
    [] conversations[c].step = 2 -> Step3(scram[c], message[c])

---------------------------------------------------------------------------
(* The server *)

NewSession == [bare |-> 0, first |-> NoMessage, password |-> "none", accepted |-> FALSE]

SessionSecret(session) ==
  <<[password |-> session.password, salt |-> session.first.salt,
     iterations |-> session.first.iterations],
    [bare |-> session.bare, first |-> session.first]>>

(* The answers to a client-first message: salt, count and the nonce, which   *)
(* starts with the client's unless the server is confused.                   *)
NewSessions(c, m) ==
  [bare : {m.nonce}, password : Passwords, accepted : {FALSE},
   first : [kind : {"server-first"}, salt : Salts, iterations : Counts,
            nonce : ({m.nonce} \cup (IF Confused THEN {0} ELSE {})) \X {c}]]

(* The server accepts a client-final message that has its nonce and proves   *)
(* knowledge of the password.                                                *)
Accepted(session, m) ==
  m.nonce = session.first.nonce /\ m.proof = SessionSecret(session)

NextSessions(c) ==
  CASE message[c].kind = "client-first" -> NewSessions(c, message[c])
    [] message[c].kind = "client-final" ->
         {[sessions[c] EXCEPT !.accepted = Accepted(sessions[c], message[c])]}

Reply(session, m) ==
  IF m.kind = "client-first" THEN session.first
  ELSE IF session.accepted
       THEN [kind |-> "server-final", signature |-> SessionSecret(session)]
       ELSE [kind |-> "server-error"]

(* Which session's answer a conversation gets; 0 stands for something that   *)
(* is no answer at all.                                                      *)
Routes == IF Confused THEN [Indices -> Indices \cup {0}] ELSE {[c \in Indices |-> c]}

---------------------------------------------------------------------------
LoginInit == Init /\ scram = <<>> /\ message = <<>> /\ sessions = <<>>

LoginOpen ==
  /\ OpenConversations
  /\ scram' = [c \in Indices' |-> NoScram]
  /\ message' = [c \in Indices' |-> NoMessage]
  /\ sessions' = [c \in Indices' |-> NewSession]

(* A step succeeds when SCRAM accepts the message.  The first two also fail  *)
(* without random bytes, when the password cannot be prepared, or when a     *)
(* message outgrows its buffer.                                              *)
LoginStep ==
  /\ Step
  /\ \A c \in Indices :
       IF conversations'[c].status = "CR_OK" THEN ScramResult(c).ok
       ELSE ~ScramResult(c).ok \/ (LocalFailures /\ conversations[c].step < 2)
  /\ scram' = [c \in Indices |-> IF conversations'[c].status = "CR_OK"
                                 THEN ScramResult(c).scram ELSE scram[c]]
  /\ message' = [c \in Indices |-> IF conversations'[c].status = "CR_OK"
                                   THEN ScramResult(c).message ELSE NoMessage]
  /\ UNCHANGED sessions

(* The server has answered the last payload, its frames are distributed. *)
LoginRead ==
  /\ ReadPayload
  /\ IF conversations' = conversations THEN UNCHANGED <<message, sessions>>
     ELSE \E next \in [Indices -> UNION {NextSessions(c) : c \in Indices}], route \in Routes :
            /\ \A c \in Indices : next[c] \in NextSessions(c)
            /\ sessions' = next
            /\ message' = [c \in Indices |-> IF route[c] = 0 THEN [kind |-> "garbled"]
                                             ELSE Reply(next[route[c]], message[route[c]])]
  /\ UNCHANGED scram

LoginNext ==
  \/ LoginOpen \/ LoginStep \/ LoginRead
  \/ /\ ReadHandshake \/ WriteEmpty \/ TestDone \/ WritePayload \/ Finish \/ Returned
     /\ UNCHANGED <<scram, message, sessions>>

LoginSpec == LoginInit /\ [][LoginNext]_loginVars /\ WF_loginVars(LoginNext)

---------------------------------------------------------------------------
(* What a finished conversation means: the server session this very client   *)
(* opened (its nonce) holds the same password, salt and iterations, answered *)
(* with the server-first message the client used, and accepted the client's  *)
(* proof; frames that reached another conversation or lost their way never   *)
(* add up to that (verify_server_signature over auth_message).               *)
Agreement ==
  \A c \in Indices : conversations[c].done =>
    \E d \in Indices : /\ sessions[d].accepted
                       /\ sessions[d].bare = scram[c].nonce
                       /\ SessionSecret(sessions[d]) = <<scram[c].key, scram[c].auth_message>>

(* A conversation finishes only with a session that names at least           *)
(* MinIterations, "drivers MUST enforce a minimum iteration count of 4096"   *)
(* (mongoc-scram.c:602): a count that is too low is refused in step 2, one   *)
(* that only becomes another when it is stored in an int gets through it,    *)
(* but then the keys differ.                                                 *)
DoneMeansEnoughIterations ==
  \A c \in Indices : conversations[c].done =>
    scram[c].auth_message.first.iterations >= MinIterations

(* A client proves its password only over a server-first message that        *)
(* repeats its nonce: "verify our nonce" (mongoc-scram.c:527).               *)
NonceRepeated ==
  \A c \in Indices : message[c].kind = "client-final" =>
    message[c].nonce[1] = scram[c].nonce

---------------------------------------------------------------------------
(* What Agreement rests on *)

(* A signature in a buffer was made by a session that accepted its client. *)
SignaturesAreMade ==
  \A c \in Indices : message[c].kind = "server-final" =>
    \E d \in Indices : /\ sessions[d].accepted
                       /\ message[c].signature = SessionSecret(sessions[d])

(* The transcript a client signs starts with its own nonce, and its key took *)
(* enough iterations.                                                        *)
Prepared ==
  \A c \in Indices :
    conversations[c].status = "CR_OK" /\ conversations[c].step >= 2 =>
      /\ scram[c].auth_message.bare = scram[c].nonce
      /\ scram[c].key.iterations >= MinIterations

(* The inductive invariant of the login. *)
LoginInv ==
  /\ IInv
  /\ mechanism \in {"SCRAM", NoMechanism}
  /\ SignaturesAreMade /\ Prepared /\ Agreement /\ DoneMeansEnoughIterations
================================================================================
