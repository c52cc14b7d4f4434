---------------------------- MODULE ScramLoginProofs ----------------------------
(***************************************************************************)
(* Proofs about ScramLogin for any number of conversations, any width of   *)
(* an int and whatever the server does.                                    *)
(***************************************************************************)
EXTENDS ScramLogin, MongosqlAuthProofs

(* Every step of the login is a step of MongosqlAuth. *)
LEMMA LoginStepsAreSteps == [LoginNext]_loginVars => [Next]_vars
BY DEF LoginNext, LoginOpen, LoginStep, LoginRead, Next, loginVars, vars

(* The login implements the plugin with an arbitrary mechanism               *)
(* (conversation_scram_step).                                                *)
THEOREM LoginImplementsPlugin == LoginSpec => Init /\ [][Next]_vars
<1>1. LoginInit => Init
  BY DEF LoginInit
<1> QED
  BY <1>1, LoginStepsAreSteps, PTL DEF LoginSpec

(* While the plugin reads or steps, no SCRAM conversation is finished: they  *)
(* all finish together.                                                      *)
LEMMA NoneFinished ==
  ASSUME LoginInv, ~IsDone, NEW c \in Indices
  PROVE  /\ conversations[c] \in Conversation
         /\ conversations[c].done = FALSE /\ conversations[c].status = "CR_OK"
<1>1. conversations[c] \in Conversation
  BY DEF LoginInv, IInv, TypeOK
<1>2. conversations[c].status = "CR_OK"
  BY <1>1 DEF IsDone, HasError, Failing, Conversation
<1>3. PICK d \in Indices : ~conversations[d].done
  BY DEF IsDone, AllDone
<1>4. conversations[c].done = conversations[d].done
  BY DEF LoginInv, IInv, Lockstep, IsDone, NoMechanism
<1> QED
  BY <1>1, <1>2, <1>3, <1>4 DEF Conversation

(* What a SCRAM step makes of a conversation that does not fail. *)
LEMMA ScramStepEffect ==
  ASSUME NEW conv \in Conversation, NEW answer \in Answers, mechanism = "SCRAM",
         conv.done = FALSE, conv.status = "CR_OK",
         ConversationStep(conv, answer).status = "CR_OK"
  PROVE  /\ ConversationStep(conv, answer).step = conv.step + 1
         /\ ConversationStep(conv, answer).done => conv.step = 2
         /\ conv.step \in {0, 1, 2}
<1> DEFINE step == conv.step + 1
           out == Output(conv, IF step = 3 THEN 0 ELSE 1, 1)
           next == [out EXCEPT !.step = step]
           last == [next EXCEPT !.done = (step = 3)]
<1>1. step \in Nat /\ conv.step \in Nat
  BY DEF Conversation
<1>2. out \in Conversation /\ out.status = "CR_OK" /\ out.done = FALSE
  BY OutputType
<1>3. next \in Conversation /\ next.step = step
  <2> HIDE DEF out, step
  <2> QED BY <1>1, <1>2, UpdateTypes
<1>4. ConversationStep(conv, answer) =
        IF answer.verdict = "error" \/ step > 3
        THEN ConversationSetError(next, "scram") ELSE last
  BY Zenon DEF ConversationStep, ScramStep
<1>5. ConversationSetError(next, "scram").status = "CR_ERROR"
  <2> HIDE DEF next
  <2> QED BY <1>3, SetErrorType DEF ConversationErrors
<1>6. last.step = step /\ (last.done => step = 3)
  <2> HIDE DEF next
  <2> QED BY <1>3, UpdateTypes DEF Conversation
<1> HIDE DEF next, last, out
<1>7. step <= 3 /\ ConversationStep(conv, answer) = last
  BY <1>1, <1>4, <1>5
<1> QED
  BY <1>1, <1>6, <1>7

---------------------------------------------------------------------------
(* The invariant holds before anything is sent. *)
LEMMA LoginInitInv == LoginInit => LoginInv
<1> SUFFICES ASSUME LoginInit PROVE LoginInv
  OBVIOUS
<1>1. IInv /\ mechanism = NoMechanism /\ Indices = {}
  BY InitIInv DEF LoginInit, Init, Indices
<1> QED
  BY <1>1 DEF LoginInv, SignaturesAreMade, Prepared, Agreement, DoneMeansEnoughIterations

(* Nothing is signed and no one is finished when the conversations open. *)
LEMMA LoginOpenInv ==
  ASSUME LoginInv, LoginOpen, IInv'
  PROVE  LoginInv'
<1>1. Indices = {} /\ OpenConversations
  <2>1. OpenConversations /\ Opening
    BY DEF LoginOpen, OpenConversations, Opening
  <2>2. num_conversations = 0
    BY <2>1 DEF LoginInv, IInv, Opened
  <2> QED
    BY <2>1, <2>2 DEF Indices
<1>2. mechanism' \in {"SCRAM", NoMechanism}
  BY <1>1, LoginAssumption DEF LoginInv, OpenConversations
<1>3. \A c \in Indices' : message'[c].kind = "none"
  BY DEF LoginOpen, NoMessage
<1>4. \A c \in Indices' : /\ conversations'[c].done = FALSE
                          /\ conversations'[c].step = 0
  <2>1. CASE UNCHANGED num_conversations
    BY <1>1, <2>1 DEF Indices
  <2>2. CASE num_conversations' # num_conversations
    <3>1. \E n, failed : /\ num_conversations' = n
                         /\ conversations' = [c \in 1 .. n |-> ConversationInit(c \in failed)]
      BY <1>1, <2>2, Zenon DEF OpenConversations
    <3> QED
      BY <3>1 DEF Indices, ConversationInit
  <2> QED
    BY <2>1, <2>2
<1>5. SignaturesAreMade' /\ Prepared' /\ Agreement' /\ DoneMeansEnoughIterations'
  BY <1>3, <1>4 DEF SignaturesAreMade, Prepared, Agreement, DoneMeansEnoughIterations
<1> QED
  BY <1>2, <1>5 DEF LoginInv

(* A conversation that finishes has just verified a signature. *)
LEMMA LoginStepInv ==
  ASSUME LoginInv, LoginStep, IInv'
  PROVE  LoginInv'
<1>1. /\ Step /\ pc = "step" /\ ~IsDone
      /\ UNCHANGED <<mechanism, num_conversations, sessions>>
      /\ Indices' = Indices
  BY DEF LoginStep, Step, LoginInv, IInv, Loop, Indices
<1>2. PICK answers \in [Indices -> Answers] : conversations' = StepConversations(answers)
  BY <1>1 DEF Step, IsDone
<1>3. mechanism = "SCRAM"
  BY <1>1 DEF LoginInv, IInv, Opened, Opening, IsDone, HasError
<1>4. ASSUME NEW c \in Indices
      PROVE  /\ message'[c].kind # "server-final"
             /\ conversations'[c].status = "CR_OK" =>
                  /\ conversations'[c].step >= 2 =>
                       /\ scram'[c].auth_message.bare = scram'[c].nonce
                       /\ scram'[c].key.iterations >= MinIterations
                  /\ conversations'[c].done =>
                       /\ message[c].kind = "server-final"
                       /\ message[c].signature = <<scram'[c].key, scram'[c].auth_message>>
             /\ conversations'[c].done => conversations'[c].status = "CR_OK"
  <2>1. /\ conversations[c] \in Conversation /\ answers[c] \in Answers
        /\ conversations[c].done = FALSE /\ conversations[c].status = "CR_OK"
        /\ conversations'[c] = ConversationStep(conversations[c], answers[c])
    BY <1>1, <1>2, NoneFinished DEF StepConversations
  <2>2. CASE conversations'[c].status # "CR_OK"
    <3>1. message'[c] = NoMessage
      BY <2>2 DEF LoginStep
    <3>2. conversations'[c].done = FALSE
      BY <1>3, <2>1, <2>2 DEF ConversationStep, ScramStep, Output, ConversationSetError,
                              Conversation
    <3> QED
      BY <2>2, <3>1, <3>2 DEF NoMessage
  <2>3. CASE conversations'[c].status = "CR_OK"
    <3>1. /\ conversations'[c].step = conversations[c].step + 1
          /\ conversations'[c].done => conversations[c].step = 2
          /\ conversations[c].step \in {0, 1, 2}
      BY <1>3, <2>1, <2>3, ScramStepEffect
    <3>2. /\ ScramResult(c).ok
          /\ scram'[c] = ScramResult(c).scram /\ message'[c] = ScramResult(c).message
      BY <2>3 DEF LoginStep
    <3>3. CASE conversations[c].step = 0
      <4>1. ScramResult(c) = Start(c)
        BY <3>3 DEF ScramResult
      <4> QED
        BY <3>1, <3>2, <3>3, <4>1 DEF Start
    <3>4. CASE conversations[c].step = 1
      <4>1. ScramResult(c) = Step2(scram[c], message[c])
        BY <3>4 DEF ScramResult
      <4>2. /\ message'[c].kind = "client-final"
            /\ scram'[c].auth_message.bare = scram'[c].nonce
            /\ scram'[c].key.iterations >= MinIterations
        BY <3>2, <4>1 DEF Step2, EnoughIterations
      <4> QED
        BY <3>1, <3>4, <4>2
    <3>5. CASE conversations[c].step = 2
      <4>1. ScramResult(c) = Step3(scram[c], message[c])
        BY <3>5 DEF ScramResult
      <4>2. /\ scram'[c] = scram[c] /\ message'[c] = NoMessage
            /\ message[c].kind = "server-final"
            /\ message[c].signature = <<scram[c].key, scram[c].auth_message>>
        BY <3>2, <4>1 DEF Step3, VerifyServerSignature
      <4>3. /\ scram[c].auth_message.bare = scram[c].nonce
            /\ scram[c].key.iterations >= MinIterations
        BY <2>1, <3>5 DEF LoginInv, Prepared
      <4>4. /\ message'[c].kind = "none" /\ scram'[c].auth_message.bare = scram'[c].nonce
            /\ scram'[c].key.iterations >= MinIterations
        BY <4>2, <4>3 DEF NoMessage
      <4> QED
        BY <2>3, <4>2, <4>4
    <3> QED
      BY <3>1, <3>3, <3>4, <3>5
  <2> QED
    BY <2>2, <2>3
<1>5. SignaturesAreMade'
  BY <1>1, <1>4 DEF SignaturesAreMade
<1>6. Prepared'
  BY <1>1, <1>4 DEF Prepared
<1>7. Agreement' /\ DoneMeansEnoughIterations'
  <2> SUFFICES ASSUME NEW c \in Indices, conversations'[c].done
               PROVE  /\ \E d \in Indices :
                           /\ sessions[d].accepted
                           /\ sessions[d].bare = scram'[c].nonce
                           /\ SessionSecret(sessions[d]) = <<scram'[c].key, scram'[c].auth_message>>
                      /\ scram'[c].auth_message.first.iterations >= MinIterations
    BY <1>1 DEF Agreement, DoneMeansEnoughIterations, SessionSecret
  <2>1. /\ message[c].kind = "server-final"
        /\ message[c].signature = <<scram'[c].key, scram'[c].auth_message>>
        /\ conversations'[c].status = "CR_OK"
    BY <1>4
  <2>2. PICK d \in Indices : /\ sessions[d].accepted
                             /\ message[c].signature = SessionSecret(sessions[d])
    BY <2>1 DEF LoginInv, SignaturesAreMade
  <2>3. conversations'[c].step >= 2
    <3>1. /\ conversations[c] \in Conversation /\ answers[c] \in Answers
          /\ conversations[c].done = FALSE /\ conversations[c].status = "CR_OK"
          /\ conversations'[c] = ConversationStep(conversations[c], answers[c])
      BY <1>1, <1>2, NoneFinished DEF StepConversations
    <3>2. /\ conversations[c].step = 2
          /\ conversations'[c].step = conversations[c].step + 1
      BY <1>3, <2>1, <3>1, ScramStepEffect
    <3> QED
      BY <3>2
  <2>4. /\ scram'[c].auth_message.bare = scram'[c].nonce
        /\ scram'[c].key.iterations >= MinIterations
    BY <1>4, <2>1, <2>3
  <2>5. /\ sessions[d].bare = scram'[c].auth_message.bare
        /\ scram'[c].auth_message.first.iterations = scram'[c].key.iterations
    BY <2>1, <2>2 DEF SessionSecret
  <2> QED
    BY <2>1, <2>2, <2>4, <2>5
<1> QED
  BY <1>1, <1>5, <1>6, <1>7 DEF LoginInv

(* The server answers while nobody is finished; what it signs, an accepting  *)
(* session signs.                                                            *)
LEMMA LoginReadInv ==
  ASSUME LoginInv, LoginRead, IInv'
  PROVE  LoginInv'
<1>1. /\ ReadPayload /\ UNCHANGED <<mechanism, num_conversations, scram>>
      /\ Indices' = Indices
  BY DEF LoginRead, ReadPayload, Indices
<1>2. CASE conversations' = conversations
  BY <1>1, <1>2 DEF LoginRead, LoginInv, SignaturesAreMade, Prepared, Agreement, DoneMeansEnoughIterations,
                    SessionSecret
<1>3. CASE conversations' # conversations
  <2>1. ~IsDone
    BY <1>1, <1>3 DEF ReadPayload
  <2>2. SUBSET (IF "alloc" \in Faults THEN Indices ELSE {}) \subseteq SUBSET Indices
    OBVIOUS
  <2>3. \E sizes \in [Indices -> FrameSizes], lost \in SUBSET Indices : Distribute(sizes, lost)
    BY <1>1, <1>3, <2>2, Zenon DEF ReadPayload
  <2>4. \A c \in Indices : /\ conversations'[c].done = conversations[c].done
                           /\ conversations'[c].step = conversations[c].step
                           /\ conversations'[c].status = conversations[c].status
    BY <1>1, <2>1, <2>3, DistributeEffect DEF LoginInv, IInv, IsDone
  <2>5. PICK next \in [Indices -> UNION {NextSessions(c) : c \in Indices}], route \in Routes :
           /\ \A c \in Indices : next[c] \in NextSessions(c)
           /\ sessions' = next
           /\ message' = [c \in Indices |-> IF route[c] = 0 THEN [kind |-> "garbled"]
                                            ELSE Reply(next[route[c]], message[route[c]])]
    BY <1>3 DEF LoginRead
  <2>6. \A c \in Indices : route[c] = 0 \/ route[c] \in Indices
    BY DEF Routes
  <2>7. ASSUME NEW c \in Indices, message'[c].kind = "server-final"
        PROVE  \E d \in Indices : /\ sessions'[d].accepted
                                  /\ message'[c].signature = SessionSecret(sessions'[d])
    <3>1. route[c] \in Indices /\ message'[c] = Reply(next[route[c]], message[route[c]])
      BY <2>5, <2>6, <2>7
    <3>2. message[route[c]].kind # "client-first"
      <4> SUFFICES ASSUME message[route[c]].kind = "client-first" PROVE FALSE
        OBVIOUS
      <4>1. next[route[c]] \in NewSessions(route[c], message[route[c]])
        BY <2>5, <3>1 DEF NextSessions
      <4>2. next[route[c]].first.kind = "server-first"
        BY <4>1 DEF NewSessions
      <4> QED
        BY <2>7, <3>1, <4>2 DEF Reply
    <3>3. /\ next[route[c]].accepted
          /\ message'[c].signature = SessionSecret(next[route[c]])
      BY <2>7, <3>1, <3>2 DEF Reply
    <3> QED
      BY <2>5, <3>1, <3>3
  <2>8. SignaturesAreMade'
    BY <1>1, <2>7 DEF SignaturesAreMade, SessionSecret
  <2>9. Prepared'
    BY <1>1, <2>4 DEF Prepared, LoginInv
  <2>10. Agreement' /\ DoneMeansEnoughIterations'
    BY <1>1, <2>1, <2>4, NoneFinished DEF Agreement, DoneMeansEnoughIterations
  <2> QED
    BY <1>1, <2>8, <2>9, <2>10 DEF LoginInv
<1> QED
  BY <1>2, <1>3

(* Every step of the login keeps the invariant. *)
LEMMA LoginInvInductive == LoginInv /\ [LoginNext]_loginVars => LoginInv'
<1> SUFFICES ASSUME LoginInv, [LoginNext]_loginVars PROVE LoginInv'
  OBVIOUS
<1>1. IInv'
  BY LoginStepsAreSteps, IInvInductive DEF LoginInv
<1>2. CASE LoginOpen
  BY <1>1, <1>2, LoginOpenInv
<1>3. CASE LoginStep
  BY <1>1, <1>3, LoginStepInv
<1>4. CASE LoginRead
  BY <1>1, <1>4, LoginReadInv
<1>5. CASE UNCHANGED <<mechanism, num_conversations, conversations, scram, message, sessions>>
  BY <1>1, <1>5 DEF LoginInv, SignaturesAreMade, Prepared, Agreement, DoneMeansEnoughIterations,
                    SessionSecret, Indices
<1>6. CASE ReadHandshake \/ WriteEmpty \/ TestDone \/ WritePayload \/ Finish \/ Returned
  <2>1. UNCHANGED <<mechanism, num_conversations, conversations>>
    BY <1>6 DEF ReadHandshake, WriteEmpty, TestDone, WritePayload, Finish, Returned, vars
  <2>2. CASE UNCHANGED <<scram, message, sessions>>
    BY <1>5, <2>1, <2>2
  <2> QED
    BY <1>2, <1>3, <1>4, <2>2, <1>6 DEF LoginNext, loginVars
<1>7. CASE UNCHANGED loginVars
  BY <1>5, <1>7 DEF loginVars, vars
<1> QED
  BY <1>2, <1>3, <1>4, <1>6, <1>7 DEF LoginNext

(* The inductive invariant holds in every reachable state of the login. *)
THEOREM LoginInvariance == LoginSpec => []LoginInv
BY LoginInitInv, LoginInvInductive, PTL DEF LoginSpec

(* A SCRAM conversation finishes only in agreement with a session of the     *)
(* server that accepted it (step3, verify_server_signature).                 *)
THEOREM LoginAgrees == LoginSpec => []Agreement
<1>1. LoginInv => Agreement
  BY DEF LoginInv
<1> QED
  BY <1>1, LoginInvariance, PTL

(* Nor does it finish over an iteration count below the minimum, although    *)
(* the count is stored in an int (step2).                                    *)
THEOREM LoginIterates == LoginSpec => []DoneMeansEnoughIterations
<1>1. LoginInv => DoneMeansEnoughIterations
  BY DEF LoginInv
<1> QED
  BY <1>1, LoginInvariance, PTL
================================================================================
