--------------------------- MODULE MongosqlAuthProofs ---------------------------
(***************************************************************************)
(* Proofs about MongosqlAuth for any number of conversations, any frame    *)
(* sizes and any faults.                                                   *)
(***************************************************************************)
EXTENDS MongosqlAuth, WellFoundedInduction, TLAPS

(* A non-empty set of natural numbers has a least element. *)
LEMMA LeastExists ==
  ASSUME NEW S, S \subseteq Nat, S # {}
  PROVE  \E m \in S : \A n \in S : m <= n
<1> DEFINE R == {p \in Nat \X Nat : p[1] < p[2]}
<1>1. IsWellFoundedOn(R, Nat)
  BY NatLessThanWellFounded, Zenon DEF OpToRel
<1>2. \A m, n \in Nat : n < m => <<n, m>> \in R
  OBVIOUS
<1> HIDE DEF R
<1>3. PICK m \in S : \A n \in S : ~ (<<n, m>> \in R)
  BY <1>1, WFMin
<1>4. \A n \in S : m <= n
  <2> SUFFICES ASSUME NEW n \in S PROVE m <= n
    OBVIOUS
  <2>1. ~ (n < m)
    BY <1>2, <1>3
  <2> QED BY <2>1
<1> QED BY <1>4

(* has_error reports the failing conversation with the smallest index. *)
LEMMA FirstFailingIsLeast ==
  ASSUME TypeOK, Failing # {}
  PROVE  FirstFailing \in Failing /\ \A d \in Failing : FirstFailing <= d
<1>1. Failing \subseteq Nat
  BY DEF Failing, Indices, TypeOK
<1> QED
  BY <1>1, LeastExists DEF FirstFailing

---------------------------------------------------------------------------
(* A step of a conversation *)

(* The two updates a step is made of. *)
LEMMA SetErrorType ==
  ASSUME NEW conv \in Conversation, NEW text \in ConversationErrors
  PROVE  /\ ConversationSetError(conv, text) \in Conversation
         /\ ConversationSetError(conv, text).status = "CR_ERROR"
BY DEF ConversationSetError, Conversation

(* The buffer of an output holds the length recorded for it. *)
LEMMA OutputType ==
  ASSUME NEW conv \in Conversation, NEW len \in Nat, NEW cap \in Nat
  PROVE  /\ Output(conv, len, cap) \in Conversation
         /\ Output(conv, len, cap).buf_len = len
         /\ Output(conv, len, cap).cap = cap
         /\ cap # 0 => Output(conv, len, cap).buf = "client"
         /\ Output(conv, len, cap).step = conv.step
         /\ Output(conv, len, cap).done = conv.done
         /\ Output(conv, len, cap).status = conv.status
         /\ Output(conv, len, cap).state = conv.state
BY DEF Output, Conversation

(* Counting a step, or marking the end, leaves the other fields alone. *)
LEMMA UpdateTypes ==
  ASSUME NEW conv \in Conversation
  PROVE  /\ \A n \in Nat : /\ [conv EXCEPT !.step = n] \in Conversation
                           /\ [conv EXCEPT !.step = n].status = conv.status
                           /\ [conv EXCEPT !.step = n].buf = conv.buf
                           /\ [conv EXCEPT !.step = n].buf_len = conv.buf_len
                           /\ [conv EXCEPT !.step = n].cap = conv.cap
                           /\ [conv EXCEPT !.step = n].step = n
                           /\ [conv EXCEPT !.step = n].done = conv.done
         /\ \A d \in BOOLEAN : /\ [conv EXCEPT !.done = d] \in Conversation
                               /\ [conv EXCEPT !.done = d].status = conv.status
                               /\ [conv EXCEPT !.done = d].buf = conv.buf
                               /\ [conv EXCEPT !.done = d].buf_len = conv.buf_len
                               /\ [conv EXCEPT !.done = d].cap = conv.cap
                               /\ [conv EXCEPT !.done = d].step = conv.step
                               /\ [conv EXCEPT !.done = d].done = d
BY DEF Conversation

(* Whatever the mechanism answers, a step leaves a conversation. *)
LEMMA ConversationStepType ==
  ASSUME NEW conv \in Conversation, NEW answer \in Answers
  PROVE  ConversationStep(conv, answer) \in Conversation
<1>1. answer.len \in Nat /\ answer.cap \in Nat /\ answer.len <= answer.cap
  BY DEF Answers
<1>2. conv.step + 1 \in Nat
  BY DEF Conversation
<1>3. ScramStep(conv, answer) \in Conversation
  <2> DEFINE out == Output(conv, IF conv.step + 1 = 3 THEN 0 ELSE 1, 1)
             next == [out EXCEPT !.step = conv.step + 1]
             last == [next EXCEPT !.done = (conv.step + 1 = 3)]
  <2>1. out \in Conversation
    BY OutputType
  <2>2. next \in Conversation
    <3> HIDE DEF out
    <3> QED BY <1>2, <2>1, UpdateTypes
  <2>3. ConversationSetError(next, "scram") \in Conversation
    <3> HIDE DEF next
    <3> QED BY <2>2, SetErrorType DEF ConversationErrors
  <2>4. last \in Conversation
    <3> HIDE DEF next
    <3> QED BY <2>2, UpdateTypes
  <2>5. ScramStep(conv, answer) = IF answer.verdict = "error" \/ conv.step + 1 > 3
                                  THEN ConversationSetError(next, "scram") ELSE last
    BY Zenon DEF ScramStep
  <2> HIDE DEF next, last
  <2> QED
    BY <2>3, <2>4, <2>5
<1>4. PlainStep(conv) \in Conversation
  <2>1. Output(conv, 1, 1) \in Conversation
    BY OutputType
  <2> QED
    BY <2>1, UpdateTypes DEF PlainStep
<1>5. SaslStep(conv, answer) \in Conversation
  <2> DEFINE out == Output(conv, answer.len, answer.cap)
             next == [out EXCEPT !.step = @ + 1]
             complete == [next EXCEPT !.state = "SASL_CONTEXT_COMPLETE"]
             last == [next EXCEPT !.state = "SASL_DONE", !.done = TRUE]
  <2>1. out \in Conversation
    BY <1>1, OutputType
  <2>2. next \in Conversation
    <3> HIDE DEF out
    <3>1. out.step + 1 \in Nat
      BY <2>1 DEF Conversation
    <3> QED BY <2>1, <3>1, UpdateTypes
  <2>3. complete \in Conversation /\ last \in Conversation
    <3> HIDE DEF next
    <3> QED BY <2>2 DEF Conversation
  <2>4. ConversationSetError(conv, "sasl") \in Conversation
    BY SetErrorType DEF ConversationErrors
  <2>5. conv.state \in {"SASL_START", "SASL_CONTEXT_COMPLETE", "SASL_DONE"}
    BY DEF Conversation
  <2>6. \/ SaslStep(conv, answer) = ConversationSetError(conv, "sasl")
        \/ SaslStep(conv, answer) = last
        \/ SaslStep(conv, answer) = next
        \/ SaslStep(conv, answer) = complete
    BY <2>5 DEF SaslStep
  <2> HIDE DEF next, complete, last
  <2> QED
    BY <2>2, <2>3, <2>4, <2>6
<1>6. ConversationSetError(conv, "unsupported") \in Conversation
  BY SetErrorType DEF ConversationErrors
<1> QED
  BY <1>3, <1>4, <1>5, <1>6 DEF ConversationStep

(* Unless it fails, a step of an unfinished conversation leaves a buffer     *)
(* that is as long as it says, and without GSSAPI one the client composed.   *)
LEMMA ConversationStepOutput ==
  ASSUME NEW conv \in Conversation, NEW answer \in Answers,
         conv.buf_len <= conv.cap,
         ConversationStep(conv, answer).status = "CR_OK"
  PROVE  /\ ConversationStep(conv, answer).buf_len <= ConversationStep(conv, answer).cap
         /\ mechanism # "GSSAPI" /\ ~conv.done =>
              ConversationStep(conv, answer).buf = "client"
<1>1. answer.len \in Nat /\ answer.cap \in Nat /\ answer.len <= answer.cap
  BY DEF Answers
<1>2. CASE conv.done \/ conv.status = "CR_ERROR"
  BY <1>2 DEF ConversationStep
<1>3. CASE ~(conv.done \/ conv.status = "CR_ERROR")
  <2>1. CASE mechanism = "SCRAM"
    BY <1>3, <2>1 DEF ConversationStep, ScramStep, Output, ConversationSetError, Conversation
  <2>2. CASE mechanism = "PLAIN"
    <3>1. ConversationStep(conv, answer) = [Output(conv, 1, 1) EXCEPT !.done = TRUE]
      BY <1>3, <2>2 DEF ConversationStep, PlainStep
    <3>2. /\ Output(conv, 1, 1) \in Conversation
          /\ Output(conv, 1, 1).buf_len = 1
          /\ Output(conv, 1, 1).cap = 1
          /\ Output(conv, 1, 1).buf = "client"
      BY OutputType
    <3> QED BY <3>1, <3>2, UpdateTypes
  <2>3. CASE mechanism = "GSSAPI"
    BY <1>1, <1>3, <2>3 DEF ConversationStep, SaslStep, Output, ConversationSetError, Conversation
  <2>4. CASE mechanism \notin {"SCRAM", "PLAIN", "GSSAPI"}
    BY <1>3, <2>4 DEF ConversationStep, ConversationSetError, Conversation
  <2> QED
    BY <2>1, <2>2, <2>3, <2>4
<1> QED
  BY <1>2, <1>3

(* Outside GSSAPI how far a successful step gets depends on where the        *)
(* conversation was, not on what the server sent.                            *)
LEMMA ConversationStepLockstep ==
  ASSUME NEW c1 \in Conversation, NEW c2 \in Conversation,
         NEW a1 \in Answers, NEW a2 \in Answers,
         mechanism # "GSSAPI",
         c1.step = c2.step, c1.done = c2.done,
         c1.status = "CR_OK", c2.status = "CR_OK",
         ConversationStep(c1, a1).status = "CR_OK",
         ConversationStep(c2, a2).status = "CR_OK"
  PROVE  /\ ConversationStep(c1, a1).step = ConversationStep(c2, a2).step
         /\ ConversationStep(c1, a1).done = ConversationStep(c2, a2).done
<1>1. CASE c1.done
  BY <1>1 DEF ConversationStep
<1>2. CASE ~c1.done
  <2>1. CASE mechanism = "SCRAM"
    BY <1>2, <2>1 DEF ConversationStep, ScramStep, Output, ConversationSetError, Conversation
  <2>2. CASE mechanism = "PLAIN"
    BY <1>2, <2>2 DEF ConversationStep, PlainStep, Output, Conversation
  <2>3. CASE mechanism \notin {"SCRAM", "PLAIN", "GSSAPI"}
    BY <1>2, <2>3 DEF ConversationStep, ConversationSetError, Conversation
  <2> QED
    BY <2>1, <2>2, <2>3
<1> QED
  BY <1>1, <1>2

(* A finished or failed conversation is left alone, and one that finishes in *)
(* a step has not failed.                                                    *)
LEMMA ConversationStepDone ==
  ASSUME NEW conv \in Conversation, NEW answer \in Answers,
         conv.done \/ conv.status = "CR_ERROR"
  PROVE  ConversationStep(conv, answer) = conv
BY DEF ConversationStep

---------------------------------------------------------------------------
(* Errors *)

(* What has_error does to the status, and what it leaves in error_msg. *)
LEMMA AdoptErrorEffect ==
  ASSUME TypeOK, ErrorHasMessage, AdoptError
  PROVE  /\ status' = IF HasError THEN "CR_ERROR" ELSE "CR_OK"
         /\ error_msg' \in (0 .. MaxConversations) \X (PluginErrors \cup ConversationErrors)
         /\ status = "CR_ERROR" \/ ~HasError => error_msg' = error_msg
         /\ (status' = "CR_ERROR") <=> (error_msg' # NoError)
         /\ error_msg'[1] # 0 =>
              /\ error_msg'[1] \in Failing
              /\ error_msg'[2] = conversations[error_msg'[1]].error_msg
              /\ \A c \in Failing : error_msg'[1] <= c
<1>1. CASE status = "CR_ERROR" \/ Failing = {}
  BY <1>1 DEF AdoptError, HasError, ErrorHasMessage, TypeOK
<1>2. CASE status = "CR_OK" /\ Failing # {}
  <2>1. /\ status' = "CR_ERROR"
        /\ error_msg' = <<FirstFailing, conversations[FirstFailing].error_msg>>
    BY <1>2 DEF AdoptError
  <2>2. FirstFailing \in Failing /\ \A d \in Failing : FirstFailing <= d
    BY <1>2, FirstFailingIsLeast
  <2>3. FirstFailing \in 1 .. MaxConversations
    BY <2>2, ConstantsAssumption DEF Failing, Indices, TypeOK
  <2>4. conversations[FirstFailing].error_msg \in ConversationErrors
    BY <2>2 DEF Failing, TypeOK, Conversation
  <2>5. error_msg' \in (0 .. MaxConversations) \X (PluginErrors \cup ConversationErrors)
    BY <2>1, <2>3, <2>4, ConstantsAssumption
  <2>6. error_msg' # NoError /\ error_msg'[1] = FirstFailing
    BY <2>1, <2>3, ConstantsAssumption DEF NoError
  <2> QED
    BY <1>2, <2>1, <2>2, <2>5, <2>6 DEF HasError
<1> QED
  BY <1>1, <1>2 DEF TypeOK

(* set_error, when there is no error yet. *)
LEMMA SetErrorEffect ==
  ASSUME TypeOK, ~HasError, NEW text \in PluginErrors \ {"none"}, SetError(text)
  PROVE  /\ status' = "CR_ERROR"
         /\ error_msg' \in (0 .. MaxConversations) \X (PluginErrors \cup ConversationErrors)
         /\ error_msg' # NoError
         /\ error_msg'[1] = 0
<1>1. status' = "CR_ERROR" /\ error_msg' = <<0, text>>
  BY DEF SetError
<1> QED
  BY <1>1, ConstantsAssumption DEF NoError

(* The derived predicates in the next state, when the conversations stay. *)
LEMMA SameConversations ==
  ASSUME UNCHANGED <<num_conversations, conversations>>
  PROVE  /\ Indices' = Indices /\ Failing' = Failing /\ AllDone' = AllDone
         /\ HasError' <=> (status' = "CR_ERROR" \/ Failing # {})
BY DEF Indices, Failing, AllDone, HasError

(* ErrorHasMessage is kept by has_error, and by set_error without an error. *)
LEMMA AdoptKeepsMessage ==
  ASSUME TypeOK, ErrorHasMessage, AdoptError,
         UNCHANGED <<num_conversations, conversations>>
  PROVE  ErrorHasMessage' /\ (HasError' <=> HasError)
<1>1. /\ Failing' = Failing
      /\ HasError' <=> (status' = "CR_ERROR" \/ Failing # {})
  BY SameConversations
<1> QED
  BY <1>1, AdoptErrorEffect DEF ErrorHasMessage, HasError, NoError

(* An error of the plugin itself has a message and belongs to no conversation. *)
LEMMA SetErrorKeepsMessage ==
  ASSUME TypeOK, ~HasError, NEW text \in PluginErrors \ {"none"}, SetError(text)
  PROVE  ErrorHasMessage' /\ HasError'
BY SetErrorEffect DEF ErrorHasMessage, HasError, NoError

---------------------------------------------------------------------------
(* The inductive invariant holds initially. *)
LEMMA InitIInv == Init => IInv
<1> SUFFICES ASSUME Init PROVE IInv
  OBVIOUS
<1>1. Indices = {} /\ Failing = {} /\ ~HasError
  BY DEF Init, Indices, Failing, HasError
<1>2. conversations \in [Indices -> Conversation]
  BY <1>1 DEF Init
<1>3. TypeOK
  BY <1>2, ConstantsAssumption DEF Init, TypeOK, NoError, PluginErrors
<1>4. Opened /\ Loop
  BY DEF Init, Opened, Opening, Loop
<1>5. Told /\ Buffered
  BY <1>1 DEF Told, Buffered
<1>6. ErrorHasMessage
  BY DEF Init, ErrorHasMessage, NoError
<1>7. Lockstep /\ LockstepPayloads
  BY <1>1 DEF Init, Lockstep, LockstepPayloads, WritesClientMessages
<1> QED
  BY <1>3, <1>4, <1>5, <1>6, <1>7 DEF IInv

(* The packets before the conversations exist: only the status can change. *)
LEMMA OpeningStep ==
  ASSUME IInv, ReadHandshake \/ WriteEmpty
  PROVE  IInv'
<1> USE DEF IInv
<1>1. /\ Indices = {} /\ Failing = {} /\ ~HasError
      /\ mechanism = NoMechanism /\ num_conversations = 0
      /\ sent = <<>> /\ status = "CR_OK" /\ result = "pending"
  BY DEF ReadHandshake, WriteEmpty, Opened, Opening, Loop, Indices, Failing, HasError
<1>2. UNCHANGED <<mechanism, num_conversations, conversations, sent, result>>
  BY DEF ReadHandshake, WriteEmpty
<1>3. \/ pc' = "test" /\ \E text \in PluginErrors \ {"none"} : SetError(text)
      \/ pc' \in {"greet", "open"} /\ UNCHANGED <<status, error_msg>>
  BY DEF ReadHandshake, WriteEmpty, PluginErrors
<1>4. /\ Indices' = {} /\ Failing' = {}
      /\ HasError' <=> status' = "CR_ERROR"
  BY <1>1, <1>2, SameConversations
<1>5. /\ status' \in {"CR_OK", "CR_ERROR"}
      /\ error_msg' \in (0 .. MaxConversations) \X (PluginErrors \cup ConversationErrors)
      /\ pc' = "test" => status' = "CR_ERROR"
      /\ pc' # "test" => status' = "CR_OK"
  BY <1>1, <1>3, SetErrorEffect DEF TypeOK
<1>6. TypeOK'
  BY <1>1, <1>2, <1>3, <1>4, <1>5 DEF TypeOK
<1>7. Opened' /\ Loop'
  BY <1>1, <1>2, <1>3, <1>5 DEF Opened, Opening, Loop
<1>8. Told' /\ Buffered'
  BY <1>4 DEF Told, Buffered
<1>9. ErrorHasMessage'
  BY <1>1, <1>2, <1>3, <1>4, SetErrorKeepsMessage DEF ErrorHasMessage
<1>10. Lockstep' /\ LockstepPayloads'
  BY <1>1, <1>2, <1>4 DEF Lockstep, LockstepPayloads, WritesClientMessages
<1> QED
  BY <1>6, <1>7, <1>8, <1>9, <1>10

(* The conversations are created unfinished and with nothing in a buffer. *)
LEMMA OpenStep ==
  ASSUME IInv, OpenConversations
  PROVE  IInv'
<1> USE DEF IInv
<1>1. /\ Indices = {} /\ Failing = {} /\ ~HasError
      /\ mechanism = NoMechanism /\ num_conversations = 0
      /\ sent = <<>> /\ status = "CR_OK" /\ result = "pending"
      /\ error_msg = NoError
  BY DEF OpenConversations, Opened, Opening, Loop, Indices, Failing, HasError,
         ErrorHasMessage
<1>2. pc' = "test" /\ UNCHANGED <<sent, result>>
  BY DEF OpenConversations
<1>3. CASE SetError("open") /\ UNCHANGED <<mechanism, num_conversations, conversations>>
  <2>1. /\ Indices' = {} /\ Failing' = {}
        /\ HasError' <=> status' = "CR_ERROR"
    BY <1>1, <1>3, SameConversations
  <2>2. /\ status' = "CR_ERROR" /\ ErrorHasMessage'
        /\ error_msg' \in (0 .. MaxConversations) \X (PluginErrors \cup ConversationErrors)
    BY <1>1, <1>3, SetErrorEffect, SetErrorKeepsMessage DEF PluginErrors
  <2>3. TypeOK'
    BY <1>1, <1>2, <1>3, <2>1, <2>2 DEF TypeOK
  <2>4. Opened' /\ Loop'
    BY <1>1, <1>2, <2>2 DEF Opened, Opening, Loop
  <2>5. Told' /\ Buffered' /\ Lockstep' /\ LockstepPayloads'
    BY <1>1, <1>2, <2>1 DEF Told, Buffered, Lockstep, LockstepPayloads, WritesClientMessages
  <2> QED
    BY <2>2, <2>3, <2>4, <2>5
<1>4. ASSUME NEW m \in Mechanisms, NEW n \in 0 .. MaxConversations,
             NEW failed \in SUBSET (1 .. n),
             mechanism' = m, num_conversations' = n,
             conversations' = [c \in 1 .. n |-> ConversationInit(c \in failed)],
             UNCHANGED <<status, error_msg>>
      PROVE  IInv'
  <2>1. Indices' = 1 .. n
    BY <1>4 DEF Indices
  <2>2. \A c \in 1 .. n : ConversationInit(c \in failed) \in Conversation
    BY DEF ConversationInit, Conversation, ConversationErrors
  <2>3. conversations' \in [Indices' -> Conversation]
    BY <1>4, <2>1, <2>2
  <2>4. \A c \in Indices' : /\ conversations'[c].done = FALSE
                            /\ conversations'[c].step = 0
                            /\ conversations'[c].buf_len = 0
                            /\ conversations'[c].cap = 0
    BY <1>4, <2>1 DEF ConversationInit
  <2>5. TypeOK'
    BY <1>1, <1>2, <1>4, <2>1, <2>3 DEF TypeOK
  <2>6. m # NoMechanism
    BY ConstantsAssumption DEF NoMechanism
  <2>7. Opened' /\ Loop'
    BY <1>1, <1>2, <1>4, <2>6 DEF Opened, Opening, Loop
  <2>8. Told' /\ Buffered'
    BY <1>2, <2>4 DEF Told, Buffered
  <2>9. ErrorHasMessage'
    BY <1>1, <1>4 DEF ErrorHasMessage, NoError
  <2>10. Lockstep'
    BY <2>4 DEF Lockstep
  <2>11. LockstepPayloads'
    BY <1>1, <1>2 DEF LockstepPayloads, WritesClientMessages
  <2> QED
    BY <2>5, <2>7, <2>8, <2>9, <2>10, <2>11
<1>5. \/ SetError("open") /\ UNCHANGED <<mechanism, num_conversations, conversations>>
      \/ \E m \in Mechanisms, n \in 0 .. MaxConversations : \E failed \in SUBSET (1 .. n) :
           /\ mechanism' = m /\ num_conversations' = n
           /\ conversations' = [c \in 1 .. n |-> ConversationInit(c \in failed)]
           /\ UNCHANGED <<status, error_msg>>
  <2>1. \A m, n : (IF m = "GSSAPI" /\ "init" \in Faults THEN 1 .. n ELSE {}) \subseteq 1 .. n
    OBVIOUS
  <2>2. \A S, T : S \subseteq T => SUBSET S \subseteq SUBSET T
    OBVIOUS
  <2> QED
    BY <2>1, <2>2, Zenon DEF OpenConversations
<1> QED
  BY <1>3, <1>4, <1>5

(* The loop condition: a conversation's error is adopted, nothing else. *)
LEMMA TestStep ==
  ASSUME IInv, TestDone
  PROVE  IInv'
<1> USE DEF IInv
<1>1. /\ pc = "test" /\ AdoptError
      /\ pc' = IF IsDone THEN "finish" ELSE "step"
      /\ UNCHANGED <<mechanism, num_conversations, conversations, sent, result>>
  BY DEF TestDone
<1>2. /\ Indices' = Indices /\ Failing' = Failing /\ AllDone' = AllDone
      /\ ErrorHasMessage' /\ (HasError' <=> HasError)
      /\ IsDone' <=> IsDone
  BY <1>1, SameConversations, AdoptKeepsMessage DEF IsDone
<1>3. /\ status' = IF HasError THEN "CR_ERROR" ELSE "CR_OK"
      /\ error_msg' \in (0 .. MaxConversations) \X (PluginErrors \cup ConversationErrors)
  BY <1>1, AdoptErrorEffect
<1>4. TypeOK'
  BY <1>1, <1>2, <1>3 DEF TypeOK
<1>5. Opened'
  BY <1>1, <1>3 DEF Opened, Opening, HasError
<1>6. Loop'
  BY <1>1, <1>2, <1>3 DEF Loop, IsDone, HasError
<1>7. Told' /\ Buffered'
  BY <1>1, <1>2 DEF Told, Buffered
<1>8. Lockstep' /\ LockstepPayloads'
  BY <1>1, <1>2 DEF Lockstep, LockstepPayloads, WritesClientMessages
<1> QED
  BY <1>2, <1>4, <1>5, <1>6, <1>7, <1>8

(* Every conversation takes a step; without GSSAPI none was done before. *)
LEMMA StepStep ==
  ASSUME IInv, Step
  PROVE  IInv'
<1> USE DEF IInv
<1>1. /\ pc = "step" /\ pc' = "write" /\ ~HasError /\ ~AllDone
      /\ status = "CR_OK" /\ Failing = {} /\ result = "pending"
      /\ mechanism # NoMechanism
  BY DEF Step, Loop, IsDone, HasError, TypeOK, Opened, Opening
<1>2. PICK answers \in [Indices -> Answers] : conversations' = StepConversations(answers)
  BY <1>1 DEF Step
<1>3. UNCHANGED <<mechanism, num_conversations, status, error_msg, sent, result>>
  BY <1>1 DEF Step, AdoptError
<1>4. Indices' = Indices
  BY <1>3 DEF Indices
<1>5. \A c \in Indices :
        /\ conversations'[c] = ConversationStep(conversations[c], answers[c])
        /\ conversations[c] \in Conversation /\ answers[c] \in Answers
        /\ conversations[c].status = "CR_OK"
        /\ conversations[c].buf_len <= conversations[c].cap
  <2>1. \A c \in Indices : conversations[c] \in Conversation /\ answers[c] \in Answers
    BY <1>2 DEF TypeOK
  <2>2. \A c \in Indices : conversations[c].status = "CR_OK"
    BY <1>1, <2>1 DEF Failing, Conversation
  <2> QED
    BY <1>1, <1>2, <2>1, <2>2 DEF StepConversations, Buffered
<1>6. \A c \in Indices : conversations'[c] \in Conversation
  BY <1>5, ConversationStepType
<1>7. HasError' \/ \A c \in Indices : conversations'[c].status = "CR_OK"
  BY <1>4, <1>6 DEF HasError, Failing, Conversation
<1>8. TypeOK'
  <2>1. conversations' \in [Indices -> Conversation]
    BY <1>2, <1>5, <1>6 DEF StepConversations
  <2> QED
    BY <1>1, <1>3, <1>4, <2>1 DEF TypeOK
<1>9. Opened' /\ Loop'
  BY <1>1, <1>3 DEF Opened, Opening, Loop
<1>10. Told'
  BY <1>1 DEF Told
<1>11. mechanism # "GSSAPI" => \A c \in Indices : ~conversations[c].done
  BY <1>1 DEF Lockstep, AllDone
<1>12. Buffered'
  <2> SUFFICES ASSUME ~HasError', NEW c \in Indices
               PROVE  /\ conversations'[c].buf_len <= conversations'[c].cap
                      /\ mechanism # "GSSAPI" => conversations'[c].buf = "client"
    BY <1>3, <1>4 DEF Buffered
  <2> QED
    BY <1>5, <1>7, <1>11, ConversationStepOutput
<1>13. ErrorHasMessage'
  BY <1>1, <1>3 DEF ErrorHasMessage, NoError
<1>14. Lockstep'
  <2> SUFFICES ASSUME mechanism # "GSSAPI", ~HasError', NEW c \in Indices, NEW d \in Indices
               PROVE  /\ conversations'[c].step = conversations'[d].step
                      /\ conversations'[c].done = conversations'[d].done
    BY <1>3, <1>4 DEF Lockstep
  <2>1. /\ conversations[c].step = conversations[d].step
        /\ conversations[c].done = conversations[d].done
    BY <1>1 DEF Lockstep
  <2> QED
    BY <1>5, <1>7, <2>1, ConversationStepLockstep
<1>15. LockstepPayloads'
  BY <1>3 DEF LockstepPayloads, WritesClientMessages
<1> QED
  BY <1>8, <1>9, <1>10, <1>12, <1>13, <1>14, <1>15

(* A payload is written only without an error, and then reports every        *)
(* conversation as it is.                                                    *)
LEMMA WriteStep ==
  ASSUME IInv, WritePayload
  PROVE  IInv'
<1> USE DEF IInv
<1>1. /\ pc = "write" /\ pc' = "read"
      /\ UNCHANGED <<mechanism, num_conversations, conversations, result>>
  BY DEF WritePayload
<1>2. /\ Indices' = Indices /\ Failing' = Failing
      /\ HasError' <=> (status' = "CR_ERROR" \/ Failing # {})
  BY <1>1, SameConversations
<1>3. CASE UNCHANGED sent /\ ((HasError /\ AdoptError) \/ (~HasError /\ SetError("write")))
  <2>1. ErrorHasMessage' /\ HasError' /\ status' = "CR_ERROR"
    BY <1>1, <1>3, AdoptErrorEffect, AdoptKeepsMessage, SetErrorEffect, SetErrorKeepsMessage
    DEF PluginErrors
  <2>2. error_msg' \in (0 .. MaxConversations) \X (PluginErrors \cup ConversationErrors)
    BY <1>3, AdoptErrorEffect, SetErrorEffect DEF PluginErrors
  <2>3. TypeOK'
    BY <1>1, <1>2, <1>3, <2>1, <2>2 DEF TypeOK
  <2>4. Opened' /\ Loop'
    BY <1>1, <2>1 DEF Opened, Opening, Loop
  <2>5. Told' /\ Buffered' /\ Lockstep'
    BY <2>1 DEF Told, Buffered, Lockstep
  <2>6. LockstepPayloads'
    BY <1>1, <1>3 DEF LockstepPayloads, WritesClientMessages
  <2> QED
    BY <2>1, <2>3, <2>4, <2>5, <2>6
<1>4. CASE ~HasError /\ sent' = Frames /\ UNCHANGED <<status, error_msg>>
  <2>1. \A c \in Indices : conversations[c] \in Conversation
    BY DEF TypeOK
  <2>2. DOMAIN sent' = Indices /\ sent' \in [Indices -> Frame]
    BY <1>4, <2>1 DEF Frames, Frame, Conversation
  <2>3. \A c \in Indices : /\ sent'[c].done = conversations[c].done
                           /\ sent'[c].from = conversations[c].buf
    BY <1>4 DEF Frames
  <2>4. TypeOK'
    BY <1>1, <1>2, <1>4, <2>2 DEF TypeOK
  <2>5. Opened' /\ Loop'
    BY <1>1, <1>4 DEF Opened, Opening, Loop
  <2>6. Told'
    BY <1>1, <1>2, <2>2, <2>3 DEF Told
  <2>7. Buffered'
    BY <1>1, <1>2, <1>4 DEF Buffered, HasError
  <2>8. ErrorHasMessage'
    BY <1>1, <1>2, <1>4 DEF ErrorHasMessage, NoError
  <2>9. Lockstep'
    BY <1>1, <1>2, <1>4 DEF Lockstep, HasError
  <2>10. LockstepPayloads'
    BY <1>1, <1>4, <2>2, <2>3 DEF LockstepPayloads, WritesClientMessages, Buffered
  <2> QED
    BY <2>4, <2>5, <2>6, <2>7, <2>8, <2>9, <2>10
<1>5. \/ UNCHANGED sent /\ ((HasError /\ AdoptError) \/ (~HasError /\ SetError("write")))
      \/ ~HasError /\ sent' = Frames /\ UNCHANGED <<status, error_msg>>
  BY DEF WritePayload
<1> QED
  BY <1>3, <1>4, <1>5

(* What taking or refusing a frame does to a conversation. *)
LEMMA AcceptType ==
  ASSUME NEW conv \in Conversation, NEW size \in Nat
  PROVE  /\ Accept(conv, size) \in Conversation
         /\ Accept(conv, size).done = conv.done
         /\ Accept(conv, size).step = conv.step
         /\ Accept(conv, size).status = conv.status
         /\ Accept(conv, size).buf_len <= Accept(conv, size).cap
<1>1. Accept(conv, size) \in Conversation
  BY DEF Accept, Conversation
<1>2. /\ Accept(conv, size).done = conv.done
      /\ Accept(conv, size).step = conv.step
      /\ Accept(conv, size).status = conv.status
  BY DEF Accept, Conversation
<1>3. Accept(conv, size).buf_len = size /\ Accept(conv, size).cap = size
  BY DEF Accept, Conversation
<1> QED
  BY <1>1, <1>2, <1>3

(* A frame that is refused leaves what its conversation has reached. *)
LEMMA RefuseType ==
  ASSUME NEW conv \in Conversation, NEW size \in Nat
  PROVE  /\ Refuse(conv, size) \in Conversation
         /\ Refuse(conv, size).done = conv.done
         /\ Refuse(conv, size).step = conv.step
         /\ Refuse(conv, size).status = conv.status
BY DEF Refuse, Conversation

(* Frames go into buffers; what a conversation has reached stays.  A frame   *)
(* that is rejected leaves an error.                                         *)
LEMMA DistributeEffect ==
  ASSUME TypeOK, ~HasError, UNCHANGED num_conversations,
         NEW sizes \in [Indices -> FrameSizes], NEW lost \in SUBSET Indices,
         Distribute(sizes, lost)
  PROVE  /\ conversations' \in [Indices -> Conversation]
         /\ \A c \in Indices : /\ conversations'[c].done = conversations[c].done
                               /\ conversations'[c].step = conversations[c].step
                               /\ conversations'[c].status = conversations[c].status
         /\ \/ /\ UNCHANGED <<status, error_msg>>
               /\ \A c \in Indices : conversations'[c].buf_len <= conversations'[c].cap
            \/ \E text \in PluginErrors \ {"none"} : SetError(text)
<1> DEFINE rejected == Rejected(sizes, lost)
           bad == IF rejected = {} THEN num_conversations + 1
                  ELSE CHOOSE c \in rejected : \A d \in rejected : c <= d
<1>1. rejected \subseteq Indices /\ Indices \subseteq Nat
  BY DEF Rejected, Indices, TypeOK
<1>2. bad \in Nat /\ (rejected = {} => \A c \in Indices : c < bad)
  <2>1. CASE rejected = {}
    BY <2>1 DEF Indices, TypeOK
  <2>2. CASE rejected # {}
    <3>1. \E c \in rejected : \A d \in rejected : c <= d
      BY <1>1, <2>2, LeastExists
    <3> QED
      BY <1>1, <2>2, <3>1
  <2> QED
    BY <2>1, <2>2
<1>3. conversations' = Receive(sizes, bad)
  BY Zenon DEF Distribute
<1>4. IF rejected = {} THEN UNCHANGED <<status, error_msg>>
      ELSE SetError(IF TooLarge(sizes[bad]) THEN "size" ELSE "alloc")
  BY Zenon DEF Distribute
<1> HIDE DEF rejected, bad
<1>5. \A c \in Indices : conversations[c] \in Conversation /\ sizes[c] \in Nat
  BY ConstantsAssumption DEF TypeOK
<1>6. ASSUME NEW c \in Indices
      PROVE  /\ conversations'[c] \in Conversation
             /\ conversations'[c].done = conversations[c].done
             /\ conversations'[c].step = conversations[c].step
             /\ conversations'[c].status = conversations[c].status
             /\ c < bad => conversations'[c].buf_len <= conversations'[c].cap
  <2>1. conversations'[c] = IF c < bad THEN Accept(conversations[c], sizes[c])
                            ELSE IF c = bad THEN Refuse(conversations[c], sizes[c])
                            ELSE conversations[c]
    BY <1>3 DEF Receive
  <2>2. CASE c < bad
    BY <1>5, <2>1, <2>2, AcceptType
  <2>3. CASE ~(c < bad) /\ c = bad
    BY <1>5, <2>1, <2>3, RefuseType
  <2>4. CASE ~(c < bad) /\ c # bad
    BY <1>5, <2>1, <2>4
  <2> QED
    BY <2>2, <2>3, <2>4
<1>7. conversations' \in [Indices -> Conversation]
  BY <1>3, <1>6 DEF Receive
<1>8. \/ /\ UNCHANGED <<status, error_msg>>
         /\ \A c \in Indices : conversations'[c].buf_len <= conversations'[c].cap
      \/ \E text \in PluginErrors \ {"none"} : SetError(text)
  <2>1. CASE rejected = {}
    BY <1>2, <1>4, <1>6, <2>1
  <2>2. CASE rejected # {}
    BY <1>4, <2>2 DEF PluginErrors
  <2> QED
    BY <2>1, <2>2
<1> QED
  BY <1>6, <1>7, <1>8

(* A read changes buffers only, and may leave an error. *)
LEMMA ReadStep ==
  ASSUME IInv, ReadPayload
  PROVE  IInv'
<1> USE DEF IInv
<1>1. /\ pc = "read" /\ pc' = "test"
      /\ UNCHANGED <<mechanism, num_conversations, sent, result>>
  BY DEF ReadPayload
<1>2. Indices' = Indices
  BY <1>1 DEF Indices
<1>3. CASE AdoptError /\ UNCHANGED conversations
  <2>1. /\ Failing' = Failing /\ ErrorHasMessage' /\ (HasError' <=> HasError)
        /\ status' = IF HasError THEN "CR_ERROR" ELSE "CR_OK"
        /\ error_msg' \in (0 .. MaxConversations) \X (PluginErrors \cup ConversationErrors)
    BY <1>1, <1>3, SameConversations, AdoptKeepsMessage, AdoptErrorEffect
  <2>2. TypeOK'
    BY <1>1, <1>2, <1>3, <2>1 DEF TypeOK
  <2>3. Opened' /\ Loop'
    BY <1>1, <2>1 DEF Opened, Opening, Loop, HasError
  <2>4. Told' /\ Buffered' /\ Lockstep' /\ LockstepPayloads'
    BY <1>1, <1>2, <1>3, <2>1
    DEF Told, Buffered, Lockstep, LockstepPayloads, WritesClientMessages
  <2> QED
    BY <2>1, <2>2, <2>3, <2>4
<1>4. ASSUME ~HasError,
             conversations' \in [Indices -> Conversation],
             \A c \in Indices : /\ conversations'[c].done = conversations[c].done
                               /\ conversations'[c].step = conversations[c].step
                               /\ conversations'[c].status = conversations[c].status,
             \/ /\ UNCHANGED <<status, error_msg>>
                /\ \A c \in Indices : conversations'[c].buf_len <= conversations'[c].cap
             \/ \E text \in PluginErrors \ {"none"} : SetError(text)
      PROVE  IInv'
  <2>1. Failing = {} /\ Failing' = {} /\ status = "CR_OK" /\ error_msg = NoError
    BY <1>2, <1>4 DEF Failing, HasError, TypeOK, ErrorHasMessage
  <2>2. /\ status' \in {"CR_OK", "CR_ERROR"} /\ ErrorHasMessage'
        /\ error_msg' \in (0 .. MaxConversations) \X (PluginErrors \cup ConversationErrors)
        /\ HasError' <=> status' = "CR_ERROR"
        /\ HasError' \/ \A c \in Indices : conversations'[c].buf_len <= conversations'[c].cap
    <3>1. CASE UNCHANGED <<status, error_msg>>
      BY <1>4, <2>1, <3>1, SetErrorEffect DEF ErrorHasMessage, NoError, HasError, TypeOK
    <3>2. CASE \E text \in PluginErrors \ {"none"} : SetError(text)
      BY <1>4, <3>2, SetErrorEffect, SetErrorKeepsMessage DEF HasError
    <3> QED
      BY <1>4, <3>1, <3>2
  <2>3. TypeOK'
    BY <1>1, <1>2, <1>4, <2>2 DEF TypeOK
  <2>4. Opened' /\ Loop'
    BY <1>1, <2>1 DEF Opened, Opening, Loop
  <2>5. Told' /\ Lockstep'
    BY <1>1, <1>2, <1>4 DEF Told, Lockstep
  <2>6. Buffered'
    BY <1>1, <1>2, <2>2 DEF Buffered
  <2>7. LockstepPayloads'
    BY <1>1 DEF LockstepPayloads, WritesClientMessages
  <2> QED
    BY <2>2, <2>3, <2>4, <2>5, <2>6, <2>7
<1>5. CASE ~HasError /\ SetError("read") /\ UNCHANGED conversations
  <2>1. conversations \in [Indices -> Conversation]
    BY DEF TypeOK
  <2> QED
    BY <1>4, <1>5, <2>1 DEF PluginErrors
<1>6. ASSUME ~HasError, NEW sizes \in [Indices -> FrameSizes],
             NEW lost \in SUBSET Indices, Distribute(sizes, lost)
      PROVE  IInv'
  BY <1>1, <1>4, <1>6, DistributeEffect
<1>7. \/ AdoptError /\ UNCHANGED conversations
      \/ ~HasError /\ SetError("read") /\ UNCHANGED conversations
      \/ ~HasError /\ \E sizes \in [Indices -> FrameSizes], lost \in SUBSET Indices :
                        Distribute(sizes, lost)
  <2>1. SUBSET (IF "alloc" \in Faults THEN Indices ELSE {}) \subseteq SUBSET Indices
    OBVIOUS
  <2> QED
    BY <2>1, Zenon DEF ReadPayload, IsDone
<1> QED
  BY <1>3, <1>5, <1>6, <1>7

(* The plugin returns its status. *)
LEMMA FinishStep ==
  ASSUME IInv, Finish
  PROVE  IInv'
<1> USE DEF IInv
<1>1. /\ pc = "finish" /\ pc' = "returned" /\ result' = status
      /\ UNCHANGED <<mechanism, num_conversations, conversations, status, error_msg, sent>>
  BY DEF Finish
<1>2. /\ Indices' = Indices /\ Failing' = Failing /\ AllDone' = AllDone
      /\ HasError' <=> HasError
  BY <1>1, SameConversations DEF HasError
<1>3. TypeOK'
  BY <1>1, <1>2 DEF TypeOK
<1>4. Opened' /\ Loop'
  BY <1>1, <1>2 DEF Opened, Opening, Loop
<1>5. Told' /\ Buffered' /\ Lockstep' /\ LockstepPayloads'
  BY <1>1, <1>2 DEF Told, Buffered, Lockstep, LockstepPayloads, WritesClientMessages
<1>6. ErrorHasMessage'
  BY <1>1, <1>2 DEF ErrorHasMessage, NoError
<1> QED
  BY <1>3, <1>4, <1>5, <1>6

(* Nothing in the invariant can change when the variables do not. *)
LEMMA StutterStep ==
  ASSUME IInv, UNCHANGED vars
  PROVE  IInv'
BY DEF IInv, vars, TypeOK, Opened, Opening, Loop, IsDone, AllDone, Told, Buffered,
       HasError, Failing, Indices, ErrorHasMessage, NoError, Lockstep,
       LockstepPayloads, WritesClientMessages

(* IInv is an inductive invariant. *)
LEMMA IInvInductive == IInv /\ [Next]_vars => IInv'
<1> SUFFICES ASSUME IInv, [Next]_vars PROVE IInv'
  OBVIOUS
<1>1. CASE ReadHandshake
  BY <1>1, OpeningStep
<1>2. CASE WriteEmpty
  BY <1>2, OpeningStep
<1>3. CASE OpenConversations
  BY <1>3, OpenStep
<1>4. CASE TestDone
  BY <1>4, TestStep
<1>5. CASE Step
  BY <1>5, StepStep
<1>6. CASE WritePayload
  BY <1>6, WriteStep
<1>7. CASE ReadPayload
  BY <1>7, ReadStep
<1>8. CASE Finish
  BY <1>8, FinishStep
<1>9. CASE Returned
  BY <1>9, StutterStep DEF Returned
<1>10. CASE UNCHANGED vars
  BY <1>10, StutterStep
<1> QED
  BY <1>1, <1>2, <1>3, <1>4, <1>5, <1>6, <1>7, <1>8, <1>9, <1>10 DEF Next

---------------------------------------------------------------------------
(* The inductive invariant holds in every reachable state. *)
THEOREM Invariance == Spec => []IInv
BY InitIInv, IInvInductive, PTL DEF Spec

(* The state of the plugin is well typed, for any number of conversations    *)
(* (mongosql-auth.c, mongosql-auth-conversation.c).                          *)
THEOREM TypeCorrect == Spec => []TypeOK
<1>1. IInv => TypeOK
  BY DEF IInv
<1> QED
  BY <1>1, Invariance, PTL

(* CR_OK is returned only after every conversation succeeded and the server  *)
(* has been told that it is done (mongosql_auth).                            *)
THEOREM OkIsComplete == Spec => []OkMeansComplete
<1>1. IInv => OkMeansComplete
  <2> SUFFICES ASSUME IInv, result = "CR_OK" PROVE OkMeansComplete
    BY DEF OkMeansComplete
  <2>1. pc = "returned" /\ status = "CR_OK" /\ Failing = {} /\ AllDone
    BY DEF IInv, Loop
  <2>2. ~HasError
    BY <2>1 DEF HasError
  <2>3. mechanism # NoMechanism
    BY <2>1 DEF IInv, Opened, Opening
  <2>4. \A c \in Indices : c \in DOMAIN sent /\ sent[c].done
    BY <2>1, <2>2 DEF IInv, Told, AllDone
  <2> QED
    BY <2>1, <2>3, <2>4 DEF OkMeansComplete
<1> QED
  BY <1>1, Invariance, PTL

(* An error always has the message of what failed first (set_error,          *)
(* has_error).                                                               *)
THEOREM ErrorsAreNamed == Spec => []ErrorHasMessage
<1>1. IInv => ErrorHasMessage
  BY DEF IInv
<1> QED
  BY <1>1, Invariance, PTL

(* A buffer that a step or a write reads is as long as it says               *)
(* (read_payload).                                                           *)
THEOREM BuffersAreWhole == Spec => []BuffersFit
<1>1. IInv => BuffersFit
  BY DEF IInv, BuffersFit, Buffered
<1> QED
  BY <1>1, Invariance, PTL

(* The conversations of SCRAM and PLAIN never drift apart (step). *)
THEOREM NoDrift == Spec => []Lockstep
<1>1. IInv => Lockstep
  BY DEF IInv
<1> QED
  BY <1>1, Invariance, PTL

(* Without GSSAPI every frame written was composed by the client             *)
(* (write_payload).                                                          *)
THEOREM OwnMessages == Spec => []LockstepPayloads
<1>1. IInv => LockstepPayloads
  BY DEF IInv
<1> QED
  BY <1>1, Invariance, PTL

---------------------------------------------------------------------------
(* What a step may never do *)

(* Once an error is known neither the status nor the message changes         *)
(* (set_error and has_error keep the first).                                 *)
THEOREM FirstErrorStays == Spec => FirstErrorSticks
<1>1. ASSUME [Next]_vars, status = "CR_ERROR"
      PROVE  UNCHANGED <<status, error_msg>>
  <2> USE <1>1
  <2>1. HasError
    BY DEF HasError
  <2>2. \A text : SetError(text) => UNCHANGED <<status, error_msg>>
    BY <2>1 DEF SetError, AdoptError
  <2>3. AdoptError => UNCHANGED <<status, error_msg>>
    BY DEF AdoptError
  <2>4. CASE ReadHandshake \/ WriteEmpty \/ OpenConversations
    BY <2>2, <2>4 DEF ReadHandshake, WriteEmpty, OpenConversations
  <2>5. CASE TestDone \/ Step
    BY <2>3, <2>5 DEF TestDone, Step
  <2>6. CASE WritePayload \/ ReadPayload
    BY <2>1, <2>3, <2>6 DEF WritePayload, ReadPayload, IsDone
  <2>7. CASE Finish \/ Returned \/ UNCHANGED vars
    BY <2>7 DEF Finish, Returned, vars
  <2> QED
    BY <2>4, <2>5, <2>6, <2>7 DEF Next
<1>2. [Next]_vars => [status = "CR_ERROR" => UNCHANGED <<status, error_msg>>]_vars
  BY <1>1
<1> QED
  BY <1>2, PTL DEF Spec, FirstErrorSticks

(* The plugin reads a payload only when its own last one left a conversation *)
(* unfinished (read_payload, is_done).                                       *)
THEOREM ReadsAreOwed == Spec => ReadsOnlyWhatIsOwed
<1>1. ASSUME IInv, [Next]_vars, pc = "read", conversations' # conversations
      PROVE  \E c \in DOMAIN sent : ~sent[c].done
  <2>1. ReadPayload
    BY <1>1 DEF Next, ReadHandshake, WriteEmpty, OpenConversations, TestDone, Step,
                WritePayload, Finish, Returned, vars
  <2>2. ~HasError /\ ~AllDone
    BY <1>1, <2>1 DEF ReadPayload, IsDone
  <2>3. PICK c \in Indices : ~conversations[c].done
    BY <2>2 DEF AllDone
  <2>4. c \in DOMAIN sent /\ sent[c].done = conversations[c].done
    BY <1>1, <2>2 DEF IInv, Told
  <2> QED
    BY <2>3, <2>4
<1>2. IInv /\ [Next]_vars =>
        [pc = "read" /\ conversations' # conversations =>
           \E c \in DOMAIN sent : ~sent[c].done]_vars
  BY <1>1
<1> QED
  BY <1>2, Invariance, PTL DEF Spec, ReadsOnlyWhatIsOwed

(* A conversation that finished or failed is never taken up again            *)
(* (conversation_step).                                                      *)
LEMMA DoneStep ==
  ASSUME IInv, [Next]_vars, NEW c \in Indices,
         conversations[c].done \/ conversations[c].status = "CR_ERROR"
  PROVE  /\ conversations'[c].done = conversations[c].done
         /\ conversations'[c].status = conversations[c].status
         /\ conversations'[c].step = conversations[c].step
<1>1. CASE UNCHANGED conversations
  BY <1>1
<1>2. CASE OpenConversations
  <2>1. Indices = {}
    BY <1>2 DEF IInv, Opened, Opening, OpenConversations, Indices
  <2> QED
    BY <2>1
<1>3. CASE Step /\ conversations' # conversations
  <2>1. PICK answers \in [Indices -> Answers] : conversations' = StepConversations(answers)
    BY <1>3 DEF Step
  <2>2. conversations[c] \in Conversation /\ answers[c] \in Answers
    BY <2>1 DEF IInv, TypeOK
  <2>3. conversations'[c] = conversations[c]
    BY <2>1, <2>2, ConversationStepDone DEF StepConversations
  <2> QED
    BY <2>3
<1>4. CASE ReadPayload /\ conversations' # conversations
  <2>1. TypeOK /\ UNCHANGED num_conversations
    BY <1>4 DEF IInv, ReadPayload
  <2>2. SUBSET (IF "alloc" \in Faults THEN Indices ELSE {}) \subseteq SUBSET Indices
    OBVIOUS
  <2>3. ~HasError /\ \E sizes \in [Indices -> FrameSizes], lost \in SUBSET Indices :
                       Distribute(sizes, lost)
    BY <1>4, <2>2, Zenon DEF ReadPayload, IsDone
  <2> QED
    BY <2>1, <2>3, DistributeEffect
<1> QED
  BY <1>1, <1>2, <1>3, <1>4 DEF Next, ReadHandshake, WriteEmpty, TestDone, WritePayload,
                              Finish, Returned, vars

(* What a conversation has reached is kept until mongosql_auth returns: the  *)
(* theorem of DoneIsFinal (conversation_step returns early when it is done). *)
THEOREM FinishedStaysFinished == Spec => DoneIsFinal
<1>1. IInv /\ [Next]_vars =>
        [\A c \in Indices :
           conversations[c].done \/ conversations[c].status = "CR_ERROR" =>
             /\ conversations'[c].done = conversations[c].done
             /\ conversations'[c].status = conversations[c].status
             /\ conversations'[c].step = conversations[c].step]_vars
  BY DoneStep
<1> QED
  BY <1>1, Invariance, PTL DEF Spec, DoneIsFinal

---------------------------------------------------------------------------
(* What the errors are owed to *)

(* How far a conversation is: SCRAM ends at its third step, GSSAPI in its    *)
(* last state, and one without an error has no message.                      *)
ConversationProgress(conv) ==
  /\ mechanism = "SCRAM" => conv.step <= 3
  /\ mechanism = "SCRAM" /\ conv.step = 3 => conv.done \/ conv.status = "CR_ERROR"
  /\ conv.state = "SASL_DONE" => conv.done
  /\ conv.status = "CR_OK" => conv.error_msg = "none"

Caused ==
  /\ ErrorHasCause
  /\ \A c \in Indices : ConversationProgress(conversations[c])

(* A conversation that fails for a reason that is not its own. *)
LEMMA SetErrorFields ==
  ASSUME NEW conv \in Conversation, conv.status = "CR_OK", NEW text \in ConversationErrors
  PROVE  /\ ConversationSetError(conv, text).error_msg = text
         /\ ConversationSetError(conv, text).status = "CR_ERROR"
         /\ ConversationSetError(conv, text).step = conv.step
         /\ ConversationSetError(conv, text).done = conv.done
         /\ ConversationSetError(conv, text).state = conv.state
BY DEF ConversationSetError, Conversation

(* A step fails only when the mechanism refuses what the server sent. *)
LEMMA ConversationStepCause ==
  ASSUME NEW conv \in Conversation, NEW answer \in Answers,
         ConversationErrorHasCause(conv), ConversationProgress(conv)
  PROVE  /\ ConversationErrorHasCause(ConversationStep(conv, answer))
         /\ ConversationProgress(ConversationStep(conv, answer))
<1> USE DEF ConversationErrorHasCause, ConversationProgress
<1>0. /\ answer.verdict = "error" => "step" \in Faults
      /\ answer.len \in Nat /\ answer.cap \in Nat
  BY DEF Answers
<1>1. CASE conv.done \/ conv.status = "CR_ERROR"
  BY <1>1, ConversationStepDone
<1>2. CASE ~conv.done /\ conv.status = "CR_OK"
  <2>1. CASE mechanism = "SCRAM"
    <3> DEFINE out == Output(conv, IF conv.step + 1 = 3 THEN 0 ELSE 1, 1)
               next == [out EXCEPT !.step = conv.step + 1]
               last == [next EXCEPT !.done = (conv.step + 1 = 3)]
    <3>1. conv.step \in Nat /\ conv.step + 1 <= 3
      BY <1>2, <2>1 DEF Conversation
    <3>2. /\ out \in Conversation /\ out.done = FALSE /\ out.status = "CR_OK"
          /\ out.state = conv.state /\ out.error_msg = "none"
      BY <1>2 DEF Output, Conversation
    <3>3. /\ next \in Conversation /\ next.done = FALSE /\ next.status = "CR_OK"
          /\ next.state = conv.state /\ next.error_msg = "none" /\ next.step = conv.step + 1
      <4> HIDE DEF out
      <4> QED BY <3>1, <3>2 DEF Conversation
    <3>4. /\ last.status = "CR_OK" /\ last.done = (next.step = 3)
          /\ last.state = conv.state /\ last.error_msg = "none" /\ last.step = next.step
      <4> HIDE DEF next
      <4> QED BY <3>3 DEF Conversation
    <3>5. ConversationStep(conv, answer) = IF answer.verdict = "error"
                                           THEN ConversationSetError(next, "scram") ELSE last
      <4>1. ConversationStep(conv, answer) =
              IF answer.verdict = "error" \/ conv.step + 1 > 3
              THEN ConversationSetError(next, "scram") ELSE last
        BY <1>2, <2>1, Zenon DEF ConversationStep, ScramStep
      <4>2. ~(conv.step + 1 > 3)
        BY <3>1
      <4> QED BY <4>1, <4>2
    <3> HIDE DEF next, last
    <3>6. CASE answer.verdict = "error"
      <4>1. "scram" \in ConversationErrors
        BY DEF ConversationErrors
      <4> QED BY <1>0, <1>2, <2>1, <3>1, <3>3, <3>5, <3>6, <4>1, SetErrorFields
    <3>7. CASE answer.verdict # "error"
      BY <1>2, <2>1, <3>1, <3>3, <3>4, <3>5, <3>7
    <3> QED BY <3>6, <3>7
  <2>2. CASE mechanism = "PLAIN"
    <3>1. ConversationStep(conv, answer) = [Output(conv, 1, 1) EXCEPT !.done = TRUE]
      BY <1>2, <2>2 DEF ConversationStep, PlainStep
    <3>2. /\ ConversationStep(conv, answer).status = "CR_OK"
          /\ ConversationStep(conv, answer).error_msg = "none"
          /\ ConversationStep(conv, answer).done = TRUE
      BY <1>2, <3>1 DEF Output, Conversation
    <3> QED BY <2>2, <3>2
  <2>3. CASE mechanism = "GSSAPI"
    <3> DEFINE next == [Output(conv, answer.len, answer.cap) EXCEPT !.step = @ + 1]
    <3>1. /\ next.status = "CR_OK" /\ next.error_msg = "none"
          /\ next.state = conv.state /\ next.done = FALSE
      BY <1>2 DEF Output, Conversation
    <3>2. conv.state # "SASL_DONE"
      BY <1>2
    <3>3. CASE answer.verdict = "error"
      <4>1. ConversationStep(conv, answer) = ConversationSetError(conv, "sasl")
        BY <1>2, <2>3, <3>3 DEF ConversationStep, SaslStep
      <4>2. "sasl" \in ConversationErrors
        BY DEF ConversationErrors
      <4> QED BY <1>0, <1>2, <2>3, <3>2, <3>3, <4>1, <4>2, SetErrorFields
    <3>4. CASE answer.verdict # "error"
      <4>1. ConversationStep(conv, answer) \in
              {next, [next EXCEPT !.state = "SASL_CONTEXT_COMPLETE"],
               [next EXCEPT !.state = "SASL_DONE", !.done = TRUE]}
        BY <1>2, <2>3, <3>2, <3>4 DEF ConversationStep, SaslStep, Conversation
      <4>2. next \in Conversation
        <5> DEFINE out == Output(conv, answer.len, answer.cap)
        <5>1. out \in Conversation
          BY <1>0, OutputType
        <5> HIDE DEF out
        <5>2. out.step + 1 \in Nat
          BY <5>1 DEF Conversation
        <5>3. [out EXCEPT !.step = @ + 1] \in Conversation
          BY <5>1, <5>2, UpdateTypes
        <5> QED BY <5>3 DEF out
      <4> HIDE DEF next
      <4>3. /\ ConversationStep(conv, answer).status = "CR_OK"
            /\ ConversationStep(conv, answer).error_msg = "none"
            /\ ConversationStep(conv, answer).state = "SASL_DONE" =>
                 ConversationStep(conv, answer).done
        BY <3>1, <3>2, <4>1, <4>2 DEF Conversation
      <4> QED BY <2>3, <4>3
    <3> QED BY <3>3, <3>4
  <2>4. CASE mechanism \notin {"SCRAM", "PLAIN", "GSSAPI"}
    <3>1. ConversationStep(conv, answer) = ConversationSetError(conv, "unsupported")
      BY <1>2, <2>4 DEF ConversationStep
    <3>2. "unsupported" \in ConversationErrors
      BY DEF ConversationErrors
    <3> QED BY <1>2, <2>4, <3>1, <3>2, SetErrorFields
  <2> QED BY <2>1, <2>2, <2>3, <2>4
<1> QED
  BY <1>1, <1>2 DEF Conversation

(* A frame changes the buffer of its conversation only. *)
LEMMA FrameFields ==
  ASSUME NEW conv \in Conversation, NEW size \in Nat, NEW next,
         next \in {Accept(conv, size), Refuse(conv, size), conv}
  PROVE  /\ next.error_msg = conv.error_msg /\ next.step = conv.step
         /\ next.done = conv.done /\ next.state = conv.state /\ next.status = conv.status
<1>1. /\ Accept(conv, size).error_msg = conv.error_msg /\ Accept(conv, size).step = conv.step
      /\ Accept(conv, size).done = conv.done /\ Accept(conv, size).state = conv.state
      /\ Accept(conv, size).status = conv.status
  BY DEF Accept, Conversation
<1>2. /\ Refuse(conv, size).error_msg = conv.error_msg /\ Refuse(conv, size).step = conv.step
      /\ Refuse(conv, size).done = conv.done /\ Refuse(conv, size).state = conv.state
      /\ Refuse(conv, size).status = conv.status
  BY DEF Refuse, Conversation
<1> QED BY <1>1, <1>2

(* A frame that is refused is too large, or there is no memory for it, or it *)
(* is empty where realloc frees.                                             *)
LEMMA DistributeCause ==
  ASSUME IInv, ~HasError, Caused, UNCHANGED <<mechanism, num_conversations>>,
         NEW sizes \in [Indices -> FrameSizes],
         NEW lost \in SUBSET (IF "alloc" \in Faults THEN Indices ELSE {}),
         Distribute(sizes, lost)
  PROVE  Caused'
<1> USE DEF IInv
<1> DEFINE rejected == Rejected(sizes, lost)
           bad == IF rejected = {} THEN num_conversations + 1
                  ELSE CHOOSE c \in rejected : \A d \in rejected : c <= d
<1>1. rejected \subseteq Indices /\ Indices \subseteq Nat
  BY DEF Rejected, Indices, TypeOK
<1>2. rejected # {} => bad \in rejected
  <2> SUFFICES ASSUME rejected # {} PROVE bad \in rejected
    OBVIOUS
  <2>1. \E c \in rejected : \A d \in rejected : c <= d
    BY <1>1, LeastExists
  <2> QED BY <2>1
<1>3. conversations' = Receive(sizes, bad)
  BY Zenon DEF Distribute
<1>4. IF rejected = {} THEN UNCHANGED <<status, error_msg>>
      ELSE SetError(IF TooLarge(sizes[bad]) THEN "size" ELSE "alloc")
  BY Zenon DEF Distribute
<1>5. \A c \in rejected : TooLarge(sizes[c]) \/ ReallocFails(c, sizes[c], lost)
  BY DEF Rejected
<1> HIDE DEF rejected, bad
<1>6. \A c \in Indices : conversations[c] \in Conversation /\ sizes[c] \in Nat
  BY ConstantsAssumption DEF TypeOK
<1>7. Indices' = Indices
  BY DEF Indices
<1>8. ASSUME NEW c \in Indices
      PROVE  /\ ConversationErrorHasCause(conversations[c])'
             /\ ConversationProgress(conversations[c])'
  <2>1. conversations'[c] \in {Accept(conversations[c], sizes[c]),
                               Refuse(conversations[c], sizes[c]), conversations[c]}
    BY <1>3 DEF Receive
  <2>2. /\ conversations'[c].error_msg = conversations[c].error_msg
        /\ conversations'[c].step = conversations[c].step
        /\ conversations'[c].done = conversations[c].done
        /\ conversations'[c].state = conversations[c].state
        /\ conversations'[c].status = conversations[c].status
    BY <1>6, <2>1, FrameFields
  <2>3. ConversationErrorHasCause(conversations[c]) /\ ConversationProgress(conversations[c])
    BY DEF Caused, ErrorHasCause
  <2>4. UNCHANGED mechanism
    OBVIOUS
  <2> QED BY <2>2, <2>3, <2>4 DEF ConversationErrorHasCause, ConversationProgress
<1>9. PluginErrorHasCause'
  <2>0. error_msg = NoError
    BY DEF HasError, ErrorHasMessage
  <2>1. CASE rejected = {}
    BY <1>4, <2>0, <2>1 DEF PluginErrorHasCause, NoError
  <2>2. CASE rejected # {}
    <3>1. bad \in rejected /\ bad \in Indices /\ sizes[bad] \in Nat
      BY <1>1, <1>2, <1>6, <2>2
    <3>2. conversations'[bad] = Refuse(conversations[bad], sizes[bad])
      BY <1>1, <1>3, <3>1 DEF Receive
    <3>3. conversations'[bad].buf_len = sizes[bad]
      BY <1>6, <3>1, <3>2 DEF Refuse, Conversation
    <3>4. error_msg' = <<0, IF TooLarge(sizes[bad]) THEN "size" ELSE "alloc">>
      BY <1>4, <2>2 DEF SetError
    <3>5. CASE TooLarge(sizes[bad])
      BY <1>7, <3>1, <3>3, <3>4, <3>5 DEF TooLarge, PluginErrorHasCause
    <3>6. CASE ~TooLarge(sizes[bad])
      <4>1. ReallocFails(bad, sizes[bad], lost)
        BY <1>5, <3>1, <3>6
      <4>2. "alloc" \in Faults \/ (ReallocZeroIsNull /\ conversations'[bad].buf_len = 0)
        BY <3>3, <4>1 DEF ReallocFails
      <4> QED BY <1>7, <3>1, <3>4, <3>6, <4>2 DEF PluginErrorHasCause
    <3> QED BY <3>5, <3>6
  <2> QED BY <2>1, <2>2
<1> QED
  BY <1>7, <1>8, <1>9 DEF Caused, ErrorHasCause

(* A handler that only sets an error names what failed, and one that adopts  *)
(* an error leaves the plugin's own message alone.                           *)
LEMMA QuietCause ==
  ASSUME IInv, Caused, UNCHANGED <<mechanism, num_conversations, conversations>>,
         \/ UNCHANGED error_msg
         \/ AdoptError
         \/ "read" \in Faults /\ \E text \in {"handshake", "open", "read"} : SetError(text)
         \/ "write" \in Faults /\ \E text \in {"greet", "write"} : SetError(text)
         \/ "version" \in Faults /\ SetError("version")
  PROVE  Caused'
<1>1. Indices' = Indices
  BY DEF Indices
<1>2. \A c \in Indices : /\ ConversationErrorHasCause(conversations[c])'
                         /\ ConversationProgress(conversations[c])'
  BY DEF Caused, ErrorHasCause, ConversationErrorHasCause, ConversationProgress
<1>3. \A c \in Indices : c # 0
  BY DEF Indices
<1>4. CASE UNCHANGED error_msg
  BY <1>1, <1>2, <1>4 DEF Caused, ErrorHasCause, PluginErrorHasCause
<1>5. CASE AdoptError
  <2>1. UNCHANGED error_msg \/ (Failing # {} /\ error_msg'[1] = FirstFailing)
    BY <1>5 DEF AdoptError
  <2>2. Failing # {} => FirstFailing \in Indices
    BY FirstFailingIsLeast DEF IInv, Failing
  <2> QED BY <1>3, <1>4, <2>1, <2>2, <1>1, <1>2 DEF Caused, ErrorHasCause, PluginErrorHasCause
<1>6. ASSUME NEW text, SetError(text), ~UNCHANGED error_msg, ~AdoptError
      PROVE  error_msg' = <<0, text>>
  BY <1>6 DEF SetError
<1>7. CASE ~UNCHANGED error_msg /\ ~AdoptError
  <2>1. PluginErrorHasCause'
    BY <1>6, <1>7 DEF PluginErrorHasCause
  <2> QED BY <1>1, <1>2, <2>1 DEF Caused, ErrorHasCause
<1> QED
  BY <1>1, <1>2, <1>4, <1>5, <1>7 DEF Caused, ErrorHasCause

LEMMA CausedInductive ==
  ASSUME IInv, Caused, [Next]_vars
  PROVE  Caused'
<1> USE DEF IInv
<1>1. CASE ReadHandshake \/ WriteEmpty
  BY <1>1, QuietCause DEF ReadHandshake, WriteEmpty
<1>2. CASE OpenConversations
  <2>1. error_msg = NoError
    BY <1>2 DEF OpenConversations, Opened, Opening, ErrorHasMessage
  <2>2. CASE "read" \in Faults /\ SetError("open")
             /\ UNCHANGED <<mechanism, num_conversations, conversations>>
    BY <2>2, QuietCause
  <2>3. ASSUME NEW m \in Mechanisms, NEW n \in 0 .. MaxConversations,
               NEW failed \in SUBSET (IF m = "GSSAPI" /\ "init" \in Faults THEN 1 .. n ELSE {}),
               mechanism' = m, num_conversations' = n,
               conversations' = [c \in 1 .. n |-> ConversationInit(c \in failed)],
               UNCHANGED <<status, error_msg>>
        PROVE  Caused'
    <3>1. Indices' = 1 .. n
      BY <2>3 DEF Indices
    <3>2. PluginErrorHasCause'
      BY <2>1, <2>3 DEF PluginErrorHasCause, NoError
    <3>3. ASSUME NEW c \in 1 .. n
          PROVE  /\ ConversationErrorHasCause(conversations[c])'
                 /\ ConversationProgress(conversations[c])'
      <4>1. conversations'[c] = ConversationInit(c \in failed)
        BY <2>3
      <4>2. c \in failed => "init" \in Faults
        OBVIOUS
      <4> QED
        BY <4>1, <4>2 DEF ConversationErrorHasCause, ConversationProgress, ConversationInit
    <3> QED BY <3>1, <3>2, <3>3 DEF Caused, ErrorHasCause
  <2> QED
    BY <1>2, <2>2, <2>3, Zenon DEF OpenConversations
<1>3. CASE TestDone
  BY <1>3, QuietCause DEF TestDone
<1>4. CASE Step
  <2>1. UNCHANGED <<mechanism, num_conversations>> /\ AdoptError
    BY <1>4 DEF Step
  <2>2. CASE UNCHANGED conversations
    BY <2>1, <2>2, QuietCause
  <2>3. CASE ~UNCHANGED conversations
    <3>1. PICK answers \in [Indices -> Answers] : conversations' = StepConversations(answers)
      BY <1>4, <2>3 DEF Step
    <3>2. ~HasError
      BY <1>4, <2>3 DEF Step
    <3>3. UNCHANGED error_msg
      BY <2>1, <3>2 DEF AdoptError, HasError
    <3>4. Indices' = Indices
      BY <2>1 DEF Indices
    <3>5. ASSUME NEW c \in Indices
          PROVE  /\ ConversationErrorHasCause(conversations[c])'
                 /\ ConversationProgress(conversations[c])'
      <4>1. conversations[c] \in Conversation /\ answers[c] \in Answers
        BY <3>1 DEF TypeOK
      <4>2. ConversationErrorHasCause(conversations[c]) /\ ConversationProgress(conversations[c])
        BY DEF Caused, ErrorHasCause
      <4>3. conversations'[c] = ConversationStep(conversations[c], answers[c])
        BY <3>1 DEF StepConversations
      <4>4. /\ ConversationErrorHasCause(conversations'[c])
            /\ ConversationProgress(conversations'[c])
        BY <4>1, <4>2, <4>3, ConversationStepCause
      <4> QED BY <2>1, <4>4 DEF ConversationErrorHasCause, ConversationProgress
    <3>6. PluginErrorHasCause'
      BY <3>2, <3>3 DEF PluginErrorHasCause, ErrorHasMessage, NoError, HasError
    <3> QED BY <3>4, <3>5, <3>6 DEF Caused, ErrorHasCause
  <2> QED BY <2>2, <2>3
<1>5. CASE WritePayload
  BY <1>5, QuietCause DEF WritePayload
<1>6. CASE ReadPayload
  <2>1. UNCHANGED <<mechanism, num_conversations>>
    BY <1>6 DEF ReadPayload
  <2>2. CASE UNCHANGED conversations /\ (AdoptError \/ ("read" \in Faults /\ SetError("read")))
    BY <2>1, <2>2, QuietCause
  <2>3. CASE ~HasError /\ \E sizes \in [Indices -> FrameSizes],
                lost \in SUBSET (IF "alloc" \in Faults THEN Indices ELSE {}) :
                  Distribute(sizes, lost)
    BY <2>1, <2>3, DistributeCause
  <2> QED BY <1>6, <2>2, <2>3, Zenon DEF ReadPayload, IsDone
<1>7. CASE Finish \/ Returned \/ UNCHANGED vars
  BY <1>7, QuietCause DEF Finish, Returned, vars
<1> QED
  BY <1>1, <1>2, <1>3, <1>4, <1>5, <1>6, <1>7 DEF Next

(* Every error is owed to something outside the plugin, for any number of    *)
(* conversations, frame sizes and faults (mongosql_auth, conversation_step). *)
THEOREM ErrorsHaveCauses == Spec => []ErrorHasCause
<1>1. Init => Caused
  <2> SUFFICES ASSUME Init PROVE Caused
    OBVIOUS
  <2>1. Indices = {} /\ error_msg = <<0, "none">>
    BY DEF Init, Indices, NoError
  <2> QED BY <2>1 DEF Caused, ErrorHasCause, PluginErrorHasCause
<1>2. IInv /\ Caused /\ [Next]_vars => Caused'
  BY CausedInductive
<1>3. Caused => ErrorHasCause
  BY DEF Caused
<1> QED
  BY <1>1, <1>2, <1>3, Invariance, PTL DEF Spec

---------------------------------------------------------------------------
(* The plugin implements AuthOutcome *)

Finished == {c \in Indices : conversations[c].done}
Reported == {c \in DOMAIN sent : sent[c].done}

(* The steps that leave the conversations and the payload as they are: they  *)
(* stutter, or bring the first error.                                        *)
LEMMA QuietStep ==
  ASSUME IInv, UNCHANGED <<mechanism, num_conversations, sent, result>>,
         Finished' = Finished, result = "pending",
         HasError => HasError'
  PROVE  [Outcome!Next]_(Outcome!vars)
<1>1. CASE HasError' = HasError
  BY <1>1 DEF Outcome!vars, Finished
<1>2. CASE ~HasError /\ HasError'
  <2>1. Outcome!Fail
    BY <1>2 DEF Outcome!Fail, Finished
  <2> QED
    BY <2>1 DEF Outcome!Next
<1> QED
  BY <1>1, <1>2 DEF HasError

(* Every step of the plugin is a step of the abstract exchange or none. *)
LEMMA OutcomeStep ==
  ASSUME IInv, IInv', [Next]_vars
  PROVE  [Outcome!Next]_(Outcome!vars)
<1> USE DEF IInv
<1>1. CASE ReadHandshake \/ WriteEmpty
  <2>1. /\ UNCHANGED <<mechanism, num_conversations, conversations, sent, result>>
        /\ result = "pending" /\ ~HasError
    BY <1>1 DEF ReadHandshake, WriteEmpty, Loop, Opened, Opening, HasError, Failing, Indices
  <2>2. Finished' = Finished
    BY <2>1 DEF Finished, Indices
  <2> QED
    BY <2>1, <2>2, QuietStep
<1>2. CASE OpenConversations
  <2>1. /\ ~HasError /\ mechanism = NoMechanism /\ result = "pending"
        /\ Finished = {} /\ UNCHANGED <<sent, result>>
    BY <1>2 DEF OpenConversations, Loop, Opened, Opening, HasError, Failing, Indices, Finished
  <2>2. CASE UNCHANGED <<mechanism, num_conversations, conversations>>
    <3>1. Finished' = Finished
      BY <2>2 DEF Finished, Indices
    <3> QED
      BY <2>1, <2>2, <3>1, QuietStep
  <2>3. CASE mechanism' \in Mechanisms /\ Finished' = {}
    <3>1. mechanism' # NoMechanism
      BY <2>3, ConstantsAssumption DEF NoMechanism
    <3>2. num_conversations' \in 0 .. MaxConversations /\ HasError' \in BOOLEAN
      BY DEF TypeOK, HasError
    <3>3. Outcome!Open
      BY <2>1, <2>3, <3>1, <3>2 DEF Outcome!Open, Finished
    <3> QED
      BY <3>3 DEF Outcome!Next
  <2>4. \/ UNCHANGED <<mechanism, num_conversations, conversations>>
        \/ mechanism' \in Mechanisms /\ \E n, failed :
             /\ num_conversations' = n
             /\ conversations' = [c \in 1 .. n |-> ConversationInit(c \in failed)]
    BY <1>2, Zenon DEF OpenConversations
  <2>5. (\E n, failed : /\ num_conversations' = n
                        /\ conversations' = [c \in 1 .. n |-> ConversationInit(c \in failed)])
          => Finished' = {}
    BY DEF Finished, Indices, ConversationInit
  <2> QED
    BY <2>2, <2>3, <2>4, <2>5
<1>3. CASE TestDone
  <2>1. /\ UNCHANGED <<mechanism, num_conversations, conversations, sent, result>>
        /\ AdoptError /\ result = "pending"
    BY <1>3 DEF TestDone, Loop
  <2>2. Finished' = Finished /\ (HasError => HasError')
    BY <2>1, AdoptKeepsMessage DEF Finished, Indices
  <2> QED
    BY <2>1, <2>2, QuietStep
<1>4. CASE Step
  <2>1. /\ ~HasError /\ mechanism # NoMechanism /\ result = "pending"
        /\ UNCHANGED <<mechanism, num_conversations, sent, result>>
    BY <1>4 DEF Step, Loop, IsDone, HasError, Opened, Opening
  <2>2. \A c \in Indices : conversations[c].done => conversations'[c].done
    BY DoneStep
  <2>3. Finished \subseteq Finished' /\ Finished' \in SUBSET (1 .. num_conversations)
    BY <2>1, <2>2 DEF Finished, Indices
  <2>4. Finished' = Finished \cup Finished'
    BY <2>3
  <2>5. HasError' \in BOOLEAN
    BY DEF HasError
  <2>6. Outcome!Advance
    BY <2>1, <2>3, <2>4, <2>5 DEF Outcome!Advance, Finished
  <2> QED
    BY <2>6 DEF Outcome!Next
<1>5. CASE WritePayload
  <2>1. /\ UNCHANGED <<mechanism, num_conversations, conversations, result>>
        /\ result = "pending"
    BY <1>5 DEF WritePayload, Loop
  <2>2. Finished' = Finished
    BY <2>1 DEF Finished, Indices
  <2>3. CASE UNCHANGED sent
    <3>1. HasError => HasError'
      BY <1>5, <2>1, AdoptKeepsMessage DEF WritePayload
    <3> QED
      BY <2>1, <2>2, <2>3, <3>1, QuietStep
  <2>4. CASE ~HasError /\ sent' = Frames /\ UNCHANGED <<status, error_msg>>
    <3>1. mechanism # NoMechanism
      BY <1>5, <2>4 DEF WritePayload, Opened, Opening, HasError
    <3>2. Reported' = Finished
      BY <2>4 DEF Reported, Finished, Frames
    <3>3. HasError' = HasError
      BY <2>1, <2>4, SameConversations DEF HasError
    <3>4. Outcome!Tell
      BY <2>1, <2>2, <2>4, <3>1, <3>2, <3>3 DEF Outcome!Tell, Finished, Reported
    <3> QED
      BY <3>4 DEF Outcome!Next
  <2> QED
    BY <1>5, <2>3, <2>4 DEF WritePayload
<1>6. CASE ReadPayload
  <2>1. /\ UNCHANGED <<mechanism, num_conversations, sent, result>>
        /\ result = "pending"
    BY <1>6 DEF ReadPayload, Loop
  <2>2. CASE UNCHANGED conversations
    <3>1. Finished' = Finished
      BY <2>1, <2>2 DEF Finished, Indices
    <3>2. HasError => AdoptError
      BY <1>6, Zenon DEF ReadPayload, IsDone
    <3>3. HasError => HasError'
      BY <2>1, <2>2, <3>2, AdoptKeepsMessage
    <3> QED
      BY <2>1, <3>1, <3>3, QuietStep
  <2>3. CASE conversations' # conversations
    <3>1. SUBSET (IF "alloc" \in Faults THEN Indices ELSE {}) \subseteq SUBSET Indices
      OBVIOUS
    <3>2. ~HasError /\ \E sizes \in [Indices -> FrameSizes], lost \in SUBSET Indices :
                         Distribute(sizes, lost)
      BY <1>6, <2>3, <3>1, Zenon DEF ReadPayload, IsDone
    <3>3. \A c \in Indices : conversations'[c].done = conversations[c].done
      BY <2>1, <3>2, DistributeEffect
    <3>4. Finished' = Finished
      BY <2>1, <3>3 DEF Finished, Indices
    <3> QED
      BY <2>1, <3>2, <3>4, QuietStep
  <2> QED
    BY <2>2, <2>3
<1>7. CASE Finish
  <2>1. /\ pc = "finish" /\ result = "pending" /\ result' = status
        /\ UNCHANGED <<mechanism, num_conversations, conversations, status, error_msg, sent>>
    BY <1>7 DEF Finish, Loop
  <2>2. Finished' = Finished /\ HasError' = HasError
    BY <2>1, SameConversations DEF Finished, Indices, HasError
  <2>3. CASE status = "CR_ERROR"
    <3>1. Outcome!Return
      BY <2>1, <2>2, <2>3 DEF Outcome!Return, Finished, HasError
    <3> QED
      BY <3>1 DEF Outcome!Next
  <2>4. CASE status = "CR_OK"
    <3>1. ~HasError /\ AllDone /\ mechanism # NoMechanism
      BY <2>1, <2>4 DEF Loop, HasError, Opened, Opening
    <3>2. DOMAIN sent \subseteq Indices
      BY DEF TypeOK
    <3>3. Reported = 1 .. num_conversations
      BY <2>1, <3>1, <3>2 DEF Reported, Told, AllDone, Indices
    <3>4. Outcome!Return
      BY <2>1, <2>2, <2>4, <3>1, <3>3 DEF Outcome!Return, Finished, Reported
    <3> QED
      BY <3>4 DEF Outcome!Next
  <2> QED
    BY <2>3, <2>4 DEF TypeOK
<1>8. CASE Returned \/ UNCHANGED vars
  BY <1>8 DEF Returned, vars, Outcome!vars, HasError, Failing, Indices
<1> QED
  BY <1>1, <1>2, <1>3, <1>4, <1>5, <1>6, <1>7, <1>8 DEF Next

(* Every behaviour of the plugin is one of the abstract exchange, but for    *)
(* its fairness (mongosql_auth).                                             *)
THEOREM ImplementsOutcomeSafety == Spec => OutcomeSafety
<1>1. Init => Outcome!Init
  BY DEF Init, Outcome!Init, HasError, Failing, Indices
<1>2. IInv /\ IInv' /\ [Next]_vars => [Outcome!Next]_(Outcome!vars)
  BY OutcomeStep
<1> QED
  BY <1>1, <1>2, Invariance, PTL DEF Spec, OutcomeSafety
================================================================================
