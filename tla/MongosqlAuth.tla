------------------------------ MODULE MongosqlAuth ------------------------------
(***************************************************************************)
(* The client plugin: mongosql_auth (mongosql-auth-plugin.c), the handlers *)
(* it calls in a loop (mongosql-auth.c) and the conversations they step    *)
(* (mongosql-auth-conversation.c).  One thread, one server; each action is *)
(* a handler, or the part of a handler between two packets.                *)
(*                                                                         *)
(* The mechanisms are left open as far as this level can tell: a step of   *)
(* one succeeds, asks for another round or fails.  "SCRAM" stands for      *)
(* SCRAM-SHA-1 and SCRAM-SHA-256, "OTHER" for every name the plugin does   *)
(* not know (GSSAPI is one when it is built without SASL).                 *)
(*                                                                         *)
(* A buffer is known by who composed it, its length and the bytes that     *)
(* were allocated; the plugin's own messages are empty or of length 1.     *)
(***************************************************************************)
EXTENDS Integers

CONSTANTS
  MaxConversations,   (* most conversations the server asks for *)
  Mechanisms,         (* mechanisms the server may name *)
  FrameSizes,         (* lengths of the frames the server sends *)
  MaxBufSize,         (* MONGOSQL_AUTH_MAX_BUF_SIZE *)
  MaxTokens,          (* a GSSAPI negotiation ends within this many tokens *)
  Faults,             (* what may go wrong outside the plugin *)
  ReallocZeroIsNull   (* realloc(p, 0) frees p and returns NULL (glibc, MSVC) *)

ASSUME ConstantsAssumption ==
  /\ MaxConversations \in Nat
  /\ Mechanisms \subseteq {"SCRAM", "PLAIN", "GSSAPI", "OTHER"}
  /\ FrameSizes \subseteq Nat
  /\ MaxBufSize \in Nat
  /\ MaxTokens \in Nat
  /\ Faults \subseteq {"read", "write", "version", "init", "step", "alloc"}
  /\ ReallocZeroIsNull \in BOOLEAN

VARIABLES
  pc,                 (* the handler the plugin enters next *)
  mechanism,          (* NoMechanism until the server has named one *)
  num_conversations,
  conversations,      (* one record per conversation *)
  status,
  error_msg,          (* <<0, text>>, or <<c, text>> when adopted from conversation c *)
  sent,               (* the frames of the last payload written *)
  result              (* what mongosql_auth returned, "pending" before *)

vars == <<pc, mechanism, num_conversations, conversations, status, error_msg,
          sent, result>>

NoMechanism == "none"
NoError == <<0, "none">>
Indices == 1 .. num_conversations

(* How a step of a mechanism ends, and whether it leaves bytes to send; an   *)
(* empty message may be in a buffer or in none.                              *)
Answers == {answer \in [verdict : {"ok", "continue"} \cup
                                  (IF "step" \in Faults THEN {"error"} ELSE {}),
                       len : 0 .. 1, cap : 0 .. 1] :
              answer.len <= answer.cap}

---------------------------------------------------------------------------
(* Conversations *)

ConversationInit(error) ==
  [done |-> FALSE, status |-> IF error THEN "CR_ERROR" ELSE "CR_OK",
   error_msg |-> IF error THEN "init" ELSE "none",
   step |-> 0, state |-> "SASL_START", buf |-> "null", buf_len |-> 0, cap |-> 0]

ConversationSetError(conv, text) ==
  IF conv.status = "CR_ERROR" THEN conv
  ELSE [conv EXCEPT !.status = "CR_ERROR", !.error_msg = text]

(* The buffer becomes a message of the plugin's own, or none: GSSAPI         *)
(* allocates no buffer for an empty token, SSPI does.                        *)
Output(conv, len, cap) ==
  [conv EXCEPT !.buf = IF cap = 0 THEN "null" ELSE "client",
               !.buf_len = len, !.cap = cap]

(* The output buffer replaces the input even when the step fails. *)
ScramStep(conv, answer) ==
  LET step == conv.step + 1
      next == [Output(conv, IF step = 3 THEN 0 ELSE 1, 1) EXCEPT !.step = step]
  IN  IF answer.verdict = "error" \/ step > 3
      THEN ConversationSetError(next, "scram")
      ELSE [next EXCEPT !.done = (step = 3)]

PlainStep(conv) == [Output(conv, 1, 1) EXCEPT !.done = TRUE]

(* SASL_START negotiates, SASL_CONTEXT_COMPLETE wraps the user name whatever *)
(* the server sent, SASL_DONE is not to be stepped.  A failed step keeps the *)
(* input buffer.                                                             *)
SaslStep(conv, answer) ==
  LET next == [Output(conv, answer.len, answer.cap) EXCEPT !.step = @ + 1]
  IN  IF answer.verdict = "error" \/ conv.state = "SASL_DONE"
      THEN ConversationSetError(conv, "sasl")
      ELSE CASE conv.state = "SASL_CONTEXT_COMPLETE" ->
                  [next EXCEPT !.state = "SASL_DONE", !.done = TRUE]
             [] conv.state = "SASL_START" ->
                  IF answer.verdict = "continue" /\ next.step < MaxTokens
                  THEN next
                  ELSE [next EXCEPT !.state = "SASL_CONTEXT_COMPLETE"]

(* Mutant: a finished conversation is stepped again. *)
StepEvenDone(conv, answer) ==
  IF conv.status = "CR_ERROR" THEN conv
  ELSE CASE mechanism = "SCRAM"  -> ScramStep(conv, answer)
         [] mechanism = "PLAIN"  -> PlainStep(conv)
         [] mechanism = "GSSAPI" -> SaslStep(conv, answer)
         [] OTHER                -> ConversationSetError(conv, "unsupported")

ConversationStep(conv, answer) ==
  IF conv.done \/ conv.status = "CR_ERROR" THEN conv
  ELSE CASE mechanism = "SCRAM"  -> ScramStep(conv, answer)
         [] mechanism = "PLAIN"  -> PlainStep(conv)
         [] mechanism = "GSSAPI" -> SaslStep(conv, answer)
         [] OTHER                -> ConversationSetError(conv, "unsupported")

---------------------------------------------------------------------------
(* Errors: the first one, of the plugin or of a conversation, is kept *)

Failing == {c \in Indices : conversations[c].status = "CR_ERROR"}

HasError == status = "CR_ERROR" \/ Failing # {}

(* Mutant: the loop does not stop at the first error. *)
LastFailing == CHOOSE c \in Failing : \A d \in Failing : c >= d

FirstFailing == CHOOSE c \in Failing : \A d \in Failing : c <= d

(* Mutant: the status is computed anew from the conversations. *)
RecomputeError ==
  IF Failing = {}
  THEN status' = "CR_OK" /\ error_msg' = NoError
  ELSE /\ status' = "CR_ERROR"
       /\ error_msg' = <<FirstFailing, conversations[FirstFailing].error_msg>>

(* has_error: a conversation's error becomes the plugin's. *)
AdoptError ==
  IF status = "CR_ERROR" \/ Failing = {}
  THEN UNCHANGED <<status, error_msg>>
  ELSE /\ status' = "CR_ERROR"
       /\ error_msg' = <<FirstFailing, conversations[FirstFailing].error_msg>>

SetError(text) ==
  IF HasError THEN AdoptError
  ELSE /\ status' = "CR_ERROR"
       /\ error_msg' = <<0, text>>

AllDone == \A c \in Indices : conversations[c].done

(* Mutants: done as soon as one conversation is; done only on an error. *)
AnyDone == HasError \/ num_conversations = 0 \/ \E c \in Indices : conversations[c].done
NeverDone == HasError

IsDone == HasError \/ AllDone

---------------------------------------------------------------------------
Init ==
  /\ pc = "handshake"
  /\ mechanism = NoMechanism
  /\ num_conversations = 0
  /\ conversations = <<>>
  /\ status = "CR_OK"
  /\ error_msg = NoError
  /\ sent = <<>>
  /\ result = "pending"

(* start: the auth-data of the handshake, the versions must be equal. *)
ReadHandshake ==
  /\ pc = "handshake"
  /\ \/ "read" \in Faults /\ pc' = "test" /\ SetError("handshake")
     \/ "version" \in Faults /\ pc' = "test" /\ SetError("version")
     \/ pc' = "greet" /\ UNCHANGED <<status, error_msg>>
  /\ UNCHANGED <<mechanism, num_conversations, conversations, sent, result>>

(* start: the empty response. *)
WriteEmpty ==
  /\ pc = "greet"
  /\ \/ "write" \in Faults /\ pc' = "test" /\ SetError("greet")
     \/ pc' = "open" /\ UNCHANGED <<status, error_msg>>
  /\ UNCHANGED <<mechanism, num_conversations, conversations, sent, result>>

(* start: the first auth-more-data creates the conversations; creating a     *)
(* GSSAPI one acquires credentials and may fail.                             *)
OpenConversations ==
  /\ pc = "open"
  /\ pc' = "test"
  /\ \/ /\ "read" \in Faults
        /\ SetError("open")
        /\ UNCHANGED <<mechanism, num_conversations, conversations>>
     \/ \E m \in Mechanisms, n \in 0 .. MaxConversations :
          \E failed \in SUBSET (IF m = "GSSAPI" /\ "init" \in Faults THEN 1 .. n ELSE {}) :
            /\ mechanism' = m
            /\ num_conversations' = n
            /\ conversations' = [c \in 1 .. n |-> ConversationInit(c \in failed)]
            /\ UNCHANGED <<status, error_msg>>
  /\ UNCHANGED <<sent, result>>

(* The condition of the plugin's loop. *)
TestDone ==
  /\ pc = "test"
  /\ pc' = IF IsDone THEN "finish" ELSE "step"
  /\ AdoptError
  /\ UNCHANGED <<mechanism, num_conversations, conversations, sent, result>>

(* Mutant: the loop stops one conversation early. *)
StepAllButLast(answers) ==
  [c \in Indices |-> IF c = num_conversations THEN conversations[c]
                     ELSE ConversationStep(conversations[c], answers[c])]

StepConversations(answers) ==
  [c \in Indices |-> ConversationStep(conversations[c], answers[c])]

Step ==
  /\ pc = "step"
  /\ pc' = "write"
  /\ AdoptError
  /\ IF HasError THEN UNCHANGED conversations
     ELSE \E answers \in [Indices -> Answers] :
            conversations' = StepConversations(answers)
  /\ UNCHANGED <<mechanism, num_conversations, sent, result>>

(* Mutant: the loop over the frames starts one conversation late. *)
FramesButFirst ==
  [c \in Indices \ {1} |-> [done |-> conversations[c].done,
                            from |-> conversations[c].buf,
                            len  |-> conversations[c].buf_len]]

(* Every conversation has a frame in every payload, the finished ones too:   *)
(* whatever its buffer holds.                                                *)
Frames ==
  [c \in Indices |-> [done |-> conversations[c].done,
                      from |-> conversations[c].buf,
                      len  |-> conversations[c].buf_len]]

(* Mutant: the payload is written without asking for errors. *)
WriteDespiteError ==
  /\ pc = "write"
  /\ pc' = "read"
  /\ \/ "write" \in Faults /\ SetError("write") /\ UNCHANGED sent
     \/ sent' = Frames /\ UNCHANGED <<status, error_msg>>
  /\ UNCHANGED <<mechanism, num_conversations, conversations, result>>

WritePayload ==
  /\ pc = "write"
  /\ pc' = "read"
  /\ \/ HasError /\ AdoptError /\ UNCHANGED sent
     \/ ~HasError /\ "write" \in Faults /\ SetError("write") /\ UNCHANGED sent
     \/ ~HasError /\ sent' = Frames /\ UNCHANGED <<status, error_msg>>
  /\ UNCHANGED <<mechanism, num_conversations, conversations, result>>

---------------------------------------------------------------------------
(* read_payload *)

(* Mutant: the largest frame allowed is refused. *)
TooLargeOffByOne(size) == size >= MaxBufSize

TooLarge(size) == size > MaxBufSize

(* realloc cannot give the buffer its new size; lost are the conversations   *)
(* for which the allocator is out of memory.                                 *)
ReallocFails(c, size, lost) ==
  \/ c \in lost
  \/ ReallocZeroIsNull /\ size = 0 /\ conversations[c].buf # "null"

Rejected(sizes, lost) ==
  {c \in Indices : TooLarge(sizes[c]) \/ ReallocFails(c, sizes[c], lost)}

(* A frame fills a buffer of just its size; the length of one that is        *)
(* refused is stored all the same.                                           *)
Accept(conv, size) ==
  [conv EXCEPT !.buf = "server", !.buf_len = size, !.cap = size]

Refuse(conv, size) ==
  IF TooLarge(size) THEN [conv EXCEPT !.buf_len = size]
  ELSE [conv EXCEPT !.buf = "null", !.buf_len = size, !.cap = 0]

(* The frames before bad are taken, the ones after it are not looked at. *)
Receive(sizes, bad) ==
  [c \in Indices |-> IF c < bad THEN Accept(conversations[c], sizes[c])
                     ELSE IF c = bad THEN Refuse(conversations[c], sizes[c])
                     ELSE conversations[c]]

(* Mutant: a frame is dropped without an error. *)
DistributeSilently(sizes, lost) ==
  LET rejected == Rejected(sizes, lost)
      bad == IF rejected = {} THEN num_conversations + 1
             ELSE CHOOSE c \in rejected : \A d \in rejected : c <= d
  IN  /\ conversations' = Receive(sizes, bad)
      /\ UNCHANGED <<status, error_msg>>

(* The conversations' buffers take the frames in order, up to the first that *)
(* does not fit.                                                             *)
Distribute(sizes, lost) ==
  LET rejected == Rejected(sizes, lost)
      bad == IF rejected = {} THEN num_conversations + 1
             ELSE CHOOSE c \in rejected : \A d \in rejected : c <= d
  IN  /\ conversations' = Receive(sizes, bad)
      /\ IF rejected = {} THEN UNCHANGED <<status, error_msg>>
         ELSE SetError(IF TooLarge(sizes[bad]) THEN "size" ELSE "alloc")

ReadPayload ==
  /\ pc = "read"
  /\ pc' = "test"
  /\ \/ IsDone /\ AdoptError /\ UNCHANGED conversations
     \/ ~IsDone /\ "read" \in Faults /\ SetError("read") /\ UNCHANGED conversations
     \/ ~IsDone /\ \E sizes \in [Indices -> FrameSizes],
                      lost \in SUBSET (IF "alloc" \in Faults THEN Indices ELSE {}) :
                     Distribute(sizes, lost)
  /\ UNCHANGED <<mechanism, num_conversations, sent, result>>

(* The status is taken before the state is destroyed. *)
Finish ==
  /\ pc = "finish"
  /\ pc' = "returned"
  /\ result' = status
  /\ UNCHANGED <<mechanism, num_conversations, conversations, status, error_msg, sent>>

Returned == pc = "returned" /\ UNCHANGED vars

Next ==
  \/ ReadHandshake \/ WriteEmpty \/ OpenConversations
  \/ TestDone \/ Step \/ WritePayload \/ ReadPayload
  \/ Finish \/ Returned

(* The thread that called mongosql_auth keeps running, and the server        *)
(* answers or the connection fails: a read or a write always returns.        *)
Fairness == WF_vars(Next)

Spec == Init /\ [][Next]_vars /\ Fairness
---------------------------------------------------------------------------
ConversationErrors == {"none", "init", "scram", "sasl", "unsupported"}
PluginErrors == {"none", "handshake", "version", "greet", "open", "read", "write",
                 "size", "alloc"}

Conversation ==
  [done : BOOLEAN, status : {"CR_OK", "CR_ERROR"}, error_msg : ConversationErrors,
   step : Nat, state : {"SASL_START", "SASL_CONTEXT_COMPLETE", "SASL_DONE"},
   buf : {"null", "server", "client"}, buf_len : Nat, cap : Nat]

Frame == [done : BOOLEAN, from : {"null", "server", "client"}, len : Nat]

(* Type invariant: the state of the plugin, its conversations and the last   *)
(* payload; a payload has a frame for every conversation.                    *)
TypeOK ==
  /\ pc \in {"handshake", "greet", "open", "test", "step", "write", "read",
             "finish", "returned"}
  /\ mechanism \in Mechanisms \cup {NoMechanism}
  /\ num_conversations \in 0 .. MaxConversations
  /\ conversations \in [Indices -> Conversation]
  /\ status \in {"CR_OK", "CR_ERROR"}
  /\ error_msg \in (0 .. MaxConversations) \X (PluginErrors \cup ConversationErrors)
  /\ sent = <<>> \/ sent \in [Indices -> Frame]
  /\ result \in {"pending", "CR_OK", "CR_ERROR"}

(* CR_OK reaches the MySQL client only when the server named a mechanism, no *)
(* conversation failed, all of them are done and the last payload written    *)
(* said so for each of them (mongosql_auth, has_error, is_done).             *)
OkMeansComplete ==
  result = "CR_OK" =>
    /\ mechanism # NoMechanism
    /\ Failing = {} /\ AllDone
    /\ \A c \in Indices : c \in DOMAIN sent /\ sent[c].done

(* CR_ERROR comes with the message of what failed, CR_OK without one: the    *)
(* plugin never returns an error it cannot name, and a message adopted from  *)
(* a conversation is that conversation's own (has_error, set_error).         *)
ErrorHasMessage ==
  /\ (status = "CR_ERROR") <=> (error_msg # NoError)
  /\ error_msg[1] # 0 =>
       /\ error_msg[1] \in Failing
       /\ error_msg[2] = conversations[error_msg[1]].error_msg
       /\ \A c \in Failing : error_msg[1] <= c

(* What each error of the plugin itself, or of a conversation, is owed to. *)
PluginErrorHasCause ==
  LET text == error_msg[2]
  IN  error_msg[1] = 0 =>
        /\ text \in {"handshake", "open", "read"} => "read" \in Faults
        /\ text \in {"greet", "write"} => "write" \in Faults
        /\ text = "version" => "version" \in Faults
        /\ text = "size" => \E c \in Indices : conversations[c].buf_len > MaxBufSize
        /\ text = "alloc" =>
             \/ "alloc" \in Faults
             \/ ReallocZeroIsNull /\ \E c \in Indices : conversations[c].buf_len = 0

ConversationErrorHasCause(conv) ==
  /\ conv.error_msg = "init" => "init" \in Faults
  /\ conv.error_msg = "scram" => "step" \in Faults /\ conv.step <= 3
  /\ conv.error_msg = "sasl" => "step" \in Faults /\ ~conv.done
  /\ conv.error_msg = "unsupported" => mechanism \notin {"SCRAM", "PLAIN", "GSSAPI"}

(* Every error has a cause outside the plugin: the network, the allocator,   *)
(* the mechanism's own verdict, or what the server asked for.  The plugin    *)
(* never drives an exchange into an error by itself: the limits of SCRAM's   *)
(* step counter and of GSSAPI's states are not reached, and a frame within   *)
(* the limit is taken.  With Termination and ErrorHasMessage: when nothing   *)
(* fails outside, mongosql_auth returns CR_OK (step, read_payload).          *)
ErrorHasCause ==
  /\ PluginErrorHasCause
  /\ \A c \in Indices : ConversationErrorHasCause(conversations[c])

(* Whenever a step or a write is going to read a buffer, its recorded length *)
(* lies within what is allocated: read_payload stores a frame's length       *)
(* before it checks and reallocates, and only the error it raises keeps the  *)
(* other handlers away from a buffer left half updated.                      *)
BuffersFit ==
  pc \in {"step", "write"} /\ ~HasError =>
    \A c \in Indices : conversations[c].buf_len <= conversations[c].cap

(* Without an error, the conversations of a mechanism other than GSSAPI are  *)
(* in step: read_payload and write_payload handle one frame for each of      *)
(* them, so none may run ahead of the others.                                *)
Lockstep ==
  mechanism # "GSSAPI" /\ ~HasError =>
    \A c, d \in Indices : /\ conversations[c].step = conversations[d].step
                          /\ conversations[c].done = conversations[d].done

(* The frames of a payload are messages the client composed: "for each       *)
(* conversation, take the client message" (mongosql-auth.c:224-227).         *)
WritesClientMessages ==
  \A c \in DOMAIN sent : sent[c].from # "server"

(* The same of every mechanism but GSSAPI.                                   *)
LockstepPayloads == mechanism # "GSSAPI" => WritesClientMessages

(* The first error stays: no later one replaces its message or its status,   *)
(* whatever handlers the loop still runs (set_error, has_error).             *)
FirstErrorSticks ==
  [][status = "CR_ERROR" => UNCHANGED <<status, error_msg>>]_vars

(* What a conversation reached is kept: done is never taken back, nor is an  *)
(* error, and a finished one leaves its mechanism alone.                     *)
DoneIsFinal ==
  [][\A c \in Indices :
       conversations[c].done \/ conversations[c].status = "CR_ERROR" =>
         /\ conversations'[c].done = conversations[c].done
         /\ conversations'[c].status = conversations[c].status
         /\ conversations'[c].step = conversations[c].step]_vars

(* A frame that is empty is no reason to give up: "failed to allocate        *)
(* receive buffer" (mongosql-auth.c:188) is said only when memory ran out.   *)
AllocationErrorMeansNoMemory ==
  error_msg = <<0, "alloc">> => "alloc" \in Faults

(* The loop takes a payload off the wire only when the server has one to     *)
(* send: the last payload written left a conversation unfinished.  Another   *)
(* read would wait forever, or take the packet that ends the handshake.      *)
ReadsOnlyWhatIsOwed ==
  [][pc = "read" /\ conversations' # conversations =>
       \E c \in DOMAIN sent : ~sent[c].done]_vars

(* Every call of mongosql_auth returns, whatever the server sends. *)
Termination == <>(pc = "returned")

---------------------------------------------------------------------------
(* The inductive invariant: what holds between any two handlers *)

Opening == pc \in {"handshake", "greet", "open"}

(* Before the conversations are opened nothing has happened; afterwards a    *)
(* mechanism is known unless the opening failed.                             *)
Opened ==
  IF Opening
  THEN /\ mechanism = NoMechanism /\ num_conversations = 0
       /\ sent = <<>> /\ status = "CR_OK"
  ELSE mechanism # NoMechanism \/ status = "CR_ERROR"

(* The loop steps only unfinished work; it is left with an error or done. *)
Loop ==
  /\ pc = "step" => ~IsDone
  /\ pc \in {"finish", "returned"} => status = "CR_ERROR" \/ (Failing = {} /\ AllDone)
  /\ result = IF pc = "returned" THEN status ELSE "pending"

(* A conversation that is done has been reported, but for the time between   *)
(* its last step and the write; after the write the payload shows them all.  *)
Told ==
  ~HasError =>
    /\ pc # "write" => \A c \in Indices :
         conversations[c].done => c \in DOMAIN sent /\ sent[c].done
    /\ pc = "read" => \A c \in Indices :
         c \in DOMAIN sent /\ sent[c].done = conversations[c].done

(* Without an error every buffer holds its recorded length, and after a step *)
(* of a mechanism other than GSSAPI it is the client's.                      *)
Buffered ==
  ~HasError =>
    /\ \A c \in Indices : conversations[c].buf_len <= conversations[c].cap
    /\ pc = "write" /\ mechanism # "GSSAPI" =>
         \A c \in Indices : conversations[c].buf = "client"

(* The inductive invariant of the loop: TypeOK, what the handlers rely on,   *)
(* and the invariants that are inductive together with it.                   *)
IInv ==
  /\ TypeOK /\ Opened /\ Loop /\ Told /\ Buffered
  /\ ErrorHasMessage /\ Lockstep /\ LockstepPayloads

---------------------------------------------------------------------------
(* What the caller relies on *)

Outcome == INSTANCE AuthOutcome WITH
  opened   <- mechanism # NoMechanism,
  total    <- num_conversations,
  finished <- {c \in Indices : conversations[c].done},
  told     <- {c \in DOMAIN sent : sent[c].done},
  failed   <- HasError

(* The plugin implements the abstract exchange: its initial states and steps *)
(* are those of AuthOutcome, and what was decided is returned.               *)
ImplementsOutcome == Outcome!Spec

(* The part of it that needs no fairness. *)
OutcomeSafety == Outcome!Init /\ [][Outcome!Next]_(Outcome!vars)
================================================================================
