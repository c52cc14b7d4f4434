----------------------------- MODULE SaslLoginProofs -----------------------------
(***************************************************************************)
(* Proofs about SaslLogin, for any number of conversations and whatever    *)
(* calls of the library fail.                                              *)
(***************************************************************************)
EXTENDS SaslLogin, MongosqlAuthProofs

(* Every step of the login is a step of MongosqlAuth. *)
LEMMA SaslStepsAreSteps == [SaslNext]_saslVars => [Next]_vars
BY DEF SaslNext, LoginNext, SaslOpen, SaslClientStep, SaslFinish, Crash, CrashOpening,
   OtherLogin, Next, saslVars, vars

(* The GSSAPI login implements the plugin with an arbitrary mechanism, so    *)
(* what is proved of the loop holds of it (conversation_sasl_step).          *)
THEOREM SaslLoginImplementsPlugin == SaslSpec => Init /\ [][Next]_vars
<1>1. SaslInit => Init
  BY DEF SaslInit
<1> QED
  BY <1>1, SaslStepsAreSteps, PTL DEF SaslSpec

---------------------------------------------------------------------------
(* A non-empty set of indices has a greatest element. *)
LEMMA GreatestExists ==
  ASSUME NEW n \in Nat, NEW S, S \subseteq 1 .. n, S # {}
  PROVE  \E m \in S : \A c \in S : m >= c
<1> DEFINE T == {n - c : c \in S}
<1>1. T \subseteq Nat /\ T # {}
  <2>1. \A c \in S : n - c \in Nat
    OBVIOUS
  <2>2. PICK c \in S : TRUE
    OBVIOUS
  <2>3. n - c \in T
    BY <2>2
  <2> QED
    BY <2>1, <2>3
<1> HIDE DEF T
<1>2. PICK t \in T : \A u \in T : t <= u
  BY <1>1, LeastExists
<1>3. PICK m \in S : t = n - m
  BY DEF T
<1>4. \A c \in S : n - c \in T
  BY DEF T
<1>5. \A c \in S : n - m <= n - c
  BY <1>2, <1>3, <1>4
<1> QED
  BY <1>5

(* A table that is missing after the conversations have been opened was not  *)
(* loaded for one of them.                                                   *)
LEMMA MissingMeansNotLoaded ==
  ASSUME NEW n \in Nat \ {0}, NEW loads \in [1 .. n -> Sspi!Loads],
         TableAfter(loads) = "null"
  PROVE  \E c \in 1 .. n : loads[c] # "loaded"
<1> DEFINE calls == {c \in DOMAIN loads : loads[c] \in {"loaded", "InitSecurityInterface"}}
           last  == CHOOSE c \in calls : \A d \in calls : c >= d
<1>1. CASE calls = {}
  <2>1. 1 \in DOMAIN loads
    OBVIOUS
  <2> QED
    BY <1>1, <2>1
<1>2. CASE calls # {}
  <2>1. calls \subseteq 1 .. n
    OBVIOUS
  <2>2. TableAfter(loads) = Sspi!Table(functions, loads[last])
    BY <1>2 DEF TableAfter
  <2> HIDE DEF calls
  <2>3. last \in calls
    BY <1>2, <2>1, GreatestExists
  <2> HIDE DEF last
  <2>4. loads[last] # "loaded"
    BY <2>2 DEF Sspi!Table
  <2> QED
    BY <2>1, <2>3, <2>4
<1> QED
  BY <1>1, <1>2

(* A client whose library could not be loaded has failed. *)
LEMMA NotLoadedFails ==
  ASSUME NEW n, NEW loads, NEW clients \in Clients(n, LAMBDA c : ClientInit(loads[c])),
         NEW c \in 1 .. n, build = "sspi", loads[c] # "loaded"
  PROVE  Failed(clients[c])
<1>1. clients[c] \in ClientInit(loads[c])
  BY DEF Clients
<1>2. clients[c] = [Fail(NoClient, loads[c]) EXCEPT !.reason = "unknown"]
  BY <1>1 DEF ClientInit, Sspi!Loaded
<1> QED
  BY <1>2 DEF Failed, Fail, NoClient

---------------------------------------------------------------------------
(* Without a table the opening leaves an error behind. *)
LEMMA SaslOpenInv ==
  ASSUME SaslInv, SaslOpen
  PROVE  MissingTableEndsLoop'
<1>1. pc = "open" /\ num_conversations = 0 /\ status = "CR_OK"
  BY DEF SaslInv, IInv, Opened, Opening, SaslOpen, OpenConversations
<1> SUFFICES ASSUME build' = "sspi", functions' = "null", num_conversations' > 0
             PROVE  MissingTableEndsLoop'
  BY DEF MissingTableEndsLoop
<1>2. build = "sspi"
  BY DEF SaslOpen
<1>3. PICK n \in 0 .. MaxConversations :
        \E failed : /\ num_conversations' = n
                   /\ conversations' = [c \in 1 .. n |-> ConversationInit(c \in failed)]
                   /\ UNCHANGED <<status, error_msg>>
  <2>1. num_conversations' # num_conversations
    BY <1>1
  <2> QED
    BY <2>1, Zenon DEF SaslOpen, OpenConversations
<1>4. n \in Nat \ {0} /\ Indices' = 1 .. n
  BY <1>3, ConstantsAssumption DEF Indices
<1>5. PICK loads \in [1 .. n -> Sspi!Loads] :
        /\ client' \in Clients(n, LAMBDA c : ClientInit(loads[c]))
        /\ TableAfter(loads) = "null"
  BY <1>2, <1>3, <1>4 DEF SaslOpen
<1>6. PICK c \in 1 .. n : loads[c] # "loaded"
  BY <1>4, <1>5, MissingMeansNotLoaded
<1>7. Failed(client'[c])
  BY <1>2, <1>5, <1>6, NotLoadedFails
<1>8. conversations'[c].status = "CR_ERROR"
  BY <1>4, <1>7 DEF SaslOpen
<1>9. \A d \in 1 .. n : conversations'[d].status = "CR_ERROR" =>
                       conversations'[d].error_msg = "init"
  BY <1>3 DEF ConversationInit
<1>10. pc' = "test" /\ status' = "CR_OK"
  BY <1>1, <1>3 DEF SaslOpen, OpenConversations
<1> QED
  BY <1>4, <1>8, <1>9, <1>10 DEF MissingTableEndsLoop, Failing

(* The first test of the loop takes the error over and ends it. *)
LEMMA SaslTestInv ==
  ASSUME SaslInv, TestDone, UNCHANGED <<build, functions, crashed>>
  PROVE  MissingTableEndsLoop'
<1>1. TypeOK /\ ErrorHasMessage
  BY DEF SaslInv, IInv
<1> SUFFICES ASSUME build = "sspi", functions = "null", num_conversations > 0
             PROVE  MissingTableEndsLoop'
  BY DEF MissingTableEndsLoop, TestDone
<1>2. /\ pc = "test" /\ status = "CR_OK" /\ Failing # {}
      /\ \A c \in Failing : conversations[c].error_msg = "init"
  BY DEF SaslInv, MissingTableEndsLoop, TestDone
<1>3. FirstFailing \in Failing
  BY <1>1, <1>2, FirstFailingIsLeast
<1>4. status' = "CR_ERROR" /\ error_msg' = <<FirstFailing, conversations[FirstFailing].error_msg>>
  BY <1>2 DEF TestDone, AdoptError
<1>5. pc' = "finish"
  BY <1>2 DEF TestDone, IsDone, HasError
<1> QED
  BY <1>2, <1>3, <1>4, <1>5 DEF MissingTableEndsLoop

(* While the table is missing no handler but the test and destroy runs. *)
LEMMA SaslIdleInv ==
  ASSUME SaslInv, UNCHANGED <<build, functions, num_conversations>>,
         \/ ReadHandshake \/ WriteEmpty \/ Step \/ WritePayload \/ ReadPayload
         \/ Finish \/ UNCHANGED vars
  PROVE  MissingTableEndsLoop'
<1> SUFFICES ASSUME build = "sspi", functions = "null", num_conversations > 0
             PROVE  MissingTableEndsLoop'
  BY DEF MissingTableEndsLoop
<1>1. \/ pc = "test"
      \/ pc \in {"finish", "returned"} /\ status = "CR_ERROR" /\ error_msg[2] = "init"
  BY DEF SaslInv, MissingTableEndsLoop
<1>2. CASE Finish
  BY <1>1, <1>2 DEF Finish, MissingTableEndsLoop
<1>3. CASE UNCHANGED vars
  <2>1. Failing' = Failing
    BY <1>3 DEF vars, Failing, Indices
  <2> QED
    BY <1>3, <2>1 DEF SaslInv, MissingTableEndsLoop, vars
<1> QED
  BY <1>1, <1>2, <1>3 DEF ReadHandshake, WriteEmpty, Step, WritePayload, ReadPayload

(* A table that is loaded, or that another login took away, is not the one   *)
(* that is missing since the opening.                                        *)
LEMMA OtherTableInv ==
  ASSUME functions' # "null"
  PROVE  MissingTableEndsLoop'
BY DEF MissingTableEndsLoop

(* Once the login has crashed nothing runs any more, not even another one.   *)
LEMMA SaslCrashedInv ==
  ASSUME SaslInv, [SaslNext]_saslVars
  PROVE  (crashed => Crashed)'
<1> SUFFICES ASSUME crashed' PROVE Crashed'
  OBVIOUS
<1>1. CASE Crash
  <2>1. UNCHANGED <<AllDone, HasError>>
    BY <1>1 DEF Crash, vars, AllDone, HasError, Failing, Indices
  <2> QED
    BY <1>1, <2>1 DEF Crash, Crashed, NullCall, vars
<1>2. CASE CrashOpening
  BY <1>2 DEF CrashOpening, Crashed, vars
<1>3. CASE UNCHANGED saslVars
  <2>1. UNCHANGED <<AllDone, HasError>>
    BY <1>3 DEF saslVars, vars, AllDone, HasError, Failing, Indices
  <2> QED
    BY <1>3, <2>1 DEF SaslInv, Crashed, NullCall, saslVars, vars
<1>4. ASSUME ~Crash, ~CrashOpening, ~UNCHANGED saslVars PROVE FALSE
  BY <1>4 DEF SaslNext, LoginNext, OtherLogin, SaslOpen, SaslClientStep, SaslFinish
<1> QED
  BY <1>1, <1>2, <1>3, <1>4

(* The table stays one of its three values. *)
LEMMA TableValues ==
  ASSUME SaslInv, [SaslNext]_saslVars
  PROVE  (functions \in {"null", "loaded", "taken"})'
<1>1. functions \in {"null", "loaded", "taken"}
  BY DEF SaslInv
<1>2. CASE SaslOpen
  <2>1. functions' = functions \/ \E loads : functions' = TableAfter(loads)
    BY <1>2 DEF SaslOpen
  <2>2. \A loads : TableAfter(loads) \in {"null", "loaded", "taken"}
    BY <1>1 DEF TableAfter, Sspi!Table
  <2> QED
    BY <1>1, <2>1, <2>2
<1> QED
  BY <1>1, <1>2 DEF SaslNext, LoginNext, SaslClientStep, SaslFinish, Crash, CrashOpening,
     OtherLogin, saslVars

(* SaslInv is an inductive invariant. *)
LEMMA SaslInvInductive == SaslInv /\ [SaslNext]_saslVars => SaslInv'
<1> SUFFICES ASSUME SaslInv, [SaslNext]_saslVars PROVE SaslInv'
  OBVIOUS
<1>1. IInv'
  BY SaslStepsAreSteps, IInvInductive DEF SaslInv
<1>2. MissingTableEndsLoop'
  <2>1. CASE SaslOpen
    BY <2>1, SaslOpenInv
  <2>2. CASE TestDone /\ UNCHANGED <<build, client, functions, crashed>>
    BY <2>2, SaslTestInv
  <2>3. CASE SaslClientStep \/ SaslFinish
    BY <2>3, SaslIdleInv DEF SaslClientStep, SaslFinish, Step, Finish
  <2>4. CASE Crash \/ UNCHANGED saslVars
    BY <2>4, SaslIdleInv DEF Crash, saslVars, vars
  <2>6. CASE CrashOpening \/ OtherLogin
    BY <2>6, OtherTableInv DEF CrashOpening, OtherLogin
  <2>5. CASE /\ ReadHandshake \/ WriteEmpty \/ WritePayload \/ ReadPayload \/ Returned
             /\ UNCHANGED <<build, client, functions, crashed>>
    BY <2>5, SaslIdleInv DEF ReadHandshake, WriteEmpty, WritePayload, ReadPayload, Returned, vars
  <2> QED
    BY <2>1, <2>2, <2>3, <2>4, <2>5, <2>6 DEF SaslNext, LoginNext
<1> QED
  BY <1>1, <1>2, TableValues, SaslCrashedInv DEF SaslInv

---------------------------------------------------------------------------
(* The inductive invariant holds in every reachable state of the login. *)
THEOREM SaslInvariance == SaslSpec => []SaslInv
<1>1. SaslInit => SaslInv
  <2> SUFFICES ASSUME SaslInit PROVE SaslInv
    OBVIOUS
  <2>1. IInv /\ num_conversations = 0 /\ crashed = FALSE /\ functions = "null"
    BY InitIInv DEF SaslInit, Init
  <2> QED
    BY <2>1 DEF SaslInv, MissingTableEndsLoop
<1> QED
  BY <1>1, SaslInvInductive, PTL DEF SaslSpec

(* Whatever part of the library cannot be loaded, for whichever conversation *)
(* and for whatever other logins: this one calls through a missing table     *)
(* only when another login took it away, or in client_destroy, after the     *)
(* error of the opening has been taken over.                                 *)
THEOREM OwnFailuresCrashInDestroy == SaslSpec => []OwnFailureCrashesInDestroy
<1>1. SaslInv => OwnFailureCrashesInDestroy
  <2> SUFFICES ASSUME SaslInv, crashed, functions # "taken"
               PROVE  pc = "finish" /\ status = "CR_ERROR" /\ error_msg[2] = "init"
    BY DEF OwnFailureCrashesInDestroy
  <2>1. NullCall
    BY DEF SaslInv, Crashed
  <2>2. functions = "null"
    BY <2>1 DEF NullCall, SaslInv
  <2>3. num_conversations > 0
    <3>1. CASE pc = "finish"
      BY <2>1, <3>1 DEF NullCall
    <3>2. CASE pc = "step"
      <4>1. num_conversations \in Nat /\ Indices # {}
        BY <2>1, <3>2, ConstantsAssumption DEF NullCall, AllDone, SaslInv, IInv, TypeOK
      <4> QED
        BY <4>1 DEF Indices
    <3> QED
      BY <2>1, <3>1, <3>2 DEF NullCall
  <2> QED
    BY <2>1, <2>2, <2>3 DEF SaslInv, MissingTableEndsLoop, NullCall
<1> QED
  BY <1>1, SaslInvariance, PTL

---------------------------------------------------------------------------
(* The clients: what the calls of the library do to one                    *)

CallNames == GssapiCalls \cup SspiCalls \cup {"none", "unknown"}

Objects == {"imported", "user", "spn", "cred", "ctx", "token", "name", "text", "status"}

Statuses == [call : CallNames, major : {"complete", "continue", "error"}]

Client ==
  [cred : {"none", "user", "default"}, ctx : {"none", "complete", "continue"},
   stat : Statuses, len : Nat, cap : Nat, held : SUBSET Objects, refused : SUBSET Objects,
   cause : CallNames, reason : CallNames]

(* The status is that of the first call that failed, if one did; and what is *)
(* held for the client that could still be released.                       *)
Blames(g) == g.cause = IF Failed(g) THEN g.stat.call ELSE "none"

Left(g) == g.held \ g.refused

Same(g, h) ==
  h.ctx = g.ctx /\ h.held = g.held /\ h.refused = g.refused /\ h.reason = g.reason

(* A call changes the status, and blames itself if nothing failed before.  *)
LEMMA CallEffect ==
  ASSUME NEW g \in Client, NEW call \in CallNames, NEW h \in Call(g, call)
  PROVE  /\ h \in Client /\ Same(g, h)
         /\ h.stat.call = call /\ h.len = g.len
         /\ g.cause = "none" => Blames(h)
<1>1. h = [g EXCEPT !.stat = [call |-> call, major |-> "complete"]] \/ h = Fail(g, call)
  BY DEF Call
<1>2. CASE h = [g EXCEPT !.stat = [call |-> call, major |-> "complete"]]
  <2>1. h \in Client
    <3>1. [call |-> call, major |-> "complete"] \in Statuses
      BY DEF Statuses
    <3> QED
      BY <1>2, <3>1 DEF Client
  <2>2. h.stat = [call |-> call, major |-> "complete"] /\ h.cause = g.cause
    BY <1>2 DEF Client
  <2>3. Same(g, h) /\ h.len = g.len
    BY <1>2 DEF Client, Same
  <2> QED
    BY <2>1, <2>2, <2>3 DEF Blames, Failed
<1>3. CASE h = Fail(g, call)
  <2>1. h \in Client
    <3>1. [call |-> call, major |-> "error"] \in Statuses
      BY DEF Statuses
    <3>2. (IF g.cause = "none" THEN call ELSE g.cause) \in CallNames
      BY DEF Client
    <3> QED
      BY <1>3, <3>1, <3>2 DEF Client, Fail
  <2>2. h.stat = [call |-> call, major |-> "error"] /\ (g.cause = "none" => h.cause = call)
    BY <1>3 DEF Client, Fail
  <2>3. Same(g, h) /\ h.len = g.len
    BY <1>3 DEF Client, Same, Fail
  <2> QED
    BY <2>1, <2>2, <2>3 DEF Blames, Failed
<1> QED
  BY <1>1, <1>2, <1>3

(* An object is held only when the call that obtains it succeeds.          *)
LEMMA ObtainEffect ==
  ASSUME NEW g \in Client, NEW object \in Objects, NEW call \in CallNames, NEW h \in Obtain(g, object, call)
  PROVE  /\ h \in Client /\ h.ctx = g.ctx /\ h.refused = g.refused /\ h.reason = g.reason /\ h.len = g.len
         /\ h.held = IF Failed(h) THEN g.held ELSE g.held \cup {object}
         /\ g.cause = "none" => Blames(h)
<1>1. PICK i \in Call(g, call) : h = IF Failed(i) THEN i ELSE [i EXCEPT !.held = @ \cup {object}]
  BY DEF Obtain
<1>2. i \in Client /\ h.stat = i.stat /\ h.cause = i.cause
  BY <1>1, CallEffect DEF Client
<1>3. Failed(h) <=> Failed(i)
  BY <1>2 DEF Failed
<1>4. h \in Client
  BY <1>1, <1>2 DEF Client
<1>5. h.ctx = g.ctx /\ h.refused = g.refused /\ h.reason = g.reason /\ h.len = g.len
  BY <1>1, <1>2, CallEffect DEF Client, Same
<1>6. h.held = IF Failed(h) THEN g.held ELSE g.held \cup {object}
  <2>1. i.held = g.held
    BY CallEffect DEF Same
  <2>2. h.held = IF Failed(i) THEN i.held ELSE i.held \cup {object}
    BY <1>1, <1>2 DEF Client
  <2> QED
    BY <1>3, <2>1, <2>2
<1>7. g.cause = "none" => Blames(h)
  BY <1>2, CallEffect DEF Blames, Failed
<1> QED
  BY <1>4, <1>5, <1>6, <1>7

(* What a release fails to give back is refused: it counts as left no more. *)
LEMMA ReleaseEffect ==
  ASSUME NEW g \in Client, NEW object \in Objects, NEW call \in CallNames, NEW h \in Release(g, object, call)
  PROVE  /\ h \in Client /\ h.ctx = g.ctx /\ h.reason = g.reason /\ h.len = g.len
         /\ g.held \ {object} \subseteq h.held
         /\ Left(h) = Left(g) \ {object}
         /\ g.cause = "none" => Blames(h)
<1>1. PICK i \in Call(g, call) :
         h = IF Failed(i) THEN [i EXCEPT !.refused = @ \cup {object}]
             ELSE [i EXCEPT !.held = @ \ {object}]
  BY DEF Release
<1>2. h \in Client /\ h.stat = i.stat /\ h.cause = i.cause
  BY <1>1, CallEffect DEF Client, Same
<1>3. h.ctx = g.ctx /\ h.reason = g.reason /\ h.len = g.len
  BY <1>1, CallEffect DEF Client, Same
<1>4. g.held \ {object} \subseteq h.held /\ Left(h) = Left(g) \ {object}
  BY <1>1, CallEffect DEF Client, Same, Left
<1>5. g.cause = "none" => Blames(h)
  BY <1>2, CallEffect DEF Blames, Failed
<1> QED BY <1>2, <1>3, <1>4, <1>5

(* A release whose status is ignored does the same, and blames nobody.     *)
LEMMA QuietEffect ==
  ASSUME NEW g \in Client, NEW object \in Objects, NEW call \in CallNames,
         NEW h \in ReleaseQuietly(g, object, call)
  PROVE  /\ h \in Client /\ h.ctx = g.ctx /\ h.reason = g.reason
         /\ h.stat = g.stat /\ h.cause = g.cause
         /\ g.held \ {object} \subseteq h.held
         /\ Left(h) = Left(g) \ {object}
<1>1. PICK i \in Release(g, object, call) : h = [i EXCEPT !.stat = g.stat, !.cause = g.cause]
  BY DEF ReleaseQuietly
<1>2. i \in Client /\ i.ctx = g.ctx /\ i.reason = g.reason
  BY ReleaseEffect
<1>3. h \in Client /\ h.stat = g.stat /\ h.cause = g.cause
  BY <1>1, <1>2 DEF Client
<1>4. h.held = i.held /\ h.refused = i.refused /\ h.ctx = i.ctx /\ h.reason = i.reason
  BY <1>1, <1>2 DEF Client
<1>5. g.held \ {object} \subseteq i.held /\ Left(i) = Left(g) \ {object}
  BY ReleaseEffect
<1> QED
  BY <1>2, <1>3, <1>4, <1>5 DEF Left

(* The instances call the library by the same definitions.                 *)
LEMMA GssapiNames ==
  ASSUME NEW g, NEW object, NEW call
  PROVE  /\ Gssapi!Failed(g) = Failed(g)
         /\ Gssapi!Fail(g, call) = Fail(g, call)
         /\ Gssapi!Call(g, call) = Call(g, call)
         /\ Gssapi!Obtain(g, object, call) = Obtain(g, object, call)
         /\ Gssapi!Release(g, object, call) = Release(g, object, call)
         /\ Gssapi!ReleaseQuietly(g, object, call) = ReleaseQuietly(g, object, call)
         /\ Gssapi!Tokens(g) = Tokens(g)
BY DEF Gssapi!Failed, Failed, Gssapi!Fail, Fail, Gssapi!Call, Call, Gssapi!Obtain, Obtain,
  Gssapi!Release, Release, Gssapi!ReleaseQuietly, ReleaseQuietly, Gssapi!Tokens, Tokens

(* The same of SSPI.                                                       *)
LEMMA SspiNames ==
  ASSUME NEW g, NEW object, NEW call
  PROVE  /\ Sspi!Failed(g) = Failed(g)
         /\ Sspi!Fail(g, call) = Fail(g, call)
         /\ Sspi!Call(g, call) = Call(g, call)
         /\ Sspi!Obtain(g, object, call) = Obtain(g, object, call)
         /\ Sspi!ReleaseQuietly(g, object, call) = ReleaseQuietly(g, object, call)
         /\ Sspi!Tokens(g) = Tokens(g)
BY DEF Sspi!Failed, Failed, Sspi!Fail, Fail, Sspi!Call, Call, Sspi!Obtain, Obtain,
  Sspi!Release, Release, Sspi!ReleaseQuietly, ReleaseQuietly, Sspi!Tokens, Tokens

(* The calls and the objects of the handlers. *)
LEMMA Named ==
  /\ GssapiCalls \subseteq CallNames /\ SspiCalls \subseteq CallNames
  /\ {"none", "unknown"} \subseteq CallNames
  /\ {"import_name", "canonicalize_name", "release_name", "acquire_cred",
      "init_sec_context", "inquire_cred", "display_name", "wrap", "release_buffer",
      "delete_sec_context", "release_cred", "display_status"} \subseteq CallNames
  /\ {"LoadLibrary", "GetProcAddress", "InitSecurityInterface", "AcquireCredentialsHandle",
      "InitializeSecurityContext", "QueryCredentialsAttributes", "QueryContextAttributes",
      "EncryptMessage", "FreeContextBuffer", "DeleteSecurityContext",
      "FreeCredentialsHandle"} \subseteq CallNames
BY DEF CallNames, GssapiCalls, SspiCalls

(* What a part of a handler may do to a client, but for obtaining a context. *)
Kept == {"ctx", "spn", "cred"}

Passes(g, h) ==
  /\ h \in Client /\ Blames(h) /\ h.ctx = g.ctx
  /\ Left(h) \subseteq Left(g) /\ g.held \cap Kept \subseteq h.held

(* Parts in a row, a call, and a token in hand.                            *)
LEMMA PassesTransitive ==
  ASSUME NEW g, NEW h, NEW i, Passes(g, h), Passes(h, i) PROVE Passes(g, i)
BY DEF Passes

(* A call passes a client on.                                              *)
LEMMA CallPasses ==
  ASSUME NEW g \in Client, g.cause = "none", NEW call \in CallNames, NEW h \in Call(g, call)
  PROVE  Passes(g, h)
BY CallEffect DEF Passes, Same, Left

(* A token is the only thing the library adds by itself.                   *)
LEMMA TokenEffect ==
  ASSUME NEW g \in Client, NEW t \in Tokens(g)
  PROVE  /\ t \in Client /\ t.ctx = g.ctx /\ t.stat = g.stat /\ t.cause = g.cause
         /\ t.reason = g.reason /\ t.refused = g.refused
         /\ t.held = IF t.len = 0 THEN g.held ELSE g.held \cup {"token"}
<1>1. CASE t = [g EXCEPT !.len = 0]
  BY <1>1 DEF Client
<1>2. CASE t = [g EXCEPT !.len = 1, !.held = @ \cup {"token"}]
  <2>1. t \in Client
    BY <1>2 DEF Client, Objects
  <2> QED
    BY <1>2, <2>1 DEF Client
<1> QED
  BY <1>1, <1>2 DEF Tokens

(* A token of GSSAPI is copied and given back. *)
LEMMA GssapiTokenPasses ==
  ASSUME NEW g \in Client, ~Failed(g), g.cause = "none",
         NEW t \in Gssapi!NewTokens(g), NEW j \in Gssapi!TakeToken(t)
  PROVE  Passes(g, j)
<1>1. PICK u \in Tokens(g) : t = [u EXCEPT !.cap = u.len]
  BY GssapiNames DEF Gssapi!NewTokens
<1>2. /\ u \in Client /\ u.ctx = g.ctx /\ u.stat = g.stat /\ u.cause = g.cause
      /\ u.reason = g.reason /\ u.refused = g.refused
      /\ u.held = IF u.len = 0 THEN g.held ELSE g.held \cup {"token"}
  BY TokenEffect
<1>3. /\ t \in Client /\ t.ctx = g.ctx /\ t.stat = g.stat /\ t.cause = "none"
      /\ t.refused = g.refused /\ t.held = u.held /\ t.len = u.len
  BY <1>1, <1>2 DEF Client
<1>4. CASE t.len = 0
  BY <1>2, <1>3, <1>4 DEF Gssapi!TakeToken, Passes, Blames, Failed, Left
<1>5. CASE t.len # 0
  <2>1. j \in Release(t, "token", "release_buffer")
    BY <1>5, GssapiNames DEF Gssapi!TakeToken
  <2>2. "token" \in Objects /\ "release_buffer" \in CallNames /\ "token" \notin Kept
    BY Named DEF Objects, Kept
  <2>3. /\ j \in Client /\ j.ctx = t.ctx /\ Blames(j)
        /\ t.held \ {"token"} \subseteq j.held /\ Left(j) = Left(t) \ {"token"}
    BY <1>3, <2>1, <2>2, ReleaseEffect
  <2>4. Left(t) \ {"token"} \subseteq Left(g) /\ g.held \subseteq t.held
    BY <1>2, <1>3 DEF Left
  <2> QED
    BY <1>3, <2>2, <2>3, <2>4 DEF Passes
<1> QED
  BY <1>4, <1>5

(* What a step may do to a client that keeps its credentials: the context it *)
(* has is one the library holds.                                             *)
Steps(g, state, h) ==
  /\ h \in Client /\ Blames(h)
  /\ Left(h) \subseteq Left(g) \cup {"ctx"} /\ g.held \cap Kept \subseteq h.held
  /\ h.ctx = g.ctx \/ "ctx" \in h.held
  /\ state # "SASL_START" => h.ctx = g.ctx
  /\ state = "SASL_START" /\ ~Failed(h) => h.ctx = h.stat.major /\ "ctx" \in h.held

(* The context begins to be held before its negotiation has an answer.     *)
LEMMA WithContext ==
  ASSUME NEW g \in Client
  PROVE  LET h == [g EXCEPT !.held = @ \cup {"ctx"}]
         IN  /\ h \in Client /\ h.stat = g.stat /\ h.cause = g.cause /\ h.ctx = g.ctx
             /\ h.held = g.held \cup {"ctx"} /\ h.refused = g.refused
BY DEF Client, Objects

(* client_negotiate of GSSAPI: without a target name it fails.             *)
LEMMA GssapiNegotiates ==
  ASSUME NEW g \in Client, g.cause = "none", NEW h \in Gssapi!ClientNegotiate(g)
  PROVE  /\ Steps(g, "SASL_START", h)
         /\ ~Failed(h) => "spn" \in g.held
<1>1. CASE "spn" \notin g.held
  <2>1. h = Fail(g, "init_sec_context")
    <3>1. Gssapi!ClientNegotiate(g) = {Gssapi!Fail(g, "init_sec_context")}
      BY <1>1 DEF Gssapi!ClientNegotiate
    <3> QED
      BY <3>1, GssapiNames
  <2>2. h.stat.major = "error"
    BY <2>1 DEF Fail, Client
  <2>3. "init_sec_context" \in CallNames
    BY Named
  <2>4. /\ h \in Client /\ h.cause = "init_sec_context" /\ h.stat.call = "init_sec_context"
        /\ h.ctx = g.ctx /\ h.held = g.held /\ h.refused = g.refused
    <3>1. [call |-> "init_sec_context", major |-> "error"] \in Statuses
      BY <2>3 DEF Statuses
    <3> QED
      BY <2>1, <2>3, <3>1 DEF Fail, Client
  <2> QED
    BY <1>1, <2>2, <2>4 DEF Steps, Blames, Failed, Left
<1>2. CASE "spn" \in g.held
  <2>0. Gssapi!ClientNegotiate(g) =
          UNION {IF Gssapi!Failed(i) THEN {i} ELSE Gssapi!TakeAnswer(i) :
                   i \in Gssapi!Call(g, "init_sec_context")}
    BY <1>2 DEF Gssapi!ClientNegotiate, Gssapi!Then
  <2>1. PICK i \in Call(g, "init_sec_context") :
          h \in IF Failed(i) THEN {i} ELSE Gssapi!TakeAnswer(i)
    BY <2>0, GssapiNames
  <2>2. Passes(g, i)
    BY Named, CallPasses
  <2>3. CASE Failed(i)
    <3>1. h = i
      BY <2>1, <2>3
    <3> QED
      BY <1>2, <2>2, <2>3, <3>1 DEF Steps, Passes
  <2>4. CASE ~Failed(i)
    <3> DEFINE k == [i EXCEPT !.held = @ \cup {"ctx"}]
               Results(t, major) == {Gssapi!Negotiated(j, major) : j \in Gssapi!TakeToken(t)}
    <3>9. h \in Gssapi!TakeAnswer(i)
      BY <2>1, <2>4
    <3>0. PICK t \in Gssapi!NewTokens(k), major \in {"complete", "continue"} :
                 h \in Results(t, major)
      <4>1. Gssapi!TakeAnswer(i) =
              UNION {Results(t, major) : t \in Gssapi!NewTokens(k),
                                         major \in {"complete", "continue"}}
        BY DEF Gssapi!TakeAnswer
      <4> HIDE DEF Results, k
      <4> QED
        BY <3>9, <4>1
    <3>1. PICK j \in Gssapi!TakeToken(t) : h = Gssapi!Negotiated(j, major)
      BY <3>0
    <3>2. /\ k \in Client /\ k.stat = i.stat /\ k.cause = i.cause /\ k.ctx = i.ctx
          /\ k.held = i.held \cup {"ctx"} /\ k.refused = i.refused
      BY <2>2, WithContext DEF Passes
    <3> HIDE DEF k
    <3>3. ~Failed(k) /\ k.cause = "none"
      BY <2>2, <2>4, <3>2 DEF Passes, Blames, Failed
    <3>4. Passes(k, j)
      BY <3>1, <3>2, <3>3, GssapiTokenPasses
    <3>5. Left(k) \subseteq Left(g) \cup {"ctx"} /\ g.held \cap Kept \subseteq k.held
          /\ "ctx" \in k.held \cap Kept /\ k.ctx = g.ctx
      BY <2>2, <3>2 DEF Passes, Left, Kept
    <3>6. Left(j) \subseteq Left(g) \cup {"ctx"} /\ g.held \cap Kept \subseteq j.held
          /\ "ctx" \in j.held /\ j.ctx = g.ctx /\ j \in Client /\ Blames(j)
      BY <3>4, <3>5 DEF Passes
    <3>7. CASE Failed(j)
      <4>1. h = j
        BY <3>1, <3>7, GssapiNames DEF Gssapi!Negotiated
      <4> QED
        BY <1>2, <3>6, <3>7, <4>1 DEF Steps
    <3>8. CASE ~Failed(j)
      <4>1. h = [j EXCEPT !.ctx = major,
                          !.stat = [call |-> "init_sec_context", major |-> major]]
        BY <3>1, <3>8, GssapiNames DEF Gssapi!Negotiated
      <4>2. [call |-> "init_sec_context", major |-> major] \in Statuses
        BY Named DEF Statuses
      <4>3. h \in Client /\ h.ctx = major
        BY <3>6, <4>1, <4>2 DEF Client
      <4>4. h.stat.major = major
        BY <3>6, <4>1 DEF Client
      <4>5. h.cause = j.cause /\ h.held = j.held /\ h.refused = j.refused
        BY <3>6, <4>1 DEF Client
      <4>6. Blames(h)
        BY <3>6, <3>8, <4>4, <4>5 DEF Blames, Failed
      <4>7. Left(h) = Left(j)
        BY <4>5 DEF Left
      <4> QED
        BY <1>2, <3>6, <4>3, <4>4, <4>5, <4>6, <4>7 DEF Steps
    <3> QED
      BY <3>7, <3>8
  <2> QED
    BY <2>3, <2>4
<1> QED
  BY <1>1, <1>2

(* display_name: name and text are given back, whichever call fails.       *)
LEMMA GssapiUsernamePasses ==
  ASSUME NEW g \in Client, g.cause = "none", NEW h \in Gssapi!ClientUsername(g)
  PROVE  Passes(g, h)
<1>1. PICK n \in Obtain(g, "name", "inquire_cred") :
        IF Failed(n) THEN h = n
        ELSE \E i \in Obtain(n, "text", "display_name") :
               IF Failed(i) THEN h \in ReleaseQuietly(i, "name", "release_name")
               ELSE \E j \in Release(i, "name", "release_name") :
                      IF Failed(j) THEN h \in ReleaseQuietly(j, "text", "release_buffer")
                      ELSE h \in Release(j, "text", "release_buffer")
  BY GssapiNames DEF Gssapi!ClientUsername, Gssapi!Then
<1>2. /\ "name" \in Objects /\ "text" \in Objects /\ "name" \notin Kept /\ "text" \notin Kept
      /\ "inquire_cred" \in CallNames /\ "display_name" \in CallNames
      /\ "release_name" \in CallNames /\ "release_buffer" \in CallNames
  BY Named DEF Objects, Kept
<1>3. /\ n \in Client /\ Blames(n) /\ n.ctx = g.ctx
      /\ g.held \subseteq n.held /\ Left(n) \subseteq Left(g) \cup {"name"}
      /\ Failed(n) => Left(n) = Left(g)
  <2>1. /\ n \in Client /\ Blames(n) /\ n.ctx = g.ctx /\ n.refused = g.refused
        /\ n.held = IF Failed(n) THEN g.held ELSE g.held \cup {"name"}
    BY <1>2, ObtainEffect
  <2> QED
    BY <2>1 DEF Left
<1>4. CASE Failed(n)
  BY <1>1, <1>3, <1>4 DEF Passes
<1>5. CASE ~Failed(n)
  <2>1. PICK i \in Obtain(n, "text", "display_name") :
          IF Failed(i) THEN h \in ReleaseQuietly(i, "name", "release_name")
          ELSE \E j \in Release(i, "name", "release_name") :
                 IF Failed(j) THEN h \in ReleaseQuietly(j, "text", "release_buffer")
                 ELSE h \in Release(j, "text", "release_buffer")
    BY <1>1, <1>5
  <2>2. n.cause = "none"
    BY <1>3, <1>5 DEF Blames
  <2>3. /\ i \in Client /\ Blames(i) /\ i.ctx = g.ctx /\ g.held \subseteq i.held
        /\ Left(i) \subseteq Left(g) \cup {"name", "text"}
        /\ Failed(i) => Left(i) \subseteq Left(g) \cup {"name"}
    <3>1. /\ i \in Client /\ Blames(i) /\ i.ctx = n.ctx /\ i.refused = n.refused
          /\ i.held = IF Failed(i) THEN n.held ELSE n.held \cup {"text"}
      BY <1>2, <1>3, <2>2, ObtainEffect
    <3> QED
      BY <1>3, <3>1 DEF Left
  <2>4. CASE Failed(i)
    <3>1. h \in ReleaseQuietly(i, "name", "release_name")
      BY <2>1, <2>4
    <3>2. /\ h \in Client /\ h.ctx = g.ctx /\ h.stat = i.stat /\ h.cause = i.cause
          /\ i.held \ {"name"} \subseteq h.held /\ Left(h) = Left(i) \ {"name"}
      BY <1>2, <2>3, <3>1, QuietEffect
    <3> QED
      BY <1>2, <2>3, <2>4, <3>2 DEF Passes, Blames, Failed
  <2>5. CASE ~Failed(i)
    <3>1. PICK j \in Release(i, "name", "release_name") :
            IF Failed(j) THEN h \in ReleaseQuietly(j, "text", "release_buffer")
            ELSE h \in Release(j, "text", "release_buffer")
      BY <2>1, <2>5
    <3>2. i.cause = "none"
      BY <2>3, <2>5 DEF Blames
    <3>3. /\ j \in Client /\ Blames(j) /\ j.ctx = g.ctx /\ i.held \ {"name"} \subseteq j.held
          /\ Left(j) \subseteq Left(g) \cup {"text"}
      BY <1>2, <2>3, <3>2, ReleaseEffect
    <3>4. CASE Failed(j)
      <4>1. h \in ReleaseQuietly(j, "text", "release_buffer")
        BY <3>1, <3>4
      <4>2. /\ h \in Client /\ h.ctx = g.ctx /\ h.stat = j.stat /\ h.cause = j.cause
            /\ j.held \ {"text"} \subseteq h.held /\ Left(h) = Left(j) \ {"text"}
        BY <1>2, <3>3, <4>1, QuietEffect
      <4> QED
        BY <1>2, <2>3, <3>3, <4>2 DEF Passes, Blames, Failed
    <3>5. CASE ~Failed(j)
      <4>1. h \in Release(j, "text", "release_buffer") /\ j.cause = "none"
        BY <3>1, <3>3, <3>5 DEF Blames
      <4>2. /\ h \in Client /\ h.ctx = g.ctx /\ Blames(h)
            /\ j.held \ {"text"} \subseteq h.held /\ Left(h) = Left(j) \ {"text"}
        BY <1>2, <3>3, <4>1, ReleaseEffect
      <4> QED
        BY <1>2, <2>3, <3>3, <4>2 DEF Passes
    <3> QED
      BY <3>4, <3>5
  <2> QED
    BY <2>4, <2>5
<1> QED
  BY <1>4, <1>5

(* client_wrap of GSSAPI.                                                  *)
LEMMA GssapiWrapPasses ==
  ASSUME NEW g \in Client, g.cause = "none", NEW h \in Gssapi!ClientWrap(g)
  PROVE  Passes(g, h)
<1>1. PICK i \in Call(g, "wrap") :
        IF Failed(i) THEN h = i
        ELSE \E t \in Gssapi!NewTokens(i) : h \in Gssapi!TakeToken(t)
  BY GssapiNames DEF Gssapi!ClientWrap, Gssapi!Then
<1>2. Passes(g, i)
  BY Named, CallPasses
<1>3. CASE ~Failed(i)
  <2>1. PICK t \in Gssapi!NewTokens(i) : h \in Gssapi!TakeToken(t)
    BY <1>1, <1>3
  <2>2. i \in Client /\ i.cause = "none"
    BY <1>2, <1>3 DEF Passes, Blames
  <2> QED
    BY <1>2, <1>3, <2>1, <2>2, GssapiTokenPasses, PassesTransitive
<1> QED
  BY <1>1, <1>2, <1>3

(* client_step of GSSAPI.                                                  *)
LEMMA GssapiSteps ==
  ASSUME NEW g \in Client, g.cause = "none", NEW state, NEW h \in Gssapi!ClientStep(g, state)
  PROVE  /\ Steps(g, state, h)
         /\ state = "SASL_START" /\ ~Failed(h) => "spn" \in g.held
<1>1. CASE state = "SASL_START"
  BY <1>1, GssapiNegotiates DEF Gssapi!ClientStep
<1>2. CASE state # "SASL_START"
  <2>1. PICK i \in Gssapi!ClientUsername(g) :
          IF Failed(i) THEN h = i ELSE h \in Gssapi!ClientWrap(i)
    BY <1>2, GssapiNames DEF Gssapi!ClientStep, Gssapi!Then
  <2>2. Passes(g, i)
    BY GssapiUsernamePasses
  <2>3. ~Failed(i) => Passes(i, h)
    BY <2>1, <2>2, GssapiWrapPasses DEF Passes, Blames
  <2>4. Passes(g, h)
    BY <2>1, <2>2, <2>3, PassesTransitive
  <2> QED
    BY <1>2, <2>4 DEF Passes, Steps
<1> QED
  BY <1>1, <1>2

---------------------------------------------------------------------------
(* The steps of SSPI *)

(* client_negotiate of SSPI: its token is freed.                           *)
LEMMA SspiNegotiates ==
  ASSUME NEW g \in Client, g.cause = "none", NEW h \in Sspi!ClientNegotiate(g)
  PROVE  Steps(g, "SASL_START", h)
<1>0. Sspi!ClientNegotiate(g) =
        UNION {IF Sspi!Failed(i) THEN {i} ELSE Sspi!TakeAnswer(i) :
                 i \in Sspi!Call(g, "InitializeSecurityContext")}
  BY DEF Sspi!ClientNegotiate, Sspi!Then
<1>1. PICK i \in Call(g, "InitializeSecurityContext") :
        h \in IF Failed(i) THEN {i} ELSE Sspi!TakeAnswer(i)
  BY <1>0, SspiNames
<1>2. Passes(g, i) /\ i.stat.call = "InitializeSecurityContext"
  BY Named, CallPasses, CallEffect
<1>3. CASE Failed(i)
  <2>1. h = i
    BY <1>1, <1>3
  <2> QED
    BY <1>2, <1>3, <2>1 DEF Steps, Passes
<1>4. CASE ~Failed(i)
  <2> DEFINE k == [i EXCEPT !.held = @ \cup {"ctx"}]
             Answer(t, major) == [t EXCEPT !.ctx = major, !.cap = 1, !.stat.major = major]
             Results(t, major) ==
               Sspi!ReleaseQuietly(Answer(t, major), "token", "FreeContextBuffer")
  <2>1. h \in Sspi!TakeAnswer(i)
    BY <1>1, <1>4
  <2>2. Sspi!TakeAnswer(i) = UNION {Results(t, major) : t \in Sspi!Tokens(k),
                                                        major \in {"complete", "continue"}}
    BY DEF Sspi!TakeAnswer
  <2>3. PICK t \in Tokens(k), major \in {"complete", "continue"} : h \in Results(t, major)
    <3> HIDE DEF Results, k
    <3> QED
      BY <2>1, <2>2, SspiNames
  <2>4. /\ k \in Client /\ k.stat = i.stat /\ k.cause = i.cause /\ k.ctx = i.ctx
        /\ k.held = i.held \cup {"ctx"} /\ k.refused = i.refused
    BY <1>2, WithContext DEF Passes
  <2> HIDE DEF k
  <2>5. /\ t \in Client /\ t.ctx = k.ctx /\ t.stat = k.stat /\ t.cause = k.cause
        /\ t.refused = k.refused
        /\ t.held = IF t.len = 0 THEN k.held ELSE k.held \cup {"token"}
    BY <2>4, TokenEffect
  <2> DEFINE a == Answer(t, major)
  <2>6. a \in Client
    <3>1. [t.stat EXCEPT !.major = major] \in Statuses
      BY <2>5 DEF Client, Statuses
    <3>2. 1 \in Nat
      OBVIOUS
    <3> QED
      BY <2>5, <3>1, <3>2 DEF Client
  <2>7. /\ a.ctx = major /\ a.held = t.held /\ a.refused = t.refused /\ a.cause = t.cause
        /\ a.stat = [t.stat EXCEPT !.major = major]
    BY <2>5 DEF Client
  <2>8. a.stat.major = major
    BY <2>5, <2>7 DEF Client, Statuses
  <2>9. h \in ReleaseQuietly(a, "token", "FreeContextBuffer")
    BY <2>3, SspiNames
  <2> HIDE DEF a
  <2>10. /\ h \in Client /\ h.ctx = a.ctx /\ h.stat = a.stat /\ h.cause = a.cause
         /\ a.held \ {"token"} \subseteq h.held /\ Left(h) = Left(a) \ {"token"}
    <3>1. "token" \in Objects /\ "FreeContextBuffer" \in CallNames
      BY Named DEF Objects
    <3> QED
      BY <2>6, <2>9, <3>1, QuietEffect
  <2>11. "token" \notin Kept /\ "ctx" \in Kept
    BY DEF Kept
  <2>12. Left(h) \subseteq Left(g) \cup {"ctx"}
    BY <1>2, <2>4, <2>5, <2>7, <2>10 DEF Passes, Left
  <2>13. g.held \cap Kept \subseteq h.held /\ "ctx" \in h.held
    BY <1>2, <2>4, <2>5, <2>7, <2>10, <2>11 DEF Passes
  <2>14. h.cause = "none" /\ h.stat.major = major /\ ~Failed(h)
    BY <1>2, <1>4, <2>4, <2>5, <2>7, <2>8, <2>10 DEF Passes, Blames, Failed
  <2> QED
    BY <2>7, <2>10, <2>12, <2>13, <2>14 DEF Steps, Blames
<1> QED
  BY <1>3, <1>4

(* client_username of SSPI: the names are freed.                           *)
LEMMA SspiUsernamePasses ==
  ASSUME NEW g \in Client, g.cause = "none", NEW h \in Sspi!ClientUsername(g)
  PROVE  Passes(g, h)
<1>1. PICK n \in Obtain(g, "name", "QueryCredentialsAttributes") :
        IF Failed(n) THEN h = n ELSE h \in ReleaseQuietly(n, "name", "FreeContextBuffer")
  BY SspiNames DEF Sspi!ClientUsername, Sspi!Then
<1>2. /\ "name" \in Objects /\ "name" \notin Kept
      /\ "QueryCredentialsAttributes" \in CallNames /\ "FreeContextBuffer" \in CallNames
  BY Named DEF Objects, Kept
<1>3. /\ n \in Client /\ Blames(n) /\ n.ctx = g.ctx /\ n.refused = g.refused
      /\ n.held = IF Failed(n) THEN g.held ELSE g.held \cup {"name"}
  <2>1. n \in Obtain(g, "name", "QueryCredentialsAttributes")
    OBVIOUS
  <2> QED
    <3> DEFINE call == "QueryCredentialsAttributes"
    <3>1. call \in CallNames /\ n \in Obtain(g, "name", call)
      BY <1>2, <2>1
    <3> HIDE DEF call
    <3> QED
      BY <1>2, <3>1, ObtainEffect
<1>4. CASE Failed(n)
  BY <1>1, <1>3, <1>4 DEF Passes, Left
<1>5. CASE ~Failed(n)
  <2>1. h \in ReleaseQuietly(n, "name", "FreeContextBuffer")
    BY <1>1, <1>5
  <2>2. /\ h \in Client /\ h.ctx = n.ctx /\ h.stat = n.stat /\ h.cause = n.cause
        /\ n.held \ {"name"} \subseteq h.held /\ Left(h) = Left(n) \ {"name"}
    BY <1>2, <1>3, <2>1, QuietEffect
  <2>3. Blames(h)
    BY <1>3, <2>2 DEF Blames, Failed
  <2>4. Left(h) \subseteq Left(g) /\ g.held \cap Kept \subseteq h.held
    BY <1>2, <1>3, <1>5, <2>2 DEF Left
  <2> QED
    BY <1>3, <2>2, <2>3, <2>4 DEF Passes
<1> QED
  BY <1>4, <1>5

(* client_wrap of SSPI.                                                    *)
LEMMA SspiWrapPasses ==
  ASSUME NEW g \in Client, g.cause = "none", NEW h \in Sspi!ClientWrap(g)
  PROVE  Passes(g, h)
<1>1. PICK m \in Sspi!Then(Sspi!Call(g, "QueryContextAttributes"),
                          LAMBDA i : Sspi!Call(i, "EncryptMessage")) :
        IF Failed(m) THEN h = m ELSE h = [m EXCEPT !.len = 1, !.cap = 1]
  BY SspiNames DEF Sspi!ClientWrap, Sspi!Then
<1>2. PICK i \in Call(g, "QueryContextAttributes") :
        IF Failed(i) THEN m = i ELSE m \in Call(i, "EncryptMessage")
  BY SspiNames DEF Sspi!Then
<1>3. Passes(g, i)
  BY Named, CallPasses
<1>4. ~Failed(i) => Passes(i, m)
  BY <1>2, <1>3, Named, CallPasses DEF Passes, Blames
<1>5. Passes(g, m)
  BY <1>2, <1>3, <1>4, PassesTransitive
<1>6. CASE h = [m EXCEPT !.len = 1, !.cap = 1]
  <2>1. h \in Client /\ h.ctx = m.ctx /\ h.stat = m.stat /\ h.cause = m.cause
        /\ h.held = m.held /\ h.refused = m.refused
    BY <1>5, <1>6 DEF Passes, Client
  <2> QED
    BY <1>5, <2>1 DEF Passes, Blames, Failed, Left
<1> QED
  BY <1>1, <1>5, <1>6

(* client_step of SSPI.                                                    *)
LEMMA SspiSteps ==
  ASSUME NEW g \in Client, g.cause = "none", NEW state, NEW h \in Sspi!ClientStep(g, state)
  PROVE  Steps(g, state, h)
<1>1. CASE state = "SASL_START"
  BY <1>1, SspiNegotiates DEF Sspi!ClientStep
<1>2. CASE state # "SASL_START"
  <2>1. PICK i \in Sspi!ClientUsername(g) :
          IF Failed(i) THEN h = i ELSE h \in Sspi!ClientWrap(i)
    BY <1>2, SspiNames DEF Sspi!ClientStep, Sspi!Then
  <2>2. Passes(g, i)
    BY SspiUsernamePasses
  <2>3. ~Failed(i) => Passes(i, h)
    BY <2>1, <2>2, SspiWrapPasses DEF Passes, Blames
  <2>4. Passes(g, h)
    BY <2>1, <2>2, <2>3, PassesTransitive
  <2> QED
    BY <1>2, <2>4 DEF Passes, Steps
<1> QED
  BY <1>1, <1>2

---------------------------------------------------------------------------
(* Creating a client *)

(* What a part of an init may do. *)
Grows(g, h, objects) ==
  h \in Client /\ h.ctx = g.ctx /\ Left(h) \subseteq Left(g) \cup objects

(* canonicalize_name: the imported name is given back.                     *)
LEMMA GssapiCanonicalizes ==
  ASSUME NEW g \in Client, NEW name \in {"user", "spn"}, NEW h \in Gssapi!CanonicalizeName(g, name)
  PROVE  Grows(g, h, {name})
<1>1. PICK m \in Obtain(g, "imported", "import_name") :
        IF Failed(m) THEN h = m
        ELSE \E i \in Obtain(m, name, "canonicalize_name") :
               h \in Release(i, "imported", "release_name")
  BY GssapiNames DEF Gssapi!CanonicalizeName, Gssapi!Then
<1>2. /\ "imported" \in Objects /\ name \in Objects
      /\ "import_name" \in CallNames /\ "canonicalize_name" \in CallNames
      /\ "release_name" \in CallNames
  BY Named DEF Objects
<1>3. /\ m \in Client /\ m.ctx = g.ctx /\ m.refused = g.refused
      /\ m.held = IF Failed(m) THEN g.held ELSE g.held \cup {"imported"}
  <2> DEFINE call == "import_name"
  <2>1. call \in CallNames /\ m \in Obtain(g, "imported", call)
    BY <1>2
  <2> HIDE DEF call
  <2> QED
    BY <1>2, <2>1, ObtainEffect
<1>4. CASE Failed(m)
  BY <1>1, <1>3, <1>4 DEF Grows, Left
<1>5. CASE ~Failed(m)
  <2>1. PICK i \in Obtain(m, name, "canonicalize_name") :
          h \in Release(i, "imported", "release_name")
    BY <1>1, <1>5
  <2>2. /\ i \in Client /\ i.ctx = m.ctx /\ i.refused = m.refused
        /\ i.held = IF Failed(i) THEN m.held ELSE m.held \cup {name}
    BY <1>2, <1>3, ObtainEffect
  <2>3. h \in Client /\ h.ctx = i.ctx /\ Left(h) = Left(i) \ {"imported"}
    BY <1>2, <2>1, <2>2, ReleaseEffect
  <2> QED
    BY <1>3, <2>2, <2>3 DEF Grows, Left
<1> QED
  BY <1>4, <1>5

(* acquire_cred: credentials are held when it succeeds.                    *)
LEMMA GssapiAcquires ==
  ASSUME NEW g \in Client, NEW h \in Gssapi!AcquireCred(g)
  PROVE  Grows(g, h, {"cred"}) /\ (~Failed(h) => "cred" \in h.held)
<1>0. "acquire_cred" \in CallNames /\ "cred" \in Objects
  BY Named DEF Objects
<1>1. CASE h = Fail(g, "acquire_cred")
  <2>1. [call |-> "acquire_cred", major |-> "error"] \in Statuses
    BY <1>0 DEF Statuses
  <2>2. h \in Client /\ h.ctx = g.ctx /\ h.held = g.held /\ h.refused = g.refused
    BY <1>0, <1>1, <2>1 DEF Fail, Client
  <2>3. h.stat.major = "error"
    BY <1>1 DEF Fail, Client
  <2> QED
    BY <2>2, <2>3 DEF Grows, Left, Failed
<1>2. ASSUME NEW i \in Obtain(g, "cred", "acquire_cred"), NEW name \in {"user", "default"},
             h = IF Failed(i) THEN i ELSE [i EXCEPT !.cred = name]
      PROVE  Grows(g, h, {"cred"}) /\ (~Failed(h) => "cred" \in h.held)
  <2>1. /\ i \in Client /\ i.ctx = g.ctx /\ i.refused = g.refused
        /\ i.held = IF Failed(i) THEN g.held ELSE g.held \cup {"cred"}
    BY <1>0, ObtainEffect
  <2>2. /\ h \in Client /\ h.ctx = i.ctx /\ h.held = i.held /\ h.refused = i.refused
        /\ h.stat = i.stat
    BY <1>2, <2>1 DEF Client
  <2> QED
    BY <2>1, <2>2 DEF Grows, Left, Failed
<1>3. \/ h = Fail(g, "acquire_cred")
      \/ \E i \in Obtain(g, "cred", "acquire_cred"), name \in {"user", "default"} :
           h = IF Failed(i) THEN i ELSE [i EXCEPT !.cred = name]
  BY GssapiNames DEF Gssapi!AcquireCred
<1> QED
  BY <1>1, <1>2, <1>3

(* The release of the user's name keeps the failure before it.             *)
LEMMA GssapiReleasesUser ==
  ASSUME NEW g \in Client, NEW h \in Gssapi!ReleaseUser(g)
  PROVE  /\ h \in Client /\ h.ctx = g.ctx
         /\ Left(h) \subseteq Left(g) \ {"user"}
         /\ g.held \ {"user"} \subseteq h.held
         /\ Failed(g) => Failed(h)
<1>1. CASE "user" \notin g.held
  BY <1>1 DEF Gssapi!ReleaseUser, Left
<1>2. CASE "user" \in g.held
  <2>1. PICK i \in Release(g, "user", "release_name") :
          h = IF Failed(g) \/ ~Failed(i) THEN [i EXCEPT !.stat = g.stat] ELSE i
    BY <1>2, GssapiNames DEF Gssapi!ReleaseUser
  <2>2. "user" \in Objects /\ "release_name" \in CallNames
    BY Named DEF Objects
  <2>3. /\ i \in Client /\ i.ctx = g.ctx /\ g.held \ {"user"} \subseteq i.held
        /\ Left(i) = Left(g) \ {"user"}
    BY <2>2, ReleaseEffect
  <2>4. /\ h \in Client /\ h.ctx = i.ctx /\ h.held = i.held /\ h.refused = i.refused
        /\ Failed(g) => h.stat = g.stat
    BY <2>1, <2>3 DEF Client
  <2> QED
    BY <2>3, <2>4 DEF Left, Failed
<1> QED
  BY <1>1, <1>2

(* What is left of an init: the name of the user only if it fails. *)
Created(h) ==
  /\ h \in Client /\ h.ctx = "none"
  /\ Left(h) \subseteq {"spn", "cred"} \cup
       IF Failed(h) /\ build = "gssapi" THEN {"user"} ELSE {}
  /\ ~Failed(h) => "cred" \in h.held /\ (build = "sspi" => "spn" \in h.held)

(* At first nothing is held.                                               *)
LEMMA NoClientCreated ==
  NoClient \in Client /\ NoClient.ctx = "none" /\ NoClient.held = {} /\ Left(NoClient) = {}
<1>1. "none" \in CallNames
  BY Named
<1>2. [call |-> "none", major |-> "complete"] \in Statuses
  BY <1>1 DEF Statuses
<1> QED
  BY <1>1, <1>2 DEF NoClient, Client, Left

(* client_init of GSSAPI.                                                  *)
LEMMA GssapiCreates ==
  ASSUME build = "gssapi", NEW h \in Gssapi!ClientInit(NoClient)
  PROVE  Created(h)
<1>1. PICK u \in Gssapi!CanonicalizeName(NoClient, "user") :
        IF Failed(u) THEN h = u
        ELSE \E n \in Gssapi!CanonicalizeName(u, "spn") :
               IF Failed(n) THEN h = n
               ELSE \E c \in Gssapi!AcquireCred(n) : h \in Gssapi!ReleaseUser(c)
  BY GssapiNames DEF Gssapi!ClientInit, Gssapi!Then
<1>2. u \in Client /\ u.ctx = "none" /\ Left(u) \subseteq {"user"}
  BY NoClientCreated, GssapiCanonicalizes DEF Grows
<1>3. CASE Failed(u)
  BY <1>1, <1>2, <1>3 DEF Created
<1>4. CASE ~Failed(u)
  <2>1. PICK n \in Gssapi!CanonicalizeName(u, "spn") :
          IF Failed(n) THEN h = n
          ELSE \E c \in Gssapi!AcquireCred(n) : h \in Gssapi!ReleaseUser(c)
    BY <1>1, <1>4
  <2>2. n \in Client /\ n.ctx = "none" /\ Left(n) \subseteq {"user", "spn"}
    BY <1>2, GssapiCanonicalizes DEF Grows
  <2>3. CASE Failed(n)
    BY <2>1, <2>2, <2>3 DEF Created
  <2>4. CASE ~Failed(n)
    <3>1. PICK c \in Gssapi!AcquireCred(n) : h \in Gssapi!ReleaseUser(c)
      BY <2>1, <2>4
    <3>2. /\ c \in Client /\ c.ctx = "none" /\ Left(c) \subseteq {"user", "spn", "cred"}
          /\ ~Failed(c) => "cred" \in c.held
      BY <2>2, GssapiAcquires DEF Grows
    <3>3. /\ h \in Client /\ h.ctx = c.ctx
          /\ Left(h) \subseteq Left(c) \ {"user"}
          /\ c.held \ {"user"} \subseteq h.held
          /\ Failed(c) => Failed(h)
      BY <3>1, <3>2, GssapiReleasesUser
    <3> QED
      BY <3>2, <3>3 DEF Created
  <2> QED
    BY <2>3, <2>4
<1> QED
  BY <1>3, <1>4

(* client_init of SSPI.                                                    *)
LEMMA SspiCreates ==
  ASSUME build = "sspi", NEW h \in Sspi!ClientInit(NoClient)
  PROVE  Created(h)
<1>1. PICK g, call, i :
        /\ i \in Obtain(g, "cred", call)
        /\ g = [NoClient EXCEPT !.held = @ \cup {"spn"}]
        /\ call = "AcquireCredentialsHandle"
        /\ h = IF Failed(i) THEN i ELSE [i EXCEPT !.cred = "user"]
  <2>1. PICK i \in Obtain([NoClient EXCEPT !.held = @ \cup {"spn"}], "cred",
                          "AcquireCredentialsHandle") :
          h = IF Failed(i) THEN i ELSE [i EXCEPT !.cred = "user"]
    BY SspiNames DEF Sspi!ClientInit
  <2> QED
    BY <2>1
<1>2. call \in CallNames /\ "cred" \in Objects /\ i \in Obtain(g, "cred", call)
  BY <1>1, Named DEF Objects
<1>3. g \in Client /\ g.ctx = "none" /\ g.held = {"spn"}
  BY <1>1, NoClientCreated DEF Client, Objects
<1>4. /\ i \in Client /\ i.ctx = g.ctx /\ i.refused = g.refused
      /\ i.held = IF Failed(i) THEN g.held ELSE g.held \cup {"cred"}
  BY <1>2, <1>3, ObtainEffect
<1>5. /\ h \in Client /\ h.ctx = i.ctx /\ h.held = i.held /\ h.refused = i.refused
      /\ h.stat = i.stat
  BY <1>1, <1>4 DEF Client
<1> QED
  BY <1>3, <1>4, <1>5 DEF Created, Left, Failed

---------------------------------------------------------------------------
(* Logging a failure *)

Logs(g, h) ==
  /\ h \in Client /\ h.ctx = g.ctx /\ h.stat = g.stat /\ h.cause = g.cause
  /\ g.held \subseteq h.held /\ Left(h) \subseteq Left(g)
  /\ Failed(g) => h.reason \in {g.stat.call, "unknown"}

(* log_error keeps the status and names its call, or nothing.              *)
LEMMA LogEffect ==
  ASSUME NEW S, NEW h \in Logged(S), \A g \in S : g \in Client
  PROVE  \E g \in S : Logs(g, h)
<1>1. PICK g \in S :
        h \in IF ~Failed(g) THEN {g}
              ELSE IF build = "gssapi" THEN Gssapi!LogError(g) ELSE Sspi!LogError(g)
  BY DEF Logged
<1>2. g \in Client
  OBVIOUS
<1>3. CASE ~Failed(g)
  BY <1>1, <1>2, <1>3 DEF Logs
<1>4. CASE Failed(g)
  <2>0. g.stat.call \in CallNames /\ "unknown" \in CallNames
    BY <1>2, Named DEF Client, Statuses
  <2>1. \/ h \in {[g EXCEPT !.reason = g.stat.call], [g EXCEPT !.reason = "unknown"]}
        \/ h = [g EXCEPT !.reason = "unknown", !.held = @ \cup {"status"},
                         !.refused = @ \cup {"status"}]
    BY <1>1, <1>4 DEF Gssapi!LogError, Sspi!LogError
  <2>2. CASE h \in {[g EXCEPT !.reason = g.stat.call], [g EXCEPT !.reason = "unknown"]}
    <3>1. /\ h \in Client /\ h.ctx = g.ctx /\ h.stat = g.stat /\ h.cause = g.cause
          /\ h.held = g.held /\ h.refused = g.refused /\ h.reason \in {g.stat.call, "unknown"}
      BY <1>2, <2>0, <2>2 DEF Client
    <3> QED
      BY <3>1 DEF Logs, Left
  <2>3. CASE h = [g EXCEPT !.reason = "unknown", !.held = @ \cup {"status"},
                           !.refused = @ \cup {"status"}]
    <3>1. /\ h \in Client /\ h.ctx = g.ctx /\ h.stat = g.stat /\ h.cause = g.cause
          /\ h.reason = "unknown"
      BY <1>2, <2>0, <2>3 DEF Client, Objects
    <3>2. h.held = g.held \cup {"status"} /\ h.refused = g.refused \cup {"status"}
      BY <1>2, <2>3 DEF Client
    <3>3. Left(h) \subseteq Left(g)
      BY <3>2 DEF Left
    <3> QED
      BY <3>1, <3>2, <3>3 DEF Logs
  <2> QED
    BY <2>1, <2>2, <2>3
<1> QED
  BY <1>3, <1>4

(* The plugin is built with one of the two clients.                        *)
LEMMA BuildKnown ==
  ASSUME SaslInit PROVE build \in {"gssapi", "sspi"}
BY SaslAssumption DEF SaslInit

---------------------------------------------------------------------------
(* Destroying a client: what it holds but the target name of SSPI and the  *)
(* name of the user is given back, and what it reports stays.              *)
Destroys(g, h) ==
  /\ h \in Client /\ h.cause = g.cause /\ h.reason = g.reason
  /\ Left(h) \subseteq Left(g) \ {"ctx", "cred"}
  /\ build = "gssapi" => "spn" \notin Left(h)

(* One object, if it is held.                                              *)
LEMMA ReleasedIfHeld ==
  ASSUME NEW g \in Client, NEW object \in Objects, NEW call \in CallNames, NEW h,
         h \in IF object \in g.held THEN ReleaseQuietly(g, object, call) ELSE {g}
  PROVE  /\ h \in Client /\ h.cause = g.cause /\ h.reason = g.reason
         /\ Left(h) = Left(g) \ {object}
<1>1. CASE object \in g.held
  BY <1>1, QuietEffect
<1>2. CASE object \notin g.held
  BY <1>2 DEF Left
<1> QED
  BY <1>1, <1>2

(* client_destroy of GSSAPI.                                               *)
LEMMA GssapiDestroys ==
  ASSUME build = "gssapi", NEW g \in Client, NEW h \in Gssapi!ClientDestroy(g)
  PROVE  Destroys(g, h)
<1> DEFINE One(k, object, call) ==
             IF object \in k.held THEN Gssapi!ReleaseQuietly(k, object, call) ELSE {k}
           Two(k) == UNION {One(i, "cred", "release_cred") : i \in One(k, "spn", "release_name")}
<1>1. h \in UNION {Two(k) : k \in One(g, "ctx", "delete_sec_context")}
  BY DEF Gssapi!ClientDestroy
<1>2. PICK k \in One(g, "ctx", "delete_sec_context") : h \in Two(k)
  <2> HIDE DEF Two, One
  <2> QED
    BY <1>1
<1>3. PICK i \in One(k, "spn", "release_name") : h \in One(i, "cred", "release_cred")
  <2> HIDE DEF One
  <2> QED
    BY <1>2
<1>4. /\ {"ctx", "spn", "cred"} \subseteq Objects
      /\ {"delete_sec_context", "release_name", "release_cred"} \subseteq CallNames
  BY Named DEF Objects
<1>5. /\ k \in Client /\ k.cause = g.cause /\ k.reason = g.reason /\ Left(k) = Left(g) \ {"ctx"}
  <2>1. k \in IF "ctx" \in g.held THEN ReleaseQuietly(g, "ctx", "delete_sec_context") ELSE {g}
    BY <1>2, GssapiNames
  <2> QED
    BY <1>4, <2>1, ReleasedIfHeld
<1>6. /\ i \in Client /\ i.cause = k.cause /\ i.reason = k.reason /\ Left(i) = Left(k) \ {"spn"}
  <2>1. i \in IF "spn" \in k.held THEN ReleaseQuietly(k, "spn", "release_name") ELSE {k}
    BY <1>3, GssapiNames
  <2> QED
    BY <1>4, <1>5, <2>1, ReleasedIfHeld
<1>7. /\ h \in Client /\ h.cause = i.cause /\ h.reason = i.reason /\ Left(h) = Left(i) \ {"cred"}
  <2>1. h \in IF "cred" \in i.held THEN ReleaseQuietly(i, "cred", "release_cred") ELSE {i}
    BY <1>3, GssapiNames
  <2> QED
    BY <1>4, <1>6, <2>1, ReleasedIfHeld
<1> QED
  BY <1>5, <1>6, <1>7 DEF Destroys

(* client_destroy of SSPI.                                                 *)
LEMMA SspiDestroys ==
  ASSUME build = "sspi", NEW g \in Client, NEW h \in Sspi!ClientDestroy(g)
  PROVE  Destroys(g, h)
<1> DEFINE One(k, object, call) ==
             IF object \in k.held THEN Sspi!ReleaseQuietly(k, object, call) ELSE {k}
<1>1. h \in UNION {One(k, "cred", "FreeCredentialsHandle") :
                     k \in One(g, "ctx", "DeleteSecurityContext")}
  BY DEF Sspi!ClientDestroy
<1>2. PICK k \in One(g, "ctx", "DeleteSecurityContext") :
        h \in One(k, "cred", "FreeCredentialsHandle")
  <2> HIDE DEF One
  <2> QED
    BY <1>1
<1>4. /\ {"ctx", "cred"} \subseteq Objects
      /\ {"DeleteSecurityContext", "FreeCredentialsHandle"} \subseteq CallNames
  BY Named DEF Objects
<1>5. /\ k \in Client /\ k.cause = g.cause /\ k.reason = g.reason /\ Left(k) = Left(g) \ {"ctx"}
  <2>1. k \in IF "ctx" \in g.held THEN ReleaseQuietly(g, "ctx", "DeleteSecurityContext") ELSE {g}
    BY <1>2, SspiNames
  <2> QED
    BY <1>4, <2>1, ReleasedIfHeld
<1>7. /\ h \in Client /\ h.cause = k.cause /\ h.reason = k.reason /\ Left(h) = Left(k) \ {"cred"}
  <2>1. h \in IF "cred" \in k.held THEN ReleaseQuietly(k, "cred", "FreeCredentialsHandle") ELSE {k}
    BY <1>2, SspiNames
  <2> QED
    BY <1>4, <1>5, <2>1, ReleasedIfHeld
<1> QED
  BY <1>5, <1>7 DEF Destroys

(* client_destroy of the client that was built in.                         *)
LEMMA ClientDestroys ==
  ASSUME build \in {"gssapi", "sspi"}, NEW g \in Client, NEW h \in ClientDestroy(g)
  PROVE  Destroys(g, h)
BY GssapiDestroys, SspiDestroys DEF ClientDestroy

---------------------------------------------------------------------------
(* The handlers of the client that was built in, with their log            *)

(* An init that fails is logged.                                           *)
LEMMA LoggedCreated ==
  ASSUME NEW S, \A g \in S : Created(g), NEW h \in Logged(S)
  PROVE  Created(h)
<1>1. PICK g \in S : Logs(g, h)
  BY LogEffect DEF Created
<1>2. Created(g)
  OBVIOUS
<1>3. Failed(h) <=> Failed(g)
  BY <1>1 DEF Logs, Failed
<1> QED
  BY <1>1, <1>2, <1>3 DEF Created, Logs

(* sasl_init, also when the library could not be loaded.                   *)
LEMMA ClientCreated ==
  ASSUME build \in {"gssapi", "sspi"}, NEW load, build = "sspi" => load \in Sspi!Loads,
         NEW h \in ClientInit(load)
  PROVE  Created(h)
<1>1. CASE build = "gssapi"
  <2>1. h \in Logged(Gssapi!ClientInit(NoClient))
    BY <1>1 DEF ClientInit
  <2>2. \A g \in Gssapi!ClientInit(NoClient) : Created(g)
    BY <1>1, GssapiCreates
  <2> QED
    BY <2>1, <2>2, LoggedCreated
<1>2. CASE build = "sspi" /\ Sspi!Loaded(load)
  <2>1. h \in Logged(Sspi!ClientInit(NoClient))
    BY <1>2 DEF ClientInit
  <2>2. \A g \in Sspi!ClientInit(NoClient) : Created(g)
    BY <1>2, SspiCreates
  <2> QED
    BY <2>1, <2>2, LoggedCreated
<1>3. CASE build = "sspi" /\ ~Sspi!Loaded(load)
  <2>1. h = [Fail(NoClient, load) EXCEPT !.reason = "unknown"]
    BY <1>3 DEF ClientInit
  <2>2. load \in CallNames /\ "unknown" \in CallNames
    BY <1>3, Named DEF Sspi!Loads, Sspi!Loaded
  <2> DEFINE f == Fail(NoClient, load)
  <2>3. f \in Client /\ f.ctx = "none" /\ f.held = {} /\ f.stat.major = "error"
    <3>1. [call |-> load, major |-> "error"] \in Statuses
      BY <2>2 DEF Statuses
    <3> QED
      BY <2>2, <3>1, NoClientCreated DEF Fail, NoClient, Client
  <2>4. h = [f EXCEPT !.reason = "unknown"]
    BY <2>1
  <2> HIDE DEF f
  <2>5. h \in Client /\ h.ctx = "none" /\ h.held = {} /\ h.stat = f.stat
    BY <2>2, <2>3, <2>4 DEF Client
  <2> QED
    BY <2>3, <2>5 DEF Created, Left, Failed
<1> QED
  BY <1>1, <1>2, <1>3

(* What a step, logged, does to a client. *)
Stepped(g, state, h) ==
  /\ Steps(g, state, h)
  /\ Failed(h) => h.reason \in {h.cause, "unknown"}
  /\ build = "gssapi" /\ state = "SASL_START" /\ ~Failed(h) => "spn" \in g.held

(* sasl_step with its log.                                                 *)
LEMMA ClientStepped ==
  ASSUME build \in {"gssapi", "sspi"}, NEW g \in Client, NEW state,
         NEW h \in Logged(ClientStep([g EXCEPT !.cause = "none"], state))
  PROVE  Stepped(g, state, h)
<1> DEFINE k == [g EXCEPT !.cause = "none"]
<1>1. k \in Client /\ k.cause = "none" /\ k.held = g.held /\ k.refused = g.refused /\ k.ctx = g.ctx
  BY Named DEF Client
<1>2. h \in Logged(ClientStep(k, state))
  OBVIOUS
<1> HIDE DEF k
<1>3. ASSUME NEW i \in ClientStep(k, state)
      PROVE  Steps(k, state, i)
  BY <1>1, GssapiSteps, SspiSteps DEF ClientStep
<1>4. PICK i \in ClientStep(k, state) : Logs(i, h)
  BY <1>2, <1>3, LogEffect DEF Steps
<1>5. Steps(k, state, i)
  BY <1>3
<1>6. build = "gssapi" /\ state = "SASL_START" /\ ~Failed(i) => "spn" \in k.held
  BY <1>1, <1>4, GssapiNegotiates DEF ClientStep, Gssapi!ClientStep
<1>7. Failed(h) <=> Failed(i)
  BY <1>4 DEF Logs, Failed
<1>8. Blames(h)
  BY <1>4, <1>5, <1>7 DEF Logs, Steps, Blames
<1>9. Failed(h) => h.reason \in {h.cause, "unknown"}
  BY <1>4, <1>5, <1>7, <1>8 DEF Logs, Blames
<1>10. Steps(k, state, h)
  BY <1>4, <1>5, <1>7, <1>8 DEF Logs, Steps
<1>11. Left(k) = Left(g)
  BY <1>1 DEF Left
<1> QED
  BY <1>1, <1>6, <1>7, <1>9, <1>10, <1>11 DEF Stepped, Steps

(* What a step of a conversation does to what the clients depend on. *)
LEMMA ConversationSteps ==
  ASSUME NEW conv \in Conversation, NEW answer \in Answers, NEW next,
         mechanism \notin {"SCRAM", "PLAIN"},
         next = ConversationStep(conv, answer), next # conv
  PROVE  /\ conv.status = "CR_OK"
         /\ next.status = "CR_ERROR" => /\ next.state = conv.state
                                        /\ next.error_msg \in {"sasl", "unsupported"}
         /\ next.status = "CR_OK" => next.error_msg = conv.error_msg
         /\ next.state = "SASL_START" => conv.state = "SASL_START"
<1>1. ~conv.done /\ conv.status = "CR_OK"
  BY DEF ConversationStep, Conversation
<1>2. CASE mechanism # "GSSAPI" \/ answer.verdict = "error" \/ conv.state = "SASL_DONE"
  <2>1. PICK text \in {"sasl", "unsupported"} : next = ConversationSetError(conv, text)
    BY <1>1, <1>2 DEF ConversationStep, SaslStep
  <2>2. next.status = "CR_ERROR" /\ next.state = conv.state /\ next.error_msg = text
    BY <1>1, <2>1 DEF ConversationSetError, Conversation
  <2> QED
    BY <1>1, <2>2
<1>3. CASE mechanism = "GSSAPI" /\ answer.verdict # "error" /\ conv.state # "SASL_DONE"
  <2> DEFINE out == [Output(conv, answer.len, answer.cap) EXCEPT !.step = @ + 1]
  <2>1. next \in {out, [out EXCEPT !.state = "SASL_CONTEXT_COMPLETE"],
                  [out EXCEPT !.state = "SASL_DONE", !.done = TRUE]}
        /\ (next = out => conv.state = "SASL_START")
    <3>1. CASE conv.state = "SASL_CONTEXT_COMPLETE"
      <4>1. next = [out EXCEPT !.state = "SASL_DONE", !.done = TRUE]
        BY <1>1, <1>3, <3>1 DEF ConversationStep, SaslStep
      <4>2. out.state = conv.state /\ "state" \in DOMAIN out
        BY DEF Output, Conversation
      <4> HIDE DEF out
      <4>3. next.state = "SASL_DONE"
        BY <4>1, <4>2
      <4>4. next # out
        BY <3>1, <4>2, <4>3
      <4> QED
        BY <4>1, <4>4
    <3>2. CASE conv.state = "SASL_START"
      BY <1>1, <1>3, <3>2 DEF ConversationStep, SaslStep
    <3> QED
      BY <1>3, <3>1, <3>2 DEF Conversation
  <2>2. out.status = conv.status /\ out.error_msg = conv.error_msg /\ out.state = conv.state
        /\ DOMAIN out = DOMAIN conv
    BY DEF Output, Conversation
  <2> HIDE DEF out
  <2>3. next.status = out.status /\ next.error_msg = out.error_msg
        /\ (next.state = "SASL_START" => next = out)
    BY <2>1, <2>2 DEF Conversation
  <2> QED
    BY <1>1, <2>1, <2>2, <2>3
<1> QED
  BY <1>2, <1>3

---------------------------------------------------------------------------
(* The inductive invariant of the clients *)

(* What a client has got so far, and what of it the library is still to be   *)
(* asked to release.                                                         *)
ClientOk(conv, g) ==
  /\ g \in Client
  /\ Left(g) \subseteq Kept \cup
       IF build = "gssapi" /\ conv.error_msg = "init" THEN {"user"} ELSE {}
  /\ g.ctx # "none" => "ctx" \in g.held
  /\ conv.error_msg \in {"init", "sasl"} => conv.status = "CR_ERROR"
  /\ conv.error_msg # "init" => "cred" \in g.held /\ (build = "sspi" => "spn" \in g.held)
  /\ conv.state # "SASL_START" => g.ctx = "complete" /\ Kept \subseteq g.held

(* What it reports.                                                        *)
Reports(conv, g) ==
  /\ conv.error_msg = "sasl" => g.reason \in {g.cause, "unknown"}
  /\ conv.step > 0 /\ conv.status = "CR_OK" => g.cause = "none"

(* While the conversations run, each client is in order; when mongosql_auth *)
(* has returned, its handles are released.                                 *)
ClientsInv ==
  /\ build \in {"gssapi", "sspi"}
  /\ mechanism \notin {"SCRAM", "PLAIN"}
  /\ \A c \in Indices : Reports(conversations[c], client[c])
  /\ pc # "returned" => \A c \in Indices : ClientOk(conversations[c], client[c])
  /\ HandlesReleased

(* A handler that changes buffers only. *)
LEMMA FramesKeepClients ==
  ASSUME ClientsInv, UNCHANGED <<build, client>>, Indices' = Indices, UNCHANGED mechanism,
         (pc = "returned") <=> (pc' = "returned"),
         \A c \in Indices :
           /\ conversations'[c].error_msg = conversations[c].error_msg
           /\ conversations'[c].status = conversations[c].status
           /\ conversations'[c].state = conversations[c].state
           /\ conversations'[c].step = conversations[c].step
  PROVE  ClientsInv'
<1>1. \A c \in Indices : Reports(conversations[c], client[c])'
  BY DEF ClientsInv, Reports
<1>2. pc' # "returned" => \A c \in Indices : ClientOk(conversations[c], client[c])'
  BY DEF ClientsInv, ClientOk
<1>3. HandlesReleased'
  BY DEF ClientsInv, HandlesReleased
<1> QED
  BY <1>1, <1>2, <1>3 DEF ClientsInv

(* Opening: nothing is held but what a client that was created holds.      *)
LEMMA OpenedClients ==
  ASSUME IInv, ClientsInv, SaslOpen
  PROVE  ClientsInv'
<1>0. UNCHANGED build /\ build \in {"gssapi", "sspi"} /\ pc' = "test" /\ pc = "open"
  BY DEF SaslOpen, ClientsInv, OpenConversations
<1>1. mechanism' \notin {"SCRAM", "PLAIN"}
  <2>1. mechanism' = mechanism \/ mechanism' \in Mechanisms
    BY Zenon DEF SaslOpen, OpenConversations
  <2> QED
    BY <2>1, SaslAssumption DEF ClientsInv
<1>2. ASSUME NEW c \in Indices'
      PROVE  /\ conversations'[c].step = 0 /\ conversations'[c].state = "SASL_START"
             /\ conversations'[c].error_msg \in {"init", "none"}
             /\ conversations'[c].error_msg = "init" <=> conversations'[c].status = "CR_ERROR"
  <2>1. num_conversations = 0
    BY <1>0 DEF IInv, Opened, Opening
  <2>2. num_conversations' # num_conversations
    BY <2>1 DEF Indices
  <2>3. PICK n, failed :
          /\ num_conversations' = n
          /\ conversations' = [d \in 1 .. n |-> ConversationInit(d \in failed)]
    BY <2>2, Zenon DEF SaslOpen, OpenConversations
  <2>4. conversations'[c] = ConversationInit(c \in failed)
    BY <2>3 DEF Indices
  <2> QED
    BY <2>4 DEF ConversationInit
<1>3. ASSUME NEW c \in Indices'
      PROVE  Created(client'[c]) /\ (Failed(client'[c]) <=> conversations'[c].status = "CR_ERROR")
  <2>1. PICK loads \in [Indices' -> IF build = "sspi" THEN Sspi!Loads ELSE {"loaded"}] :
          client' \in Clients(num_conversations', LAMBDA d : ClientInit(loads[d]))
    BY DEF SaslOpen
  <2>2. client'[c] \in ClientInit(loads[c])
    BY <2>1 DEF Clients, Indices
  <2>3. build = "sspi" => loads[c] \in Sspi!Loads
    BY <2>1
  <2>4. Created(client'[c])
    BY <1>0, <2>2, <2>3, ClientCreated
  <2> QED
    BY <2>4 DEF SaslOpen
<1>4. ASSUME NEW c \in Indices'
      PROVE  Reports(conversations[c], client[c])'
  BY <1>2 DEF Reports
<1>5. ASSUME NEW c \in Indices'
      PROVE  ClientOk(conversations[c], client[c])'
  BY <1>0, <1>2, <1>3 DEF ClientOk, Created, Kept
<1> QED
  BY <1>0, <1>1, <1>4, <1>5 DEF ClientsInv, HandlesReleased

(* The step of one conversation and its client. *)
LEMMA SteppedClient ==
  ASSUME build \in {"gssapi", "sspi"},
         NEW conv \in Conversation, NEW next, NEW g, NEW h,
         ClientOk(conv, g), Stepped(g, conv.state, h),
         conv.status = "CR_OK",
         next.status = "CR_ERROR" => /\ next.state = conv.state
                                     /\ next.error_msg \in {"sasl", "unsupported"},
         next.status = "CR_OK" => next.error_msg = conv.error_msg,
         next.state = "SASL_START" => conv.state = "SASL_START",
         IF Failed(h) THEN next.status = "CR_ERROR"
         ELSE /\ next.status = "CR_OK"
              /\ h.stat.major = "continue" <=> next.state = "SASL_START"
  PROVE  ClientOk(next, h) /\ Reports(next, h)
<1>1. /\ h \in Client /\ Blames(h)
      /\ Left(h) \subseteq Left(g) \cup {"ctx"} /\ g.held \cap Kept \subseteq h.held
      /\ h.ctx = g.ctx \/ "ctx" \in h.held
      /\ conv.state # "SASL_START" => h.ctx = g.ctx
      /\ conv.state = "SASL_START" /\ ~Failed(h) => h.ctx = h.stat.major /\ "ctx" \in h.held
  BY DEF Stepped, Steps
<1>2. /\ conv.error_msg \notin {"init", "sasl"}
      /\ Left(g) \subseteq Kept /\ "cred" \in g.held /\ (build = "sspi" => "spn" \in g.held)
  BY DEF ClientOk
<1>3. Kept = {"ctx", "spn", "cred"}
  BY DEF Kept
<1>4. next.status = "CR_ERROR" \/ next.status = "CR_OK"
  OBVIOUS
<1>5. next.error_msg # "init" /\ (next.error_msg = "sasl" => next.status = "CR_ERROR")
  BY <1>2, <1>4
<1>6. Left(h) \subseteq Kept
  BY <1>1, <1>2, <1>3
<1>7. h.ctx # "none" => "ctx" \in h.held
  BY <1>1, <1>3 DEF ClientOk
<1>8. "cred" \in h.held /\ (build = "sspi" => "spn" \in h.held)
  BY <1>1, <1>2, <1>3
<1>9. ASSUME next.state # "SASL_START"
      PROVE  h.ctx = "complete" /\ Kept \subseteq h.held
  <2>1. CASE conv.state # "SASL_START"
    <3>1. g.ctx = "complete" /\ Kept \subseteq g.held
      BY <2>1 DEF ClientOk
    <3> QED
      BY <1>1, <2>1, <3>1
  <2>2. CASE conv.state = "SASL_START"
    <3>1. ~Failed(h)
      BY <1>9, <2>2
    <3>2. h.stat.major = "complete"
      BY <1>1, <1>9, <3>1 DEF Failed, Client, Statuses
    <3>3. "spn" \in g.held
      BY <1>2, <2>2, <3>1 DEF Stepped
    <3> QED
      BY <1>1, <1>3, <1>8, <2>2, <3>1, <3>2, <3>3
  <2> QED
    BY <2>1, <2>2
<1>10. ClientOk(next, h)
  BY <1>1, <1>5, <1>6, <1>7, <1>8, <1>9 DEF ClientOk
<1>11. Reports(next, h)
  <2>1. next.error_msg = "sasl" => h.reason \in {h.cause, "unknown"}
    BY <1>5 DEF Stepped
  <2>2. next.status = "CR_OK" => h.cause = "none"
    BY <1>1 DEF Blames
  <2> QED
    BY <2>1, <2>2 DEF Reports
<1> QED
  BY <1>10, <1>11

(* Stepping all of them, those that are done or failed excepted.           *)
LEMMA SteppedClients ==
  ASSUME IInv, ClientsInv, SaslClientStep
  PROVE  ClientsInv'
<1>0. /\ UNCHANGED <<build, mechanism, num_conversations>> /\ Indices' = Indices
      /\ pc = "step" /\ pc' = "write" /\ build \in {"gssapi", "sspi"}
  BY DEF SaslClientStep, Step, ClientsInv, Indices
<1>1. ASSUME NEW c \in Indices
      PROVE  Reports(conversations[c], client[c])' /\ ClientOk(conversations[c], client[c])'
  <2> DEFINE conv == conversations[c]
             next == conversations'[c]
             g == client[c]
             h == client'[c]
  <2>1. Reports(conv, g) /\ ClientOk(conv, g)
    BY <1>0 DEF ClientsInv
  <2>2. h \in IF next = conv THEN {g}
              ELSE Logged(ClientStep([g EXCEPT !.cause = "none"], conv.state))
    BY DEF SaslClientStep, Clients, Indices
  <2>3. CASE next = conv
    <3>1. h = g
      BY <2>2, <2>3
    <3> QED
      BY <1>0, <2>1, <2>3, <3>1 DEF Reports, ClientOk
  <2>4. CASE next # conv
    <3>1. PICK answers \in [Indices -> Answers] : conversations' = StepConversations(answers)
      BY <2>4, Zenon DEF SaslClientStep, Step
    <3>2. next = ConversationStep(conv, answers[c])
      BY <3>1 DEF StepConversations
    <3>3. conv \in Conversation /\ answers[c] \in Answers
      BY <3>1 DEF IInv, TypeOK
    <3>4. /\ conv.status = "CR_OK"
          /\ next.status = "CR_ERROR" => /\ next.state = conv.state
                                         /\ next.error_msg \in {"sasl", "unsupported"}
          /\ next.status = "CR_OK" => next.error_msg = conv.error_msg
          /\ next.state = "SASL_START" => conv.state = "SASL_START"
      BY <2>4, <3>2, <3>3, ConversationSteps DEF ClientsInv
    <3>5. IF Failed(h) THEN next.status = "CR_ERROR"
          ELSE /\ next.status = "CR_OK"
               /\ h.stat.major = "continue" <=> next.state = "SASL_START"
      BY <2>4 DEF SaslClientStep
    <3>6. h \in Logged(ClientStep([g EXCEPT !.cause = "none"], conv.state))
      BY <2>2, <2>4
    <3>7. g \in Client
      BY <2>1 DEF ClientOk
    <3>8. Stepped(g, conv.state, h)
      <4> DEFINE state == conv.state
      <4>1. h \in Logged(ClientStep([g EXCEPT !.cause = "none"], state))
        BY <3>6
      <4>2. Stepped(g, state, h)
        <5> HIDE DEF h, g, state, conv
        <5> QED
          BY <1>0, <3>7, <4>1, ClientStepped
      <4> QED
        BY <4>2
    <3>9. ClientOk(next, h) /\ Reports(next, h)
      <4> HIDE DEF h, g, conv, next
      <4> QED
        BY <1>0, <2>1, <3>3, <3>4, <3>5, <3>8, SteppedClient
    <3> QED
      BY <1>0, <3>9 DEF ClientOk, Reports
  <2> QED
    BY <2>3, <2>4
<1>2. HandlesReleased'
  BY <1>0 DEF HandlesReleased
<1> QED
  BY <1>0, <1>1, <1>2 DEF ClientsInv

(* Destroying all of them.                                                 *)
LEMMA FinishedClients ==
  ASSUME ClientsInv, SaslFinish
  PROVE  ClientsInv'
<1>0. /\ UNCHANGED <<build, mechanism, num_conversations, conversations>> /\ Indices' = Indices
      /\ pc = "finish" /\ pc' = "returned" /\ build \in {"gssapi", "sspi"}
  BY DEF SaslFinish, Finish, ClientsInv, Indices
<1>1. ASSUME NEW c \in Indices
      PROVE  /\ Reports(conversations[c], client[c])'
             /\ client'[c].held \subseteq client'[c].refused \cup
                  (IF build = "sspi" THEN {"spn"}
                   ELSE IF conversations[c].error_msg = "init" THEN {"user"} ELSE {})
  <2> DEFINE g == client[c]
             h == client'[c]
  <2>1. Reports(conversations[c], g) /\ ClientOk(conversations[c], g)
    BY <1>0 DEF ClientsInv
  <2>2. h \in ClientDestroy(g)
    BY DEF SaslFinish, Clients, Indices
  <2>3. Destroys(g, h)
    <3> HIDE DEF g, h
    <3> QED
      BY <1>0, <2>1, <2>2, ClientDestroys DEF ClientOk
  <2>4. Reports(conversations[c], h)
    BY <2>1, <2>3 DEF Reports, Destroys
  <2>5. Left(h) \subseteq IF build = "sspi" THEN {"spn"}
                          ELSE IF conversations[c].error_msg = "init" THEN {"user"} ELSE {}
    BY <1>0, <2>1, <2>3 DEF Destroys, ClientOk, Kept
  <2> QED
    BY <1>0, <2>4, <2>5 DEF Reports, Left
<1>2. HandlesReleased'
  BY <1>0, <1>1 DEF HandlesReleased
<1> QED
  BY <1>0, <1>1, <1>2 DEF ClientsInv

(* The handlers that leave the clients alone. *)
LEMMA IdleClients ==
  ASSUME IInv, ClientsInv, UNCHANGED <<build, client>>,
         \/ ReadHandshake \/ WriteEmpty \/ TestDone \/ WritePayload \/ ReadPayload
         \/ Returned \/ UNCHANGED vars
  PROVE  ClientsInv'
<1>1. UNCHANGED <<mechanism, num_conversations>> /\ Indices' = Indices
  BY DEF ReadHandshake, WriteEmpty, TestDone, WritePayload, ReadPayload, Returned, vars, Indices
<1>2. (pc = "returned") <=> (pc' = "returned")
  BY DEF ReadHandshake, WriteEmpty, TestDone, WritePayload, ReadPayload, Returned, vars
<1>3. ASSUME NEW c \in Indices
      PROVE  /\ conversations'[c].error_msg = conversations[c].error_msg
             /\ conversations'[c].status = conversations[c].status
             /\ conversations'[c].state = conversations[c].state
             /\ conversations'[c].step = conversations[c].step
  <2>1. CASE UNCHANGED conversations
    BY <2>1
  <2>2. CASE ~UNCHANGED conversations
    <3>1. ReadPayload
      BY <2>2 DEF ReadHandshake, WriteEmpty, TestDone, WritePayload, Returned, vars
    <3>2. PICK sizes \in [Indices -> FrameSizes] :
                 \E bad : conversations' = Receive(sizes, bad)
      BY <2>2, <3>1, Zenon DEF ReadPayload, Distribute
    <3>3. conversations[c] \in Conversation /\ sizes[c] \in Nat
      BY ConstantsAssumption DEF IInv, TypeOK
    <3>4. conversations'[c] \in {Accept(conversations[c], sizes[c]),
                                 Refuse(conversations[c], sizes[c]), conversations[c]}
      BY <3>2 DEF Receive
    <3> QED
      BY <3>3, <3>4, FrameFields
  <2> QED
    BY <2>1, <2>2
<1> QED
  BY <1>1, <1>2, <1>3, FramesKeepClients

(* ClientsInv is inductive together with the invariant of the loop.        *)
LEMMA ClientsInductive == IInv /\ ClientsInv /\ [SaslNext]_saslVars => ClientsInv'
<1> SUFFICES ASSUME IInv, ClientsInv, [SaslNext]_saslVars PROVE ClientsInv'
  OBVIOUS
<1>1. CASE SaslOpen
  BY <1>1, OpenedClients
<1>2. CASE SaslClientStep
  BY <1>2, SteppedClients
<1>3. CASE SaslFinish
  BY <1>3, FinishedClients
<1>4. CASE Crash \/ CrashOpening \/ OtherLogin \/ UNCHANGED saslVars
  BY <1>4, IdleClients DEF Crash, CrashOpening, OtherLogin, saslVars
<1>5. CASE /\ ReadHandshake \/ WriteEmpty \/ TestDone \/ WritePayload \/ ReadPayload \/ Returned
           /\ UNCHANGED <<build, client, functions, crashed>>
  BY <1>5, IdleClients
<1> QED
  BY <1>1, <1>2, <1>3, <1>4, <1>5 DEF SaslNext, LoginNext

(* What the clients hold and report is as the plugin counts on, in every   *)
(* reachable state, whatever calls of the library fail (GssapiClient,      *)
(* SspiClient, conversation_sasl_step).                                    *)
THEOREM ClientsInvariance == SaslSpec => []ClientsInv
<1>1. SaslInit => ClientsInv
  <2> SUFFICES ASSUME SaslInit PROVE ClientsInv
    OBVIOUS
  <2>1. num_conversations = 0 /\ mechanism = "none"
    BY DEF SaslInit, Init, NoMechanism
  <2>2. build \in {"gssapi", "sspi"}
    BY BuildKnown
  <2>3. Indices = {}
    BY <2>1 DEF Indices
  <2> QED
    BY <2>1, <2>2, <2>3 DEF ClientsInv, HandlesReleased
<1>2. SaslInv => IInv
  BY DEF SaslInv
<1> QED
  BY <1>1, <1>2, ClientsInductive, SaslInvariance, PTL DEF SaslSpec

(* Whatever calls fail, and for however many conversations: nothing that the *)
(* library would take back is left when mongosql_auth returns, but the user *)
(* name of a failed GSSAPI init and SSPI's copy of the target name         *)
(* (client_destroy, copy_and_release_buffer, display_name).                *)
THEOREM HandlesAreReleased == SaslSpec => []HandlesReleased
<1>1. ClientsInv => HandlesReleased
  BY DEF ClientsInv
<1> QED
  BY <1>1, ClientsInvariance, PTL

(* A step that fails reports the call that failed first; no release after it *)
(* masks it (display_name, client_negotiate, log_error).                   *)
THEOREM FirstFailuresAreReported == SaslSpec => []FirstFailureReported
<1>1. ClientsInv => FirstFailureReported
  BY DEF ClientsInv, Reports, FirstFailureReported
<1> QED
  BY <1>1, ClientsInvariance, PTL

(* No step succeeds in which a call failed whose status the client keeps   *)
(* (client_step).                                                          *)
THEOREM FailuresAreNotSilent == SaslSpec => []NoSilentFailure
<1>1. ClientsInv => NoSilentFailure
  BY DEF ClientsInv, Reports, NoSilentFailure
<1> QED
  BY <1>1, ClientsInvariance, PTL

(* A conversation past its negotiation has a complete context made with its *)
(* credentials, and one in it never loses the context it has begun         *)
(* (client_negotiate, conversation_sasl_step).                             *)
THEOREM ContextsBeforeWrap == SaslSpec => []ContextBeforeWrap
<1>1. ClientsInv => ContextBeforeWrap
  BY DEF ClientsInv, ClientOk, Kept, ContextBeforeWrap
<1> QED
  BY <1>1, ClientsInvariance, PTL
================================================================================
