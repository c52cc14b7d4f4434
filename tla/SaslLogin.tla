--------------------------------- MODULE SaslLogin ---------------------------------
(***************************************************************************)
(* MongosqlAuth with the GSSAPI mechanism in its place.  The plugin is     *)
(* built with one of two clients (mongosql-auth-sasl.h): GssapiClient or   *)
(* SspiClient.  What each conversation gets from the library and gives     *)
(* back, and the status it keeps of the library's calls.  SSPI's table of  *)
(* functions belongs to the process: logins in other threads write it, too,*)
(* without a lock, between any two calls of this one (OtherLogin).         *)
(***************************************************************************)
EXTENDS MongosqlAuth, SaslClient

CONSTANTS
  Builds,          (* the clients the plugin may be built with *)
  HasPassword      (* the user gave a password *)

GssapiCalls ==
  {"import_name", "canonicalize_name", "release_name", "acquire_cred",
   "init_sec_context", "inquire_cred", "display_name", "wrap", "release_buffer",
   "delete_sec_context", "release_cred", "display_status"}

SspiCalls ==
  {"LoadLibrary", "GetProcAddress", "InitSecurityInterface", "AcquireCredentialsHandle",
   "InitializeSecurityContext", "QueryCredentialsAttributes", "QueryContextAttributes",
   "EncryptMessage", "FreeContextBuffer", "DeleteSecurityContext", "FreeCredentialsHandle"}

ASSUME SaslAssumption ==
  /\ Mechanisms = {"GSSAPI"}
  /\ {"init", "step"} \subseteq Faults
  /\ Builds \subseteq {"gssapi", "sspi"}
  /\ LibraryFaults \subseteq GssapiCalls \cup SspiCalls
  /\ HasPassword \in BOOLEAN

VARIABLES
  build,           (* the client this plugin was built with *)
  client,          (* the client of each conversation *)
  functions,       (* SSPI's table of functions, shared by all logins: loaded, or
                      NULL, then taken when another login wrote that NULL *)
  crashed          (* this login called through a table that is NULL *)

saslVars == <<vars, build, client, functions, crashed>>

Gssapi == INSTANCE GssapiClient
Sspi == INSTANCE SspiClient

---------------------------------------------------------------------------
(* The handlers of the client that was built in *)

ClientStep(g, state) ==
  IF build = "gssapi" THEN Gssapi!ClientStep(g, state) ELSE Sspi!ClientStep(g, state)

ClientDestroy(g) ==
  IF build = "gssapi" THEN Gssapi!ClientDestroy(g) ELSE Sspi!ClientDestroy(g)

(* A handler that fails logs the status of its client. *)
Logged(clients) ==
  UNION {IF ~Failed(g) THEN {g}
         ELSE IF build = "gssapi" THEN Gssapi!LogError(g) ELSE Sspi!LogError(g) :
         g \in clients}

(* sasl_init; the SSPI client is not initialized, and nothing is logged,     *)
(* when its library cannot be loaded.                                        *)
ClientInit(load) ==
  IF build = "gssapi" THEN Logged(Gssapi!ClientInit(NoClient))
  ELSE IF Sspi!Loaded(load) THEN Logged(Sspi!ClientInit(NoClient))
  ELSE {[Fail(NoClient, load) EXCEPT !.reason = "unknown"]}

(* The table after the conversations have been opened in their order: the    *)
(* last of them that got as far as the entry point has set it.               *)
TableAfter(loads) ==
  LET calls == {c \in DOMAIN loads : loads[c] \in {"loaded", "InitSecurityInterface"}}
      last  == CHOOSE c \in calls : \A d \in calls : c >= d
  IN  IF calls = {} THEN functions ELSE Sspi!Table(functions, loads[last])

(* The clients of n conversations, each one of those it may become. *)
Clients(n, Becomes(_)) ==
  {f \in [1 .. n -> UNION {Becomes(c) : c \in 1 .. n}] : \A c \in 1 .. n : f[c] \in Becomes(c)}

---------------------------------------------------------------------------
SaslInit ==
  /\ Init
  /\ build \in Builds
  /\ client = <<>>
  /\ functions = "null"
  /\ crashed = FALSE

SaslOpen ==
  /\ OpenConversations
  /\ \E loads \in [Indices' -> IF build = "sspi" THEN Sspi!Loads ELSE {"loaded"}] :
       /\ client' \in Clients(num_conversations', LAMBDA c : ClientInit(loads[c]))
       /\ functions' = IF build = "sspi" THEN TableAfter(loads) ELSE functions
  /\ \A c \in Indices' : Failed(client'[c]) <=> conversations'[c].status = "CR_ERROR"
  /\ UNCHANGED <<build, crashed>>

(* The sspi_init of a login in another thread, at any time: it loads the     *)
(* table, or overwrites it with NULL when the entry point fails.  A handler  *)
(* only reads the table, so a write between two of its calls is one before   *)
(* it, or one after it, or the one that makes it crash.  A write before the  *)
(* opening looks at its own table is an answer of its own entry point.       *)
OtherLogin ==
  /\ build = "sspi" /\ ~crashed
  /\ functions' \in {"loaded"} \cup
                   (IF "InitSecurityInterface" \in LibraryFaults THEN {"taken"} ELSE {})
  /\ UNCHANGED <<vars, build, client, crashed>>

(* The next handler would call the library through a table that is NULL:     *)
(* destroy does for every conversation, step for those that are not done.    *)
NullCall ==
  /\ build = "sspi" /\ functions # "loaded"
  /\ \/ pc = "finish" /\ num_conversations > 0
     \/ pc = "step" /\ ~HasError /\ ~AllDone

Crash ==
  /\ NullCall
  /\ crashed' = TRUE
  /\ UNCHANGED <<vars, build, client, functions>>

(* Another login takes the table away after sspi_init has looked at it and   *)
(* before the conversation acquires its credentials.                         *)
CrashOpening ==
  /\ build = "sspi" /\ pc = "open" /\ MaxConversations > 0
  /\ "InitSecurityInterface" \in LibraryFaults
  /\ functions' = "taken"
  /\ crashed' = TRUE
  /\ UNCHANGED <<vars, build, client>>

(* A conversation steps as its client does. *)
SaslClientStep ==
  /\ Step
  /\ ~NullCall
  /\ client' \in Clients(num_conversations, LAMBDA c :
       IF conversations'[c] = conversations[c] THEN {client[c]}
       ELSE Logged(ClientStep([client[c] EXCEPT !.cause = "none"], conversations[c].state)))
  /\ \A c \in Indices : conversations'[c] # conversations[c] =>
       IF Failed(client'[c]) THEN conversations'[c].status = "CR_ERROR"
       ELSE /\ conversations'[c].status = "CR_OK"
            /\ conversations'[c].buf_len = client'[c].len
            /\ conversations'[c].cap = client'[c].cap
            /\ client'[c].stat.major = "continue" <=> conversations'[c].state = "SASL_START"
  /\ UNCHANGED <<build, functions, crashed>>

SaslFinish ==
  /\ Finish
  /\ ~NullCall
  /\ client' \in Clients(num_conversations, LAMBDA c : ClientDestroy(client[c]))
  /\ UNCHANGED <<build, functions, crashed>>

LoginNext ==
  \/ ~crashed /\ (SaslOpen \/ SaslClientStep \/ SaslFinish \/ Crash \/ CrashOpening)
  \/ /\ ~crashed
     /\ ReadHandshake \/ WriteEmpty \/ TestDone \/ WritePayload \/ ReadPayload \/ Returned
     /\ UNCHANGED <<build, client, functions, crashed>>
  \/ crashed /\ UNCHANGED saslVars

SaslNext == LoginNext \/ OtherLogin

(* Fair to this login alone: nothing is known of the others. *)
SaslSpec == SaslInit /\ [][SaslNext]_saslVars /\ WF_saslVars(LoginNext)

---------------------------------------------------------------------------
(* When mongosql_auth returns, whatever happened to the conversation or to   *)
(* the others, nothing of it is left but what the library refused to         *)
(* release: contexts, credentials, target names, tokens and texts            *)
(* (client_destroy, copy_and_release_buffer, display_name).  Two things stay *)
(* and no others: the name of the user that a failed GSSAPI init had         *)
(* canonicalized, and SSPI's copy of the target name.                        *)
HandlesReleased ==
  pc = "returned" => \A c \in Indices :
    client[c].held \subseteq client[c].refused \cup
      (IF build = "sspi" THEN {"spn"}
       ELSE IF conversations[c].error_msg = "init" THEN {"user"} ELSE {})

(* "Acquire credentials for the user principal" (mongosql-auth-gssapi.c:412) *)
CredentialsOfUser ==
  \A c \in Indices : client[c].cred \in {"none", "user"}

(* A step that fails reports the call that failed first, unless the library  *)
(* cannot describe it: the releases after it do not mask it (display_name,   *)
(* client_negotiate, log_error).                                             *)
FirstFailureReported ==
  \A c \in Indices : conversations[c].error_msg = "sasl" =>
    client[c].reason \in {client[c].cause, "unknown"}

(* A step succeeds only if no call of the library failed in it whose status  *)
(* the client keeps.                                                         *)
NoSilentFailure ==
  \A c \in Indices : conversations[c].step > 0 /\ conversations[c].status = "CR_OK" =>
    client[c].cause = "none"

(* A conversation that leaves the negotiation has a complete context, made   *)
(* with credentials for a target, and keeps them until it is destroyed; one  *)
(* that is asked for another token keeps the context it has begun.           *)
ContextBeforeWrap ==
  pc # "returned" => \A c \in Indices :
    /\ conversations[c].state # "SASL_START" =>
         client[c].ctx = "complete" /\ {"ctx", "cred", "spn"} \subseteq client[c].held
    /\ client[c].ctx # "none" => "ctx" \in client[c].held

(* No failure of this login makes a step of it call through a missing table, *)
(* also when the opening of a later conversation took the table away: the    *)
(* error of that one keeps all from stepping.  Without another login that    *)
(* overwrites the table only client_destroy may, and only after an error     *)
(* that was already taken over (sspi_init, has_error,                        *)
(* mongosql_auth_sspi_client_destroy).                                       *)
OwnFailureCrashesInDestroy ==
  crashed => \/ functions = "taken"
             \/ pc = "finish" /\ status = "CR_ERROR" /\ error_msg[2] = "init"

---------------------------------------------------------------------------
(* Why: a table that is missing once there are conversations, and that no    *)
(* other login took away, was missing for one of them when it was opened, so *)
(* the loop ends at its first test.                                          *)
MissingTableEndsLoop ==
  build = "sspi" /\ functions = "null" /\ num_conversations > 0 =>
    \/ /\ pc = "test" /\ status = "CR_OK" /\ Failing # {}
       /\ \A c \in Failing : conversations[c].error_msg = "init"
    \/ pc \in {"finish", "returned"} /\ status = "CR_ERROR" /\ error_msg[2] = "init"

(* Where a login that has crashed is: at the handler that calls through the  *)
(* table, which may be the opening.                                          *)
Crashed == NullCall \/ (pc = "open" /\ functions = "taken")

(* The inductive invariant of the login: that of the loop, the fate of a     *)
(* missing table, and that a login that has crashed stays where it was       *)
(* (sspi_init, has_error).                                                   *)
SaslInv ==
  /\ IInv
  /\ functions \in {"null", "loaded", "taken"}
  /\ MissingTableEndsLoop
  /\ crashed => Crashed
================================================================================
