-------------------------------- MODULE SspiClient --------------------------------
(***************************************************************************)
(* The SSPI client of Windows (mongosql-auth-sspi.c): each function of it  *)
(* as the set of clients it may turn a client into.  Only the functions of *)
(* the table that sspi_init loads allocate objects of the library; tokens  *)
(* are copied, the target name is a copy of the plugin's own.              *)
(***************************************************************************)
EXTENDS SaslClient

---------------------------------------------------------------------------
(* sspi_init: the library, its entry point and the table of its functions *)

Loads == {"loaded"} \cup ({"LoadLibrary", "GetProcAddress", "InitSecurityInterface"} \cap LibraryFaults)

(* Mutant: the table is not looked at. *)
NotLookedAt(load) == load \in {"loaded", "InitSecurityInterface"}

Loaded(load) == load = "loaded"

(* Only the entry point sets the table, to NULL when it fails: that of a     *)
(* conversation opened before is lost, too.                                  *)
Table(functions, load) ==
  IF load = "loaded" THEN "loaded"
  ELSE IF load = "InitSecurityInterface" THEN "null" ELSE functions

---------------------------------------------------------------------------
(* The copy of the target name is made first.  (The user gave a name; an     *)
(* empty one would ask for the default credentials.)                         *)
ClientInit(g) ==
  {IF Failed(h) THEN h ELSE [h EXCEPT !.cred = "user"] :
     h \in Obtain([g EXCEPT !.held = @ \cup {"spn"}], "cred", "AcquireCredentialsHandle")}

(* From the first call that succeeds there is a context.  The token is       *)
(* copied into a buffer even when it is empty, and freed.                    *)
TakeAnswer(g) ==
  UNION {ReleaseQuietly([t EXCEPT !.ctx = major, !.cap = 1, !.stat.major = major],
                        "token", "FreeContextBuffer") :
         t \in Tokens([g EXCEPT !.held = @ \cup {"ctx"}]), major \in {"complete", "continue"}}

ClientNegotiate(g) == Then(Call(g, "InitializeSecurityContext"), TakeAnswer)

ClientUsername(g) ==
  Then(Obtain(g, "name", "QueryCredentialsAttributes"),
       LAMBDA h : ReleaseQuietly(h, "name", "FreeContextBuffer"))

(* The message is put together from trailer, data and padding. *)
ClientWrap(g) ==
  Then(Then(Call(g, "QueryContextAttributes"), LAMBDA h : Call(h, "EncryptMessage")),
       LAMBDA h : {[h EXCEPT !.len = 1, !.cap = 1]})

ClientStep(g, state) ==
  IF state = "SASL_START" THEN ClientNegotiate(g)
  ELSE Then(ClientUsername(g), ClientWrap)

(* log_error has a description of every status. *)
LogError(g) == {[g EXCEPT !.reason = g.stat.call]}

(* client_destroy: the context, if there is one, and the credentials.  Not   *)
(* the copy of the target name.                                              *)
ClientDestroy(g) ==
  LET DestroyOne(h, object, call) ==
        IF object \in h.held THEN ReleaseQuietly(h, object, call) ELSE {h}
  IN  UNION {DestroyOne(h, "cred", "FreeCredentialsHandle") :
             h \in DestroyOne(g, "ctx", "DeleteSecurityContext")}
================================================================================
