------------------------------- MODULE GssapiClient -------------------------------
(***************************************************************************)
(* The GSSAPI client (mongosql-auth-gssapi.c): each function of it as the  *)
(* set of clients it may turn a client into.                               *)
(***************************************************************************)
EXTENDS SaslClient

CONSTANT HasPassword      (* the user gave a password *)

---------------------------------------------------------------------------
(* Creating a client *)

(* The status of the import's release replaces that of the call before.      *)
CanonicalizeName(g, name) ==
  Then(Obtain(g, "imported", "import_name"),
       LAMBDA h : UNION {Release(i, "imported", "release_name") :
                         i \in Obtain(h, name, "canonicalize_name")})

(* Without a name the library acquires the default credentials, or refuses   *)
(* the password.                                                             *)
AcquireCred(g) ==
  IF HasPassword /\ "user" \notin g.held
  THEN {Fail(g, "acquire_cred")}
  ELSE {IF Failed(h) THEN h
        ELSE [h EXCEPT !.cred = IF "user" \in g.held THEN "user" ELSE "default"] :
        h \in Obtain(g, "cred", "acquire_cred")}

(* The user name's release is reported only when nothing failed before. *)
ReleaseUser(g) ==
  IF "user" \notin g.held THEN {g}
  ELSE {IF Failed(g) \/ ~Failed(h) THEN [h EXCEPT !.stat = g.stat] ELSE h :
        h \in Release(g, "user", "release_name")}

ClientInit(g) ==
  Then(CanonicalizeName(g, "user"),
       LAMBDA h : Then(CanonicalizeName(h, "spn"),
                       LAMBDA i : UNION {ReleaseUser(j) : j \in AcquireCred(i)}))

---------------------------------------------------------------------------
(* Stepping a client *)

(* copy_and_release_buffer, when the library left a token: the status is the *)
(* release's.                                                                *)
TakeToken(g) ==
  IF g.len = 0 THEN {g} ELSE Release(g, "token", "release_buffer")

(* A token that is empty is not copied: there is no buffer then.            *)
NewTokens(g) == {[t EXCEPT !.cap = t.len] : t \in Tokens(g)}

(* Mutant: the failure to release a token is overlooked. *)
NegotiatedQuietly(g, major) ==
  [g EXCEPT !.ctx = major, !.stat = [call |-> "init_sec_context", major |-> major]]

(* Mutant: a negotiation that is to be continued is taken for a finished one. *)
NegotiatedOnce(g, major) ==
  IF Failed(g) THEN g
  ELSE [g EXCEPT !.ctx = major, !.stat = [call |-> "init_sec_context", major |-> "complete"]]

(* The status of the negotiation is kept unless the token cannot be taken.   *)
Negotiated(g, major) ==
  IF Failed(g) THEN g
  ELSE [g EXCEPT !.ctx = major, !.stat = [call |-> "init_sec_context", major |-> major]]

TakeAnswer(g) ==
  UNION {{Negotiated(h, major) : h \in TakeToken(t)} :
         t \in NewTokens([g EXCEPT !.held = @ \cup {"ctx"}]), major \in {"complete", "continue"}}

(* The library knows no context without a target name.                       *)
ClientNegotiate(g) ==
  IF "spn" \notin g.held THEN {Fail(g, "init_sec_context")}
  ELSE Then(Call(g, "init_sec_context"), TakeAnswer)

(* Mutant: releasing the name overwrites the status of displaying it. *)
UsernameMasked(g) ==
  Then(Obtain(g, "name", "inquire_cred"),
       LAMBDA h : UNION {Release(i, "name", "release_name") :
                         i \in Call(h, "display_name")})

(* display_name: the name of the credentials, and its text; a text is not    *)
(* empty.                                                                    *)
ClientUsername(g) ==
  Then(Obtain(g, "name", "inquire_cred"),
       LAMBDA h :
         UNION {IF Failed(i) THEN ReleaseQuietly(i, "name", "release_name")
                ELSE UNION {IF Failed(j) THEN ReleaseQuietly(j, "text", "release_buffer")
                            ELSE Release(j, "text", "release_buffer") :
                            j \in Release(i, "name", "release_name")} :
                i \in Obtain(h, "text", "display_name")})

ClientWrap(g) ==
  Then(Call(g, "wrap"), LAMBDA h : UNION {TakeToken(i) : i \in NewTokens(h)})

ClientStep(g, state) ==
  IF state = "SASL_START" THEN ClientNegotiate(g)
  ELSE Then(ClientUsername(g), ClientWrap)

(* log_error: the message describes the status; describing it may fail, or   *)
(* leave a text the library does not take back.                              *)
LogError(g) ==
  {[g EXCEPT !.reason = g.stat.call]} \cup
  (IF "display_status" \in LibraryFaults THEN {[g EXCEPT !.reason = "unknown"]} ELSE {}) \cup
  (IF "release_buffer" \in LibraryFaults
   THEN {[g EXCEPT !.reason = "unknown", !.held = @ \cup {"status"},
                   !.refused = @ \cup {"status"}]} ELSE {})

(* Mutant: what is released last is forgotten when something before it fails. *)
DestroyUntilRefused(g) ==
  LET DestroyOne(h, object, call) == IF object \in h.held THEN Release(h, object, call) ELSE {h}
  IN  Then(DestroyOne([g EXCEPT !.stat.major = "complete"], "ctx", "delete_sec_context"),
           LAMBDA h : Then(DestroyOne(h, "spn", "release_name"),
                           LAMBDA i : DestroyOne(i, "cred", "release_cred")))

(* client_destroy gives back what the client holds; no refusal keeps it from *)
(* the next release.                                                         *)
ClientDestroy(g) ==
  LET DestroyOne(h, object, call) ==
        IF object \in h.held THEN ReleaseQuietly(h, object, call) ELSE {h}
  IN  UNION {UNION {DestroyOne(i, "cred", "release_cred") :
                    i \in DestroyOne(h, "spn", "release_name")} :
             h \in DestroyOne(g, "ctx", "delete_sec_context")}
================================================================================
