-------------------------------- MODULE SaslClient --------------------------------
(***************************************************************************)
(* What the GSSAPI and the SSPI client (mongosql-auth-sasl.h wraps one of  *)
(* them) have in common: a record of what a library holds for a            *)
(* conversation, and the calls that change it.                             *)
(*                                                                         *)
(* The library is external: a call fails or not, and what it allocated     *)
(* stays allocated until it is released.  A handler of the plugin makes    *)
(* several calls; what it can do to a client is a set of clients.          *)
(***************************************************************************)
EXTENDS Integers

CONSTANT LibraryFaults    (* the calls of the libraries that may fail *)

(* cred names the principal the credentials are of, stat is the call whose   *)
(* status the client keeps.  held are the objects allocated for the client,  *)
(* refused those the library would not release; len and cap are the length   *)
(* of its last token and what is allocated for it.  cause is the first call  *)
(* that failed in the last handler, reason the call its error message        *)
(* describes.                                                                *)
NoClient ==
  [cred |-> "none", ctx |-> "none", stat |-> [call |-> "none", major |-> "complete"],
   len |-> 0, cap |-> 0, held |-> {}, refused |-> {}, cause |-> "none", reason |-> "none"]

Failed(g) == g.stat.major = "error"

Fail(g, call) ==
  [g EXCEPT !.stat = [call |-> call, major |-> "error"],
            !.cause = IF @ = "none" THEN call ELSE @]

Call(g, call) ==
  {[g EXCEPT !.stat = [call |-> call, major |-> "complete"]]} \cup
  (IF call \in LibraryFaults THEN {Fail(g, call)} ELSE {})

(* A call that allocates an object, and one that releases it. *)
Obtain(g, object, call) ==
  {IF Failed(h) THEN h ELSE [h EXCEPT !.held = @ \cup {object}] : h \in Call(g, call)}

Release(g, object, call) ==
  {IF Failed(h) THEN [h EXCEPT !.refused = @ \cup {object}]
   ELSE [h EXCEPT !.held = @ \ {object}] : h \in Call(g, call)}

(* The same, with the status of the release ignored. *)
ReleaseQuietly(g, object, call) ==
  {[h EXCEPT !.stat = g.stat, !.cause = g.cause] : h \in Release(g, object, call)}

(* One part of a handler after another, unless it has failed. *)
Then(clients, Part(_)) ==
  UNION {IF Failed(g) THEN {g} ELSE Part(g) : g \in clients}

(* A token of the library's, empty or not. *)
Tokens(g) == {[g EXCEPT !.len = 0], [g EXCEPT !.len = 1, !.held = @ \cup {"token"}]}
================================================================================
