------------------------------ MODULE AuthOutcome ------------------------------
(***************************************************************************)
(* What a MySQL client may rely on when it calls mongosql_auth: the        *)
(* exchange runs over a number of conversations the server chooses; it     *)
(* fails at most once and for good; CR_OK is returned only after every     *)
(* conversation has finished and the server has been told so, CR_ERROR     *)
(* only after a failure.  How the conversations progress is left open.     *)
(***************************************************************************)
EXTENDS Naturals

CONSTANT MaxConversations   (* most conversations a server opens *)

VARIABLES
  opened,     (* the server has named a mechanism and a number of conversations *)
  total,      (* that number *)
  finished,   (* the conversations that are done *)
  told,       (* those whose done flag has reached the server *)
  failed,     (* an error was met, by the plugin or by a conversation *)
  result      (* what the plugin returned, "pending" before *)

vars == <<opened, total, finished, told, failed, result>>

Init ==
  /\ opened = FALSE
  /\ total = 0
  /\ finished = {}
  /\ told = {}
  /\ failed = FALSE
  /\ result = "pending"

(* The first auth-more-data: conversations are created, some may fail at once. *)
Open ==
  /\ ~opened /\ ~failed
  /\ opened' = TRUE
  /\ total' \in 0 .. MaxConversations
  /\ failed' \in BOOLEAN
  /\ UNCHANGED <<finished, told, result>>

(* Conversations progress: some finish, and the exchange may fail. *)
Advance ==
  /\ opened /\ ~failed /\ result = "pending"
  /\ \E done \in SUBSET (1 .. total) : finished' = finished \cup done
  /\ failed' \in BOOLEAN
  /\ UNCHANGED <<opened, total, told, result>>

(* The server learns which conversations are done. *)
Tell ==
  /\ opened /\ ~failed /\ result = "pending"
  /\ told' = finished
  /\ UNCHANGED <<opened, total, finished, failed, result>>

Fail ==
  /\ ~failed /\ result = "pending"
  /\ failed' = TRUE
  /\ UNCHANGED <<opened, total, finished, told, result>>

Return ==
  /\ result = "pending"
  /\ \/ failed /\ result' = "CR_ERROR"
     \/ opened /\ ~failed /\ told = 1 .. total /\ result' = "CR_OK"
  /\ UNCHANGED <<opened, total, finished, told, failed>>

Next == Open \/ Advance \/ Tell \/ Fail \/ Return

(* An exchange whose outcome is decided is reported to the caller. *)
Spec == Init /\ [][Next]_vars /\ WF_vars(Return)
================================================================================
