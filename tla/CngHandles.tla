------------------------------ MODULE CngHandles ------------------------------
(***************************************************************************)
(* The Windows crypto backend.  Its provider handles are globals that      *)
(* every conversation of every connection opens again when it is           *)
(* initialized (cng_init) and closes when it is destroyed (cng_cleanup),   *)
(* while the connections of other threads compute with them.  A read or a  *)
(* write of a global is one step: the code takes no lock.                  *)
(***************************************************************************)
EXTENDS Naturals

CONSTANTS
  Threads,            (* each thread has a connection of its own *)
  MaxConversations,   (* a bound: how many conversations a thread initializes *)
  Unavailable,        (* the providers the library may fail to open *)
  None                (* a handle that is 0 *)

Algorithms == {"sha1", "sha256"}
Kinds == Algorithms \X {"hash", "hmac"}
Rng == <<"rng", "rng">>
Providers == Kinds \cup {Rng}

(* The order in which cng_cleanup looks at the globals: the handle of         *)
(* SHA-256's hash twice.                                                      *)
OrderOfCleanup ==
  <<<<"sha1", "hash">>, <<"sha1", "hmac">>, <<"sha256", "hash">>, <<"sha256", "hash">>>>

(* The order in which cng_init opens the providers, and how many it opens     *)
(* (mutant of the latter: it goes on behind the last one).                    *)
Order == <<<<"sha1", "hash">>, <<"sha1", "hmac">>, <<"sha256", "hash">>, <<"sha256", "hmac">>>>

OnePastLast == 5
Last == 4

(* A handle the library gave out: its provider, and which call opened it. *)
Handles == [provider : Providers, by : Threads, conversation : Nat]

ASSUME CngAssumption ==
  /\ MaxConversations \in [Threads -> Nat]
  /\ Unavailable \subseteq Providers
  /\ None \notin Handles \cup Kinds

VARIABLES
  algo,            (* the globals; for Rng, the static variable of rand_bytes *)
  open,            (* the handles the library has open *)
  pc,              (* what each thread is about to do *)
  at,              (* its place in Order: what init opens, what cleanup closes *)
  kind,            (* the provider of the digest function it is in *)
  held,            (* the handle its digest was called with *)
  live,            (* the conversations of its connection *)
  started          (* the conversations it ever initialized *)

cngVars == <<algo, open, pc, at, kind, held, live, started>>

Steps == {"idle", "reset", "open", "ready", "random", "random_open", "random_draw",
          "load", "compute", "cleanup"}

CngInit ==
  /\ algo = [p \in Providers |-> None]
  /\ open = {}
  /\ pc = [t \in Threads |-> "idle"]
  /\ at = [t \in Threads |-> 1]
  /\ kind = [t \in Threads |-> None]
  /\ held = [t \in Threads |-> None]
  /\ live = [t \in Threads |-> 0]
  /\ started = [t \in Threads |-> 0]

---------------------------------------------------------------------------
(* The library: BCryptOpenAlgorithmProvider sets its output when it           *)
(* succeeds, BCryptCloseAlgorithmProvider refuses what is no handle.          *)

NewHandle(t, p) == [provider |-> p, by |-> t, conversation |-> started[t]]

OpenProvider(t, p) ==
  \/ /\ algo' = [algo EXCEPT ![p] = NewHandle(t, p)]
     /\ open' = open \cup {NewHandle(t, p)}
  \/ /\ p \in Unavailable
     /\ UNCHANGED <<algo, open>>

CloseProvider(handle) == open' = open \ {handle}

---------------------------------------------------------------------------
(* mongosql_auth_init initializes the conversations one after the other:      *)
(* _mongosql_auth_conversation_init, mongoc_crypto_cng_init                   *)

Begin(t) ==
  /\ started[t] < MaxConversations[t]
  /\ pc' = [pc EXCEPT ![t] = "reset"]
  /\ at' = [at EXCEPT ![t] = 1]
  /\ started' = [started EXCEPT ![t] = @ + 1]
  /\ live' = [live EXCEPT ![t] = @ + 1]

Initialize(t) ==
  /\ pc[t] = "idle"
  /\ Begin(t)
  /\ UNCHANGED <<algo, open, kind, held>>

ResetHandle(t) ==
  /\ pc[t] = "reset"
  /\ algo' = [algo EXCEPT ![Order[at[t]]] = None]
  /\ pc' = [pc EXCEPT ![t] = "open"]
  /\ UNCHANGED <<open, at, kind, held, live, started>>

(* An error is only logged. *)
OpenHandle(t) ==
  /\ pc[t] = "open"
  /\ OpenProvider(t, Order[at[t]])
  /\ \/ /\ at[t] < Last
        /\ pc' = [pc EXCEPT ![t] = "reset"]
        /\ at' = [at EXCEPT ![t] = @ + 1]
        /\ UNCHANGED <<live, started>>
     \/ /\ at[t] = Last
        /\ Begin(t)
     \/ /\ at[t] = Last
        /\ pc' = [pc EXCEPT ![t] = "ready"]
        /\ UNCHANGED <<at, live, started>>
  /\ UNCHANGED <<kind, held>>

---------------------------------------------------------------------------
(* The steps of the conversations draw nonces and compute digests, in any     *)
(* number and order.  _mongoc_rand_bytes opens its provider when it has none. *)

DrawNonce(t) ==
  /\ pc[t] = "ready"
  /\ pc' = [pc EXCEPT ![t] = IF algo[Rng] = None THEN "random_open" ELSE "random_draw"]
  /\ UNCHANGED <<algo, open, at, kind, held, live, started>>

(* Without a provider the step fails. *)
OpenRandom(t) ==
  /\ pc[t] = "random_open"
  /\ OpenProvider(t, Rng)
  /\ pc' = [pc EXCEPT ![t] = IF algo'[Rng] = NewHandle(t, Rng) THEN "random_draw" ELSE "ready"]
  /\ UNCHANGED <<at, kind, held, live, started>>

GenRandom(t) ==
  /\ pc[t] = "random_draw"
  /\ pc' = [pc EXCEPT ![t] = "ready"]
  /\ UNCHANGED <<algo, open, at, kind, held, live, started>>

(* mongoc_crypto_hash and mongoc_crypto_hmac call the functions that          *)
(* mongoc_crypto_init chose.  A function whose global is 0 returns at once,   *)
(* without a digest: the hash says so, the hmac leaves its output unset.      *)
CallDigest(t) ==
  /\ pc[t] = "ready"
  /\ \E k \in Kinds :
       /\ algo[k] # None
       /\ kind' = [kind EXCEPT ![t] = k]
  /\ pc' = [pc EXCEPT ![t] = "load"]
  /\ UNCHANGED <<algo, open, at, held, live, started>>

(* It reads the global again to pass it on. *)
LoadHandle(t) ==
  /\ pc[t] = "load"
  /\ held' = [held EXCEPT ![t] = algo[kind[t]]]
  /\ pc' = [pc EXCEPT ![t] = "compute"]
  /\ UNCHANGED <<algo, open, at, kind, live, started>>

(* _mongoc_crypto_cng_hmac_or_hash: the library refuses a handle that is 0,   *)
(* and there is no digest either.                                             *)
Compute(t) ==
  /\ pc[t] = "compute"
  /\ pc' = [pc EXCEPT ![t] = "ready"]
  /\ held' = [held EXCEPT ![t] = None]
  /\ kind' = [kind EXCEPT ![t] = None]
  /\ UNCHANGED <<algo, open, at, live, started>>

---------------------------------------------------------------------------
(* mongosql_auth_destroy destroys the conversations one after the other:      *)
(* _mongosql_auth_conversation_destroy, mongoc_crypto_cng_cleanup             *)

Destroy(t) ==
  /\ pc[t] = "ready"
  /\ pc' = [pc EXCEPT ![t] = "cleanup"]
  /\ at' = [at EXCEPT ![t] = 1]
  /\ UNCHANGED <<algo, open, kind, held, live, started>>

(* What cleanup looks at. *)
Examined == OrderOfCleanup

(* It passes the address of the global, which is the handle of nothing, and   *)
(* leaves the global as it is.                                                *)
HandleItself(p) == algo[p]
Argument(p) == [address |-> p]

SetToZero(p) == algo' = [algo EXCEPT ![p] = None]
LeaveGlobal(p) == algo' = algo

CleanupHandle(t) ==
  /\ pc[t] = "cleanup"
  /\ IF algo[Examined[at[t]]] # None
     THEN /\ CloseProvider(Argument(Examined[at[t]]))
          /\ LeaveGlobal(Examined[at[t]])
     ELSE UNCHANGED <<algo, open>>
  /\ IF at[t] < Last
     THEN /\ at' = [at EXCEPT ![t] = @ + 1]
          /\ UNCHANGED <<pc, live>>
     ELSE /\ at' = [at EXCEPT ![t] = 1]
          /\ live' = [live EXCEPT ![t] = @ - 1]
          /\ pc' = [pc EXCEPT ![t] = IF live[t] = 1 THEN "idle" ELSE "cleanup"]
  /\ UNCHANGED <<kind, held, started>>

---------------------------------------------------------------------------
Conversation(t) ==
  \/ Initialize(t) \/ ResetHandle(t) \/ OpenHandle(t)
  \/ DrawNonce(t) \/ OpenRandom(t) \/ GenRandom(t)
  \/ CallDigest(t) \/ LoadHandle(t) \/ Compute(t)
  \/ Destroy(t) \/ CleanupHandle(t)

CngNext == \E t \in Threads : Conversation(t)

(* A thread that is inside init goes on: nothing there waits for anything. *)
CngSpec ==
  /\ CngInit /\ [][CngNext]_cngVars
  /\ \A t \in Threads : WF_cngVars(ResetHandle(t) \/ OpenHandle(t))

---------------------------------------------------------------------------
(* Properties *)

CngTypeOK ==
  /\ algo \in [Providers -> Handles \cup {None}]
  /\ open \subseteq Handles
  /\ pc \in [Threads -> Steps]
  /\ at \in [Threads -> 1 .. 4]
  /\ kind \in [Threads -> Kinds \cup {None}]
  /\ held \in [Threads -> Handles \cup {None}]
  /\ live \in [Threads -> Nat]
  /\ started \in [Threads -> Nat]

(* A digest computes with a handle that is open, and open for the algorithm   *)
(* and the use its function is for, whatever other threads have opened or     *)
(* cleaned up since it read the global; the nonce is drawn from an open       *)
(* generator.  (It holds because cleanup closes nothing: see Argument.)       *)
ComputesWithOpenHandle ==
  \A t \in Threads :
    /\ pc[t] = "compute" /\ held[t] # None =>
         held[t] \in open /\ held[t].provider = kind[t]
    /\ pc[t] = "random_draw" => algo[Rng] \in open /\ algo[Rng].provider = Rng

(* Thread t is in init and has set the global of provider p to 0. *)
Reopening(t, p) == pc[t] = "open" /\ Order[at[t]] = p

(* Thread t has conversations, all of them initialized. *)
Initialized(t) == pc[t] \notin {"idle", "reset", "open"}

(* A connection whose conversations are initialized finds a global 0 only     *)
(* while another thread is between setting it to 0 and opening it again, or   *)
(* after the library failed to open it: the conversations of one thread never *)
(* take each other's handles, those of different threads do, and a cleanup    *)
(* takes none (mongoc_crypto_cng_init and cleanup).                           *)
SkippedOnlyWhileReopening ==
  \A t \in Threads, p \in Kinds :
    Initialized(t) /\ algo[p] = None =>
      p \in Unavailable \/ \E u \in Threads \ {t} : Reopening(u, p)

(* A global that another thread set to 0 does not stay 0: the digests of an   *)
(* initialized connection work again when the other's init is through.        *)
HandlesComeBack ==
  \A t \in Threads, p \in Kinds \ Unavailable :
    Initialized(t) /\ algo[p] = None ~> algo[p] # None
===============================================================================
