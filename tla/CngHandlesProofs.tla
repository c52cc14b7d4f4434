--------------------------- MODULE CngHandlesProofs ---------------------------
(***************************************************************************)
(* Proofs about CngHandles for any number of threads and conversations.    *)
(***************************************************************************)
EXTENDS CngHandles, TLAPS

---------------------------------------------------------------------------
(* The inductive invariant *)

(* A global that is not 0 is an open handle of its provider. *)
GlobalsOpen ==
  \A p \in Providers : algo[p] # None => algo[p] \in open /\ algo[p].provider = p

(* A handle is only held by a digest in progress, and is open. *)
HeldOpen ==
  \A t \in Threads :
    /\ pc[t] \in {"load", "compute"} => kind[t] \in Kinds
    /\ held[t] # None => /\ pc[t] = "compute"
                         /\ held[t] \in open /\ held[t].provider = kind[t]

(* A nonce is drawn after the generator has been opened, and it stays open. *)
RandomOpen == \A t \in Threads : pc[t] = "random_draw" => algo[Rng] # None

(* A thread outside of idle has a conversation. *)
LiveCounts == \A t \in Threads : pc[t] = "idle" \/ live[t] >= 1

(* The place of t is not past what it is in the middle of, and it has opened  *)
(* the providers before its place.                                            *)
Opened(t, i) == Initialized(t) \/ (pc[t] \in {"reset", "open"} /\ i < at[t])

OpenedStay ==
  \A t \in Threads, i \in 1 .. 4 :
    Opened(t, i) /\ algo[Order[i]] = None =>
      Order[i] \in Unavailable \/ \E u \in Threads \ {t} : Reopening(u, Order[i])

CngInv == CngTypeOK /\ GlobalsOpen /\ HeldOpen /\ RandomOpen /\ LiveCounts /\ OpenedStay

---------------------------------------------------------------------------
(* The providers of init are the four kinds, each once. *)
LEMMA OrderFacts ==
  /\ \A i \in 1 .. 4 : Order[i] \in Kinds
  /\ \A i, j \in 1 .. 4 : Order[i] = Order[j] => i = j
  /\ \A k \in Kinds : \E i \in 1 .. 4 : Order[i] = k
  /\ Kinds \subseteq Providers /\ Rng \in Providers /\ Rng \notin Kinds
<1>1. /\ Order[1] = <<"sha1", "hash">> /\ Order[2] = <<"sha1", "hmac">>
      /\ Order[3] = <<"sha256", "hash">> /\ Order[4] = <<"sha256", "hmac">>
  BY DEF Order
<1>2. Kinds = {<<"sha1", "hash">>, <<"sha1", "hmac">>, <<"sha256", "hash">>, <<"sha256", "hmac">>}
  BY DEF Kinds, Algorithms
<1>3. 1 .. 4 = {1, 2, 3, 4}
  OBVIOUS
<1>4. \A i \in 1 .. 4 : Order[i] \in Kinds
  BY <1>1, <1>2, <1>3
<1>5. \A i, j \in 1 .. 4 : Order[i] = Order[j] => i = j
  BY <1>1, <1>3
<1>6. \A k \in Kinds : \E i \in 1 .. 4 : Order[i] = k
  BY <1>1, <1>2, <1>3
<1>7. Kinds \subseteq Providers /\ Rng \in Providers /\ Rng \notin Kinds
  BY <1>2 DEF Providers, Rng
<1> QED
  BY <1>4, <1>5, <1>6, <1>7

(* What cleanup examines are kinds, and none of them is a handle. *)
LEMMA ExaminedFacts ==
  \A i \in 1 .. 4 : Examined[i] \in Kinds
<1>1. /\ Examined[1] = <<"sha1", "hash">> /\ Examined[2] = <<"sha1", "hmac">>
      /\ Examined[3] = <<"sha256", "hash">> /\ Examined[4] = <<"sha256", "hash">>
  BY DEF Examined, OrderOfCleanup
<1> QED
  BY <1>1 DEF Kinds, Algorithms

(* The address of a global is no handle. *)
LEMMA ArgumentIsNoHandle ==
  ASSUME NEW p
  PROVE  Argument(p) \notin Handles
BY DEF Argument, Handles

(* A handle that is given out is an open handle of its provider. *)
LEMMA OpenProviderEffect ==
  ASSUME CngTypeOK, NEW t \in Threads, NEW p \in Providers, OpenProvider(t, p)
  PROVE  /\ algo' \in [Providers -> Handles \cup {None}]
         /\ open' \subseteq Handles /\ open \subseteq open'
         /\ \A q \in Providers : q # p => algo'[q] = algo[q]
         /\ \/ /\ algo'[p] \in Handles /\ algo'[p] \in open'
               /\ algo'[p].provider = p /\ algo'[p] # None
            \/ p \in Unavailable /\ algo' = algo /\ open' = open
<1> DEFINE h == NewHandle(t, p)
<1>1. h \in Handles /\ h.provider = p
  BY DEF NewHandle, Handles, CngTypeOK
<1>2. h # None
  BY <1>1, CngAssumption
<1>3. CASE algo' = [algo EXCEPT ![p] = h] /\ open' = open \cup {h}
  <2> HIDE DEF h
  <2> QED BY <1>1, <1>2, <1>3 DEF CngTypeOK
<1>4. CASE p \in Unavailable /\ UNCHANGED <<algo, open>>
  BY <1>4 DEF CngTypeOK
<1> QED
  BY <1>3, <1>4 DEF OpenProvider

THEOREM CngInitially == CngInit => CngInv
<1> SUFFICES ASSUME CngInit PROVE CngInv
  OBVIOUS
<1>1. CngTypeOK
  BY OrderFacts, CngAssumption DEF CngInit, CngTypeOK, Steps
<1>2. GlobalsOpen /\ HeldOpen /\ RandomOpen /\ LiveCounts
  BY DEF CngInit, GlobalsOpen, HeldOpen, RandomOpen, LiveCounts
<1>3. OpenedStay
  BY DEF CngInit, OpenedStay, Opened, Initialized
<1> QED
  BY <1>1, <1>2, <1>3 DEF CngInv

---------------------------------------------------------------------------
(* The steps that leave the globals alone, or only open providers, keep what  *)
(* other threads rely on. *)

LEMMA StepTypes ==
  ASSUME CngInv, NEW t \in Threads, Conversation(t)
  PROVE  CngTypeOK'
<1> USE DEF CngInv
<1>0. /\ algo \in [Providers -> Handles \cup {None}] /\ open \subseteq Handles
      /\ pc \in [Threads -> Steps] /\ at \in [Threads -> 1 .. 4]
      /\ kind \in [Threads -> Kinds \cup {None}] /\ held \in [Threads -> Handles \cup {None}]
      /\ live \in [Threads -> Nat] /\ started \in [Threads -> Nat]
  BY DEF CngTypeOK
<1>1. CASE Initialize(t)
  BY <1>0, <1>1 DEF Initialize, Begin, CngTypeOK, Steps
<1>2. CASE ResetHandle(t)
  <2>1. Order[at[t]] \in Providers
    BY <1>0, OrderFacts
  <2> QED BY <1>0, <1>2, <2>1 DEF ResetHandle, CngTypeOK, Steps
<1>3. CASE OpenHandle(t)
  <2>1. Order[at[t]] \in Providers
    BY <1>0, OrderFacts
  <2>2. OpenProvider(t, Order[at[t]])
    BY <1>3 DEF OpenHandle
  <2>3. algo' \in [Providers -> Handles \cup {None}] /\ open' \subseteq Handles
    BY <2>1, <2>2, OpenProviderEffect
  <2>4. /\ pc' \in [Threads -> Steps] /\ at' \in [Threads -> 1 .. 4]
        /\ live' \in [Threads -> Nat] /\ started' \in [Threads -> Nat]
        /\ kind' = kind /\ held' = held
    BY <1>0, <1>3 DEF OpenHandle, Begin, Last, Steps
  <2> QED BY <1>0, <2>3, <2>4 DEF CngTypeOK
<1>4. CASE DrawNonce(t)
  BY <1>0, <1>4 DEF DrawNonce, CngTypeOK, Steps
<1>5. CASE OpenRandom(t)
  <2>1. algo' \in [Providers -> Handles \cup {None}] /\ open' \subseteq Handles
    BY <1>5, OrderFacts, OpenProviderEffect DEF OpenRandom
  <2> QED BY <1>0, <1>5, <2>1 DEF OpenRandom, CngTypeOK, Steps
<1>6. CASE GenRandom(t)
  BY <1>0, <1>6 DEF GenRandom, CngTypeOK, Steps
<1>7. CASE CallDigest(t)
  BY <1>0, <1>7 DEF CallDigest, CngTypeOK, Steps
<1>8. CASE LoadHandle(t)
  <2>1. algo[kind[t]] \in Handles \cup {None}
    BY <1>0, <1>8, OrderFacts DEF LoadHandle, HeldOpen
  <2> QED BY <1>0, <1>8, <2>1 DEF LoadHandle, CngTypeOK, Steps
<1>9. CASE Compute(t)
  BY <1>0, <1>9 DEF Compute, CngTypeOK, Steps
<1>10. CASE Destroy(t)
  BY <1>0, <1>10 DEF Destroy, CngTypeOK, Steps
<1>11. CASE CleanupHandle(t)
  <2>1. algo' = algo /\ open' \subseteq open /\ kind' = kind /\ held' = held /\ started' = started
    BY <1>11 DEF CleanupHandle, CloseProvider, LeaveGlobal
  <2>2. live[t] \in Nat /\ live[t] >= 1 /\ at[t] \in 1 .. 4
    BY <1>0, <1>11 DEF CleanupHandle, LiveCounts
  <2>3. pc' \in [Threads -> Steps] /\ at' \in [Threads -> 1 .. 4] /\ live' \in [Threads -> Nat]
    BY <1>0, <1>11, <2>2 DEF CleanupHandle, Last, Steps
  <2> QED BY <1>0, <2>1, <2>3 DEF CngTypeOK
<1> QED
  BY <1>1, <1>2, <1>3, <1>4, <1>5, <1>6, <1>7, <1>8, <1>9, <1>10, <1>11 DEF Conversation

(* No step closes a handle, and a global only changes where a thread that is  *)
(* in init, or opens the generator, is at its provider.                       *)
LEMMA StepHandles ==
  ASSUME CngInv, NEW t \in Threads, Conversation(t)
  PROVE  /\ open \subseteq open'
         /\ GlobalsOpen'
         /\ \A p \in Providers : algo'[p] = None /\ algo[p] # None =>
              ResetHandle(t) /\ p = Order[at[t]] /\ p # Rng
<1> USE DEF CngInv
<1>1. CASE ResetHandle(t)
  <2>1. Order[at[t]] \in Kinds /\ Order[at[t]] # Rng
    BY OrderFacts DEF CngTypeOK
  <2>2. open' = open /\ \A p \in Providers : algo'[p] = IF p = Order[at[t]] THEN None ELSE algo[p]
    BY <1>1 DEF ResetHandle, CngTypeOK
  <2> QED BY <1>1, <2>1, <2>2 DEF GlobalsOpen
<1>2. ASSUME NEW p \in Providers, OpenProvider(t, p)
      PROVE  /\ open \subseteq open' /\ GlobalsOpen'
             /\ \A q \in Providers : algo'[q] = None => algo[q] = None
  BY <1>2, OpenProviderEffect DEF GlobalsOpen
<1>3. CASE OpenHandle(t)
  BY <1>2, <1>3, OrderFacts DEF OpenHandle, CngTypeOK
<1>4. CASE OpenRandom(t)
  BY <1>2, <1>4, OrderFacts DEF OpenRandom
<1>5. CASE CleanupHandle(t)
  <2>1. algo' = algo
    BY <1>5 DEF CleanupHandle, LeaveGlobal
  <2>2. Argument(Examined[at[t]]) \notin open
    BY ArgumentIsNoHandle DEF CngTypeOK
  <2>3. open' = open \ {Argument(Examined[at[t]])} \/ open' = open
    BY <1>5 DEF CleanupHandle, CloseProvider
  <2>4. open' = open
    BY <2>2, <2>3
  <2> QED BY <2>1, <2>4 DEF GlobalsOpen
<1>6. CASE UNCHANGED <<algo, open>>
  BY <1>6 DEF GlobalsOpen
<1> QED
  BY <1>1, <1>3, <1>4, <1>5, <1>6
  DEF Conversation, Initialize, Begin, DrawNonce, GenRandom, CallDigest, LoadHandle,
      Compute, Destroy

LEMMA StepHeld ==
  ASSUME CngInv, NEW t \in Threads, Conversation(t)
  PROVE  HeldOpen' /\ RandomOpen' /\ LiveCounts'
<1> USE DEF CngInv
<1>0. /\ pc \in [Threads -> Steps] /\ kind \in [Threads -> Kinds \cup {None}]
      /\ held \in [Threads -> Handles \cup {None}] /\ live \in [Threads -> Nat]
      /\ open \subseteq open'
  BY StepHandles DEF CngTypeOK
<1>1. HeldOpen'
  <2>1. CASE LoadHandle(t)
    <3>1. algo[kind[t]] # None => algo[kind[t]] \in open /\ algo[kind[t]].provider = kind[t]
      BY <2>1, OrderFacts DEF LoadHandle, HeldOpen, GlobalsOpen
    <3> QED BY <1>0, <2>1, <3>1 DEF LoadHandle, HeldOpen
  <2>2. CASE CallDigest(t)
    BY <1>0, <2>2 DEF CallDigest, HeldOpen
  <2>3. CASE Compute(t)
    BY <1>0, <2>3 DEF Compute, HeldOpen
  <2>4. ASSUME UNCHANGED <<kind, held>>, pc[t] \notin {"load", "compute"},
               pc'[t] \notin {"load", "compute"},
               \A u \in Threads \ {t} : pc'[u] = pc[u]
        PROVE  HeldOpen'
    BY <1>0, <2>4 DEF HeldOpen
  <2>5. CASE ~LoadHandle(t) /\ ~CallDigest(t) /\ ~Compute(t)
    <3>1. /\ UNCHANGED <<kind, held>> /\ pc[t] \notin {"load", "compute"}
          /\ pc'[t] \notin {"load", "compute"}
          /\ \A u \in Threads \ {t} : pc'[u] = pc[u]
      BY <1>0, <2>5 DEF Conversation, Initialize, Begin, ResetHandle, OpenHandle, DrawNonce,
           OpenRandom, GenRandom, Destroy, CleanupHandle
    <3> QED BY <2>4, <3>1
  <2> QED BY <2>1, <2>2, <2>3, <2>5
<1>2. RandomOpen'
  <2>1. algo'[Rng] = None => algo[Rng] = None
    BY StepHandles, OrderFacts
  <2>2. ASSUME OpenRandom(t), pc'[t] = "random_draw" PROVE algo'[Rng] # None
    <3>1. algo'[Rng] = NewHandle(t, Rng)
      BY <1>0, <2>2 DEF OpenRandom
    <3>2. NewHandle(t, Rng) \in Handles
      BY OrderFacts DEF NewHandle, Handles, CngTypeOK
    <3> QED BY <3>1, <3>2, CngAssumption
  <2>3. pc'[t] = "random_draw" => algo'[Rng] # None
    BY <1>0, <2>1, <2>2 DEF Conversation, Initialize, Begin, ResetHandle, OpenHandle, DrawNonce,
         OpenRandom, GenRandom, CallDigest, LoadHandle, Compute, Destroy, CleanupHandle
  <2>4. \A u \in Threads \ {t} : pc'[u] = pc[u]
    BY <1>0 DEF Conversation, Initialize, Begin, ResetHandle, OpenHandle, DrawNonce,
         OpenRandom, GenRandom, CallDigest, LoadHandle, Compute, Destroy, CleanupHandle
  <2> QED BY <2>1, <2>3, <2>4 DEF RandomOpen
<1>3. LiveCounts'
  BY <1>0 DEF LiveCounts, Conversation, Initialize, Begin, ResetHandle, OpenHandle, DrawNonce,
       OpenRandom, GenRandom, CallDigest, LoadHandle, Compute, Destroy, CleanupHandle
<1> QED
  BY <1>1, <1>2, <1>3

(* A thread that is opening a provider again is still at it when another      *)
(* thread has taken a step, or has opened it.                                 *)
LEMMA ReopeningStays ==
  ASSUME CngInv, NEW t \in Threads, Conversation(t), NEW u \in Threads,
         NEW i \in 1 .. 4, Reopening(u, Order[i]), algo'[Order[i]] = None
  PROVE  Order[i] \in Unavailable \/ Reopening(u, Order[i])'
<1> USE DEF CngInv
<1>1. CASE u # t
  BY <1>1 DEF Reopening, CngTypeOK, Conversation, Initialize, Begin, ResetHandle, OpenHandle,
       DrawNonce, OpenRandom, GenRandom, CallDigest, LoadHandle, Compute, Destroy, CleanupHandle
<1>2. CASE u = t
  <2>1. OpenHandle(t) /\ Order[at[t]] = Order[i]
    BY <1>2 DEF Reopening, Conversation, Initialize, ResetHandle, OpenHandle,
       DrawNonce, OpenRandom, GenRandom, CallDigest, LoadHandle, Compute, Destroy, CleanupHandle
  <2>2. OpenProvider(t, Order[i]) /\ Order[i] \in Providers
    BY <2>1, OrderFacts DEF OpenHandle
  <2> QED BY <2>2, OpenProviderEffect
<1> QED
  BY <1>1, <1>2

(* A thread gets past a provider only by opening it. *)
LEMMA NewlyOpened ==
  ASSUME CngInv, NEW t \in Threads, Conversation(t), NEW s \in Threads,
         NEW i \in 1 .. 4, Opened(s, i)', ~Opened(s, i)
  PROVE  s = t /\ OpenHandle(t) /\ at[t] = i
<1>0. /\ pc \in [Threads -> Steps] /\ at \in [Threads -> 1 .. 4]
  BY DEF CngInv, CngTypeOK
<1>1. s = t
  BY <1>0 DEF Opened, Initialized, Conversation, Initialize, Begin, ResetHandle, OpenHandle,
       DrawNonce, OpenRandom, GenRandom, CallDigest, LoadHandle, Compute, Destroy, CleanupHandle
<1>2. OpenHandle(t)
  BY <1>0, <1>1 DEF Opened, Initialized, Conversation, Initialize, Begin, ResetHandle,
       DrawNonce, OpenRandom, GenRandom, CallDigest, LoadHandle, Compute, Destroy, CleanupHandle
<1>3. at[t] = i
  BY <1>0, <1>1, <1>2 DEF Opened, Initialized, OpenHandle, Begin, Last
<1> QED
  BY <1>1, <1>2, <1>3

LEMMA StepOpened ==
  ASSUME CngInv, NEW t \in Threads, Conversation(t)
  PROVE  OpenedStay'
<1> USE DEF CngInv
<1> SUFFICES ASSUME NEW s \in Threads, NEW i \in 1 .. 4, Opened(s, i)', algo'[Order[i]] = None,
                    Order[i] \notin Unavailable
             PROVE  \E u \in Threads \ {s} : Reopening(u, Order[i])'
  BY DEF OpenedStay
<1>0. Order[i] \in Providers
  BY OrderFacts
<1>1. CASE algo[Order[i]] # None
  <2>1. ResetHandle(t) /\ Order[i] = Order[at[t]]
    BY <1>0, <1>1, StepHandles
  <2>2. at[t] = i /\ at \in [Threads -> 1 .. 4] /\ pc \in [Threads -> Steps]
    BY <2>1, OrderFacts DEF CngTypeOK
  <2>3. Reopening(t, Order[i])' /\ s # t
    BY <2>1, <2>2 DEF ResetHandle, Reopening, Opened, Initialized
  <2> QED BY <2>3
<1>2. CASE algo[Order[i]] = None /\ Opened(s, i)
  <2>1. PICK u \in Threads \ {s} : Reopening(u, Order[i])
    BY <1>2 DEF OpenedStay
  <2> QED BY <2>1, ReopeningStays
<1>3. CASE ~Opened(s, i)
  <2>1. OpenHandle(t) /\ at[t] = i
    BY <1>3, NewlyOpened
  <2>2. OpenProvider(t, Order[i])
    BY <2>1 DEF OpenHandle
  <2> QED BY <1>0, <2>2, OpenProviderEffect
<1> QED
  BY <1>1, <1>2, <1>3

THEOREM CngInductive == CngInv /\ [CngNext]_cngVars => CngInv'
<1> SUFFICES ASSUME CngInv, [CngNext]_cngVars PROVE CngInv'
  OBVIOUS
<1>1. CASE CngNext
  <2>1. PICK t \in Threads : Conversation(t)
    BY <1>1 DEF CngNext
  <2>2. CngTypeOK'
    BY <2>1, StepTypes
  <2>3. GlobalsOpen'
    BY <2>1, StepHandles
  <2>4. HeldOpen' /\ RandomOpen' /\ LiveCounts'
    BY <2>1, StepHeld
  <2>5. OpenedStay'
    BY <2>1, StepOpened
  <2> QED BY <2>2, <2>3, <2>4, <2>5 DEF CngInv
<1>2. CASE UNCHANGED cngVars
  BY <1>2 DEF cngVars, CngInv, CngTypeOK, GlobalsOpen, HeldOpen, RandomOpen, LiveCounts,
              OpenedStay, Opened, Initialized, Reopening
<1> QED
  BY <1>1, <1>2

THEOREM CngInvariant == CngSpec => []CngInv
BY CngInitially, CngInductive, PTL DEF CngSpec

THEOREM CngTypes == CngSpec => []CngTypeOK
<1>1. CngInv => CngTypeOK
  BY DEF CngInv
<1> QED
  BY <1>1, CngInvariant, PTL

(* Whatever other threads do, a digest computes with an open handle of its    *)
(* algorithm, and a nonce comes from an open generator                        *)
(* (mongoc_crypto_cng_cleanup, _mongoc_crypto_cng_hmac_or_hash).              *)
THEOREM DigestsComputeWithOpenHandle == CngSpec => []ComputesWithOpenHandle
<1>1. CngInv => ComputesWithOpenHandle
  BY OrderFacts DEF CngInv, HeldOpen, RandomOpen, GlobalsOpen, ComputesWithOpenHandle
<1> QED
  BY <1>1, CngInvariant, PTL

(* A digest of an initialized connection is left out only while another       *)
(* thread is inside mongoc_crypto_cng_init, or for want of a provider.        *)
THEOREM DigestsSkippedOnlyWhileReopening == CngSpec => []SkippedOnlyWhileReopening
<1>1. CngInv => SkippedOnlyWhileReopening
  <2> SUFFICES ASSUME CngInv, NEW t \in Threads, NEW p \in Kinds, Initialized(t), algo[p] = None
               PROVE  p \in Unavailable \/ \E u \in Threads \ {t} : Reopening(u, p)
    BY DEF SkippedOnlyWhileReopening
  <2>1. PICK i \in 1 .. 4 : Order[i] = p
    BY OrderFacts
  <2>2. Opened(t, i)
    BY DEF Opened
  <2> QED BY <2>1, <2>2 DEF CngInv, OpenedStay
<1> QED
  BY <1>1, CngInvariant, PTL
===============================================================================
