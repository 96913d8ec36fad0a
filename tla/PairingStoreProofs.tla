------------------------ MODULE PairingStoreProofs --------------------------
(***************************************************************************)
(* TLAPS proofs about PairingStore.  The indexes alone are not inductive:  *)
(* that a fresh pair id cannot meet a dangling handle, and that a fresh    *)
(* nonce cannot meet an old one, needs the history of drawn identifiers.   *)
(***************************************************************************)
EXTENDS PairingStore, FiniteSetTheorems, TLAPS

(* Every identifier the maps mention was drawn earlier. *)
DrawnInv ==
    /\ Live \subseteq drawn
    /\ callbackHandles \subseteq drawn
    /\ \A e \in nonces : e.id \in drawn

(* An outstanding nonce has one entry and was never accepted. *)
NonceInv ==
    /\ \A e \in nonces : accepted[e.id] = 0
    /\ \A e, f \in nonces : e.id = f.id => e = f
    /\ \A n \in Nonces : n \notin drawn => accepted[n] = 0
    /\ NonceAcceptedOnce

IInv == TypeOK /\ IndexesMatchRecords /\ DrawnInv /\ NonceInv
-----------------------------------------------------------------------------
(* Eviction yields a well-typed status map. *)
LEMMA EvictedStatusType ==
    ASSUME TypeOK
    PROVE  /\ EvictedStatus \in [Pairs -> Status \cup {"absent"}]
           /\ \A p \in Pairs : EvictedStatus[p] =
                    IF p \in Expired THEN "absent" ELSE status[p]
  BY DEF TypeOK, EvictedStatus

(* The type invariant: the initial store is well typed. *)
LEMMA InitType == Init => TypeOK
  <1> SUFFICES ASSUME Init PROVE TypeOK
    OBVIOUS
  <1>1. (CHOOSE d \in Devices : TRUE) \in Devices
    BY PairingAssumption
  <1>2. QED
    BY <1>1 DEF Init, TypeOK

(* Every call of the store keeps it well typed. *)
LEMMA NextType == TypeOK /\ [Next]_vars => TypeOK'
  <1> SUFFICES ASSUME TypeOK, [Next]_vars
               PROVE  TypeOK'
    OBVIOUS
  <1> USE PairingAssumption, EvictedStatusType
          DEF TypeOK, Status, EvictedHandles, NoncesOutside, FreshNonces
  <1>1. CASE Tick
    BY <1>1 DEF Tick, indexVars
  <1>2. CASE EvictExpired
    BY <1>2 DEF EvictExpired
  <1>3. CASE EvictExpiredNonces
    BY <1>3 DEF EvictExpiredNonces, indexVars
  <1>4. ASSUME NEW p \in Pairs, NEW d \in Devices, NEW ttl \in 1..MaxTtl,
               Create(p, d, ttl)
        PROVE  TypeOK'
    BY <1>4 DEF Create
  <1>5. ASSUME NEW p \in Pairs, ConsumeOAuthState(p)
        PROVE  TypeOK'
    BY <1>5 DEF ConsumeOAuthState
  <1>6. ASSUME NEW p \in Pairs, MarkAuthorized(p)
        PROVE  TypeOK'
    BY <1>6 DEF MarkAuthorized
  <1>7. ASSUME NEW p \in Pairs, NEW proof \in Proof, OpenClaim(p, proof)
        PROVE  TypeOK'
    BY <1>7 DEF OpenClaim, indexVars
  <1>8. ASSUME NEW p \in Pairs, NEW n \in Nonces, NEW ttl \in 1..MaxNonceTtl,
               IssueNonce(p, n, ttl)
        PROVE  TypeOK'
    <2>1. [id |-> n, pair |-> p, expiresAt |-> now + ttl] \in NonceEntry
      BY <1>8 DEF NonceEntry
    <2>2. QED
      BY <1>8, <2>1 DEF IssueNonce, indexVars
  <1>9. ASSUME NEW p \in Pairs, NEW n \in Nonces, NEW proof \in Proof,
               ConsumeNonce(p, n, proof)
        PROVE  TypeOK'
    BY <1>9 DEF ConsumeNonce, NoncesAfterUse, indexVars
  <1>10. ASSUME NEW p \in Pairs, Revoke(p)
         PROVE  TypeOK'
    BY <1>10 DEF Revoke
  <1>11. CASE UNCHANGED vars
    BY <1>11 DEF vars
  <1>12. QED
    BY <1>1, <1>2, <1>3, <1>4, <1>5, <1>6, <1>7, <1>8, <1>9, <1>10, <1>11
       DEF Next

(* Type correctness of the handshake store, for every set of identifiers,  *)
(* capacity and TTL bound.                                                 *)
THEOREM TypeCorrect == Spec => []TypeOK
  <1>1. QED
    BY InitType, NextType, PTL DEF Spec

-----------------------------------------------------------------------------
(* The initial maps are empty, so the inductive invariant holds. *)
LEMMA InitIInv == Init => IInv
  <1> SUFFICES ASSUME Init PROVE IInv
    OBVIOUS
  <1>1. TypeOK
    BY InitType
  <1>2. IndexesMatchRecords
    BY DEF Init, IndexesMatchRecords, StateIndexExact, HandleIndexExact,
           DanglingHandlesAreDead, NoncesOnlyForEnrolled
  <1>3. DrawnInv /\ NonceInv
    BY DEF Init, DrawnInv, NonceInv, NonceAcceptedOnce, Live
  <1>4. QED
    BY <1>1, <1>2, <1>3 DEF IInv

(* Every call keeps the maps in step with the records. *)
LEMMA NextIndexes == IInv /\ [Next]_vars => IndexesMatchRecords'
  <1> SUFFICES ASSUME IInv, [Next]_vars
               PROVE  IndexesMatchRecords'
    OBVIOUS
  <1> TypeOK
    BY DEF IInv
  <1> USE PairingAssumption, EvictedStatusType
          DEF IInv, TypeOK, Status, NonceEntry, IndexesMatchRecords, StateIndexExact,
              HandleIndexExact, DanglingHandlesAreDead, NoncesOnlyForEnrolled,
              DrawnInv, Live, Expired, EvictedHandles, NoncesOutside
  <1>1. CASE Tick
    BY <1>1 DEF Tick, indexVars
  <1>2. CASE EvictExpired
    BY <1>2 DEF EvictExpired
  <1>3. CASE EvictExpiredNonces
    BY <1>3 DEF EvictExpiredNonces, FreshNonces, indexVars
  <1>4. ASSUME NEW p \in Pairs, NEW d \in Devices, NEW ttl \in 1..MaxTtl,
               Create(p, d, ttl)
        PROVE  IndexesMatchRecords'
    BY <1>4 DEF Create
  <1>5. ASSUME NEW p \in Pairs, ConsumeOAuthState(p)
        PROVE  IndexesMatchRecords'
    BY <1>5 DEF ConsumeOAuthState, StateConsumable
  <1>6. ASSUME NEW p \in Pairs, MarkAuthorized(p)
        PROVE  IndexesMatchRecords'
    BY <1>6 DEF MarkAuthorized, HandleUsable
  <1>7. ASSUME NEW p \in Pairs, NEW proof \in Proof, OpenClaim(p, proof)
        PROVE  IndexesMatchRecords'
    BY <1>7 DEF OpenClaim, ClaimResult, indexVars
  <1>8. ASSUME NEW p \in Pairs, NEW n \in Nonces, NEW ttl \in 1..MaxNonceTtl,
               IssueNonce(p, n, ttl)
        PROVE  IndexesMatchRecords'
    BY <1>8 DEF IssueNonce, FreshNonces, indexVars
  <1>9. ASSUME NEW p \in Pairs, NEW n \in Nonces, NEW proof \in Proof,
               ConsumeNonce(p, n, proof)
        PROVE  IndexesMatchRecords'
    BY <1>9 DEF ConsumeNonce, NoncesAfterUse, FreshNonces, indexVars
  <1>10. ASSUME NEW p \in Pairs, Revoke(p)
         PROVE  IndexesMatchRecords'
    BY <1>10 DEF Revoke
  <1>11. CASE UNCHANGED vars
    BY <1>11 DEF vars
  <1>12. QED
    BY <1>1, <1>2, <1>3, <1>4, <1>5, <1>6, <1>7, <1>8, <1>9, <1>10, <1>11
       DEF Next

(* Every call draws identifiers it has not drawn before, and a nonce is    *)
(* spent before its acceptance is counted.                                 *)
LEMMA NextDrawn == IInv /\ [Next]_vars => (DrawnInv /\ NonceInv)'
  <1> SUFFICES ASSUME IInv, [Next]_vars
               PROVE  (DrawnInv /\ NonceInv)'
    OBVIOUS
  <1> TypeOK
    BY DEF IInv
  <1> USE PairingAssumption, EvictedStatusType
          DEF IInv, TypeOK, Status, NonceEntry, DrawnInv, NonceInv, NonceAcceptedOnce,
              Live, Expired, EvictedHandles, NoncesOutside
  <1>1. CASE Tick
    BY <1>1 DEF Tick, indexVars
  <1>2. CASE EvictExpired
    BY <1>2 DEF EvictExpired
  <1>3. CASE EvictExpiredNonces
    BY <1>3 DEF EvictExpiredNonces, FreshNonces, indexVars
  <1>4. ASSUME NEW p \in Pairs, NEW d \in Devices, NEW ttl \in 1..MaxTtl,
               Create(p, d, ttl)
        PROVE  (DrawnInv /\ NonceInv)'
    BY <1>4 DEF Create
  <1>5. ASSUME NEW p \in Pairs, ConsumeOAuthState(p)
        PROVE  (DrawnInv /\ NonceInv)'
    BY <1>5 DEF ConsumeOAuthState, StateConsumable, IndexesMatchRecords, StateIndexExact
  <1>6. ASSUME NEW p \in Pairs, MarkAuthorized(p)
        PROVE  (DrawnInv /\ NonceInv)'
    BY <1>6 DEF MarkAuthorized, HandleUsable
  <1>7. ASSUME NEW p \in Pairs, NEW proof \in Proof, OpenClaim(p, proof)
        PROVE  (DrawnInv /\ NonceInv)'
    BY <1>7 DEF OpenClaim, ClaimResult, indexVars
  <1>8. ASSUME NEW p \in Pairs, NEW n \in Nonces, NEW ttl \in 1..MaxNonceTtl,
               IssueNonce(p, n, ttl)
        PROVE  (DrawnInv /\ NonceInv)'
    BY <1>8 DEF IssueNonce, FreshNonces, indexVars
  <1>9. ASSUME NEW p \in Pairs, NEW n \in Nonces, NEW proof \in Proof,
               ConsumeNonce(p, n, proof)
        PROVE  (DrawnInv /\ NonceInv)'
    BY <1>9 DEF ConsumeNonce, NoncesAfterUse, FreshNonces, indexVars
  <1>10. ASSUME NEW p \in Pairs, Revoke(p)
         PROVE  (DrawnInv /\ NonceInv)'
    BY <1>10 DEF Revoke
  <1>11. CASE UNCHANGED vars
    BY <1>11 DEF vars
  <1>12. QED
    BY <1>1, <1>2, <1>3, <1>4, <1>5, <1>6, <1>7, <1>8, <1>9, <1>10, <1>11
       DEF Next

(* The inductive invariant holds in every reachable state. *)
LEMMA Inductive == Spec => []IInv
  <1>1. IInv /\ [Next]_vars => IInv'
    BY NextType, NextIndexes, NextDrawn DEF IInv
  <1>2. QED
    BY InitIInv, <1>1, PTL DEF Spec

(* The maps agree with the records after any sequence of calls. *)
THEOREM IndexesCorrect == Spec => []IndexesMatchRecords
  <1>1. IInv => IndexesMatchRecords
    BY DEF IInv
  <1>2. QED
    BY <1>1, Inductive, PTL

(* No lease nonce is ever accepted twice, replays and proofs that failed   *)
(* included.                                                               *)
THEOREM NonceSingleUse == Spec => []NonceAcceptedOnce
  <1>1. IInv => NonceAcceptedOnce
    BY DEF IInv, NonceInv
  <1>2. QED
    BY <1>1, Inductive, PTL

-----------------------------------------------------------------------------
(* A step adds at most the pairing Create makes room for. *)
LEMMA NextCapacity ==
    TypeOK /\ CapacityRespected /\ [Next]_vars => CapacityRespected'
  <1> SUFFICES ASSUME TypeOK, CapacityRespected, [Next]_vars
               PROVE  CapacityRespected'
    OBVIOUS
  <1> USE PairingAssumption, EvictedStatusType
  <1>1. IsFiniteSet(Live) /\ Cardinality(Live) \in Nat
    BY FS_Subset, FS_CardinalityType DEF Live
  <1>2. ASSUME Live' \subseteq Live
        PROVE  CapacityRespected'
    <2>1. IsFiniteSet(Live') /\ Cardinality(Live') <= Cardinality(Live)
      BY <1>1, <1>2, FS_Subset
    <2>2. Cardinality(Live') \in Nat
      BY <2>1, FS_CardinalityType
    <2>3. QED
      BY <1>1, <2>1, <2>2 DEF CapacityRespected
  <1>3. ASSUME NEW p \in Pairs, NEW d \in Devices, NEW ttl \in 1..MaxTtl,
               Create(p, d, ttl)
        PROVE  CapacityRespected'
    <2> DEFINE Kept == Live \ Expired
    <2>1. Live' = Kept \cup {p}
      BY <1>3 DEF Create, Live, Expired, TypeOK
    <2>2. IsFiniteSet(Kept) /\ Cardinality(Kept) \in Nat
      BY <1>1, FS_Subset, FS_CardinalityType
    <2>3. \/ Cardinality(Live') = Cardinality(Kept)
          \/ Cardinality(Live') = Cardinality(Kept) + 1
      BY <2>1, <2>2, FS_AddElement
    <2>4. Cardinality(Kept) < MaxRecords
      BY <1>3 DEF Create, HasCapacity
    <2>5. QED
      BY <2>2, <2>3, <2>4 DEF CapacityRespected
  <1>4. CASE \/ EvictExpired
             \/ \E p \in Pairs : ConsumeOAuthState(p) \/ MarkAuthorized(p)
    <2>1. Live' \subseteq Live
      BY <1>4 DEF EvictExpired, ConsumeOAuthState, StateConsumable,
         MarkAuthorized, HandleUsable, Live, Expired, TypeOK
    <2>2. QED
      BY <1>2, <2>1
  <1>5. CASE \E p \in Pairs : Revoke(p) \/ \E proof \in Proof : OpenClaim(p, proof)
    <2>1. Live' \subseteq Live
      BY <1>5 DEF Revoke, OpenClaim, ClaimResult, Live, TypeOK
    <2>2. QED
      BY <1>2, <2>1
  <1>6. CASE UNCHANGED status
    BY <1>6, <1>2 DEF Live
  <1>7. QED
    BY <1>3, <1>4, <1>5, <1>6
       DEF Next, vars, Tick, EvictExpiredNonces, IssueNonce, ConsumeNonce

(* The store never outgrows maxRecords. *)
THEOREM CapacityHolds == Spec => []CapacityRespected
  <1>1. Init => CapacityRespected
    <2> SUFFICES ASSUME Init PROVE CapacityRespected
      OBVIOUS
    <2>1. Live = {}
      BY DEF Init, Live
    <2>2. QED
      BY <2>1, FS_EmptySet, PairingAssumption DEF CapacityRespected
  <1>2. QED
    BY <1>1, NextCapacity, TypeCorrect, PTL DEF Spec

-----------------------------------------------------------------------------
(* Every call is a step of the lifecycle, forgetting the pairings it       *)
(* evicts, or leaves the lifecycle alone.                                  *)
LEMMA NextRefines ==
    IInv /\ [Next]_vars => [Lifecycle!LifecycleNext]_(Lifecycle!lifecycleVars)
  <1> SUFFICES ASSUME IInv, [Next]_vars
               PROVE  [Lifecycle!LifecycleNext]_(Lifecycle!lifecycleVars)
    OBVIOUS
  <1> TypeOK
    BY DEF IInv
  <1>1. Expired \in SUBSET Lifecycle!Overdue
    BY DEF Expired, Live, Lifecycle!Overdue, Lifecycle!Held, Lifecycle!Phase,
           TypeOK, Status, Phases, PhaseOf
  <1>2. \A p \in Pairs : status[p] # "absent" => p \in drawn
    BY DEF IInv, DrawnInv, Live
  <1>3. Lifecycle!Forgetting(Expired) =
            [p \in Pairs |-> IF EvictedStatus[p] # "absent" THEN EvictedStatus[p]
                             ELSE IF p \in drawn THEN "gone" ELSE "none"]
    BY <1>2, EvictedStatusType DEF Lifecycle!Forgetting, Expired, Live, TypeOK, Phases, PhaseOf
  <1>4. CASE Tick
    BY <1>4 DEF Tick, Lifecycle!LifecycleNext, Lifecycle!Pass, Phases, PhaseOf
  <1>5. CASE EvictExpired
    <2>1. Lifecycle!Forget(Expired)
      BY <1>3, <1>5 DEF EvictExpired, Lifecycle!Forget, Phases, PhaseOf
    <2>2. QED
      BY <1>1, <2>1 DEF Lifecycle!LifecycleNext
  <1>6. ASSUME NEW p \in Pairs, NEW d \in Devices, NEW ttl \in 1..MaxTtl,
               Create(p, d, ttl)
        PROVE  Lifecycle!LifecycleNext
    <2>1. Phases[p] = "none"
      BY <1>2, <1>6 DEF Create, Phases, PhaseOf
    <2>2. Phases' = [Lifecycle!Forgetting(Expired) EXCEPT ![p] = "pending"]
      BY <1>3, <1>6, EvictedStatusType, PairingAssumption
         DEF Create, Phases, PhaseOf, TypeOK
    <2>3. Lifecycle!Begin(p, ttl, Expired)
      BY <1>6, <2>1, <2>2 DEF Create, Lifecycle!Begin
    <2>4. QED
      BY <1>1, <2>3 DEF Lifecycle!LifecycleNext
  <1>7. ASSUME NEW p \in Pairs, ConsumeOAuthState(p)
        PROVE  Lifecycle!LifecycleNext
    <2>1. Phases[p] = "pending" /\ now < expiresAt[p]
      BY <1>7, EvictedStatusType
         DEF ConsumeOAuthState, StateConsumable, Expired, Live, TypeOK, Phases, PhaseOf
    <2>2. Phases' = [Lifecycle!Forgetting(Expired) EXCEPT ![p] = "callback_state_consumed"]
      BY <1>3, <1>7, EvictedStatusType DEF ConsumeOAuthState, Phases, PhaseOf
    <2>3. Lifecycle!Advance(p, "pending", "callback_state_consumed", Expired)
      BY <1>7, <2>1, <2>2 DEF ConsumeOAuthState, Lifecycle!Advance
    <2>4. QED
      BY <1>1, <2>3 DEF Lifecycle!LifecycleNext
  <1>8. ASSUME NEW p \in Pairs, MarkAuthorized(p)
        PROVE  Lifecycle!LifecycleNext
    <2>1. Phases[p] = "callback_state_consumed" /\ now < expiresAt[p]
      BY <1>8, EvictedStatusType
         DEF MarkAuthorized, HandleUsable, Expired, Live, TypeOK, Phases, PhaseOf
    <2>2. Phases' = [Lifecycle!Forgetting(Expired) EXCEPT ![p] = "authorized"]
      BY <1>3, <1>8, EvictedStatusType DEF MarkAuthorized, Phases, PhaseOf
    <2>3. Lifecycle!Advance(p, "callback_state_consumed", "authorized", Expired)
      BY <1>8, <2>1, <2>2 DEF MarkAuthorized, Lifecycle!Advance
    <2>4. QED
      BY <1>1, <2>3 DEF Lifecycle!LifecycleNext
  <1>9. ASSUME NEW p \in Pairs, NEW proof \in Proof, OpenClaim(p, proof)
        PROVE  Lifecycle!LifecycleNext
    <2>1. CASE ClaimResult(p, proof) = "ok"
      <3>1. status[p] = "authorized" /\ now < expiresAt[p]
        BY <2>1 DEF ClaimResult, TypeOK
      <3>2. /\ status' = [status EXCEPT ![p] = "enrolled"]
            /\ UNCHANGED <<now, drawn, expiresAt>>
        BY <1>9, <2>1 DEF OpenClaim
      <3>3. Phases' = [Lifecycle!Forgetting({}) EXCEPT ![p] = "enrolled"]
        BY <3>2 DEF Lifecycle!Forgetting, Phases, PhaseOf, TypeOK
      <3>4. Lifecycle!Advance(p, "authorized", "enrolled", {})
        BY <3>1, <3>2, <3>3 DEF Lifecycle!Advance, Phases, PhaseOf
      <3>5. QED
        BY <3>4 DEF Lifecycle!LifecycleNext
    <2>2. CASE ClaimResult(p, proof) = "expired"
      <3>1. p \in Expired
        BY <2>2 DEF ClaimResult, Expired, Live
      <3>2. /\ status' = [status EXCEPT ![p] = "absent"]
            /\ UNCHANGED <<now, drawn, expiresAt>>
        BY <1>9, <2>2 DEF OpenClaim
      <3>3. p \in drawn
        BY <1>2, <3>1 DEF Expired, Live
      <3>4. Lifecycle!Forget({p})
        BY <3>2, <3>3 DEF Lifecycle!Forget, Lifecycle!Forgetting, Phases,
           PhaseOf, TypeOK
      <3>5. QED
        BY <1>1, <3>1, <3>4 DEF Lifecycle!LifecycleNext
    <2>3. QED
      BY <1>9, <2>1, <2>2 DEF OpenClaim
  <1>10. ASSUME NEW p \in Pairs, Revoke(p)
         PROVE  Lifecycle!LifecycleNext
    <2>1. Lifecycle!RevokePairing(p)
      BY <1>10 DEF Revoke, Live, Lifecycle!RevokePairing, Lifecycle!Held,
         Lifecycle!Phase, TypeOK, Status, Phases, PhaseOf
    <2>2. QED
      BY <2>1 DEF Lifecycle!LifecycleNext
  <1>11. CASE UNCHANGED vars
    BY <1>11 DEF vars, Lifecycle!lifecycleVars, Phases, PhaseOf
  <1>12. CASE EvictExpiredNonces
    BY <1>12 DEF EvictExpiredNonces, Lifecycle!lifecycleVars, Phases, PhaseOf
  <1>13. ASSUME NEW p \in Pairs, NEW n \in Nonces, NEW ttl \in 1..MaxNonceTtl,
                IssueNonce(p, n, ttl)
         PROVE  UNCHANGED Lifecycle!lifecycleVars
    BY <1>13, PairingAssumption DEF IssueNonce, Lifecycle!lifecycleVars, Phases, PhaseOf
  <1>14. ASSUME NEW p \in Pairs, NEW n \in Nonces, NEW proof \in Proof,
                ConsumeNonce(p, n, proof)
         PROVE  UNCHANGED Lifecycle!lifecycleVars
    BY <1>14 DEF ConsumeNonce, Lifecycle!lifecycleVars, Phases, PhaseOf
  <1>15. QED
    BY <1>4, <1>5, <1>6, <1>7, <1>8, <1>9, <1>10, <1>11, <1>12, <1>13, <1>14
       DEF Next

(* The handshake store implements the pairing lifecycle. *)
THEOREM StoreImplementsLifecycle == Spec => RefinesLifecycle
  <1>1. Init => Lifecycle!LifecycleInit
    BY DEF Init, Lifecycle!LifecycleInit, Phases, PhaseOf
  <1>2. QED
    BY <1>1, NextRefines, Inductive, PTL
       DEF Spec, RefinesLifecycle, Lifecycle!LifecycleSpec
=============================================================================
