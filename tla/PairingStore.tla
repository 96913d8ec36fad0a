---------------------------- MODULE PairingStore ----------------------------
(***************************************************************************)
(* The broker's in-memory handshake store, broker/src/pairing-store.ts:    *)
(* four maps (records, states, callbackHandles, nonces) that every method  *)
(* updates synchronously, so one method call is one action.                *)
(*                                                                         *)
(* Identifiers drawn from randomBytes (pair ids, nonces) are unique: the   *)
(* set `drawn` holds those already used.  A pairing has one OAuth state    *)
(* and at most one callback handle, so both are named by their pairing.    *)
(* A map entry is an element of a set; a deleted record has the status     *)
(* "absent".  The wall clock never goes back.                              *)
(***************************************************************************)
EXTENDS Naturals, FiniteSets

CONSTANTS
    Pairs,        \* pair ids the generator may draw
    Nonces,       \* lease nonces the generator may draw
    Devices,      \* device signing keys
    MaxRecords,   \* maxRecords, the store's capacity
    MaxTtl,       \* MAX_PAIRING_TTL_MS
    MaxNonceTtl,  \* MAX_NONCE_TTL_MS
    Horizon       \* bound on the clock

ASSUME PairingAssumption ==
    /\ IsFiniteSet(Pairs)
    /\ Devices # {}
    /\ Pairs \cap Nonces = {}
    /\ MaxRecords \in Nat \ {0}
    /\ MaxTtl \in Nat \ {0}
    /\ MaxNonceTtl \in Nat \ {0}
    /\ Horizon \in Nat

VARIABLES
    now,              \* the nowMs every call is given
    drawn,            \* random identifiers already used
    status,           \* record.status, or "absent" without a record
    expiresAt,        \* record.expiresAtMs
    device,           \* record.devicePublicKey
    hasHandle,        \* pairings whose record.callbackHandleHash is set
    states,           \* pairings whose OAuth state is in `states`
    callbackHandles,  \* pairings whose handle is in `callbackHandles`
    nonces,           \* entries of `nonces`
    accepted          \* how often each nonce was accepted (history)

indexVars == <<hasHandle, states, callbackHandles>>
vars == <<now, drawn, status, expiresAt, device, hasHandle, states,
          callbackHandles, nonces, accepted>>

Status == {"pending", "callback_state_consumed", "authorized", "enrolled",
           "revoked"}

NonceEntry == [id : Nonces, pair : Pairs, expiresAt : Nat]

(* An Ed25519 signature: who signed and what.  The pairing message names   *)
(* its pairing, a lease proof names its nonce.                             *)
Proof == [by : Devices, over : Pairs \cup Nonces]

Init ==
    /\ now = 0
    /\ drawn = {}
    /\ status = [p \in Pairs |-> "absent"]
    /\ expiresAt = [p \in Pairs |-> 0]
    /\ device = [p \in Pairs |-> CHOOSE d \in Devices : TRUE]
    /\ hasHandle = {}
    /\ states = {}
    /\ callbackHandles = {}
    /\ nonces = {}
    /\ accepted = [n \in Nonces |-> 0]

-----------------------------------------------------------------------------
(* Eviction *)

(* Mutated forms, one slip each, of the definitions that follow. *)
NoncesOutside_KeepsAll(S) == nonces
NoncesAfterUse_NotDeleted(entry) == {n \in nonces : now < n.expiresAt}

Live == {p \in Pairs : status[p] # "absent"}

Expired == {p \in Live : now >= expiresAt[p]}

EvictedStatus == [p \in Pairs |-> IF p \in Expired THEN "absent" ELSE status[p]]

EvictedHandles == callbackHandles \ (Expired \cap hasHandle)

NoncesOutside(S) == {n \in nonces : n.pair \notin S}

FreshNonces == {n \in nonces : now < n.expiresAt}

NoncesAfterUse(entry) == FreshNonces \ {entry}

(* A call that evicts and then refuses: create at capacity or with a key   *)
(* of the wrong type, an unknown OAuth state, a stale callback handle.     *)
EvictExpired ==
    /\ status' = EvictedStatus
    /\ hasHandle' = hasHandle \ Expired
    /\ states' = states \ Expired
    /\ callbackHandles' = EvictedHandles
    /\ nonces' = NoncesOutside(Expired)
    /\ UNCHANGED <<now, drawn, expiresAt, device, accepted>>

-----------------------------------------------------------------------------
(* The OAuth handshake *)

HasCapacity_OffByOne == Cardinality(Live \ Expired) <= MaxRecords

HasCapacity == Cardinality(Live \ Expired) < MaxRecords

Create(p, d, ttl) ==
    /\ p \notin drawn
    /\ HasCapacity
    /\ drawn' = drawn \cup {p}
    /\ status' = [EvictedStatus EXCEPT ![p] = "pending"]
    /\ expiresAt' = [expiresAt EXCEPT ![p] = now + ttl]
    /\ device' = [device EXCEPT ![p] = d]
    /\ hasHandle' = hasHandle \ Expired
    /\ states' = (states \ Expired) \cup {p}
    /\ callbackHandles' = EvictedHandles
    /\ nonces' = NoncesOutside(Expired)
    /\ UNCHANGED <<now, accepted>>

StateConsumable(p) == p \in states \ Expired /\ EvictedStatus[p] = "pending"

ConsumeOAuthState(p) ==
    /\ StateConsumable(p)
    /\ status' = [EvictedStatus EXCEPT ![p] = "callback_state_consumed"]
    /\ states' = (states \ Expired) \ {p}
    /\ hasHandle' = (hasHandle \ Expired) \cup {p}
    /\ callbackHandles' = EvictedHandles \cup {p}
    /\ nonces' = NoncesOutside(Expired)
    /\ UNCHANGED <<now, drawn, expiresAt, device, accepted>>

HandleUsable(p) ==
    /\ p \in EvictedHandles
    /\ EvictedStatus[p] = "callback_state_consumed"
    /\ p \in hasHandle

MarkAuthorized(p) ==
    /\ HandleUsable(p)
    /\ status' = [EvictedStatus EXCEPT ![p] = "authorized"]
    /\ hasHandle' = (hasHandle \ Expired) \ {p}
    /\ states' = states \ Expired
    /\ callbackHandles' = EvictedHandles \ {p}
    /\ nonces' = NoncesOutside(Expired)
    /\ UNCHANGED <<now, drawn, expiresAt, device, accepted>>

-----------------------------------------------------------------------------
(* Claim *)

VerifyProof(p, proof, message) == proof.by = device[p] /\ proof.over = message

ClaimResult_SkipsConsent(p, proof) ==
    IF status[p] = "absent" THEN "unknown"
    ELSE IF status[p] = "revoked" THEN "revoked"
    ELSE IF now >= expiresAt[p] THEN "expired"
    ELSE IF ~VerifyProof(p, proof, p) THEN "invalid_proof"
    ELSE "ok"

ClaimResult(p, proof) ==
    IF status[p] = "absent" THEN "unknown"
    ELSE IF status[p] = "revoked" THEN "revoked"
    ELSE IF now >= expiresAt[p] THEN "expired"
    ELSE IF status[p] # "authorized" THEN "not_authorized_yet"
    ELSE IF ~VerifyProof(p, proof, p) THEN "invalid_proof"
    ELSE "ok"

(* Every refusal but "expired" leaves the store as it was.  The expiry     *)
(* path forgets the record, its state and its nonces but not the entry of  *)
(* callbackHandles, which then dangles.                                    *)
OpenClaim(p, proof) ==
    \/ /\ ClaimResult(p, proof) = "ok"
       /\ status' = [status EXCEPT ![p] = "enrolled"]
       /\ UNCHANGED <<indexVars, nonces>>
       /\ UNCHANGED <<now, drawn, expiresAt, device, accepted>>
    \/ /\ ClaimResult(p, proof) = "expired"
       /\ status' = [status EXCEPT ![p] = "absent"]
       /\ hasHandle' = hasHandle \ {p}
       /\ states' = states \ {p}
       /\ nonces' = NoncesOutside({p})
       /\ UNCHANGED <<now, drawn, expiresAt, device, callbackHandles, accepted>>

-----------------------------------------------------------------------------
(* Nonces *)

(* A nonce call that only evicts: the device is not enrolled or the nonce  *)
(* is not one of its own.                                                  *)
EvictExpiredNonces ==
    /\ nonces' = FreshNonces
    /\ UNCHANGED <<now, drawn, status, expiresAt, device, indexVars, accepted>>

IssueNonce(p, n, ttl) ==
    /\ status[p] = "enrolled"
    /\ n \notin drawn
    /\ drawn' = drawn \cup {n}
    /\ nonces' = FreshNonces \cup
                    {[id |-> n, pair |-> p, expiresAt |-> now + ttl]}
    /\ UNCHANGED <<now, status, expiresAt, device, indexVars, accepted>>

(* The entry is deleted before its expiry is tested again and before the   *)
(* signature is looked at.                                                 *)
ConsumeNonce(p, n, proof) ==
    /\ status[p] = "enrolled"
    /\ now < expiresAt[p]
    /\ \E entry \in FreshNonces :
        /\ entry.id = n
        /\ entry.pair = p
        /\ nonces' = NoncesAfterUse(entry)
        /\ accepted' = IF now < entry.expiresAt /\ VerifyProof(p, proof, n)
                       THEN [accepted EXCEPT ![n] = @ + 1]
                       ELSE accepted
    /\ UNCHANGED <<now, drawn, status, expiresAt, device, indexVars>>

-----------------------------------------------------------------------------
(* Operator revocation, also of an expired record no call has evicted yet. *)
Revoke(p) ==
    /\ p \in Live
    /\ status' = [status EXCEPT ![p] = "revoked"]
    /\ states' = states \ {p}
    /\ callbackHandles' = callbackHandles \ ({p} \cap hasHandle)
    /\ hasHandle' = hasHandle \ {p}
    /\ nonces' = NoncesOutside({p})
    /\ UNCHANGED <<now, drawn, expiresAt, device, accepted>>

Tick ==
    /\ now < Horizon
    /\ now' = now + 1
    /\ UNCHANGED <<drawn, status, expiresAt, device, indexVars, nonces, accepted>>

Next ==
    \/ Tick
    \/ EvictExpired
    \/ EvictExpiredNonces
    \/ \E p \in Pairs :
        \/ \E d \in Devices, ttl \in 1..MaxTtl : Create(p, d, ttl)
        \/ ConsumeOAuthState(p)
        \/ MarkAuthorized(p)
        \/ \E proof \in Proof : OpenClaim(p, proof)
        \/ \E n \in Nonces, ttl \in 1..MaxNonceTtl : IssueNonce(p, n, ttl)
        \/ \E n \in Nonces, proof \in Proof : ConsumeNonce(p, n, proof)
        \/ Revoke(p)

Spec == Init /\ [][Next]_vars

-----------------------------------------------------------------------------
(* Properties *)

(* Every field of the store holds values the code can put there. *)
TypeOK ==
    /\ now \in Nat
    /\ drawn \subseteq Pairs \cup Nonces
    /\ status \in [Pairs -> Status \cup {"absent"}]
    /\ expiresAt \in [Pairs -> Nat]
    /\ device \in [Pairs -> Devices]
    /\ hasHandle \subseteq Pairs
    /\ states \subseteq Pairs
    /\ callbackHandles \subseteq Pairs
    /\ nonces \subseteq NonceEntry
    /\ accepted \in [Nonces -> Nat]

(* The secondary maps agree with the records whatever order of calls,      *)
(* refusals and evictions led here: an OAuth state is redeemable exactly   *)
(* while its record is pending; a record carries a callback handle exactly *)
(* while it waits for the provider, and that handle can be found.          *)
StateIndexExact == states = {p \in Pairs : status[p] = "pending"}
HandleIndexExact ==
    /\ hasHandle = {p \in Pairs : status[p] = "callback_state_consumed"}
    /\ hasHandle \subseteq callbackHandles

(* A handle left behind by the expiry path of openClaim belongs to an      *)
(* overdue pairing whose record is gone, never to one that can advance.    *)
DanglingHandlesAreDead ==
    \A p \in callbackHandles \ hasHandle :
        status[p] = "absent" /\ now >= expiresAt[p]

(* Revoking, expiring or forgetting a device takes its nonces along: each  *)
(* outstanding nonce is for a pairing that is enrolled right now.          *)
NoncesOnlyForEnrolled == \A n \in nonces : status[n.pair] = "enrolled"

IndexesMatchRecords ==
    /\ StateIndexExact
    /\ HandleIndexExact
    /\ DanglingHandlesAreDead
    /\ NoncesOnlyForEnrolled

(* The store never holds more than maxRecords pairings, expired ones that  *)
(* no call has evicted included.                                           *)
CapacityRespected == Cardinality(Live) <= MaxRecords

(* A replayed nonce is refused: no nonce is accepted twice. *)
NonceAcceptedOnce == \A n \in Nonces : accepted[n] <= 1

(* The phase PairingLifecycle sees: a drawn pair id without a record was   *)
(* forgotten.                                                              *)
PhaseOf(p) ==
    IF status[p] # "absent" THEN status[p]
    ELSE IF p \in drawn THEN "gone" ELSE "none"

Phases == [p \in Pairs |-> PhaseOf(p)]

Lifecycle == INSTANCE PairingLifecycle WITH
    clock <- now,
    phase <- Phases,
    deadline <- expiresAt

(* The store implements the lifecycle: one link at a time, never at or     *)
(* after expiry, never out of "revoked", never back from "gone".           *)
RefinesLifecycle == Lifecycle!LifecycleSpec
=============================================================================
