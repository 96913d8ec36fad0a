---------------------------- MODULE BrokerServer ----------------------------
(***************************************************************************)
(* The broker's request handlers around its stores: the OAuth callback,    *)
(* /oauth/claim, /oauth/nonce and /oauth/lease of broker/src/server.ts and *)
(* /admin/revoke of broker/src/admin-server.ts, over the pairing store,    *)
(* the durable enrollment records and the refresh-token file.              *)
(*                                                                         *)
(* A handler runs without interruption between two awaits on I/O; each     *)
(* such stretch is an action, and a handler under way keeps its place in   *)
(* callback, mint, revoking or in its slot of `writer`.  Reading the       *)
(* record map awaits nothing but the load that finished before the broker  *)
(* listens.  A restart loses everything but the two files.                 *)
(***************************************************************************)
EXTENDS EnrollmentRecordStore, FiniteSets

CONSTANTS Nonces, Devices, MaxRecords, MaxTtl, MaxNonceTtl, Horizon,
          RecordTtl,     \* enrollmentRecordTtlMs
          MaxPersists,   \* bound on record persists under way together
          MaxRestarts    \* bound on broker restarts

(* The claim and the revocation of a pairing each persist on their own. *)
Slots == {"claim", "revoke"} \X Pairs

ASSUME BrokerAssumption ==
    /\ Writers = Slots
    /\ Pairs \cap Nonces = {}
    /\ RecordTtl \in Nat \ {0}
    /\ MaxPersists \in Nat \ {0}
    /\ MaxRestarts \in Nat

VARIABLES now, drawn, status, expiresAt, device, hasHandle, states,
          callbackHandles, nonces, accepted,
          recordExpiresAt, \* record.expiresAtMs of each durable record
          token,           \* the stored refresh token, by the consent it is from
          issuedNonces,    \* the server's own nonce map
          callback,        \* where each OAuth callback is
          mint,            \* the pairing each lease under way is for
          revoking,        \* where each /admin/revoke is
          restarts,
          consented,       \* pairings markAuthorized accepted (history)
          uses,            \* how often each nonce bought a mint (history)
          revokeDone       \* pairings whose revocation was answered (history)

pairingVars == <<drawn, status, expiresAt, device, hasHandle, states,
                 callbackHandles, nonces, accepted>>
durableVars == <<recordVars, recordExpiresAt>>
history == <<consented, uses, revokeDone>>
vars == <<now, pairingVars, durableVars, token, issuedNonces, callback, mint,
          revoking, restarts, history>>

Pairing == INSTANCE PairingStore

(* A mint belongs to a claim (keyed by its pairing) or to a nonce. *)
Mints == Pairs \cup Nonces

Init ==
    /\ Pairing!Init
    /\ RecordsInit
    /\ recordExpiresAt = [p \in Pairs |-> 0]
    /\ token = NoPair
    /\ issuedNonces = {}
    /\ callback = [p \in Pairs |-> "idle"]
    /\ mint = [k \in Mints |-> NoPair]
    /\ revoking = [p \in Pairs |-> "idle"]
    /\ restarts = 0
    /\ consented = {}
    /\ uses = [n \in Nonces |-> 0]
    /\ revokeDone = {}

-----------------------------------------------------------------------------
(* /oauth/pair, once admitted (see Admission.tla). *)
Pair(p, d) ==
    /\ \E ttl \in 1..MaxTtl : Pairing!Create(p, d, ttl)
    /\ UNCHANGED <<durableVars, token, issuedNonces, callback, mint, revoking,
                   restarts, history>>

-----------------------------------------------------------------------------
(* The OAuth callback *)

(* A state this store does not know, or already consumed: 400. *)
CallbackRefused ==
    /\ Pairing!EvictExpired
    /\ UNCHANGED <<durableVars, token, issuedNonces, callback, mint, revoking,
                   restarts, history>>

CallbackStart(p) ==
    /\ Pairing!ConsumeOAuthState(p)
    /\ callback' = [callback EXCEPT ![p] = "exchange"]
    /\ UNCHANGED <<durableVars, token, issuedNonces, mint, revoking, restarts,
                   history>>

(* Google answered the code exchange.  A failed exchange, a wrong scope    *)
(* and an I/O error all end the handler and leave the pairing as it is.    *)
ExchangeReturns(p) ==
    /\ callback[p] = "exchange"
    /\ \E next \in {"idle", "replace", "read"} :
            callback' = [callback EXCEPT ![p] = next]
    /\ UNCHANGED <<now, pairingVars, durableVars, token, issuedNonces, mint,
                   revoking, restarts, history>>

(* refreshTokenStore.replace renames the new token into place. *)
ReplaceToken(p) ==
    /\ callback[p] = "replace"
    /\ token' = p
    /\ \E next \in {"idle", "mark"} : callback' = [callback EXCEPT ![p] = next]
    /\ UNCHANGED <<now, pairingVars, durableVars, issuedNonces, mint, revoking,
                   restarts, history>>

ReplaceFails(p) ==
    /\ callback[p] = "replace"
    /\ callback' = [callback EXCEPT ![p] = "idle"]
    /\ UNCHANGED <<now, pairingVars, durableVars, token, issuedNonces, mint,
                   revoking, restarts, history>>

(* Google sent no refresh token: the stored one must exist. *)
CallbackReadsToken(p) ==
    /\ callback[p] = "read"
    /\ \E next \in {"idle", "mark"} :
        /\ next = "mark" => token # NoPair
        /\ callback' = [callback EXCEPT ![p] = next]
    /\ UNCHANGED <<now, pairingVars, durableVars, token, issuedNonces, mint,
                   revoking, restarts, history>>

(* markAuthorized refuses when the pairing expired or was revoked meanwhile. *)
CallbackMarks(p) ==
    /\ callback[p] = "mark"
    /\ callback' = [callback EXCEPT ![p] = "idle"]
    /\ \/ /\ Pairing!MarkAuthorized(p)
          /\ consented' = consented \cup {p}
       \/ /\ ~Pairing!HandleUsable(p)
          /\ Pairing!EvictExpired
          /\ UNCHANGED consented
    /\ UNCHANGED <<durableVars, token, issuedNonces, mint, revoking, restarts,
                   uses, revokeDone>>

-----------------------------------------------------------------------------
(* mintSealedLease reads the refresh token, asks Google and seals.  None   *)
(* of its outcomes (a lease, 409, 502) changes a store, so it is only a    *)
(* request under way that ends at some point.                              *)
MintSealedLease(k) ==
    /\ mint[k] # NoPair
    /\ mint' = [mint EXCEPT ![k] = NoPair]
    /\ UNCHANGED <<now, pairingVars, durableVars, token, issuedNonces, callback,
                   revoking, restarts, history>>

-----------------------------------------------------------------------------
(* /oauth/claim *)

PersistAllowed == Cardinality({w \in Writers : ~Idle(w)}) < MaxPersists

(* Mutated form: the durable record is only written once the lease is out. *)
ClaimAccepted_RecordsLater(p, proof) ==
    /\ Pairing!OpenClaim(p, proof)
    /\ mint' = [mint EXCEPT ![p] = p]
    /\ UNCHANGED durableVars

(* openClaim succeeds and, before the first await on I/O, the record is in *)
(* the map and its persist begins.                                         *)
ClaimAccepted(p, proof) ==
    /\ PersistAllowed
    /\ Pairing!OpenClaim(p, proof)
    /\ Record(<<"claim", p>>, p)
    /\ recordExpiresAt' = [recordExpiresAt EXCEPT ![p] = now + RecordTtl]
    /\ UNCHANGED mint

Claim(p, proof) ==
    /\ \/ Pairing!ClaimResult(p, proof) = "ok" /\ ClaimAccepted(p, proof)
       \/ /\ Pairing!ClaimResult(p, proof) = "expired"
          /\ Pairing!OpenClaim(p, proof)
          /\ UNCHANGED <<durableVars, mint>>
    /\ UNCHANGED <<token, issuedNonces, callback, revoking, restarts, history>>

(* A persist of either handler: rename, or an error that ends the handler  *)
(* (502 for a claim, 400 for a revocation).                                *)
PersistPublishes(w) ==
    /\ Publish(w)
    /\ UNCHANGED <<now, pairingVars, recordExpiresAt, token, issuedNonces,
                   callback, mint, revoking, restarts, history>>

PersistRejects(w) ==
    /\ PersistFails(w)
    /\ UNCHANGED <<now, pairingVars, recordExpiresAt, token, issuedNonces,
                   callback, mint, revoking, restarts, history>>

(* The claim's record is durable: mint its first lease. *)
ClaimRecorded(p) ==
    /\ Resolve(<<"claim", p>>)
    /\ mint' = [mint EXCEPT ![p] = p]
    /\ UNCHANGED <<now, pairingVars, recordExpiresAt, token, issuedNonces,
                   callback, revoking, restarts, history>>

-----------------------------------------------------------------------------
(* /oauth/nonce and /oauth/lease *)

(* Mutated form: only the ephemeral handshake store is asked. *)
DurablyEnrolled_HandshakeOnly(p) ==
    /\ status[p] # "revoked"
    /\ records[p] # "none"
    /\ now < recordExpiresAt[p]

DurablyEnrolled(p) ==
    /\ status[p] # "revoked"
    /\ records[p] = "enrolled"
    /\ now < recordExpiresAt[p]

IssueDurableNonce(p, n) ==
    /\ DurablyEnrolled(p)
    /\ n \notin drawn
    /\ drawn' = drawn \cup {n}
    /\ \E ttl \in 1..MaxNonceTtl :
            issuedNonces' = issuedNonces \cup
                {[id |-> n, pair |-> p, expiresAt |-> now + ttl]}
    /\ UNCHANGED <<now, status, expiresAt, device, hasHandle, states,
                   callbackHandles, nonces, accepted, durableVars, token,
                   callback, mint, revoking, restarts, history>>

(* Mutated form: the nonce is only deleted once the proof checks out. *)
NoncesLeft_KeepsUsed(entry) == issuedNonces

NoncesLeft(entry) == issuedNonces \ {entry}

(* The nonce goes before its expiry and the signature are looked at. *)
ConsumeDurableNonce(p, entry, proof) ==
    /\ DurablyEnrolled(p)
    /\ entry.pair = p
    /\ issuedNonces' = NoncesLeft(entry)
    /\ IF now < entry.expiresAt /\ Pairing!VerifyProof(p, proof, entry.id)
       THEN /\ mint' = [mint EXCEPT ![entry.id] = p]
            /\ uses' = [uses EXCEPT ![entry.id] = @ + 1]
       ELSE UNCHANGED <<mint, uses>>
    /\ UNCHANGED <<now, pairingVars, durableVars, token, callback, revoking,
                   restarts, consented, revokeDone>>

-----------------------------------------------------------------------------
(* /admin/revoke *)

(* Mutated form: the handshake is left alone once the device is enrolled. *)
RevokeHandshake_OnlyUnenrolled(p) ==
    IF status[p] \notin {"absent", "enrolled"} THEN Pairing!Revoke(p)
    ELSE UNCHANGED <<now, pairingVars>>

RevokeHandshake(p) ==
    IF status[p] # "absent" THEN Pairing!Revoke(p)
    ELSE UNCHANGED <<now, pairingVars>>

(* Both stores are told in one stretch; only the persist is awaited. *)
RevokeStart(p) ==
    /\ revoking[p] = "idle"
    /\ RevokeHandshake(p)
    /\ \/ /\ PersistAllowed
          /\ RevokeRecord(<<"revoke", p>>, p)
          /\ UNCHANGED revoking
       \/ /\ records[p] = "none"
          /\ status[p] # "absent"
          /\ revoking' = [revoking EXCEPT ![p] = "clear"]
          /\ UNCHANGED recordVars
    /\ UNCHANGED <<recordExpiresAt, token, issuedNonces, callback, mint,
                   restarts, history>>

RevokeRecorded(p) ==
    /\ revoking[p] = "idle"
    /\ Resolve(<<"revoke", p>>)
    /\ revoking' = [revoking EXCEPT ![p] = "clear"]
    /\ UNCHANGED <<now, pairingVars, recordExpiresAt, token, issuedNonces,
                   callback, mint, restarts, history>>

(* refreshTokenStore.clear removes the file, then 200; or an error, 400. *)
RevokeClears(p) ==
    /\ revoking[p] = "clear"
    /\ revoking' = [revoking EXCEPT ![p] = "idle"]
    /\ \/ token' = NoPair /\ revokeDone' = revokeDone \cup {p}
       \/ UNCHANGED <<token, revokeDone>>
    /\ UNCHANGED <<now, pairingVars, durableVars, issuedNonces, callback, mint,
                   restarts, consented, uses>>

-----------------------------------------------------------------------------
Restart ==
    /\ restarts < MaxRestarts
    /\ restarts' = restarts + 1
    /\ status' = [p \in Pairs |-> "absent"]
    /\ hasHandle' = {}
    /\ states' = {}
    /\ callbackHandles' = {}
    /\ issuedNonces' = {}
    /\ callback' = [p \in Pairs |-> "idle"]
    /\ mint' = [k \in Mints |-> NoPair]
    /\ revoking' = [p \in Pairs |-> "idle"]
    /\ Reload
    /\ UNCHANGED <<now, drawn, expiresAt, device, nonces, accepted,
                   recordExpiresAt, token, history>>

Tick ==
    /\ now < Horizon
    /\ now' = now + 1
    /\ UNCHANGED <<pairingVars, durableVars, token, issuedNonces, callback,
                   mint, revoking, restarts, history>>

CallbackNext(p) ==
    \/ CallbackStart(p)
    \/ ExchangeReturns(p)
    \/ ReplaceToken(p)
    \/ ReplaceFails(p)
    \/ CallbackReadsToken(p)
    \/ CallbackMarks(p)

LeaseNext(p) ==
    \/ \E proof \in Pairing!Proof : Claim(p, proof)
    \/ ClaimRecorded(p)
    \/ \E n \in Nonces : IssueDurableNonce(p, n)
    \/ \E entry \in issuedNonces, proof \in Pairing!Proof :
            ConsumeDurableNonce(p, entry, proof)

RevokeNext(p) == RevokeStart(p) \/ RevokeRecorded(p) \/ RevokeClears(p)

Next ==
    \/ Tick
    \/ Restart
    \/ CallbackRefused
    \/ \E w \in Writers : PersistPublishes(w) \/ PersistRejects(w)
    \/ \E k \in Mints : MintSealedLease(k)
    \/ \E p \in Pairs :
        \/ \E d \in Devices : Pair(p, d)
        \/ CallbackNext(p)
        \/ LeaseNext(p)
        \/ RevokeNext(p)

Spec == Init /\ [][Next]_vars

-----------------------------------------------------------------------------
(* Properties *)

(* The handshake says "enrolled" only for a device the durable map knows,  *)
(* also when its persist failed: the two stores never drift apart.         *)
EnrolledHasRecord ==
    \A p \in Pairs : status[p] = "enrolled" => records[p] # "none"

(* A revocation is never visible in one store and not in the other. *)
RevocationAgrees ==
    \A p \in Pairs : records[p] # "none" /\ status[p] # "absent" =>
        (status[p] = "revoked") = (records[p] = "revoked")

(* No lease is minted for a pairing whose Google consent was not accepted  *)
(* for that very pairing.                                                  *)
LeaseNeedsConsent ==
    /\ \A k \in Mints : mint[k] \in consented \cup {NoPair}
    /\ \A p \in Pairs : records[p] # "none" \/ file[p] # "none" => p \in consented

(* A nonce buys one mint, whatever requests replay it. *)
NonceBuysOneMint == \A n \in Nonces : uses[n] <= 1

(* Once /admin/revoke has answered, no lease request of that device gets   *)
(* as far as minting, with a nonce from before the revocation or after it. *)
(* A claim already past openClaim still mints.  After a restart this needs *)
(* record persists that have not overlapped.                               *)
RevokedStartsNoMint ==
    [][\A n \in Nonces : mint[n] = NoPair /\ mint'[n] # NoPair =>
            \/ mint'[n] \notin revokeDone
            \/ overlapped /\ restarts > 0]_vars

(* Once /admin/revoke has answered, the refresh token that the revoked     *)
(* pairing's consent produced is gone.                                     *)
RevokedConsentForgotten == \A p \in revokeDone : token # p
=============================================================================
