------------------------- MODULE BrokerServerProofs -------------------------
(***************************************************************************)
(* The broker's handlers, for any number of pairings, nonces, overlapping  *)
(* persists and restarts.  What they promise relates two stores that one   *)
(* handler updates and another handler reads, so none of it is inductive   *)
(* as it stands; the argument has four layers.                             *)
(*   - The handlers use the durable records as EnrollmentRecordStore says, *)
(*     so all that is proved of the records holds here.                    *)
(*   - PairStep is all a step may do to one pairing in the two stores; the *)
(*     invariant Handshake follows from it.                                *)
(*   - SlotOK and MintOK: whom a persist or a mint under way works for.    *)
(*   - NonceOK and RevokedOK: what happened to a nonce or a pairing before.*)
(***************************************************************************)
EXTENDS BrokerServer, EnrollmentRecordStoreProofs

CallbackStages == {"idle", "exchange", "replace", "read", "mark"}

Entries == [id : Nonces, pair : Pairs, expiresAt : Nat]

BrokerTypeOK ==
    /\ now \in Nat
    /\ drawn \subseteq Pairs \cup Nonces
    /\ status \in [Pairs -> Pairing!Status \cup {"absent"}]
    /\ recordExpiresAt \in [Pairs -> Nat]
    /\ token \in Pairs \cup {NoPair}
    /\ issuedNonces \subseteq Entries
    /\ callback \in [Pairs -> CallbackStages]
    /\ mint \in [Mints -> Pairs \cup {NoPair}]
    /\ revoking \in [Pairs -> {"idle", "clear"}]
    /\ restarts \in Nat
    /\ consented \subseteq Pairs
    /\ uses \in [Nonces -> Nat]
    /\ revokeDone \subseteq Pairs

(* The two stores and the history of one pairing. *)
HandshakeOK(q) ==
    /\ status[q] # "absent" \/ q \in consented => q \in drawn
    /\ status[q] \in {"authorized", "enrolled"} \/ q \in claimed => q \in consented
    /\ status[q] \in {"pending", "callback_state_consumed", "authorized"} =>
            q \notin claimed
    /\ q \in claimed /\ status[q] # "absent" => records[q] # "none"
    /\ status[q] = "enrolled" => records[q] = "enrolled"
    /\ status[q] = "revoked" => records[q] # "enrolled"

Handshake == \A q \in Pairs : HandshakeOK(q)

(* A slot works for the pairing and the call it is named for. *)
SlotOK ==
    \A p \in Pairs :
        /\ Busy(<<"claim", p>>) => writer[<<"claim", p>>].pair = p
        /\ Busy(<<"revoke", p>>) => /\ writer[<<"revoke", p>>].pair = p
                                    /\ writer[<<"revoke", p>>].op = "revoke"

MintOK == \A k \in Mints : mint[k] \in consented \cup {NoPair}

(* An outstanding nonce has one entry and has bought nothing. *)
NonceOK ==
    /\ \A e \in issuedNonces : e.id \in drawn /\ uses[e.id] = 0
    /\ \A e, f \in issuedNonces : e.id = f.id => e = f
    /\ \A n \in Nonces \ drawn : uses[n] = 0
    /\ NonceBuysOneMint

(* A revocation that got as far as the token file has been through the     *)
(* durable records, or there was no record and never will be.              *)
RevokedOK(q) ==
    /\ q \in revokeDone \/ revoking[q] = "clear" =>
        \/ q \in revokeAck
        \/ q \in drawn \ claimed /\ status[q] \in {"revoked", "absent"}
    /\ restarts = 0 /\ q \in revokeAck => records[q] = "revoked"

Revoked == \A q \in Pairs : RevokedOK(q)

BrokerInv ==
    BrokerTypeOK /\ Handshake /\ SlotOK /\ MintOK /\ NonceOK /\ Revoked

-----------------------------------------------------------------------------
(* The records *)

\* Every step of the broker is, for the durable records, a step of their own
\* specification or none.
LEMMA NextRecords == [Next]_vars => [RecordsNext]_recordVars
<1> SUFFICES ASSUME [Next]_vars PROVE [RecordsNext]_recordVars
  OBVIOUS
<1> USE BrokerAssumption DEF Slots, durableVars
<1>1. CASE Tick \/ CallbackRefused \/ UNCHANGED vars
  BY <1>1 DEF Tick, CallbackRefused, vars
<1>2. CASE Restart
  BY <1>2 DEF Restart, RecordsNext
<1>3. ASSUME NEW w \in Writers, PersistPublishes(w) \/ PersistRejects(w)
      PROVE  RecordsNext
  BY <1>3 DEF PersistPublishes, PersistRejects, RecordsNext
<1>4. CASE \E k \in Mints : MintSealedLease(k)
  BY <1>4 DEF MintSealedLease
<1>5. ASSUME NEW p \in Pairs, (\E d \in Devices : Pair(p, d)) \/ CallbackNext(p)
      PROVE  UNCHANGED recordVars
  BY <1>5 DEF Pair, CallbackNext, CallbackStart, ExchangeReturns, ReplaceToken,
              ReplaceFails, CallbackReadsToken, CallbackMarks
<1>6. ASSUME NEW p \in Pairs, LeaseNext(p) \/ RevokeNext(p)
      PROVE  [RecordsNext]_recordVars
  <2>1. <<"claim", p>> \in Writers /\ <<"revoke", p>> \in Writers
    OBVIOUS
  <2>2. ASSUME NEW proof, Claim(p, proof) PROVE [RecordsNext]_recordVars
    BY <2>1, <2>2 DEF Claim, ClaimAccepted, RecordsNext
  <2>3. CASE ClaimRecorded(p) \/ RevokeRecorded(p)
    BY <2>1, <2>3 DEF ClaimRecorded, RevokeRecorded, RecordsNext
  <2>4. CASE RevokeStart(p)
    BY <2>1, <2>4 DEF RevokeStart, RecordsNext
  <2>5. CASE RevokeClears(p)
    BY <2>5 DEF RevokeClears
  <2>6. ASSUME NEW n, IssueDurableNonce(p, n) PROVE UNCHANGED recordVars
    BY <2>6 DEF IssueDurableNonce
  <2>7. ASSUME NEW entry, NEW proof, ConsumeDurableNonce(p, entry, proof)
        PROVE  UNCHANGED recordVars
    BY <2>7 DEF ConsumeDurableNonce
  <2> QED BY <1>6, <2>2, <2>3, <2>4, <2>5, <2>6, <2>7 DEF LeaseNext, RevokeNext
<1> QED BY <1>1, <1>2, <1>3, <1>4, <1>5, <1>6 DEF Next

\* The handlers of claim and revocation, restarts included, use the durable
\* records within the specification of EncryptedEnrollmentRecordStore.
THEOREM HandlersUseRecords == Spec => RecordsSpec
<1>1. Init => RecordsInit
  BY DEF Init
<1> QED BY <1>1, NextRecords, PTL DEF Spec, RecordsSpec

-----------------------------------------------------------------------------
(* What a step may do to one pairing *)

(* The durable map is as it was for q. *)
SameRecord(q) == records'[q] = records[q] /\ (q \in claimed' <=> q \in claimed)

PairStep(q) ==
    \/ status'[q] \in {status[q], "absent"} /\ SameRecord(q)
    \/ q \notin drawn /\ q \in drawn' /\ status'[q] = "pending" /\ SameRecord(q)
    \/ /\ status[q] = "pending" /\ status'[q] = "callback_state_consumed"
       /\ SameRecord(q)
    \/ /\ status[q] = "callback_state_consumed" /\ status'[q] = "authorized"
       /\ q \in consented' /\ SameRecord(q)
    \/ /\ status[q] = "authorized" /\ status'[q] = "enrolled"
       /\ records'[q] = "enrolled" /\ q \in claimed'
    \/ /\ status'[q] = IF status[q] = "absent" THEN "absent" ELSE "revoked"
       /\ records'[q] = IF records[q] = "none" THEN "none" ELSE "revoked"
       /\ q \in claimed' <=> q \in claimed
    \/ /\ status'[q] = "absent" /\ records'[q] = file[q] /\ restarts' # 0
       /\ q \in claimed' <=> q \in claimed

HistoryStep(q) ==
    /\ restarts' = 0 => restarts = 0
    /\ drawn \subseteq drawn'
    /\ consented \subseteq consented'
    /\ q \in consented' => q \in consented \/ status[q] = "callback_state_consumed"

LEMMA NextPair ==
    ASSUME BrokerTypeOK, IInv, [Next]_vars, NEW q \in Pairs
    PROVE  PairStep(q) /\ HistoryStep(q)
<1> USE DEF BrokerTypeOK, PairStep, HistoryStep, SameRecord
<1>1. CASE Tick \/ UNCHANGED vars
  BY <1>1 DEF Tick, vars, durableVars, recordVars, pairingVars, history
<1>2. CASE Restart
  BY <1>2 DEF Restart, Reload, history
<1>3. CASE CallbackRefused
  BY <1>3 DEF CallbackRefused, Pairing!EvictExpired, Pairing!EvictedStatus,
              durableVars, recordVars, history
<1>4. ASSUME NEW w \in Writers, PersistPublishes(w) \/ PersistRejects(w)
      PROVE  PairStep(q) /\ HistoryStep(q)
  BY <1>4 DEF PersistPublishes, PersistRejects, Publish, PersistFails, Reject,
              pairingVars, history
<1>5. CASE \E k \in Mints : MintSealedLease(k)
  BY <1>5 DEF MintSealedLease, durableVars, recordVars, pairingVars, history
<1>6. ASSUME NEW p \in Pairs, NEW d \in Devices, Pair(p, d)
      PROVE  PairStep(q) /\ HistoryStep(q)
  BY <1>6 DEF Pair, Pairing!Create, Pairing!EvictedStatus, durableVars, recordVars,
              history
<1>7. ASSUME NEW p \in Pairs, CallbackNext(p)
      PROVE  PairStep(q) /\ HistoryStep(q)
  <2>1. CASE CallbackStart(p)
    BY <2>1 DEF CallbackStart, Pairing!ConsumeOAuthState, Pairing!StateConsumable,
                Pairing!EvictedStatus, durableVars, recordVars, history
  <2>2. CASE ExchangeReturns(p) \/ ReplaceToken(p) \/ ReplaceFails(p)
             \/ CallbackReadsToken(p)
    BY <2>2 DEF ExchangeReturns, ReplaceToken, ReplaceFails, CallbackReadsToken,
                durableVars, recordVars, pairingVars, history
  <2>3. CASE CallbackMarks(p)
    BY <2>3 DEF CallbackMarks, Pairing!MarkAuthorized, Pairing!HandleUsable,
                Pairing!EvictExpired, Pairing!EvictedStatus, durableVars, recordVars
  <2> QED BY <1>7, <2>1, <2>2, <2>3 DEF CallbackNext
<1>8. ASSUME NEW p \in Pairs, LeaseNext(p)
      PROVE  PairStep(q) /\ HistoryStep(q)
  <2>1. ASSUME NEW proof, Claim(p, proof) PROVE PairStep(q) /\ HistoryStep(q)
    BY <2>1 DEF Claim, ClaimAccepted, Record, Pairing!OpenClaim, Pairing!ClaimResult,
                IInv, RecordsTypeOK, RecordMap, durableVars, recordVars, history
  <2>2. CASE ClaimRecorded(p)
    BY <2>2 DEF ClaimRecorded, Resolve, pairingVars, history
  <2>3. ASSUME NEW n, IssueDurableNonce(p, n) PROVE PairStep(q) /\ HistoryStep(q)
    BY <2>3 DEF IssueDurableNonce, durableVars, recordVars, history
  <2>4. ASSUME NEW entry, NEW proof, ConsumeDurableNonce(p, entry, proof)
        PROVE  PairStep(q) /\ HistoryStep(q)
    BY <2>4 DEF ConsumeDurableNonce, durableVars, recordVars, pairingVars
  <2> QED BY <1>8, <2>1, <2>2, <2>3, <2>4 DEF LeaseNext
<1>9. ASSUME NEW p \in Pairs, RevokeNext(p)
      PROVE  PairStep(q) /\ HistoryStep(q)
  <2>1. CASE RevokeStart(p)
    BY <2>1 DEF RevokeStart, RevokeHandshake, RevokeRecord, Pairing!Revoke,
                IInv, RecordsTypeOK, RecordMap, recordVars, pairingVars, history
  <2>2. CASE RevokeRecorded(p) \/ RevokeClears(p)
    BY <2>2 DEF RevokeRecorded, RevokeClears, Resolve, durableVars, recordVars,
                pairingVars, history
  <2> QED BY <1>9, <2>1, <2>2 DEF RevokeNext
<1> QED BY <1>1, <1>2, <1>3, <1>4, <1>5, <1>6, <1>7, <1>8, <1>9 DEF Next

-----------------------------------------------------------------------------
(* The layers of the invariant *)

LEMMA InitBroker == Init => BrokerInv
<1> SUFFICES ASSUME Init PROVE BrokerInv
  OBVIOUS
<1> USE DEF Init, Pairing!Init, RecordsInit, Nothing
<1>1. BrokerTypeOK
  BY DEF BrokerTypeOK, CallbackStages
<1>2. Handshake
  BY DEF Handshake, HandshakeOK
<1>3. SlotOK
  BY BrokerAssumption DEF SlotOK, Busy, IdleWrite, Slots
<1>4. MintOK /\ NonceOK
  BY DEF MintOK, NonceOK, NonceBuysOneMint
<1>5. Revoked
  BY DEF Revoked, RevokedOK
<1> QED BY <1>1, <1>2, <1>3, <1>4, <1>5 DEF BrokerInv

LEMMA NextType ==
    ASSUME BrokerTypeOK, IInv, SlotOK, [Next]_vars PROVE BrokerTypeOK'
<1> USE DEF BrokerTypeOK, CallbackStages, Pairing!Status, Entries
<1>1. CASE Tick \/ UNCHANGED vars
  BY <1>1 DEF Tick, vars, durableVars, recordVars, pairingVars, history
<1>2. CASE Restart
  BY <1>2 DEF Restart, history
<1>3. CASE CallbackRefused
  BY <1>3 DEF CallbackRefused, Pairing!EvictExpired, Pairing!EvictedStatus,
              durableVars, history
<1>4. ASSUME NEW w \in Writers, PersistPublishes(w) \/ PersistRejects(w)
      PROVE  BrokerTypeOK'
  BY <1>4 DEF PersistPublishes, PersistRejects, pairingVars, history
<1>5. CASE \E k \in Mints : MintSealedLease(k)
  BY <1>5 DEF MintSealedLease, durableVars, pairingVars, history
<1>6. ASSUME NEW p \in Pairs, NEW d \in Devices, Pair(p, d) PROVE BrokerTypeOK'
  BY <1>6 DEF Pair, Pairing!Create, Pairing!EvictedStatus, durableVars, history
<1>7. ASSUME NEW p \in Pairs, CallbackNext(p) PROVE BrokerTypeOK'
  <2>1. CASE CallbackStart(p)
    BY <2>1 DEF CallbackStart, Pairing!ConsumeOAuthState, Pairing!EvictedStatus,
                durableVars, history
  <2>2. CASE ExchangeReturns(p) \/ ReplaceToken(p) \/ ReplaceFails(p)
             \/ CallbackReadsToken(p)
    BY <2>2 DEF ExchangeReturns, ReplaceToken, ReplaceFails, CallbackReadsToken,
                durableVars, pairingVars, history
  <2>3. CASE CallbackMarks(p)
    BY <2>3 DEF CallbackMarks, Pairing!MarkAuthorized, Pairing!EvictExpired,
                Pairing!EvictedStatus, durableVars
  <2> QED BY <1>7, <2>1, <2>2, <2>3 DEF CallbackNext
<1>8. ASSUME NEW p \in Pairs, LeaseNext(p) PROVE BrokerTypeOK'
  <2>1. ASSUME NEW proof, Claim(p, proof) PROVE BrokerTypeOK'
    BY <2>1, BrokerAssumption
       DEF Claim, ClaimAccepted, Pairing!OpenClaim, durableVars, history
  <2>2. CASE ClaimRecorded(p)
    BY <2>2 DEF ClaimRecorded, Mints, pairingVars, history
  <2>3. ASSUME NEW n \in Nonces, IssueDurableNonce(p, n) PROVE BrokerTypeOK'
    BY <2>3 DEF IssueDurableNonce, durableVars, history
  <2>4. ASSUME NEW entry \in issuedNonces, NEW proof, ConsumeDurableNonce(p, entry, proof)
        PROVE  BrokerTypeOK'
    BY <2>4 DEF ConsumeDurableNonce, NoncesLeft, Mints, durableVars, pairingVars
  <2> QED BY <1>8, <2>1, <2>2, <2>3, <2>4 DEF LeaseNext
<1>9. ASSUME NEW p \in Pairs, RevokeNext(p) PROVE BrokerTypeOK'
  <2>1. CASE RevokeStart(p)
    BY <2>1 DEF RevokeStart, RevokeHandshake, Pairing!Revoke, pairingVars, history
  <2>2. CASE RevokeRecorded(p) \/ RevokeClears(p)
    BY <2>2 DEF RevokeRecorded, RevokeClears, durableVars, pairingVars, history
  <2> QED BY <1>9, <2>1, <2>2 DEF RevokeNext
<1> QED BY <1>1, <1>2, <1>3, <1>4, <1>5, <1>6, <1>7, <1>8, <1>9 DEF Next

\* A pair id is drawn once, so its handshake never begins anew; a claim writes
\* the record in the step that enrols, a revocation reaches both stores in one.
LEMMA NextHandshake ==
    ASSUME BrokerTypeOK, IInv, Handshake, [Next]_vars PROVE Handshake'
<1> SUFFICES ASSUME NEW q \in Pairs PROVE HandshakeOK(q)'
  BY DEF Handshake
<1>1. /\ records[q] \in {"none", "enrolled", "revoked"}
      /\ q \notin claimed => records[q] = "none"
  BY DEF IInv, RecordsTypeOK, RecordMap
<1>2. HandshakeOK(q) /\ PairStep(q) /\ HistoryStep(q)
  BY NextPair DEF Handshake
<1> QED BY <1>1, <1>2 DEF HandshakeOK, PairStep, HistoryStep, SameRecord

LEMMA SlotsAreWriters ==
    \A p \in Pairs : <<"claim", p>> \in Writers /\ <<"revoke", p>> \in Writers
BY BrokerAssumption DEF Slots

\* Only a claim begins a persist in a claim's slot, and only a revocation in a
\* revocation's.
LEMMA NextSlot == ASSUME IInv, SlotOK, [Next]_vars PROVE SlotOK'
<1> USE BrokerAssumption DEF IInv, RecordsTypeOK, SlotOK, Busy, Slots
<1>1. CASE UNCHANGED writer
  BY <1>1
<1>0. ASSUME NEW w \in Writers, writer' = [writer EXCEPT ![w] = IdleWrite]
      PROVE  SlotOK'
  <2>1. \A v \in Writers : writer'[v] = writer[v] \/ writer'[v].stage = "idle"
    BY <1>0, IdleWriteType
  <2>2. ASSUME NEW p \in Pairs
        PROVE  /\ writer'[<<"claim", p>>] = writer[<<"claim", p>>] \/ ~Busy(<<"claim", p>>)'
               /\ writer'[<<"revoke", p>>] = writer[<<"revoke", p>>] \/ ~Busy(<<"revoke", p>>)'
    BY <2>1, SlotsAreWriters
  <2>3. ASSUME NEW p \in Pairs, Busy(<<"claim", p>>)'
        PROVE  writer'[<<"claim", p>>].pair = p
    BY <2>2, <2>3
  <2>4. ASSUME NEW p \in Pairs, Busy(<<"revoke", p>>)'
        PROVE  writer'[<<"revoke", p>>].pair = p /\ writer'[<<"revoke", p>>].op = "revoke"
    <3>1. writer'[<<"revoke", p>>] = writer[<<"revoke", p>>]
      BY <2>2, <2>4
    <3>2. Busy(<<"revoke", p>>)
      BY <3>1, <2>4
    <3> QED BY <3>1, <3>2
  <2> QED BY <2>3, <2>4
<1>2. CASE Restart
  BY <1>2, IdleWriteType DEF Restart, Reload
<1>3. ASSUME NEW w \in Writers, PersistPublishes(w) \/ PersistRejects(w)
      PROVE  SlotOK'
  <2>1. CASE PersistRejects(w)
    BY <2>1, <1>0 DEF PersistRejects, PersistFails, Reject
  <2>2. CASE PersistPublishes(w)
    <3>1. /\ writer' = [writer EXCEPT ![w] = Renamed(writer[w])]
          /\ writer[w].stage # "idle"
      BY <2>2 DEF PersistPublishes, Publish
    <3>2. \A v \in Writers : /\ writer'[v].op = writer[v].op
                             /\ writer'[v].pair = writer[v].pair
                             /\ writer'[v].stage # "idle" => writer[v].stage # "idle"
      BY <3>1 DEF Renamed
    <3> QED BY <3>2
  <2> QED BY <1>3, <2>1, <2>2
<1>4. ASSUME NEW p \in Pairs, NEW proof, Claim(p, proof) PROVE SlotOK'
  <2>1. CASE UNCHANGED writer
    BY <2>1, <1>1
  <2>2. CASE Record(<<"claim", p>>, p)
    BY <2>2 DEF Record, Persist
  <2> QED BY <1>4, <2>1, <2>2 DEF Claim, ClaimAccepted, durableVars, recordVars
<1>5. ASSUME NEW p \in Pairs, ClaimRecorded(p) \/ RevokeRecorded(p) PROVE SlotOK'
  BY <1>0, <1>5 DEF ClaimRecorded, RevokeRecorded, Resolve
<1>6. ASSUME NEW p \in Pairs, RevokeStart(p) PROVE SlotOK'
  <2>1. CASE UNCHANGED writer
    BY <2>1, <1>1
  <2>2. CASE RevokeRecord(<<"revoke", p>>, p)
    BY <2>2 DEF RevokeRecord, Persist
  <2> QED BY <1>6, <2>1, <2>2 DEF RevokeStart, recordVars
<1>7. CASE Tick \/ CallbackRefused \/ UNCHANGED vars \/ \E k \in Mints : MintSealedLease(k)
  BY <1>1, <1>7
     DEF Tick, CallbackRefused, MintSealedLease, vars, durableVars, recordVars
<1>8. ASSUME NEW p \in Pairs, (\E d \in Devices : Pair(p, d)) \/ CallbackNext(p)
      PROVE  SlotOK'
  BY <1>1, <1>8 DEF Pair, CallbackNext, CallbackStart, ExchangeReturns, ReplaceToken,
         ReplaceFails, CallbackReadsToken, CallbackMarks, durableVars, recordVars
<1>9. ASSUME NEW p \in Pairs, NEW n, IssueDurableNonce(p, n) PROVE SlotOK'
  BY <1>1, <1>9 DEF IssueDurableNonce, durableVars, recordVars
<1>10. ASSUME NEW p \in Pairs, NEW entry, NEW proof, ConsumeDurableNonce(p, entry, proof)
       PROVE  SlotOK'
  BY <1>1, <1>10 DEF ConsumeDurableNonce, durableVars, recordVars
<1>11. ASSUME NEW p \in Pairs, RevokeClears(p) PROVE SlotOK'
  BY <1>1, <1>11 DEF RevokeClears, durableVars, recordVars
<1> QED BY <1>2, <1>3, <1>4, <1>5, <1>6, <1>7, <1>8, <1>9, <1>10, <1>11
        DEF Next, LeaseNext, RevokeNext

\* What a step may do to the mints: a claim whose persist resolved begins one,
\* a nonce that was outstanding begins one, or one ends.
MintStep ==
    \/ UNCHANGED <<mint, uses>>
    \/ mint' = [k \in Mints |-> NoPair] /\ UNCHANGED uses
    \/ \E k \in Mints : mint' = [mint EXCEPT ![k] = NoPair] /\ UNCHANGED uses
    \/ \E p \in Pairs : /\ Busy(<<"claim", p>>)
                        /\ mint' = [mint EXCEPT ![p] = p]
                        /\ UNCHANGED uses
    \/ \E p \in Pairs, entry \in issuedNonces :
        /\ DurablyEnrolled(p)
        /\ mint' = [mint EXCEPT ![entry.id] = p]
        /\ uses' = [uses EXCEPT ![entry.id] = @ + 1]
        /\ issuedNonces' = issuedNonces \ {entry}

LEMMA NextMint == [Next]_vars => MintStep
<1> SUFFICES ASSUME [Next]_vars PROVE MintStep
  OBVIOUS
<1> USE DEF MintStep, history
<1>1. CASE Tick \/ CallbackRefused \/ UNCHANGED vars
  BY <1>1 DEF Tick, CallbackRefused, vars
<1>2. CASE Restart
  BY <1>2 DEF Restart
<1>3. ASSUME NEW w \in Writers, PersistPublishes(w) \/ PersistRejects(w)
      PROVE  MintStep
  BY <1>3 DEF PersistPublishes, PersistRejects
<1>4. CASE \E k \in Mints : MintSealedLease(k)
  BY <1>4 DEF MintSealedLease
<1>5. ASSUME NEW p \in Pairs, (\E d \in Devices : Pair(p, d)) \/ CallbackNext(p)
             \/ RevokeNext(p)
      PROVE  MintStep
  BY <1>5 DEF Pair, CallbackNext, CallbackStart, ExchangeReturns, ReplaceToken,
              ReplaceFails, CallbackReadsToken, CallbackMarks, RevokeNext,
              RevokeStart, RevokeRecorded, RevokeClears
<1>6. ASSUME NEW p \in Pairs, NEW proof, Claim(p, proof) PROVE MintStep
  BY <1>6 DEF Claim, ClaimAccepted
<1>7. ASSUME NEW p \in Pairs, ClaimRecorded(p) PROVE MintStep
  BY <1>7 DEF ClaimRecorded, Resolve, Busy
<1>8. ASSUME NEW p \in Pairs, NEW n, IssueDurableNonce(p, n) PROVE MintStep
  BY <1>8 DEF IssueDurableNonce
<1>9. ASSUME NEW p \in Pairs, NEW entry \in issuedNonces, NEW proof,
             ConsumeDurableNonce(p, entry, proof)
      PROVE  MintStep
  BY <1>9 DEF ConsumeDurableNonce, NoncesLeft
<1> QED BY <1>1, <1>2, <1>3, <1>4, <1>5, <1>6, <1>7, <1>8, <1>9 DEF Next, LeaseNext

\* A record exists only for a claimed pairing, and a claim needs the consent.
LEMMA NextMintOK ==
    ASSUME BrokerTypeOK, IInv, Handshake, SlotOK, MintOK, [Next]_vars
    PROVE  MintOK'
<1>1. ASSUME NEW p \in consented PROVE p \in consented'
  BY NextPair DEF HistoryStep, BrokerTypeOK
<1>2. \A p \in Pairs : p \in claimed => p \in consented
  BY DEF Handshake, HandshakeOK
<1>3. ASSUME NEW p \in Pairs, Busy(<<"claim", p>>) PROVE p \in claimed
  <2>1. writer[<<"claim", p>>].pair = p
    BY <1>3 DEF SlotOK
  <2>2. writer[<<"claim", p>>].pair \in claimed
    BY <1>3, SlotsAreWriters DEF IInv, WritersOK
  <2> QED BY <2>1, <2>2
<1>4. \A p \in Pairs : DurablyEnrolled(p) => p \in claimed
  BY DEF DurablyEnrolled, IInv, RecordsTypeOK
<1> QED BY <1>1, <1>2, <1>3, <1>4, NextMint DEF MintStep, MintOK, BrokerTypeOK

\* What a step may do to the nonces: some go, a fresh one comes, or one that is
\* outstanding buys a mint and goes.
NonceStep ==
    /\ drawn \subseteq drawn'
    /\ \/ issuedNonces' \subseteq issuedNonces /\ UNCHANGED uses
       \/ /\ UNCHANGED uses
          /\ \E entry \in Entries :
                /\ entry.id \in drawn' \ drawn
                /\ issuedNonces' = issuedNonces \cup {entry}
       \/ \E entry \in issuedNonces :
            /\ uses' = [uses EXCEPT ![entry.id] = @ + 1]
            /\ issuedNonces' = issuedNonces \ {entry}

LEMMA NextNonce == ASSUME BrokerTypeOK, [Next]_vars PROVE NonceStep
<1> USE DEF NonceStep, history
<1>1. CASE Tick \/ CallbackRefused \/ UNCHANGED vars
  BY <1>1 DEF Tick, CallbackRefused, Pairing!EvictExpired, vars, pairingVars
<1>2. CASE Restart
  BY <1>2 DEF Restart
<1>3. ASSUME NEW w \in Writers, PersistPublishes(w) \/ PersistRejects(w)
      PROVE  NonceStep
  BY <1>3 DEF PersistPublishes, PersistRejects, pairingVars
<1>4. CASE \E k \in Mints : MintSealedLease(k)
  BY <1>4 DEF MintSealedLease, pairingVars
<1>5. ASSUME NEW p \in Pairs, (\E d \in Devices : Pair(p, d)) \/ CallbackNext(p)
      PROVE  NonceStep
  BY <1>5 DEF Pair, CallbackNext, CallbackStart, ExchangeReturns, ReplaceToken,
              ReplaceFails, CallbackReadsToken, CallbackMarks, pairingVars,
              Pairing!Create, Pairing!ConsumeOAuthState, Pairing!MarkAuthorized,
              Pairing!EvictExpired
<1>6. ASSUME NEW p \in Pairs, RevokeNext(p) PROVE NonceStep
  BY <1>6 DEF RevokeNext, RevokeStart, RevokeHandshake, Pairing!Revoke,
              RevokeRecorded, RevokeClears, pairingVars
<1>7. ASSUME NEW p \in Pairs, NEW proof, Claim(p, proof) PROVE NonceStep
  BY <1>7 DEF Claim, ClaimAccepted, Pairing!OpenClaim
<1>8. ASSUME NEW p \in Pairs, ClaimRecorded(p) PROVE NonceStep
  BY <1>8 DEF ClaimRecorded, pairingVars
<1>9. ASSUME NEW p \in Pairs, NEW n \in Nonces, IssueDurableNonce(p, n) PROVE NonceStep
  <2>1. PICK ttl \in 1..MaxNonceTtl : issuedNonces' = issuedNonces \cup
                {[id |-> n, pair |-> p, expiresAt |-> now + ttl]}
    BY <1>9 DEF IssueDurableNonce
  <2>2. [id |-> n, pair |-> p, expiresAt |-> now + ttl] \in Entries
    BY DEF Entries, BrokerTypeOK
  <2> QED BY <1>9, <2>1, <2>2 DEF IssueDurableNonce
<1>10. ASSUME NEW p \in Pairs, NEW entry \in issuedNonces, NEW proof,
              ConsumeDurableNonce(p, entry, proof)
       PROVE  NonceStep
  BY <1>10 DEF ConsumeDurableNonce, NoncesLeft, pairingVars
<1> QED BY <1>1, <1>2, <1>3, <1>4, <1>5, <1>6, <1>7, <1>8, <1>9, <1>10
        DEF Next, LeaseNext

\* The entry of a nonce goes in the step that lets it buy a mint, and a nonce is
\* drawn once: none comes back.
LEMMA NextNonceOK ==
    ASSUME BrokerTypeOK, NonceOK, [Next]_vars PROVE NonceOK'
<1> USE DEF NonceOK, NonceBuysOneMint, BrokerTypeOK, Entries
<1>1. drawn \subseteq drawn'
  BY NextNonce DEF NonceStep
<1>2. CASE issuedNonces' \subseteq issuedNonces /\ UNCHANGED uses
  BY <1>1, <1>2
<1>3. ASSUME NEW entry \in Entries, entry.id \in drawn' \ drawn, UNCHANGED uses,
             issuedNonces' = issuedNonces \cup {entry}
      PROVE  NonceOK'
  BY <1>1, <1>3
<1>4. ASSUME NEW entry \in issuedNonces, uses' = [uses EXCEPT ![entry.id] = @ + 1],
             issuedNonces' = issuedNonces \ {entry}
      PROVE  NonceOK'
  BY <1>1, <1>4
<1> QED BY <1>2, <1>3, <1>4, NextNonce DEF NonceStep

\* What a step may do to the revocation of one pairing.
Cleared(q) == q \in revokeDone \/ revoking[q] = "clear"

RevokeStep(q) ==
    /\ q \in revokeAck => q \in revokeAck'
    /\ q \in revokeAck' =>
        \/ q \in revokeAck
        \/ UNCHANGED records /\ records[q] = "revoked"
    /\ Cleared(q)' =>
        \/ Cleared(q)
        \/ q \in revokeAck'
        \/ records[q] = "none" /\ status[q] # "absent" /\ status'[q] = "revoked"

LEMMA NextRevoke ==
    ASSUME BrokerTypeOK, IInv, SlotOK, [Next]_vars, NEW q \in Pairs
    PROVE  RevokeStep(q)
<1> USE DEF RevokeStep, Cleared, BrokerTypeOK, history
<1>1. CASE Tick \/ CallbackRefused \/ UNCHANGED vars
  BY <1>1 DEF Tick, CallbackRefused, vars, durableVars, recordVars
<1>2. CASE Restart
  BY <1>2 DEF Restart, Reload
<1>3. ASSUME NEW w \in Writers, PersistPublishes(w) \/ PersistRejects(w)
      PROVE  RevokeStep(q)
  BY <1>3 DEF PersistPublishes, PersistRejects, Publish, PersistFails
<1>4. CASE \E k \in Mints : MintSealedLease(k)
  BY <1>4 DEF MintSealedLease, durableVars, recordVars
<1>5. ASSUME NEW p \in Pairs, (\E d \in Devices : Pair(p, d)) \/ CallbackNext(p)
      PROVE  RevokeStep(q)
  BY <1>5 DEF Pair, CallbackNext, CallbackStart, ExchangeReturns, ReplaceToken,
              ReplaceFails, CallbackReadsToken, CallbackMarks, durableVars, recordVars
\* A persist that resolves as a revocation had the revocation in its snapshot,
\* and the map is never behind a snapshot.
<1>6. ASSUME NEW w \in Writers, Resolve(w), q \in revokeAck' \ revokeAck
      PROVE  UNCHANGED records /\ records[q] = "revoked"
  <2>1. UNCHANGED records /\ writer[w].op = "revoke" /\ writer[w].pair = q /\ Busy(w)
    BY <1>6 DEF Resolve, Busy
  <2>2. writer[w].snapshot[q] = "revoked" /\ NotAhead(writer[w].snapshot[q], records[q])
    BY <2>1 DEF IInv, WritersOK, Behind
  <2>3. records[q] \in {"none", "enrolled", "revoked"}
    BY DEF IInv, RecordsTypeOK, RecordMap
  <2> QED BY <2>1, <2>2, <2>3 DEF NotAhead
<1>7. ASSUME NEW p \in Pairs, ClaimRecorded(p) PROVE RevokeStep(q)
  BY <1>6, <1>7, SlotsAreWriters DEF ClaimRecorded, Resolve
<1>8. ASSUME NEW p \in Pairs, RevokeRecorded(p) PROVE RevokeStep(q)
  <2>1. /\ Resolve(<<"revoke", p>>) /\ revoking' = [revoking EXCEPT ![p] = "clear"]
        /\ UNCHANGED revokeDone
    BY <1>8 DEF RevokeRecorded
  <2>2. p \in revokeAck'
    BY <2>1 DEF Resolve, SlotOK, Busy
  <2>3. revokeAck \subseteq revokeAck'
    BY <2>1 DEF Resolve
  <2> QED BY <1>6, <2>1, <2>2, <2>3, SlotsAreWriters
<1>9. ASSUME NEW p \in Pairs, RevokeStart(p) PROVE RevokeStep(q)
  <2>1. UNCHANGED <<revokeAck, revokeDone>>
    BY <1>9 DEF RevokeStart, RevokeRecord, recordVars
  <2>2. CASE UNCHANGED revoking
    BY <2>1, <2>2
  <2>3. CASE /\ revoking' = [revoking EXCEPT ![p] = "clear"]
             /\ records[p] = "none" /\ status[p] # "absent"
    BY <1>9, <2>1, <2>3 DEF RevokeStart, RevokeHandshake, Pairing!Revoke
  <2> QED BY <1>9, <2>2, <2>3 DEF RevokeStart
<1>10. ASSUME NEW p \in Pairs, RevokeClears(p) PROVE RevokeStep(q)
  BY <1>10 DEF RevokeClears, durableVars, recordVars
<1>11. ASSUME NEW p \in Pairs, NEW proof, Claim(p, proof) PROVE RevokeStep(q)
  BY <1>11 DEF Claim, ClaimAccepted, Record, durableVars, recordVars
<1>12. ASSUME NEW p \in Pairs, NEW n, IssueDurableNonce(p, n) PROVE RevokeStep(q)
  BY <1>12 DEF IssueDurableNonce, durableVars, recordVars
<1>13. ASSUME NEW p \in Pairs, NEW entry, NEW proof, ConsumeDurableNonce(p, entry, proof)
       PROVE  RevokeStep(q)
  BY <1>13 DEF ConsumeDurableNonce, durableVars, recordVars
<1> QED BY <1>1, <1>2, <1>3, <1>4, <1>5, <1>7, <1>8, <1>9, <1>10, <1>11, <1>12, <1>13
        DEF Next, LeaseNext, RevokeNext

LEMMA NextRevoked ==
    ASSUME BrokerTypeOK, IInv, Handshake, SlotOK, Revoked, [Next]_vars
    PROVE  Revoked'
<1> SUFFICES ASSUME NEW q \in Pairs PROVE RevokedOK(q)'
  BY DEF Revoked
<1>1. /\ records[q] \in {"none", "enrolled", "revoked"}
      /\ q \notin claimed => records[q] = "none"
  BY DEF IInv, RecordsTypeOK, RecordMap
<1>2. /\ HandshakeOK(q) /\ RevokedOK(q)
      /\ PairStep(q) /\ HistoryStep(q) /\ RevokeStep(q)
  BY NextPair, NextRevoke DEF Handshake, Revoked
<1> USE DEF RevokedOK, HandshakeOK, PairStep, HistoryStep, SameRecord, RevokeStep, Cleared
<1>3. restarts' = 0 /\ q \in revokeAck' => records'[q] = "revoked"
  BY <1>1, <1>2
<1>4. q \in drawn \ claimed /\ status[q] \in {"revoked", "absent"} =>
        q \in drawn' \ claimed' /\ status'[q] \in {"revoked", "absent"}
  BY <1>1, <1>2
<1>5. records[q] = "none" /\ status[q] # "absent" /\ status'[q] = "revoked" =>
        q \in drawn' \ claimed'
  BY <1>1, <1>2
<1> QED BY <1>2, <1>3, <1>4, <1>5

LEMMA BrokerInductive == Spec => [](IInv /\ BrokerInv)
<1>1. IInv /\ BrokerInv /\ [Next]_vars => BrokerInv'
  BY NextType, NextHandshake, NextSlot, NextMintOK, NextNonceOK, NextRevoked
     DEF BrokerInv
<1> QED BY <1>1, InitBroker, HandlersUseRecords, Inductive, PTL DEF Spec

-----------------------------------------------------------------------------
(* What the broker promises *)

\* What the record file holds never runs ahead of the broker's map, and what
\* a handler was acknowledged survives restarts until persists overlap, also
\* with claims, revocations and leases around the store.
THEOREM BrokerRecordsDurable == Spec => [](FileNeverAhead /\ AcksDurableUnlessOverlapped)
BY HandlersUseRecords, FileBehindMap, AcksDurable, PTL

\* The handshake calls a device enrolled only when the durable map knows it:
\* /oauth/claim writes the record in the step in which openClaim enrols, and
\* no failed persist, restart or revocation takes it back on its own.
THEOREM EnrolmentRecorded == Spec => []EnrolledHasRecord
<1>1. BrokerInv => EnrolledHasRecord
  BY DEF BrokerInv, Handshake, HandshakeOK, EnrolledHasRecord
<1> QED BY <1>1, BrokerInductive, PTL

\* Wherever both stores know a pairing, they agree on whether it is revoked.
THEOREM StoresAgreeOnRevocation == Spec => []RevocationAgrees
<1>1. IInv /\ BrokerInv => RevocationAgrees
  BY DEF BrokerInv, Handshake, HandshakeOK, RevocationAgrees, IInv, RecordsTypeOK,
         RecordMap, BrokerTypeOK, Pairing!Status
<1> QED BY <1>1, BrokerInductive, PTL

\* No lease is minted, and no record kept, for a pairing whose own Google
\* consent markAuthorized did not accept.
THEOREM ConsentFirst == Spec => []LeaseNeedsConsent
<1>1. IInv /\ BrokerInv => LeaseNeedsConsent
  BY DEF BrokerInv, MintOK, Handshake, HandshakeOK, LeaseNeedsConsent, IInv,
         RecordsTypeOK
<1> QED BY <1>1, BrokerInductive, PTL

\* However often a lease request is replayed, its nonce buys one mint.
THEOREM OneMintPerNonce == Spec => []NonceBuysOneMint
<1>1. BrokerInv => NonceBuysOneMint
  BY DEF BrokerInv, NonceOK
<1> QED BY <1>1, BrokerInductive, PTL

\* After /admin/revoke has answered, no nonce of the device begins a mint, in
\* this process or, unless record persists overlapped, after any restart.
THEOREM RevocationStopsMints == Spec => RevokedStartsNoMint
<1> DEFINE Safe == \A n \in Nonces : mint[n] = NoPair /\ mint'[n] # NoPair =>
                     \/ mint'[n] \notin revokeDone
                     \/ overlapped /\ restarts > 0
<1>1. IInv /\ BrokerInv /\ AcksDurableUnlessOverlapped /\ [Next]_vars => Safe
  <2> SUFFICES ASSUME IInv, BrokerInv, AcksDurableUnlessOverlapped, [Next]_vars,
                      NEW n \in Nonces, mint[n] = NoPair, mint'[n] # NoPair,
                      mint'[n] \in revokeDone
               PROVE  overlapped /\ restarts > 0
    OBVIOUS
  <2> USE DEF BrokerInv
  <2>1. n \in Mints /\ n \notin Pairs
    BY BrokerAssumption DEF Mints
  <2>2. PICK p \in Pairs : DurablyEnrolled(p) /\ mint'[n] = p
    BY <2>1, NextMint DEF MintStep, BrokerTypeOK
  <2>3. records[p] = "enrolled" /\ p \in claimed
    BY <2>2 DEF DurablyEnrolled, IInv, RecordsTypeOK
  <2>4. p \in revokeAck /\ (restarts = 0 => records[p] = "revoked")
    BY <2>2, <2>3 DEF Revoked, RevokedOK
  <2>5. file[p] # "revoked"
    BY <2>3 DEF IInv, Behind, NotAhead
  <2>6. overlapped
    BY Zenon, <2>4, <2>5 DEF AcksDurableUnlessOverlapped
  <2>7. restarts > 0
    BY <2>3, <2>4 DEF BrokerTypeOK
  <2> QED BY <2>6, <2>7
<1>2. IInv /\ BrokerInv /\ AcksDurableUnlessOverlapped /\ [Next]_vars => [Safe]_vars
  BY <1>1
<1> QED BY <1>2, BrokerInductive, BrokerRecordsDurable, PTL DEF Spec, RevokedStartsNoMint
=============================================================================
