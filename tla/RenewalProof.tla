---------------------------- MODULE RenewalProof ----------------------------
(***************************************************************************)
(* One device's lease renewal seen from both ends: performRenewal() of the *)
(* plugin (src/src/auth/lease-manager.ts) against issueDurableNonce() and  *)
(* consumeDurableNonce() of the broker (src/broker/src/server.ts).         *)
(*                                                                         *)
(* A signature is the message it covers; two signatures agree only if the  *)
(* messages have the same bytes.  A nonce travels as base64url text: the   *)
(* UTF-8 bytes of that text and the 32 bytes it decodes to are different   *)
(* messages, so a message is tagged with how its bytes were obtained.      *)
(***************************************************************************)
EXTENDS Naturals

CONSTANTS Nonces, NoNonce, NonceTtl, RecordTtl, Horizon

VARIABLES
  now,
  paired,     \* plugin: this.pairId is set
  pc,         \* plugin: where performRenewal() stands
  nonce,      \* plugin: the nonce it was given, as text
  proof,      \* the message the proof in flight was computed over
  reply,      \* the broker's answer in flight, as the code the client maps it to
  revoked,    \* broker: the durable record's flag
  nonces      \* broker: issuedNonces, each outstanding nonce's expiry

vars == <<now, paired, pc, nonce, proof, reply, revoked, nonces>>

Utf8Bytes(text)      == <<"utf8", text>>
Base64UrlBytes(text) == <<"base64url", text>>

\* signUtf8Base64Url(identity, nonce)
SignedMessage(n) == Utf8Bytes(n)

\* verify(null, Buffer.from(nonce, "base64url"), key, signature)
VerifiedMessage(n) == Base64UrlBytes(n)

Outstanding == DOMAIN nonces
RecordUsable == ~revoked /\ now < RecordTtl
Without(n) == [m \in Outstanding \ {n} |-> nonces[m]]

\* Both NONCE_ERROR_CODES and LEASE_ERROR_CODES map every 403 to "revoked".
ClientCode(status) == IF status = 403 THEN "revoked" ELSE "ok"

Init ==
  /\ now = 0 /\ paired = TRUE /\ pc = "idle" /\ nonce = NoNonce /\ proof = <<>>
  /\ reply = "none" /\ revoked = FALSE /\ nonces = [n \in {} |-> 0]

AskNonce ==
  /\ pc = "idle" /\ paired
  /\ pc' = "nonce"
  /\ UNCHANGED <<now, paired, nonce, proof, reply, revoked, nonces>>

IssueDurableNonce ==
  /\ pc = "nonce" /\ reply = "none"
  /\ \/ /\ RecordUsable
        /\ \E n \in Nonces \ Outstanding :
             nonce' = n /\ nonces' = [m \in Outstanding \cup {n} |->
                                        IF m = n THEN now + NonceTtl ELSE nonces[m]]
        /\ reply' = ClientCode(200)
     \/ /\ ~RecordUsable
        /\ reply' = ClientCode(403) /\ UNCHANGED <<nonce, nonces>>
  /\ UNCHANGED <<now, paired, pc, proof, revoked>>

AskLease ==
  /\ pc = "nonce" /\ reply = "ok"
  /\ pc' = "lease" /\ reply' = "none" /\ proof' = SignedMessage(nonce)
  /\ UNCHANGED <<now, paired, nonce, revoked, nonces>>

\* The nonce is deleted before its age and the signature are looked at.
ConsumeDurableNonce ==
  /\ pc = "lease" /\ reply = "none"
  /\ nonces' = IF RecordUsable THEN Without(nonce) ELSE nonces
  /\ LET accepted == /\ RecordUsable /\ nonce \in Outstanding
                     /\ now < nonces[nonce] /\ proof = VerifiedMessage(nonce)
     IN  reply' = ClientCode(IF accepted THEN 200 ELSE 403)
  /\ UNCHANGED <<now, paired, pc, nonce, proof, revoked>>

Done == pc' = "idle" /\ reply' = "none" /\ nonce' = NoNonce /\ proof' = <<>>

LeaseGranted ==
  /\ pc = "lease" /\ reply = "ok" /\ Done
  /\ UNCHANGED <<now, paired, revoked, nonces>>

\* The catch block: "revoked" clears the pairing.
RenewalRefused ==
  /\ reply = "revoked" /\ paired' = FALSE /\ Done
  /\ UNCHANGED <<now, revoked, nonces>>

\* Transport failure: the pairing is kept and the renewal is tried again later.
RenewalFailed ==
  /\ pc # "idle" /\ Done
  /\ UNCHANGED <<now, paired, revoked, nonces>>

Revoke == revoked' = TRUE /\ UNCHANGED <<now, paired, pc, nonce, proof, reply, nonces>>

\* issuedNonces is process-local: a restart of the broker empties it.
BrokerRestarts ==
  /\ nonces' = [n \in {} |-> 0]
  /\ UNCHANGED <<now, paired, pc, nonce, proof, reply, revoked>>

Tick == now < Horizon /\ now' = now + 1
        /\ UNCHANGED <<paired, pc, nonce, proof, reply, revoked, nonces>>

Next == AskNonce \/ IssueDurableNonce \/ AskLease \/ ConsumeDurableNonce
        \/ LeaseGranted \/ RenewalRefused \/ RenewalFailed \/ Revoke
        \/ BrokerRestarts \/ Tick

Spec == Init /\ [][Next]_vars

\* A device the operator has not revoked and whose enrolment has not run out is
\* never made to forget its pairing by a renewal that met every deadline:
\* renewal goes through nonce and lease and never re-runs consent
\* (refreshLease() in lease-manager.ts).
RenewalKeepsPairing ==
  ~paired => revoked \/ now >= RecordTtl \/ now >= NonceTtl
=============================================================================
