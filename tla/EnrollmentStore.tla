-------------------------- MODULE EnrollmentStore ---------------------------
(***************************************************************************)
(* Operator-issued enrollment codes, broker/src/enrollment-store.ts.  A    *)
(* code is bound to the signing-key fingerprint of one device when it is   *)
(* minted; a fingerprint is identified with its device.  Codes are unique  *)
(* random values, so `issued` remembers those already minted; a code whose *)
(* map entry is deleted is "absent".                                       *)
(***************************************************************************)
EXTENDS Naturals, FiniteSets

CONSTANTS
    Codes,        \* codes the generator may draw
    Devices,      \* devices, by signing-key fingerprint
    MaxCodes,     \* maxCodes
    CodeTtls,     \* admissible ttlMs values, MIN_TTL_MS..MAX_TTL_MS
    Horizon       \* bound on the clock

ASSUME CodeAssumption ==
    /\ IsFiniteSet(Codes)
    /\ Devices # {}
    /\ MaxCodes \in Nat \ {0}
    /\ CodeTtls \subseteq Nat \ {0}
    /\ Horizon \in Nat

VARIABLES
    now,           \* the nowMs every call is given
    issued,        \* codes already minted
    codeStatus,    \* "absent", "unused" or "used"
    codeExpiresAt, \* record.expiresAtMs
    approved,      \* record.expectedFingerprintHash
    redemptions    \* how often each code was redeemed (history)

codeVars == <<issued, codeStatus, codeExpiresAt, approved, redemptions>>

Init ==
    /\ now = 0
    /\ issued = {}
    /\ codeStatus = [c \in Codes |-> "absent"]
    /\ codeExpiresAt = [c \in Codes |-> 0]
    /\ approved = [c \in Codes |-> CHOOSE d \in Devices : TRUE]
    /\ redemptions = [c \in Codes |-> 0]

Held == {c \in Codes : codeStatus[c] # "absent"}

Overdue == {c \in Held : now >= codeExpiresAt[c]}

Evicted == [c \in Codes |-> IF c \in Overdue THEN "absent" ELSE codeStatus[c]]

(* Mutated forms, one slip each, of the definitions that follow. *)
ConsumeResult_ForgetsUse(c, d) ==
    IF codeStatus[c] = "absent" THEN "unknown"
    ELSE IF approved[c] # d THEN "fingerprint_mismatch"
    ELSE IF now >= codeExpiresAt[c] THEN "expired"
    ELSE "ok"

HasRoom == Cardinality(Held \ Overdue) < MaxCodes

Issue(c, d, ttl) ==
    /\ c \notin issued
    /\ HasRoom
    /\ issued' = issued \cup {c}
    /\ codeStatus' = [Evicted EXCEPT ![c] = "unused"]
    /\ codeExpiresAt' = [codeExpiresAt EXCEPT ![c] = now + ttl]
    /\ approved' = [approved EXCEPT ![c] = d]
    /\ UNCHANGED <<now, redemptions>>

(* issue at capacity evicts the overdue codes and then throws. *)
IssueRefused ==
    /\ ~HasRoom
    /\ codeStatus' = Evicted
    /\ UNCHANGED <<now, issued, codeExpiresAt, approved, redemptions>>

(* The fingerprint is compared before expiry and use are looked at. *)
ConsumeResult(c, d) ==
    IF codeStatus[c] = "absent" THEN "unknown"
    ELSE IF approved[c] # d THEN "fingerprint_mismatch"
    ELSE IF now >= codeExpiresAt[c] THEN "expired"
    ELSE IF codeStatus[c] = "used" THEN "used"
    ELSE "ok"

(* What a presented code leaves behind, by the outcome of the checks. *)
ConsumeEffect_BurnsOnMismatch(c, d) ==
    /\ codeStatus' = [codeStatus EXCEPT ![c] =
            CASE ConsumeResult(c, d) \in {"ok", "used", "fingerprint_mismatch"} -> "used"
              [] ConsumeResult(c, d) \in {"expired", "unknown"} -> "absent"]
    /\ redemptions' = IF ConsumeResult(c, d) = "ok"
                      THEN [redemptions EXCEPT ![c] = @ + 1] ELSE redemptions

ConsumeEffect(c, d) ==
    /\ codeStatus' = [codeStatus EXCEPT ![c] =
            CASE ConsumeResult(c, d) \in {"ok", "used"} -> "used"
              [] ConsumeResult(c, d) \in {"expired", "unknown"} -> "absent"
              [] ConsumeResult(c, d) = "fingerprint_mismatch" -> @]
    /\ redemptions' = IF ConsumeResult(c, d) = "ok"
                      THEN [redemptions EXCEPT ![c] = @ + 1] ELSE redemptions

Consume(c, d) ==
    /\ ConsumeEffect(c, d)
    /\ UNCHANGED <<now, issued, codeExpiresAt, approved>>

Tick ==
    /\ now < Horizon
    /\ now' = now + 1
    /\ UNCHANGED codeVars

Next ==
    \/ Tick
    \/ IssueRefused
    \/ \E c \in Codes, d \in Devices :
        \/ \E ttl \in CodeTtls : Issue(c, d, ttl)
        \/ Consume(c, d)

Spec == Init /\ [][Next]_<<now, codeVars>>

-----------------------------------------------------------------------------
(* Properties *)

(* Every field of the code table holds values the code can put there. *)
TypeOK ==
    /\ now \in Nat
    /\ issued \subseteq Codes
    /\ codeStatus \in [Codes -> {"absent", "unused", "used"}]
    /\ codeExpiresAt \in [Codes -> Nat]
    /\ approved \in [Codes -> Devices]
    /\ redemptions \in [Codes -> Nat]

(* A code opens the door once, however often and in whatever order it is   *)
(* presented, rejected or evicted.                                         *)
CodeRedeemedOnce == \A c \in Codes : redemptions[c] <= 1

(* Wrong devices, other codes and evictions cannot burn a code: until it   *)
(* is redeemed or overdue the approved device can still redeem it.         *)
UnredeemedStaysRedeemable ==
    \A c \in issued :
        redemptions[c] = 0 /\ now < codeExpiresAt[c] => codeStatus[c] = "unused"
=============================================================================
