--------------------------- MODULE AdmissionProofs --------------------------
(***************************************************************************)
(* Enrollment codes, the pairings /oauth/pair admits with them and the     *)
(* rate limiter in front of it, for any set of codes, devices, pairings    *)
(* and client addresses, any budget and any window.                        *)
(*                                                                         *)
(* The codes first.  CodeRedeemedOnce is not inductive: it needs that an   *)
(* unused code has never been redeemed and that a code not minted yet has  *)
(* no history.                                                             *)
(***************************************************************************)
EXTENDS Admission, FiniteSetTheorems, WellFoundedInduction, TLAPS

(* What the status of a code says about its past. *)
StatusHistory ==
    \A c \in Codes :
        /\ codeStatus[c] = "unused" => redemptions[c] = 0
        /\ c \notin issued => codeStatus[c] = "absent" /\ redemptions[c] = 0

IInv == TypeOK /\ StatusHistory /\ CodeRedeemedOnce /\ UnredeemedStaysRedeemable

LEMMA InitIInv == Init => IInv
BY CodeAssumption
   DEF Init, IInv, TypeOK, StatusHistory, CodeRedeemedOnce, UnredeemedStaysRedeemable

\* Eviction only forgets codes that are overdue.
LEMMA EvictedFacts ==
    ASSUME TypeOK
    PROVE  /\ Evicted \in [Codes -> {"absent", "unused", "used"}]
           /\ \A c \in Codes : Evicted[c] = codeStatus[c] \/ Evicted[c] = "absent"
           /\ \A c \in Codes : now < codeExpiresAt[c] => Evicted[c] = codeStatus[c]
BY DEF TypeOK, Evicted, Overdue, Held

LEMMA IssueIInv ==
    ASSUME IInv, NEW c \in Codes, NEW d \in Devices, NEW ttl \in CodeTtls, Issue(c, d, ttl)
    PROVE  IInv'
<1> USE DEF IInv
<1>1. TypeOK'
  BY EvictedFacts, CodeAssumption DEF Issue, TypeOK
<1>2. \A x \in Codes \ {c} : codeStatus'[x] = Evicted[x] /\ codeExpiresAt'[x] = codeExpiresAt[x]
  BY EvictedFacts DEF Issue, TypeOK
<1>3. codeStatus'[c] = "unused" /\ redemptions[c] = 0
  BY EvictedFacts DEF Issue, TypeOK, StatusHistory
<1>4. StatusHistory'
  BY <1>2, <1>3, EvictedFacts DEF Issue, StatusHistory
<1>5. CodeRedeemedOnce'
  BY DEF Issue, CodeRedeemedOnce
<1>6. UnredeemedStaysRedeemable'
  BY <1>2, <1>3, EvictedFacts DEF Issue, UnredeemedStaysRedeemable, TypeOK
<1> QED BY <1>1, <1>4, <1>5, <1>6

LEMMA IssueRefusedIInv == ASSUME IInv, IssueRefused PROVE IInv'
BY EvictedFacts
   DEF IssueRefused, IInv, TypeOK, StatusHistory, CodeRedeemedOnce, UnredeemedStaysRedeemable

\* Presenting a code: it is redeemed only from "unused", and only an overdue
\* code is forgotten.
LEMMA ConsumeIInv ==
    ASSUME IInv, NEW c \in Codes, NEW d \in Devices, Consume(c, d)
    PROVE  IInv'
<1> USE DEF IInv
<1> DEFINE r == ConsumeResult(c, d)
<1>1. UNCHANGED <<now, issued, codeExpiresAt, approved>>
  BY DEF Consume
<1>2. /\ r = "ok" => codeStatus[c] = "unused"
      /\ r = "used" => codeStatus[c] = "used"
      /\ r = "expired" => now >= codeExpiresAt[c]
      /\ r = "unknown" => codeStatus[c] = "absent"
      /\ r \in {"ok", "used", "expired", "unknown", "fingerprint_mismatch"}
  BY DEF ConsumeResult, TypeOK
<1>3. /\ r = "ok" => /\ codeStatus' = [codeStatus EXCEPT ![c] = "used"]
                     /\ redemptions' = [redemptions EXCEPT ![c] = redemptions[c] + 1]
      /\ r = "expired" => codeStatus' = [codeStatus EXCEPT ![c] = "absent"]
      /\ r \in {"used", "unknown", "fingerprint_mismatch"} => codeStatus' = codeStatus
      /\ r # "ok" => redemptions' = redemptions
  BY <1>2 DEF Consume, ConsumeEffect, TypeOK
<1>4. CASE r = "ok"
  BY <1>1, <1>2, <1>3, <1>4
     DEF TypeOK, StatusHistory, CodeRedeemedOnce, UnredeemedStaysRedeemable
<1>5. CASE r = "expired"
  BY <1>1, <1>2, <1>3, <1>5
     DEF TypeOK, StatusHistory, CodeRedeemedOnce, UnredeemedStaysRedeemable
<1>6. CASE r \in {"used", "unknown", "fingerprint_mismatch"}
  BY <1>1, <1>3, <1>6
     DEF TypeOK, StatusHistory, CodeRedeemedOnce, UnredeemedStaysRedeemable
<1> QED BY <1>2, <1>4, <1>5, <1>6

LEMMA NextIInv == IInv /\ [Next]_<<now, codeVars>> => IInv'
<1> SUFFICES ASSUME IInv, [Next]_<<now, codeVars>> PROVE IInv'
  OBVIOUS
<1>1. CASE Tick
  BY <1>1 DEF Tick, codeVars, IInv, TypeOK, StatusHistory, CodeRedeemedOnce,
              UnredeemedStaysRedeemable
<1>2. CASE UNCHANGED <<now, codeVars>>
  BY <1>2 DEF codeVars, IInv, TypeOK, StatusHistory, CodeRedeemedOnce,
              UnredeemedStaysRedeemable
<1> QED BY <1>1, <1>2, IssueIInv, IssueRefusedIInv, ConsumeIInv DEF Next

LEMMA Inductive == Spec => []IInv
BY InitIInv, NextIInv, PTL DEF Spec

\* Every field of the code table keeps its type.
THEOREM CodesTypeCorrect == Spec => []TypeOK
<1>1. IInv => TypeOK
  BY DEF IInv
<1> QED BY <1>1, Inductive, PTL

\* consume() lets a code through once, for any number of codes and devices and
\* any sequence of presentations, refusals and evictions.
THEOREM CodeSingleUse == Spec => []CodeRedeemedOnce
<1>1. IInv => CodeRedeemedOnce
  BY DEF IInv
<1> QED BY <1>1, Inductive, PTL

\* Nobody can burn another device's code: it stays redeemable until it is
\* redeemed or overdue.
THEOREM CodeNotBurned == Spec => []UnredeemedStaysRedeemable
<1>1. IInv => UnredeemedStaysRedeemable
  BY DEF IInv
<1> QED BY <1>1, Inductive, PTL

-----------------------------------------------------------------------------
(* Admission: every step of /oauth/pair and of the admin endpoint is an        *)
(* operation on the codes, so the code table keeps its invariant here too.     *)

LEMMA StillCodes == ASSUME IInv, UNCHANGED codeVars, now' = now \/ now' = now + 1 PROVE IInv'
BY DEF codeVars, IInv, TypeOK, StatusHistory, CodeRedeemedOnce, UnredeemedStaysRedeemable

LEMMA AdmissionUsesCodes ==
    ASSUME IInv, [AdmissionNext]_admissionVars PROVE IInv'
<1>1. CASE UNCHANGED admissionVars
  BY <1>1, StillCodes DEF admissionVars
<1>2. CASE TimePasses
  BY <1>2, StillCodes DEF TimePasses, Tick
<1>3. CASE AdminEnrollment
  BY <1>3, IssueIInv, IssueRefusedIInv DEF AdminEnrollment
<1>4. CASE CallbackEvicts
  BY <1>4, StillCodes DEF CallbackEvicts, Pairing!EvictExpired
<1>5. ASSUME NEW a \in Addresses, PairArrives(a) \/ PairMalformed(a) PROVE IInv'
  BY <1>5, StillCodes
     DEF PairArrives, PairMalformed, Limiter!AllowPairAttempt, Limiter!RefusePairAttempt
<1>6. ASSUME NEW a \in Addresses, NEW c \in Codes, NEW d \in Devices,
             \/ \E p \in Pairs : PairAccepted(a, p, c, d)
             \/ \E keysOk \in BOOLEAN : PairFails(a, c, d, keysOk)
             \/ PairDenied(a, c, d)
      PROVE  IInv'
  <2>1. Consume(c, d)
    BY <1>6 DEF PairAccepted, PairCreates, PairFails, PairDenied
  <2> QED  BY <2>1, ConsumeIInv
<1> QED  BY <1>1, <1>2, <1>3, <1>4, <1>5, <1>6 DEF AdmissionNext

(* The ledger of codes spent on pairings.  Of a pairing it needs the types of  *)
(* the three functions it reads.                                               *)
LedgerTypeOK ==
    /\ device \in [Pairs -> Devices]
    /\ admittedWith \in [Pairs -> Codes \cup {NoCode}]

AdmissionInv == IInv /\ LedgerTypeOK /\ PairingsApproved

LEMMA AdmissionInitInv == ASSUME AdmissionInit PROVE AdmissionInv
<1>1. IInv
  BY InitIInv DEF AdmissionInit
<1>2. drawn = {} /\ device = [p \in Pairs |-> CHOOSE d \in Devices : TRUE]
  BY DEF AdmissionInit, Pairing!Init
<1>3. LedgerTypeOK
  BY <1>2, CodeAssumption DEF AdmissionInit, LedgerTypeOK
<1>4. PairingsApproved
  BY <1>2 DEF PairingsApproved
<1> QED  BY <1>1, <1>3, <1>4 DEF AdmissionInv

\* Steps that create no pairing: codes in the ledger were issued, so minting does
\* not rebind them, and they are used, so no redemption is added to them.
LEMMA NoPairingCreated ==
    ASSUME AdmissionInv, UNCHANGED <<drawn, device, admittedWith>>,
           \A c \in issued : /\ c \in issued' /\ approved'[c] = approved[c]
                             /\ redemptions[c] = 1 => redemptions'[c] = 1
    PROVE  LedgerTypeOK' /\ PairingsApproved'
<1>1. LedgerTypeOK'
  BY DEF AdmissionInv, LedgerTypeOK
<1>2. PairingsApproved'
  BY DEF AdmissionInv, PairingsApproved
<1> QED  BY <1>1, <1>2

\* A code is redeemed only while unused, when it stands for no pairing yet.
LEMMA ConsumeFacts ==
    ASSUME IInv, NEW c \in Codes, NEW d \in Devices, Consume(c, d)
    PROVE  /\ UNCHANGED <<issued, approved>>
           /\ \A x \in Codes : redemptions[x] = 1 => redemptions'[x] = 1
           /\ Approved(c, d) => /\ c \in issued /\ approved[c] = d
                                /\ redemptions[c] = 0 /\ redemptions'[c] = 1
<1>1. UNCHANGED <<issued, approved>>
  BY DEF Consume
<1>2. Approved(c, d) => /\ codeStatus[c] = "unused" /\ approved[c] = d
                        /\ redemptions[c] = 0 /\ c \in issued
  BY DEF Approved, ConsumeResult, IInv, TypeOK, StatusHistory
<1>3. redemptions' = IF Approved(c, d) THEN [redemptions EXCEPT ![c] = redemptions[c] + 1]
                     ELSE redemptions
  BY DEF Consume, ConsumeEffect, Approved
<1>4. \A x \in Codes : redemptions'[x] = IF Approved(c, d) /\ x = c THEN redemptions[c] + 1
                                         ELSE redemptions[x]
  BY <1>3 DEF IInv, TypeOK
<1> QED  BY <1>1, <1>2, <1>4

LEMMA AcceptedKeeps ==
    ASSUME AdmissionInv, NEW a \in Addresses, NEW p \in Pairs, NEW c \in Codes,
           NEW d \in Devices, PairAccepted(a, p, c, d)
    PROVE  LedgerTypeOK' /\ PairingsApproved'
<1>1. PICK ttl \in 1 .. MaxTtl : PairCreates(p, c, d, ttl)
  BY DEF PairAccepted
<1>2. /\ Approved(c, d) /\ Consume(c, d) /\ p \notin drawn /\ drawn' = drawn \cup {p}
      /\ device' = [device EXCEPT ![p] = d]
      /\ admittedWith' = [admittedWith EXCEPT ![p] = c]
  BY <1>1 DEF PairAccepted, PairCreates, Pairing!Create
<1>3. /\ UNCHANGED <<issued, approved>> /\ c \in issued /\ approved[c] = d
      /\ redemptions[c] = 0 /\ redemptions'[c] = 1
      /\ \A x \in Codes : redemptions[x] = 1 => redemptions'[x] = 1
  BY <1>2, ConsumeFacts DEF AdmissionInv
<1>4. LedgerTypeOK'
  BY <1>2 DEF AdmissionInv, LedgerTypeOK
<1>5. /\ device'[p] = d /\ admittedWith'[p] = c
      /\ \A q \in Pairs \cap drawn : device'[q] = device[q] /\ admittedWith'[q] = admittedWith[q]
  BY <1>2 DEF AdmissionInv, LedgerTypeOK
<1>6. issued \subseteq Codes
  BY DEF AdmissionInv, IInv, TypeOK
<1>7. \A q \in Pairs \cap drawn : /\ admittedWith[q] \in issued /\ admittedWith[q] # c
                                 /\ approved[admittedWith[q]] = device[q]
                                 /\ redemptions[admittedWith[q]] = 1
  BY <1>3 DEF AdmissionInv, PairingsApproved
<1>8. Pairs \cap drawn' = (Pairs \cap drawn) \cup {p}
  BY <1>2
<1>9. ASSUME NEW q \in Pairs \cap drawn'
      PROVE  /\ admittedWith'[q] \in issued' /\ approved'[admittedWith'[q]] = device'[q]
             /\ redemptions'[admittedWith'[q]] = 1
  BY <1>3, <1>5, <1>6, <1>7, <1>8
<1>10. ASSUME NEW q \in Pairs \cap drawn', NEW r \in Pairs \cap drawn',
              admittedWith'[r] = admittedWith'[q]
       PROVE  r = q
  <2>1. q \in Pairs \cap drawn /\ r \in Pairs \cap drawn => r = q
    BY <1>5, <1>10 DEF AdmissionInv, PairingsApproved
  <2> QED  BY <1>5, <1>7, <1>8, <1>10, <2>1
<1>11. PairingsApproved'
  BY <1>9, <1>10 DEF PairingsApproved
<1> QED  BY <1>4, <1>11

LEMMA AdmissionInvAlways == AdmissionSpec => []AdmissionInv
<1>1. AdmissionInit => AdmissionInv
  BY AdmissionInitInv
<1>2. AdmissionInv /\ [AdmissionNext]_admissionVars => AdmissionInv'
  <2> SUFFICES ASSUME AdmissionInv, [AdmissionNext]_admissionVars
               PROVE  LedgerTypeOK' /\ PairingsApproved'
    BY AdmissionUsesCodes DEF AdmissionInv
  <2>1. CASE \/ UNCHANGED admissionVars \/ TimePasses \/ CallbackEvicts
             \/ \E a \in Addresses : PairArrives(a) \/ PairMalformed(a)
    <3>1. UNCHANGED <<drawn, device, admittedWith, issued, approved, redemptions>>
      BY <2>1 DEF admissionVars, pairingVars, codeVars, TimePasses, Tick, CallbackEvicts,
                  Pairing!EvictExpired, PairArrives, PairMalformed
    <3> QED  BY <3>1, NoPairingCreated
  <2>2. CASE AdminEnrollment
    <3>1. UNCHANGED <<drawn, device, admittedWith>>
      BY <2>2 DEF AdminEnrollment, pairingVars
    <3>2. ASSUME NEW x \in issued
          PROVE  /\ x \in issued' /\ approved'[x] = approved[x]
                 /\ redemptions[x] = 1 => redemptions'[x] = 1
      BY <2>2 DEF AdminEnrollment, Issue, IssueRefused, AdmissionInv, IInv, TypeOK
    <3> QED  BY <3>1, <3>2, NoPairingCreated
  <2>3. ASSUME NEW a \in Addresses, NEW c \in Codes, NEW d \in Devices,
               (\E keysOk \in BOOLEAN : PairFails(a, c, d, keysOk)) \/ PairDenied(a, c, d)
        PROVE  LedgerTypeOK' /\ PairingsApproved'
    <3>1. Consume(c, d) /\ UNCHANGED <<drawn, device, admittedWith>>
      BY <2>3 DEF PairFails, PairDenied, Pairing!EvictExpired, pairingVars
    <3>2. /\ UNCHANGED <<issued, approved>> /\ issued \subseteq Codes
          /\ \A x \in Codes : redemptions[x] = 1 => redemptions'[x] = 1
      BY <3>1, ConsumeFacts DEF AdmissionInv, IInv, TypeOK
    <3> QED  BY <3>1, <3>2, NoPairingCreated
  <2> QED  BY <2>1, <2>2, <2>3, AcceptedKeeps DEF AdmissionNext
<1> QED  BY <1>1, <1>2, PTL DEF AdmissionSpec

\* Every pairing ever created by POST /oauth/pair goes back to a code the operator
\* issued for that device, redeemed once and for no other pairing, for any number of
\* racing, failing and malformed requests.
THEOREM EveryPairingApproved == AdmissionSpec => []PairingsApproved
<1>1. AdmissionInv => PairingsApproved
  BY DEF AdmissionInv
<1> QED  BY <1>1, AdmissionInvAlways, PTL

\* In the composed broker, whatever the limiter, the pairing store and the admin
\* endpoint do: a code opens the door once, and nobody burns another device's code
\* (EnrollmentStore.consume behind /oauth/pair).
THEOREM AdmissionSpendsCodesOnce ==
    AdmissionSpec => [](CodeRedeemedOnce /\ UnredeemedStaysRedeemable)
<1>1. AdmissionInv => CodeRedeemedOnce /\ UnredeemedStaysRedeemable
  BY DEF AdmissionInv, IInv
<1> QED  BY <1>1, AdmissionInvAlways, PTL

-----------------------------------------------------------------------------
(* Sums.  What the limiter let through is a fold over a set of instants.  The  *)
(* fold is a recursive function on subsets: that it has a value, that the      *)
(* order of its elements does not matter and that it adds up over disjoint     *)
(* sets are shown by least counterexample.                                     *)

LEMMA LeastNat ==
    ASSUME NEW S \in SUBSET Nat, S # {}
    PROVE  \E m \in S : \A k \in S : m <= k
<1> DEFINE R == OpToRel(<, Nat)
<1>1. IsWellFoundedOn(R, Nat)
  BY NatLessThanWellFounded, Zenon
<1> HIDE DEF R
<1>2. PICK m \in S : \A k \in S : ~ (<<k, m>> \in R)
  BY <1>1, WFMin
<1>3. \A k, n \in Nat : k < n => <<k, n>> \in R
  BY DEF R, OpToRel
<1>4. ASSUME NEW k \in S PROVE m <= k
  <2>1. k \in Nat /\ m \in Nat
    OBVIOUS
  <2>2. ~(k < m)
    BY <1>2, <1>3, <2>1
  <2> QED  BY <2>1, <2>2
<1> QED  BY <1>4

\* Induction over finite sets: among counterexamples there is one that stops being
\* one when any element is taken away.
LEMMA SmallestBad ==
    ASSUME NEW D, IsFiniteSet(D), NEW Bad \in SUBSET (SUBSET D), Bad # {}
    PROVE  \E s \in Bad : \A x \in s : s \ {x} \notin Bad
<1> DEFINE N == {Cardinality(s) : s \in Bad}
<1>1. \A s \in Bad : IsFiniteSet(s) /\ Cardinality(s) \in Nat
  BY FS_Subset, FS_CardinalityType
<1>2. N \in SUBSET Nat /\ N # {}
  BY <1>1
<1>3. PICK m \in N : \A k \in N : m <= k
  BY <1>2, LeastNat
<1>4. PICK s \in Bad : m = Cardinality(s)
  BY <1>3
<1>5. ASSUME NEW x \in s, s \ {x} \in Bad PROVE FALSE
  <2>1. Cardinality(s \ {x}) = Cardinality(s) - 1 /\ Cardinality(s) \in Nat
    BY <1>1, FS_RemoveElement
  <2>2. Cardinality(s) <= Cardinality(s \ {x})
    BY <1>3, <1>4, <1>5
  <2> QED  BY <2>1, <2>2
<1> QED  BY <1>5

\* The element the fold takes first.
Pick(s) == CHOOSE x \in s : TRUE

\* The sum of f over S, as RateLimiter computes it.
Total(f, S) == Limiter!FoldFunctionOnSet(+, 0, f, S)

\* it solves the fold's recursion on the subsets of S.
Adds(f, S, it) ==
    it = [s \in SUBSET S |-> IF s = {} THEN 0 ELSE f[Pick(s)] + it[s \ {Pick(s)}]]

LEMMA TotalIsIter == ASSUME NEW f, NEW S PROVE Total(f, S) = (CHOOSE it : Adds(f, S, it))[S]
BY Zenon DEF Total, Limiter!FoldFunctionOnSet, Limiter!MapThenFoldSet, Adds, Pick

\* The fold's recursion has a solution: built up over the subsets of growing size.
LEMMA IterExists ==
    ASSUME NEW f, NEW S, IsFiniteSet(S)
    PROVE  \E it : Adds(f, S, it)
<1> DEFINE T(n) == {s \in SUBSET S : Cardinality(s) <= n}
           Good(n, h) == h = [s \in T(n) |-> IF s = {} THEN 0
                                             ELSE f[Pick(s)] + h[s \ {Pick(s)}]]
           Bad == {n \in Nat : ~ \E h : Good(n, h)}
<1>1. \A s \in SUBSET S : IsFiniteSet(s) /\ Cardinality(s) \in Nat /\ Cardinality(s) <= Cardinality(S)
  BY FS_Subset, FS_CardinalityType
<1>2. \A s \in SUBSET S : s # {} =>
        /\ Pick(s) \in s /\ s \ {Pick(s)} \in SUBSET S
        /\ Cardinality(s \ {Pick(s)}) = Cardinality(s) - 1
  <2> SUFFICES ASSUME NEW s \in SUBSET S, s # {}
               PROVE  Pick(s) \in s /\ Cardinality(s \ {Pick(s)}) = Cardinality(s) - 1
    OBVIOUS
  <2>1. Pick(s) \in s
    BY DEF Pick
  <2> QED  BY <1>1, <2>1, FS_RemoveElement
<1>3. 0 \notin Bad
  <2>1. \A s \in T(0) : s = {}
    BY <1>1, FS_EmptySet
  <2>2. Good(0, [s \in T(0) |-> 0])
    BY <2>1
  <2> HIDE DEF Good
  <2> QED  BY <2>2
<1>4. ASSUME NEW n \in Nat, n \notin Bad PROVE n + 1 \notin Bad
  <2>1. PICK h : Good(n, h)
    BY <1>4
  <2> DEFINE g == [s \in T(n + 1) |-> IF s = {} THEN 0 ELSE f[Pick(s)] + h[s \ {Pick(s)}]]
  <2>2. \A s \in T(n) : s \in T(n + 1) /\ g[s] = h[s]
    <3>1. \A s \in T(n) : h[s] = IF s = {} THEN 0 ELSE f[Pick(s)] + h[s \ {Pick(s)}]
      BY <2>1
    <3>2. \A s \in T(n) : s \in T(n + 1)
      BY <1>1
    <3> QED  BY <3>1, <3>2
  <2>3. ASSUME NEW s \in T(n + 1), s # {} PROVE s \ {Pick(s)} \in T(n)
    BY <1>1, <1>2, <2>3
  <2>4. \A s \in T(n + 1) :
          g[s] = IF s = {} THEN 0 ELSE f[Pick(s)] + g[s \ {Pick(s)}]
    BY <2>2, <2>3
  <2>5. Good(n + 1, g)
    <3> DEFINE k == [s \in T(n + 1) |-> IF s = {} THEN 0 ELSE f[Pick(s)] + g[s \ {Pick(s)}]]
    <3>1. \A s \in T(n + 1) : g[s] = k[s]
      BY <2>4
    <3> HIDE DEF T
    <3>2. g = k
      BY <3>1
    <3> QED  BY <3>2
  <2> HIDE DEF Good, g
  <2> QED  BY <2>5
<1> HIDE DEF Bad
<1>5. Bad = {}
  <2> SUFFICES ASSUME Bad # {} PROVE FALSE
    OBVIOUS
  <2>1. Bad \in SUBSET Nat
    BY DEF Bad
  <2>2. PICK m \in Bad : \A k \in Bad : m <= k
    BY <2>1, LeastNat
  <2>3. m \in Nat /\ m # 0
    BY <1>3, <2>1, <2>2
  <2>4. m - 1 \in Nat /\ m - 1 \notin Bad /\ (m - 1) + 1 = m
    BY <2>2, <2>3
  <2> QED  BY <1>4, <2>2, <2>4
<1>6. Cardinality(S) \in Nat
  BY FS_CardinalityType
<1>7. PICK h : Good(Cardinality(S), h)
  BY <1>5, <1>6 DEF Bad
<1>8. T(Cardinality(S)) = SUBSET S
  BY <1>1
<1>9. Adds(f, S, h)
  BY <1>7, <1>8 DEF Adds
<1> QED  BY <1>9

LEMMA IterSteps ==
    ASSUME NEW f, NEW S, NEW it, Adds(f, S, it)
    PROVE  \A s \in SUBSET S :
             it[s] = IF s = {} THEN 0 ELSE f[Pick(s)] + it[s \ {Pick(s)}]
BY DEF Adds

LEMMA PickIn == ASSUME NEW s, s # {} PROVE Pick(s) \in s
BY DEF Pick

\* The fold over a set is the value at that set of the fold over any larger one.
LEMMA TotalIn ==
    ASSUME NEW f, NEW D, IsFiniteSet(D), NEW it, Adds(f, D, it), NEW S \in SUBSET D
    PROVE  Total(f, S) = it[S]
<1>1. IsFiniteSet(S)
  BY FS_Subset
<1> DEFINE jt == CHOOSE g : Adds(f, S, g)
<1>2. Adds(f, S, jt)
  BY <1>1, IterExists
<1>3. Total(f, S) = jt[S]
  BY TotalIsIter
<1> HIDE DEF jt
<1> DEFINE Bad == {s \in SUBSET S : it[s] # jt[s]}
<1>4. Bad = {}
  <2> SUFFICES ASSUME Bad # {} PROVE FALSE
    OBVIOUS
  <2>1. Bad \in SUBSET (SUBSET S)
    OBVIOUS
  <2>2. PICK s \in Bad : \A x \in s : s \ {x} \notin Bad
    BY <1>1, <2>1, SmallestBad
  <2>3. s \in SUBSET S /\ s \in SUBSET D
    OBVIOUS
  <2>4. CASE s = {}
    BY <1>2, <2>3, <2>4, IterSteps
  <2>5. CASE s # {}
    <3>1. Pick(s) \in s
      BY <2>5, PickIn
    <3>2. it[s \ {Pick(s)}] = jt[s \ {Pick(s)}]
      BY <2>2, <2>3, <3>1
    <3>3. it[s] = f[Pick(s)] + it[s \ {Pick(s)}]
      BY <2>3, <2>5, IterSteps
    <3>4. jt[s] = f[Pick(s)] + jt[s \ {Pick(s)}]
      BY <1>2, <2>3, <2>5, IterSteps
    <3> QED  BY <3>2, <3>3, <3>4
  <2> QED  BY <2>4, <2>5
<1> QED  BY <1>3, <1>4

\* Any element can be taken out first: the fold is a sum.
LEMMA TotalSums ==
    ASSUME NEW D, IsFiniteSet(D), NEW f \in [D -> Nat]
    PROVE  /\ Total(f, {}) = 0
           /\ \A S \in SUBSET D : Total(f, S) \in Nat
           /\ \A S \in SUBSET D : \A y \in S : Total(f, S) = f[y] + Total(f, S \ {y})
<1>1. PICK it : Adds(f, D, it)
  BY IterExists
<1>2. \A S \in SUBSET D : Total(f, S) = it[S]
  BY <1>1, TotalIn
<1>3. \A S \in SUBSET D : it[S] = IF S = {} THEN 0 ELSE f[Pick(S)] + it[S \ {Pick(S)}]
  BY <1>1, IterSteps
<1>4. \A S \in SUBSET D : it[S] \in Nat
  <2> DEFINE Bad == {S \in SUBSET D : it[S] \notin Nat}
  <2> SUFFICES ASSUME Bad # {} PROVE FALSE
    OBVIOUS
  <2>1. Bad \in SUBSET (SUBSET D)
    OBVIOUS
  <2>2. PICK s \in Bad : \A x \in s : s \ {x} \notin Bad
    BY <2>1, SmallestBad
  <2>3. s # {} /\ s \in SUBSET D
    <3>1. it[{}] = 0
      BY <1>3
    <3> QED  BY <2>2, <3>1
  <2>4. Pick(s) \in s /\ s \ {Pick(s)} \in SUBSET D
    BY <2>3, PickIn
  <2>5. it[s \ {Pick(s)}] \in Nat /\ f[Pick(s)] \in Nat
    BY <2>2, <2>4
  <2>6. it[s] = f[Pick(s)] + it[s \ {Pick(s)}]
    BY <1>3, <2>3
  <2>7. it[s] \in Nat
    BY <2>5, <2>6
  <2> QED  BY <2>2, <2>7
<1>5. \A S \in SUBSET D : \A y \in S : it[S] = f[y] + it[S \ {y}]
  <2> DEFINE Bad == {S \in SUBSET D : \E y \in S : it[S] # f[y] + it[S \ {y}]}
  <2> SUFFICES ASSUME Bad # {} PROVE FALSE
    OBVIOUS
  <2>1. Bad \in SUBSET (SUBSET D)
    OBVIOUS
  <2>2. PICK s \in Bad : \A x \in s : s \ {x} \notin Bad
    BY <2>1, SmallestBad
  <2>3. PICK y \in s : it[s] # f[y] + it[s \ {y}]
    BY <2>2
  <2> DEFINE x == Pick(s)
  <2>4. x \in s /\ s \in SUBSET D
    BY <2>3, PickIn
  <2>5. it[s] = f[x] + it[s \ {x}]
    BY <1>3, <2>3, <2>4
  <2> HIDE DEF x
  <2>6. x # y
    BY <2>3, <2>5
  <2>7. it[s \ {x}] = f[y] + it[(s \ {x}) \ {y}]
    BY <2>2, <2>3, <2>4, <2>6
  <2>8. it[s \ {y}] = f[x] + it[(s \ {y}) \ {x}]
    BY <2>2, <2>3, <2>4, <2>6
  <2> DEFINE rest == (s \ {x}) \ {y}
  <2>9. (s \ {y}) \ {x} = rest /\ rest \in SUBSET D
    BY <2>4
  <2>10. f[x] \in Nat /\ f[y] \in Nat /\ it[rest] \in Nat
    BY <1>4, <2>3, <2>4, <2>9
  <2>11. it[s \ {x}] = f[y] + it[rest] /\ it[s \ {y}] = f[x] + it[rest]
    BY <2>7, <2>8, <2>9
  <2> HIDE DEF rest
  <2> QED  BY <2>3, <2>5, <2>10, <2>11
<1>6. Total(f, {}) = 0
  BY <1>2, <1>3
<1>7. \A S \in SUBSET D : Total(f, S) \in Nat
  BY <1>2, <1>4
<1>8. ASSUME NEW S \in SUBSET D, NEW y \in S PROVE Total(f, S) = f[y] + Total(f, S \ {y})
  <2>1. S \ {y} \in SUBSET D
    OBVIOUS
  <2> QED  BY <1>2, <1>5, <2>1
<1> QED  BY <1>6, <1>7, <1>8

\* Two functions that agree on a set have the same sum over it.
LEMMA TotalAgrees ==
    ASSUME NEW D, IsFiniteSet(D), NEW f \in [D -> Nat], NEW g \in [D -> Nat],
           NEW S \in SUBSET D, \A u \in S : f[u] = g[u]
    PROVE  Total(f, S) = Total(g, S)
<1> DEFINE Bad == {s \in SUBSET S : Total(f, s) # Total(g, s)}
<1> SUFFICES ASSUME Bad # {} PROVE FALSE
  OBVIOUS
<1>1. Bad \in SUBSET (SUBSET S) /\ IsFiniteSet(S)
  BY FS_Subset
<1>2. PICK s \in Bad : \A x \in s : s \ {x} \notin Bad
  BY <1>1, SmallestBad
<1>3. s \in SUBSET S /\ s \in SUBSET D
  OBVIOUS
<1>4. s # {}
  BY <1>2, TotalSums
<1>5. PICK y : y \in s
  BY <1>4
<1>6. Total(f, s \ {y}) = Total(g, s \ {y})
  BY <1>2, <1>3, <1>5
<1>7. Total(f, s) = f[y] + Total(f, s \ {y}) /\ Total(g, s) = g[y] + Total(g, s \ {y})
  BY <1>3, <1>5, TotalSums
<1>8. f[y] = g[y]
  BY <1>3, <1>5
<1> QED  BY <1>2, <1>6, <1>7, <1>8

\* The sum over two disjoint sets, and over a smaller set.
LEMMA TotalSplits ==
    ASSUME NEW D, IsFiniteSet(D), NEW f \in [D -> Nat],
           NEW S \in SUBSET D, NEW T \in SUBSET D, S \cap T = {}
    PROVE  Total(f, S \cup T) = Total(f, S) + Total(f, T)
<1> DEFINE Bad == {s \in SUBSET S : Total(f, s \cup T) # Total(f, s) + Total(f, T)}
<1> SUFFICES ASSUME Bad # {} PROVE FALSE
  OBVIOUS
<1>1. Bad \in SUBSET (SUBSET S) /\ IsFiniteSet(S)
  BY FS_Subset
<1>2. PICK s \in Bad : \A x \in s : s \ {x} \notin Bad
  BY <1>1, SmallestBad
<1>3. s \in SUBSET S /\ s \in SUBSET D /\ s \cup T \in SUBSET D /\ s \cap T = {}
  OBVIOUS
<1>4. Total(f, T) \in Nat /\ Total(f, {}) = 0
  BY TotalSums
<1>5. s # {}
  <2> SUFFICES ASSUME s = {} PROVE FALSE
    OBVIOUS
  <2>1. s \cup T = T
    OBVIOUS
  <2> QED  BY <1>2, <1>4, <2>1
<1>6. PICK y : y \in s
  BY <1>5
<1>7. s \ {y} \in SUBSET S /\ (s \ {y}) \cup T = (s \cup T) \ {y} /\ s \ {y} \in SUBSET D
  BY <1>3, <1>6
<1>8. Total(f, (s \cup T) \ {y}) = Total(f, s \ {y}) + Total(f, T)
  BY <1>2, <1>6, <1>7
<1>9. Total(f, s) = f[y] + Total(f, s \ {y}) /\ Total(f, s \ {y}) \in Nat
  BY <1>3, <1>6, <1>7, TotalSums
<1>10. Total(f, s \cup T) = f[y] + Total(f, (s \cup T) \ {y})
  BY <1>3, <1>6, TotalSums
<1>11. f[y] \in Nat
  BY <1>3, <1>6
<1> QED  BY <1>2, <1>4, <1>8, <1>9, <1>10, <1>11

LEMMA TotalGrows ==
    ASSUME NEW D, IsFiniteSet(D), NEW f \in [D -> Nat],
           NEW S \in SUBSET D, NEW T \in SUBSET S
    PROVE  Total(f, T) <= Total(f, S)
<1>1. T \in SUBSET D /\ S \ T \in SUBSET D /\ T \cap (S \ T) = {} /\ T \cup (S \ T) = S
  OBVIOUS
<1>2. Total(f, S) = Total(f, T) + Total(f, S \ T)
  BY <1>1, TotalSplits
<1>3. Total(f, T) \in Nat /\ Total(f, S \ T) \in Nat
  BY <1>1, TotalSums
<1> QED  BY <1>2, <1>3

-----------------------------------------------------------------------------
(* The limiter: what one address has used, where f[u] attempts were let        *)
(* through at instant u, its window began at s, its entry counts c and it is   *)
(* n o'clock.                                                                  *)

Instants == 0..Horizon

\* The stretch of Window instants from t on, up to n.
Stretch(t, n) == {u \in t..n : u < t + Window}

BudgetType(f, s, c, n) ==
    /\ f \in [Instants -> Nat]
    /\ n \in 0..Horizon /\ s \in 0..n /\ c \in 0..MaxAttempts

\* Everything let through since s was let through in the window that began there.
WindowOK(f, s, c, n) ==
    /\ \A u \in 0..Horizon : u > n \/ u >= s + Window => f[u] = 0
    /\ Total(f, s..n) <= MaxAttempts
    /\ c # 0 => Total(f, s..n) = c
    /\ c = 0 => Total(f, s..n) = 0 \/ n >= s + Window
    /\ Total(f, s..n) = 0 => s = 0
    /\ Total(f, s..n) # 0 => f[s] # 0

\* A stretch that reaches into the present window began after the one before it
\* had let its first attempt through.
BeforeOK(f, s) ==
    \A t \in 0..Horizon :
        t < s /\ s < t + Window => Total(f, t..(s - 1)) < MaxAttempts

StretchesOK(f, n) == \A t \in 0..n : Total(f, Stretch(t, n)) < 2 * MaxAttempts

BudgetOK(f, s, c, n) ==
    BudgetType(f, s, c, n) /\ WindowOK(f, s, c, n) /\ BeforeOK(f, s) /\ StretchesOK(f, n)

LEMMA Clock == IsFiniteSet(Instants) /\ Horizon \in Nat /\ Window \in Nat \ {0}
                 /\ MaxAttempts \in Nat \ {0}
<1>1. IsFiniteSet(Instants)
  BY FS_Interval, CodeAssumption DEF Instants
<1> QED  BY <1>1, CodeAssumption, AdmissionAssumption

LEMMA TotalAdd ==
    ASSUME NEW f \in [Instants -> Nat], NEW S \in SUBSET Instants,
           NEW y \in Instants, y \notin S
    PROVE  Total(f, S \cup {y}) = Total(f, S) + f[y]
<1> DEFINE T == S \cup {y}
<1>1. T \in SUBSET Instants /\ y \in T /\ T \ {y} = S
  OBVIOUS
<1> HIDE DEF T
<1>2. Total(f, T) = f[y] + Total(f, T \ {y})
  BY <1>1, Clock, TotalSums
<1>3. Total(f, T) = f[y] + Total(f, S)
  BY <1>1, <1>2, Zenon
<1>4. Total(f, S) \in Nat /\ f[y] \in Nat
  BY Clock, TotalSums
<1>5. Total(f, T) = Total(f, S) + f[y]
  BY <1>3, <1>4
<1> QED  BY <1>5 DEF T

\* One more attempt at instant n counts once, wherever n is counted.
LEMMA TotalAdmit ==
    ASSUME NEW f \in [Instants -> Nat], NEW n \in Instants, NEW S \in SUBSET Instants
    PROVE  LET g == [f EXCEPT ![n] = f[n] + 1] IN
           /\ g \in [Instants -> Nat]
           /\ Total(g, S) = Total(f, S) + (IF n \in S THEN 1 ELSE 0)
<1> DEFINE g == [f EXCEPT ![n] = f[n] + 1]
<1>1. g \in [Instants -> Nat] /\ g[n] = f[n] + 1 /\ f[n] \in Nat
  OBVIOUS
<1>2. \A u \in Instants : u # n => g[u] = f[u]
  OBVIOUS
<1> HIDE DEF g
<1>3. Total(f, S) \in Nat
  BY Clock, TotalSums
<1>4. CASE n \notin S
  <2>1. \A u \in S : g[u] = f[u]
    BY <1>2, <1>4
  <2>2. Total(g, S) = Total(f, S)
    BY <1>1, <2>1, Clock, TotalAgrees
  <2> QED  BY <1>1, <1>3, <1>4, <2>2 DEF g
<1>5. CASE n \in S
  <2> DEFINE R == S \ {n}
  <2>1. R \in SUBSET Instants /\ n \notin R /\ R \cup {n} = S
    BY <1>5
  <2> HIDE DEF R
  <2>2. \A u \in R : g[u] = f[u]
    BY <1>2, <2>1
  <2>3. Total(g, R) = Total(f, R)
    BY <1>1, <2>1, <2>2, Clock, TotalAgrees
  <2>4. Total(f, R) \in Nat
    BY <2>1, Clock, TotalSums
  <2>5. Total(f, R \cup {n}) = Total(f, R) + f[n] /\ Total(g, R \cup {n}) = Total(g, R) + g[n]
    BY <1>1, <2>1, TotalAdd
  <2>6. Total(f, S) = Total(f, R) + f[n] /\ Total(g, S) = Total(g, R) + g[n]
    BY <2>1, <2>5, Zenon
  <2>7. Total(g, S) = Total(f, S) + 1
    BY <1>1, <2>3, <2>4, <2>6
  <2> QED  BY <1>1, <1>5, <2>7 DEF g
<1> QED  BY <1>4, <1>5

\* A stretch and a window are sets of instants the clock has shown.
LEMMA StretchIn ==
    ASSUME NEW n \in 0..Horizon, NEW t \in 0..Horizon
    PROVE  /\ Stretch(t, n) \in SUBSET Instants /\ t..n \in SUBSET Instants
           /\ Stretch(t, n) \subseteq t..n
BY Clock DEF Stretch, Instants

LEMMA TickBudget ==
    ASSUME NEW f, NEW s, NEW c, NEW n, BudgetOK(f, s, c, n), n < Horizon
    PROVE  BudgetOK(f, s, c, n + 1)
<1>0. /\ f \in [Instants -> Nat] /\ n \in 0..Horizon /\ s \in 0..n /\ c \in 0..MaxAttempts
      /\ n \in Nat /\ s \in Nat /\ n + 1 \in 0..Horizon /\ s \in 0..(n + 1) /\ s \in 0..Horizon
      /\ n + 1 \in Instants
  BY Clock DEF BudgetOK, BudgetType, Instants
<1>1. f[n + 1] = 0
  BY <1>0 DEF BudgetOK, WindowOK
<1>2. Total(f, s..(n + 1)) = Total(f, s..n)
  <2>1. s..(n + 1) = (s..n) \cup {n + 1} /\ n + 1 \notin s..n /\ s..n \in SUBSET Instants
    BY <1>0, Clock DEF Instants
  <2>2. Total(f, (s..n) \cup {n + 1}) = Total(f, s..n) + f[n + 1]
    BY <1>0, <2>1, TotalAdd
  <2>3. Total(f, s..n) \in Nat
    BY <1>0, <2>1, Clock, TotalSums
  <2>4. Total(f, s..(n + 1)) = Total(f, s..n) + f[n + 1]
    BY <2>1, <2>2, Zenon
  <2> QED  BY <1>1, <2>3, <2>4
<1>3. BudgetType(f, s, c, n + 1)
  BY <1>0 DEF BudgetType
<1>4. WindowOK(f, s, c, n + 1)
  <2>1. \A u \in 0..Horizon : u > n + 1 \/ u >= s + Window => f[u] = 0
    BY <1>0 DEF BudgetOK, WindowOK
  <2>2. n >= s + Window => n + 1 >= s + Window
    BY <1>0, Clock
  <2> QED  BY <1>2, <2>1, <2>2 DEF BudgetOK, WindowOK
<1>5. StretchesOK(f, n + 1)
  <2> SUFFICES ASSUME NEW t \in 0..(n + 1)
               PROVE  Total(f, Stretch(t, n + 1)) < 2 * MaxAttempts
    BY DEF StretchesOK
  <2>1. CASE t = n + 1
    <3>1. Stretch(t, n + 1) = {} \cup {n + 1} /\ {} \in SUBSET Instants
      BY <1>0, <2>1, Clock DEF Stretch
    <3>2. Total(f, {} \cup {n + 1}) = Total(f, {}) + f[n + 1]
      BY <1>0, <3>1, TotalAdd
    <3>3. Total(f, {}) = 0
      BY <1>0, Clock, TotalSums
    <3>4. Total(f, Stretch(t, n + 1)) = Total(f, {}) + f[n + 1]
      BY <3>1, <3>2, Zenon
    <3> QED  BY <1>1, <3>3, <3>4, Clock
  <2>2. CASE t \in 0..n
    <3>1. Total(f, Stretch(t, n)) < 2 * MaxAttempts
      BY <2>2 DEF BudgetOK, StretchesOK
    <3>2. t \in 0..Horizon
      BY <1>0, <2>2, Clock
    <3>3. Stretch(t, n) \in SUBSET Instants /\ n + 1 \notin Stretch(t, n)
      BY <1>0, <3>2, StretchIn DEF Stretch
    <3>4. Total(f, Stretch(t, n)) \in Nat
      BY <1>0, <3>3, Clock, TotalSums
    <3>5. CASE n + 1 < t + Window
      <4>1. Stretch(t, n + 1) = Stretch(t, n) \cup {n + 1}
        BY <1>0, <2>2, <3>5, Clock DEF Stretch
      <4>2. Total(f, Stretch(t, n) \cup {n + 1}) = Total(f, Stretch(t, n)) + f[n + 1]
        BY <1>0, <3>3, TotalAdd
      <4>3. Total(f, Stretch(t, n + 1)) = Total(f, Stretch(t, n)) + f[n + 1]
        BY <4>1, <4>2, Zenon
      <4> QED  BY <1>1, <3>1, <3>4, <4>3
    <3>6. CASE ~(n + 1 < t + Window)
      <4>1. Stretch(t, n + 1) = Stretch(t, n)
        BY <1>0, <2>2, <3>6, Clock DEF Stretch
      <4> QED  BY <3>1, <4>1
    <3> QED  BY <3>5, <3>6
  <2> QED  BY <1>0, <2>1, <2>2
<1> QED  BY <1>3, <1>4, <1>5 DEF BudgetOK

\* Deleting a stale entry gives the budget back and forgets nothing else.
LEMMA SweepBudget ==
    ASSUME NEW f, NEW s, NEW c, NEW n, BudgetOK(f, s, c, n), n - s >= Window
    PROVE  BudgetOK(f, s, 0, n)
<1>1. BudgetType(f, s, 0, n) /\ n >= s + Window
  BY Clock DEF BudgetOK, BudgetType
<1>2. WindowOK(f, s, 0, n)
  BY <1>1 DEF BudgetOK, WindowOK
<1> QED  BY <1>1, <1>2 DEF BudgetOK

\* What one more attempt at n does to the sums, the values and the types.
LEMMA AdmitFacts ==
    ASSUME NEW f, NEW s, NEW c, NEW n, BudgetType(f, s, c, n),
           NEW g, g = [f EXCEPT ![n] = f[n] + 1]
    PROVE  /\ f \in [Instants -> Nat] /\ g \in [Instants -> Nat]
           /\ \A S \in SUBSET Instants :
                Total(f, S) \in Nat /\ Total(g, S) = Total(f, S) + (IF n \in S THEN 1 ELSE 0)
           /\ \A u \in Instants : f[u] \in Nat /\ g[u] = IF u = n THEN f[n] + 1 ELSE f[u]
           /\ n \in Instants /\ n \in Nat /\ s \in Nat /\ n <= Horizon /\ s <= n /\ c \in Nat
<1>1. f \in [Instants -> Nat] /\ n \in Instants
  BY DEF BudgetType, Instants
<1>2. n \in Nat /\ s \in Nat /\ n <= Horizon /\ s <= n /\ c \in Nat
  BY Clock DEF BudgetType
<1>3. g \in [Instants -> Nat] /\ \A u \in Instants : f[u] \in Nat /\ g[u] = IF u = n THEN f[n] + 1 ELSE f[u]
  BY <1>1
<1>4. \A S \in SUBSET Instants : Total(f, S) \in Nat
  BY <1>1, Clock, TotalSums
<1>5. \A S \in SUBSET Instants : Total(g, S) = Total(f, S) + (IF n \in S THEN 1 ELSE 0)
  BY <1>1, TotalAdmit, Zenon
<1> QED  BY <1>1, <1>2, <1>3, <1>4, <1>5

\* A stretch that ends now has the shape of an interval.
LEMMA StretchNow ==
    ASSUME NEW n \in 0..Horizon, NEW t \in 0..n
    PROVE  /\ Stretch(t, n) \in SUBSET Instants
           /\ n \in Stretch(t, n) => n < t + Window /\ Stretch(t, n) = t..n
BY Clock DEF Stretch, Instants

LEMMA AdmitSame ==
    ASSUME NEW f, NEW s, NEW c, NEW n, BudgetOK(f, s, c, n),
           c # 0, n < s + Window, c < MaxAttempts
    PROVE  BudgetOK([f EXCEPT ![n] = f[n] + 1], s, c + 1, n)
<1> DEFINE g == [f EXCEPT ![n] = f[n] + 1]
<1>1. /\ f \in [Instants -> Nat] /\ g \in [Instants -> Nat]
      /\ \A S \in SUBSET Instants :
           Total(f, S) \in Nat /\ Total(g, S) = Total(f, S) + (IF n \in S THEN 1 ELSE 0)
      /\ \A u \in Instants : f[u] \in Nat /\ g[u] = IF u = n THEN f[n] + 1 ELSE f[u]
      /\ n \in Instants /\ n \in Nat /\ s \in Nat /\ n <= Horizon /\ s <= n /\ c \in Nat
  BY AdmitFacts DEF BudgetOK
<1> HIDE DEF g
<1>2. s..n \in SUBSET Instants /\ n \in s..n
  BY <1>1, Clock DEF Instants
<1>3. Total(f, s..n) = c /\ Total(g, s..n) = c + 1
  <2>1. Total(f, s..n) = c
    BY DEF BudgetOK, WindowOK
  <2>2. Total(g, s..n) = Total(f, s..n) + 1
    BY <1>1, <1>2
  <2> QED  BY <2>1, <2>2
<1>4. BudgetType(g, s, c + 1, n)
  BY <1>1, Clock DEF BudgetOK, BudgetType
<1>5. WindowOK(g, s, c + 1, n)
  <2>1. \A u \in 0..Horizon : u > n \/ u >= s + Window => g[u] = 0
    <3> SUFFICES ASSUME NEW u \in 0..Horizon, u > n \/ u >= s + Window PROVE g[u] = 0
      OBVIOUS
    <3>1. u # n /\ u \in Instants
      BY <1>1, Clock DEF Instants
    <3>2. f[u] = 0
      BY DEF BudgetOK, WindowOK
    <3> QED  BY <1>1, <3>1, <3>2
  <2>2. g[s] # 0
    <3>1. f[s] # 0 /\ s \in Instants
      BY <1>1, <1>3, Clock DEF BudgetOK, WindowOK, Instants
    <3> QED  BY <1>1, <3>1
  <2>3. c + 1 # 0 /\ c + 1 <= MaxAttempts
    BY <1>1, Clock
  <2> QED  BY <1>3, <2>1, <2>2, <2>3 DEF WindowOK
<1>6. BeforeOK(g, s)
  <2> SUFFICES ASSUME NEW t \in 0..Horizon, t < s, s < t + Window
               PROVE  Total(g, t..(s - 1)) < MaxAttempts
    BY DEF BeforeOK
  <2>1. t..(s - 1) \in SUBSET Instants /\ n \notin t..(s - 1)
    BY <1>1, Clock DEF Instants
  <2>2. Total(f, t..(s - 1)) < MaxAttempts
    BY DEF BudgetOK, BeforeOK
  <2>3. Total(g, t..(s - 1)) = Total(f, t..(s - 1)) + 0 /\ Total(f, t..(s - 1)) \in Nat
    BY <1>1, <2>1
  <2> QED  BY <2>2, <2>3
<1>7. StretchesOK(g, n)
  <2> SUFFICES ASSUME NEW t \in 0..n PROVE Total(g, Stretch(t, n)) < 2 * MaxAttempts
    BY DEF StretchesOK
  <2>1. Stretch(t, n) \in SUBSET Instants /\ (n \in Stretch(t, n) => n < t + Window /\ Stretch(t, n) = t..n)
    BY <1>1, StretchNow DEF BudgetOK, BudgetType
  <2>2. CASE n \notin Stretch(t, n)
    <3>1. Total(f, Stretch(t, n)) < 2 * MaxAttempts
      BY DEF BudgetOK, StretchesOK
    <3>2. Total(g, Stretch(t, n)) = Total(f, Stretch(t, n)) + 0 /\ Total(f, Stretch(t, n)) \in Nat
      BY <1>1, <2>1, <2>2
    <3> QED  BY <3>1, <3>2
  <2>3. CASE n \in Stretch(t, n) /\ t >= s
    <3>1. t..n \in SUBSET (s..n)
      BY <1>1, <2>3
    <3>2. Total(g, t..n) <= Total(g, s..n)
      BY <1>1, <1>2, <3>1, Clock, TotalGrows
    <3>3. Total(g, Stretch(t, n)) = Total(g, t..n)
      BY <2>1, <2>3, Zenon
    <3>4. t..n \in SUBSET Instants
      BY <1>2, <3>1
    <3>5. Total(f, t..n) \in Nat /\ Total(g, t..n) \in Nat
      BY <1>1, <3>4, Clock, TotalSums
    <3> QED  BY <1>1, <1>3, <3>2, <3>3, <3>5, Clock
  <2>4. CASE n \in Stretch(t, n) /\ t < s
    <3> DEFINE A == t..(s - 1)
               B == s..n
    <3>1. A \in SUBSET Instants /\ B \in SUBSET Instants /\ A \cap B = {} /\ t..n = A \cup B
      BY <1>1, <2>4, Clock DEF Instants
    <3>2. Total(g, A) < MaxAttempts
      <4>1. t \in 0..Horizon /\ s < t + Window
        BY <1>1, <2>1, <2>4, Clock
      <4> QED  BY <1>6, <2>4, <4>1 DEF BeforeOK
    <3>3. Total(g, B) = c + 1
      BY <1>3
    <3> HIDE DEF A, B
    <3>4. Total(g, A \cup B) = Total(g, A) + Total(g, B)
      <4>1. IsFiniteSet(Instants) /\ g \in [Instants -> Nat]
        BY <1>1, Clock
      <4>2. A \in SUBSET Instants /\ B \in SUBSET Instants /\ A \cap B = {}
        BY <3>1
      <4> QED  BY <4>1, <4>2, TotalSplits
    <3>5. Total(g, Stretch(t, n)) = Total(g, A \cup B)
      BY <2>1, <2>4, <3>1, Zenon
    <3>6. Total(g, A) \in Nat
      BY <1>1, <3>1, Clock, TotalSums
    <3> QED  BY <1>1, <3>2, <3>3, <3>4, <3>5, <3>6, Clock
  <2>5. t \in Nat
    OBVIOUS
  <2> QED  BY <1>1, <2>2, <2>3, <2>4, <2>5
<1> QED  BY <1>4, <1>5, <1>6, <1>7 DEF BudgetOK, g

LEMMA AdmitNew ==
    ASSUME NEW f, NEW s, NEW n, BudgetOK(f, s, 0, n)
    PROVE  BudgetOK([f EXCEPT ![n] = f[n] + 1], n, 1, n)
<1> DEFINE g == [f EXCEPT ![n] = f[n] + 1]
           W == Total(f, s..n)
<1>1. /\ f \in [Instants -> Nat] /\ g \in [Instants -> Nat]
      /\ \A S \in SUBSET Instants :
           Total(f, S) \in Nat /\ Total(g, S) = Total(f, S) + (IF n \in S THEN 1 ELSE 0)
      /\ \A u \in Instants : f[u] \in Nat /\ g[u] = IF u = n THEN f[n] + 1 ELSE f[u]
      /\ n \in Instants /\ n \in Nat /\ s \in Nat /\ n <= Horizon /\ s <= n
  BY AdmitFacts DEF BudgetOK
<1> HIDE DEF g
<1>2. s..n \in SUBSET Instants /\ n \in s..n /\ s \in s..n
  BY <1>1, Clock DEF Instants
<1>3. /\ W \in Nat /\ W <= MaxAttempts /\ (W = 0 \/ n >= s + Window)
      /\ W = 0 => s = 0
      /\ W # 0 => f[s] # 0
  BY <1>1, <1>2 DEF BudgetOK, WindowOK
<1>3a. \A S \in SUBSET Instants : \A y \in S : Total(f, S) = f[y] + Total(f, S \ {y})
  <2>1. IsFiniteSet(Instants) /\ f \in [Instants -> Nat]
    BY <1>1, Clock
  <2>2. ASSUME NEW S \in SUBSET Instants, NEW y \in S
        PROVE  Total(f, S) = f[y] + Total(f, S \ {y})
    BY <2>1, TotalSums
  <2> QED  BY <2>2
<1>4. f[n] = 0
  <2>1. CASE W = 0
    <3>1. W = f[n] + Total(f, (s..n) \ {n})
      BY <1>2, <1>3a
    <3>2. (s..n) \ {n} \in SUBSET Instants
      BY <1>2
    <3>3. Total(f, (s..n) \ {n}) \in Nat /\ f[n] \in Nat
      BY <1>1, <3>2
    <3> HIDE DEF W
    <3> QED  BY <2>1, <3>1, <3>3
  <2>2. CASE n >= s + Window
    BY <1>1, <2>2, Clock DEF BudgetOK, WindowOK
  <2> QED  BY <1>3, <2>1, <2>2
<1>5. Total(g, n..n) = 1
  <2>1. n..n = {} \cup {n} /\ {} \in SUBSET Instants /\ n..n \in SUBSET Instants /\ n \in n..n
    BY <1>1 DEF Instants
  <2>2. Total(f, {} \cup {n}) = Total(f, {}) + f[n] /\ Total(f, {}) = 0
    <3>1. Total(f, {} \cup {n}) = Total(f, {}) + f[n]
      BY <1>1, <2>1, TotalAdd
    <3>2. Total(f, {}) = 0
      BY <1>1, Clock, TotalSums
    <3> QED  BY <3>1, <3>2
  <2>3. Total(f, n..n) = Total(f, {}) + f[n]
    BY <2>1, <2>2, Zenon
  <2>4. Total(g, n..n) = Total(f, n..n) + 1
    BY <1>1, <2>1
  <2> QED  BY <1>4, <2>2, <2>3, <2>4
<1>6. BudgetType(g, n, 1, n)
  BY <1>1, Clock DEF BudgetOK, BudgetType
<1>7. WindowOK(g, n, 1, n)
  <2>1. \A u \in 0..Horizon : u > n \/ u >= n + Window => g[u] = 0
    <3> SUFFICES ASSUME NEW u \in 0..Horizon, u > n \/ u >= n + Window PROVE g[u] = 0
      OBVIOUS
    <3>1. u > n /\ u # n /\ u \in Instants
      BY <1>1, Clock DEF Instants
    <3>2. f[u] = 0
      BY <3>1 DEF BudgetOK, WindowOK
    <3> QED  BY <1>1, <3>1, <3>2
  <2>2. g[n] # 0 /\ 1 <= MaxAttempts
    BY <1>1, Clock
  <2> QED  BY <1>5, <2>1, <2>2 DEF WindowOK
<1>8. ASSUME NEW t \in 0..Horizon, t < n, n < t + Window
      PROVE  Total(g, t..(n - 1)) < MaxAttempts /\ t..(n - 1) \in SUBSET Instants
  <2> DEFINE A == t..(n - 1)
  <2>1. A \in SUBSET Instants /\ n \notin A
    BY <1>1, <1>8, Clock DEF Instants
  <2>2. CASE W = 0
    <3>1. A \in SUBSET (s..n)
      BY <1>1, <1>3, <1>8, <2>2
    <3>2. Total(f, A) <= Total(f, s..n)
      BY <1>1, <1>2, <3>1, Clock, TotalGrows
    <3> HIDE DEF A
    <3>3. Total(g, A) = Total(f, A) + 0 /\ Total(f, A) \in Nat
      BY <1>1, <2>1
    <3> QED  BY <2>1, <2>2, <3>2, <3>3, Clock DEF A
  <2>3. CASE W # 0
    <3> DEFINE B == (s..n) \ {s}
    <3>1. n >= s + Window /\ f[s] # 0
      BY <1>3, <2>3
    <3>2. A \in SUBSET B /\ B \in SUBSET Instants
      BY <1>1, <1>2, <1>8, <3>1, Clock
    <3>3. W = f[s] + Total(f, B)
      BY <1>2, <1>3a
    <3> HIDE DEF A, B, W
    <3>4. Total(f, A) <= Total(f, B)
      BY <1>1, <3>2, Clock, TotalGrows
    <3>5. Total(g, A) = Total(f, A) + 0 /\ Total(f, A) \in Nat /\ Total(f, B) \in Nat
      BY <1>1, <2>1, <3>2
    <3>6. f[s] \in Nat
      BY <1>1, <1>2
    <3>7. Total(g, A) < MaxAttempts
      BY <1>3, <3>1, <3>3, <3>4, <3>5, <3>6, Clock
    <3> QED  BY <2>1, <3>7 DEF A
  <2> QED  BY <2>2, <2>3
<1>9. BeforeOK(g, n)
  BY <1>8 DEF BeforeOK
<1>10. StretchesOK(g, n)
  <2> SUFFICES ASSUME NEW t \in 0..n PROVE Total(g, Stretch(t, n)) < 2 * MaxAttempts
    BY DEF StretchesOK
  <2>1. Stretch(t, n) \in SUBSET Instants /\ (n \in Stretch(t, n) => n < t + Window /\ Stretch(t, n) = t..n)
    BY <1>1, StretchNow DEF BudgetOK, BudgetType
  <2>2. CASE n \notin Stretch(t, n)
    <3>1. Total(f, Stretch(t, n)) < 2 * MaxAttempts
      BY DEF BudgetOK, StretchesOK
    <3>2. Total(g, Stretch(t, n)) = Total(f, Stretch(t, n)) + 0 /\ Total(f, Stretch(t, n)) \in Nat
      BY <1>1, <2>1, <2>2
    <3> QED  BY <3>1, <3>2
  <2>3. CASE n \in Stretch(t, n) /\ t = n
    <3>1. Total(g, Stretch(t, n)) = Total(g, n..n)
      BY <2>1, <2>3, Zenon
    <3> QED  BY <1>5, <3>1, Clock
  <2>4. CASE n \in Stretch(t, n) /\ t # n
    <3> DEFINE A == t..(n - 1)
    <3>1. t < n /\ t \in 0..Horizon /\ n < t + Window
      BY <1>1, <2>1, <2>4, Clock
    <3>2. Total(g, A) < MaxAttempts /\ A \in SUBSET Instants
      BY <1>8, <3>1
    <3>3. n \notin A /\ t..n = A \cup {n}
      BY <1>1, <3>1
    <3> HIDE DEF A
    <3>4. Total(g, A \cup {n}) = Total(g, A) + g[n]
      BY <1>1, <3>2, <3>3, TotalAdd
    <3>5. Total(g, Stretch(t, n)) = Total(g, A \cup {n})
      BY <2>1, <2>4, <3>3, Zenon
    <3>6. g[n] = 1 /\ Total(g, A) \in Nat
      BY <1>1, <1>4, <3>2, Clock, TotalSums
    <3> QED  BY <3>2, <3>4, <3>5, <3>6, Clock
  <2> QED  BY <2>2, <2>3, <2>4
<1> QED  BY <1>6, <1>7, <1>9, <1>10 DEF BudgetOK, g

-----------------------------------------------------------------------------
(* The limiter inside the broker *)

LimiterInv ==
    /\ admitted \in [Addresses -> [Instants -> Nat]]
    /\ startedAt \in [Addresses -> Nat] /\ count \in [Addresses -> Nat]
    /\ \A a \in Addresses : BudgetOK(admitted[a], startedAt[a], count[a], now)

\* The count after the sweep, for every address whoever's attempt it is.
LEMMA SweptCount ==
    ASSUME LimiterInv, NEW a \in Addresses
    PROVE  LET k == Limiter!CurrentCount(a) IN
           /\ BudgetOK(admitted[a], startedAt[a], k, now) /\ k \in Nat
           /\ k # 0 => now < startedAt[a] + Window /\ k = count[a]
<1>1. BudgetOK(admitted[a], startedAt[a], count[a], now)
  BY DEF LimiterInv
<1>2. now \in Nat /\ startedAt[a] \in Nat /\ count[a] \in Nat
  BY <1>1, Clock DEF LimiterInv, BudgetOK, BudgetType
<1>3. CASE now - startedAt[a] >= Window
  <2>1. Limiter!CurrentCount(a) = 0
    BY <1>3 DEF Limiter!CurrentCount
  <2>2. BudgetOK(admitted[a], startedAt[a], 0, now)
    BY <1>1, <1>3, SweepBudget
  <2> QED  BY <2>1, <2>2
<1>4. CASE ~(now - startedAt[a] >= Window)
  <2>1. Limiter!CurrentCount(a) = count[a]
    BY <1>4 DEF Limiter!CurrentCount
  <2>2. now < startedAt[a] + Window
    BY <1>2, <1>4, Clock
  <2> QED  BY <1>1, <1>2, <2>1, <2>2
<1> QED  BY <1>3, <1>4

LEMMA AllowKeeps ==
    ASSUME LimiterInv, NEW a \in Addresses, Limiter!AllowPairAttempt(a)
    PROVE  LimiterInv'
<1> DEFINE k(b) == Limiter!CurrentCount(b)
<1>1. /\ k(a) < MaxAttempts /\ now' = now
      /\ count' = [b \in Addresses |-> IF b = a THEN k(a) + 1 ELSE k(b)]
      /\ startedAt' = IF k(a) = 0 THEN [startedAt EXCEPT ![a] = now] ELSE startedAt
      /\ admitted' = [admitted EXCEPT ![a][now] = admitted[a][now] + 1]
  <2>1. k(a) \in Nat
    BY SweptCount
  <2>2. ~(k(a) >= MaxAttempts)
    BY DEF Limiter!AllowPairAttempt, Limiter!Refused
  <2>3. k(a) < MaxAttempts
    BY <2>1, <2>2, Clock
  <2> QED  BY <2>3 DEF Limiter!AllowPairAttempt
<1>2. \A b \in Addresses : /\ BudgetOK(admitted[b], startedAt[b], k(b), now) /\ k(b) \in Nat
                           /\ k(b) # 0 => now < startedAt[b] + Window
  BY SweptCount
<1> HIDE DEF k
<1> DEFINE g == [admitted[a] EXCEPT ![now] = admitted[a][now] + 1]
<1>3. /\ \A b \in Addresses : b # a => /\ admitted'[b] = admitted[b]
                                       /\ startedAt'[b] = startedAt[b] /\ count'[b] = k(b)
      /\ admitted'[a] = g /\ count'[a] = k(a) + 1
      /\ startedAt'[a] = IF k(a) = 0 THEN now ELSE startedAt[a]
  BY <1>1 DEF LimiterInv
<1>4. BudgetOK(g, IF k(a) = 0 THEN now ELSE startedAt[a], k(a) + 1, now)
  <2>1. CASE k(a) = 0
    <3>1. BudgetOK(admitted[a], startedAt[a], 0, now)
      BY <1>2, <2>1
    <3>2. BudgetOK(g, now, 1, now)
      BY <3>1, AdmitNew
    <3> QED  BY <2>1, <3>2
  <2>2. CASE k(a) # 0
    <3>1. BudgetOK(admitted[a], startedAt[a], k(a), now) /\ now < startedAt[a] + Window
      BY <1>2, <2>2
    <3>2. BudgetOK(g, startedAt[a], k(a) + 1, now)
      BY <1>1, <2>2, <3>1, AdmitSame
    <3> QED  BY <2>2, <3>2
  <2> QED  BY <2>1, <2>2
<1>5. now \in Nat /\ g \in [Instants -> Nat]
  BY <1>2, <1>4, Clock DEF BudgetOK, BudgetType
<1> HIDE DEF g
<1>6. /\ admitted' \in [Addresses -> [Instants -> Nat]]
      /\ startedAt' \in [Addresses -> Nat] /\ count' \in [Addresses -> Nat]
  <2>1. admitted' = [admitted EXCEPT ![a] = g]
    BY <1>1 DEF g
  <2>2. admitted' \in [Addresses -> [Instants -> Nat]]
    BY <1>5, <2>1 DEF LimiterInv
  <2>3. startedAt' \in [Addresses -> Nat]
    BY <1>1, <1>5 DEF LimiterInv
  <2>4. count' \in [Addresses -> Nat]
    BY <1>1, <1>2
  <2> QED  BY <2>2, <2>3, <2>4
<1>7. ASSUME NEW b \in Addresses
      PROVE  BudgetOK(admitted'[b], startedAt'[b], count'[b], now')
  <2>1. CASE b = a
    BY <1>1, <1>3, <1>4, <2>1
  <2>2. CASE b # a
    BY <1>1, <1>2, <1>3, <2>2
  <2> QED  BY <2>1, <2>2
<1> QED  BY <1>6, <1>7 DEF LimiterInv

LEMMA RefuseKeeps ==
    ASSUME LimiterInv, NEW a \in Addresses, Limiter!RefusePairAttempt(a)
    PROVE  LimiterInv'
<1>1. /\ count' = [b \in Addresses |-> Limiter!CurrentCount(b)]
      /\ UNCHANGED <<now, startedAt, admitted>>
  BY DEF Limiter!RefusePairAttempt
<1>2. \A b \in Addresses : BudgetOK(admitted[b], startedAt[b], Limiter!CurrentCount(b), now)
                           /\ Limiter!CurrentCount(b) \in Nat
  BY SweptCount
<1> QED  BY <1>1, <1>2 DEF LimiterInv

\* At the start nothing was let through.
LEMMA FreshBudget == BudgetOK([t \in 0..Horizon |-> 0], 0, 0, 0)
<1> DEFINE f == [t \in 0..Horizon |-> 0]
<1>1. f \in [Instants -> Nat] /\ \A u \in Instants : f[u] = 0
  BY DEF Instants
<1> HIDE DEF f
<1>2. 0..0 = {} \cup {0} /\ {} \in SUBSET Instants /\ 0 \in Instants
  BY Clock DEF Instants
<1>3. Total(f, {} \cup {0}) = Total(f, {}) + f[0]
  BY <1>1, <1>2, TotalAdd
<1>4. Total(f, {}) = 0
  BY <1>1, Clock, TotalSums
<1>5. Total(f, 0..0) = Total(f, {}) + f[0]
  BY <1>2, <1>3, Zenon
<1>6. Total(f, 0..0) = 0
  BY <1>1, <1>2, <1>4, <1>5
<1>7. BudgetType(f, 0, 0, 0)
  BY <1>1, Clock DEF BudgetType
<1>8. WindowOK(f, 0, 0, 0)
  BY <1>1, <1>6, Clock DEF WindowOK, Instants
<1>9. BeforeOK(f, 0)
  BY Clock DEF BeforeOK
<1>10. StretchesOK(f, 0)
  <2>1. Stretch(0, 0) = 0..0
    BY Clock DEF Stretch
  <2>2. Total(f, Stretch(0, 0)) = Total(f, 0..0)
    BY <2>1, Zenon
  <2>3. \A t \in 0..0 : t = 0
    OBVIOUS
  <2> QED  BY <1>6, <2>2, <2>3, Clock DEF StretchesOK
<1> QED  BY <1>7, <1>8, <1>9, <1>10 DEF BudgetOK, f

LEMMA LimiterInvAlways == AdmissionSpec => []LimiterInv
<1>1. AdmissionInit => LimiterInv
  <2> SUFFICES ASSUME AdmissionInit PROVE LimiterInv
    OBVIOUS
  <2>1. /\ now = 0 /\ startedAt = [a \in Addresses |-> 0] /\ count = [a \in Addresses |-> 0]
        /\ admitted = [a \in Addresses |-> [t \in 0..Horizon |-> 0]]
    BY DEF AdmissionInit, Limiter!Init
  <2>2. admitted \in [Addresses -> [Instants -> Nat]]
    BY <2>1 DEF Instants
  <2> QED  BY <2>1, <2>2, FreshBudget DEF LimiterInv
<1>2. LimiterInv /\ [AdmissionNext]_admissionVars => LimiterInv'
  <2> SUFFICES ASSUME LimiterInv, [AdmissionNext]_admissionVars PROVE LimiterInv'
    OBVIOUS
  <2>1. CASE UNCHANGED <<startedAt, count, admitted, now>>
    BY <2>1 DEF LimiterInv
  <2>2. CASE TimePasses
    <3>1. now < Horizon /\ now' = now + 1 /\ UNCHANGED <<startedAt, count, admitted>>
      BY <2>2 DEF TimePasses, Tick, limiterVars
    <3>2. ASSUME NEW a \in Addresses PROVE BudgetOK(admitted[a], startedAt[a], count[a], now + 1)
      BY <3>1, TickBudget DEF LimiterInv
    <3> QED  BY <3>1, <3>2 DEF LimiterInv
  <2>3. CASE UNCHANGED admissionVars \/ AdminEnrollment \/ CallbackEvicts
    BY <2>1, <2>3 DEF admissionVars, limiterVars, AdminEnrollment, Issue, IssueRefused,
                      CallbackEvicts, Pairing!EvictExpired
  <2>4. ASSUME NEW a \in Addresses, PairArrives(a) PROVE LimiterInv'
    BY <2>4, AllowKeeps, RefuseKeeps DEF PairArrives
  <2>5. ASSUME NEW a \in Addresses, PairMalformed(a) PROVE LimiterInv'
    BY <2>1, <2>5 DEF PairMalformed, BodyRead, limiterVars
  <2>6. ASSUME NEW a \in Addresses, NEW c \in Codes, NEW d \in Devices,
               \/ \E p \in Pairs : PairAccepted(a, p, c, d)
               \/ \E keysOk \in BOOLEAN : PairFails(a, c, d, keysOk)
               \/ PairDenied(a, c, d)
        PROVE  LimiterInv'
    BY <2>1, <2>6 DEF PairAccepted, PairCreates, PairFails, PairDenied, BodyRead, Consume,
                      limiterVars
  <2> QED  BY <2>2, <2>3, <2>4, <2>5, <2>6 DEF AdmissionNext
<1> QED  BY <1>1, <1>2, PTL DEF AdmissionSpec

\* Fixed windows bound the rate over any window: for every number of attempts,
\* window length and interleaving of addresses, no stretch of Window instants lets
\* through 2 * MaxAttempts attempts of one address (allowPairAttempt in server.ts).
THEOREM RateIsBounded == AdmissionSpec => []SlidingRateBounded
<1>1. LimiterInv => SlidingRateBounded
  <2> SUFFICES ASSUME LimiterInv, NEW a \in Addresses, NEW t \in 0..now
               PROVE  Total(admitted[a], Stretch(t, now)) < 2 * MaxAttempts
    BY DEF SlidingRateBounded, Limiter!SlidingRateBounded, Limiter!AdmittedIn, Total, Stretch
  <2> QED  BY DEF LimiterInv, BudgetOK, StretchesOK
<1> QED  BY <1>1, LimiterInvAlways, PTL

\* Nobody is turned away with budget left: a refused address was let through exactly
\* MaxAttempts times in the window it is in (allowPairAttempt in server.ts).
THEOREM RefusalIsEarned == AdmissionSpec => []RefusedOnlyWhenSpent
<1>1. LimiterInv => RefusedOnlyWhenSpent
  <2> DEFINE W(a) == {u \in startedAt[a]..now : now < startedAt[a] + Window}
  <2> SUFFICES ASSUME LimiterInv, NEW a \in Addresses, Limiter!Refused(a)
               PROVE  Total(admitted[a], W(a)) = MaxAttempts
    BY DEF RefusedOnlyWhenSpent, Limiter!RefusedOnlyWhenSpent, Limiter!AdmittedIn, Total
  <2> DEFINE k == Limiter!CurrentCount(a)
  <2>1. k >= MaxAttempts
    BY DEF Limiter!Refused
  <2>2. /\ BudgetOK(admitted[a], startedAt[a], k, now) /\ k \in Nat
        /\ k # 0 => now < startedAt[a] + Window
    BY SweptCount
  <2> HIDE DEF k
  <2>3. k = MaxAttempts /\ k # 0 /\ now < startedAt[a] + Window
    BY <2>1, <2>2, Clock DEF BudgetOK, BudgetType
  <2>4. Total(admitted[a], startedAt[a]..now) = MaxAttempts
    BY <2>2, <2>3 DEF BudgetOK, WindowOK
  <2>5. W(a) = startedAt[a]..now
    BY <2>3
  <2> HIDE DEF W
  <2> QED  BY <2>4, <2>5, Zenon
<1> QED  BY <1>1, LimiterInvAlways, PTL
=============================================================================
