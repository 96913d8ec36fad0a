------------------------- MODULE LeaseManagerProofs -------------------------
(***************************************************************************)
(* The plugin's lease manager, for any number of surfaces and callers, any *)
(* pairing window and any poll interval.  ManagerTypeOK and WindowOK hold  *)
(* throughout.  The promises that hold until two calls cross rest on       *)
(* Settled: an enrolment under way excludes every other call and belongs   *)
(* to the pairing the manager holds, and so does a renewal.                *)
(***************************************************************************)
EXTENDS LeaseManager, FiniteSetTheorems, TLAPS

Polling == {"poll", "claim", "sleep"}

Enrolment == [pc : {"idle", "pair"} \cup Polling, pair : Pairs \cup {NoPair},
              expires : Nat, left : Nat, wake : Nat]

Renewal == [pc : {"idle", "nonce", "lease"}, pair : Pairs \cup {NoPair}]

Lease == [pair : Pairs, expires : Nat]

ManagerTypeOK ==
  /\ now \in Nat
  /\ pairId \in Pairs \cup {NoPair}
  /\ consentPending \in BOOLEAN
  /\ lease \in Lease \cup {NoLease}
  /\ renewal \in Renewals \cup {NoRenewal}
  /\ enrol \in [Surfaces -> Enrolment]
  /\ renew \in [Renewals -> Renewal]
  /\ issued \subseteq Pairs
  /\ leased \subseteq Pairs
  /\ persisted \in Pairs \cup {NoPair}
  /\ disk \in Pairs \cup {NoPair}
  /\ loggingOut \in BOOLEAN
  /\ crossed \in BOOLEAN
  /\ \A s \in Surfaces : enrol[s].pc \in Polling => enrol[s].pair \in Pairs
  /\ \A r \in Renewals : renew[r].pc # "idle" => renew[r].pair \in Pairs
  /\ \A s \in Surfaces : enrol[s].pc = "claim" => enrol[s].left > 0

\* The attempts a polling loop has left reach to the end of its window, counted
\* from now or, while it sleeps, from when its timer fires.
Reaches(t, e) == t + e.left * PollInterval >= e.expires

WindowOK ==
  \A s \in Surfaces :
    /\ enrol[s].pc \in Polling => enrol[s].expires <= Horizon
    /\ enrol[s].pc \in {"poll", "claim"} => Reaches(now, enrol[s])
    /\ enrol[s].pc = "sleep" => Reaches(enrol[s].wake, enrol[s])

\* Until calls cross: what the manager holds, and for whom a call works.
EnrolOK(s) ==
  /\ enrol[s].pc # "idle" => \A t \in Surfaces : enrol[t].pc # "idle" => t = s
  /\ enrol[s].pc # "idle" => \A r \in Renewals : renew[r].pc = "idle"
  /\ enrol[s].pc # "idle" => lease = NoLease
  /\ enrol[s].pc = "pair" => pairId = NoPair /\ ~consentPending
  /\ enrol[s].pc \in Polling => enrol[s].pair = pairId /\ consentPending

RenewOK(r) ==
  renew[r].pc # "idle" => renewal = r /\ renew[r].pair = pairId /\ ~consentPending

HeldOK ==
  /\ lease # NoLease => lease.pair = pairId /\ ~consentPending
  /\ pairId # NoPair /\ ~consentPending => pairId \in leased
  /\ {persisted, disk} \ {NoPair} \subseteq leased

Settled ==
  /\ \A s \in Surfaces : EnrolOK(s)
  /\ \A r \in Renewals : RenewOK(r)
  /\ HeldOK

SettledUnlessCrossed == ~crossed => Settled

ManagerInv ==
  ManagerTypeOK /\ WindowOK /\ ConsentPendingIsPolled /\ SettledUnlessCrossed

-----------------------------------------------------------------------------
(* Arithmetic of the attempt budget *)

\* ceil(window / interval) + 1 attempts, an interval apart, outlast the window.
LEMMA BudgetCovers ==
  ASSUME ManagerAssumption, NEW window \in Nat
  PROVE  MaxAttempts(window) \in Nat /\ MaxAttempts(window) * PollInterval >= window
<1> DEFINE k == (window + PollInterval - 1) \div PollInterval
<1>1. PollInterval \in Nat /\ PollInterval > 0
  BY DEF ManagerAssumption
<1>2. k \in Nat
  BY <1>1
<1>3. k * PollInterval + PollInterval > window + PollInterval - 1
  BY <1>1
<1>4. (k + 1) * PollInterval = k * PollInterval + PollInterval
  BY <1>1, <1>2
<1> QED BY <1>1, <1>2, <1>3, <1>4 DEF MaxAttempts

\* One attempt less is one interval less.
LEMMA OneAttempt ==
  ASSUME NEW left \in Nat, left > 0, NEW i \in Nat
  PROVE  (left - 1) * i = left * i - i
OBVIOUS

-----------------------------------------------------------------------------
(* Types *)

LEMMA IdleTypes ==
  /\ IdleEnrol \in Enrolment /\ IdleEnrol.pc = "idle"
  /\ IdleRenew \in Renewal /\ IdleRenew.pc = "idle"
BY DEF IdleEnrol, IdleRenew, Enrolment, Renewal, Polling

\* One surface's call moves to e.
LEMMA EnrolStepType ==
  ASSUME ManagerTypeOK, NEW s \in Surfaces, NEW e \in Enrolment, EnrolStep(s, e),
         e.pc \in Polling => e.pair \in Pairs, e.pc = "claim" => e.left > 0
  PROVE  /\ enrol' \in [Surfaces -> Enrolment] /\ renew' \in [Renewals -> Renewal]
         /\ \A t \in Surfaces : enrol'[t].pc \in Polling => enrol'[t].pair \in Pairs
         /\ \A r \in Renewals : renew'[r].pc # "idle" => renew'[r].pair \in Pairs
         /\ \A t \in Surfaces : enrol'[t].pc = "claim" => enrol'[t].left > 0
BY DEF ManagerTypeOK, EnrolStep

LEMMA RenewStepType ==
  ASSUME ManagerTypeOK, NEW r \in Renewals, NEW e \in Renewal, RenewStep(r, e),
         e.pc # "idle" => e.pair \in Pairs
  PROVE  /\ enrol' \in [Surfaces -> Enrolment] /\ renew' \in [Renewals -> Renewal]
         /\ \A t \in Surfaces : enrol'[t].pc \in Polling => enrol'[t].pair \in Pairs
         /\ \A q \in Renewals : renew'[q].pc # "idle" => renew'[q].pair \in Pairs
         /\ \A t \in Surfaces : enrol'[t].pc = "claim" => enrol'[t].left > 0
BY DEF ManagerTypeOK, RenewStep

LEMMA SetUpDriveType ==
  ASSUME NEW p \in Pairs \cup {NoPair}, SetUpDrive(p)
  PROVE  /\ enrol' \in [Surfaces -> Enrolment] /\ renew' \in [Renewals -> Renewal]
         /\ \A t \in Surfaces : enrol'[t].pc = "idle"
         /\ \A q \in Renewals : renew'[q].pc = "idle"
         /\ pairId' = p /\ consentPending' = FALSE /\ lease' = NoLease
         /\ renewal' = NoRenewal
BY IdleTypes DEF SetUpDrive

\* Where the calls of surface s go.
EnrolTarget(s, e) ==
  /\ EnrolStep(s, e) /\ e \in Enrolment
  /\ e.pc \in Polling => e.pair \in Pairs
  /\ e.pc = "claim" => e.left > 0

LEMMA EnrolTargets ==
  ASSUME ManagerAssumption, ManagerTypeOK, NEW s \in Surfaces
  PROVE  /\ Enroll(s) => EnrolTarget(s, [IdleEnrol EXCEPT !.pc = "pair"])
         /\ PairFailed(s) \/ GiveUp(s) \/ ClaimFailed(s) => EnrolTarget(s, IdleEnrol)
         /\ \A ttl \in LeaseTtls : ClaimReplied(s, ttl) => EnrolTarget(s, IdleEnrol)
         /\ \A p \in Pairs : PairReplied(s, p) =>
              EnrolTarget(s, [pc |-> "poll", pair |-> p, expires |-> now + PairTtl,
                              left |-> MaxAttempts(PairTtl), wake |-> 0])
         /\ SendClaim(s) => EnrolTarget(s, [enrol[s] EXCEPT !.pc = "claim"])
         /\ ClaimNotYet(s) =>
              EnrolTarget(s, [enrol[s] EXCEPT !.pc = "sleep", !.left = @ - 1,
                                              !.wake = Timer(PollInterval)])
         /\ Awake(s) => EnrolTarget(s, [enrol[s] EXCEPT !.pc = "poll"])
<1> USE DEF ManagerTypeOK, Enrolment, Polling, EnrolTarget
<1>1. Enroll(s) => EnrolTarget(s, [IdleEnrol EXCEPT !.pc = "pair"])
  BY DEF Enroll, IdleEnrol
<1>2. /\ PairFailed(s) \/ GiveUp(s) \/ ClaimFailed(s) => EnrolTarget(s, IdleEnrol)
      /\ \A ttl \in LeaseTtls : ClaimReplied(s, ttl) => EnrolTarget(s, IdleEnrol)
  BY IdleTypes DEF PairFailed, GiveUp, ClaimFailed, ClaimReplied
<1>3. ASSUME NEW p \in Pairs, PairReplied(s, p)
      PROVE  EnrolTarget(s, [pc |-> "poll", pair |-> p, expires |-> now + PairTtl,
                             left |-> MaxAttempts(PairTtl), wake |-> 0])
  BY <1>3, BudgetCovers DEF PairReplied, ManagerAssumption
<1>4. SendClaim(s) => EnrolTarget(s, [enrol[s] EXCEPT !.pc = "claim"])
  BY DEF SendClaim, PollGoesOn
<1>5. ClaimNotYet(s) =>
              EnrolTarget(s, [enrol[s] EXCEPT !.pc = "sleep", !.left = @ - 1,
                                              !.wake = Timer(PollInterval)])
  <2> SUFFICES ASSUME ClaimNotYet(s)
               PROVE  EnrolTarget(s, [enrol[s] EXCEPT !.pc = "sleep", !.left = @ - 1,
                                                      !.wake = Timer(PollInterval)])
    OBVIOUS
  <2>1. Timer(PollInterval) \in Nat
    BY DEF Timer, ManagerAssumption
  <2>2. enrol[s].pc = "claim" /\ enrol[s].left \in Nat /\ enrol[s].left - 1 \in Nat
    BY DEF ClaimNotYet
  <2>3. \A e \in Enrolment, l, w \in Nat :
            LET f == [e EXCEPT !.pc = "sleep", !.left = l, !.wake = w]
            IN  f \in Enrolment /\ f.pc = "sleep" /\ f.pair = e.pair
    OBVIOUS
  <2> QED BY <2>1, <2>2, <2>3 DEF ClaimNotYet
<1>6. Awake(s) => EnrolTarget(s, [enrol[s] EXCEPT !.pc = "poll"])
  BY DEF Awake
<1> QED BY <1>1, <1>2, <1>3, <1>4, <1>5, <1>6

LEMMA PersistType ==
  ASSUME ManagerTypeOK, pairId' \in Pairs \cup {NoPair}
  PROVE  Emit \/ Save => persisted' \in Pairs \cup {NoPair}
BY DEF ManagerTypeOK, Emit, Save, ToPersistedEnrollment

LEMMA NextManagerType ==
  ASSUME ManagerAssumption, ManagerTypeOK, [Next]_vars PROVE ManagerTypeOK'
<1> DEFINE TasksOK ==
      /\ enrol' \in [Surfaces -> Enrolment] /\ renew' \in [Renewals -> Renewal]
      /\ \A t \in Surfaces : enrol'[t].pc \in Polling => enrol'[t].pair \in Pairs
      /\ \A q \in Renewals : renew'[q].pc # "idle" => renew'[q].pair \in Pairs
      /\ \A t \in Surfaces : enrol'[t].pc = "claim" => enrol'[t].left > 0
      RestOK ==
      /\ now' \in Nat
      /\ pairId' \in Pairs \cup {NoPair}
      /\ consentPending' \in BOOLEAN
      /\ lease' \in Lease \cup {NoLease}
      /\ renewal' \in Renewals \cup {NoRenewal}
      /\ issued' \subseteq Pairs
      /\ leased' \subseteq Pairs
      /\ persisted' \in Pairs \cup {NoPair}
      /\ disk' \in Pairs \cup {NoPair}
      /\ loggingOut' \in BOOLEAN
      /\ crossed' \in BOOLEAN
<1>0. SUFFICES TasksOK /\ RestOK
  BY Zenon DEF ManagerTypeOK
<1>1. ASSUME NEW s \in Surfaces, NEW e, EnrolTarget(s, e) PROVE TasksOK
  BY <1>1, EnrolStepType DEF EnrolTarget
<1>2. ASSUME NEW s \in Surfaces, Enroll(s) \/ PairFailed(s) \/ SendClaim(s)
             \/ ClaimNotYet(s) \/ Awake(s)
      PROVE  TasksOK /\ RestOK
  <2>1. TasksOK
    BY <1>1, <1>2, EnrolTargets
  <2>2. RestOK
    BY <1>2 DEF Enroll, PairFailed, SendClaim, ClaimNotYet, Awake, manager, ManagerTypeOK
  <2> QED BY <2>1, <2>2
<1>3. ASSUME NEW s \in Surfaces, GiveUp(s) \/ ClaimFailed(s) PROVE TasksOK /\ RestOK
  <2>1. TasksOK
    BY <1>1, <1>3, EnrolTargets
  <2>2. RestOK
    BY <1>3, PersistType, IdleTypes
       DEF GiveUp, ClaimFailed, Clear, Forget, ManagerTypeOK
  <2> QED BY <2>1, <2>2
<1>4. ASSUME NEW s \in Surfaces, NEW p \in Pairs, PairReplied(s, p)
      PROVE  TasksOK /\ RestOK
  <2>1. TasksOK
    BY <1>1, <1>4, EnrolTargets
  <2>2. RestOK
    BY <1>4, PersistType DEF PairReplied, ManagerTypeOK
  <2> QED BY <2>1, <2>2
<1>5. ASSUME NEW s \in Surfaces, NEW ttl \in LeaseTtls, ClaimReplied(s, ttl)
      PROVE  TasksOK /\ RestOK
  <2>1. TasksOK
    BY <1>1, <1>5, EnrolTargets
  <2>2. enrol[s].pair \in Pairs /\ ttl \in Nat
    BY <1>5 DEF ClaimReplied, ManagerTypeOK, Polling, ManagerAssumption
  <2>3. LET l == [pair |-> enrol[s].pair, expires |-> now + ttl]
        IN  lease' = l /\ l \in Lease
    BY <1>5, <2>2 DEF ClaimReplied, ApplyLease, ManagerTypeOK, Lease
  <2>4. RestOK
    BY <1>5, <2>2, <2>3, PersistType DEF ClaimReplied, ApplyLease, ManagerTypeOK
  <2> QED BY <2>1, <2>4
<1>6. ASSUME NEW r \in Renewals, NEW e \in Renewal, RenewStep(r, e),
             e.pc # "idle" => e.pair \in Pairs
      PROVE  TasksOK
  BY <1>6, RenewStepType
<1>7. ASSUME NEW r \in Renewals, RefreshLease(r) PROVE TasksOK /\ RestOK
  <2>1. /\ RenewStep(r, [pc |-> "nonce", pair |-> pairId]) /\ pairId \in Pairs
        /\ [pc |-> "nonce", pair |-> pairId] \in Renewal
    BY <1>7 DEF RefreshLease, ManagerTypeOK, Renewal
  <2>2. RestOK
    BY <1>7 DEF RefreshLease, ManagerTypeOK
  <2> QED BY <1>6, <2>1, <2>2
<1>8. ASSUME NEW r \in Renewals, NonceReplied(r) PROVE TasksOK /\ RestOK
  <2>1. [renew[r] EXCEPT !.pc = "lease"] \in Renewal /\ renew[r].pair \in Pairs
        /\ [renew[r] EXCEPT !.pc = "lease"].pair = renew[r].pair
    BY <1>8 DEF NonceReplied, ManagerTypeOK, Renewal
  <2>2. RestOK
    BY <1>8 DEF NonceReplied, ManagerTypeOK, manager
  <2> QED BY <1>6, <1>8, <2>1, <2>2 DEF NonceReplied
<1>9. ASSUME NEW r \in Renewals, RenewalRefused(r) \/ RenewalFailed(r)
      PROVE  TasksOK /\ RestOK
  <2>1. TasksOK
    BY <1>6, <1>9, IdleTypes DEF RenewalRefused, RenewalFailed
  <2>2. RestOK
    BY <1>9, PersistType, IdleTypes
       DEF RenewalRefused, RenewalFailed, Clear, Forget, ManagerTypeOK
  <2> QED BY <2>1, <2>2
<1>10. ASSUME NEW r \in Renewals, NEW ttl \in LeaseTtls, LeaseReplied(r, ttl)
       PROVE  TasksOK /\ RestOK
  <2>1. TasksOK
    BY <1>6, <1>10, IdleTypes DEF LeaseReplied
  <2>2. renew[r].pair \in Pairs /\ ttl \in Nat
    BY <1>10 DEF LeaseReplied, ManagerTypeOK, ManagerAssumption
  <2>3. LET l == [pair |-> renew[r].pair, expires |-> now + ttl]
        IN  lease' = l /\ l \in Lease
    BY <1>10, <2>2 DEF LeaseReplied, ApplyLease, ManagerTypeOK, Lease
  <2>4. RestOK
    BY <1>10, <2>2, <2>3, PersistType DEF LeaseReplied, ApplyLease, ManagerTypeOK
  <2> QED BY <2>1, <2>4
<1>11. CASE ReplaceManager \/ LogoutRebuilds \/ Restart
  <2>1. PICK p \in Pairs \cup {NoPair} : SetUpDrive(p)
    BY <1>11 DEF ReplaceManager, LogoutRebuilds, Restart, ManagerTypeOK
  <2>2. TasksOK
    BY <2>1, SetUpDriveType DEF Polling
  <2>3. RestOK
    BY <1>11, <2>1, SetUpDriveType, IdleTypes, PersistType
       DEF ReplaceManager, LogoutRebuilds, Restart, ManagerTypeOK
  <2> QED BY <2>2, <2>3
<1>12. CASE LogoutClears
  <2>1. TasksOK
    BY <1>12 DEF LogoutClears, tasks, ManagerTypeOK
  <2>2. crossed' \in BOOLEAN
    BY <1>12 DEF LogoutClears, CallsOpen
  <2>3. RestOK
    BY <1>12, <2>2, IdleTypes DEF LogoutClears, Forget, ManagerTypeOK
  <2> QED BY <2>1, <2>3
<1>13. CASE LogoutFails \/ Flush \/ Tick \/ UNCHANGED vars
  <2>1. TasksOK
    BY <1>13 DEF LogoutFails, Flush, Tick, vars, tasks, ManagerTypeOK
  <2> USE DEF manager, ManagerTypeOK
  <2>2. CASE LogoutFails
    BY <2>1, <2>2 DEF LogoutFails
  <2>3. CASE Flush
    BY <2>1, <2>3 DEF Flush
  <2>4. CASE Tick
    BY <2>1, <2>4 DEF Tick
  <2>5. CASE UNCHANGED vars
    BY <2>1, <2>5 DEF vars
  <2> QED BY <1>13, <2>2, <2>3, <2>4, <2>5
<1> QED BY <1>2, <1>3, <1>4, <1>5, <1>7, <1>8, <1>9, <1>10, <1>11, <1>12, <1>13
        DEF Next, EnrolNext, RenewNext

-----------------------------------------------------------------------------
(* The window and the consent *)

\* A step that leaves the other surfaces' calls alone keeps their windows.
LEMMA EnrolStepWindow ==
  ASSUME ManagerTypeOK, WindowOK, NEW s \in Surfaces, NEW e, EnrolStep(s, e), UNCHANGED now,
         e.pc \in Polling => e.expires <= Horizon,
         e.pc \in {"poll", "claim"} => Reaches(now, e),
         e.pc = "sleep" => Reaches(e.wake, e)
  PROVE  WindowOK'
BY DEF ManagerTypeOK, WindowOK, EnrolStep, Reaches

\* Each attempt spends one and waits one interval; a timer that the bound on the
\* clock caps fires when the window is closed.
LEMMA NextWindow ==
  ASSUME ManagerAssumption, ManagerTypeOK, WindowOK, [Next]_vars PROVE WindowOK'
<1> USE DEF Polling
<1>0. PollInterval \in Nat /\ PairTtl \in Nat /\ Horizon \in Nat
  BY DEF ManagerAssumption
<1>1. ASSUME NEW s \in Surfaces, NEW e, EnrolStep(s, e), UNCHANGED now,
             e.pc \in {"idle", "pair"}
      PROVE  WindowOK'
  BY <1>1, EnrolStepWindow
<1>2. ASSUME NEW s \in Surfaces, Enroll(s) PROVE WindowOK'
  <2>1. [IdleEnrol EXCEPT !.pc = "pair"].pc = "pair"
    BY DEF IdleEnrol
  <2> QED BY <1>1, <1>2, <2>1 DEF Enroll
<1>3. ASSUME NEW s \in Surfaces, PairFailed(s) \/ GiveUp(s) \/ ClaimFailed(s)
      PROVE  WindowOK'
  BY <1>1, <1>3, IdleTypes DEF PairFailed, GiveUp, ClaimFailed
<1>4. ASSUME NEW s \in Surfaces, NEW ttl \in LeaseTtls, ClaimReplied(s, ttl)
      PROVE  WindowOK'
  BY <1>1, <1>4, IdleTypes DEF ClaimReplied
<1>5. ASSUME NEW s \in Surfaces, NEW p \in Pairs, PairReplied(s, p) PROVE WindowOK'
  <2> DEFINE e == [pc |-> "poll", pair |-> p, expires |-> now + PairTtl,
                   left |-> MaxAttempts(PairTtl), wake |-> 0]
  <2>1. EnrolStep(s, e) /\ UNCHANGED now /\ now + PairTtl <= Horizon
    BY <1>5 DEF PairReplied
  <2>2. Reaches(now, e)
    <3>1. now \in Nat /\ MaxAttempts(PairTtl) * PollInterval >= PairTtl
          /\ MaxAttempts(PairTtl) \in Nat
      BY <1>0, BudgetCovers DEF ManagerTypeOK
    <3> DEFINE m == MaxAttempts(PairTtl) * PollInterval
    <3>2. m \in Int /\ m >= PairTtl
      BY <3>1, <1>0
    <3> HIDE DEF m
    <3>3. now + m >= now + PairTtl
      BY <3>1, <3>2, <1>0
    <3> QED BY <3>3 DEF Reaches, m
  <2> QED BY <2>1, <2>2, EnrolStepWindow
<1>6. ASSUME NEW s \in Surfaces, SendClaim(s) \/ Awake(s) PROVE WindowOK'
  <2> DEFINE e == enrol[s]
  <2>1. PICK c \in {"claim", "poll"} :
          /\ EnrolStep(s, [e EXCEPT !.pc = c]) /\ UNCHANGED now
          /\ e.pc \in Polling /\ (e.pc = "sleep" => now >= e.wake)
    BY <1>6 DEF SendClaim, Awake, manager
  <2>2. /\ e \in Enrolment /\ e.left \in Nat /\ e.expires \in Nat /\ e.wake \in Nat
        /\ now \in Nat /\ e.left * PollInterval \in Nat
    BY <1>0 DEF ManagerTypeOK, Enrolment
  <2>3. e.expires <= Horizon /\ Reaches(now, e)
    <3>1. CASE e.pc \in {"poll", "claim"}
      BY <3>1 DEF WindowOK
    <3>2. CASE e.pc = "sleep"
      <4> DEFINE m == e.left * PollInterval
      <4>1. e.wake + m >= e.expires /\ now >= e.wake /\ m \in Nat
        BY <2>1, <2>2, <3>2 DEF WindowOK, Reaches
      <4> HIDE DEF m
      <4>2. now + m >= e.expires
        BY <2>2, <4>1
      <4> QED BY <3>2, <4>2 DEF Reaches, m, WindowOK
    <3> QED BY <2>1, <3>1, <3>2
  <2>4. LET f == [e EXCEPT !.pc = c]
        IN  f.pc = c /\ f.left = e.left /\ f.expires = e.expires
    BY <2>2 DEF Enrolment
  <2>5. Reaches(now, [e EXCEPT !.pc = c])
    BY <2>3, <2>4 DEF Reaches
  <2> QED BY <2>1, <2>3, <2>4, <2>5, EnrolStepWindow
<1>7. ASSUME NEW s \in Surfaces, ClaimNotYet(s) PROVE WindowOK'
  <2> DEFINE e == enrol[s]
             f == [e EXCEPT !.pc = "sleep", !.left = @ - 1, !.wake = Timer(PollInterval)]
  <2>1. EnrolStep(s, f) /\ UNCHANGED now /\ e.pc = "claim"
    BY <1>7 DEF ClaimNotYet
  <2>2. /\ e \in Enrolment /\ e.left \in Nat /\ e.left > 0 /\ e.expires \in Nat
        /\ now \in Nat /\ e.expires <= Horizon /\ now + e.left * PollInterval >= e.expires
    BY <2>1 DEF ManagerTypeOK, Enrolment, WindowOK, Reaches
  <2>3. \A d \in Enrolment, l, w \in Nat :
            LET g == [d EXCEPT !.pc = "sleep", !.left = l, !.wake = w]
            IN  g.pc = "sleep" /\ g.left = l /\ g.wake = w /\ g.expires = d.expires
    BY DEF Enrolment
  <2>4. Timer(PollInterval) \in Nat /\ e.left - 1 \in Nat
    BY <1>0, <2>2 DEF Timer
  <2>5. /\ f.pc = "sleep" /\ f.left = e.left - 1 /\ f.wake = Timer(PollInterval)
        /\ f.expires = e.expires
    BY <2>2, <2>3, <2>4
  <2>6. Timer(PollInterval) + (e.left - 1) * PollInterval >= e.expires
    <3> DEFINE m == e.left * PollInterval
               k == (e.left - 1) * PollInterval
    <3>1. k = m - PollInterval /\ m \in Int
      BY <1>0, <2>2, OneAttempt
    <3>2. k \in Nat
      BY <1>0, <2>4
    <3>3. now + m >= e.expires
      BY <2>2
    <3> HIDE DEF m, k
    <3>4. Timer(PollInterval) + k >= e.expires
      BY <1>0, <2>2, <3>1, <3>2, <3>3 DEF Timer
    <3> QED BY <3>4 DEF k
  <2>7. Reaches(f.wake, f)
    BY <2>5, <2>6 DEF Reaches
  <2> QED BY <2>1, <2>2, <2>5, <2>7, EnrolStepWindow
<1>8. CASE UNCHANGED <<now, enrol>>
  BY <1>8 DEF WindowOK, Reaches
<1>9. ASSUME NEW r \in Renewals, RefreshLease(r) \/ RenewNext(r) PROVE WindowOK'
  BY <1>8, <1>9 DEF RefreshLease, RenewNext, NonceReplied, RenewalRefused, RenewalFailed,
                    LeaseReplied, RenewStep
<1>10. CASE ReplaceManager \/ LogoutRebuilds \/ Restart
  <2>1. \A s \in Surfaces : enrol'[s].pc = "idle"
    BY <1>10, IdleTypes DEF ReplaceManager, LogoutRebuilds, Restart, SetUpDrive
  <2> QED BY <2>1 DEF WindowOK
<1>11. CASE LogoutClears \/ LogoutFails \/ Flush \/ UNCHANGED vars
  BY <1>8, <1>11 DEF LogoutClears, LogoutFails, Flush, vars, tasks
<1>12. CASE Tick
  <2>1. \A s \in Surfaces :
          /\ enrol'[s] = enrol[s] /\ enrol[s].left * PollInterval \in Nat
          /\ enrol[s].expires \in Nat
    BY <1>0, <1>12 DEF Tick, tasks, ManagerTypeOK, Enrolment
  <2>2. now' = now + 1 /\ now \in Nat
    BY <1>12 DEF Tick, ManagerTypeOK
  <2>3. \A m, x \in Nat : now + m >= x => now' + m >= x
    BY <2>2
  <2> QED BY <2>1, <2>3 DEF WindowOK, Reaches
<1> QED BY <1>2, <1>3, <1>4, <1>5, <1>6, <1>7, <1>9, <1>10, <1>11, <1>12
        DEF Next, EnrolNext

\* A call leaves the polling loop only in a step that also ends the waiting,
\* whichever pairing that was.
LEMMA NextConsent ==
  ASSUME ManagerAssumption, ManagerTypeOK, ConsentPendingIsPolled, [Next]_vars
  PROVE  ConsentPendingIsPolled'
<1> USE DEF ConsentPendingIsPolled, Polling
<1>1. CASE ~consentPending'
  BY <1>1
<1>2. CASE UNCHANGED <<consentPending, enrol>>
  BY <1>2
<1>3. ASSUME NEW s \in Surfaces, Enroll(s) \/ PairFailed(s) PROVE ConsentPendingIsPolled'
  <2>1. /\ enrol[s].pc \notin Polling /\ UNCHANGED consentPending
        /\ \A t \in Surfaces \ {s} : enrol'[t] = enrol[t]
    BY <1>3 DEF Enroll, PairFailed, EnrolStep, manager, ManagerTypeOK
  <2> QED BY <2>1
<1>4. ASSUME NEW s \in Surfaces, SendClaim(s) \/ ClaimNotYet(s) \/ Awake(s)
      PROVE  ConsentPendingIsPolled'
  <2>1. enrol[s] \in Enrolment /\ enrol \in [Surfaces -> Enrolment]
    BY DEF ManagerTypeOK
  <2>2. enrol'[s].pc \in Polling
    BY <1>4, <2>1 DEF SendClaim, ClaimNotYet, Awake, EnrolStep, Enrolment
  <2> QED BY <2>2
<1>5. ASSUME NEW s \in Surfaces, NEW p \in Pairs, PairReplied(s, p)
      PROVE  ConsentPendingIsPolled'
  <2>1. enrol'[s].pc = "poll"
    BY <1>5 DEF PairReplied, EnrolStep, ManagerTypeOK
  <2> QED BY <2>1
<1>6. ASSUME NEW s \in Surfaces, GiveUp(s) \/ ClaimFailed(s)
             \/ (\E ttl \in LeaseTtls : ClaimReplied(s, ttl))
      PROVE  ConsentPendingIsPolled'
  BY <1>1, <1>6 DEF GiveUp, ClaimFailed, ClaimReplied, ApplyLease, Clear, Forget
<1>7. ASSUME NEW r \in Renewals, RefreshLease(r) \/ RenewNext(r)
      PROVE  ConsentPendingIsPolled'
  <2>1. UNCHANGED enrol /\ (UNCHANGED consentPending \/ ~consentPending')
    BY <1>7 DEF RefreshLease, RenewNext, NonceReplied, RenewalRefused, RenewalFailed,
                LeaseReplied, ApplyLease, Clear, Forget, RenewStep, manager
  <2> QED BY <1>1, <1>2, <2>1
<1>8. CASE ReplaceManager \/ LogoutClears \/ LogoutRebuilds \/ Restart
  BY <1>1, <1>8 DEF ReplaceManager, LogoutClears, LogoutRebuilds, Restart, SetUpDrive, Forget
<1>9. CASE LogoutFails \/ Flush \/ Tick \/ UNCHANGED vars
  BY <1>2, <1>9 DEF LogoutFails, Flush, Tick, vars, manager, tasks
<1> QED BY <1>3, <1>4, <1>5, <1>6, <1>7, <1>8, <1>9 DEF Next, EnrolNext

-----------------------------------------------------------------------------
(* Until calls cross *)

\* What Settled says once every call is over.
LEMMA AllIdleSettled ==
  ASSUME \A s \in Surfaces : enrol[s].pc = "idle",
         \A r \in Renewals : renew[r].pc = "idle",
         HeldOK
  PROVE  Settled
BY DEF Settled, EnrolOK, RenewOK, Polling

\* An emission or a save writes a pairing that received a lease.
LEMMA PersistsLeased ==
  ASSUME ManagerTypeOK, HeldOK, Emit \/ Save, UNCHANGED disk, leased \subseteq leased',
         lease' # NoLease => ~consentPending',
         pairId' # NoPair /\ ~consentPending' => pairId' \in leased'
  PROVE  {persisted', disk'} \ {NoPair} \subseteq leased'
<1>1. persisted' \in {persisted, NoPair} \/ (persisted' = pairId' /\ ~consentPending')
  BY DEF Emit, Save, ToPersistedEnrollment, StatusOf
<1> QED BY <1>1 DEF HeldOK

\* crossed is never taken back.
LEMMA CrossedStays == ASSUME [Next]_vars, crossed PROVE crossed'
<1>1. ASSUME NEW s \in Surfaces, Enroll(s) \/ EnrolNext(s) PROVE crossed'
  BY Zenon, <1>1
     DEF Enroll, EnrolNext, PairFailed, SendClaim, GiveUp, ClaimNotYet, ClaimFailed, Awake,
         PairReplied, ClaimReplied
<1>2. ASSUME NEW r \in Renewals, RefreshLease(r) \/ RenewNext(r) PROVE crossed'
  BY Zenon, <1>2
     DEF RefreshLease, RenewNext, NonceReplied, RenewalRefused, RenewalFailed, LeaseReplied
<1>3. CASE UNCHANGED vars
  BY <1>3 DEF vars
<1>4. CASE ReplaceManager \/ LogoutClears \/ LogoutRebuilds \/ LogoutFails \/ Flush
           \/ Restart \/ Tick
  BY Zenon, <1>4 DEF ReplaceManager, LogoutClears, LogoutRebuilds, LogoutFails, Flush, Restart, Tick
<1> QED BY <1>1, <1>2, <1>3, <1>4 DEF Next

\* A surface offers the code field only while the manager holds nothing, and a
\* second enrolment is a crossing: a call that begins is alone.
LEMMA EnrollSettled ==
  ASSUME ManagerAssumption, ManagerTypeOK, Settled, NEW s \in Surfaces, Enroll(s), ~crossed'
  PROVE  Settled'
<1>1. \A t \in Surfaces : enrol[t].pc = "idle"
  BY Zenon DEF Enroll
<1>2. pairId = NoPair /\ lease = NoLease /\ ~consentPending
  <2>1. lease # NoLease => pairId # NoPair
    BY DEF Settled, HeldOK, Lease, ManagerTypeOK, ManagerAssumption
  <2>2. StatusOf # "awaiting_consent" /\ (StatusOf = "enrolled" => pairId = NoPair)
    BY DEF Enroll, CanEnroll
  <2> QED BY <2>1, <2>2 DEF StatusOf, ManagerTypeOK
<1>3. \A r \in Renewals : renew[r].pc = "idle"
  BY <1>2 DEF Settled, RenewOK, ManagerTypeOK, ManagerAssumption
<1>4. /\ enrol'[s].pc = "pair" /\ \A t \in Surfaces \ {s} : enrol'[t].pc = "idle"
      /\ UNCHANGED <<pairId, lease, consentPending, renewal, renew, leased, persisted, disk>>
  BY <1>1 DEF Enroll, EnrolStep, IdleEnrol, manager, ManagerTypeOK
<1> QED BY <1>1, <1>2, <1>3, <1>4 DEF Settled, EnrolOK, RenewOK, HeldOK, Polling

\* The answer to /oauth/pair: the manager holds the pairing that is polled for.
LEMMA PairRepliedSettled ==
  ASSUME ManagerAssumption, ManagerTypeOK, Settled, NEW s \in Surfaces, NEW p \in Pairs,
         PairReplied(s, p)
  PROVE  Settled'
<1>1. /\ \A t \in Surfaces \ {s} : enrol[t].pc = "idle"
      /\ \A r \in Renewals : renew[r].pc = "idle"
      /\ lease = NoLease
  BY DEF PairReplied, Settled, EnrolOK
<1>2. /\ enrol'[s].pc = "poll" /\ enrol'[s].pair = p
      /\ \A t \in Surfaces \ {s} : enrol'[t].pc = "idle"
      /\ pairId' = p /\ consentPending' = TRUE
      /\ UNCHANGED <<lease, renew, renewal, leased, disk>>
  BY <1>1 DEF PairReplied, EnrolStep, ManagerTypeOK
<1>3. {persisted', disk'} \ {NoPair} \subseteq leased'
  BY <1>1, <1>2, PersistsLeased DEF PairReplied, Settled
<1> QED BY <1>1, <1>2, <1>3 DEF Settled, EnrolOK, RenewOK, HeldOK, Polling

\* A polling call goes round its loop: nothing the manager holds changes.
LEMMA LoopSettled ==
  ASSUME ManagerTypeOK, Settled, NEW s \in Surfaces, SendClaim(s) \/ ClaimNotYet(s) \/ Awake(s)
  PROVE  Settled'
<1>1. /\ enrol[s].pc \in Polling /\ enrol[s] \in Enrolment
      /\ UNCHANGED <<pairId, lease, consentPending, renewal, renew, leased, persisted, disk>>
  BY DEF SendClaim, ClaimNotYet, Awake, EnrolStep, manager, ManagerTypeOK, Polling
<1>2. /\ enrol'[s].pc \in Polling /\ enrol'[s].pair = enrol[s].pair
      /\ \A t \in Surfaces \ {s} : enrol'[t] = enrol[t]
  <2>1. \A c, l, w : LET f == [enrol[s] EXCEPT !.pc = c, !.left = l, !.wake = w]
                          g == [enrol[s] EXCEPT !.pc = c]
                      IN  f.pc = c /\ g.pc = c /\ f.pair = enrol[s].pair
                          /\ g.pair = enrol[s].pair
    BY <1>1 DEF Enrolment
  <2> USE <2>1 DEF EnrolStep, ManagerTypeOK, Polling
  <2>2. CASE SendClaim(s)
    BY <2>2 DEF SendClaim
  <2>3. CASE ClaimNotYet(s)
    BY <2>3 DEF ClaimNotYet
  <2>4. CASE Awake(s)
    BY <2>4 DEF Awake
  <2> QED BY <2>2, <2>3, <2>4
<1> QED BY <1>1, <1>2 DEF Settled, EnrolOK, RenewOK, HeldOK, Polling

\* A call that ends was alone, so that nothing is under way after it.
LEMMA EnrolEndsSettled ==
  ASSUME ManagerAssumption, ManagerTypeOK, Settled, NEW s \in Surfaces,
         PairFailed(s) \/ GiveUp(s) \/ ClaimFailed(s)
           \/ \E ttl \in LeaseTtls : ClaimReplied(s, ttl)
  PROVE  Settled'
<1>1. enrol[s].pc # "idle" /\ enrol' = [enrol EXCEPT ![s] = IdleEnrol] /\ UNCHANGED renew
  BY DEF PairFailed, GiveUp, ClaimFailed, ClaimReplied, EnrolStep
<1>2. /\ \A t \in Surfaces : enrol'[t].pc = "idle"
      /\ \A r \in Renewals : renew'[r].pc = "idle"
  BY <1>1, IdleTypes DEF Settled, EnrolOK, ManagerTypeOK
<1>3. HeldOK'
  <2>1. CASE PairFailed(s)
    BY <2>1 DEF PairFailed, manager, Settled, HeldOK
  <2>2. CASE GiveUp(s) \/ ClaimFailed(s)
    <3>1. /\ pairId' = NoPair /\ consentPending' = FALSE /\ lease' = NoLease
          /\ UNCHANGED <<leased, disk>> /\ Emit
      BY <2>2 DEF GiveUp, ClaimFailed, Clear, Forget
    <3>2. {persisted', disk'} \ {NoPair} \subseteq leased'
      BY <3>1, PersistsLeased DEF Settled
    <3> QED BY <3>1, <3>2 DEF HeldOK
  <2>3. ASSUME NEW ttl \in LeaseTtls, ClaimReplied(s, ttl) PROVE HeldOK'
    <3>1. enrol[s].pair = pairId /\ pairId \in Pairs
      BY <2>3 DEF ClaimReplied, Settled, EnrolOK, Polling, ManagerTypeOK
    <3>2. /\ UNCHANGED <<pairId, disk>> /\ consentPending' = FALSE
          /\ lease'.pair = pairId /\ leased' = leased \cup {pairId} /\ Save
      BY <2>3, <3>1 DEF ClaimReplied, ApplyLease
    <3>3. {persisted', disk'} \ {NoPair} \subseteq leased'
      BY <3>2, PersistsLeased DEF Settled
    <3> QED BY <3>2, <3>3 DEF HeldOK
  <2> QED BY <2>1, <2>2, <2>3
<1> QED BY <1>2, <1>3, AllIdleSettled DEF Settled, EnrolOK, RenewOK, HeldOK, Polling

\* A renewal begins for the pairing the manager holds, when no call runs.
LEMMA RefreshSettled ==
  ASSUME ManagerAssumption, ManagerTypeOK, Settled, NEW r \in Renewals, RefreshLease(r)
  PROVE  Settled'
<1>1. ~consentPending /\ pairId # NoPair
  <2>1. StatusOf = "enrolled" /\ pairId # NoPair
    BY DEF RefreshLease
  <2> QED BY <2>1 DEF StatusOf, Settled, HeldOK, ManagerTypeOK
<1>2. \A q \in Renewals : renew[q].pc = "idle"
  BY DEF RefreshLease, MayStartRenewal, Settled, RenewOK, ManagerAssumption
<1>3. \A t \in Surfaces : enrol[t].pc = "idle"
  BY <1>1 DEF Settled, EnrolOK, ManagerTypeOK, Enrolment
<1>4. /\ renewal' = r /\ renew'[r].pair = pairId
      /\ \A q \in Renewals \ {r} : renew'[q].pc = "idle"
      /\ UNCHANGED <<pairId, lease, consentPending, enrol, leased, persisted, disk>>
  BY <1>2 DEF RefreshLease, RenewStep, ManagerTypeOK
<1> QED BY <1>1, <1>3, <1>4 DEF Settled, EnrolOK, RenewOK, HeldOK, Polling

LEMMA NonceSettled ==
  ASSUME ManagerTypeOK, Settled, NEW r \in Renewals, NonceReplied(r) PROVE Settled'
<1>1. /\ renew[r].pc # "idle" /\ renew'[r].pair = renew[r].pair
      /\ \A q \in Renewals \ {r} : renew'[q] = renew[q]
      /\ UNCHANGED <<pairId, lease, consentPending, renewal, enrol, leased, persisted, disk>>
  BY DEF NonceReplied, RenewStep, manager, ManagerTypeOK, Renewal
<1> QED BY <1>1 DEF Settled, EnrolOK, RenewOK, HeldOK, Polling

\* A renewal that ends was the only call, and the lease it brings is for the
\* pairing the manager still holds.
LEMMA RenewalEndsSettled ==
  ASSUME ManagerAssumption, ManagerTypeOK, Settled, NEW r \in Renewals,
         RenewalRefused(r) \/ RenewalFailed(r)
           \/ \E ttl \in LeaseTtls : LeaseReplied(r, ttl)
  PROVE  Settled'
<1>1. renew[r].pc # "idle" /\ renew' = [renew EXCEPT ![r] = IdleRenew] /\ UNCHANGED enrol
  BY DEF RenewalRefused, RenewalFailed, LeaseReplied, RenewStep
<1>2. /\ \A t \in Surfaces : enrol'[t].pc = "idle"
      /\ \A q \in Renewals : renew'[q].pc = "idle"
  <2>1. \A q \in Renewals \ {r} : renew[q].pc = "idle"
    BY <1>1 DEF Settled, RenewOK
  <2> QED BY <1>1, <2>1, IdleTypes DEF Settled, EnrolOK, ManagerTypeOK
<1>3. HeldOK'
  <2>1. CASE RenewalFailed(r)
    BY <2>1 DEF RenewalFailed, Settled, HeldOK
  <2>2. CASE RenewalRefused(r)
    <3>1. /\ pairId' = NoPair /\ consentPending' = FALSE /\ lease' = NoLease
          /\ UNCHANGED <<leased, disk>> /\ Emit
      BY <2>2 DEF RenewalRefused, Clear, Forget
    <3>2. {persisted', disk'} \ {NoPair} \subseteq leased'
      BY <3>1, PersistsLeased DEF Settled
    <3> QED BY <3>1, <3>2 DEF HeldOK
  <2>3. ASSUME NEW ttl \in LeaseTtls, LeaseReplied(r, ttl) PROVE HeldOK'
    <3>1. renew[r].pair = pairId /\ pairId \in Pairs
      BY <1>1 DEF Settled, RenewOK, ManagerTypeOK
    <3>2. /\ UNCHANGED <<pairId, disk>> /\ consentPending' = FALSE
          /\ lease'.pair = pairId /\ leased' = leased \cup {pairId} /\ Emit
      BY <2>3, <3>1 DEF LeaseReplied, ApplyLease
    <3>3. {persisted', disk'} \ {NoPair} \subseteq leased'
      BY <3>2, PersistsLeased DEF Settled
    <3> QED BY <3>2, <3>3 DEF HeldOK
  <2> QED BY <2>1, <2>2, <2>3
<1> QED BY <1>2, <1>3 DEF Settled, EnrolOK, RenewOK, Polling

\* A new manager starts from what is on disk, or from nothing.
LEMMA SetUpSettled ==
  ASSUME ManagerAssumption, ManagerTypeOK, Settled, ReplaceManager \/ LogoutRebuilds \/ Restart
  PROVE  Settled'
<1>1. PICK p \in {NoPair, disk} : SetUpDrive(p)
  BY DEF ReplaceManager, LogoutRebuilds, Restart
<1>2. UNCHANGED <<disk, leased>>
  BY DEF ReplaceManager, LogoutRebuilds, Restart
<1>3. /\ \A t \in Surfaces : enrol'[t].pc = "idle"
      /\ \A q \in Renewals : renew'[q].pc = "idle"
      /\ pairId' = p /\ consentPending' = FALSE /\ lease' = NoLease
  BY <1>1, SetUpDriveType DEF ManagerTypeOK
<1>4. pairId' # NoPair => pairId' \in leased'
  BY <1>2, <1>3 DEF Settled, HeldOK
<1>5. {persisted', disk'} \ {NoPair} \subseteq leased'
  <2>1. CASE ReplaceManager
    BY <1>2, <1>3, <1>4, <2>1, PersistsLeased DEF ReplaceManager, Settled
  <2>2. CASE LogoutRebuilds \/ Restart
    BY <1>2, <2>2 DEF LogoutRebuilds, Restart, Settled, HeldOK
  <2> QED BY <2>1, <2>2
<1> QED BY <1>3, <1>4, <1>5 DEF Settled, EnrolOK, RenewOK, HeldOK, Polling

\* A logout that does not cross a call finds none under way.
LEMMA LogoutSettled ==
  ASSUME Settled, LogoutClears, ~crossed' PROVE Settled'
<1>1. ~CallsOpen
  BY Zenon DEF LogoutClears
<1>2. /\ \A t \in Surfaces : enrol'[t].pc = "idle"
      /\ \A q \in Renewals : renew'[q].pc = "idle"
      /\ pairId' = NoPair /\ lease' = NoLease /\ persisted' = NoPair
      /\ UNCHANGED <<disk, leased>>
  BY <1>1 DEF LogoutClears, Forget, CallsOpen, tasks
<1> QED BY <1>2 DEF Settled, EnrolOK, RenewOK, HeldOK, Polling

LEMMA NextSettled ==
  ASSUME ManagerAssumption, ManagerTypeOK, SettledUnlessCrossed, [Next]_vars
  PROVE  SettledUnlessCrossed'
<1> SUFFICES ASSUME ~crossed' PROVE Settled'
  BY DEF SettledUnlessCrossed
<1>1. Settled
  BY CrossedStays DEF SettledUnlessCrossed
<1>2. CASE LogoutFails \/ Tick \/ Flush \/ UNCHANGED vars
  <2>1. /\ UNCHANGED <<pairId, lease, consentPending, renewal, enrol, renew, leased, persisted>>
        /\ disk' \in {disk, persisted}
    BY <1>2 DEF LogoutFails, Tick, Flush, vars, manager, tasks
  <2> QED BY <1>1, <2>1 DEF Settled, EnrolOK, RenewOK, HeldOK, Polling
<1> QED BY <1>1, <1>2, EnrollSettled, PairRepliedSettled, LoopSettled, EnrolEndsSettled,
           RefreshSettled, NonceSettled, RenewalEndsSettled, SetUpSettled, LogoutSettled
        DEF Next, EnrolNext, RenewNext

-----------------------------------------------------------------------------
LEMMA InitManager == ManagerAssumption /\ Init => ManagerInv
<1> SUFFICES ASSUME ManagerAssumption, Init PROVE ManagerInv
  OBVIOUS
<1>1. /\ \A s \in Surfaces : enrol[s].pc = "idle"
      /\ \A r \in Renewals : renew[r].pc = "idle"
  BY IdleTypes DEF Init
<1>2. ManagerTypeOK
  BY <1>1, IdleTypes DEF Init, ManagerTypeOK, Polling
<1>3. WindowOK /\ ConsentPendingIsPolled
  BY <1>1 DEF Init, WindowOK, ConsentPendingIsPolled, Polling
<1>4. HeldOK
  BY DEF Init, HeldOK
<1> QED BY <1>1, <1>2, <1>3, <1>4, AllIdleSettled DEF ManagerInv, SettledUnlessCrossed

LEMMA ManagerInductive == Spec => []ManagerInv
<1>1. ManagerInv /\ [Next]_vars => ManagerInv'
  BY ManagerAssumption, NextManagerType, NextWindow, NextConsent, NextSettled DEF ManagerInv
<1>2. Init => ManagerInv
  BY ManagerAssumption, InitManager
<1> QED BY <1>1, <1>2, PTL DEF Spec

-----------------------------------------------------------------------------
(* What the lease manager promises *)

\* "Waiting for Google consent" never outlives the last polling loop, however
\* many surfaces enrol, fail and clear at the same time.
THEOREM ConsentIsPolled == Spec => []ConsentPendingIsPolled
<1>1. ManagerInv => ConsentPendingIsPolled
  BY DEF ManagerInv
<1> QED BY <1>1, ManagerInductive, PTL

\* Whatever the window and the poll interval, claimUntilAuthorized does not run
\* out of attempts while the pairing can still be claimed.
THEOREM BudgetSuffices == Spec => []BudgetOutlastsWindow
<1>1. ManagerInv => BudgetOutlastsWindow
  <2> SUFFICES ASSUME ManagerInv, NEW s \in Surfaces, enrol[s].pc = "poll", enrol[s].left = 0
               PROVE  now >= enrol[s].expires
    BY DEF BudgetOutlastsWindow
  <2>1. now + 0 * PollInterval >= enrol[s].expires
    BY DEF ManagerInv, WindowOK, Reaches
  <2>2. now \in Nat /\ 0 * PollInterval = 0
    BY ManagerAssumption DEF ManagerAssumption, ManagerInv, ManagerTypeOK
  <2> QED BY <2>1, <2>2
<1> QED BY <1>1, ManagerInductive, PTL

\* A renewal that begins is the one stored, and one that ends leaves nothing stored.
LEMMA NextStoredRenewal ==
  ASSUME ManagerAssumption, ManagerTypeOK, StoredRenewalIsRunning, [Next]_vars
  PROVE  StoredRenewalIsRunning'
<1>1. ASSUME UNCHANGED <<renewal, renew>> PROVE StoredRenewalIsRunning'
  BY <1>1 DEF StoredRenewalIsRunning
<1>2. ASSUME renewal' = NoRenewal PROVE StoredRenewalIsRunning'
  BY <1>2 DEF StoredRenewalIsRunning
<1>3. ASSUME NEW s \in Surfaces, Enroll(s) \/ EnrolNext(s) PROVE StoredRenewalIsRunning'
  <2>1. renewal' = NoRenewal \/ UNCHANGED <<renewal, renew>>
    BY <1>3 DEF Enroll, EnrolNext, EnrolStep, PairFailed, SendClaim, GiveUp, ClaimNotYet,
       ClaimFailed, Awake, PairReplied, ClaimReplied, Clear, manager
  <2> QED  BY <1>1, <1>2, <2>1
<1>4. ASSUME NEW r \in Renewals, RefreshLease(r) PROVE StoredRenewalIsRunning'
  BY <1>4 DEF RefreshLease, RenewStep, ManagerTypeOK, StoredRenewalIsRunning
<1>5. ASSUME NEW r \in Renewals, NonceReplied(r) PROVE StoredRenewalIsRunning'
  <2>1. renew[r] \in Renewal /\ [renew[r] EXCEPT !.pc = "lease"].pc = "lease"
    BY DEF ManagerTypeOK, Renewal
  <2>2. renew' = [renew EXCEPT ![r] = [renew[r] EXCEPT !.pc = "lease"]] /\ UNCHANGED renewal
    BY <1>5 DEF NonceReplied, RenewStep, manager
  <2> QED  BY <2>1, <2>2 DEF ManagerTypeOK, StoredRenewalIsRunning
<1>6. ASSUME NEW r \in Renewals,
             RenewalRefused(r) \/ RenewalFailed(r) \/ \E ttl \in LeaseTtls : LeaseReplied(r, ttl)
      PROVE  StoredRenewalIsRunning'
  BY <1>2, <1>6 DEF RenewalRefused, RenewalFailed, LeaseReplied, Clear
<1>7. CASE ReplaceManager \/ LogoutClears \/ LogoutRebuilds \/ Restart
  BY <1>2, <1>7 DEF ReplaceManager, LogoutClears, LogoutRebuilds, Restart, SetUpDrive
<1>8. CASE LogoutFails \/ Flush \/ Tick \/ UNCHANGED vars
  BY <1>1, <1>8 DEF LogoutFails, Flush, Tick, vars, manager, tasks
<1> QED  BY <1>3, <1>4, <1>5, <1>6, <1>7, <1>8 DEF Next, RenewNext

\* However calls cross and whatever clear() forgets meanwhile, the promise that
\* refreshLease() shares is of a renewal still under way.
THEOREM NoStaleRenewal == Spec => []StoredRenewalIsRunning
<1>1. Init => StoredRenewalIsRunning
  BY DEF Init, StoredRenewalIsRunning
<1>2. ManagerInv /\ StoredRenewalIsRunning /\ [Next]_vars => StoredRenewalIsRunning'
  BY ManagerAssumption, NextStoredRenewal DEF ManagerInv
<1> QED BY <1>1, <1>2, ManagerInductive, PTL DEF Spec

\* Until two calls cross, any number of callers share one renewal.
THEOREM RenewalShared == Spec => []SharedRenewal
<1>1. ManagerInv => SharedRenewal
  <2> SUFFICES ASSUME ManagerInv, ~crossed
               PROVE  Cardinality({r \in Renewals : renew[r].pc # "idle"}) <= 1
    BY DEF SharedRenewal
  <2> DEFINE Running == {r \in Renewals : renew[r].pc # "idle"}
  <2>1. \A r \in Running : r = renewal
    BY DEF ManagerInv, SettledUnlessCrossed, Settled, RenewOK
  <2>2. Running = {} \/ Running = {renewal}
    BY <2>1
  <2>3. Cardinality({}) = 0 /\ Cardinality({renewal}) = 1
    BY FS_EmptySet, FS_Singleton
  <2>4. Cardinality(Running) \in {0, 1}
    <3> HIDE DEF Running
    <3> QED BY <2>2, <2>3
  <2> QED BY <2>4
<1> QED BY <1>1, ManagerInductive, PTL

\* Until two calls cross, plugin data names only a pairing that had a lease,
\* through restarts, refused renewals and logouts whose write fails.
THEOREM PersistedPairingHadLease == Spec => []PersistedHadLease
<1>1. ManagerInv => PersistedHadLease
  BY DEF ManagerInv, SettledUnlessCrossed, Settled, HeldOK, PersistedHadLease
<1> QED BY <1>1, ManagerInductive, PTL
=============================================================================
