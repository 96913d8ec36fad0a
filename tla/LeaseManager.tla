---------------------------- MODULE LeaseManager ----------------------------
(***************************************************************************)
(* The plugin's LeaseManager (src/src/auth/lease-manager.ts) with the two  *)
(* surfaces that start an enrolment (settings tab and browser view), the   *)
(* callers that need a token, and the snapshot each emission hands to the  *)
(* settings write queue (src/src/main.ts).                                 *)
(*                                                                         *)
(* Every `await` on the broker is a point where other callbacks run, so an *)
(* operation is a sequence of steps: one step is the code between two      *)
(* awaits.  The broker is seen through the replies it can give; time is    *)
(* the shared clock `now`, and the access token lives and dies with        *)
(* `lease` (applyLease and clear write them together).                     *)
(***************************************************************************)
EXTENDS Naturals, FiniteSets

CONSTANTS
  Pairs,         \* pair ids the broker can hand out
  NoPair,        \* null
  Surfaces,      \* user interface surfaces that can start an enrolment
  Renewals,      \* renewal promises that can be alive at once
  NoRenewal,     \* this.renewal === null
  PairTtl,       \* pairing window granted by /oauth/pair
  PollInterval,  \* claimPollIntervalMs
  LeaseTtls,     \* lifetimes the broker seals into a lease
  RenewalLead,   \* renewalLeadMs
  MaxLogouts,    \* bound on logouts
  Horizon        \* bound on the clock

ASSUME ManagerAssumption ==
  /\ NoPair \notin Pairs
  /\ NoRenewal \notin Renewals
  /\ PairTtl \in Nat \ {0} /\ PollInterval \in Nat \ {0}
  /\ LeaseTtls \subseteq Nat /\ RenewalLead \in Nat /\ Horizon \in Nat
  /\ MaxLogouts \in Nat

VARIABLES
  now,
  pairId, consentPending,
  lease,       \* NoLease, or the pair it was minted for and its expiry
  renewal,     \* the promise refreshLease shares, or NoRenewal
  enrol,       \* per surface, where its enroll() call stands
  renew,       \* per renewal, where its performRenewal() call stands
  issued,      \* pair ids the broker has handed out
  leased,      \* history: pairs a lease was received for
  persisted,   \* enrolment snapshot of the newest queued settings write
  disk,        \* enrolment in the plugin data file
  loggingOut,  \* logoutInProgress: clear() done, the manager not yet replaced
  logouts,     \* logouts so far
  crossed      \* history: two enroll() calls, or a call and a logout, overlapped

manager == <<pairId, consentPending, lease, renewal>>
tasks   == <<enrol, renew>>
vars    == <<now, manager, tasks, issued, leased, persisted, disk,
             loggingOut, logouts, crossed>>

NoLease   == [pair |-> NoPair, expires |-> 0]
IdleEnrol == [pc |-> "idle", pair |-> NoPair, expires |-> 0, left |-> 0, wake |-> 0]
IdleRenew == [pc |-> "idle", pair |-> NoPair]

StatusOf ==
  CASE lease # NoLease -> "enrolled"
    [] lease = NoLease /\ consentPending -> "awaiting_consent"
    [] lease = NoLease /\ ~consentPending ->
         IF pairId # NoPair THEN "enrolled" ELSE "not_enrolled"

HasValidLease == lease # NoLease /\ now + RenewalLead < lease.expires

\* describeBrowserState: what decides whether a surface offers the code field.
CanEnroll == /\ ~(StatusOf = "enrolled" /\ pairId # NoPair)
             /\ StatusOf # "awaiting_consent"

\* Plausible defect: a pairing still waiting for consent is persisted.
ToPersistedEnrollment_AnyPair == pairId

ToPersistedEnrollment ==
  IF StatusOf = "enrolled" THEN pairId ELSE NoPair

\* saveSettings: the snapshot of the current state is queued.
Save == persisted' = ToPersistedEnrollment'

\* An emission saves the state just written (persistEnrollment), except while
\* a logout is under way.
Emit == IF loggingOut THEN UNCHANGED persisted ELSE Save

Init ==
  /\ now = 0
  /\ disk \in {NoPair} \cup Pairs
  /\ pairId = disk /\ persisted = disk
  /\ consentPending = FALSE /\ lease = NoLease /\ renewal = NoRenewal
  /\ enrol = [s \in Surfaces |-> IdleEnrol]
  /\ renew = [r \in Renewals |-> IdleRenew]
  /\ issued = {disk} \ {NoPair} /\ leased = issued /\ loggingOut = FALSE /\ logouts = 0
  /\ crossed = FALSE

Forget == pairId' = NoPair /\ consentPending' = FALSE /\ lease' = NoLease

\* clear(): also drops the shared renewal promise.
Clear == Forget /\ renewal' = NoRenewal /\ Emit

ApplyLease(p, ttl) ==
  /\ lease' = [pair |-> p, expires |-> now + ttl]
  /\ consentPending' = FALSE
  /\ leased' = leased \cup {p}
  /\ UNCHANGED pairId

-----------------------------------------------------------------------------
(* enroll() *)

EnrolStep(s, e) == enrol' = [enrol EXCEPT ![s] = e] /\ UNCHANGED renew

CallsOpen == \/ \E s \in Surfaces : enrol[s].pc # "idle"
             \/ \E r \in Renewals : renew[r].pc # "idle"

\* A click on a surface that currently offers the code field.
Enroll(s) ==
  /\ enrol[s].pc = "idle" /\ CanEnroll
  /\ EnrolStep(s, [IdleEnrol EXCEPT !.pc = "pair"])
  /\ crossed' = (crossed \/ \E t \in Surfaces : enrol[t].pc # "idle")
  /\ UNCHANGED <<now, manager, issued, leased, persisted, disk, loggingOut, logouts>>

\* Plausible defect: the budget is rounded down.
MaxAttempts_RoundsDown(window) == window \div PollInterval

\* ceil(window / interval) + 1 attempts.
MaxAttempts(window) == (window + PollInterval - 1) \div PollInterval + 1

\* A rejected code, a transport failure or a malformed answer: nothing was set.
PairFailed(s) ==
  /\ enrol[s].pc = "pair"
  /\ EnrolStep(s, IdleEnrol)
  /\ UNCHANGED <<now, manager, issued, leased, persisted, disk, loggingOut, logouts, crossed>>

\* The window closes before the bound on the clock (Horizon).
PairReplied(s, p) ==
  /\ enrol[s].pc = "pair" /\ p \notin issued
  /\ now + PairTtl =< Horizon
  /\ issued' = issued \cup {p}
  /\ pairId' = p /\ consentPending' = TRUE
  /\ UNCHANGED <<now, lease, renewal, leased, disk, loggingOut, logouts, crossed>>
  /\ Emit
  /\ EnrolStep(s, [pc |-> "poll", pair |-> p, expires |-> now + PairTtl,
                   left |-> MaxAttempts(PairTtl), wake |-> 0])

\* The loop's own conditions: attempts left and the window still open.
PollGoesOn(e) == e.left > 0 /\ now < e.expires

SendClaim(s) ==
  /\ enrol[s].pc = "poll" /\ PollGoesOn(enrol[s])
  /\ EnrolStep(s, [enrol[s] EXCEPT !.pc = "claim"])
  /\ UNCHANGED <<now, manager, issued, leased, persisted, disk, loggingOut, logouts, crossed>>

\* Plausible defect: enroll() has no catch block.
GiveUp_KeepsPairing(s) ==
  /\ enrol[s].pc = "poll" /\ ~PollGoesOn(enrol[s])
  /\ EnrolStep(s, IdleEnrol)
  /\ UNCHANGED <<now, manager, issued, leased, persisted, disk, loggingOut, logouts, crossed>>

\* Reports the pairing expired; enroll's catch then clears everything.
GiveUp(s) ==
  /\ enrol[s].pc = "poll" /\ ~PollGoesOn(enrol[s])
  /\ EnrolStep(s, IdleEnrol)
  /\ Clear
  /\ UNCHANGED <<now, issued, leased, disk, loggingOut, logouts, crossed>>

\* applyLease emits, and enrollDevice saves once more after it.
ClaimReplied(s, ttl) ==
  /\ enrol[s].pc = "claim"
  /\ ApplyLease(enrol[s].pair, ttl) /\ Save
  /\ EnrolStep(s, IdleEnrol)
  /\ UNCHANGED <<now, renewal, issued, disk, loggingOut, logouts, crossed>>

\* Plausible defect: the poll interval is not validated and the timer never fires.
Timer_Never(delay) == Horizon + 1

\* Timers are capped at the bound on the clock; every window is closed by then.
Timer(delay) == IF now + delay > Horizon THEN Horizon ELSE now + delay

\* 409: sleep and try again.
ClaimNotYet(s) ==
  /\ enrol[s].pc = "claim"
  /\ EnrolStep(s, [enrol[s] EXCEPT !.pc = "sleep", !.left = @ - 1,
                                   !.wake = Timer(PollInterval)])
  /\ UNCHANGED <<now, manager, issued, leased, persisted, disk, loggingOut, logouts, crossed>>

\* 403, 410, transport, or a lease sealed for a foreign root.
ClaimFailed(s) ==
  /\ enrol[s].pc = "claim"
  /\ EnrolStep(s, IdleEnrol)
  /\ Clear
  /\ UNCHANGED <<now, issued, leased, disk, loggingOut, logouts, crossed>>

Awake(s) ==
  /\ enrol[s].pc = "sleep" /\ now >= enrol[s].wake
  /\ EnrolStep(s, [enrol[s] EXCEPT !.pc = "poll"])
  /\ UNCHANGED <<now, manager, issued, leased, persisted, disk, loggingOut, logouts, crossed>>

-----------------------------------------------------------------------------
(* getValidAccessToken() and refreshLease() *)

RenewStep(r, e) == renew' = [renew EXCEPT ![r] = e] /\ UNCHANGED enrol

\* Plausible defect: each caller starts a renewal of its own.
MayStartRenewal_NotShared == TRUE

\* A caller that shares the running promise changes nothing.
MayStartRenewal == renewal = NoRenewal

\* authorizeDrive / renewLease require status "enrolled" first.
RefreshLease(r) ==
  /\ StatusOf = "enrolled" /\ pairId # NoPair /\ ~HasValidLease
  /\ MayStartRenewal
  /\ renew[r].pc = "idle"
  /\ renewal' = r
  /\ RenewStep(r, [pc |-> "nonce", pair |-> pairId])
  /\ UNCHANGED <<now, pairId, consentPending, lease, issued, leased, persisted, disk, loggingOut, logouts, crossed>>

NonceReplied(r) ==
  /\ renew[r].pc = "nonce"
  /\ RenewStep(r, [renew[r] EXCEPT !.pc = "lease"])
  /\ UNCHANGED <<now, manager, issued, leased, persisted, disk, loggingOut, logouts, crossed>>

\* finally { this.renewal = null } runs whichever promise is stored by then.
LeaseReplied(r, ttl) ==
  /\ renew[r].pc = "lease"
  /\ ApplyLease(renew[r].pair, ttl) /\ Emit
  /\ RenewStep(r, IdleRenew)
  /\ renewal' = NoRenewal
  /\ UNCHANGED <<now, issued, disk, loggingOut, logouts, crossed>>

\* revoked or expired: the pairing is gone, whichever pairing that now is.
RenewalRefused(r) ==
  /\ renew[r].pc \in {"nonce", "lease"}
  /\ RenewStep(r, IdleRenew)
  /\ Clear
  /\ UNCHANGED <<now, issued, leased, disk, loggingOut, logouts, crossed>>

\* Plausible defect: then() in place of finally(), so that a renewal which fails
\* stays stored.
RenewalFailed_KeepsPromise(r) ==
  /\ renew[r].pc \in {"nonce", "lease"}
  /\ RenewStep(r, IdleRenew)
  /\ UNCHANGED <<now, manager, issued, leased, persisted, disk, loggingOut, logouts, crossed>>

\* Transport, 5xx, 409, foreign root: the pairing is kept.
RenewalFailed(r) ==
  /\ renew[r].pc \in {"nonce", "lease"}
  /\ RenewStep(r, IdleRenew)
  /\ renewal' = NoRenewal
  /\ UNCHANGED <<now, pairId, consentPending, lease, issued, leased, persisted, disk, loggingOut, logouts, crossed>>

-----------------------------------------------------------------------------
\* The settings write queue lands its newest snapshot.
Flush ==
  /\ disk # persisted
  /\ disk' = persisted
  /\ UNCHANGED <<now, manager, tasks, issued, leased, persisted, loggingOut, logouts, crossed>>

\* setUpDrive(): a new manager.  Calls running on the old one go on, but touch
\* nothing the new one or a later save can see.
SetUpDrive(p) ==
  /\ pairId' = p
  /\ consentPending' = FALSE /\ lease' = NoLease /\ renewal' = NoRenewal
  /\ enrol' = [s \in Surfaces |-> IdleEnrol]
  /\ renew' = [r \in Renewals |-> IdleRenew]

\* updateBrokerBaseUrl / updateAllowedRootName: the pairing is discarded.
ReplaceManager ==
  /\ SetUpDrive(NoPair) /\ Save
  /\ UNCHANGED <<now, issued, leased, disk, loggingOut, logouts, crossed>>

\* logout(): clear(), then the cleared enrolment is queued and awaited, ...
LogoutClears ==
  /\ ~loggingOut /\ loggingOut' = TRUE
  /\ logouts < MaxLogouts /\ logouts' = logouts + 1
  /\ Forget /\ renewal' = NoRenewal /\ persisted' = NoPair
  /\ crossed' = (crossed \/ CallsOpen)
  /\ UNCHANGED <<now, tasks, issued, leased, disk>>

\* ... and a manager for the fresh identity takes over once it is written.
LogoutRebuilds ==
  /\ loggingOut /\ disk = persisted
  /\ loggingOut' = FALSE
  /\ SetUpDrive(NoPair)
  /\ UNCHANGED <<now, issued, leased, persisted, disk, logouts, crossed>>

\* A rejected write ends logout() before setUpDrive: the manager stays.
LogoutFails ==
  /\ loggingOut /\ loggingOut' = FALSE
  /\ UNCHANGED <<now, manager, tasks, issued, leased, persisted, disk, logouts, crossed>>

\* The app is closed and reopened: only the plugin data file survives.
Restart ==
  /\ SetUpDrive(disk) /\ persisted' = disk /\ loggingOut' = FALSE
  /\ UNCHANGED <<now, issued, leased, disk, logouts, crossed>>

Tick == now < Horizon /\ now' = now + 1 /\
        UNCHANGED <<manager, tasks, issued, leased, persisted, disk, loggingOut, logouts, crossed>>

EnrolNext(s) ==
  \/ PairFailed(s) \/ SendClaim(s) \/ GiveUp(s) \/ ClaimNotYet(s)
  \/ ClaimFailed(s) \/ Awake(s)
  \/ \E p \in Pairs : PairReplied(s, p)
  \/ \E ttl \in LeaseTtls : ClaimReplied(s, ttl)

RenewNext(r) ==
  \/ NonceReplied(r) \/ RenewalRefused(r) \/ RenewalFailed(r)
  \/ \E ttl \in LeaseTtls : LeaseReplied(r, ttl)

Next ==
  \/ \E s \in Surfaces : Enroll(s) \/ EnrolNext(s)
  \/ \E r \in Renewals : RefreshLease(r) \/ RenewNext(r)
  \/ ReplaceManager \/ LogoutClears \/ LogoutRebuilds \/ LogoutFails
  \/ Flush \/ Restart \/ Tick

Spec == Init /\ [][Next]_vars

(* Every request settles (the transport resolves or rejects), every timer  *)
(* fires and time passes; users need not click and the app need not restart*)
Fairness ==
  /\ \A s \in Surfaces : WF_vars(EnrolNext(s))
  /\ \A r \in Renewals : WF_vars(RenewNext(r))
  /\ WF_vars(Tick)

FairSpec == Spec /\ Fairness

-----------------------------------------------------------------------------
(* Properties *)

\* "Waiting for Google consent" is shown only while some enroll() call is
\* still polling for it: no abort of a pairing strands the view there
\* (the catch block of enroll()).
ConsentPendingIsPolled ==
  consentPending => \E s \in Surfaces : enrol[s].pc \in {"poll", "claim", "sleep"}

\* The attempt budget of claimUntilAuthorized never runs out while the pairing
\* window is still open, whatever the window and the poll interval are.
BudgetOutlastsWindow ==
  \A s \in Surfaces :
    enrol[s].pc = "poll" /\ enrol[s].left = 0 => now >= enrol[s].expires

\* The token in memory belongs to the pairing the manager holds: clear() "forgets
\* the pairing and the in-memory token (logout / revocation)", and no answer that
\* was under way puts a token back without it (applyLease()).
LeaseMatchesPair == lease # NoLease => lease.pair = pairId

\* The promise refreshLease() shares is of a renewal under way, through clear(),
\* failures, refusals and renewals that outlive a clear(): no caller is handed a
\* renewal that has already failed, to fail with it for ever after.
StoredRenewalIsRunning == renewal # NoRenewal => renew[renewal].pc # "idle"

\* Concurrent callers share one renewal: no second nonce/lease exchange starts
\* while one is in flight (refreshLease()).  It holds until two enrolments, or a
\* logout and a call, overlap.
SharedRenewal ==
  ~crossed => Cardinality({r \in Renewals : renew[r].pc # "idle"}) =< 1

\* Only a pairing that actually received a lease is written to plugin data
\* (toPersistedEnrollment()), through restarts and failed logouts.
PersistedHadLease == ~crossed => {persisted, disk} \ {NoPair} \subseteq leased

\* Every enrolment a user starts ends, in a lease or in a reported failure,
\* even if consent never comes (the polling loop of claimUntilAuthorized).
EnrolmentEnds == \A s \in Surfaces : enrol[s].pc # "idle" ~> enrol[s].pc = "idle"

=============================================================================
