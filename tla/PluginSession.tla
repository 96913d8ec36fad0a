--------------------------- MODULE PluginSession ---------------------------
(***************************************************************************)
(* The plugin shell (src/src/main.ts) over its two stores: the settings    *)
(* file, written through LatestWriteQueue, and Obsidian's SecretStorage    *)
(* with the device identity (device-identity-store.ts).  setUpDrive builds *)
(* a lease manager that keeps the identity and the configuration it was    *)
(* built with; calls started on a manager go on after it was replaced and  *)
(* their emissions still reach the shell.                                  *)
(*                                                                         *)
(* The manager itself is module LeaseManager; here it is what the shell    *)
(* reads of it: pairing, consent pending, lease.  A pairing is identified  *)
(* with the identity and the configuration (broker and root) it was made   *)
(* under.                                                                  *)
(***************************************************************************)
EXTENDS LatestWriteQueue, FiniteSets

CONSTANTS
  Configs,        \* broker base URL and allowed root name, together
  Blank,          \* the configuration with one of them missing
  NoPair,         \* pairId === null
  Managers,       \* LeaseManager objects alive at once
  Logouts,        \* logout() calls under way at once
  MaxIdentities,  \* bound on generated identities
  MaxConfigs,     \* bound on configuration changes
  MaxRestarts     \* bound on restarts of the app

ASSUME SessionAssumption ==
  /\ Blank \in Configs /\ Cardinality(Managers) >= 3 /\ NoPair \notin Managers
  /\ MaxIdentities \in Nat \ {0} /\ MaxConfigs \in Nat /\ MaxRestarts \in Nat

VARIABLES
  config,            \* this.settings: brokerBaseUrl and allowedRootName
  identity,          \* this.identity
  made,              \* identities generated so far; the newest is `made`
  secret,            \* the identity in SecretStorage, 0 for "" or absent
  mgr,               \* the lease managers
  cur,               \* this.leaseManager
  persistedPairId,
  logoutInProgress,
  token,             \* currentAccessToken is not ""
  enrol,             \* the enrollDevice() call: where it stands, on which manager
  drive,             \* the getValidAccessToken() call awaiting a renewal
  logout,            \* per logout() call, the revision it awaits, 0 when idle
  snaps,             \* snapshots enqueued and not yet written or skipped
  file,              \* the snapshot in the data file
  tab,               \* the status an open settings tab shows, "closed" otherwise
  changes, restarts,
  retired,           \* history: identities whose logout completed
  broken,            \* history: a logout failed, was cut short, or something
                     \* was saved while it waited
  rebuilt            \* history: the manager was replaced since the tab rendered

shell   == <<config, identity, made, secret, mgr, cur, persistedPairId,
             logoutInProgress, token>>
calls   == <<enrol, drive, logout>>
history == <<retired, broken, rebuilt>>
svars   == <<vars, shell, calls, snaps, file, tab, changes, restarts, history>>

NoCall == [pc |-> "idle", on |-> NoPair]
NoSnap == [config |-> Blank, pair |-> NoPair]

\* The constructor: only the pair id is restored.
NewManager(id, conf, pair) ==
  [identity |-> id, config |-> conf, pair |-> pair, consent |-> FALSE,
   lease |-> "none", held |-> FALSE]

Collected == NewManager(0, Blank, NoPair)

\* clear(), with the lease it may have had on record.
Cleared(m) == [m EXCEPT !.pair = NoPair, !.consent = FALSE, !.lease = "none"]

\* applyLease
Leased(m) == [m EXCEPT !.consent = FALSE, !.lease = "valid", !.held = TRUE]

Paired(m) ==
  [m EXCEPT !.pair = [identity |-> m.identity, config |-> m.config], !.consent = TRUE]

StatusOf(m) ==
  CASE m.lease # "none" -> "enrolled"
    [] m.lease = "none" /\ m.consent -> "awaiting_consent"
    [] m.lease = "none" /\ ~m.consent ->
         IF m.pair # NoPair THEN "enrolled" ELSE "not_enrolled"

HasValidLease(m) == m.lease = "valid"

\* describeBrowserState: what a surface shows of a status.
ShownStatus(m) ==
  IF StatusOf(m) = "enrolled" /\ m.pair = NoPair THEN "not_enrolled" ELSE StatusOf(m)

\* onload with what an earlier session left: an identity and perhaps a pairing.
SessionInit ==
  /\ Init
  /\ file \in {[config |-> c, pair |-> NoPair] : c \in Configs} \cup
             {[config |-> c, pair |-> [identity |-> 1, config |-> c]] : c \in Configs \ {Blank}}
  /\ config = file.config /\ persistedPairId = file.pair
  /\ identity = 1 /\ made = 1 /\ secret = 1
  /\ cur = CHOOSE m \in Managers : TRUE
  /\ mgr = [m \in Managers |->
              IF m = cur THEN NewManager(1, config, persistedPairId) ELSE Collected]
  /\ logoutInProgress = FALSE /\ token = FALSE
  /\ enrol = NoCall /\ drive = NoCall /\ logout = [l \in Logouts |-> 0]
  /\ snaps = [r \in 1 .. MaxWrites |-> NoSnap]
  /\ tab = "closed" /\ changes = 0 /\ restarts = 0 /\ retired = {}
  /\ broken = FALSE /\ rebuilt = FALSE

-----------------------------------------------------------------------------
(* The event loop.  Promise reactions (the next link of the write queue, a     *)
(* logout whose write has settled) run before the next task: a click, an       *)
(* answer from the broker, a write that settles.                               *)

\* Plausible defect: enqueue() hands out a promise that write() settles, so the one
\* of a skipped snapshot stays pending for ever.
Settled_OnlyByWrite(rev) == rev # 0 /\ (disk = rev \/ rev \in failed)

\* The promise of enqueue(): the link was reached and, unless skipped, its write ended.
Settled(rev) == rev # 0 /\ reached >= rev /\ rev \notin writing

TaskTurn ==
  /\ ~(reached < latest /\ PreviousSettled)
  /\ \A l \in Logouts : ~Settled(logout[l])

-----------------------------------------------------------------------------
(* Stores: SecretStorage and the settings file *)

ToPersistedEnrollment(m) == IF StatusOf(m) = "enrolled" THEN m.pair ELSE NoPair

\* buildPersistedPluginData and enqueue.  (A root name shaped like a credential,
\* which the allowlist refuses to store, is not among the configurations.)
EnqueueSnapshot(conf, pair) ==
  /\ Enqueue
  /\ snaps' = [snaps EXCEPT ![latest + 1] = [config |-> conf, pair |-> pair]]

\* Plausible defect: the identity is stored only when it is first generated.
SaveDeviceIdentity_OnlyOnce == UNCHANGED secret

\* saveDeviceIdentity(secretStorage, this.identity)
SaveDeviceIdentity == secret' = identity

\* Plausible defect: the shell's copy of the pair id is stored in place of the
\* current manager's enrolment.
SaveSettings_StoresCopy(conf, m) ==
  SaveDeviceIdentity /\ EnqueueSnapshot(conf, persistedPairId')

\* saveSettings, up to its await, when the settings are conf and the current
\* manager is m.
SaveSettings(conf, m) ==
  SaveDeviceIdentity /\ EnqueueSnapshot(conf, ToPersistedEnrollment(m))

-----------------------------------------------------------------------------
(* EnrollmentBroadcast and the settings tab *)

\* notify(): the subscribed tab calls display(), which renders the current manager.
\* A closed tab has unsubscribed in hide(); one that a late handler made subscribe
\* again finds itself detached here, and unsubscribes.
Notify ==
  /\ tab' = IF tab = "closed" THEN tab ELSE ShownStatus(mgr'[cur])
  /\ rebuilt' = FALSE

\* display(): the tab is opened, or a handler of it that was waiting returns.
Display ==
  /\ TaskTurn /\ tab' = ShownStatus(mgr[cur]) /\ rebuilt' = FALSE
  /\ UNCHANGED <<vars, shell, calls, snaps, file, changes, restarts, retired, broken>>

Hide ==
  /\ TaskTurn /\ tab # "closed" /\ tab' = "closed" /\ rebuilt' = FALSE
  /\ UNCHANGED <<vars, shell, calls, snaps, file, changes, restarts, retired, broken>>

-----------------------------------------------------------------------------
(* setUpDrive and the emissions of a manager *)

\* setUpDrive: a fresh manager, in a slot no call in flight refers to.
SetUpDrive(id, conf, pair, inUse) ==
  LET m == CHOOSE x \in Managers : x \notin inUse IN
  /\ cur' = m
  /\ mgr' = [x \in Managers |-> IF x = m THEN NewManager(id, conf, pair)
                              ELSE IF x \in inUse THEN mgr[x] ELSE Collected]

InUse == {enrol.on, drive.on}

UnderWay == {l \in Logouts : logout[l] # 0}

\* Plausible defect: surfaces are not told either while a logout is in progress.
Broadcast_Muted(loggingOut) == IF loggingOut THEN UNCHANGED <<tab, rebuilt>> ELSE Notify

\* Surfaces are told whether or not a logout is in progress.
Broadcast(loggingOut) == Notify

\* onEnrollment, for whichever manager emits: persistEnrollment unless a logout
\* is in progress, then the broadcast.
OnEnrollment(m) ==
  /\ \/ logoutInProgress /\ UNCHANGED <<vars, snaps, secret, persistedPairId>>
     \/ ~logoutInProgress /\ persistedPairId' = m.pair /\ SaveSettings(config, mgr'[cur])
  /\ Broadcast(logoutInProgress)

\* Manager m becomes new; one that no call and no field refers to is gone.
SetManager(m, new, inUse) ==
  mgr' = [mgr EXCEPT ![m] = IF m \in inUse \cup {cur} THEN new ELSE Collected]

-----------------------------------------------------------------------------
(* enrollDevice.  A surface rendered earlier may still offer the code field, so *)
(* nothing is asked of the status. *)

EnrolStart ==
  /\ TaskTurn /\ enrol = NoCall /\ config # Blank
  /\ enrol' = [pc |-> "pair", on |-> cur]
  /\ UNCHANGED <<vars, shell, drive, logout, snaps, file, tab, changes, restarts, history>>

\* /oauth/pair: a pairing that waits for consent, or an error with nothing changed.
PairReplies ==
  /\ TaskTurn /\ enrol.pc = "pair"
  /\ \/ /\ SetManager(enrol.on, Paired(mgr[enrol.on]), InUse)
        /\ OnEnrollment(Paired(mgr[enrol.on])) /\ enrol' = [enrol EXCEPT !.pc = "claim"]
     \/ /\ SetManager(enrol.on, mgr[enrol.on], {drive.on}) /\ enrol' = NoCall
        /\ UNCHANGED <<vars, secret, persistedPairId, snaps, tab, rebuilt>>
  /\ UNCHANGED <<config, identity, made, cur, logoutInProgress, token, drive, logout,
                 file, changes, restarts, retired, broken>>

\* The claim is granted: applyLease emits, and enrollDevice saves once more,
\* also when the emission was not persisted.
ClaimGranted ==
  /\ TaskTurn /\ enrol.pc = "claim"
  /\ SetManager(enrol.on, Leased(mgr[enrol.on]), {drive.on})
  /\ persistedPairId' = IF logoutInProgress THEN persistedPairId ELSE mgr[enrol.on].pair
  /\ SaveSettings(config, mgr'[cur]) /\ Broadcast(logoutInProgress)
  /\ enrol' = NoCall /\ broken' = (broken \/ UnderWay # {})
  /\ UNCHANGED <<config, identity, made, cur, logoutInProgress, token, drive, logout,
                 file, changes, restarts, retired>>

\* Expired, refused, aborted, or a lease for another root: clear().
ClaimFails ==
  /\ TaskTurn /\ enrol.pc = "claim"
  /\ SetManager(enrol.on, Cleared(mgr[enrol.on]), {drive.on})
  /\ OnEnrollment(Cleared(mgr[enrol.on])) /\ enrol' = NoCall
  /\ UNCHANGED <<config, identity, made, cur, logoutInProgress, token, drive, logout,
                 file, changes, restarts, retired, broken>>

-----------------------------------------------------------------------------
(* authorizeDrive and the renew-lease command.  Both await getValidAccessToken; *)
(* only authorizeDrive then touches currentAccessToken. *)

\* Plausible defect: the gate looks only at the enrolment it checked before.
DriveAccessDecision_Enrolled(m) == TRUE

\* driveAccessDecision({ enrolled: true, hasValidLease })
DriveAccessDecision(m) == HasValidLease(m)

\* getValidAccessToken on the current manager: refused without a pairing,
\* answered at once with a valid lease, a renewal otherwise.
DriveStart ==
  /\ TaskTurn /\ drive = NoCall /\ StatusOf(mgr[cur]) = "enrolled"
  /\ \/ /\ mgr[cur].pair = NoPair \/ HasValidLease(mgr[cur])
        /\ token' \in {token, mgr[cur].pair # NoPair /\ DriveAccessDecision(mgr[cur])}
        /\ UNCHANGED drive
     \/ /\ mgr[cur].pair # NoPair /\ ~HasValidLease(mgr[cur])
        /\ drive' = [pc |-> "renew", on |-> cur] /\ UNCHANGED token
  /\ UNCHANGED <<vars, config, identity, made, secret, mgr, cur, persistedPairId,
                 logoutInProgress, enrol, logout, snaps, file, tab, changes, restarts, history>>

\* The renewed manager may have been replaced; the gate asks the current one.
RenewalGranted ==
  /\ TaskTurn /\ drive # NoCall
  /\ SetManager(drive.on, Leased(mgr[drive.on]), {enrol.on})
  /\ OnEnrollment(Leased(mgr[drive.on]))
  /\ token' \in {token, DriveAccessDecision(mgr'[cur])}
  /\ drive' = NoCall
  /\ UNCHANGED <<config, identity, made, cur, logoutInProgress, enrol, logout,
                 file, changes, restarts, retired, broken>>

\* Revoked or expired clears the manager; any other failure leaves it.
RenewalFails ==
  /\ TaskTurn /\ drive # NoCall
  /\ \/ /\ SetManager(drive.on, Cleared(mgr[drive.on]), {enrol.on})
        /\ OnEnrollment(Cleared(mgr[drive.on]))
     \/ /\ SetManager(drive.on, mgr[drive.on], {enrol.on})
        /\ UNCHANGED <<vars, secret, persistedPairId, snaps, tab, rebuilt>>
  /\ token' \in {token, FALSE}
  /\ drive' = NoCall
  /\ UNCHANGED <<config, identity, made, cur, logoutInProgress, enrol, logout,
                 file, changes, restarts, retired, broken>>

LeaseExpires ==
  /\ TaskTurn /\ HasValidLease(mgr[cur])
  /\ SetManager(cur, [mgr[cur] EXCEPT !.lease = "expired"], {})
  /\ UNCHANGED <<vars, config, identity, made, secret, cur, persistedPairId, token,
                 logoutInProgress, calls, snaps, file, tab, changes, restarts, history>>

-----------------------------------------------------------------------------
(* updateBrokerBaseUrl, updateAllowedRootName *)

\* A value that normalises to the current one changes nothing.
UpdateConfig(conf) ==
  /\ TaskTurn /\ conf # config /\ changes < MaxConfigs /\ changes' = changes + 1
  /\ config' = conf /\ persistedPairId' = NoPair /\ token' = FALSE
  /\ SetUpDrive(identity, conf, NoPair, InUse)
  /\ SaveSettings(conf, mgr'[cur']) /\ rebuilt' = (tab # "closed")
  /\ broken' = (broken \/ UnderWay # {})
  /\ UNCHANGED <<identity, made, logoutInProgress, calls, file, tab, restarts, retired>>

-----------------------------------------------------------------------------
(* logout and logoutDeviceSession *)

\* Up to the await: clear() (its emission is not persisted), the stored identity
\* emptied, the cleared enrolment enqueued.
LogoutStart(l) ==
  /\ TaskTurn /\ l \notin UnderWay /\ made + Cardinality(UnderWay) < MaxIdentities
  /\ SetManager(cur, Cleared(mgr[cur]), InUse) /\ Broadcast(TRUE)
  /\ secret' = 0 /\ persistedPairId' = NoPair
  /\ EnqueueSnapshot(config, NoPair)
  /\ logoutInProgress' = TRUE /\ logout' = [logout EXCEPT ![l] = latest']
  /\ broken' = (broken \/ UnderWay # {})
  /\ UNCHANGED <<config, identity, made, cur, token, enrol, drive, file, changes,
                 restarts, retired>>

\* After the await: token dropped, fresh identity, new wiring; the fresh identity
\* is stored by the next saveSettings.
LogoutCompletes(l) ==
  /\ Settled(logout[l]) /\ logout[l] \notin failed
  /\ token' = FALSE /\ made' = made + 1 /\ identity' = made + 1
  /\ SetUpDrive(made + 1, config, persistedPairId, InUse)
  /\ logoutInProgress' = FALSE /\ logout' = [logout EXCEPT ![l] = 0]
  /\ retired' = retired \cup {identity} /\ rebuilt' = (tab # "closed")
  /\ UNCHANGED <<vars, config, secret, persistedPairId, enrol, drive, snaps, file, tab,
                 changes, restarts, broken>>

\* saveData rejected: the finally block only.
LogoutFails(l) ==
  /\ Settled(logout[l]) /\ logout[l] \in failed
  /\ logoutInProgress' = FALSE /\ logout' = [logout EXCEPT ![l] = 0] /\ broken' = TRUE
  /\ UNCHANGED <<vars, config, identity, made, secret, mgr, cur, persistedPairId, token,
                 enrol, drive, snaps, file, tab, changes, restarts, retired, rebuilt>>

-----------------------------------------------------------------------------
(* The settings file and a restart of the app *)

Dropped(rev) == snaps' = [snaps EXCEPT ![rev] = NoSnap]

QueueLink ==
  /\ ReachLink
  /\ snaps' = IF Disposable(reached + 1) THEN [snaps EXCEPT ![reached + 1] = NoSnap] ELSE snaps
  /\ UNCHANGED <<shell, calls, file, tab, changes, restarts, history>>

FileWritten(rev) ==
  /\ WriteLands(rev) /\ file' = snaps[rev] /\ Dropped(rev)
  /\ UNCHANGED <<shell, calls, tab, changes, restarts, history>>

FileRejected(rev) ==
  /\ WriteRejects(rev) /\ Dropped(rev)
  /\ UNCHANGED <<shell, calls, file, tab, changes, restarts, history>>

WriteSettles == TaskTurn /\ \E rev \in writing : FileWritten(rev) \/ FileRejected(rev)

\* loadOrCreateDeviceIdentity: an empty secret is replaced by a new identity.
Restored == IF secret # 0 THEN secret ELSE made + 1

\* The app ends at any point, with or without the write in progress, and onload
\* runs again: loadSettings, then setUpDrive.  What was queued is lost.
Restart ==
  /\ TaskTurn /\ restarts < MaxRestarts /\ restarts' = restarts + 1
  /\ secret # 0 \/ made < MaxIdentities
  /\ \E rev \in {disk} \cup writing :
       /\ disk' = rev
       /\ file' = IF rev \in writing THEN snaps[rev] ELSE file
  /\ latest' = latest /\ reached' = latest /\ writing' = {}
  /\ failed' = failed \cup {r \in 1 .. latest : r > disk'}
  /\ snaps' = [r \in 1 .. MaxWrites |-> NoSnap]
  /\ identity' = Restored /\ secret' = Restored
  /\ made' = IF secret # 0 THEN made ELSE made + 1
  /\ config' = file'.config /\ persistedPairId' = file'.pair
  /\ SetUpDrive(Restored, file'.config, file'.pair, {})
  /\ logoutInProgress' = FALSE /\ token' = FALSE
  /\ enrol' = NoCall /\ drive' = NoCall /\ logout' = [l \in Logouts |-> 0]
  /\ tab' = "closed"
  /\ broken' = (broken \/ UnderWay # {}) /\ rebuilt' = FALSE
  /\ UNCHANGED <<changes, retired>>

LogoutStep == \E l \in Logouts : LogoutCompletes(l) \/ LogoutFails(l)

SessionNext ==
  \/ Display \/ Hide \/ EnrolStart \/ PairReplies \/ ClaimGranted \/ ClaimFails
  \/ DriveStart \/ RenewalGranted \/ RenewalFails \/ LeaseExpires
  \/ (\E conf \in Configs : UpdateConfig(conf)) \/ (\E l \in Logouts : LogoutStart(l))
  \/ QueueLink \/ LogoutStep \/ WriteSettles \/ Restart

SessionSpec == SessionInit /\ [][SessionNext]_svars

\* Promise reactions run and saveData settles.  Nothing is assumed of the user,
\* of the broker or of restarts.
SessionFairSpec ==
  SessionSpec /\ WF_svars(QueueLink \/ LogoutStep) /\ WF_svars(WriteSettles)

-----------------------------------------------------------------------------
\* A pairing is used and stored only with the broker and root it was made under,
\* whatever calls of replaced managers report meanwhile (updateBrokerBaseUrl
\* discards it "rather than sent to a newly configured origin").  Of two logouts
\* that overlap, the first to finish lets such a report through, and the second
\* then builds its manager with it.
PairingStaysWithItsBroker ==
  ~broken =>
    /\ mgr[cur].pair # NoPair => mgr[cur].pair.config = config
    /\ file.pair # NoPair => file.pair.config = file.config

\* The current manager holds the key its pairing was made with, also after
\* restarts: SecretStorage and the settings file are two stores written one after
\* the other.  Not so after a logout that failed half-way.
PairingProvable ==
  ~broken /\ mgr[cur].pair # NoPair => mgr[cur].pair.identity = mgr[cur].identity

\* A shell whose manager has never had a lease has no access token, also when a
\* renewal of the manager it replaced is answered later (authorizeDrive).
NoTokenBeforeLease == token => mgr[cur].held

\* The open settings tab shows the current status, through every emission of any
\* manager and during a logout; replacing the manager emits nothing.
TabIsFresh == tab # "closed" /\ ~rebuilt => tab = ShownStatus(mgr[cur])

\* A logout comes to its end whichever writes are queued, skipped or fail, so that
\* enrolments are persisted again.
LogoutEnds == logoutInProgress ~> ~logoutInProgress

\* A completed logout has removed the identity and its pairing from both stores
\* ("This device identity and local enrollment were removed", main.ts).
LoggedOutIsForgotten ==
  /\ secret \notin retired
  /\ file.pair # NoPair => file.pair.identity \notin retired
=============================================================================
