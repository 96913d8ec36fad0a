# Megabrain Drive on Demand: TLA+ verification

The repository holds an Obsidian plugin (`src/src`) that browses one Google Drive
folder read-only, and a broker (`src/broker`) that keeps the Google refresh token
and hands enrolled devices short-lived leases. This directory models the stateful
parts of both, checks them with TLC and proves every safety property the passing runs
check with TLAPS, for all values of the constants. Paths below are relative to the
repository (`src/` is its root).

## 1. The system

### Broker (`src/broker/src`)

| Component | State | Operations | What makes it correct |
|---|---|---|---|
| Pairing store, `pairing-store.ts` | four maps: records, OAuth states, callback handles, nonces | create, consumeOAuthState, markAuthorized, openClaim, issueNonce, consumeNonce, revoke; every call evicts lazily | the indexes never disagree with the records, a pairing advances one step at a time and in time, the capacity holds, a nonce is accepted once |
| Enrollment codes, `enrollment-store.ts` | map of one-time codes | issue, consume | a code opens the door once, in time, to the approved device, and wrong attempts cannot burn it |
| Enrollment records, `enrollment-record-store.ts` | map in memory, one encrypted file | record, revoke, load; each change persists the whole map by temp file and rename | what was acknowledged survives a crash; the file never says more than was decided |
| Rate limiter, `server.ts` | attempt counter per address | allowPairAttempt | bounds the attempts of any window, refuses only spent budget |
| Handlers, `server.ts`, `admin-server.ts` | the stores, the refresh-token file, a nonce map | /oauth/pair, callback, /oauth/claim, /oauth/nonce, /oauth/lease, /admin/enrollment, /admin/revoke | no lease without consent, none after a revocation, one per nonce, also across failures and restarts |
| Gateways, `public-gateway.ts`, `private-api-gateway.ts` | per request: a `settled` flag, two timers, two sockets | routing, bounded body read, forward | only accepted requests of bounded size go on, one answer, never a truncated one passed off as whole, everything ends |
| Entrypoint, `index.ts` | four listeners, two signal handlers | compose, bind one by one, roll back, shut down | a failed start and a shutdown end, whatever a request is doing |
| Secret files, `runtime-secrets.ts` | three files | readProtectedText and its two callers | only files closed to everyone but the service are used |

### Plugin (`src/src`)

| Component | State | Operations | What makes it correct |
|---|---|---|---|
| Lease manager, `auth/lease-manager.ts` | pair id, token, shared renewal promise | enroll (with its polling loop), refreshLease, clear | the token belongs to the pairing (it may not: finding 5), renewals are shared and none that is over is handed out, enrolment always ends |
| Shell, `main.ts` | the manager, settings, device identity, pair id, access token, the write queue, a metadata index | onload, setUpDrive, saveSettings, enrollDevice, authorizeDrive, updateBrokerBaseUrl, updateAllowedRootName, logout | a pairing stays with the broker, root and key it was made under; no token without a lease; a logout ends and forgets |
| Settings tab, `main.ts`, `ui/enrollment-broadcast.ts` | one subscription | display, hide, notify | an open tab shows the current status |
| Browser pane, `ui/browser-view.ts` | rows, folder, search term | loadRoot, row buttons, search, render | what is on screen can be used; a reported download is in the cache |
| Write queue, `settings-write-queue.ts` | promise chain, revision counter | enqueue | newest snapshot wins, a failure does not stop the chain |
| Cache publication, `core/atomic-cache-write.ts` | temporary and final file | publishCacheFile | success means that this download's own copy is there, whole |
| Root scope and controller, `drive/root-scope.ts`, `ui/browser-state.ts`, `drive/drive-read-client.ts` | root id, recorded parents, index | openRoot, openFolder, search, download | only what lies below the configured root is read |

### How they interact, and what is hard

The plugin reaches the broker through the private gateway (pair, claim, nonce,
lease); Google's redirect reaches it through the public gateway; the operator uses
the admin listener. Broker handlers share the stores in one process, and every
`await` inside a handler lets others run. The plugin is single-threaded too, but
its settings tab and browser view start operations on one lease manager, whose
answers come back in any order and may find that manager cleared or replaced.

Hard to test, and therefore what the models are about: overlapping persists and
crashes between memory, file and acknowledgement; revocation racing a callback, a
claim or a nonce; lazily evicted entries and dangling index entries; boundaries of
expiries, windows and capacities; deadline against late answer in the gateways;
bind failures and signals during start; the polling loop's budget; calls that
outlive logout or a root change; two stores written one after the other; answers that
reach a screen in the wrong order. `PROJECT.json` lists each with its line.

## 2. Modules

| Module | Models | Composes |
|---|---|---|
| `PairingLifecycle` | abstract: what a pairing may go through | |
| `PairingStore` | `pairing-store.ts`, one action per method | refines `PairingLifecycle` |
| `EnrollmentStore` | `enrollment-store.ts` | |
| `RateLimiter` | `allowPairAttempt` | |
| `Admission` | POST /oauth/pair and /admin/enrollment | `EnrollmentStore`, `RateLimiter`, `PairingStore` |
| `EnrollmentRecordStore` | `enrollment-record-store.ts` | |
| `BrokerServer` | callback, claim, nonce, lease, revoke, refresh-token file | `EnrollmentRecordStore`, `PairingStore` |
| `Gateway` | one request through either gateway | |
| `BrokerProcess` | `index.ts`, the secret-file rules of `runtime-secrets.ts` | `Gateway` |
| `LeaseManager` | `lease-manager.ts` with the parts of `main.ts` around it | |
| `RenewalProof` | the renewal exchange, both ends, a broker restart between them, and the bytes that are signed | |
| `LatestWriteQueue` | `settings-write-queue.ts` | |
| `PluginSession` | `main.ts` over the settings file and SecretStorage, settings tab, broadcast | `LatestWriteQueue` |
| `CachePublish` | `atomic-cache-write.ts` | |
| `DriveBrowser` | root scope, controller, read client, index | |
| `BrowserView` | `browser-view.ts` and its host in `main.ts` | `DriveBrowser`, `CachePublish` |
| `PairingStoreProofs`, `EnrollmentRecordStoreProofs` | theorems about these two stores | |
| `AdmissionProofs` | theorems about codes, limiter and admission | |
| `BrokerServerProofs` | theorems about the handlers | `EnrollmentRecordStoreProofs` |
| `BrokerProcessProofs` | theorems about `Gateway` and `BrokerProcess` | |
| `LeaseManagerProofs` | theorems about `LeaseManager` | |
| `PluginSessionProofs` | theorems about `LatestWriteQueue` and `PluginSession` | |
| `BrowserViewProofs` | theorems about `DriveBrowser`, `CachePublish` and `BrowserView` | |
| `MC*` | symmetry sets and constant values for TLC | |

`Gateway`, `CachePublish` and `DriveBrowser` have no specification of their own:
their actions are steps of the module that composes them.

**State.** A map becomes a function or a set of entries; a deleted record has the
status `"absent"`. Random ids, codes and nonces are drawn from a constant set and
never twice (`drawn`, `issued`). Hashes, keys and fingerprints are identified with
what they identify; a signature is the pair of signer and message. Wall-clock time
is `now`, which never goes back. Variables marked *history* in a module record what
happened and are read only by properties.

**Actions.** A synchronous method is one action. A handler with awaits is one
action per stretch between two awaits on I/O, and keeps its place in a variable
(`callback`, `writer`, `enrol`, `pc`, ...). Failures the code can meet (a rejected
write, a refused exchange, a lost connection) are alternatives of the step they
interrupt. `fetch` answers and file operations settle either way at any later time.

**Mutated forms.** Next to some definitions stands a variant named
`Definition_Slip`: the same code with one plausible mistake. They are used by no
specification; replacing the definition by its variant must make TLC report the
property named in `PROJECT.json`, which shows that the property depends on that
code.

Some correspondences worth knowing:

* `EnrollmentRecordStore`: `persist()` takes its snapshot when called; `Publish` is
  the rename, `Resolve` the answer after chmod. Nothing in the code orders two
  persists, so each has a slot of its own. `overlapped` remembers whether two were
  ever under way together.
* `BrokerServer`: the record map is read without a real wait, because the file is
  loaded before the listeners open; a claim's record enters the map in the stretch
  that ran `openClaim`. Minting a lease changes no store, so it is one request under
  way that ends. `Restart` keeps only the two files.
* `LeaseManager`: `Emit` is `persistEnrollment`, held back while a logout is in
  progress; `SetUpDrive` abandons the calls of the old manager. A renewal that outlives
  a `clear()` goes on and applies its lease (finding 5); its `finally` then drops whatever
  promise is stored. `crossed` remembers whether two enrolments, or a call and a logout,
  overlapped.
* `PluginSession` takes the other view: the manager is only what the shell reads of it
  (pairing, consent pending, lease), several managers are alive at once, and calls of
  a replaced one still emit into the shell. A pairing is identified with the identity
  and configuration it was made under, so that "the right key" and "the right broker"
  can be stated. `TaskTurn` is the rule that promise reactions run before the next
  task: the stretch after `await enqueue(...)` follows the write without a click or an
  answer in between. `snaps` holds the content of queued snapshots; the composed
  `LatestWriteQueue` decides which of them reach `file`. One `enrollDevice` call and
  one renewal are followed; `DriveStart` and `RenewalGranted` may leave the token
  alone because the renew-lease command takes the same path without assigning it.
* `BrokerProcess`: the followed request is received while its gateway listens, reaches
  the broker while the broker's listener is open, and is cut when the process ends.
  The other requests on each server are a counter; that `close()` waits for the requests
  in progress is Node's meaning of it, taken over in `Quiet`. One secret file stands for
  the three; the permission bits are sets, so that the masks of the code are subsets.
* `Gateway`: the request body is counted chunk by chunk; the relayed upstream body
  is one unit that completes, breaks off or idles.
* `DriveBrowser`: `setUpDrive` builds a new scope, so scopes are kept per
  generation, while the index is shared. A call belongs to the scope that is current
  when `authorizeDrive` returns, not when it was clicked. A listing is registered twice,
  by the client and then by the controller, and each asserts the scope: when the first
  registration has closed a cycle of recorded parents the second one throws and nothing
  is indexed or shown (`ListingRefused`). `SetUpDrive` is every call of `setUpDrive`, the
  ones that keep the root name (another broker, a logout) included. Drive's own tree is
  external.
* `CachePublish`: `removed` remembers the downloads under way whose own copy the user has
  deleted, which is all that `SuccessMeansPublished` excuses.
* `BrowserView`: a button is disabled while its call is under way, but every `render()`
  draws new ones; `live` holds the calls whose button is still on screen. Whatever
  answer arrives replaces the rows.

## 3. Runs

`tlc -config X.cfg Module`; every run finishes within five minutes with two workers.

| Run | Distinct states | Shows |
|---|---|---|
| `pairing_store` | 140 k | indexes, capacity, single use of nonces, refinement of `PairingLifecycle` |
| `admission` | 1.7 M | codes, limiter and pairings behind /oauth/pair |
| `broker` | 3.1 M | all handlers interleaved, two persists at once, failures, one restart |
| `broker_process` | 23.5 k | preflight to exit, with one followed request, one other on each server, failed binds and signals |
| `lease_manager` | 654 k | two surfaces, renewals, logout, manager replacement, restart |
| `plugin_session` | 1.3 M | enrolment, renewal, two logouts, two configuration changes and a restart over a queue whose writes may fail |
| `browser_view` | 2.0 M | two calls from click to published file; a new controller for the same or another root, moves (two of them make recorded parents cyclic) and a deletion |
| `records_lost_revocation` | violation | finding 1 |
| `broker_token_race` | violation | finding 2 |
| `renewal_proof` | violation | finding 3 |
| `logout_identity` | violation | finding 4 |
| `late_lease` | violation | finding 5 |

**Bounds.** Ids are few because the code never treats more than two of them
together: an index entry against a record, one writer against another, one call
against another. Two pairings, codes or calls are the smallest number that can
interfere; `pairing_store` uses three pairings against a capacity of two so that a
full store must evict. Clocks run long enough for every deadline to pass while
something is pending: in `pairing_store` lifetimes of 1 and 2 in 3 instants; in
`admission` windows of 2 in 3, so that a window boundary is crossed with attempts on
both sides; in `lease_manager` a pairing window of 3 polled every 2, which is where
rounding the attempt budget matters. In `broker` durable records outlive the
horizon, so that handshakes and nonces expire while the record lives on, as in the
deployed lifetimes; records expire too with `Horizon = 2`, which also passes (9.2 M
states, about five minutes) but is too long to keep as a run.

In `plugin_session` three managers are enough because at most two calls and the shell
refer to one each; three queued writes let one be in progress, one be skipped and one
be final; two logouts may overlap; the configurations are the blank one and
two complete ones, and two changes lead from one broker to another and back. In
`browser_view` the new controller, moves and deletion share a budget of two
(`MaxChanges`): every pair of them is explored, three together are not. The one initial
tree has the other root nested below the first, which is what makes a change of root
and a move interesting. In `broker_process` a body limit of 4 with chunks of 1 and 4
is met exactly and jumped over, and one other request per server is enough to keep it
from closing; three modes separate the rules for secret files.
`late_lease` uses one surface and one renewal, which is all its five-state trace needs.

`MaxPersists`, `MaxRestarts`, `MaxLogouts`, `MaxGen`, `MaxMoves`, `MaxDeletes`,
`MaxChanges`, `MaxConns`, `MaxWaiting`, `MaxIdentities`, `MaxConfigs` and `MaxWrites`
bound counters and appear only in guards.

**Deadlock** is checked except in `broker_process`, where an ended process really
stops.

**Fairness.**

* `LeaseManager`: requests settle, timers fire and time passes (weak fairness of
  `EnrolNext`, `RenewNext`, `Tick`). Obsidian's `requestUrl` resolves or rejects.
  Users need not click and nothing forces a restart. `EnrolmentEnds` follows.
* `BrokerProcess` (`ProcessFairSpec`): the deadline and the idle timer fire, which Node
  guarantees; close callbacks run; the other requests are answered (the gateways' by
  the same timers, the broker's by the file system and by `fetch`, which has default
  timeouts); and a client sends its body to the end or goes away, which is an
  assumption about the environment (Node's `requestTimeout` enforces it on a listening
  server; no line of this repository does). Nothing is assumed of the broker's answer to the
  followed request, of signals or of the operator. A body that dribbles forever keeps
  resetting the idle timer in the real socket; the model's one-unit body does not show
  that.
* `PluginSession` (`SessionFairSpec`): promise reactions run and `saveData` settles
  either way. Nothing is assumed of users, the broker or restarts; `LogoutEnds` follows.

## 4. Findings

1. **A revocation can be lost** (`records_lost_revocation`). A claim's persist that
   took its snapshot first may rename last, over the revocation that has already been
   acknowledged; a restart then loads the device as enrolled
   (`enrollment-record-store.ts:318`). `admin-server.ts:126` promises durability.
   An acknowledged enrolment can be lost the same way. Both are safe until persists
   overlap, which is the theorem `AcksDurable`.
2. **A revoked consent's token can stay** (`broker_token_race`). /admin/revoke
   clears the token file and answers while the device's OAuth callback is still in
   flight; the callback then stores its refresh token (`server.ts:307`). The runbook
   says the token is cleared.
3. **Renewal never succeeds** (`renewal_proof`). The plugin signs the UTF-8 bytes of
   the nonce text, the broker verifies over the base64url-decoded bytes; the 403 is
   mapped to "revoked" and makes the plugin forget a valid pairing. A broker restart
   between the two requests, which empties the nonce map, has the same effect.
4. **A logged-out identity can stay stored** (`logout_identity`). `logout()` empties
   SecretStorage and then waits for the settings write. A broker URL or root name
   changed during that wait, or an enrolment answered then, runs `saveSettings()`, which
   stores `this.identity`, still the old one (`main.ts:103`). Logout completes with
   "This device identity and local enrollment were removed" and the secret is there; a
   restart before the next save restores it.
5. **A late answer brings a forgotten token back** (`late_lease`). `clear()` drops the
   stored renewal promise but not the renewal: its answer, or a claim's, still runs
   `applyLease()`, which does not ask whether the pairing is still held
   (`lease-manager.ts:228`). Token and lease are then in memory beside no pairing, although
   `clear()` "forgets the pairing and the in-memory token (logout / revocation)"
   (`lease-manager.ts:129`). In a logout this lasts until the settings write is through
   and `setUpDrive` builds a new manager; when that write is rejected it lasts until the
   plugin is restarted or reconfigured. `getValidAccessToken` refuses without a pairing,
   so the token is kept rather than used.

Seen while modelling and visible in the modules, without a run of their own:

* Two surfaces enrolling at once, or a logout during a call, also let a pairing be
  stored that never had a lease, and a renewal that outlives a `clear()` run beside a new
  one. This is why `SharedRenewal` and `PersistedHadLease` are stated for behaviours that
  have not `crossed`; without that hypothesis TLC violates each of them in at most eight
  steps. `StoredRenewalIsRunning` is the part of renewal sharing that needs no hypothesis.
* `ReadProtectedText` accepts a root-owned secret file with mode 0650: the mask `0o027`
  leaves out group execute, under a comment that says "no group execute/write or any other
  access" (`runtime-secrets.ts:118`).
* A download whose copy fell short can still report success when the user deletes that
  copy and another download of the file publishes before the first one's size check
  (`atomic-cache-write.ts:59`): what it measured is the other's file. It is the case
  `SuccessMeansPublished` excuses through `removed`.
* A copy that falls short leaves a truncated file at the cache path
  (`CopyToFinal` followed by `Cleanup`): the download fails, but later ones are
  refused because the path exists.
* The metadata index and the rows survive a change of root (`index` and `rows` are not
  indexed by `gen`), so search and the pane still list files of the old root. Their
  content cannot be fetched (`DownloadsStayInScope`).
* Answers are applied to the pane in the order they arrive, not in which they were
  asked for (`ListedAndShown`): after "root" and then a folder, the root's rows may
  come last. `RowsAreUsable` shows that the rows are consistent with their controller
  all the same.
* A logout waits for its own queue entry; when a newer snapshot makes that entry stale
  it resolves without having been written (`Settled` counts a skipped link), so logout
  may finish before anything of it is on disk.
* A logout that overlaps another, or whose write fails, lets a replaced manager's
  emission set `persistedPairId` before the next `setUpDrive`; this is why
  `PairingProvable` and `PairingStaysWithItsBroker` are stated for behaviours that are
  not `broken`. That the pairing in the settings file needs the hypothesis too came out
  of the proof: of two overlapping logouts the first one to finish ends the suppression
  of emissions, a replaced manager then reports its pairing, and the second logout
  builds its manager with it and saves it beside another broker. TLC finds this with
  `MaxWrites = 6`; the three writes of the run are too few.
* `authorizeDrive` checks the current manager's lease but keeps the token of the manager
  it awaited. `NoTokenBeforeLease` holds; the token of a replaced manager can still be
  in use once the new one has a lease of its own.
* `runtime-secrets.ts:14` says files not owned by the service are rejected; the code also
  accepts root-owned, group-readable ones, as the runbook asks.

## 5. Proofs

The theorems hold for arbitrary sets of ids, calls, surfaces and addresses, any number
of connections, and every value of the bounds: `Horizon`, `MaxWrites`, `MaxRestarts`
and the like are any natural number. Hardly any of the properties is inductive as it
stands. Each module states the invariant that is; TLC was run on it before it was
proved, and the theorems follow from it.

* **`PairingStoreProofs`** from `PairingAssumption` (finitely many pair ids, at least
  one device, ids and nonces distinct, positive lifetimes and capacity). Type
  correctness; `IndexesMatchRecords`; a nonce is accepted once (`NonceSingleUse`); the
  capacity holds (`CapacityHolds`); and the refinement `StoreImplementsLifecycle`. `IndexesMatchRecords` needs that a new pairing does not
  own a leftover handle, so `DrawnInv` ties every id in any map to `drawn`; single use
  needs `NonceInv`, that a stored nonce has not been accepted and is stored once. The
  refinement uses the same invariant: each store action is an abstract step that also
  forgets the overdue pairings it evicted, or a stutter.
* **`AdmissionProofs`** has three parts.
  *Codes*, by themselves and in the composition (`AdmissionSpendsCodesOnce`): a code is
  redeemed once and not burned by failed attempts. The invariant adds `StatusHistory`:
  an unused or never issued code has no redemptions.
  *Pairings* (`EveryPairingApproved`): `AdmissionInv` adds the type of the ledger that
  links a pairing to its code; a second pairing on a code would be a second redemption.
  *Limiter* (`RefusalIsEarned`, `RateIsBounded`): `LimiterInv` says per address what
  its counter counts (`WindowOK`), what the window before it held (`BeforeOK`) and what
  every stretch of `Window` instants held (`StretchesOK`). The argument for the sliding
  bound: a stretch that reaches into the present window began after the instant of the
  previous window's first attempt, so it counts at most `MaxAttempts - 1` of that
  window, and at most `MaxAttempts` of the present one. Attempts are counted with a
  fold, so the part rests on lemmas that the fold over a finite set does not depend on
  the order (`TotalSums`) and is additive over disjoint sets (`TotalSplits`).
* **`EnrollmentRecordStoreProofs`**. The file and every snapshot stay behind the map
  (`FileBehindMap`), whatever overlaps, fails or crashes. Until two persists overlap,
  acknowledged changes are in the file (`AcksDurable`): the strengthening says that at
  most one persist is under way, that a renamed snapshot is the file, and that file,
  map and pending snapshot all hold what was acknowledged.
* **`BrokerServerProofs`** from `BrokerAssumption`, which says that persist slots are
  the records' writers and that pair ids and nonces differ. `HandlersUseRecords`: every
  step of the broker is a step of the records or a stutter, so the theorems about the
  records hold in the broker (`BrokerRecordsDurable`). `Handshake` relates the two
  stores of a pairing; it is proved once, from `PairStep`, which is all a step may do to
  a pairing. `SlotOK` and `MintOK` say for whom a persist or a mint under way works,
  `NonceOK` that a nonce that bought a mint is no longer stored, and `Revoked` that a
  revocation that reached the token file has been through the durable records, or there
  was no record and never will be. From these:
  `EnrolledHasRecord`, `RevocationAgrees`, `LeaseNeedsConsent`, `NonceBuysOneMint` and
  `RevokedStartsNoMint`.
* **`BrokerProcessProofs`** from `GatewayAssumption` and `ProcessAssumption`.
  `RequestOK` says stage by stage which of forward()'s `settled` flag, timer, upstream
  request and answer can be found together, also when the end of the process cut the
  request; `ProcessOK` says what is listening and connected in which phase. `AnsweredOnce`,
  `EndedIsWhole` and `HangUpStopsRelay` follow. `OnlyAcceptedForwarded` also needs
  `BodyWithinLimit`, that what has been read of a body not refused fits the limit, which
  is inductive by itself.
* **`LeaseManagerProofs`** from `ManagerAssumption`. `WindowOK`: the attempts a polling
  loop has left, counted from now or from when its timer fires, reach to the end of its
  window. `Settled`, until calls cross: an enrolment under way excludes every other call
  and belongs to the pairing held, and so does a renewal. All five invariants of the run
  follow; `ConsentPendingIsPolled`, `BudgetOutlastsWindow` and `StoredRenewalIsRunning`
  (`NoStaleRenewal`) need no hypothesis on crossing.
* **`PluginSessionProofs`** from `QueueAssumption` and `SessionAssumption`. The queue
  alone: the newest snapshot wins and the file never goes back; the invariant adds that
  at most one write runs and that the newest revision reached is written, being written
  or failed. The shell uses the queue within its specification and a restart keeps that
  invariant, so both hold in the session (`SessionNewestWins`, `SessionWritesInOrder`).
  `SessionInv` adds what each manager (`ManagersOK`), each queued snapshot (`SnapsOK`)
  and a logout under way (`LogoutOK`) can hold, that a pairing anywhere is beside its
  own broker (`PairingsOwn`) and that SecretStorage has the key of what the file names
  (`SecretOK`), where `LogoutOK`, `PairingsOwn` and `SecretOK` hold until a logout is
  `broken`. `PairingStaysWithItsBroker`
  is about the shell and the file only, and is lost without them: the pairing travels
  through managers and snapshots.
* **`BrowserViewProofs`** from `BrowserAssumption` (finitely many ids; `NoId` is neither
  an id nor a generation) and `ViewAssumption` (every call may publish, every file has a
  cache path). `ScopeCheckIsExact`: the bounded climb of `isWithinRoot` finds the root
  exactly when it is reachable through recorded parents, cyclic records included. A
  climb that has not arrived after as many steps as there are ids has met some id twice
  (pigeonhole) and goes round for ever. `DriveInv` adds what a call under way is
  about (`CallOK`), that a resolved root is the one configured (`ScopeOK`), that
  recorded edges are Drive's while nothing moved
  (`EdgesAreTrue`) and that listed rows lie below the root (`RowsBelowRoot`), from which
  `DownloadsStayInScope` and `RowsAreUsable` follow. `PublishOK` says, place by place,
  that what a publication copied stays its own and whole unless the user deletes that
  copy (`removed`): `SuccessMeansPublished`. It rests on the adapter's contract that a
  copy refuses an existing destination.

The prover cannot use the library's induction theorems, which take an operator. Where
an induction is needed (the climb, the fold), the proof takes a least counterexample
instead: `LeastNat` gives the smallest member of a nonempty set of naturals.

Proved and not kept in a run: the type invariants and `HandlersUseRecords`.

**Only model-checked**: `EnrolmentEnds`, `ForwardEnds`, `ShutdownEnds` and `LogoutEnds`,
because liveness under fairness is out of the prover's reach; `RenewalProof` and the
other findings, which are counterexamples and have nothing to prove.

## 6. Not modelled, and assumptions

* Cryptography (`device-identity.ts`, `lease-sealer.ts`), encryption and parsing of the
  store files: stateless. A file that does not decrypt stops the start (`Preflight`).
* HTTP parsing, URL and form building, environment variables: they refuse or pass,
  which is how they appear.
* Filters, sort order and limit of `MetadataIndex.search`: a stateless algorithm over
  strings and dates. The model's search returns everything indexed or nothing.
* DOM layout, wording, notices; opening the note after a download.
* `setUpDrive` for a configuration that is refused at run time, and a root name shaped
  like a credential, which the persistence allowlist refuses to store.
* Modules the plugin does not reach (`google-drive-api.ts`, `mobile-pairing.ts`,
  `remote-index.ts`), deployment and scripts.

Assumed: the clock never goes back, random ids do not repeat, rename is atomic, and the
adapter's copy refuses an existing destination.

## 7. Plan

Done, in this order: pairing store with its abstraction and proofs; codes, limiter and
admission; durable records with proofs; the handlers; the plugin's manager and queue;
the process with its gateways and secret files; the plugin shell over its two stores;
the browser pane over scope, index and cache.

Proved since then: every invariant and every action property of the passing runs.

Next: the stores inside their compositions, that is that `Admission` and `BrokerServer`
use the pairing store within `PairingStore`'s specification, as `HandlersUseRecords`
shows for the records, so that the index and nonce theorems carry over; and the relation between the manager of
`LeaseManager` and what `PluginSession` keeps of it.
