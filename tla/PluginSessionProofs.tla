------------------------ MODULE PluginSessionProofs -------------------------
(***************************************************************************)
(* The settings write queue and the plugin shell above it, for any number  *)
(* of writes, configurations, managers, identities, logouts and restarts.  *)
(*                                                                         *)
(* The queue first.  NewestIsFinal is not inductive: a link about to be    *)
(* reached says nothing of the writes before it.  What makes it so is the  *)
(* promise chain: a write in progress is the last link reached, and what   *)
(* is on disk is older than it.                                            *)
(***************************************************************************)
EXTENDS PluginSession, FiniteSetTheorems, TLAPS

OneWriter == writing \subseteq {reached} /\ (writing # {} => disk < reached)

NewestHandled ==
  reached = latest => writing = {latest} \/ disk = latest \/ latest \in failed

IInv == TypeOK /\ OneWriter /\ NewestHandled

LEMMA InitIInv == Init => IInv
BY QueueAssumption DEF Init, IInv, TypeOK, OneWriter, NewestHandled

\* A link is reached only when nothing is being written; it is skipped or
\* becomes the one write in progress.
LEMMA ReachLinkIInv == ASSUME IInv, ReachLink PROVE IInv'
<1>1. writing = {} /\ reached' = reached + 1 /\ reached < latest
  BY DEF ReachLink, PreviousSettled
<1>2. writing' = {} \/ (writing' = {reached'} /\ reached' = latest')
  BY <1>1 DEF ReachLink, Disposable
<1>3. reached' = latest' => writing' = {latest'}
  BY <1>1, <1>2 DEF ReachLink, Disposable, IInv, TypeOK
<1>4. TypeOK'
  BY <1>1, <1>2, QueueAssumption DEF ReachLink, IInv, TypeOK
<1>5. OneWriter'
  BY <1>1, <1>2 DEF ReachLink, IInv, TypeOK, OneWriter
<1>6. NewestHandled'
  BY <1>3 DEF NewestHandled
<1> QED BY <1>4, <1>5, <1>6 DEF IInv

\* A write that settles was the last link reached, so nothing newer is on disk.
LEMMA SettleIInv == ASSUME NEW rev \in 1 .. MaxWrites, IInv, Settle(rev) PROVE IInv'
<1>1. rev = reached /\ writing = {rev} /\ writing' = {}
  BY DEF Settle, WriteLands, WriteRejects, IInv, OneWriter
<1>2. CASE WriteLands(rev)
  BY <1>1, <1>2, QueueAssumption
     DEF WriteLands, IInv, TypeOK, OneWriter, NewestHandled
<1>3. CASE WriteRejects(rev)
  BY <1>1, <1>3, QueueAssumption
     DEF WriteRejects, IInv, TypeOK, OneWriter, NewestHandled
<1> QED BY <1>2, <1>3 DEF Settle

LEMMA NextIInv == IInv /\ [Next]_vars => IInv'
<1> SUFFICES ASSUME IInv, [Next]_vars PROVE IInv'
  OBVIOUS
<1>1. CASE Enqueue
  BY <1>1, QueueAssumption DEF Enqueue, IInv, TypeOK, OneWriter, NewestHandled
<1>2. CASE ReachLink
  BY <1>2, ReachLinkIInv
<1>3. CASE \E rev \in 1 .. MaxWrites : Settle(rev)
  BY <1>3, SettleIInv
<1>4. CASE UNCHANGED vars
  BY <1>4 DEF vars, IInv, TypeOK, OneWriter, NewestHandled
<1> QED BY <1>1, <1>2, <1>3, <1>4 DEF Next

LEMMA Inductive == Spec => []IInv
BY InitIInv, NextIInv, PTL DEF Spec

\* The queue keeps its shape and never has two writes in progress.
THEOREM QueueTypeCorrect == Spec => []TypeOK
<1>1. IInv => TypeOK
  BY DEF IInv
<1> QED BY <1>1, Inductive, PTL

\* A drained queue has left the newest snapshot in the data file, unless that
\* very write was rejected (enqueue() in settings-write-queue.ts).
THEOREM NewestWins == Spec => []NewestIsFinal
<1>1. IInv => NewestIsFinal
  BY DEF IInv, TypeOK, NewestHandled, NewestIsFinal, Idle
<1> QED BY <1>1, Inductive, PTL

LEMMA NextInOrder == ASSUME IInv, [Next]_vars PROVE [disk' >= disk]_vars
<1> SUFFICES ASSUME Next PROVE disk' >= disk
  OBVIOUS
<1>1. CASE Enqueue \/ ReachLink
  BY <1>1 DEF Enqueue, ReachLink, IInv, TypeOK
<1>2. CASE \E rev \in 1 .. MaxWrites : Settle(rev)
  BY <1>2 DEF Settle, WriteLands, WriteRejects, IInv, TypeOK, OneWriter
<1> QED BY <1>1, <1>2 DEF Next

\* An older snapshot never lands on top of a newer one.
THEOREM WritesInOrder == Spec => DiskNeverGoesBack
<1>1. IInv /\ [Next]_vars => [disk' >= disk]_vars
  BY NextInOrder
<1> QED BY <1>1, Inductive, PTL DEF Spec, DiskNeverGoesBack

-----------------------------------------------------------------------------
(* The shell *)

Pairing == [identity : Nat \ {0}, config : Configs]

Manager == [identity : Nat, config : Configs, pair : Pairing \cup {NoPair},
            consent : BOOLEAN, lease : {"none", "valid", "expired"}, held : BOOLEAN]

Snapshot == [config : Configs, pair : Pairing \cup {NoPair}]

ShellTypeOK ==
  /\ config \in Configs
  /\ identity \in Nat \ {0}
  /\ made \in Nat
  /\ secret \in Nat
  /\ mgr \in [Managers -> Manager]
  /\ cur \in Managers
  /\ persistedPairId \in Pairing \cup {NoPair}
  /\ logoutInProgress \in BOOLEAN
  /\ token \in BOOLEAN
  /\ enrol \in {NoCall} \cup [pc : {"pair", "claim"}, on : Managers]
  /\ drive \in {NoCall} \cup [pc : {"renew"}, on : Managers]
  /\ logout \in [Logouts -> Nat]
  /\ snaps \in [1 .. MaxWrites -> Snapshot]
  /\ file \in Snapshot
  /\ broken \in BOOLEAN
  /\ rebuilt \in BOOLEAN

\* The current manager is the one setUpDrive built for the shell's identity and
\* configuration; a lease on record has been held.
ManagersOK ==
  /\ \A m \in Managers : mgr[m].lease # "none" => mgr[m].held
  /\ mgr[cur].identity = identity /\ mgr[cur].config = config
  /\ \A m \in Managers : mgr[m].identity = 0 => m \notin {cur, enrol.on}

\* Only snapshots that are queued or being written are kept.
SnapsOK ==
  \A r \in 1 .. MaxWrites :
    (r <= reached /\ r \notin writing) \/ r > latest => snaps[r] = NoSnap

\* A pairing this identity made under that configuration, or none.
Own(pair, conf) == pair # NoPair => pair = [identity |-> identity, config |-> conf]

\* The pairing in use and those stored or about to be are the present identity's,
\* each beside its own configuration.
PairingsOwn ==
  /\ Own(mgr[cur].pair, config)
  /\ Own(file.pair, file.config)
  /\ \A r \in 1 .. MaxWrites : Own(snaps[r].pair, snaps[r].config)

\* SecretStorage holds the present identity whenever a pairing of it is stored.
SecretOK ==
  /\ secret \in {0, identity}
  /\ UnderWay = {} /\ secret = 0 =>
       file.pair = NoPair /\ \A r \in 1 .. MaxWrites : snaps[r].pair = NoPair

\* At most one logout is under way; nothing was saved since it enqueued its
\* cleared enrolment.
LogoutOK ==
  /\ logoutInProgress <=> UnderWay # {}
  /\ \A l \in UnderWay :
       /\ \A k \in UnderWay : k = l
       /\ logout[l] = latest /\ secret = 0 /\ persistedPairId = NoPair
       /\ latest \in 1 .. MaxWrites /\ snaps[latest].pair = NoPair
       /\ disk = latest => file.pair = NoPair

SessionInv ==
  /\ IInv /\ ShellTypeOK /\ ManagersOK /\ SnapsOK
  /\ NoTokenBeforeLease /\ TabIsFresh
  /\ ~broken => PairingsOwn /\ SecretOK /\ LogoutOK

-----------------------------------------------------------------------------
(* The shell's queue *)

\* A restart drops what is queued; the write in progress may or may not land.
LEMMA RestartIInv == ASSUME IInv, Restart PROVE IInv' /\ disk' >= disk
<1>1. PICK rev \in {disk} \cup writing : disk' = rev
  BY DEF Restart
<1>2. /\ latest' = latest /\ reached' = latest /\ writing' = {}
      /\ failed' = failed \cup {r \in 1 .. latest : r > disk'}
  BY DEF Restart
<1>3. disk' \in 0 .. latest /\ disk' >= disk
  BY <1>1 DEF IInv, TypeOK, OneWriter
<1>4. TypeOK'
  <2>1. latest \in 0 .. MaxWrites /\ latest \in Nat /\ failed \subseteq 1 .. latest
    BY QueueAssumption DEF IInv, TypeOK
  <2>2. latest' \in 0 .. MaxWrites /\ reached' \in 0 .. latest' /\ disk' \in 0 .. reached'
    BY <1>2, <1>3, <2>1
  <2>3. failed' \subseteq 1 .. reached'
    BY <1>2, <2>1
  <2> QED  BY <1>2, <2>2, <2>3 DEF TypeOK
<1>5. OneWriter' /\ NewestHandled'
  BY <1>2, <1>3 DEF OneWriter, NewestHandled, IInv, TypeOK
<1> QED  BY <1>3, <1>4, <1>5 DEF IInv

\* Everything else the shell does to the queue is an operation of the queue.
LEMMA ShellUsesQueue ==
  ASSUME IInv, [SessionNext]_svars PROVE [Next]_vars \/ Restart
<1>1. writing \subseteq 1 .. MaxWrites
  BY QueueAssumption DEF IInv, TypeOK
<1>2. CASE UNCHANGED svars
  BY <1>2 DEF svars
<1>3. CASE Display \/ Hide \/ EnrolStart \/ DriveStart \/ LeaseExpires \/ LogoutStep
  BY <1>3 DEF Display, Hide, EnrolStart, DriveStart, LeaseExpires, LogoutStep,
              LogoutCompletes, LogoutFails
<1>4. CASE PairReplies \/ ClaimGranted \/ ClaimFails \/ RenewalGranted \/ RenewalFails
  BY <1>4 DEF PairReplies, ClaimGranted, ClaimFails, RenewalGranted, RenewalFails,
              OnEnrollment, SaveSettings, EnqueueSnapshot, Next
<1>5. CASE (\E conf \in Configs : UpdateConfig(conf)) \/ (\E l \in Logouts : LogoutStart(l))
  BY <1>5 DEF UpdateConfig, LogoutStart, SaveSettings, EnqueueSnapshot, Next
<1>6. CASE QueueLink
  BY <1>6 DEF QueueLink, Next
<1>7. CASE WriteSettles
  BY <1>1, <1>7 DEF WriteSettles, FileWritten, FileRejected, Next, Settle
<1> QED  BY <1>2, <1>3, <1>4, <1>5, <1>6, <1>7 DEF SessionNext

LEMMA SessionQueueAlways == SessionSpec => []IInv
<1>1. SessionInit => IInv
  BY InitIInv DEF SessionInit
<1>2. IInv /\ [SessionNext]_svars => IInv'
  BY ShellUsesQueue, NextIInv, RestartIInv
<1> QED  BY <1>1, <1>2, PTL DEF SessionSpec

\* Through every shell operation and every restart, the newest settings snapshot
\* is the one left in the data file unless its own write was rejected or cut off.
THEOREM SessionNewestWins == SessionSpec => []NewestIsFinal
<1>1. IInv => NewestIsFinal
  BY DEF IInv, TypeOK, NewestHandled, NewestIsFinal, Idle
<1> QED  BY <1>1, SessionQueueAlways, PTL

\* Nor does a restart, or any operation of the shell, put an older snapshot over a
\* newer one.
THEOREM SessionWritesInOrder == SessionSpec => DiskNeverGoesBack
<1>1. IInv /\ [SessionNext]_svars => [disk' >= disk]_vars
  <2> SUFFICES ASSUME IInv, [SessionNext]_svars PROVE [disk' >= disk]_vars
    OBVIOUS
  <2>1. CASE [Next]_vars
    BY <2>1, NextInOrder
  <2>2. CASE Restart
    BY <2>2, RestartIInv
  <2> QED  BY <2>1, <2>2, ShellUsesQueue
<1> QED  BY <1>1, SessionQueueAlways, PTL DEF SessionSpec, DiskNeverGoesBack

-----------------------------------------------------------------------------
(* The managers *)

LEMMA ManagerForms ==
  ASSUME NEW e \in Manager
  PROVE  /\ Cleared(e) \in Manager /\ Cleared(e).identity = e.identity
         /\ Cleared(e).config = e.config /\ Cleared(e).pair = NoPair
         /\ Cleared(e).lease = "none" /\ Cleared(e).held = e.held
         /\ Leased(e) \in Manager /\ Leased(e).identity = e.identity
         /\ Leased(e).config = e.config /\ Leased(e).pair = e.pair
         /\ Leased(e).lease = "valid" /\ Leased(e).held
<1>1. /\ Cleared(e) \in Manager /\ Cleared(e).identity = e.identity
      /\ Cleared(e).config = e.config /\ Cleared(e).pair = NoPair
      /\ Cleared(e).lease = "none" /\ Cleared(e).held = e.held
  BY DEF Cleared, Manager
<1>2. /\ Leased(e) \in Manager /\ Leased(e).identity = e.identity
      /\ Leased(e).config = e.config /\ Leased(e).pair = e.pair
      /\ Leased(e).lease = "valid" /\ Leased(e).held
  BY DEF Leased, Manager
<1> QED  BY <1>1, <1>2

LEMMA PairedForm ==
  ASSUME NEW e \in Manager, e.identity # 0
  PROVE  /\ Paired(e) \in Manager /\ Paired(e).identity = e.identity
         /\ Paired(e).config = e.config
         /\ Paired(e).pair = [identity |-> e.identity, config |-> e.config]
         /\ Paired(e).lease = e.lease /\ Paired(e).held = e.held
<1> DEFINE p == [identity |-> e.identity, config |-> e.config]
<1>1. p \in Pairing
  BY DEF Pairing, Manager
<1> HIDE DEF p
<1>2. \A q \in Pairing : LET n == [e EXCEPT !.pair = q, !.consent = TRUE] IN
        /\ n \in Manager /\ n.identity = e.identity /\ n.config = e.config
        /\ n.pair = q /\ n.lease = e.lease /\ n.held = e.held
  BY DEF Manager
<1>3. Paired(e) = [e EXCEPT !.pair = p, !.consent = TRUE]
  BY DEF Paired, p
<1>4. p = [identity |-> e.identity, config |-> e.config]
  BY DEF p
<1> QED  BY <1>1, <1>2, <1>3, <1>4

LEMMA NewManagerForm ==
  ASSUME NEW id \in Nat, NEW conf \in Configs, NEW pair \in Pairing \cup {NoPair}
  PROVE  LET n == NewManager(id, conf, pair) IN
         /\ n \in Manager /\ n.identity = id /\ n.config = conf /\ n.pair = pair
         /\ n.lease = "none" /\ n.held = FALSE
  BY DEF NewManager, Manager

LEMMA CollectedForm ==
  /\ Collected \in Manager /\ Collected.identity = 0
  /\ Collected.lease = "none"
  BY SessionAssumption DEF Collected, NewManager, Manager

\* setUpDrive always finds a slot for its manager: two calls refer to at most two.
LEMMA FreeSlot ==
  ASSUME NEW a, NEW b
  PROVE  \E x \in Managers : x \notin {a, b}
<1> SUFFICES ASSUME Managers \subseteq {a, b} PROVE FALSE
  OBVIOUS
<1>1. IsFiniteSet({a}) /\ Cardinality({a}) = 1
  BY FS_Singleton
<1>2. IsFiniteSet({a} \cup {b}) /\ Cardinality({a} \cup {b}) <= 2
  BY <1>1, FS_AddElement
<1>3. {a, b} = {a} \cup {b}
  OBVIOUS
<1>4. Cardinality(Managers) <= Cardinality({a, b}) /\ IsFiniteSet(Managers)
  BY <1>2, <1>3, FS_Subset
<1>5. Cardinality(Managers) \in Nat /\ Cardinality({a, b}) \in Nat
  BY <1>2, <1>3, <1>4, FS_CardinalityType
<1> QED  BY <1>2, <1>3, <1>4, <1>5, SessionAssumption

LEMMA SetUpFacts ==
  ASSUME ShellTypeOK, NEW id \in Nat, NEW conf \in Configs,
         NEW pair \in Pairing \cup {NoPair}, NEW a, NEW b, NEW inUse,
         inUse \subseteq {a, b}, SetUpDrive(id, conf, pair, inUse)
  PROVE  /\ cur' \in Managers /\ cur' \notin inUse
         /\ mgr' \in [Managers -> Manager]
         /\ mgr'[cur'] = NewManager(id, conf, pair)
         /\ \A x \in Managers : x = cur' \/ mgr'[x] = IF x \in inUse THEN mgr[x] ELSE Collected
<1> DEFINE m == CHOOSE x \in Managers : x \notin inUse
<1>1. m \in Managers /\ m \notin inUse
  BY FreeSlot
<1>2. /\ cur' = m
      /\ mgr' = [x \in Managers |-> IF x = m THEN NewManager(id, conf, pair)
                                    ELSE IF x \in inUse THEN mgr[x] ELSE Collected]
  BY DEF SetUpDrive
<1> HIDE DEF m
<1>3. NewManager(id, conf, pair) \in Manager /\ Collected \in Manager
  BY NewManagerForm, CollectedForm
<1>4. mgr' \in [Managers -> Manager]
  BY <1>2, <1>3 DEF ShellTypeOK
<1>5. mgr'[cur'] = NewManager(id, conf, pair)
  BY <1>1, <1>2
<1>6. \A x \in Managers : x = cur' \/ mgr'[x] = IF x \in inUse THEN mgr[x] ELSE Collected
  BY <1>2
<1> QED  BY <1>1, <1>2, <1>4, <1>5, <1>6

\* One manager changes; it keeps its identity, configuration and lease history.
Evolves(e, new) ==
  /\ new \in Manager
  /\ new.identity = e.identity /\ new.config = e.config
  /\ new.lease # "none" => new.held
  /\ e.held => new.held

LEMMA SetManagerFacts ==
  ASSUME ShellTypeOK, ManagersOK, NEW m \in Managers, NEW new, Evolves(mgr[m], new),
         NEW inUse, SetManager(m, new, inUse)
  PROVE  /\ mgr' \in [Managers -> Manager]
         /\ \A x \in Managers : mgr'[x].lease # "none" => mgr'[x].held
         /\ mgr'[cur].identity = identity /\ mgr'[cur].config = config
         /\ mgr[cur].held => mgr'[cur].held
         /\ \A x \in Managers : x # m \/ x \in inUse \cup {cur} => mgr'[x].identity = mgr[x].identity
         /\ mgr'[cur] = IF m = cur THEN new ELSE mgr[cur]
<1>1. mgr' = [mgr EXCEPT ![m] = IF m \in inUse \cup {cur} THEN new ELSE Collected]
  BY DEF SetManager
<1>2. new \in Manager /\ Collected \in Manager /\ Collected.lease = "none"
  BY CollectedForm DEF Evolves
<1>3. mgr' \in [Managers -> Manager]
  BY <1>1, <1>2 DEF ShellTypeOK
<1>4. \A x \in Managers : mgr'[x] = IF x # m THEN mgr[x]
                                    ELSE IF m \in inUse \cup {cur} THEN new ELSE Collected
  BY <1>1 DEF ShellTypeOK
<1>5. mgr'[cur] = IF m = cur THEN new ELSE mgr[cur]
  BY <1>4 DEF ShellTypeOK
<1>6. \A x \in Managers : mgr'[x].lease # "none" => mgr'[x].held
  BY <1>2, <1>4 DEF ManagersOK, Evolves
<1>7. \A x \in Managers : x # m \/ x \in inUse \cup {cur} => mgr'[x].identity = mgr[x].identity
  BY <1>4 DEF Evolves
<1>8. /\ mgr'[cur].identity = identity /\ mgr'[cur].config = config
      /\ mgr[cur].held => mgr'[cur].held
  BY <1>5 DEF ManagersOK, Evolves, ShellTypeOK
<1> QED  BY <1>3, <1>5, <1>6, <1>7, <1>8

-----------------------------------------------------------------------------
(* Saves and emissions *)

LEMMA SnapshotForms ==
  /\ NoSnap \in Snapshot /\ NoSnap.pair = NoPair
  /\ \A conf \in Configs, pair \in Pairing \cup {NoPair} :
       [config |-> conf, pair |-> pair] \in Snapshot
  BY SessionAssumption DEF NoSnap, Snapshot

LEMMA PersistedForm ==
  ASSUME NEW e \in Manager
  PROVE  ToPersistedEnrollment(e) \in {e.pair, NoPair} /\ e.pair \in Pairing \cup {NoPair}
  BY DEF ToPersistedEnrollment, Manager

LEMMA EnqueueFacts ==
  ASSUME IInv, ShellTypeOK, SnapsOK, NEW conf \in Configs,
         NEW pair \in Pairing \cup {NoPair}, EnqueueSnapshot(conf, pair)
  PROVE  /\ IInv' /\ SnapsOK' /\ snaps' \in [1 .. MaxWrites -> Snapshot]
         /\ latest' = latest + 1 /\ latest' \in 1 .. MaxWrites /\ disk' < latest'
         /\ \A r \in 1 .. MaxWrites :
              snaps'[r] = IF r = latest' THEN [config |-> conf, pair |-> pair] ELSE snaps[r]
<1>1. /\ Enqueue
      /\ snaps' = [snaps EXCEPT ![latest + 1] = [config |-> conf, pair |-> pair]]
  BY DEF EnqueueSnapshot
<1>2. /\ latest' = latest + 1 /\ latest < MaxWrites
      /\ UNCHANGED <<reached, writing, disk, failed>>
  BY <1>1 DEF Enqueue
<1>3. /\ latest \in Nat /\ latest + 1 \in 1 .. MaxWrites /\ disk \in Nat /\ disk <= latest
      /\ reached \in Nat /\ reached <= latest
  BY <1>2, QueueAssumption DEF IInv, TypeOK
<1>4. IInv'
  BY <1>1, NextIInv DEF Next
<1>5. snaps' \in [1 .. MaxWrites -> Snapshot]
  BY <1>1, <1>3, SnapshotForms DEF ShellTypeOK
<1>6. \A r \in 1 .. MaxWrites :
        snaps'[r] = IF r = latest' THEN [config |-> conf, pair |-> pair] ELSE snaps[r]
  BY <1>1, <1>2, <1>3 DEF ShellTypeOK
<1>7. SnapsOK'
  <2> SUFFICES ASSUME NEW r \in 1 .. MaxWrites,
                      (r <= reached' /\ r \notin writing') \/ r > latest'
               PROVE  snaps'[r] = NoSnap
    BY DEF SnapsOK
  <2>1. r # latest' /\ ((r <= reached /\ r \notin writing) \/ r > latest)
    BY <1>2, <1>3, QueueAssumption
  <2> QED  BY <1>6, <2>1 DEF SnapsOK
<1> QED  BY <1>2, <1>3, <1>4, <1>5, <1>6, <1>7

LEMMA NotifyFresh ==
  ASSUME Notify, UNCHANGED cur
  PROVE  TabIsFresh' /\ rebuilt' \in BOOLEAN
  BY DEF Notify, TabIsFresh

\* The settings are not touched, or saved with what the current manager holds,
\* which no logout under way overlooks.
QuietOrSaved ==
  \/ UNCHANGED <<vars, snaps, secret, persistedPairId>>
  \/ /\ persistedPairId' \in Pairing \cup {NoPair}
     /\ secret' = identity
     /\ EnqueueSnapshot(config, ToPersistedEnrollment(mgr'[cur]))
     /\ broken' \/ ~logoutInProgress

\* An answer arrives for a call on manager m, current or replaced, which becomes
\* new: what every such step keeps.
LEMMA AnswerKeeps ==
  ASSUME SessionInv, NEW m \in Managers, NEW new, NEW inUse,
         Evolves(mgr[m], new), SetManager(m, new, inUse),
         m = cur /\ ~broken => Own(new.pair, config),
         QuietOrSaved,
         UNCHANGED <<config, identity, made, cur, logoutInProgress, logout, file>>,
         enrol' \in {NoCall} \cup [pc : {"pair", "claim"}, on : Managers],
         enrol' = NoCall \/ (enrol'.on = enrol.on /\ (enrol.on # m \/ m \in inUse \cup {cur})),
         drive' \in {NoCall} \cup [pc : {"renew"}, on : Managers],
         token' \in BOOLEAN, token' => mgr'[cur].held,
         TabIsFresh', rebuilt' \in BOOLEAN,
         broken' \in BOOLEAN, broken => broken'
  PROVE  SessionInv'
<1> USE DEF SessionInv
<1>1. /\ mgr' \in [Managers -> Manager]
      /\ \A x \in Managers : mgr'[x].lease # "none" => mgr'[x].held
      /\ mgr'[cur].identity = identity /\ mgr'[cur].config = config
      /\ \A x \in Managers : x # m \/ x \in inUse \cup {cur} => mgr'[x].identity = mgr[x].identity
      /\ mgr'[cur] = IF m = cur THEN new ELSE mgr[cur]
  BY SetManagerFacts
<1>2. cur \in Managers /\ mgr'[cur] \in Manager /\ config \in Configs
  BY <1>1 DEF ShellTypeOK
<1> DEFINE pair == ToPersistedEnrollment(mgr'[cur])
<1>3. pair \in {mgr'[cur].pair, NoPair} /\ pair \in Pairing \cup {NoPair}
  BY <1>2, PersistedForm
<1> HIDE DEF pair
<1>4. /\ IInv' /\ SnapsOK' /\ snaps' \in [1 .. MaxWrites -> Snapshot]
      /\ secret' \in Nat /\ persistedPairId' \in Pairing \cup {NoPair}
  <2>1. CASE UNCHANGED <<vars, snaps, secret, persistedPairId>>
    BY <2>1 DEF vars, IInv, TypeOK, OneWriter, NewestHandled, SnapsOK, ShellTypeOK
  <2>2. CASE /\ persistedPairId' \in Pairing \cup {NoPair}
             /\ secret' = identity /\ EnqueueSnapshot(config, pair)
    BY <1>2, <1>3, <2>2, EnqueueFacts DEF ShellTypeOK
  <2> QED  BY <2>1, <2>2 DEF QuietOrSaved, pair
<1>5. ShellTypeOK'
  BY <1>1, <1>4 DEF ShellTypeOK
<1>6. ManagersOK'
  <2>1. ASSUME NEW x \in Managers, mgr'[x].identity = 0 PROVE x \notin {cur', enrol'.on}
    <3>1. x # cur
      BY <1>1, <2>1 DEF ShellTypeOK
    <3>2. CASE enrol' = NoCall
      BY <3>1, <3>2, SessionAssumption DEF NoCall
    <3>3. CASE enrol'.on = enrol.on /\ (enrol.on # m \/ m \in inUse \cup {cur})
      BY <1>1, <2>1, <3>1, <3>3 DEF ManagersOK
    <3> QED  BY <3>2, <3>3
  <2> QED  BY <1>1, <2>1 DEF ManagersOK
<1>7. NoTokenBeforeLease'
  BY DEF NoTokenBeforeLease
<1>8. ASSUME ~broken' PROVE PairingsOwn' /\ SecretOK' /\ LogoutOK'
  <2>1. ~broken /\ PairingsOwn /\ SecretOK /\ LogoutOK
    BY <1>8
  <2>2. Own(mgr'[cur].pair, config)
    BY <1>1, <2>1 DEF PairingsOwn
  <2>3. UnderWay' = UnderWay
    BY DEF UnderWay
  <2>4. CASE UNCHANGED <<vars, snaps, secret, persistedPairId>>
    <3>1. PairingsOwn'
      BY <2>1, <2>2, <2>4 DEF PairingsOwn, Own
    <3>2. SecretOK' /\ LogoutOK'
      BY <2>1, <2>3, <2>4 DEF SecretOK, LogoutOK, vars
    <3> QED  BY <3>1, <3>2
  <2>5. CASE /\ secret' = identity /\ EnqueueSnapshot(config, pair) /\ ~logoutInProgress
    <3>1. /\ latest' \in 1 .. MaxWrites
          /\ \A r \in 1 .. MaxWrites :
               snaps'[r] = IF r = latest' THEN [config |-> config, pair |-> pair] ELSE snaps[r]
      BY <1>2, <1>3, <2>5, EnqueueFacts
    <3>2. PairingsOwn'
      <4>1. ASSUME NEW r \in 1 .. MaxWrites PROVE Own(snaps'[r].pair, snaps'[r].config)
        <5>1. CASE r = latest'
          BY <1>3, <2>2, <3>1, <5>1 DEF Own
        <5>2. CASE r # latest'
          BY <2>1, <3>1, <5>2 DEF PairingsOwn
        <5> QED  BY <5>1, <5>2
      <4> QED  BY <2>1, <2>2, <4>1 DEF PairingsOwn, Own
    <3>3. SecretOK'
      BY <2>5 DEF SecretOK, ShellTypeOK
    <3>4. LogoutOK'
      BY <2>1, <2>3, <2>5 DEF LogoutOK
    <3> QED  BY <3>2, <3>3, <3>4
  <2> QED  BY <1>8, <2>4, <2>5 DEF QuietOrSaved, pair
<1> QED  BY <1>4, <1>5, <1>6, <1>7, <1>8

LEMMA EvolvesForms ==
  ASSUME ShellTypeOK, ManagersOK, NEW m \in Managers
  PROVE  /\ Evolves(mgr[m], mgr[m]) /\ Evolves(mgr[m], Cleared(mgr[m]))
         /\ Evolves(mgr[m], Leased(mgr[m]))
         /\ mgr[m].identity # 0 => Evolves(mgr[m], Paired(mgr[m]))
<1>1. mgr[m] \in Manager
  BY DEF ShellTypeOK
<1>2. mgr[m].lease # "none" => mgr[m].held
  BY DEF ManagersOK
<1>3. Evolves(mgr[m], mgr[m])
  BY <1>1, <1>2 DEF Evolves
<1>4. Evolves(mgr[m], Cleared(mgr[m])) /\ Evolves(mgr[m], Leased(mgr[m]))
  BY <1>1, ManagerForms DEF Evolves
<1>5. mgr[m].identity # 0 => Evolves(mgr[m], Paired(mgr[m]))
  BY <1>1, <1>2, PairedForm DEF Evolves
<1> QED  BY <1>3, <1>4, <1>5

LEMMA EmissionSaves ==
  ASSUME NEW e \in Manager, OnEnrollment(e), UNCHANGED cur
  PROVE  QuietOrSaved /\ TabIsFresh' /\ rebuilt' \in BOOLEAN
<1>1. e.pair \in Pairing \cup {NoPair}
  BY DEF Manager
<1>2. Notify
  BY DEF OnEnrollment, Broadcast
<1>3. QuietOrSaved
  BY <1>1 DEF OnEnrollment, QuietOrSaved, SaveSettings, SaveDeviceIdentity
<1> QED  BY <1>2, <1>3, NotifyFresh

LEMMA EnrolOnManager ==
  ASSUME SessionInv, enrol.pc \in {"pair", "claim"}
  PROVE  /\ enrol.on \in Managers /\ mgr[enrol.on] \in Manager
         /\ mgr[enrol.on].identity # 0
         /\ [enrol EXCEPT !.pc = "claim"] \in [pc : {"pair", "claim"}, on : Managers]
         /\ [enrol EXCEPT !.pc = "claim"].on = enrol.on
<1>1. enrol \in [pc : {"pair", "claim"}, on : Managers]
  BY DEF SessionInv, ShellTypeOK, NoCall
<1>2. enrol.on \in Managers
  BY <1>1
<1>3. mgr[enrol.on] \in Manager /\ mgr[enrol.on].identity # 0
  BY <1>2 DEF SessionInv, ShellTypeOK, ManagersOK
<1>4. /\ [enrol EXCEPT !.pc = "claim"] \in [pc : {"pair", "claim"}, on : Managers]
      /\ [enrol EXCEPT !.pc = "claim"].on = enrol.on
  BY <1>1
<1> QED  BY <1>2, <1>3, <1>4

LEMMA CurrentOwn ==
  ASSUME SessionInv, ~broken
  PROVE  /\ Own(mgr[cur].pair, config) /\ Own(Cleared(mgr[cur]).pair, config)
         /\ Own(Leased(mgr[cur]).pair, config)
         /\ mgr[cur].identity # 0 => Own(Paired(mgr[cur]).pair, config)
<1>1. mgr[cur] \in Manager /\ mgr[cur].identity = identity /\ mgr[cur].config = config
  BY DEF SessionInv, ShellTypeOK, ManagersOK
<1>2. Own(mgr[cur].pair, config)
  BY DEF SessionInv, PairingsOwn
<1>3. Cleared(mgr[cur]).pair = NoPair /\ Leased(mgr[cur]).pair = mgr[cur].pair
  BY <1>1, ManagerForms
<1>4. mgr[cur].identity # 0 =>
        Paired(mgr[cur]).pair = [identity |-> identity, config |-> config]
  BY <1>1, PairedForm
<1> QED  BY <1>2, <1>3, <1>4 DEF Own

LEMMA TokenKept ==
  ASSUME SessionInv, NEW m \in Managers, NEW new, NEW inUse,
         Evolves(mgr[m], new), SetManager(m, new, inUse)
  PROVE  (token => mgr'[cur].held) /\ (DriveAccessDecision(mgr'[cur]) => mgr'[cur].held)
<1>1. /\ \A x \in Managers : mgr'[x].lease # "none" => mgr'[x].held
      /\ mgr[cur].held => mgr'[cur].held
  BY SetManagerFacts DEF SessionInv
<1> QED  BY <1>1 DEF SessionInv, NoTokenBeforeLease, ShellTypeOK, DriveAccessDecision, HasValidLease

LEMMA PairRepliesKeeps == ASSUME SessionInv, PairReplies PROVE SessionInv'
<1> DEFINE m == enrol.on
<1>1. /\ m \in Managers /\ mgr[m] \in Manager /\ mgr[m].identity # 0
      /\ [enrol EXCEPT !.pc = "claim"] \in [pc : {"pair", "claim"}, on : Managers]
      /\ [enrol EXCEPT !.pc = "claim"].on = m
  BY EnrolOnManager DEF PairReplies
<1>2. /\ UNCHANGED <<config, identity, made, cur, logoutInProgress, logout, file,
                     drive, token, broken>>
  BY DEF PairReplies
<1>3. /\ drive \in {NoCall} \cup [pc : {"renew"}, on : Managers]
      /\ token \in BOOLEAN /\ broken \in BOOLEAN /\ rebuilt \in BOOLEAN /\ TabIsFresh
      /\ ShellTypeOK /\ ManagersOK
  BY DEF SessionInv, ShellTypeOK
<1> HIDE DEF m
<1>4. CASE /\ SetManager(m, Paired(mgr[m]), InUse) /\ OnEnrollment(Paired(mgr[m]))
           /\ enrol' = [enrol EXCEPT !.pc = "claim"]
  <2>1. Evolves(mgr[m], Paired(mgr[m])) /\ Paired(mgr[m]) \in Manager
    BY <1>1, <1>3, EvolvesForms DEF Evolves
  <2>2. m \in InUse
    BY DEF InUse, m
  <2>3. QuietOrSaved /\ TabIsFresh' /\ rebuilt' \in BOOLEAN
    BY <1>2, <1>4, <2>1, EmissionSaves
  <2>4. m = cur /\ ~broken => Own(Paired(mgr[m]).pair, config)
    BY <1>1, CurrentOwn
  <2>5. token => mgr'[cur].held
    BY <1>1, <1>4, <2>1, TokenKept
  <2> QED  BY <1>1, <1>2, <1>3, <1>4, <2>1, <2>2, <2>3, <2>4, <2>5, AnswerKeeps DEF m
<1>5. CASE /\ SetManager(m, mgr[m], {drive.on}) /\ enrol' = NoCall
           /\ UNCHANGED <<vars, secret, persistedPairId, snaps, tab, rebuilt>>
  <2>1. Evolves(mgr[m], mgr[m])
    BY <1>1, <1>3, EvolvesForms
  <2>2. mgr'[cur] = mgr[cur]
    BY <1>1, <1>3, <1>5, <2>1, SetManagerFacts
  <2>3. TabIsFresh'
    BY <1>2, <1>3, <1>5, <2>2 DEF TabIsFresh
  <2>4. m = cur /\ ~broken => Own(mgr[m].pair, config)
    BY CurrentOwn
  <2>5. token => mgr'[cur].held
    BY <1>1, <1>5, <2>1, TokenKept
  <2>6. QuietOrSaved
    BY <1>5 DEF QuietOrSaved
  <2> QED  BY <1>1, <1>2, <1>3, <1>5, <2>1, <2>3, <2>4, <2>5, <2>6, AnswerKeeps
<1> QED  BY <1>4, <1>5 DEF PairReplies, m

LEMMA ClaimGrantedKeeps == ASSUME SessionInv, ClaimGranted PROVE SessionInv'
<1> DEFINE m == enrol.on
           new == Leased(mgr[m])
<1>1. m \in Managers /\ mgr[m] \in Manager
  BY EnrolOnManager DEF ClaimGranted
<1>2. /\ UNCHANGED <<config, identity, made, cur, logoutInProgress, logout, file, drive, token>>
      /\ SetManager(m, new, {drive.on}) /\ enrol' = NoCall
      /\ broken' = (broken \/ UnderWay # {})
  BY DEF ClaimGranted
<1>3. /\ drive \in {NoCall} \cup [pc : {"renew"}, on : Managers]
      /\ token \in BOOLEAN /\ broken \in BOOLEAN /\ ShellTypeOK /\ ManagersOK
  BY DEF SessionInv, ShellTypeOK
<1>4. Evolves(mgr[m], new)
  BY <1>1, <1>3, EvolvesForms
<1>5. m = cur /\ ~broken => Own(new.pair, config)
  BY CurrentOwn
<1>6. TabIsFresh' /\ rebuilt' \in BOOLEAN
  BY <1>2, NotifyFresh DEF ClaimGranted, Broadcast
<1>7. persistedPairId' \in Pairing \cup {NoPair}
  BY <1>1, <1>3 DEF ClaimGranted, ShellTypeOK, Manager
<1>8. broken' \/ ~logoutInProgress
  BY <1>2 DEF SessionInv, LogoutOK
<1>9. QuietOrSaved
  BY <1>7, <1>8 DEF ClaimGranted, QuietOrSaved, SaveSettings, SaveDeviceIdentity
<1>10. token => mgr'[cur].held
  BY <1>1, <1>2, <1>4, TokenKept
<1>11. broken' \in BOOLEAN /\ (broken => broken')
  BY <1>2
<1> HIDE DEF m, new
<1> QED
  BY <1>1, <1>2, <1>3, <1>4, <1>5, <1>6, <1>9, <1>10, <1>11, AnswerKeeps

LEMMA ClaimFailsKeeps == ASSUME SessionInv, ClaimFails PROVE SessionInv'
<1> DEFINE m == enrol.on
           new == Cleared(mgr[m])
<1>1. m \in Managers /\ mgr[m] \in Manager
  BY EnrolOnManager DEF ClaimFails
<1>2. /\ UNCHANGED <<config, identity, made, cur, logoutInProgress, logout, file, drive, token,
                     broken>>
      /\ SetManager(m, new, {drive.on}) /\ enrol' = NoCall
  BY DEF ClaimFails
<1>3. /\ drive \in {NoCall} \cup [pc : {"renew"}, on : Managers]
      /\ token \in BOOLEAN /\ broken \in BOOLEAN /\ ShellTypeOK /\ ManagersOK
  BY DEF SessionInv, ShellTypeOK
<1>4. Evolves(mgr[m], new) /\ new \in Manager
  BY <1>1, <1>3, EvolvesForms DEF Evolves
<1>5. m = cur /\ ~broken => Own(new.pair, config)
  BY CurrentOwn
<1>6. QuietOrSaved /\ TabIsFresh' /\ rebuilt' \in BOOLEAN
  BY <1>2, <1>4, EmissionSaves DEF ClaimFails
<1>7. token => mgr'[cur].held
  BY <1>1, <1>2, <1>4, TokenKept
<1> HIDE DEF m, new
<1> QED  BY <1>1, <1>2, <1>3, <1>4, <1>5, <1>6, <1>7, AnswerKeeps

LEMMA DriveOnManager ==
  ASSUME SessionInv, drive # NoCall
  PROVE  drive.on \in Managers /\ mgr[drive.on] \in Manager
<1>1. drive \in [pc : {"renew"}, on : Managers]
  BY DEF SessionInv, ShellTypeOK
<1>2. drive.on \in Managers
  BY <1>1
<1> QED  BY <1>2 DEF SessionInv, ShellTypeOK

LEMMA RenewalGrantedKeeps == ASSUME SessionInv, RenewalGranted PROVE SessionInv'
<1> DEFINE m == drive.on
           new == Leased(mgr[m])
<1>1. m \in Managers /\ mgr[m] \in Manager
  BY DriveOnManager DEF RenewalGranted
<1>2. /\ UNCHANGED <<config, identity, made, cur, logoutInProgress, logout, file, enrol, broken>>
      /\ SetManager(m, new, {enrol.on}) /\ drive' = NoCall
      /\ token' \in {token, DriveAccessDecision(mgr'[cur])}
  BY DEF RenewalGranted
<1>3. /\ enrol \in {NoCall} \cup [pc : {"pair", "claim"}, on : Managers]
      /\ token \in BOOLEAN /\ broken \in BOOLEAN /\ ShellTypeOK /\ ManagersOK
  BY DEF SessionInv, ShellTypeOK
<1>4. Evolves(mgr[m], new) /\ new \in Manager
  BY <1>1, <1>3, EvolvesForms DEF Evolves
<1>5. m = cur /\ ~broken => Own(new.pair, config)
  BY CurrentOwn
<1>6. QuietOrSaved /\ TabIsFresh' /\ rebuilt' \in BOOLEAN
  BY <1>2, <1>4, EmissionSaves DEF RenewalGranted
<1>7. token' \in BOOLEAN /\ (token' => mgr'[cur].held)
  BY <1>1, <1>2, <1>3, <1>4, TokenKept DEF DriveAccessDecision, HasValidLease
<1> HIDE DEF m, new
<1> QED  BY <1>1, <1>2, <1>3, <1>4, <1>5, <1>6, <1>7, AnswerKeeps

LEMMA RenewalFailsKeeps == ASSUME SessionInv, RenewalFails PROVE SessionInv'
<1> DEFINE m == drive.on
<1>1. m \in Managers /\ mgr[m] \in Manager
  BY DriveOnManager DEF RenewalFails
<1>2. /\ UNCHANGED <<config, identity, made, cur, logoutInProgress, logout, file, enrol, broken>>
      /\ drive' = NoCall /\ token' \in {token, FALSE}
  BY DEF RenewalFails
<1>3. /\ enrol \in {NoCall} \cup [pc : {"pair", "claim"}, on : Managers]
      /\ token \in BOOLEAN /\ broken \in BOOLEAN /\ rebuilt \in BOOLEAN /\ TabIsFresh
      /\ ShellTypeOK /\ ManagersOK
  BY DEF SessionInv, ShellTypeOK
<1>4. CASE SetManager(m, Cleared(mgr[m]), {enrol.on}) /\ OnEnrollment(Cleared(mgr[m]))
  <2>1. Evolves(mgr[m], Cleared(mgr[m])) /\ Cleared(mgr[m]) \in Manager
    BY <1>1, <1>3, EvolvesForms DEF Evolves
  <2>2. m = cur /\ ~broken => Own(Cleared(mgr[m]).pair, config)
    BY CurrentOwn
  <2>3. QuietOrSaved /\ TabIsFresh' /\ rebuilt' \in BOOLEAN
    BY <1>2, <1>4, <2>1, EmissionSaves
  <2>4. token' \in BOOLEAN /\ (token' => mgr'[cur].held)
    <3>1. token => mgr'[cur].held
      BY <1>1, <1>4, <2>1, TokenKept
    <3>2. token' = token \/ token' = FALSE
      BY <1>2
    <3>3. token \in BOOLEAN
      BY <1>3
    <3>4. CASE token' = token
      BY <3>1, <3>3, <3>4
    <3>5. CASE token' = FALSE
      BY <3>5
    <3> QED  BY <3>2, <3>4, <3>5
  <2> HIDE DEF m
  <2> QED  BY <1>1, <1>2, <1>3, <1>4, <2>1, <2>2, <2>3, <2>4, AnswerKeeps
<1>5. CASE /\ SetManager(m, mgr[m], {enrol.on})
           /\ UNCHANGED <<vars, secret, persistedPairId, snaps, tab, rebuilt>>
  <2>1. Evolves(mgr[m], mgr[m])
    BY <1>1, <1>3, EvolvesForms
  <2>2. mgr'[cur] = mgr[cur]
    BY <1>1, <1>3, <1>5, <2>1, SetManagerFacts
  <2>3. TabIsFresh' /\ QuietOrSaved
    BY <1>2, <1>3, <1>5, <2>2 DEF TabIsFresh, QuietOrSaved
  <2>4. m = cur /\ ~broken => Own(mgr[m].pair, config)
    BY CurrentOwn
  <2>5. token' \in BOOLEAN /\ (token' => mgr'[cur].held)
    <3>1. token => mgr'[cur].held
      BY <1>1, <1>5, <2>1, TokenKept
    <3>2. token' = token \/ token' = FALSE
      BY <1>2
    <3>3. token \in BOOLEAN
      BY <1>3
    <3>4. CASE token' = token
      BY <3>1, <3>3, <3>4
    <3>5. CASE token' = FALSE
      BY <3>5
    <3> QED  BY <3>2, <3>4, <3>5
  <2> HIDE DEF m
  <2> QED  BY <1>1, <1>2, <1>3, <1>5, <2>1, <2>3, <2>4, <2>5, AnswerKeeps
<1> QED  BY <1>4, <1>5 DEF RenewalFails

LEMMA LeaseExpiresKeeps == ASSUME SessionInv, LeaseExpires PROVE SessionInv'
<1> DEFINE new == [mgr[cur] EXCEPT !.lease = "expired"]
<1>1. cur \in Managers /\ mgr[cur] \in Manager /\ mgr[cur].lease = "valid" /\ mgr[cur].held
  BY DEF SessionInv, ShellTypeOK, ManagersOK, LeaseExpires, HasValidLease
<1>2. /\ UNCHANGED <<vars, config, identity, made, secret, cur, persistedPairId, token,
                     logoutInProgress, enrol, drive, logout, snaps, file, tab, broken, rebuilt>>
      /\ SetManager(cur, new, {})
  BY DEF LeaseExpires, calls, history
<1>3. /\ enrol \in {NoCall} \cup [pc : {"pair", "claim"}, on : Managers]
      /\ drive \in {NoCall} \cup [pc : {"renew"}, on : Managers]
      /\ token \in BOOLEAN /\ broken \in BOOLEAN /\ rebuilt \in BOOLEAN /\ TabIsFresh
      /\ ShellTypeOK /\ ManagersOK
  BY DEF SessionInv, ShellTypeOK
<1>4. new \in Manager /\ new.identity = mgr[cur].identity /\ new.config = mgr[cur].config
      /\ new.pair = mgr[cur].pair /\ new.lease = "expired" /\ new.held = mgr[cur].held
  BY <1>1 DEF Manager
<1> HIDE DEF new
<1>5. Evolves(mgr[cur], new)
  BY <1>1, <1>4 DEF Evolves
<1>6. mgr'[cur] = new
  BY <1>1, <1>2, <1>3, <1>5, SetManagerFacts
<1>7. ShownStatus(new) = ShownStatus(mgr[cur])
  BY <1>1, <1>4 DEF ShownStatus, StatusOf
<1>8. TabIsFresh' /\ QuietOrSaved
  BY <1>2, <1>3, <1>6, <1>7 DEF TabIsFresh, QuietOrSaved
<1>9. cur = cur /\ ~broken => Own(new.pair, config)
  BY <1>4, CurrentOwn
<1>10. token => mgr'[cur].held
  BY <1>1, <1>2, <1>5, TokenKept
<1>11. enrol'.on = enrol.on /\ cur \in {} \cup {cur}
  BY <1>2
<1> QED  BY <1>1, <1>2, <1>3, <1>5, <1>8, <1>9, <1>10, <1>11, AnswerKeeps

\* Steps that touch neither the managers nor the stores.
LEMMA QuietKeeps ==
  ASSUME SessionInv,
         UNCHANGED <<vars, config, identity, made, secret, mgr, cur, persistedPairId,
                     logoutInProgress, logout, snaps, file, broken>>,
         enrol' = enrol \/ enrol' = [pc |-> "pair", on |-> cur],
         drive' = drive \/ drive' = [pc |-> "renew", on |-> cur],
         token' \in BOOLEAN, token' => mgr[cur].held,
         TabIsFresh', rebuilt' \in BOOLEAN
  PROVE  SessionInv'
<1> USE DEF SessionInv
<1>1. cur \in Managers /\ mgr[cur].identity # 0
  BY DEF ShellTypeOK, ManagersOK
<1>2. ShellTypeOK'
  BY <1>1 DEF ShellTypeOK
<1>3. ManagersOK'
  BY <1>1 DEF ManagersOK
<1>4. IInv' /\ SnapsOK'
  BY DEF vars, IInv, TypeOK, OneWriter, NewestHandled, SnapsOK
<1>5. NoTokenBeforeLease'
  BY DEF NoTokenBeforeLease
<1>6. ~broken' => PairingsOwn' /\ SecretOK' /\ LogoutOK'
  BY DEF vars, PairingsOwn, Own, SecretOK, LogoutOK, UnderWay
<1> QED  BY <1>2, <1>3, <1>4, <1>5, <1>6

LEMMA SurfacesKeep ==
  ASSUME SessionInv, Display \/ Hide \/ EnrolStart \/ DriveStart \/ UNCHANGED svars
  PROVE  SessionInv'
<1>0. /\ token \in BOOLEAN /\ rebuilt \in BOOLEAN /\ TabIsFresh
      /\ token => mgr[cur].held
  BY DEF SessionInv, ShellTypeOK, NoTokenBeforeLease
<1>1. CASE UNCHANGED svars
  <2>1. /\ UNCHANGED <<vars, config, identity, made, secret, mgr, cur, persistedPairId,
                       logoutInProgress, logout, snaps, file, broken>>
        /\ UNCHANGED <<enrol, drive, token, tab, rebuilt>>
    BY <1>1 DEF svars, shell, calls, history
  <2>2. TabIsFresh'
    BY <1>0, <2>1 DEF TabIsFresh
  <2> QED  BY <1>0, <2>1, <2>2, QuietKeeps
<1>2. CASE Display \/ Hide
  <2>1. /\ UNCHANGED <<vars, config, identity, made, secret, mgr, cur, persistedPairId,
                       logoutInProgress, logout, snaps, file, broken>>
        /\ UNCHANGED <<enrol, drive, token>> /\ rebuilt' = FALSE
        /\ tab' \in {"closed", ShownStatus(mgr[cur])}
    BY <1>2 DEF Display, Hide, shell, calls
  <2>2. TabIsFresh'
    BY <2>1 DEF TabIsFresh
  <2> QED  BY <1>0, <2>1, <2>2, QuietKeeps
<1>3. CASE EnrolStart
  <2>1. /\ UNCHANGED <<vars, config, identity, made, secret, mgr, cur, persistedPairId,
                       logoutInProgress, logout, snaps, file, broken>>
        /\ UNCHANGED <<drive, token, tab, rebuilt>>
        /\ enrol' = [pc |-> "pair", on |-> cur]
    BY <1>3 DEF EnrolStart, shell, history
  <2>2. TabIsFresh'
    BY <1>0, <2>1 DEF TabIsFresh
  <2> QED  BY <1>0, <2>1, <2>2, QuietKeeps
<1>4. CASE DriveStart
  <2>1. /\ UNCHANGED <<vars, config, identity, made, secret, mgr, cur, persistedPairId,
                       logoutInProgress, logout, snaps, file, broken>>
        /\ UNCHANGED <<enrol, tab, rebuilt>>
        /\ drive' = drive \/ drive' = [pc |-> "renew", on |-> cur]
    BY <1>4 DEF DriveStart, history
  <2>2. TabIsFresh'
    BY <1>0, <2>1 DEF TabIsFresh
  <2>3. token' = token \/ token' = (mgr[cur].pair # NoPair /\ DriveAccessDecision(mgr[cur]))
    BY <1>4 DEF DriveStart
  <2>4. DriveAccessDecision(mgr[cur]) => mgr[cur].held
    BY DEF SessionInv, ManagersOK, ShellTypeOK, DriveAccessDecision, HasValidLease
  <2>5. token' \in BOOLEAN /\ (token' => mgr[cur].held)
    <3>1. CASE token' = token
      BY <1>0, <3>1
    <3>2. CASE token' = (mgr[cur].pair # NoPair /\ DriveAccessDecision(mgr[cur]))
      BY <2>4, <3>2
    <3> QED  BY <2>3, <3>1, <3>2
  <2> QED  BY <1>0, <2>1, <2>2, <2>5, QuietKeeps
<1> QED  BY <1>1, <1>2, <1>3, <1>4

-----------------------------------------------------------------------------
(* The data file *)

LEMMA DroppedFacts ==
  ASSUME ShellTypeOK, NEW rev \in 1 .. MaxWrites, snaps' = [snaps EXCEPT ![rev] = NoSnap]
  PROVE  /\ snaps' \in [1 .. MaxWrites -> Snapshot]
         /\ \A r \in 1 .. MaxWrites : snaps'[r] = IF r = rev THEN NoSnap ELSE snaps[r]
  BY SnapshotForms DEF ShellTypeOK

\* The queue moves and the shell does not: enough that a snapshot is only dropped
\* and that the file keeps its content or takes that of a snapshot.
LEMMA FileStepKeeps ==
  ASSUME SessionInv, IInv', SnapsOK', UNCHANGED <<shell, calls, tab, history, latest>>,
         snaps' \in [1 .. MaxWrites -> Snapshot],
         \A r \in 1 .. MaxWrites : snaps'[r] = snaps[r] \/ snaps'[r] = NoSnap,
         \/ file' = file /\ disk' = disk
         \/ disk' \in 1 .. MaxWrites /\ file' = snaps[disk']
  PROVE  SessionInv'
<1> USE DEF SessionInv
<1>0. NoSnap.pair = NoPair
  BY SnapshotForms
<1>1. ShellTypeOK'
  BY DEF ShellTypeOK, shell, calls, history
<1>2. ManagersOK' /\ NoTokenBeforeLease' /\ TabIsFresh'
  BY DEF ManagersOK, NoTokenBeforeLease, TabIsFresh, shell, calls, history
<1>3. ASSUME ~broken' PROVE PairingsOwn' /\ SecretOK' /\ LogoutOK'
  <2>1. ~broken /\ PairingsOwn /\ SecretOK /\ LogoutOK
    BY <1>3 DEF history
  <2>2. /\ UNCHANGED <<mgr, cur, config, identity, secret, logout, logoutInProgress,
                       persistedPairId>>
        /\ UnderWay' = UnderWay
    BY DEF shell, calls, UnderWay
  <2>3. ASSUME NEW r \in 1 .. MaxWrites
        PROVE  /\ Own(snaps'[r].pair, snaps'[r].config)
               /\ snaps[r].pair = NoPair => snaps'[r].pair = NoPair
    BY <1>0, <2>1 DEF PairingsOwn, Own
  <2>4. Own(file'.pair, file'.config)
    BY <2>1 DEF PairingsOwn
  <2>5. PairingsOwn'
    BY <2>1, <2>2, <2>3, <2>4 DEF PairingsOwn, Own
  <2>6. SecretOK'
    BY <2>1, <2>2, <2>3 DEF SecretOK
  <2>7. LogoutOK'
    <3>1. ASSUME NEW l \in UnderWay
          PROVE  /\ latest \in 1 .. MaxWrites /\ snaps'[latest].pair = NoPair
                 /\ disk' = latest => file'.pair = NoPair
      BY <2>1, <2>3 DEF LogoutOK
    <3> QED  BY <2>1, <2>2, <3>1 DEF LogoutOK
  <2> QED  BY <2>5, <2>6, <2>7
<1> QED  BY <1>1, <1>2, <1>3

LEMMA QueueLinkKeeps == ASSUME SessionInv, QueueLink PROVE SessionInv'
<1> DEFINE rev == reached + 1
<1>1. /\ ReachLink
      /\ snaps' = IF Disposable(rev) THEN [snaps EXCEPT ![rev] = NoSnap] ELSE snaps
      /\ UNCHANGED <<shell, calls, file, tab, history>>
  BY DEF QueueLink
<1>2. /\ writing = {} /\ reached < latest /\ reached' = rev /\ UNCHANGED <<latest, disk>>
      /\ writing' = IF Disposable(rev) THEN writing ELSE writing \cup {rev}
  BY <1>1 DEF ReachLink, PreviousSettled
<1>3. /\ rev \in 1 .. MaxWrites /\ reached \in Nat /\ latest \in Nat
      /\ IInv /\ ShellTypeOK /\ SnapsOK
  BY <1>2, QueueAssumption DEF SessionInv, IInv, TypeOK
<1>4. IInv'
  BY <1>1, <1>3, NextIInv DEF Next
<1>5. CASE Disposable(rev)
  <2>1. /\ snaps' \in [1 .. MaxWrites -> Snapshot]
        /\ \A r \in 1 .. MaxWrites : snaps'[r] = IF r = rev THEN NoSnap ELSE snaps[r]
    BY <1>1, <1>3, <1>5, DroppedFacts
  <2>2. writing' = {}
    BY <1>2, <1>5
  <2>3. SnapsOK'
    BY <1>2, <1>3, <2>1, <2>2, QueueAssumption DEF SnapsOK
  <2> QED  BY <1>1, <1>2, <1>4, <2>1, <2>3, FileStepKeeps
<1>6. CASE ~Disposable(rev)
  <2>1. snaps' = snaps /\ writing' = {rev}
    BY <1>1, <1>2, <1>6
  <2>2. SnapsOK'
    BY <1>2, <1>3, <2>1, QueueAssumption DEF SnapsOK
  <2> QED  BY <1>1, <1>2, <1>3, <1>4, <2>1, <2>2, FileStepKeeps DEF ShellTypeOK
<1> QED  BY <1>5, <1>6

LEMMA WriteSettlesKeeps == ASSUME SessionInv, WriteSettles PROVE SessionInv'
<1>1. PICK rev \in writing : FileWritten(rev) \/ FileRejected(rev)
  BY DEF WriteSettles
<1>2. /\ IInv /\ ShellTypeOK /\ SnapsOK /\ rev \in 1 .. MaxWrites /\ rev = reached
      /\ writing = {rev} /\ reached \in Nat
  <2>1. IInv /\ ShellTypeOK /\ SnapsOK
    BY DEF SessionInv
  <2>2. writing \subseteq {reached} /\ writing \subseteq 1 .. MaxWrites /\ reached \in Nat
    BY <2>1, QueueAssumption DEF IInv, TypeOK, OneWriter
  <2>3. rev = reached /\ writing = {rev}
    BY <2>2
  <2> QED  BY <2>1, <2>2, <2>3
<1>3. /\ snaps' = [snaps EXCEPT ![rev] = NoSnap]
      /\ writing' = writing \ {rev} /\ UNCHANGED <<latest, reached>>
      /\ UNCHANGED <<shell, calls, tab, history>>
      /\ \/ file' = file /\ disk' = disk
         \/ disk' = rev /\ file' = snaps[disk']
  BY <1>1 DEF FileWritten, FileRejected, Dropped, WriteLands, WriteRejects
<1>4. IInv'
  BY <1>1, <1>2, SettleIInv DEF FileWritten, FileRejected, Settle
<1>5. /\ snaps' \in [1 .. MaxWrites -> Snapshot]
      /\ \A r \in 1 .. MaxWrites : snaps'[r] = IF r = rev THEN NoSnap ELSE snaps[r]
  BY <1>2, <1>3, DroppedFacts
<1>6. SnapsOK'
  BY <1>2, <1>3, <1>5 DEF SnapsOK
<1> QED  BY <1>2, <1>3, <1>4, <1>5, <1>6, FileStepKeeps

-----------------------------------------------------------------------------
(* Replacing the manager: configuration, logout, restart *)

\* What setUpDrive leaves: a fresh current manager with the identity, configuration
\* and pairing it was built with, beside those that calls in flight refer to.
LEMMA FreshManager ==
  ASSUME ShellTypeOK, ManagersOK, NEW id \in Nat \ {0}, NEW conf \in Configs,
         NEW pair \in Pairing \cup {NoPair}, NEW inUse,
         SetUpDrive(id, conf, pair, inUse),
         identity' = id, config' = conf,
         \/ inUse = InUse /\ enrol' = enrol
         \/ inUse = {} /\ enrol' = NoCall
  PROVE  /\ ManagersOK' /\ cur' \in Managers /\ mgr' \in [Managers -> Manager]
         /\ mgr'[cur'].pair = pair
<1>1. inUse \subseteq {enrol.on, drive.on}
  BY DEF InUse
<1>2. /\ cur' \in Managers /\ cur' \notin inUse
      /\ mgr' \in [Managers -> Manager]
      /\ mgr'[cur'] = NewManager(id, conf, pair)
      /\ \A x \in Managers : x = cur' \/ mgr'[x] = IF x \in inUse THEN mgr[x] ELSE Collected
  BY <1>1, SetUpFacts
<1>3. /\ mgr'[cur'].identity = id /\ mgr'[cur'].config = conf /\ mgr'[cur'].pair = pair
      /\ mgr'[cur'].lease = "none"
  BY <1>2 DEF NewManager
<1>4. \A x \in Managers : mgr'[x].lease # "none" => mgr'[x].held
  BY <1>2, <1>3, CollectedForm DEF ManagersOK
<1>5. ASSUME NEW x \in Managers, mgr'[x].identity = 0 PROVE x \notin {cur', enrol'.on}
  <2>1. x # cur'
    BY <1>3, <1>5
  <2>2. CASE inUse = InUse /\ enrol' = enrol
    <3>1. SUFFICES ASSUME x = enrol.on PROVE FALSE
      BY <2>1, <2>2
    <3>2. x \in inUse
      BY <2>2, <3>1 DEF InUse
    <3>3. mgr'[x] = mgr[x]
      BY <1>2, <2>1, <3>2
    <3> QED  BY <1>5, <3>1, <3>3 DEF ManagersOK
  <2>3. CASE enrol' = NoCall
    BY <2>1, <2>3, SessionAssumption DEF NoCall
  <2> QED  BY <2>2, <2>3
<1> QED  BY <1>2, <1>3, <1>4, <1>5 DEF ManagersOK

LEMMA UpdateConfigKeeps ==
  ASSUME SessionInv, NEW conf \in Configs, UpdateConfig(conf) PROVE SessionInv'
<1> USE DEF SessionInv
<1>1. /\ config' = conf /\ persistedPairId' = NoPair /\ token' = FALSE
      /\ SetUpDrive(identity, conf, NoPair, InUse) /\ secret' = identity
      /\ EnqueueSnapshot(conf, ToPersistedEnrollment(mgr'[cur']))
      /\ rebuilt' = (tab # "closed") /\ broken' = (broken \/ UnderWay # {})
      /\ UNCHANGED <<identity, made, logoutInProgress, enrol, drive, logout, file, tab>>
  BY DEF UpdateConfig, SaveSettings, SaveDeviceIdentity, calls
<1>2. NoPair \in Pairing \cup {NoPair} /\ identity \in Nat \ {0} /\ identity' = identity
  BY <1>1 DEF ShellTypeOK
<1>3. /\ ManagersOK' /\ cur' \in Managers /\ mgr' \in [Managers -> Manager]
      /\ mgr'[cur'].pair = NoPair
  BY <1>1, <1>2, FreshManager
<1> DEFINE pair == ToPersistedEnrollment(mgr'[cur'])
<1>4. pair = NoPair
  BY <1>3 DEF ToPersistedEnrollment
<1> HIDE DEF pair
<1>5. EnqueueSnapshot(conf, NoPair)
  BY <1>1, <1>4 DEF pair
<1>6. /\ IInv' /\ SnapsOK' /\ snaps' \in [1 .. MaxWrites -> Snapshot]
      /\ latest' \in 1 .. MaxWrites
      /\ \A r \in 1 .. MaxWrites :
           snaps'[r] = IF r = latest' THEN [config |-> conf, pair |-> NoPair] ELSE snaps[r]
  BY <1>2, <1>5, EnqueueFacts
<1>7. ShellTypeOK'
  BY <1>1, <1>2, <1>3, <1>6 DEF ShellTypeOK
<1>8. NoTokenBeforeLease' /\ TabIsFresh'
  BY <1>1 DEF NoTokenBeforeLease, TabIsFresh
<1>9. ASSUME ~broken' PROVE PairingsOwn' /\ SecretOK' /\ LogoutOK'
  <2>1. PairingsOwn /\ SecretOK /\ LogoutOK /\ UnderWay = {} /\ UnderWay' = UnderWay
    BY <1>1, <1>9 DEF UnderWay
  <2>2. PairingsOwn'
    BY <1>1, <1>3, <1>6, <2>1 DEF PairingsOwn, Own
  <2>3. SecretOK'
    BY <1>1, <1>2 DEF SecretOK
  <2>4. LogoutOK'
    BY <1>1, <2>1 DEF LogoutOK
  <2> QED  BY <2>2, <2>3, <2>4
<1> QED  BY <1>3, <1>6, <1>7, <1>8, <1>9

\* Up to its await a logout has cleared the manager and both stores' contents to
\* be; its snapshot is the newest one and carries no pairing.
LEMMA LogoutStartKeeps ==
  ASSUME SessionInv, NEW l \in Logouts, LogoutStart(l) PROVE SessionInv'
<1> USE DEF SessionInv
<1>1. /\ l \notin UnderWay /\ SetManager(cur, Cleared(mgr[cur]), InUse) /\ Notify
      /\ secret' = 0 /\ persistedPairId' = NoPair /\ EnqueueSnapshot(config, NoPair)
      /\ logoutInProgress' = TRUE /\ logout' = [logout EXCEPT ![l] = latest']
      /\ broken' = (broken \/ UnderWay # {})
      /\ UNCHANGED <<config, identity, made, cur, token, enrol, drive, file>>
  BY DEF LogoutStart, Broadcast
<1>2. cur \in Managers /\ mgr[cur] \in Manager /\ config \in Configs
  BY DEF ShellTypeOK
<1>3. Evolves(mgr[cur], Cleared(mgr[cur])) /\ Cleared(mgr[cur]).pair = NoPair
  BY <1>2, EvolvesForms, ManagerForms
<1>4. /\ mgr' \in [Managers -> Manager]
      /\ \A x \in Managers : mgr'[x].lease # "none" => mgr'[x].held
      /\ mgr'[cur].identity = identity /\ mgr'[cur].config = config
      /\ mgr[cur].held => mgr'[cur].held
      /\ \A x \in Managers : x # cur \/ x \in InUse \cup {cur} => mgr'[x].identity = mgr[x].identity
      /\ mgr'[cur] = Cleared(mgr[cur])
  BY <1>1, <1>2, <1>3, SetManagerFacts
<1>5. /\ IInv' /\ SnapsOK' /\ snaps' \in [1 .. MaxWrites -> Snapshot]
      /\ latest' \in 1 .. MaxWrites /\ disk' < latest'
      /\ \A r \in 1 .. MaxWrites :
           snaps'[r] = IF r = latest' THEN [config |-> config, pair |-> NoPair] ELSE snaps[r]
  BY <1>1, <1>2, EnqueueFacts
<1>6. TabIsFresh' /\ rebuilt' \in BOOLEAN
  BY <1>1, NotifyFresh
<1>7. logout' \in [Logouts -> Nat] /\ logout'[l] = latest' /\ latest' # 0
      /\ \A k \in Logouts : k # l => logout'[k] = logout[k]
  BY <1>1, <1>5, QueueAssumption DEF ShellTypeOK
<1>8. ShellTypeOK'
  BY <1>1, <1>4, <1>5, <1>6, <1>7 DEF ShellTypeOK
<1>9. ManagersOK'
  BY <1>1, <1>4 DEF ManagersOK
<1>10. NoTokenBeforeLease'
  BY <1>1, <1>4 DEF NoTokenBeforeLease
<1>11. ASSUME ~broken' PROVE PairingsOwn' /\ SecretOK' /\ LogoutOK'
  <2>1. PairingsOwn /\ SecretOK /\ LogoutOK /\ UnderWay = {}
    BY <1>1, <1>11
  <2>2. UnderWay' = {l}
    BY <1>7, <2>1 DEF UnderWay
  <2>3. PairingsOwn'
    BY <1>1, <1>3, <1>4, <1>5, <2>1 DEF PairingsOwn, Own
  <2>4. SecretOK'
    BY <1>1, <2>2 DEF SecretOK
  <2>5. snaps'[latest'].pair = NoPair /\ disk' # latest'
    <3>1. disk' \in Nat /\ latest' \in Nat
      BY <1>5, QueueAssumption DEF IInv, TypeOK
    <3> QED  BY <1>5, <3>1
  <2>6. LogoutOK'
    BY <1>1, <1>5, <1>7, <2>2, <2>5 DEF LogoutOK
  <2> QED  BY <2>3, <2>4, <2>6
<1> QED  BY <1>5, <1>6, <1>8, <1>9, <1>10, <1>11

\* When the logout resumes nothing newer was enqueued, so its own snapshot is the
\* one in the file and no other is left to land over it.
LEMMA LogoutCompletesKeeps ==
  ASSUME SessionInv, NEW l \in Logouts, LogoutCompletes(l) PROVE SessionInv'
<1> USE DEF SessionInv
<1>1. /\ logout[l] # 0 /\ reached >= logout[l] /\ logout[l] \notin writing
      /\ logout[l] \notin failed
      /\ token' = FALSE /\ made' = made + 1 /\ identity' = made + 1
      /\ SetUpDrive(made + 1, config, persistedPairId, InUse)
      /\ logoutInProgress' = FALSE /\ logout' = [logout EXCEPT ![l] = 0]
      /\ rebuilt' = (tab # "closed")
      /\ UNCHANGED <<vars, config, secret, persistedPairId, enrol, drive, snaps, file, tab,
                     broken>>
  BY DEF LogoutCompletes, Settled
<1>2. /\ made + 1 \in Nat \ {0} /\ config \in Configs
      /\ persistedPairId \in Pairing \cup {NoPair}
  BY DEF ShellTypeOK
<1>3. /\ ManagersOK' /\ cur' \in Managers /\ mgr' \in [Managers -> Manager]
      /\ mgr'[cur'].pair = persistedPairId
  BY <1>1, <1>2, FreshManager
<1>4. logout' \in [Logouts -> Nat] /\ logout'[l] = 0
      /\ \A k \in Logouts : k # l => logout'[k] = logout[k]
  BY <1>1 DEF ShellTypeOK
<1>5. ShellTypeOK'
  BY <1>1, <1>2, <1>3, <1>4 DEF ShellTypeOK
<1>6. IInv' /\ SnapsOK'
  BY <1>1 DEF vars, IInv, TypeOK, OneWriter, NewestHandled, SnapsOK
<1>7. NoTokenBeforeLease' /\ TabIsFresh'
  BY <1>1 DEF NoTokenBeforeLease, TabIsFresh
<1>8. ASSUME ~broken' PROVE PairingsOwn' /\ SecretOK' /\ LogoutOK'
  <2>1. LogoutOK /\ l \in UnderWay
    BY <1>1, <1>8 DEF UnderWay
  <2>2. /\ logout[l] = latest /\ secret = 0 /\ persistedPairId = NoPair
        /\ \A k \in UnderWay : k = l
        /\ disk = latest => file.pair = NoPair
    BY <2>1 DEF LogoutOK
  <2>3. reached = latest /\ writing = {} /\ disk = latest
    BY <1>1, <2>2 DEF IInv, TypeOK, OneWriter, NewestHandled
  <2>4. ASSUME NEW r \in 1 .. MaxWrites PROVE snaps[r].pair = NoPair
    <3>1. r <= latest \/ r > latest
      BY QueueAssumption DEF IInv, TypeOK
    <3> QED  BY <2>3, <3>1, SnapshotForms DEF SnapsOK
  <2>5. UnderWay' = {}
    BY <1>4, <2>2 DEF UnderWay
  <2>6. PairingsOwn'
    BY <1>1, <1>3, <2>2, <2>3, <2>4 DEF PairingsOwn, Own
  <2>7. SecretOK'
    BY <1>1, <2>2, <2>3, <2>4 DEF SecretOK
  <2>8. LogoutOK'
    BY <1>1, <2>5 DEF LogoutOK
  <2> QED  BY <2>6, <2>7, <2>8
<1> QED  BY <1>3, <1>5, <1>6, <1>7, <1>8

LEMMA LogoutFailsKeeps ==
  ASSUME SessionInv, NEW l \in Logouts, LogoutFails(l) PROVE SessionInv'
<1> USE DEF SessionInv
<1>1. /\ logoutInProgress' = FALSE /\ logout' = [logout EXCEPT ![l] = 0] /\ broken' = TRUE
      /\ UNCHANGED <<vars, config, identity, made, secret, mgr, cur, persistedPairId, token,
                     enrol, drive, snaps, file, tab, rebuilt>>
  BY DEF LogoutFails
<1>2. ShellTypeOK'
  BY <1>1 DEF ShellTypeOK
<1>3. ManagersOK' /\ NoTokenBeforeLease' /\ TabIsFresh'
  BY <1>1 DEF ManagersOK, NoTokenBeforeLease, TabIsFresh
<1>4. IInv' /\ SnapsOK'
  BY <1>1 DEF vars, IInv, TypeOK, OneWriter, NewestHandled, SnapsOK
<1> QED  BY <1>1, <1>2, <1>3, <1>4

\* After a restart the file decides: a pairing found there is of the identity
\* SecretStorage still holds.
LEMMA RestartKeeps == ASSUME SessionInv, Restart PROVE SessionInv'
<1> USE DEF SessionInv
<1>1. /\ secret' = Restored /\ identity' = Restored
      /\ made' = IF secret # 0 THEN made ELSE made + 1
      /\ config' = file'.config /\ persistedPairId' = file'.pair
      /\ SetUpDrive(Restored, file'.config, file'.pair, {})
      /\ logoutInProgress' = FALSE /\ token' = FALSE
      /\ enrol' = NoCall /\ drive' = NoCall /\ logout' = [l \in Logouts |-> 0]
      /\ snaps' = [r \in 1 .. MaxWrites |-> NoSnap]
      /\ tab' = "closed" /\ rebuilt' = FALSE /\ broken' = (broken \/ UnderWay # {})
  BY DEF Restart
<1>2. PICK rev \in {disk} \cup writing : file' = IF rev \in writing THEN snaps[rev] ELSE file
  BY DEF Restart
<1>3. writing \subseteq 1 .. MaxWrites
  BY QueueAssumption DEF IInv, TypeOK
<1>4. file' = file \/ \E r \in 1 .. MaxWrites : file' = snaps[r]
  BY <1>2, <1>3
<1>5. file' \in Snapshot /\ file'.config \in Configs /\ file'.pair \in Pairing \cup {NoPair}
  BY <1>4 DEF ShellTypeOK, Snapshot
<1>6. Restored \in Nat \ {0} /\ (secret # 0 => Restored = secret)
  BY DEF Restored, ShellTypeOK
<1>7. /\ ManagersOK' /\ cur' \in Managers /\ mgr' \in [Managers -> Manager]
      /\ mgr'[cur'].pair = file'.pair
  BY <1>1, <1>5, <1>6, FreshManager
<1>8. IInv'
  BY RestartIInv
<1>9. SnapsOK' /\ \A r \in 1 .. MaxWrites : snaps'[r].pair = NoPair
  BY <1>1, SnapshotForms DEF SnapsOK
<1>10. snaps' \in [1 .. MaxWrites -> Snapshot] /\ logout' \in [Logouts -> Nat]
  BY <1>1, SnapshotForms
<1>11. ShellTypeOK'
  <2>1. identity' \in Nat \ {0} /\ secret' \in Nat /\ made' \in Nat
    BY <1>1, <1>6 DEF ShellTypeOK
  <2>2. config' \in Configs /\ persistedPairId' \in Pairing \cup {NoPair}
    BY <1>1, <1>5
  <2>3. /\ enrol' \in {NoCall} \cup [pc : {"pair", "claim"}, on : Managers]
        /\ drive' \in {NoCall} \cup [pc : {"renew"}, on : Managers]
    BY <1>1
  <2>4. /\ logoutInProgress' \in BOOLEAN /\ token' \in BOOLEAN
        /\ broken' \in BOOLEAN /\ rebuilt' \in BOOLEAN
    BY <1>1
  <2> QED  BY <1>5, <1>7, <1>10, <2>1, <2>2, <2>3, <2>4 DEF ShellTypeOK
<1>12. NoTokenBeforeLease' /\ TabIsFresh'
  BY <1>1 DEF NoTokenBeforeLease, TabIsFresh
<1>13. ASSUME ~broken' PROVE PairingsOwn' /\ SecretOK' /\ LogoutOK'
  <2>1. PairingsOwn /\ SecretOK /\ UnderWay = {}
    BY <1>1, <1>13
  <2>2. Own(file'.pair, file'.config) /\ (secret = 0 => file'.pair = NoPair)
    BY <1>4, <2>1 DEF PairingsOwn, SecretOK
  <2>3. file'.pair # NoPair => identity' = identity
    BY <1>1, <1>6, <2>1, <2>2 DEF SecretOK
  <2>4. file'.pair # NoPair => file'.pair = [identity |-> identity', config |-> file'.config]
    BY <2>2, <2>3 DEF Own
  <2>5. PairingsOwn'
    BY <1>1, <1>7, <1>9, <2>4 DEF PairingsOwn, Own
  <2>6. SecretOK'
    BY <1>1, <1>6 DEF SecretOK
  <2>7. LogoutOK'
    BY <1>1 DEF LogoutOK, UnderWay
  <2> QED  BY <2>5, <2>6, <2>7
<1> QED  BY <1>7, <1>8, <1>9, <1>11, <1>12, <1>13

-----------------------------------------------------------------------------
(* The shell's invariant, and what it gives *)

LEMMA SessionInitKeeps == ASSUME SessionInit PROVE SessionInv
<1> USE DEF SessionInv
<1>1. /\ Init /\ config = file.config /\ persistedPairId = file.pair
      /\ identity = 1 /\ made = 1 /\ secret = 1
      /\ logoutInProgress = FALSE /\ token = FALSE
      /\ enrol = NoCall /\ drive = NoCall /\ logout = [l \in Logouts |-> 0]
      /\ snaps = [r \in 1 .. MaxWrites |-> NoSnap]
      /\ tab = "closed" /\ broken = FALSE /\ rebuilt = FALSE
  BY DEF SessionInit
<1>2. cur \in Managers
  <2>1. \E m \in Managers : TRUE
    BY FreeSlot
  <2> QED  BY <2>1 DEF SessionInit
<1>3. mgr = [m \in Managers |->
               IF m = cur THEN NewManager(1, config, persistedPairId) ELSE Collected]
  BY DEF SessionInit
<1>4. file \in Snapshot /\ Own(file.pair, file.config)
  <2>1. CASE \E c \in Configs : file = [config |-> c, pair |-> NoPair]
    BY <2>1 DEF Snapshot, Own
  <2>2. CASE \E c \in Configs : file = [config |-> c, pair |-> [identity |-> 1, config |-> c]]
    <3>1. PICK c \in Configs : file = [config |-> c, pair |-> [identity |-> 1, config |-> c]]
      BY <2>2
    <3>2. [identity |-> 1, config |-> c] \in Pairing
      BY DEF Pairing
    <3>3. file \in Snapshot
      BY <3>1, <3>2 DEF Snapshot
    <3>4. file.pair = [identity |-> identity, config |-> file.config]
      BY <1>1, <3>1
    <3> QED  BY <3>3, <3>4 DEF Own
  <2> QED  BY <2>1, <2>2 DEF SessionInit
<1>5. config \in Configs /\ persistedPairId \in Pairing \cup {NoPair}
  BY <1>1, <1>4 DEF Snapshot
<1>6. /\ NewManager(1, config, persistedPairId) \in Manager
      /\ Collected \in Manager /\ Collected.lease = "none"
  BY <1>5, NewManagerForm, CollectedForm
<1>7. /\ mgr[cur].identity = 1 /\ mgr[cur].config = config /\ mgr[cur].pair = file.pair
      /\ mgr[cur].lease = "none"
  BY <1>1, <1>2, <1>3 DEF NewManager
<1>8. mgr \in [Managers -> Manager] /\ \A m \in Managers : m = cur \/ mgr[m] = Collected
  BY <1>3, <1>6
<1>9. snaps \in [1 .. MaxWrites -> Snapshot] /\ \A r \in 1 .. MaxWrites : snaps[r] = NoSnap
  BY <1>1, SnapshotForms
<1>10. ShellTypeOK
  <2>1. identity \in Nat \ {0} /\ secret \in Nat /\ made \in Nat /\ logout \in [Logouts -> Nat]
    BY <1>1
  <2>2. /\ enrol \in {NoCall} \cup [pc : {"pair", "claim"}, on : Managers]
        /\ drive \in {NoCall} \cup [pc : {"renew"}, on : Managers]
    BY <1>1
  <2>3. /\ logoutInProgress \in BOOLEAN /\ token \in BOOLEAN
        /\ broken \in BOOLEAN /\ rebuilt \in BOOLEAN
    BY <1>1
  <2> QED  BY <1>2, <1>4, <1>5, <1>8, <1>9, <2>1, <2>2, <2>3 DEF ShellTypeOK
<1>11. ManagersOK
  <2>1. enrol.on = NoPair
    BY <1>1 DEF NoCall
  <2>2. \A m \in Managers : mgr[m].lease = "none"
    BY <1>6, <1>7, <1>8
  <2> QED  BY <1>1, <1>7, <2>1, <2>2, SessionAssumption DEF ManagersOK
<1>12. IInv /\ SnapsOK
  BY <1>1, <1>9, InitIInv DEF SnapsOK
<1>13. NoTokenBeforeLease /\ TabIsFresh
  BY <1>1 DEF NoTokenBeforeLease, TabIsFresh
<1>14. PairingsOwn
  BY <1>1, <1>4, <1>7, <1>9, SnapshotForms DEF PairingsOwn, Own
<1>15. SecretOK /\ LogoutOK
  BY <1>1 DEF SecretOK, LogoutOK, UnderWay
<1> QED  BY <1>10, <1>11, <1>12, <1>13, <1>14, <1>15

LEMMA SessionInvAlways == SessionSpec => []SessionInv
<1>1. SessionInit => SessionInv
  BY SessionInitKeeps
<1>2. SessionInv /\ [SessionNext]_svars => SessionInv'
  <2> SUFFICES ASSUME SessionInv, [SessionNext]_svars PROVE SessionInv'
    OBVIOUS
  <2>1. CASE Display \/ Hide \/ EnrolStart \/ DriveStart \/ UNCHANGED svars
    BY <2>1, SurfacesKeep
  <2>2. CASE PairReplies \/ ClaimGranted \/ ClaimFails
    BY <2>2, PairRepliesKeeps, ClaimGrantedKeeps, ClaimFailsKeeps
  <2>3. CASE RenewalGranted \/ RenewalFails \/ LeaseExpires
    BY <2>3, RenewalGrantedKeeps, RenewalFailsKeeps, LeaseExpiresKeeps
  <2>4. CASE \E conf \in Configs : UpdateConfig(conf)
    BY <2>4, UpdateConfigKeeps
  <2>5. CASE \E l \in Logouts : LogoutStart(l)
    BY <2>5, LogoutStartKeeps
  <2>6. CASE LogoutStep
    BY <2>6, LogoutCompletesKeeps, LogoutFailsKeeps DEF LogoutStep
  <2>7. CASE QueueLink \/ WriteSettles \/ Restart
    BY <2>7, QueueLinkKeeps, WriteSettlesKeeps, RestartKeeps
  <2> QED  BY <2>1, <2>2, <2>3, <2>4, <2>5, <2>6, <2>7 DEF SessionNext
<1> QED  BY <1>1, <1>2, PTL DEF SessionSpec

\* While no logout failed, was cut short or was overtaken by a save, the pairing in
\* use and the pairing in the settings file sit beside the broker and root they were
\* made under, whatever replaced managers still report (main.ts, onEnrollment).
THEOREM PairingKeptToItsBroker == SessionSpec => []PairingStaysWithItsBroker
<1>1. SessionInv => PairingStaysWithItsBroker
  BY DEF SessionInv, PairingsOwn, Own, PairingStaysWithItsBroker
<1> QED  BY <1>1, SessionInvAlways, PTL

\* Over any number of configuration changes, logouts and restarts, the current
\* manager can prove possession for the pairing it holds (main.ts, saveSettings and
\* loadOrCreateDeviceIdentity: two stores, written one after the other).
THEOREM PairingKeyHeld == SessionSpec => []PairingProvable
<1>1. SessionInv => PairingProvable
  BY DEF SessionInv, ManagersOK, PairingsOwn, Own, PairingProvable
<1> QED  BY <1>1, SessionInvAlways, PTL

\* No late answer leaves an access token in a shell whose current manager has never
\* had a lease (main.ts, authorizeDrive after its await).
THEOREM TokenNeedsLease == SessionSpec => []NoTokenBeforeLease
<1>1. SessionInv => NoTokenBeforeLease
  BY DEF SessionInv
<1> QED  BY <1>1, SessionInvAlways, PTL

\* An open settings tab is never left behind by an emission, of whichever manager
\* and during a logout too (enrollment broadcast in main.ts).
THEOREM OpenTabIsFresh == SessionSpec => []TabIsFresh
<1>1. SessionInv => TabIsFresh
  BY DEF SessionInv
<1> QED  BY <1>1, SessionInvAlways, PTL
=============================================================================
