-------------------------- MODULE LatestWriteQueue --------------------------
(***************************************************************************)
(* LatestWriteQueue (src/src/settings-write-queue.ts): the promise chain   *)
(* that serialises plugin-data writes and skips queued snapshots a newer   *)
(* one has made stale.  A snapshot is identified with the revision it was  *)
(* enqueued under, so `disk` is the revision whose snapshot is in the data *)
(* file (0: the file as it was loaded).                                    *)
(***************************************************************************)
EXTENDS Integers

CONSTANT MaxWrites   \* bound on the number of enqueue() calls

ASSUME QueueAssumption == MaxWrites \in Nat

VARIABLES
  latest,    \* this.latestRevision
  reached,   \* links of the chain that have been reached so far
  writing,   \* revisions whose write() is in progress
  disk,      \* revision of the snapshot in the data file
  failed     \* revisions whose write() rejected

vars == <<latest, reached, writing, disk, failed>>

Init == latest = 0 /\ reached = 0 /\ writing = {} /\ disk = 0 /\ failed = {}

Enqueue ==
  /\ latest < MaxWrites
  /\ latest' = latest + 1
  /\ UNCHANGED <<reached, writing, disk, failed>>

\* Plausible defect: enqueue() does not chain on the tail.
PreviousSettled_Unchained == TRUE

\* this.tail: a link runs when the one before it has settled, either way.
PreviousSettled == writing = {}

\* Plausible defect: a stale snapshot is written and the newest one skipped.
Disposable_Inverted(rev) == rev = latest

\* if (revision !== this.latestRevision) return;
Disposable(rev) == rev # latest

ReachLink ==
  /\ reached < latest /\ PreviousSettled
  /\ reached' = reached + 1
  /\ writing' = IF Disposable(reached + 1) THEN writing ELSE writing \cup {reached + 1}
  /\ UNCHANGED <<latest, disk, failed>>

WriteLands(rev) ==
  /\ rev \in writing
  /\ disk' = rev /\ writing' = writing \ {rev}
  /\ UNCHANGED <<latest, reached, failed>>

\* saveData rejects and the file keeps its content; .catch() lets the chain go on.
WriteRejects(rev) ==
  /\ rev \in writing
  /\ failed' = failed \cup {rev} /\ writing' = writing \ {rev}
  /\ UNCHANGED <<latest, reached, disk>>

Settle(rev) == WriteLands(rev) \/ WriteRejects(rev)

Next == Enqueue \/ ReachLink \/ (\E rev \in 1 .. MaxWrites : Settle(rev))

Spec == Init /\ [][Next]_vars

-----------------------------------------------------------------------------
\* Type invariant of the queue; writes are serialised.
TypeOK ==
  /\ latest \in 0 .. MaxWrites
  /\ reached \in 0 .. latest
  /\ writing \subseteq 1 .. reached
  /\ \A v, w \in writing : v = w
  /\ failed \subseteq 1 .. reached
  /\ disk \in 0 .. reached

Idle == reached = latest /\ writing = {}

\* When the queue has drained, the file holds the newest snapshot, unless that
\* very write was rejected: a skipped snapshot is never the one that mattered.
NewestIsFinal == Idle => disk = latest \/ latest \in failed

\* An older snapshot never overwrites a newer one that already landed, so a
\* settings write begun earlier cannot erase an enrolment saved later.
DiskNeverGoesBack == [][disk' >= disk]_vars
=============================================================================
