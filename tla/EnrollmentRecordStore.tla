----------------------- MODULE EnrollmentRecordStore ------------------------
(***************************************************************************)
(* The durable enrollment records, EncryptedEnrollmentRecordStore in       *)
(* broker/src/enrollment-record-store.ts: a map in memory, and one file    *)
(* that holds an encrypted snapshot of the whole map.                      *)
(*                                                                         *)
(* record and revoke change the map and call persist, which takes its      *)
(* snapshot at once and then awaits: write and fsync a temporary file,     *)
(* rename it over the record file, chmod.  Nothing orders two persists     *)
(* that are under way together; each occupies a member of Writers.  The    *)
(* broker loads the file before it listens, so a restart is one step.      *)
(***************************************************************************)
EXTENDS Naturals

CONSTANTS
    Pairs,    \* pair ids
    NoPair,   \* the pair id of no call
    Writers   \* persists that may be under way together

ASSUME RecordsAssumption == NoPair \notin Pairs

VARIABLES
    records,   \* the map: "none", "enrolled" or "revoked" per pair id
    file,      \* what the record file would load as
    writer,    \* the persist in each slot
    claimed,   \* pair ids record was called for (history)
    enrolAck,  \* record() calls that resolved (history)
    revokeAck, \* revoke() calls that resolved (history)
    overlapped \* two persists have been under way together (history)

recordVars == <<records, file, writer, claimed, enrolAck, revokeAck, overlapped>>

RecordMap == [Pairs -> {"none", "enrolled", "revoked"}]

(* "temp": the snapshot goes to the temporary file.  "renamed": it is the  *)
(* record file, chmod has not returned.                                    *)
Write == [stage : {"idle", "temp", "renamed"}, op : {"record", "revoke"},
          pair : Pairs \cup {NoPair}, snapshot : RecordMap]

Nothing == [p \in Pairs |-> "none"]

IdleWrite == [stage |-> "idle", op |-> "record",
              pair |-> NoPair, snapshot |-> Nothing]

RecordsInit ==
    /\ records = Nothing
    /\ file = Nothing
    /\ writer = [w \in Writers |-> IdleWrite]
    /\ claimed = {}
    /\ enrolAck = {}
    /\ revokeAck = {}
    /\ overlapped = FALSE

Idle(w) == writer[w].stage = "idle"

(* The same persist, its rename done. *)
Renamed(write) == [stage |-> "renamed", op |-> write.op,
                   pair |-> write.pair, snapshot |-> write.snapshot]

(* Mutated forms, one slip each, of the definitions that follow. *)
Reject_RollsBack(w) ==
    /\ records' = IF writer[w].op = "record"
                  THEN [records EXCEPT ![writer[w].pair] = "none"] ELSE records
    /\ writer' = [writer EXCEPT ![w] = IdleWrite]
Publish_AfterAck(w) ==
    /\ writer[w].stage = "temp"
    /\ writer' = [writer EXCEPT ![w] = Renamed(writer[w])]
    /\ UNCHANGED <<records, file, claimed, enrolAck, revokeAck, overlapped>>

(* persist(): the snapshot is the map as it is when persist is called. *)
Persist(w, op, p, map) ==
    /\ Idle(w)
    /\ writer' = [writer EXCEPT ![w] =
            [stage |-> "temp", op |-> op, pair |-> p, snapshot |-> map]]
    /\ overlapped' = (overlapped \/ \E v \in Writers : ~Idle(v))

(* record(): /oauth/claim calls it, and openClaim succeeds once per pair id. *)
Record(w, p) ==
    /\ p \notin claimed
    /\ records' = [records EXCEPT ![p] = "enrolled"]
    /\ Persist(w, "record", p, records')
    /\ claimed' = claimed \cup {p}
    /\ UNCHANGED <<file, enrolAck, revokeAck>>

(* revoke(): returns false, and changes nothing, without a record. *)
RevokeRecord(w, p) ==
    /\ records[p] # "none"
    /\ records' = [records EXCEPT ![p] = "revoked"]
    /\ Persist(w, "revoke", p, records')
    /\ UNCHANGED <<file, claimed, enrolAck, revokeAck>>

Publish(w) ==
    /\ writer[w].stage = "temp"
    /\ file' = writer[w].snapshot
    /\ writer' = [writer EXCEPT ![w] = Renamed(writer[w])]
    /\ UNCHANGED <<records, claimed, enrolAck, revokeAck, overlapped>>

(* chmod returned: the call resolves. *)
Resolve(w) ==
    /\ writer[w].stage = "renamed"
    /\ writer' = [writer EXCEPT ![w] = IdleWrite]
    /\ enrolAck' = IF writer[w].op = "record"
                   THEN enrolAck \cup {writer[w].pair} ELSE enrolAck
    /\ revokeAck' = IF writer[w].op = "revoke"
                    THEN revokeAck \cup {writer[w].pair} ELSE revokeAck
    /\ UNCHANGED <<records, file, claimed, overlapped>>

(* An I/O error removes the temporary file and rejects the call; the map   *)
(* keeps the change.                                                       *)
Reject(w) ==
    /\ writer' = [writer EXCEPT ![w] = IdleWrite]
    /\ UNCHANGED records

(* The error may come before the rename or, from chmod, after it. *)
PersistFails(w) ==
    /\ ~Idle(w)
    /\ Reject(w)
    /\ UNCHANGED <<file, claimed, enrolAck, revokeAck, overlapped>>

(* The process dies and the next one loads the file. *)
Reload ==
    /\ records' = file
    /\ writer' = [w \in Writers |-> IdleWrite]
    /\ UNCHANGED <<file, claimed, enrolAck, revokeAck, overlapped>>

RecordsNext ==
    \/ Reload
    \/ \E w \in Writers :
        \/ \E p \in Pairs : Record(w, p) \/ RevokeRecord(w, p)
        \/ Publish(w)
        \/ Resolve(w)
        \/ PersistFails(w)

RecordsSpec == RecordsInit /\ [][RecordsNext]_recordVars

-----------------------------------------------------------------------------
(* Properties *)

(* The map, the file and every snapshot hold entries for claimed pair ids. *)
RecordsTypeOK ==
    /\ records \in RecordMap
    /\ file \in RecordMap
    /\ writer \in [Writers -> Write]
    /\ claimed \subseteq Pairs
    /\ enrolAck \subseteq Pairs
    /\ revokeAck \subseteq Pairs
    /\ \A p \in Pairs \ claimed : records[p] = "none" /\ file[p] = "none"

(* How far a pair id has come: enrolment and revocation are never undone.  *)
Rank(r) == CASE r = "none" -> 0 [] r = "enrolled" -> 1 [] r = "revoked" -> 2

(* What a restart would load never says more than the running broker has   *)
(* decided, whatever writes failed or overtook each other.                 *)
FileNeverAhead ==
    \A p \in Pairs :
        /\ Rank(file[p]) <= Rank(records[p])
        /\ \A w \in Writers :
            ~Idle(w) => Rank(writer[w].snapshot[p]) <= Rank(records[p])

(* Unless two persists have overlapped, what a call has acknowledged       *)
(* survives any crash: the file holds the enrolment once record() has      *)
(* resolved, and the revocation once revoke() has.                         *)
AcksDurableUnlessOverlapped ==
    ~overlapped =>
        /\ \A p \in enrolAck : file[p] # "none"
        /\ \A p \in revokeAck : file[p] = "revoked"

(* Once revoke() has resolved, the revocation survives a restart (the      *)
(* comment at /admin/revoke); it does not when persists overlap.           *)
AckedRevocationDurable == \A p \in revokeAck : file[p] = "revoked"
=============================================================================
