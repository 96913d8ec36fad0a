--------------------- MODULE EnrollmentRecordStoreProofs --------------------
(***************************************************************************)
(* The durable records for any set of pair ids.  What the file says never  *)
(* runs ahead of the map, whatever persists overlap or fail; an acknowledged *)
(* enrolment or revocation survives restarts as long as no two persists    *)
(* have overlapped.                                                        *)
(***************************************************************************)
EXTENDS EnrollmentRecordStore, TLAPS

Busy(w) == writer[w].stage # "idle"

(* A persist under way belongs to a claimed pair id, its snapshot holds    *)
(* what the call has just written, and only claimed pair ids.              *)
WritersOK ==
    \A w \in Writers : Busy(w) =>
        /\ writer[w].pair \in claimed
        /\ writer[w].op = "record" => writer[w].snapshot[writer[w].pair] # "none"
        /\ writer[w].op = "revoke" => writer[w].snapshot[writer[w].pair] = "revoked"
        /\ \A p \in Pairs \ claimed : writer[w].snapshot[p] = "none"

AcksClaimed == enrolAck \subseteq claimed /\ revokeAck \subseteq claimed

(* FileNeverAhead without Rank: what the provers work with. *)
NotAhead(r, s) == (s = "none" => r = "none") /\ (s = "enrolled" => r # "revoked")

Behind ==
    \A p \in Pairs :
        /\ NotAhead(file[p], records[p])
        /\ \A w \in Writers : Busy(w) => NotAhead(writer[w].snapshot[p], records[p])

IInv == RecordsTypeOK /\ WritersOK /\ AcksClaimed /\ Behind

LEMMA InitIInv == RecordsInit => IInv
BY DEF RecordsInit, IInv, RecordsTypeOK, RecordMap, Write, Nothing, IdleWrite,
       WritersOK, AcksClaimed, Behind, Busy, NotAhead

LEMMA IdleWriteType == IdleWrite \in Write /\ IdleWrite.stage = "idle"
BY DEF IdleWrite, Nothing, Write, RecordMap

\* record() and revoke(): one entry of the map moves on and the map is the
\* snapshot of the persist that begins.
LEMMA CallIInv ==
    ASSUME IInv, NEW w \in Writers, NEW p \in Pairs,
           Record(w, p) \/ RevokeRecord(w, p)
    PROVE  IInv'
<1> USE DEF IInv
<1>1. PICK op \in {"record", "revoke"} :
        /\ records' = [records EXCEPT ![p] = IF op = "record" THEN "enrolled" ELSE "revoked"]
        /\ writer' = [writer EXCEPT ![w] =
              [stage |-> "temp", op |-> op, pair |-> p, snapshot |-> records']]
        /\ claimed' = claimed \cup {p}
        /\ op = "record" => records[p] = "none"
  BY DEF Record, RevokeRecord, Persist, RecordsTypeOK
<1>2. UNCHANGED <<file, enrolAck, revokeAck>>
  BY DEF Record, RevokeRecord
<1>3. records' \in RecordMap /\ \A q \in Pairs \ claimed' : records'[q] = "none"
  BY <1>1 DEF RecordsTypeOK, RecordMap
<1>4. RecordsTypeOK'
  BY <1>1, <1>2, <1>3 DEF RecordsTypeOK, RecordMap, Write
<1>5. WritersOK'
  BY <1>1, <1>3 DEF WritersOK, Busy, RecordsTypeOK, RecordMap
<1>6. AcksClaimed'
  BY <1>1, <1>2 DEF AcksClaimed
<1>7. \A q \in Pairs : NotAhead(records[q], records'[q]) /\ NotAhead(records'[q], records'[q])
  BY <1>1 DEF NotAhead, RecordsTypeOK, RecordMap
<1>8. Behind'
  BY <1>1, <1>2, <1>7 DEF Behind, Busy, NotAhead, RecordsTypeOK, RecordMap
<1> QED BY <1>4, <1>5, <1>6, <1>8

\* The rename: the file becomes a snapshot that was not ahead of the map.
LEMMA PublishIInv == ASSUME IInv, NEW w \in Writers, Publish(w) PROVE IInv'
<1> USE DEF IInv
<1>1. writer[w] \in Write /\ Busy(w) /\ Renamed(writer[w]) \in Write
  BY DEF Publish, Busy, RecordsTypeOK, Write, Renamed
<1>2. \A v \in Writers : /\ writer'[v].op = writer[v].op
                         /\ writer'[v].pair = writer[v].pair
                         /\ writer'[v].snapshot = writer[v].snapshot
                         /\ writer'[v].stage # "idle" <=> writer[v].stage # "idle"
  BY <1>1 DEF Publish, Renamed, RecordsTypeOK, Busy
<1>3. RecordsTypeOK'
  BY <1>1 DEF Publish, RecordsTypeOK, Write, WritersOK
<1>4. WritersOK'
  BY <1>2 DEF Publish, WritersOK, Busy
<1>5. Behind'
  BY <1>1, <1>2 DEF Publish, Behind, Busy
<1> QED BY <1>3, <1>4, <1>5 DEF Publish, AcksClaimed

\* The call resolves or rejects: its slot is free again.
LEMMA EndIInv ==
    ASSUME IInv, NEW w \in Writers, Resolve(w) \/ PersistFails(w)
    PROVE  IInv'
<1> USE DEF IInv
<1>1. /\ writer' = [writer EXCEPT ![w] = IdleWrite]
      /\ UNCHANGED <<records, file, claimed>>
  BY DEF Resolve, PersistFails, Reject
<1>2. Busy(w) /\ writer[w].pair \in claimed
  BY DEF Resolve, PersistFails, Idle, Busy, WritersOK
<1>3. AcksClaimed'
  BY <1>1, <1>2 DEF Resolve, PersistFails, AcksClaimed
<1>4. RecordsTypeOK'
  BY <1>1, <1>3, IdleWriteType DEF RecordsTypeOK, AcksClaimed
<1>5. \A v \in Writers : writer'[v].stage # "idle" => writer'[v] = writer[v] /\ Busy(v)
  BY <1>1, IdleWriteType DEF RecordsTypeOK, Busy
<1>6. WritersOK' /\ Behind'
  BY <1>1, <1>5 DEF WritersOK, Behind, Busy
<1> QED BY <1>3, <1>4, <1>6

LEMMA NextIInv == IInv /\ [RecordsNext]_recordVars => IInv'
<1> SUFFICES ASSUME IInv, [RecordsNext]_recordVars PROVE IInv'
  OBVIOUS
<1>1. CASE Reload
  BY <1>1, IdleWriteType
     DEF Reload, IInv, RecordsTypeOK, RecordMap, WritersOK, AcksClaimed, Behind,
         Busy, NotAhead
<1>2. CASE UNCHANGED recordVars
  BY <1>2 DEF recordVars, IInv, RecordsTypeOK, WritersOK, AcksClaimed, Behind, Busy
<1> QED BY <1>1, <1>2, CallIInv, PublishIInv, EndIInv DEF RecordsNext

LEMMA Inductive == RecordsSpec => []IInv
BY InitIInv, NextIInv, PTL DEF RecordsSpec

\* The map, the file and every snapshot stay well formed and hold entries of
\* claimed pair ids only, through failed writes and restarts.
THEOREM RecordsTypeCorrect == RecordsSpec => []RecordsTypeOK
<1>1. IInv => RecordsTypeOK
  BY DEF IInv
<1> QED BY <1>1, Inductive, PTL

\* A restart never loads an enrolment or a revocation the running broker had
\* not decided, however many persists overlap or fail.
THEOREM FileBehindMap == RecordsSpec => []FileNeverAhead
<1>1. ASSUME IInv PROVE FileNeverAhead
  <2>1. \A r, s \in {"none", "enrolled", "revoked"} : NotAhead(r, s) => Rank(r) <= Rank(s)
    BY DEF NotAhead, Rank
  <2>2. ASSUME NEW p \in Pairs PROVE Rank(file[p]) <= Rank(records[p])
    BY <1>1, <2>1 DEF IInv, RecordsTypeOK, RecordMap, Behind
  <2>3. ASSUME NEW p \in Pairs, NEW w \in Writers, ~Idle(w)
        PROVE  Rank(writer[w].snapshot[p]) <= Rank(records[p])
    <3>1. writer[w].snapshot \in RecordMap /\ records \in RecordMap
      BY <1>1 DEF IInv, RecordsTypeOK, Write
    <3>2. NotAhead(writer[w].snapshot[p], records[p])
      BY <1>1, <2>3 DEF IInv, Behind, Busy, Idle
    <3> QED BY <3>1, <3>2, <2>1 DEF RecordMap
  <2> QED BY <2>2, <2>3 DEF FileNeverAhead
<1> QED BY <1>1, Inductive, PTL

-----------------------------------------------------------------------------
(* As long as persists have not overlapped *)

(* At most one persist is under way. *)
Serial == \A v, w \in Writers : Busy(v) /\ Busy(w) => v = w

(* What has been acknowledged is in the file, in the map and in whatever   *)
(* snapshot is on its way to the file.                                     *)
Kept(p, Holds(_)) ==
    /\ Holds(file[p])
    /\ Holds(records[p])
    /\ \A w \in Writers : Busy(w) => Holds(writer[w].snapshot[p])

Enrolled(r) == r # "none"
RevokedIs(r) == r = "revoked"

Durable ==
    /\ Serial
    /\ \A w \in Writers : writer[w].stage = "renamed" => file = writer[w].snapshot
    /\ \A p \in enrolAck : Kept(p, Enrolled)
    /\ \A p \in revokeAck : Kept(p, RevokedIs)

LEMMA InitDurable == RecordsInit => Durable
BY DEF RecordsInit, Durable, Serial, Busy, IdleWrite

\* A new snapshot is the map, which keeps what was acknowledged.
LEMMA CallDurable ==
    ASSUME IInv, Durable, NEW w \in Writers, NEW p \in Pairs,
           Record(w, p) \/ RevokeRecord(w, p), ~overlapped'
    PROVE  Durable'
<1> USE DEF IInv
<1>1. /\ UNCHANGED <<file, enrolAck, revokeAck>>
      /\ writer'[w].stage = "temp" /\ writer'[w].snapshot = records'
      /\ \A v \in Writers \ {w} : writer'[v] = writer[v]
  BY DEF Record, RevokeRecord, Persist, RecordsTypeOK
<1>2. \A q \in Pairs : records[q] # "none" => records'[q] # "none"
  BY DEF Record, RevokeRecord, RecordsTypeOK, RecordMap
<1>3. \A q \in claimed : records[q] = "revoked" => records'[q] = "revoked"
  BY DEF Record, RevokeRecord, RecordsTypeOK, RecordMap
<1>4. \A v \in Writers : ~Busy(v)
  BY Zenon DEF Record, RevokeRecord, Persist, Busy, Idle
<1>5. Serial' /\ \A v \in Writers : writer'[v].stage # "idle" => v = w
  BY <1>1, <1>4 DEF Serial, Busy
<1> QED BY <1>1, <1>2, <1>3, <1>5
        DEF Durable, Kept, Enrolled, RevokedIs, Busy, AcksClaimed, RecordsTypeOK

LEMMA PublishDurable ==
    ASSUME IInv, Durable, NEW w \in Writers, Publish(w) PROVE Durable'
<1>1. /\ UNCHANGED <<records, enrolAck, revokeAck>>
      /\ file' = writer[w].snapshot /\ writer'[w].snapshot = writer[w].snapshot
      /\ Busy(w)
      /\ \A v \in Writers \ {w} : writer'[v] = writer[v] /\ ~Busy(v)
  BY DEF Publish, Renamed, IInv, RecordsTypeOK, Durable, Serial, Busy
<1> QED BY <1>1 DEF Durable, Serial, Kept, Enrolled, RevokedIs, Busy

\* The acknowledgement comes after the rename: file, map and snapshot agree on
\* the pair id it is about.
LEMMA EndDurable ==
    ASSUME IInv, Durable, NEW w \in Writers, Resolve(w) \/ PersistFails(w)
    PROVE  Durable'
<1> DEFINE q == writer[w].pair
<1>1. /\ UNCHANGED <<records, file>>
      /\ \A v \in Writers : writer'[v].stage = "idle"
  BY IdleWriteType
     DEF Resolve, PersistFails, Reject, IInv, RecordsTypeOK, Durable, Serial, Busy, Idle
<1>2. CASE PersistFails(w)
  BY <1>1, <1>2 DEF PersistFails, Durable, Serial, Kept, Enrolled, RevokedIs, Busy
<1>3. CASE Resolve(w)
  <2>1. Busy(w) /\ file = writer[w].snapshot /\ q \in Pairs
    BY <1>3 DEF Resolve, Busy, Durable, IInv, WritersOK, RecordsTypeOK
  <2>2. writer[w].op = "record" => file[q] # "none" /\ records[q] # "none"
    BY <2>1 DEF IInv, WritersOK, Behind, NotAhead
  <2>3. writer[w].op = "revoke" => file[q] = "revoked" /\ records[q] = "revoked"
    <3>1. records[q] \in {"none", "enrolled", "revoked"}
      BY <2>1 DEF IInv, RecordsTypeOK, RecordMap
    <3> QED BY <2>1, <3>1 DEF IInv, WritersOK, Behind, NotAhead
  <2>4. /\ \A p \in enrolAck' : p \in enrolAck \/ (p = q /\ writer[w].op = "record")
        /\ \A p \in revokeAck' : p \in revokeAck \/ (p = q /\ writer[w].op = "revoke")
    BY <1>3 DEF Resolve
  <2> QED BY <1>1, <2>2, <2>3, <2>4 DEF Durable, Serial, Kept, Enrolled, RevokedIs, Busy
<1> QED BY <1>2, <1>3

DurableUnlessOverlapped == ~overlapped => Durable

LEMMA NextDurable ==
    IInv /\ DurableUnlessOverlapped /\ [RecordsNext]_recordVars => DurableUnlessOverlapped'
<1> SUFFICES ASSUME IInv, DurableUnlessOverlapped, [RecordsNext]_recordVars, ~overlapped'
             PROVE  Durable'
  BY DEF DurableUnlessOverlapped
<1>1. Durable
  BY Zenon DEF DurableUnlessOverlapped, RecordsNext, Reload, Record, RevokeRecord, Persist,
         Publish, Resolve, PersistFails, recordVars
<1>2. CASE Reload
  BY <1>1, <1>2, IdleWriteType DEF Reload, Durable, Serial, Kept, Enrolled, RevokedIs, Busy
<1>3. CASE UNCHANGED recordVars
  BY <1>1, <1>3 DEF recordVars, Durable, Serial, Kept, Enrolled, RevokedIs, Busy
<1> QED BY <1>1, <1>2, <1>3, CallDurable, PublishDurable, EndDurable DEF RecordsNext

\* Until two persists overlap, a record() or revoke() that resolved is in the
\* file: after any number of restarts the device is still enrolled, or still
\* refused.
THEOREM AcksDurable == RecordsSpec => []AcksDurableUnlessOverlapped
<1>1. DurableUnlessOverlapped => AcksDurableUnlessOverlapped
  BY DEF DurableUnlessOverlapped, Durable, Kept, Enrolled, RevokedIs,
         AcksDurableUnlessOverlapped
<1>2. RecordsInit => DurableUnlessOverlapped
  BY InitDurable DEF DurableUnlessOverlapped
<1> QED BY <1>1, <1>2, NextDurable, Inductive, PTL DEF RecordsSpec
=============================================================================
