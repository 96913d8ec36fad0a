---------------------------- MODULE CachePublish ----------------------------
(***************************************************************************)
(* publishCacheFile (src/src/core/atomic-cache-write.ts): downloads        *)
(* publishing to the cache path of their remote file, step by step, over a *)
(* file adapter that can fail or fall short at any call, while the user    *)
(* may delete a cached file at any time.  BrowserView starts the downloads *)
(* and gives every step the path `f` of its download.                      *)
(*                                                                         *)
(* A file's content is the publisher whose bytes it holds and whether all  *)
(* of them are there (`whole`, what the size checks compare).              *)
(***************************************************************************)
EXTENDS Naturals

CONSTANTS
  Publishers,   \* publishCacheFile calls that can be under way at once
  Paths,        \* cache paths: one per remote file
  Nobody,       \* no file
  MaxDeletes    \* bound on user deletions

ASSUME PublishAssumption == Nobody \notin Publishers /\ MaxDeletes \in Nat

VARIABLES
  pc,        \* where each call stands
  final,     \* the file at each path
  temp,      \* each call's temporary file (its name is unique to the call)
  deletes,   \* user deletions of a published file so far
  removed    \* history: calls under way whose copy the user has deleted

publishVars == <<pc, final, temp, deletes, removed>>

Absent == [by |-> Nobody, whole |-> FALSE]

PublishInit ==
  /\ pc = [p \in Publishers |-> "idle"]
  /\ final = [f \in Paths |-> Absent]
  /\ temp = [p \in Publishers |-> Absent] /\ deletes = 0 /\ removed = {}

Goto(p, where) == pc' = [pc EXCEPT ![p] = where]

PutAt(f, file) == final' = [final EXCEPT ![f] = file]

\* publishCacheFile is called.
Publish(p) == Goto(p, "start") /\ UNCHANGED <<final, temp, deletes, removed>>

\* adapter.exists(finalPath), then a fresh temporary name.
CheckAbsent(p, f) ==
  /\ pc[p] = "start"
  /\ Goto(p, IF final[f] = Absent THEN "write" ELSE "failed")
  /\ UNCHANGED <<final, temp, deletes, removed>>

\* writeBinary writes everything, or less than everything without saying so,
\* or rejects having written part or nothing.
WriteTemp(p) ==
  /\ pc[p] = "write"
  /\ \/ /\ \E whole \in BOOLEAN : temp' = [temp EXCEPT ![p] = [by |-> p, whole |-> whole]]
        /\ Goto(p, "statTemp")
     \/ /\ temp' \in {temp, [temp EXCEPT ![p] = [by |-> p, whole |-> FALSE]]}
        /\ Goto(p, "cleanup")
  /\ UNCHANGED <<final, deletes, removed>>

TempVerified(p) == temp[p].whole

StatTemp(p) ==
  /\ pc[p] = "statTemp"
  /\ Goto(p, IF TempVerified(p) THEN "recheck" ELSE "cleanup")
  /\ UNCHANGED <<final, temp, deletes, removed>>

RecheckAbsent(p, f) ==
  /\ pc[p] = "recheck"
  /\ Goto(p, IF final[f] = Absent THEN "copy" ELSE "cleanup")
  /\ UNCHANGED <<final, temp, deletes, removed>>

\* The adapter's copy refuses an existing destination.
CopyPermitted(f) == final[f] = Absent

\* Plausible defect: the temporary file is renamed into place, which replaces
\* whatever another download published since the recheck.
CopyToFinal_Renames(p, f) ==
  /\ pc[p] = "copy"
  /\ \/ /\ PutAt(f, temp[p]) /\ temp' = [temp EXCEPT ![p] = Absent]
        /\ Goto(p, "statFinal")
     \/ UNCHANGED <<final, temp>> /\ Goto(p, "cleanup")
  /\ removed' = removed \ {p} /\ UNCHANGED deletes

\* A permitted copy delivers everything or falls short of it; it can also reject,
\* having delivered part or nothing.  A refused copy delivers nothing.
CopyToFinal(p, f) ==
  /\ pc[p] = "copy"
  /\ \/ /\ CopyPermitted(f)
        /\ \E whole \in {temp[p].whole, FALSE} : PutAt(f, [by |-> p, whole |-> whole])
        /\ Goto(p, "statFinal")
     \/ /\ \/ UNCHANGED final
           \/ CopyPermitted(f) /\ PutAt(f, [by |-> p, whole |-> FALSE])
        /\ Goto(p, "cleanup")
  /\ removed' = removed \ {p} /\ UNCHANGED <<temp, deletes>>

FinalVerified(f) == final[f].whole

StatFinal(p, f) ==
  /\ pc[p] = "statFinal"
  /\ Goto(p, IF FinalVerified(f) THEN "remove" ELSE "cleanup")
  /\ UNCHANGED <<final, temp, deletes, removed>>

\* remove(temp) after success; a rejection goes to the catch block.
RemoveTemp(p) ==
  /\ pc[p] = "remove"
  /\ \/ temp' = [temp EXCEPT ![p] = Absent] /\ Goto(p, "done")
     \/ UNCHANGED temp /\ Goto(p, "cleanup")
  /\ UNCHANGED <<final, deletes, removed>>

\* The catch block: best-effort removal of the temporary file only.  One that
\* stays is never looked at again.
Cleanup(p) ==
  /\ pc[p] = "cleanup"
  /\ temp' = [temp EXCEPT ![p] = Absent]
  /\ Goto(p, "failed")
  /\ UNCHANGED <<final, deletes, removed>>

UserDeletes(f) ==
  /\ final[f] # Absent /\ deletes < MaxDeletes
  /\ PutAt(f, Absent) /\ deletes' = deletes + 1
  /\ removed' = removed \cup {p \in Publishers : pc[p] # "idle" /\ final[f].by = p}
  /\ UNCHANGED <<pc, temp>>

PublishStep(p, f) ==
  \/ CheckAbsent(p, f) \/ WriteTemp(p) \/ StatTemp(p) \/ RecheckAbsent(p, f)
  \/ CopyToFinal(p, f) \/ StatFinal(p, f) \/ RemoveTemp(p) \/ Cleanup(p)
=============================================================================
