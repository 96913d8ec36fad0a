---------------------------- MODULE DriveBrowser ----------------------------
(***************************************************************************)
(* The read-only browser: DriveRootScope (src/src/drive/root-scope.ts),    *)
(* BrowserController (src/src/ui/browser-state.ts), the listing and        *)
(* download calls of DriveReadClient (src/src/drive/drive-read-client.ts)  *)
(* and the metadata index that outlives a change of the configured root    *)
(* (setUpDrive and its callers in src/src/main.ts).                         *)
(*                                                                         *)
(* Google Drive is external: folders can be moved while the plugin runs,   *)
(* and a listing returns the children the folder has when Drive answers.   *)
(* setUpDrive builds a new scope and controller, so a call keeps the scope *)
(* (`gen`) it read when it reached the controller.  BrowserView starts the *)
(* calls and shows their results.                                          *)
(***************************************************************************)
EXTENDS Naturals, FiniteSets

CONSTANTS
  Ids,        \* Drive ids of folders and files
  Folders,    \* the folders among them
  NoId,       \* null / undefined
  Roots,      \* ids a configured root name can resolve to
  Trees,      \* what Drive may look like at first: each id's parent
  Calls,      \* browser calls that can be in flight at once
  MaxGen,     \* bound on later setUpDrive calls
  MaxMoves    \* bound on moves made in Drive meanwhile

ASSUME BrowserAssumption ==
  /\ Roots \subseteq Folders /\ Folders \subseteq Ids /\ NoId \notin Ids
  /\ IsFiniteSet(Ids) /\ NoId \notin 0 .. MaxGen
  /\ Trees \subseteq [Ids -> {NoId} \cup Folders]
  /\ MaxGen \in Nat /\ MaxMoves \in Nat

VARIABLES
  parent,     \* Drive's own tree: each id's parent
  moves,
  gen,        \* number of setUpDrive calls so far
  enrolled,   \* what assertEnrolled reads: the current manager's status
  named,      \* per generation, the folder its root name denotes
  root,       \* per generation, scope.root
  parentOf,   \* per generation, scope.parentOf
  index,      \* ids in the shared MetadataIndex
  calls       \* calls in flight

driveVars == <<parent, moves, gen, enrolled, named, root, parentOf, index, calls>>

Gens == 0 .. MaxGen
NoCall == [pc |-> "idle", kind |-> "none", gen |-> 0, id |-> NoId]
Unmapped == [i \in Ids |-> NoId]

\* Below an id in a tree, the id included: the least set with rt in it and, with
\* an id, every id whose parent that is.
Descendants(rt, up) ==
  {i \in Ids : \A S \in SUBSET Ids :
     rt \in S /\ (\A j \in Ids : up[j] \in S => j \in S) => i \in S}

DriveInit ==
  /\ parent \in Trees
  /\ \A i \in Ids : parent[i] \notin Descendants(i, parent)
  /\ moves = 0 /\ gen = 0 /\ enrolled \in BOOLEAN
  /\ \E r \in Roots : named = [g \in Gens |-> IF g = 0 THEN r ELSE NoId]
  /\ root = [g \in Gens |-> NoId]
  /\ parentOf = [g \in Gens |-> Unmapped]
  /\ index = {}
  /\ calls = [c \in Calls |-> NoCall]

-----------------------------------------------------------------------------
(* DriveRootScope *)

\* Plausible defect: any id that was ever listed counts as in scope.
WithinRoot_AnyListed(rt, up, id) == rt # NoId /\ (id = rt \/ up[id] # NoId)

\* isWithinRoot: climb the recorded parents until the root, an id without a
\* recorded parent, or an id already seen.  climb[n] is where n steps lead.
WithinRoot(rt, up, id) ==
  LET climb[n \in 0 .. Cardinality(Ids)] ==
        IF n = 0 THEN id
        ELSE IF climb[n - 1] \in {NoId, rt} THEN climb[n - 1] ELSE up[climb[n - 1]]
  IN  rt # NoId /\ climb[Cardinality(Ids)] = rt

IsWithinRoot(g, id) == WithinRoot(root[g], parentOf[g], id)

\* registerChildren overwrites an earlier parent of a listed child.
RegisterChildren(g, folder, children) ==
  parentOf' = [parentOf EXCEPT ![g] =
                 [i \in Ids |-> IF i \in children THEN folder ELSE parentOf[g][i]]]

-----------------------------------------------------------------------------
(* BrowserController and DriveReadClient *)

Goes(c, pc, g, id) == calls' = [calls EXCEPT ![c].pc = pc, ![c].gen = g, ![c].id = id]
Return(c) == calls' = [calls EXCEPT ![c] = NoCall]

\* The host's browse() and downloadFile() read this.controller when
\* authorizeDrive has returned: the call belongs to the scope of that moment.
Reaches(c, kind) ==
  calls[c].pc = "authorize" /\ calls[c].kind = kind /\ enrolled

\* openRoot: listFoldersByName, unless this scope has resolved its root already.
OpenRoot(c) ==
  /\ Reaches(c, "root")
  /\ \/ root[gen] = NoId /\ Goes(c, "resolve", gen, NoId)
     \/ root[gen] # NoId /\ Goes(c, "list", gen, root[gen])
  /\ UNCHANGED <<parent, moves, gen, enrolled, named, root, parentOf, index>>

\* The answer names one folder, which becomes the root; openFolder follows and
\* asks again whether the device is enrolled.
RootResolved(c) ==
  LET g == calls[c].gen IN
  /\ calls[c].pc = "resolve" /\ enrolled
  /\ root' = [root EXCEPT ![g] = named[g]]
  /\ Goes(c, "list", g, named[g])
  /\ UNCHANGED <<parent, moves, gen, enrolled, named, parentOf, index>>

\* openFolder: refused before any I/O when the id is not provably below the root.
OpenFolder(c) ==
  /\ Reaches(c, "folder") /\ IsWithinRoot(gen, calls[c].id)
  /\ Goes(c, "list", gen, calls[c].id)
  /\ UNCHANGED <<parent, moves, gen, enrolled, named, root, parentOf, index>>

Children(c) == {i \in Ids : parent[i] = calls[c].id}

\* The answer reaches the client, whose registerChildren throws when the folder is
\* no longer in scope.
ClientRegisters(c) ==
  /\ calls[c].pc = "list" /\ IsWithinRoot(calls[c].gen, calls[c].id)
  /\ RegisterChildren(calls[c].gen, calls[c].id, Children(c))
  /\ Return(c)
  /\ UNCHANGED <<parent, moves, gen, enrolled, named, root>>

\* The controller registers the same children again, which asserts the scope once
\* more, on the parents the client has just recorded.
StillWithinRoot(c) == WithinRoot(root[calls[c].gen], parentOf'[calls[c].gen], calls[c].id)

Listed(c) ==
  /\ ClientRegisters(c) /\ StillWithinRoot(c)
  /\ index' = index \cup Children(c)

\* A folder moved below one of its own former descendants: the client's records
\* have become cyclic, the controller throws and nothing is indexed.
ListingRefused(c) ==
  /\ ClientRegisters(c) /\ ~StillWithinRoot(c)
  /\ UNCHANGED index

\* Plausible defect: the controller trusts the index instead of the scope.
DownloadAllowed_Indexed(g, id) == id \in index

\* download: in scope and already listed.
DownloadAllowed(g, id) == IsWithinRoot(g, id) /\ id \in index

\* Starts by re-reading the file's metadata.
Download(c) ==
  /\ Reaches(c, "download") /\ DownloadAllowed(gen, calls[c].id)
  /\ Goes(c, "metadata", gen, calls[c].id)
  /\ UNCHANGED <<parent, moves, gen, enrolled, named, root, parentOf, index>>

\* The declared size fits the cap: the content is requested.
MetadataRead(c) ==
  /\ calls[c].pc = "metadata"
  /\ Goes(c, "content", calls[c].gen, calls[c].id)
  /\ UNCHANGED <<parent, moves, gen, enrolled, named, root, parentOf, index>>

\* The bytes are there: the host publishes them (CachePublish).
ContentRead(c) ==
  /\ calls[c].pc = "content"
  /\ Goes(c, "publish", calls[c].gen, calls[c].id)
  /\ UNCHANGED <<parent, moves, gen, enrolled, named, root, parentOf, index>>

\* Any check refuses and any request fails.  A root that did resolve stays.
CallFails(c) ==
  /\ calls[c].pc \notin {"idle", "publish"} /\ Return(c)
  /\ \/ root' = root
     \/ /\ calls[c].pc = "resolve" /\ ~enrolled
        /\ root' = [root EXCEPT ![calls[c].gen] = named[calls[c].gen]]
  /\ UNCHANGED <<parent, moves, gen, enrolled, named, parentOf, index>>

-----------------------------------------------------------------------------
\* setUpDrive, after a change of the root name or of the broker or a logout: a new
\* scope, controller and lease manager, the same index.
SetUpDrive(r) ==
  /\ gen < MaxGen
  /\ gen' = gen + 1 /\ enrolled' = FALSE /\ named' = [named EXCEPT ![gen + 1] = r]
  /\ UNCHANGED <<parent, moves, root, parentOf, index, calls>>

\* The lease manager gains or loses its pairing (module LeaseManager).
EnrolmentChanges ==
  /\ enrolled' = ~enrolled
  /\ UNCHANGED <<parent, moves, gen, named, root, parentOf, index, calls>>

\* Someone moves a file or folder in Drive; Drive keeps its tree acyclic.
MoveInDrive(id, to) ==
  /\ moves < MaxMoves /\ to \notin Descendants(id, parent) /\ parent[id] # to
  /\ parent' = [parent EXCEPT ![id] = to] /\ moves' = moves + 1
  /\ UNCHANGED <<gen, enrolled, named, root, parentOf, index, calls>>

\* The steps of a call that show nothing in the view.
CallProceeds(c) ==
  OpenRoot(c) \/ RootResolved(c) \/ OpenFolder(c) \/ Download(c) \/ MetadataRead(c)

-----------------------------------------------------------------------------
\* isWithinRoot accepts exactly the ids that reach the root through recorded
\* parents, also when moves have made the recorded edges cyclic.
ScopeIsReachability ==
  \A g \in Gens :
    LET below == Descendants(root[g], parentOf[g]) IN
    \A i \in Ids : IsWithinRoot(g, i) <=> (root[g] # NoId /\ i \in below)

\* Content is fetched only for an id that was listed below the root of the
\* controller that fetched it, whatever the shared index has accumulated.
DownloadsStayInScope ==
  \A c \in Calls : calls[c].pc \in {"metadata", "content", "publish"} =>
    LET g == calls[c].gen IN
    root[g] # NoId /\ (calls[c].id = root[g] \/ parentOf[g][calls[c].id] # NoId)
=============================================================================
