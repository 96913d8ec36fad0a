----------------------------- MODULE BrowserView -----------------------------
(***************************************************************************)
(* The Drive browser pane (src/src/ui/browser-view.ts) and its host in     *)
(* src/src/main.ts, over the controller (DriveBrowser) and the cache       *)
(* (CachePublish): the rows on screen, the buttons the user presses while  *)
(* earlier calls are still under way, and what their answers do to the     *)
(* view when they arrive, in whatever order.                               *)
(*                                                                         *)
(* A row's button is disabled while its own call is under way; every       *)
(* render() draws new, enabled buttons.  `live` holds the calls whose      *)
(* button is still on screen.                                              *)
(***************************************************************************)
EXTENDS DriveBrowser, CachePublish

CONSTANT MaxChanges   \* bound on setUpDrive calls, moves and deletions together

\* A browser call publishes what it downloads; each file has a cache path of its own.
ASSUME ViewAssumption == Publishers = Calls /\ Paths = Ids \ Folders

VARIABLES
  rows,      \* ids in this.rows
  listedBy,  \* generation of the controller that listed rows; NoId for a search
  live       \* calls whose (disabled) button is on screen

viewVars == <<rows, listedBy, live>>
bvars == <<driveVars, publishVars, viewVars>>

ViewInit == DriveInit /\ PublishInit /\ rows = {} /\ listedBy = NoId /\ live = {}

Render == live' = {}

Show(files, by) == rows' = files /\ listedBy' = by /\ Render

Starts(c, kind, id) ==
  /\ calls[c].pc = "idle"
  /\ calls' = [calls EXCEPT ![c] = [NoCall EXCEPT !.pc = "authorize", !.kind = kind, !.id = id]]
  /\ UNCHANGED <<parent, moves, gen, enrolled, named, root, parentOf, index, publishVars>>

\* loadRoot, from the toolbar or when the pane opens.
LoadRoot(c) ==
  /\ enrolled /\ Starts(c, "root", NoId)
  /\ UNCHANGED viewVars

\* A row's Open or Download button.
ClickRow(c, id) ==
  /\ enrolled /\ id \in rows /\ \A d \in live : calls[d].id # id
  /\ Starts(c, IF id \in Folders THEN "folder" ELSE "download", id)
  /\ live' = live \cup {c}
  /\ UNCHANGED <<rows, listedBy>>

\* MetadataIndex.search: everything indexed for an empty term, nothing for one
\* that no name contains.
SearchResults == {index, {}}

Search ==
  /\ enrolled /\ \E found \in SearchResults : Show(found, NoId)
  /\ UNCHANGED <<driveVars, publishVars>>

\* The awaits of a call that leave the view as it is.
CallGoesOn(c) ==
  /\ \/ CallProceeds(c) /\ UNCHANGED publishVars
     \/ ContentRead(c) /\ Publish(c)
  /\ UNCHANGED viewVars

\* Plausible defect: the listing is shown but not entered in the index.
ListedAndShown_NotIndexed(c) ==
  /\ ClientRegisters(c) /\ StillWithinRoot(c) /\ Show(Children(c), calls[c].gen)
  /\ UNCHANGED <<index, publishVars>>

\* A listing arrives: it replaces the rows, whatever was asked for since.
ListedAndShown(c) ==
  /\ Listed(c) /\ Show(Children(c), calls[c].gen)
  /\ UNCHANGED publishVars

\* A failed listing of the root empties the rows; any other failure leaves them.
FailureShown(c) ==
  /\ IF calls[c].kind = "root" THEN Show({}, NoId) ELSE Render /\ UNCHANGED <<rows, listedBy>>

ReadFails(c) ==
  /\ CallFails(c) \/ ListingRefused(c)
  /\ FailureShown(c)
  /\ UNCHANGED publishVars

Publishes(c) ==
  /\ calls[c].pc = "publish" /\ PublishStep(c, calls[c].id)
  /\ UNCHANGED <<driveVars, viewVars>>

\* The outcome of a download: a notice, the note opened or not, and its own
\* button, if still on screen, enabled again; after a failure a new render.
DownloadEnds(c) ==
  /\ calls[c].pc = "publish" /\ Return(c) /\ Goto(c, "idle") /\ removed' = removed \ {c}
  /\ \/ pc[c] = "done" /\ live' = live \ {c}
     \/ pc[c] = "failed" /\ Render
  /\ UNCHANGED <<parent, moves, gen, enrolled, named, root, parentOf, index,
                 rows, listedBy, final, temp, deletes>>

WithinBudget == gen + moves + deletes < MaxChanges

\* A change of enrolment or of the settings ends with refreshBrowser(); the rows stay.
HostChanges ==
  /\ \/ EnrolmentChanges
     \/ WithinBudget /\ \E r \in Roots : SetUpDrive(r)
  /\ Render
  /\ UNCHANGED <<rows, listedBy, publishVars>>

Elsewhere ==
  /\ WithinBudget
  /\ \/ /\ \E id \in Ids, to \in Folders : MoveInDrive(id, to)
        /\ UNCHANGED <<publishVars, viewVars>>
     \/ /\ \E p \in Paths : UserDeletes(p)
        /\ UNCHANGED <<driveVars, viewVars>>

ViewNext ==
  \/ Search \/ HostChanges \/ Elsewhere
  \/ \E c \in Calls :
       \/ LoadRoot(c) \/ (\E id \in Ids : ClickRow(c, id)) \/ CallGoesOn(c)
       \/ ListedAndShown(c) \/ ReadFails(c) \/ Publishes(c) \/ DownloadEnds(c)

ViewSpec == ViewInit /\ [][ViewNext]_bvars

-----------------------------------------------------------------------------
\* A download that reports success has published its own bytes, all of them,
\* under the path of its file, and they are still there, unless the user has deleted
\* that very copy (the size check may then have measured the copy of another
\* download): of the downloads of a file that a re-rendered button allowed to
\* overlap, at most one succeeds, and no copy replaces another.
SuccessMeansPublished ==
  \A c \in Calls : pc[c] \in {"done", "remove"} =>
    final[calls[c].id] = [by |-> c, whole |-> TRUE] \/ c \in removed

\* The rows of the current controller's last listing all pass the scope and index
\* checks of openFolder and download (the size cap is left out): an answer that
\* arrives late, from a call another button or another root started, neither takes
\* their place in the index nor disturbs the scope they were registered with (as
\* long as nothing is moved in Drive meanwhile).
RowsAreUsable ==
  moves = 0 /\ listedBy = gen => \A i \in rows : DownloadAllowed(gen, i)
=============================================================================
