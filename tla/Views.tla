-------------------------------- MODULE Views --------------------------------
(***************************************************************************)
(* What the engine shows of a workspace that somebody else writes to       *)
(* (application/workspaces.py): its files under a revision, the changes    *)
(* since a revision, the content of a file, the state before a turn and    *)
(* the difference to it.                                                   *)
(*                                                                         *)
(* Every request begins with a scan that reads file after file, while      *)
(* others write; one scan runs at a time.  A client keeps what it was      *)
(* shown: the names, and the contents it has read.  A path holds a file or *)
(* a directory, whose own entries are paths of their own; the pages of an  *)
(* answer and the text of a patch are left out.                            *)
(***************************************************************************)
EXTENDS Naturals, FiniteSets

CONSTANTS
  ViewedPaths,    \* the paths of the workspace
  FirstPaths,     \* those that are there at first
  SmallTexts,     \* contents that a scan reads
  LargeText,      \* content beyond TEXT_BYTES: the scan knows its identity only
  KeptRevisions,  \* how many revisions the log of changes goes back: 100
  MaxTreeWrites,  \* bound: writes of others
  MaxViews        \* bound: requests

ASSUME ViewsAssumption ==
  /\ IsFiniteSet(ViewedPaths) /\ FirstPaths \subseteq ViewedPaths
  /\ LargeText \notin SmallTexts /\ {"none", "directory"} \cap (SmallTexts \cup {LargeText}) = {}
  /\ KeptRevisions \in Nat \ {0} /\ {MaxTreeWrites, MaxViews} \subseteq Nat

VARIABLES
  tree,      \* what each path holds: text, or that it is a directory, and identity
  content,   \* workspace_content: the last scan that differed, and its revision
  changeLog, \* workspace_change_log
  scanning,  \* the scan that holds the lock, and for which request
  thread,    \* read_file: the thread that reads after the scan
  capturing, \* capture: what the scan found, while git is asked
  before,    \* turn_baselines
  shown,     \* the last diff shown
  viewer,    \* what a client was shown
  made       \* writes and requests so far

view_vars == <<tree, content, changeLog, scanning, thread, capturing, before, shown, viewer, made>>

Directory == "directory"
NoEntry == [text |-> "none", stamp |-> 0]
NoTree == [p \in ViewedPaths |-> NoEntry]
In(files) == {p \in ViewedPaths : files[p] # NoEntry}
DirectoriesIn(files) == {p \in ViewedPaths : files[p].text = Directory}
FilesIn(files) == In(files) \ DirectoriesIn(files)

NoScan == [on |-> "nothing", path |-> "none", left |-> {}, files |-> NoTree, complete |-> TRUE]
NoRead == [path |-> "none", item |-> NoEntry, revision |-> 0]
NoState == [taken |-> FALSE, files |-> NoTree, complete |-> TRUE]
NoDiff == [given |-> FALSE, items |-> {}, files |-> NoTree]
NotShown == [revision |-> 0, names |-> {}, copies |-> [p \in ViewedPaths |-> "none"], gap |-> FALSE]

ViewInit ==
  /\ tree \in {t \in [ViewedPaths -> {NoEntry} \cup [text : SmallTexts, stamp : {0}]] :
               In(t) = FirstPaths}
  /\ content = [revision |-> 0, files |-> NoTree]
  /\ changeLog = {} /\ scanning = NoScan /\ thread = NoRead /\ capturing = NoState
  /\ before = NoState /\ shown = NoDiff /\ viewer = NotShown
  /\ made = [writes |-> 0, views |-> 0]

\* Somebody writes or deletes a file or makes a directory; each has an identity of its own.
Entries == {NoEntry} \cup [text : SmallTexts \cup {LargeText, Directory}, stamp : {made.writes + 1}]
ChangesTree(p) ==
  /\ made.writes < MaxTreeWrites
  /\ made' = [made EXCEPT !.writes = @ + 1]
  /\ \E entry \in Entries : entry # tree[p] /\ tree' = [tree EXCEPT ![p] = entry]

OthersChange ==
  /\ \E p \in ViewedPaths : ChangesTree(p)
  /\ UNCHANGED <<content, changeLog, scanning, thread, capturing, before, shown, viewer>>

-----------------------------------------------------------------------------
\* refresh.

\* A request waits for the lock and begins its scan.
AskView(what, p) ==
  /\ scanning = NoScan /\ made.views < MaxViews
  /\ made' = [made EXCEPT !.views = @ + 1]
  /\ scanning' = [NoScan EXCEPT !.on = what, !.path = p, !.left = ViewedPaths]
  /\ UNCHANGED <<tree, content, changeLog, thread, capturing, before, shown, viewer>>

ScanFile(p) ==
  /\ p \in scanning.left
  /\ scanning' = [scanning EXCEPT !.left = @ \ {p}, !.files[p] = tree[p]]
  /\ UNCHANGED <<tree, content, changeLog, thread, capturing, before, shown, viewer, made>>

\* The file changes between the looks the scan takes at it: it is left out.
ScanRaced(p) ==
  /\ p \in scanning.left /\ tree[p] # NoEntry
  /\ ChangesTree(p)
  /\ scanning' = [scanning EXCEPT !.left = @ \ {p}, !.complete = FALSE]
  /\ UNCHANGED <<content, changeLog, thread, capturing, before, shown, viewer>>

\* Too many files, or five seconds are over.
ScanCut ==
  /\ scanning.left # {}
  /\ scanning' = [scanning EXCEPT !.left = {}, !.complete = FALSE]
  /\ UNCHANGED <<tree, content, changeLog, thread, capturing, before, shown, viewer, made>>

Found == scanning.files
Changed == {p \in ViewedPaths : Found[p] # content.files[p]}
Revision ==
  IF Changed # {} \/ content.revision = 0 THEN content.revision + 1 ELSE content.revision
Change(p) ==
  CASE content.files[p] = NoEntry -> "created"
    [] Found[p] = NoEntry -> "deleted"
    [] OTHER -> "modified"
\* The log with the changes of this scan, as far back as it is kept.
Log ==
  {e \in changeLog \cup {[revision |-> Revision, path |-> p, change |-> Change(p)] : p \in Changed} :
     e.revision + KeptRevisions >= Revision}

\* The end of a scan, up to the answer: content, log and answer in one go.
Refreshed(what) ==
  /\ scanning.on = what /\ scanning.left = {}
  /\ scanning' = NoScan
  /\ content' = [revision |-> Revision, files |-> Found]
  /\ changeLog' = Log
  /\ UNCHANGED <<tree, made>>

-----------------------------------------------------------------------------
\* The answers.

Files ==
  /\ Refreshed("files")
  /\ viewer' = [NotShown EXCEPT !.revision = Revision, !.names = In(Found),
                                !.gap = ~scanning.complete]
  /\ UNCHANGED <<thread, capturing, before, shown>>

\* The client asks for what changed since what it was shown, and follows.
Since == {e \in Log : e.revision > viewer.revision}
LastOf(p) == CHOOSE e \in Since : e.path = p /\ \A d \in Since : d.path = p => d.revision <= e.revision
Changes ==
  /\ Refreshed("changes")
  /\ LET touched == {e.path : e \in Since}
         gone == {p \in touched : LastOf(p).change = "deleted"}
     IN  viewer' = [revision |-> Revision,
                    names |-> (viewer.names \cup touched) \ gone,
                    copies |-> [p \in ViewedPaths |-> IF p \in touched THEN "none" ELSE viewer.copies[p]],
                    gap |-> \/ viewer.gap \/ ~scanning.complete
                            \/ viewer.revision + KeptRevisions < Revision]
  /\ UNCHANGED <<thread, capturing, before, shown>>

\* A file of the revision the client has is read in a thread, or the request is refused.
ReadFile ==
  /\ Refreshed("read")
  /\ thread' = IF Revision = viewer.revision /\ scanning.path \in FilesIn(Found)
               THEN [path |-> scanning.path, item |-> Found[scanning.path], revision |-> Revision]
               ELSE thread
  /\ UNCHANGED <<capturing, before, shown, viewer>>

\* Mistake: what the thread read is not compared with what the scan found.
SameAnyhow(item, entry) == TRUE
\* A small file by its content (and its inode, left out here), a large one by its identity.
Same(item, entry) == IF item.text = LargeText THEN entry = item ELSE entry.text = item.text

ReadInThread ==
  /\ thread # NoRead
  /\ thread' = NoRead
  /\ viewer' = IF /\ tree[thread.path] # NoEntry /\ Same(thread.item, tree[thread.path])
                  /\ viewer.revision = thread.revision
               THEN [viewer EXCEPT !.copies[thread.path] = tree[thread.path].text]
               ELSE viewer
  /\ UNCHANGED <<tree, content, changeLog, scanning, capturing, before, shown, made>>

\* capture: the scan before the turn, then git, then the record, once per turn.
Capture ==
  /\ Refreshed("capture")
  /\ capturing' = [taken |-> TRUE, files |-> Found, complete |-> scanning.complete]
  /\ UNCHANGED <<thread, before, shown, viewer>>

CaptureRecorded ==
  /\ capturing.taken
  /\ before' = IF before.taken THEN before ELSE capturing
  /\ capturing' = NoState
  /\ UNCHANGED <<tree, content, changeLog, scanning, thread, shown, viewer, made>>

\* diff: a removed file and a new one of the same content, alone with it, are a rename. A path that
\* holds a directory now is left out, whatever it held.
Hashed(files, p) == files[p].text \in SmallTexts
Removed == FilesIn(before.files) \ In(Found)
Appeared == FilesIn(Found) \ In(before.files)
Origins(p) == {q \in Removed : Hashed(Found, p) /\ before.files[q].text = Found[p].text}
Renames ==
  {pair \in Removed \X Appeared :
     /\ Origins(pair[2]) = {pair[1]}
     /\ \A other \in Appeared \ {pair[2]} : Found[other].text # Found[pair[2]].text}
Renamed == {pair[1] : pair \in Renames}
DiffItems ==
  {[path |-> pair[2], previous |-> pair[1], change |-> "renamed"] : pair \in Renames}
  \cup {[path |-> p, previous |-> "none", change |-> "created"] :
          p \in Appeared \ {pair[2] : pair \in Renames}}
  \cup {[path |-> p, previous |-> "none", change |-> "deleted"] : p \in Removed \ Renamed}
  \cup {[path |-> p, previous |-> "none", change |-> "modified"] :
          p \in {q \in FilesIn(Found) \cap In(before.files) : Found[q] # before.files[q]}}

Diff ==
  /\ before.taken
  /\ Refreshed("diff")
  /\ shown' = [given |-> TRUE, items |-> DiffItems, files |-> Found]
  /\ UNCHANGED <<thread, capturing, before, viewer>>

ViewNext ==
  \/ OthersChange \/ ScanCut \/ Files \/ Changes \/ ReadFile \/ ReadInThread
  \/ Capture \/ CaptureRecorded \/ Diff
  \/ \E what \in {"files", "changes"} : AskView(what, "none")
  \/ ~before.taken /\ ~capturing.taken /\ AskView("capture", "none")
  \/ before.taken /\ AskView("diff", "none")
  \/ \E p \in ViewedPaths :
       \/ ScanFile(p) \/ ScanRaced(p)
       \/ thread = NoRead /\ p \in viewer.names /\ AskView("read", p)

ViewSpec == ViewInit /\ [][ViewNext]_view_vars

-----------------------------------------------------------------------------
\* A client that follows the changes, and was not told of a gap, knows the files of its
\* revision, and its copies are theirs (refresh, changes, read_file), whatever others write
\* meanwhile and however many scans are cut off or answer other requests.
ClientFollows ==
  ~viewer.gap /\ viewer.revision = content.revision =>
    /\ viewer.names = In(content.files)
    /\ \A p \in ViewedPaths : viewer.copies[p] # "none" => viewer.copies[p] = content.files[p].text

Of(change) == {i.path : i \in {j \in shown.items : j.change = change}}
Previous == {i.previous : i \in {j \in shown.items : j.change = "renamed"}}
Told == {i.path : i \in shown.items}
\* Files whose place a directory has taken, and directories whose place a file has.
Overlaid == FilesIn(before.files) \cap DirectoriesIn(shown.files)
Replaced == DirectoriesIn(before.files) \cap FilesIn(shown.files)
\* What a diff shows leads from the files before the turn to those that were found, and no file of
\* the state before is renamed into two (diff). Of a file whose place a directory has taken it shows
\* nothing, neither a deletion nor a renaming; a directory replaced by a file is a modified file.
DiffWhole ==
  shown.given =>
    /\ (FilesIn(before.files) \ (Of("deleted") \cup Previous \cup Overlaid))
         \cup Of("created") \cup Of("renamed") \cup Replaced = FilesIn(shown.files)
    /\ Overlaid \cap (Told \cup Previous) = {} /\ Replaced \subseteq Of("modified")
    /\ Cardinality(Previous) = Cardinality(Of("renamed"))
    /\ \A p \in FilesIn(shown.files) : p \in Told \/ shown.files[p] = before.files[p]

\* The views of a workspace tell what was there.
ViewsTell == ClientFollows /\ DiffWhole
=============================================================================
