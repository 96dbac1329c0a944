----------------------------- MODULE Writeback -----------------------------
(***************************************************************************)
(* What a sandbox did to its copy of the workspace is applied to the       *)
(* workspace itself: the snapshot taken before, the check that nothing     *)
(* changed since, the preflight of the whole difference and its entries,   *)
(* one after the other (forge/sandbox/workspace_transfer.py). Somebody     *)
(* else writes to the workspace all the while.                             *)
(*                                                                         *)
(* A file stands in the root, another one in a directory. Identity is what *)
(* lstat tells: it changes with every write. Modes are left out.           *)
(***************************************************************************)
EXTENDS Naturals

CONSTANTS
  FileBodies,        \* contents of files
  MaxForeignWrites,    \* bound: writes of somebody else
  MaxDiskFaults  \* bound: operations that fail

ASSUME WritebackAssumption ==
  /\ {"none", "nothing"} \intersect FileBodies = {}
  /\ MaxForeignWrites \in Nat /\ MaxDiskFaults \in Nat

Names == {"a", "d", "d/f"}
FileNames == {"a", "d/f"}

\* The order of a walk, which ends with "d/f".
NameAfter(n) == IF n = "a" THEN "d" ELSE "d/f"
DirectoryOf(n) == IF n = "d/f" THEN "d" ELSE "root"

VARIABLES
  host,       \* the workspace: per name what stands there, and its identity
  hidden,     \* the directory holds an entry no snapshot takes: protected or private
  snapshot,   \* files, directories and identities of _capture
  recapture,  \* the same, as assert_unchanged takes it
  output,     \* the tree the sandbox gave back
  apply,      \* where apply is: phase, entries to do, the entry whose check has passed
  applied,    \* names that were changed
  theirs,     \* history: what somebody else wrote since the name was captured
  raced,      \* history: names somebody wrote between the check and the replacement
  foreignWrites, diskFaults, writes   \* counters

wb_vars == <<host, hidden, snapshot, recapture, output, apply, applied, theirs, raced, foreignWrites,
             diskFaults, writes>>

Nowhere == [value |-> "none", id |-> 0]
Exists(n) == IF n = "root" THEN TRUE ELSE host[n].value # "none"
Values(n) == IF n = "d" THEN {"dir"} ELSE FileBodies
\* Without its directory a file is not there.
WholeTree(f) == f["d"] = "none" => f["d/f"] = "none"
Trees == {f \in [Names -> FileBodies \cup {"dir", "none"}] :
            WholeTree(f) /\ \A n \in Names : f[n] \in Values(n) \cup {"none"}}

-----------------------------------------------------------------------------
(***************************************************************************)
(* The snapshot, and the one assert_unchanged compares it with. Stat       *)
(* before and after a read makes the capture of a file one step.           *)
(***************************************************************************)
Seen(n, walk) == IF n = "d/f" /\ walk["d"] = Nowhere THEN Nowhere ELSE host[n]
CaptureName(n) ==
  /\ apply.phase = "capture" /\ apply.next = n
  /\ snapshot' = [snapshot EXCEPT ![n] = Seen(n, snapshot)]
  /\ apply' = IF n = "d/f" THEN [apply EXCEPT !.phase = "running", !.next = "a"]
              ELSE [apply EXCEPT !.next = NameAfter(n)]
  /\ theirs' = IF Seen(n, snapshot) = host[n] THEN [theirs EXCEPT ![n] = "nothing"] ELSE theirs
  /\ UNCHANGED <<host, hidden, recapture, output, applied, raced, foreignWrites, diskFaults, writes>>

\* A tree whose names collide, that names a protected path or is too large is refused as a whole.
DecodeTree(tree) ==
  /\ apply.phase = "running"
  /\ output' = tree
  /\ apply' \in {[apply EXCEPT !.phase = "recapture"], [apply EXCEPT !.phase = "rejected"]}
  /\ UNCHANGED <<host, hidden, snapshot, recapture, applied, theirs, raced, foreignWrites, diskFaults,
                 writes>>

Recapture(n) ==
  /\ apply.phase = "recapture" /\ apply.next = n
  /\ recapture' = [recapture EXCEPT ![n] = Seen(n, recapture)]
  /\ apply' = IF n = "d/f" THEN [apply EXCEPT !.phase = "compare"]
              ELSE [apply EXCEPT !.next = NameAfter(n)]
  /\ UNCHANGED <<host, hidden, snapshot, output, applied, theirs, raced, foreignWrites, diskFaults,
                 writes>>

-----------------------------------------------------------------------------
(***************************************************************************)
(* apply.                                                                  *)
(***************************************************************************)
Differs(n) == output[n] # snapshot[n].value
Removed(n) == Differs(n) /\ output[n] = "none"

\* The entry whose turn it is: removed files, the deeper ones first, removed directories, new
\* directories, changed files.
NextEntry ==
  LET Due(n) == n \in apply.entries IN
  IF Due("d/f") /\ Removed("d/f") THEN "d/f"
  ELSE IF Due("a") /\ Removed("a") THEN "a"
  ELSE IF Due("d") THEN "d"
  ELSE IF Due("a") THEN "a" ELSE "d/f"

\* assert_unchanged and the look into directories that are to go.
Preflight ==
  /\ apply.phase = "compare"
  /\ apply' = IF recapture # snapshot \/ (Removed("d") /\ hidden)
              THEN [apply EXCEPT !.phase = "rejected"]
              ELSE [apply EXCEPT !.phase = "applying", !.entries = {n \in Names : Differs(n)}]
  /\ UNCHANGED <<host, hidden, snapshot, recapture, output, applied, theirs, raced, foreignWrites,
                 diskFaults, writes>>

\* Mistake: that the file is still there is enough.
FileThere(n) == host[n] # Nowhere

\* _assert_file_current
FileCurrent(n) == host[n] = snapshot[n]

\* What stands before the system call that changes the entry. A file that was not there is
\* published by a link and a directory by mkdir or rmdir: these check by themselves.
Checked(n) == n \in FileNames /\ snapshot[n] # Nowhere => FileCurrent(n)

\* "Writeback incomplete after n entries; do not replay automatically."
Indeterminate == apply' = [apply EXCEPT !.phase = "indeterminate", !.checked = FALSE]

CheckEntry ==
  /\ apply.phase = "applying" /\ apply.entries # {} /\ ~apply.checked
  /\ IF Checked(NextEntry) THEN apply' = [apply EXCEPT !.checked = TRUE] ELSE Indeterminate
  /\ UNCHANGED <<host, hidden, snapshot, recapture, output, applied, theirs, raced, foreignWrites,
                 diskFaults, writes>>

\* unlink, rmdir, mkdir, link and replace, as the system carries them out.
Possible(n) ==
  CASE Removed(n) /\ n = "d" -> Exists("d") /\ ~hidden /\ ~Exists("d/f")
    [] Removed(n) /\ n # "d" -> Exists(n)
    [] ~Removed(n) /\ n = "d" -> ~Exists("d")
    [] OTHER -> Exists(DirectoryOf(n)) /\ (snapshot[n] = Nowhere => ~Exists(n))
ChangeEntry ==
  /\ apply.phase = "applying" /\ apply.entries # {} /\ apply.checked
  /\ LET n == NextEntry IN
     IF Possible(n)
     THEN /\ host' = [host EXCEPT ![n] = IF Removed(n) THEN Nowhere
                                        ELSE [value |-> output[n], id |-> writes + 1]]
          /\ writes' = writes + 1
          /\ applied' = applied \cup {n}
          /\ apply' = [apply EXCEPT !.entries = @ \ {n}, !.checked = FALSE]
     ELSE Indeterminate /\ UNCHANGED <<host, writes, applied>>
  /\ UNCHANGED <<hidden, snapshot, recapture, output, theirs, raced, foreignWrites, diskFaults>>

\* The disk is full, a directory may not be written: temporary file or entry fail.
FailEntry ==
  /\ apply.phase = "applying" /\ apply.entries # {} /\ diskFaults < MaxDiskFaults
  /\ diskFaults' = diskFaults + 1 /\ Indeterminate
  /\ UNCHANGED <<host, hidden, snapshot, recapture, output, applied, theirs, raced, foreignWrites,
                 writes>>

FinishApply ==
  /\ apply.phase = "applying" /\ apply.entries = {} /\ apply' = [apply EXCEPT !.phase = "done"]
  /\ UNCHANGED <<host, hidden, snapshot, recapture, output, applied, theirs, raced, foreignWrites,
                 diskFaults, writes>>

-----------------------------------------------------------------------------
(***************************************************************************)
(* Somebody else.                                                          *)
(***************************************************************************)
\* An empty directory, or that nothing is there, is the same whoever made it so.
Unmade(n, value) ==
  n \notin applied /\ value = snapshot[n].value /\ (n = "d" \/ value = "none")
Touch(n, value) ==
  /\ foreignWrites < MaxForeignWrites /\ foreignWrites' = foreignWrites + 1
  /\ value # "none" => Exists(DirectoryOf(n)) /\ (n = "d" => ~Exists("d"))
  /\ value = "none" => Exists(n) /\ (n = "d" => ~hidden /\ ~Exists("d/f"))
  /\ host' = [host EXCEPT ![n] = IF value = "none" THEN Nowhere
                                     ELSE [value |-> value, id |-> writes + 1]]
  /\ writes' = writes + 1
  /\ theirs' = [theirs EXCEPT ![n] = IF Unmade(n, value) THEN "nothing" ELSE value]
  /\ raced' = IF apply.checked /\ n = NextEntry THEN raced \cup {n} ELSE raced
  /\ UNCHANGED <<hidden, snapshot, recapture, output, apply, applied, diskFaults>>
Hide ==
  /\ foreignWrites < MaxForeignWrites /\ foreignWrites' = foreignWrites + 1
  /\ Exists("d") /\ ~hidden /\ hidden' = TRUE
  /\ UNCHANGED <<host, snapshot, recapture, output, apply, applied, theirs, raced, diskFaults,
                 writes>>

-----------------------------------------------------------------------------
WbInit ==
  /\ \E tree \in Trees :
       host = [n \in Names |-> IF tree[n] = "none" THEN Nowhere ELSE [value |-> tree[n], id |-> 1]]
  /\ hidden = FALSE
  /\ snapshot = [n \in Names |-> Nowhere] /\ recapture = snapshot
  /\ output = [n \in Names |-> "none"]
  /\ apply = [phase |-> "capture", next |-> "a", entries |-> {}, checked |-> FALSE]
  /\ applied = {} /\ theirs = [n \in Names |-> "nothing"] /\ raced = {}
  /\ foreignWrites = 0 /\ diskFaults = 0 /\ writes = 1

WbNext ==
  \/ \E n \in Names : CaptureName(n) \/ Recapture(n) \/ \E v \in Values(n) \cup {"none"} : Touch(n, v)
  \/ \E tree \in Trees : DecodeTree(tree)
  \/ Preflight \/ CheckEntry \/ ChangeEntry \/ FailEntry \/ FinishApply \/ Hide

WbSpec == WbInit /\ [][WbNext]_wb_vars

-----------------------------------------------------------------------------
\* What somebody else wrote after the snapshot stands, whatever apply does, but for a file that is
\* written in the moment between the check of its identity and its replacement.
TheirsKept ==
  \A n \in Names : theirs[n] # "nothing" /\ n \notin raced => host[n].value = theirs[n]

\* Everywhere else the workspace is what the sandbox gave back, or what it was: all of it when
\* apply returns, nothing when it was rejected, and the listed entries when it failed between.
AsReported ==
  \A n \in Names : theirs[n] = "nothing" =>
    CASE apply.phase = "done" -> host[n].value = output[n]
      [] apply.phase \in {"applying", "indeterminate"} ->
           host[n].value = IF n \in applied THEN output[n] ELSE snapshot[n].value
      [] apply.phase = "rejected" -> host[n].value = snapshot[n].value
      [] OTHER -> TRUE

(***************************************************************************)
(* "Bounded workspace snapshots and conflict-checked application of        *)
(* untrusted output."                                                      *)
(***************************************************************************)
WritebackSound == TheirsKept /\ AsReported
=============================================================================
