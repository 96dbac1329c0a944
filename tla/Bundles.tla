------------------------------ MODULE Bundles ------------------------------
(***************************************************************************)
(* What leaves and enters the store of evaluations                         *)
(* (src/forge/application/artifacts.py, src/benchmark/core/bundle.py and   *)
(* results.py).                                                            *)
(*                                                                         *)
(* An export freezes a snapshot of a run, keeps it as an artifact, records *)
(* where it is to go, links it there and records the action: four commits  *)
(* with a crash or somebody else's file between any two of them. An import *)
(* takes one selected file, reads it as an untrusted bundle and compares   *)
(* its facts with all that was imported before.                            *)
(*                                                                         *)
(* A bundle is a record of what its files say, and its digest that record. *)
(* Attempt i is the one of trial i, a repetition of one task.              *)
(*                                                                         *)
(* Environment: attempts run and end, people add notes, stored evidence    *)
(* gets damaged, other programs write, forge and remove files and replace  *)
(* the folder.                                                             *)
(***************************************************************************)
EXTENDS Naturals, Sequences, FiniteSets

CONSTANTS
  BundleActions,    \* the ids of the actions that clients send
  FolderNames,      \* the file names of the folder bundles are kept in
  Privacies,        \* what exports may be asked for: metadata_only, redacted_artifacts
  Grades,           \* what attempts may be graded
  MaxRepeats,       \* how many attempts the run has in the end
  MaxNotes,         \* bound: notes
  MaxSelections,    \* how many selections an engine holds at once
  MaxBundles,       \* bound: snapshots frozen
  MaxOutside,       \* bound: damage to artifacts and deeds of other programs in the folder
  MaxBundleCrashes  \* bound: crashes

ASSUME BundlesAssumption ==
  {MaxRepeats, MaxNotes, MaxSelections, MaxBundles, MaxOutside, MaxBundleCrashes}
       \subseteq Nat

VARIABLES
  bench,       \* the run: its state, its attempts and its notes, each in order
  kept,        \* the artifacts published for exports, in order
  intents,     \* bundle_exports: the frozen intent of an action
  handled,     \* actions: the result of an action
  away,        \* what was imported: bundles, facts and reports
  folder,      \* the folder of the user: its identity and its files
  selections,  \* the selections of the trusted host, in memory
  export,      \* the export in progress
  tally,       \* how often the environment acted
  linked,      \* history: every file an export put in place
  others      \* history: what other programs have in the folder

bundle_vars == <<bench, kept, intents, handled, away, folder, selections, export, tally,
                 linked, others>>

NoFileThere == [id |-> 0]                       \* no file
SomethingElse == [id |-> 0, sealed |-> FALSE]  \* a file that is no bundle
NoExport == [at |-> "idle", action |-> "none", bundle |-> 0, token |-> NoFileThere]

BundleInit ==
  /\ bench = [state |-> "running", attempts |-> <<>>, notes |-> <<>>]
  /\ kept = <<>>
  /\ intents = {}
  /\ handled = {}
  /\ away = [bundles |-> {}, facts |-> {}, report |-> <<>>]
  /\ folder = [id |-> 0, file |-> [p \in FolderNames |-> NoFileThere]]
  /\ selections = {}
  /\ export = NoExport
  /\ tally = [outside |-> 0, crashes |-> 0]
  /\ linked = {}
  /\ others = [p \in FolderNames |-> NoFileThere]

-----------------------------------------------------------------------------
(***************************************************************************)
(* The run, as the evaluations of the engine leave it.                     *)
(***************************************************************************)
Attempts == 1..Len(bench.attempts)

AttemptBegins ==
  /\ bench.state = "running"
  /\ Len(bench.attempts) < MaxRepeats
  /\ bench' = [bench EXCEPT !.attempts = Append(@,
       [execution |-> "running", cleanup |-> "pending", grade |-> "none", evidence |-> "none"])]
  /\ UNCHANGED <<kept, intents, handled, away, folder, selections, export, tally, linked, others>>

\* A graded attempt publishes its evidence, for which the classification decides who may see it.
AttemptIsOver ==
  /\ \E i \in Attempts :
       /\ bench.attempts[i].execution = "running"
       /\ \E grade \in Grades, evidence \in {"metadata", "private"} :
            bench' = [bench EXCEPT
              !.attempts[i] = [execution |-> "finished", cleanup |-> "clean",
                               grade |-> grade, evidence |-> evidence],
              !.state = IF /\ Len(bench.attempts) = MaxRepeats
                           /\ \A j \in Attempts \ {i} : bench.attempts[j].execution = "finished"
                          THEN "completed" ELSE @]
  /\ UNCHANGED <<kept, intents, handled, away, folder, selections, export, tally, linked, others>>

\* What annotate appends (see Failures).
Annotated(i, cites) ==
  /\ Len(bench.notes) < MaxNotes
  /\ cites => bench.attempts[i].evidence # "none"
  /\ LET earlier == {n \in DOMAIN bench.notes : bench.notes[n].attempt = i}
     IN  bench' = [bench EXCEPT !.notes = Append(@, [attempt |-> i, cites |-> cites,
           supersedes |-> IF earlier = {} THEN 0
                          ELSE CHOOSE n \in earlier : \A m \in earlier : m <= n])]
  /\ UNCHANGED <<kept, intents, handled, away, folder, selections, export, tally, linked, others>>

DamageEvidence ==
  /\ tally.outside < MaxOutside
  /\ tally' = [tally EXCEPT !.outside = @ + 1]
  /\ \E i \in Attempts :
       /\ bench.attempts[i].evidence \in {"metadata", "private"}
       /\ bench' = [bench EXCEPT !.attempts[i].evidence = "damaged"]
  /\ UNCHANGED <<kept, intents, handled, away, folder, selections, export, linked, others>>

-----------------------------------------------------------------------------
(***************************************************************************)
(* Snapshots and their reader.                                             *)
(***************************************************************************)
\* What a bundle says of the evidence of an attempt: a damaged one is missing, a private one is
\* left out, the others are copied if the privacy of the export allows it.
EvidenceStatus(evidence, privacy) ==
  CASE evidence = "none"    -> "none"
    [] evidence = "damaged" -> "missing"
    [] evidence = "private" -> "omitted_private"
    [] OTHER -> IF privacy = "redacted_artifacts" THEN "redacted_copy" ELSE "omitted_metadata_only"

Freeze(privacy, id) ==
  [id |-> id, sealed |-> TRUE, state |-> bench.state, notes |-> bench.notes,
   attempts |-> [i \in Attempts |-> [execution |-> bench.attempts[i].execution,
                                     cleanup |-> bench.attempts[i].cleanup,
                                     grade |-> bench.attempts[i].grade]],
   selected |-> [t \in 1..MaxRepeats |-> IF t \in Attempts THEN t ELSE 0],
   evidence |-> [i \in Attempts |-> EvidenceStatus(bench.attempts[i].evidence, privacy)]]

TrialsSound(b) ==
  \A t \in 1..MaxRepeats : b.selected[t] = IF t \in DOMAIN b.attempts THEN t ELSE 0
NotesSound(b) ==
  \A n \in DOMAIN b.notes :
    /\ b.notes[n].attempt \in DOMAIN b.attempts
    /\ b.notes[n].supersedes < n
    /\ b.notes[n].supersedes # 0 => b.notes[b.notes[n].supersedes].attempt = b.notes[n].attempt
    /\ b.notes[n].cites => b.evidence[b.notes[n].attempt] # "none"

\* The archive is what its manifest says, and the records fit each other.
Readable(b) == b # NoFileThere /\ b.sealed /\ TrialsSound(b) /\ NotesSound(b)

\* What an import remembers of a bundle: the value of each record under its identity.
Facts(b) ==
  {<<"run", 0, b.state>>}
  \cup {<<"trial", t, b.selected[t]>> : t \in 1..MaxRepeats}
  \cup {<<"attempt", i, b.attempts[i]>> : i \in DOMAIN b.attempts}
  \cup {<<"note", n, b.notes[n]>> : n \in DOMAIN b.notes}

-----------------------------------------------------------------------------
(***************************************************************************)
(* Selections. They live in the memory of one engine.                      *)
(***************************************************************************)
Select(token) ==
  /\ token \notin selections
  /\ Cardinality(selections) < MaxSelections
  /\ selections' = selections \cup {token}
  /\ UNCHANGED <<bench, kept, intents, handled, away, folder, export, tally, linked, others>>

GrantSource(p) ==
  /\ folder.file[p] # NoFileThere
  /\ Select([kind |-> "source", place |-> p, identity |-> folder.file[p]])

GrantDestination(p, privacy) ==
  /\ folder.file[p] = NoFileThere
  /\ Select([kind |-> "destination", place |-> p, parent |-> folder.id, privacy |-> privacy])

GrantExpires ==
  /\ \E token \in selections : selections' = selections \ {token}
  /\ UNCHANGED <<bench, kept, intents, handled, away, folder, export, tally, linked, others>>

-----------------------------------------------------------------------------
(***************************************************************************)
(* Export.                                                                 *)
(***************************************************************************)
NoExportRuns == export.at = "idle"
PendingAction(a, method) == \A d \in handled : d.action # a \/ d.method # method
Intended(a) == {i \in intents : i.action = a}

\* publish_artifact commits a row after its file; a crash between them leaves a file nobody reads.
Publish(b) == kept' = Append(kept, [content |-> b, good |-> TRUE])

\* read_artifact accepts only the bytes that were published.
Intact(k) == kept[k].good

\* Without an intent, a snapshot is frozen, read back and published as an artifact of its own.
ExportFresh(a, token) ==
  /\ NoExportRuns /\ PendingAction(a, "export") /\ Intended(a) = {}
  /\ token \in selections /\ token.kind = "destination"
  /\ Len(kept) < MaxBundles
  /\ LET b == Freeze(token.privacy, Len(kept) + 1)
     IN  Readable(b) /\ Publish(b)
  /\ export' = [at |-> "frozen", action |-> a, bundle |-> Len(kept) + 1, token |-> token]
  /\ UNCHANGED <<bench, intents, handled, away, folder, selections, tally, linked, others>>

RecordIntent ==
  /\ export.at = "frozen"
  /\ intents' = intents \cup
       {[action |-> export.action, bundle |-> export.bundle, token |-> export.token]}
  /\ export' = [export EXCEPT !.at = "intended"]
  /\ UNCHANGED <<bench, kept, handled, away, folder, selections, tally, linked, others>>

\* With one, the frozen bytes are taken, whatever became of the selection.
ExportAgain(a) ==
  /\ NoExportRuns /\ PendingAction(a, "export")
  /\ \E i \in Intended(a) :
       /\ Intact(i.bundle)
       /\ export' = [at |-> "intended", action |-> a, bundle |-> i.bundle, token |-> i.token]
  /\ UNCHANGED <<bench, kept, intents, handled, away, folder, selections, tally, linked, others>>

Bytes == kept[export.bundle].content
SameFolder == folder.id = export.token.parent

\* A file that is there already is accepted when it is the frozen one.
CheckDestination ==
  /\ export.at = "intended"
  /\ LET there == folder.file[export.token.place]
     IN  export' = CASE ~SameFolder -> NoExport
                     [] SameFolder /\ there = NoFileThere -> [export EXCEPT !.at = "writing"]
                     [] SameFolder /\ there = Bytes -> [export EXCEPT !.at = "linked"]
                     [] OTHER -> NoExport
  /\ UNCHANGED <<bench, kept, intents, handled, away, folder, selections, tally, linked, others>>

\* A plausible bug: the temporary file is moved into place instead of linked.
LinkReplaces ==
  /\ export.at = "writing"
  /\ IF SameFolder
       THEN /\ folder' = [folder EXCEPT !.file[export.token.place] = Bytes]
            /\ linked' = linked \cup {[action |-> export.action, bundle |-> Bytes]}
            /\ export' = [export EXCEPT !.at = "linked"]
       ELSE export' = NoExport /\ UNCHANGED <<folder, linked>>
  /\ UNCHANGED <<bench, kept, intents, handled, away, selections, tally, others>>

\* The temporary file is complete; the link never replaces what is there.
LinkDestination ==
  /\ export.at = "writing"
  /\ IF SameFolder /\ folder.file[export.token.place] = NoFileThere
       THEN /\ folder' = [folder EXCEPT !.file[export.token.place] = Bytes]
            /\ linked' = linked \cup {[action |-> export.action, bundle |-> Bytes]}
            /\ export' = [export EXCEPT !.at = "linked"]
       ELSE export' = NoExport /\ UNCHANGED <<folder, linked>>
  /\ UNCHANGED <<bench, kept, intents, handled, away, selections, tally, others>>

RecordExport ==
  /\ export.at = "linked"
  /\ handled' = handled \cup {[action |-> export.action, method |-> "export", bundle |-> Bytes]}
  /\ selections' = selections \ {export.token}
  /\ export' = NoExport
  /\ UNCHANGED <<bench, kept, intents, away, folder, tally, linked, others>>

-----------------------------------------------------------------------------
(***************************************************************************)
(* Import. Everything it publishes is one transaction.                     *)
(***************************************************************************)
SameId(b) == {old \in away.bundles : old.id = b.id /\ old # b}
Contradicted(b) ==
  {old \in away.facts : \E f \in Facts(b) : f[1] = old[1] /\ f[2] = old[2] /\ f[3] # old[3]}

\* INSERT OR IGNORE: a fact under an identity that has one already is dropped.
Remember(facts, b) ==
  facts \cup {f \in Facts(b) : \A old \in facts : <<f[1], f[2]>> # <<old[1], old[2]>>}

\* The selected file must still be the one selected. A contradiction is put aside, where
\* nobody reads it, and changes no fact; a run that was imported before keeps its first report.
ImportBundle(a, token) ==
  /\ NoExportRuns /\ PendingAction(a, "import")
  /\ token \in selections /\ token.kind = "source"
  /\ folder.file[token.place] = token.identity
  /\ LET b == token.identity
     IN  /\ Readable(b)
         /\ IF SameId(b) = {} /\ Contradicted(b) = {}
              THEN /\ away' = [away EXCEPT !.bundles = @ \cup {b}, !.facts = Remember(@, b),
                                           !.report = IF @ = <<>> THEN <<b>> ELSE @]
                   /\ handled' = handled \cup {[action |-> a, method |-> "import", bundle |-> b]}
                   /\ selections' = selections \ {token}
              ELSE UNCHANGED <<away, handled, selections>>
  /\ UNCHANGED <<bench, kept, intents, folder, export, tally, linked, others>>

-----------------------------------------------------------------------------
(***************************************************************************)
(* The end of an engine, and the others.                                   *)
(***************************************************************************)
\* The next engine has another epoch, so no selection of this one counts any more.
BundleCrash ==
  /\ tally.crashes < MaxBundleCrashes
  /\ tally' = [tally EXCEPT !.crashes = @ + 1]
  /\ selections' = {}
  /\ export' = NoExport
  /\ UNCHANGED <<bench, kept, intents, handled, away, folder, linked, others>>

\* Three forgeries of a bundle: its archive no longer fits its manifest; it is sealed again over
\* records that do not fit each other; or over another grade.
Forgeries(b) ==
  IF b \in {NoFileThere, SomethingElse} THEN {}
  ELSE {[b EXCEPT !.sealed = FALSE], [b EXCEPT !.selected[1] = 0]}
       \cup {[b EXCEPT !.attempts[i].grade = IF @ = "pass" THEN "fail" ELSE "pass"] :
                i \in {j \in DOMAIN b.attempts : b.attempts[j].grade # "none"}}

OthersWrite ==
  /\ tally.outside < MaxOutside
  /\ tally' = [tally EXCEPT !.outside = @ + 1]
  /\ \/ \E p \in FolderNames :
          \E content \in {NoFileThere, SomethingElse} \cup Forgeries(folder.file[p]) :
            /\ content # folder.file[p]
            /\ folder' = [folder EXCEPT !.file[p] = content]
            /\ others' = [others EXCEPT ![p] = content]
     \/ /\ folder' = [id |-> folder.id + 1, file |-> [p \in FolderNames |-> NoFileThere]]
        /\ others' = [p \in FolderNames |-> NoFileThere]
  /\ UNCHANGED <<bench, kept, intents, handled, away, selections, export, linked>>

DamageKept ==
  /\ tally.outside < MaxOutside
  /\ tally' = [tally EXCEPT !.outside = @ + 1]
  /\ \E k \in DOMAIN kept : kept' = [kept EXCEPT ![k].good = FALSE]
  /\ UNCHANGED <<bench, intents, handled, away, folder, selections, export, linked, others>>

BundleNext ==
  \/ AttemptBegins
  \/ AttemptIsOver
  \/ DamageEvidence
  \/ DamageKept
  \/ \E p \in FolderNames : GrantSource(p) \/ \E privacy \in Privacies : GrantDestination(p, privacy)
  \/ GrantExpires
  \/ \E a \in BundleActions :
       \/ ExportAgain(a)
       \/ \E token \in selections : ExportFresh(a, token) \/ ImportBundle(a, token)
  \/ RecordIntent
  \/ CheckDestination
  \/ LinkDestination
  \/ RecordExport
  \/ \E i \in Attempts, cites \in BOOLEAN : Annotated(i, cites)
  \/ BundleCrash
  \/ OthersWrite

BundleSpec == BundleInit /\ [][BundleNext]_bundle_vars

-----------------------------------------------------------------------------
(***************************************************************************)
(* Properties                                                              *)
(***************************************************************************)
\* Whatever crashed in between, an action puts one and the same bundle in place, its result is the
\* one it froze, and a file of somebody else is never replaced.
ExportsAgree ==
  /\ \A l, m \in linked : l.action = m.action => l.bundle = m.bundle
  /\ \A d \in handled : d.method = "export" =>
       \E i \in Intended(d.action) : kept[i.bundle].content = d.bundle
  /\ \A p \in FolderNames : others[p] # NoFileThere => folder.file[p] = others[p]

\* What the store would freeze now is something its own reader of untrusted bundles accepts.
SnapshotsReadable ==
  \A privacy \in Privacies : Readable(Freeze(privacy, 1))

\* All that was ever imported agrees with itself, and every fact of an imported bundle is remembered.
ImportsAgree ==
  /\ \A f, g \in away.facts : <<f[1], f[2]>> = <<g[1], g[2]>> => f[3] = g[3]
  /\ \A b \in away.bundles : Readable(b) /\ Facts(b) \subseteq away.facts
  /\ \A d \in handled : d.method = "import" => d.bundle \in away.bundles
  /\ away.report # <<>> => away.report[1] \in away.bundles

\* Exports and imports are what they claim to be (artifacts.py:113-263, results.py:62-222).
BundlesFaithful == ExportsAgree /\ SnapshotsReadable /\ ImportsAgree
=============================================================================
