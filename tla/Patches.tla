------------------------------- MODULE Patches -------------------------------
(***************************************************************************)
(* apply_patch (forge/tools/patch.py): a Codex envelope or a unified diff  *)
(* is turned into file changes, and these are applied by git or, where     *)
(* there is no git, file after file.                                       *)
(*                                                                         *)
(* A file is the sequence of its lines, each of them terminated: what the  *)
(* code does with a last line that is not, and the choice of the dominant  *)
(* line end, are left out.                                                 *)
(***************************************************************************)
EXTENDS Integers, Sequences, FiniteSets

CONSTANTS
  Lines,        \* texts of a line
  NoText,       \* the text of an empty line
  MaxLines      \* bound: lines of a file

ASSUME PatchAssumption == MaxLines \in Nat /\ NoText \in Lines

VARIABLES
  disk,         \* the workspace: two files, old and other
  before,       \* history: the workspace at the start
  patch,        \* the argument: an envelope or a unified diff
  sections,     \* the unified diff, file by file
  changes,      \* the changes still to be written
  outcome       \* the result of the tool

patch_vars == <<disk, before, patch, sections, changes, outcome>>

NoSuchFile == <<"absent">>
Paths == {"old", "other"}

\* A hunk is a sequence of lines, each context, removed or added.
Text(hunk, tags) ==
  LET chosen == SelectSeq(hunk, LAMBDA line : line.tag \in tags) IN
  [i \in DOMAIN chosen |-> chosen[i].text]
OldText(hunk) == Text(hunk, {" ", "-"})
NewText(hunk) == Text(hunk, {" ", "+"})
Mark(tag, lines) == [i \in DOMAIN lines |-> [tag |-> tag, text |-> lines[i]]]

Substituted(lines, position, count, new) ==
  SubSeq(lines, 1, position) \o new \o SubSeq(lines, position + count + 1, Len(lines))
Splice(lines, position, hunk) ==
  Substituted(lines, position, Len(OldText(hunk)), NewText(hunk))

\* Where a sequence of lines stands at or behind a position.
Places(lines, needle, start) ==
  {i \in start .. Len(lines) - Len(needle) : SubSeq(lines, i + 1, i + Len(needle)) = needle}

(***************************************************************************)
(* The envelope. Each hunk must stand at one place behind the hunk before. *)
(***************************************************************************)
PatchFailed(code) == [error |-> code, lines |-> <<>>, cursor |-> 0]

HunksError(hunks) ==
  IF hunks = <<>> THEN "patch_missing_hunk"
  ELSE IF <<>> \in {hunks[i] : i \in DOMAIN hunks} THEN "patch_empty_hunk" ELSE "none"

FirstPlace(file, hunk) ==
  LET found == Places(file.lines, OldText(hunk), file.cursor)
      p == CHOOSE i \in found : \A j \in found : i <= j IN
  IF found = {} THEN PatchFailed("patch_context_not_found")
  ELSE [error |-> "none", lines |-> Splice(file.lines, p, hunk), cursor |-> p + Len(NewText(hunk))]

FindUniqueSequence(file, hunk) ==
  LET found == Places(file.lines, OldText(hunk), file.cursor)
      p == CHOOSE i \in found : TRUE IN
  IF found = {} THEN PatchFailed("patch_context_not_found")
  ELSE IF Cardinality(found) > 1 THEN PatchFailed("patch_context_ambiguous")
  ELSE [error |-> "none", lines |-> Splice(file.lines, p, hunk), cursor |-> p + Len(NewText(hunk))]

\* The end of the last line is put back even when no line is left.
WithLastEnd(lines) == IF lines = <<>> THEN <<NoText>> ELSE lines

ApplyUpdateHunks(lines, hunks) ==
  LET step[i \in 0 .. Len(hunks)] ==
        IF i = 0 THEN [error |-> HunksError(hunks), lines |-> lines, cursor |-> 0]
        ELSE LET file == step[i - 1] IN
          IF file.error # "none" THEN file
          ELSE IF Text(hunks[i], {"+", "-"}) = <<>> THEN PatchFailed("patch_no_changes")
          ELSE IF OldText(hunks[i]) = <<>> THEN PatchFailed("patch_rejected")
          ELSE FindUniqueSequence(file, hunks[i])
  IN [step[Len(hunks)] EXCEPT !.lines = WithLastEnd(@)]

\* build_unified_patch for one operation: the change, or the error.
Change(op) ==
  LET was == disk[op.path]
      file == ApplyUpdateHunks(was, op.hunks)
      change(error, new) == [error |-> error, path |-> op.path, was |-> was, new |-> new] IN
  IF op.kind = "add" THEN
    IF was # NoSuchFile \/ op.hunks = <<>> THEN change("patch_rejected", was)
    ELSE change("none", NewText(Head(op.hunks)))
  ELSE IF was = NoSuchFile THEN change("patch_rejected", was)
  ELSE IF op.kind = "delete" THEN change(IF op.hunks # <<>> THEN "patch_rejected" ELSE "none", NoSuchFile)
  ELSE change(IF file.error = "none" /\ file.lines = was THEN "patch_already_applied" ELSE file.error,
              file.lines)

\* parse_codex_envelope: there are operations, and one at most for a path.
EnvelopeError(ops) ==
  ops = <<>> \/ Cardinality({ops[i].path : i \in DOMAIN ops}) < Len(ops)

\* The first error ends the operation.
FirstError(results) ==
  LET errors == {i \in DOMAIN results : results[i].error # "none"} IN
  IF errors = {} THEN "none" ELSE results[CHOOSE i \in errors : \A j \in errors : i <= j].error

\* render_unified_change: a diff of the whole file, as small as the files of the model are.
\* There is none between an empty file and no file.
Render(change) ==
  LET old == IF change.was = NoSuchFile THEN <<>> ELSE change.was
      new == IF change.new = NoSuchFile THEN <<>> ELSE change.new IN
  IF old = new THEN <<>>
  ELSE <<[path |-> change.path, was |-> change.was = NoSuchFile, is |-> change.new = NoSuchFile,
          hunks |-> <<[start |-> IF old = <<>> THEN 0 ELSE 1,
                      body |-> Mark("-", old) \o Mark("+", new)]>>]>>

Rendered(built) ==
  LET parts[i \in 0 .. Len(built)] == IF i = 0 THEN <<>> ELSE parts[i - 1] \o Render(built[i])
  IN parts[Len(built)]

(***************************************************************************)
(* A unified diff without git: each hunk must stand at the line its header *)
(* gives, moved by what the hunks before it added or removed. Every        *)
(* section is computed from the disk.                                      *)
(***************************************************************************)
MaterializeHunks(lines, hunks) ==
  LET step[i \in 0 .. Len(hunks)] ==
        IF i = 0 THEN [error |-> "none", lines |-> lines, offset |-> 0]
        ELSE LET file == step[i - 1]
                 hunk == hunks[i].body
                 position == IF hunks[i].start = 0 THEN 0 ELSE hunks[i].start - 1 + file.offset IN
          IF file.error # "none" \/ position < 0 \/ position \notin Places(file.lines, OldText(hunk), 0)
          THEN [file EXCEPT !.error = "patch_context_not_found"]
          ELSE [error |-> "none", lines |-> Splice(file.lines, position, hunk),
                offset |-> file.offset + Len(NewText(hunk)) - Len(OldText(hunk))]
  IN step[Len(hunks)]

Materialize(section) ==
  LET was == disk[section.path]
      file == MaterializeHunks(IF section.was THEN <<>> ELSE was, section.hunks)
      error == IF (was = NoSuchFile) # section.was \/ section.hunks = <<>> THEN "patch_rejected"
               ELSE file.error IN
  [error |-> error, path |-> section.path, was |-> was,
   new |-> IF section.is THEN NoSuchFile ELSE file.lines]

(***************************************************************************)
(* The same with git apply (git itself is external; this is version 2.39). *)
(* It looks for a hunk's lines around the stated number, forwards first,   *)
(* among the lines no hunk before it wrote. A hunk stated at the first     *)
(* line must stand there; one that does not end in context must stand at   *)
(* the end. A hunk that changes nothing is corrupt.                        *)
(***************************************************************************)
Owned(lines, own) == [i \in DOMAIN lines |-> [text |-> lines[i], own |-> own]]
EndsInChange(hunk) == hunk[Len(hunk)].tag # " "
Distance(i, j) == IF i > j THEN i - j ELSE j - i

GitHunks(lines, hunks) ==
  LET step[i \in 0 .. Len(hunks)] ==
        IF i = 0 THEN [error |-> "none", image |-> Owned(lines, FALSE), offset |-> 0]
        ELSE LET file == step[i - 1]
                 hunk == hunks[i].body
                 old == Owned(OldText(hunk), FALSE)
                 stated == hunks[i].start - 1 + file.offset
                 found == {p \in Places(file.image, old, 0) :
                            /\ hunks[i].start <= 1 => p = 0
                            /\ EndsInChange(hunk) => p + Len(old) = Len(file.image)}
                 position == CHOOSE p \in found : \A q \in found \ {p} :
                               \/ Distance(p, stated) < Distance(q, stated)
                               \/ Distance(p, stated) = Distance(q, stated) /\ p > q IN
          IF file.error # "none" \/ found = {} \/ Text(hunk, {"+", "-"}) = <<>>
          THEN [file EXCEPT !.error = "patch_rejected"]
          ELSE [error |-> "none",
                image |-> Substituted(file.image, position, Len(old), Owned(NewText(hunk), TRUE)),
                offset |-> file.offset + Len(NewText(hunk)) - Len(old)]
      last == step[Len(hunks)]
  IN [error |-> last.error, lines |-> [i \in DOMAIN last.image |-> last.image[i].text]]

GitMaterialize(section) ==
  LET was == disk[section.path]
      file == GitHunks(IF section.was THEN <<>> ELSE was, section.hunks)
      error == IF \/ (was = NoSuchFile) # section.was \/ section.hunks = <<>>
                  \/ section.is /\ file.lines # <<>>
               THEN "patch_rejected" ELSE file.error IN
  [error |-> error, path |-> section.path, was |-> was,
   new |-> IF section.is THEN NoSuchFile ELSE file.lines]

(***************************************************************************)
(* The inputs: files over Lines, and patches of one or two operations,     *)
(* sections or hunks.                                                      *)
(***************************************************************************)
SeqsTo(n) == UNION {[1 .. k -> Lines] : k \in 0 .. n}

BareEdits ==
  {Mark("-", <<x>>) : x \in Lines} \union {Mark("+", <<x>>) : x \in Lines}
    \union {Mark("-", <<x>>) \o Mark("+", <<y>>) : x \in Lines, y \in Lines}

Bodies ==
  LET context == {Mark(" ", <<x>>) : x \in Lines} IN
  BareEdits \union context \union {c \o e : c \in context, e \in BareEdits}
            \union {e \o c : c \in context, e \in BareEdits}

Update(path, hunks) == [kind |-> "update", path |-> path, hunks |-> hunks]

Operations(path) ==
  {Update(path, <<>>), Update(path, <<<<>>>>)}
    \union {Update(path, <<b>>) : b \in Bodies}
    \union [kind : {"add"}, path : {path}, hunks : {<<>>} \union {<<Mark("+", <<x>>)>> : x \in Lines}]
    \union [kind : {"delete"}, path : {path}, hunks : {<<>>}]

PatchForms ==
  {<<>>} \union {<<op>> : op \in Operations("old")}
    \union {<<Update("old", <<a, b>>)>> : a \in Bodies, b \in BareEdits}
    \union {<<op, Update(path, <<Mark("-", <<x>>)>>)>> :
              op \in Operations("old"), path \in Paths, x \in Lines}

\* Hunks with something to match, in the order of the file and apart, as every diff tool writes
\* them; the model that writes the patch may get the lines wrong.
Hunks ==
  {<<[start |-> n, body |-> b]>> : n \in 1 .. MaxLines, b \in {c \in Bodies : OldText(c) # <<>>}}

InOrder(a, b) == a[1].start + Len(OldText(a[1].body)) <= b[1].start

Diffs ==
  LET of(path, hunks) == [path |-> path, was |-> FALSE, is |-> FALSE, hunks |-> hunks] IN
  {<<of("old", h)>> : h \in Hunks}
    \union {<<[of("old", h) EXCEPT !.is = TRUE]>> : h \in Hunks}
    \union {<<[of("old", <<[start |-> 0, body |-> Mark("+", <<x>>)]>>) EXCEPT !.was = TRUE]>> :
              x \in Lines}
    \union {<<of("old", p[1] \o p[2])>> :
              p \in {q \in Hunks \X Hunks : q[2][1].body \in BareEdits /\ InOrder(q[1], q[2])}}
    \union {<<of("old", h), of("other", <<[start |-> 1, body |-> Mark("-", <<x>>)]>>)>> :
              h \in Hunks, x \in Lines}

PatchInit ==
  /\ disk \in [Paths -> SeqsTo(MaxLines) \union {NoSuchFile}]
  /\ disk["other"] \in {NoSuchFile} \union {<<x>> : x \in Lines \ {NoText}}
  /\ before = disk
  /\ patch \in [form : {"envelope"}, ops : PatchForms] \union [form : {"diff"}, ops : Diffs]
  /\ disk["other"] = NoSuchFile => \E i \in DOMAIN patch.ops : patch.ops[i].path = "other"
  /\ sections = <<>> /\ changes = <<>> /\ outcome = "none"

(***************************************************************************)
(* execute.                                                                *)
(***************************************************************************)
ReadEnvelope ==
  LET built == [i \in DOMAIN patch.ops |-> Change(patch.ops[i])]
      error == IF EnvelopeError(patch.ops) THEN "patch_rejected"
               ELSE IF FirstError(built) # "none" THEN FirstError(built)
               ELSE IF Rendered(built) = <<>> THEN "patch_rejected" ELSE "none" IN
  /\ patch.form = "envelope" /\ outcome = "none" /\ sections = <<>>
  /\ outcome' = error
  /\ sections' = IF error = "none" THEN Rendered(built) ELSE <<>>
  /\ UNCHANGED <<disk, before, patch, changes>>

ReadDiff ==
  /\ patch.form = "diff" /\ outcome = "none" /\ sections = <<>>
  /\ sections' = patch.ops
  /\ UNCHANGED <<disk, before, patch, changes, outcome>>

\* git apply --check and git apply, which change everything or nothing. Where there is no
\* git, the first of them raises FileNotFoundError and the next two actions follow.
ApplyWithGit ==
  LET made == [i \in DOMAIN sections |-> GitMaterialize(sections[i])] IN
  /\ outcome = "none" /\ sections # <<>> /\ changes = <<>>
  /\ IF FirstError(made) # "none" THEN outcome' = "patch_rejected" /\ UNCHANGED disk
     ELSE /\ outcome' = "applied"
          /\ disk' = [path \in Paths |->
               IF \E i \in DOMAIN made : made[i].path = path
               THEN made[CHOOSE i \in DOMAIN made : made[i].path = path].new ELSE disk[path]]
  /\ UNCHANGED <<before, patch, sections, changes>>

\* apply_unified_patch_without_git: all changes are known before the first is written.
ValidateWithoutGit ==
  LET made == [i \in DOMAIN sections |-> Materialize(sections[i])]
      error == IF FirstError(made) # "none" THEN FirstError(made)
               ELSE IF \E i \in DOMAIN made : made[i].was = made[i].new THEN "patch_already_applied"
               ELSE "none" IN
  /\ outcome = "none" /\ sections # <<>> /\ changes = <<>>
  /\ IF error # "none" THEN outcome' = error /\ UNCHANGED changes
     ELSE outcome' = "writing" /\ changes' = made
  /\ UNCHANGED <<disk, before, patch, sections>>

\* A file is opened for writing, which empties it, and filled; that may fail on the way.
WriteWithoutGit ==
  LET next == Head(changes)
      part(k) == [disk EXCEPT ![next.path] = SubSeq(next.new, 1, k)] IN
  /\ outcome = "writing"
  /\ \/ /\ disk' = [disk EXCEPT ![next.path] = next.new]
        /\ changes' = Tail(changes)
        /\ outcome' = IF changes' = <<>> THEN "applied_without_git" ELSE outcome
     \/ /\ disk' \in {disk} \union (IF next.new = NoSuchFile THEN {}
                                   ELSE {part(k) : k \in 0 .. Len(next.new) - 1})
        /\ outcome' = "patch_apply_failed" /\ UNCHANGED changes
  /\ UNCHANGED <<before, patch, sections>>

PatchNext == ReadEnvelope \/ ReadDiff \/ ApplyWithGit \/ ValidateWithoutGit \/ WriteWithoutGit

PatchSpec == PatchInit /\ [][PatchNext]_patch_vars

(***************************************************************************)
(* What a patch means, whichever way it was read and applied.              *)
(***************************************************************************)

\* The ways to put two or fewer hunks into a file, apart, each where its lines stand.
Fits(lines, hunks) ==
  LET ends(p, i) == p[i] + Len(OldText(hunks[i])) IN
  {p \in [DOMAIN hunks -> 0 .. Len(lines)] :
     /\ \A i \in DOMAIN hunks : p[i] \in Places(lines, OldText(hunks[i]), 0)
     /\ \A i, j \in DOMAIN hunks : i < j => ends(p, i) <= p[j] \/ ends(p, j) <= p[i]}

InFileOrder(p) == \A i, j \in DOMAIN p : i < j => p[i] < p[j]

PatchMeant(lines, hunks, p) ==
  IF Len(hunks) = 1 THEN Splice(lines, p[1], hunks[1])
  ELSE IF p[1] < p[2] THEN Splice(Splice(lines, p[2], hunks[2]), p[1], hunks[1])
  ELSE Splice(Splice(lines, p[1], hunks[1]), p[2], hunks[2])

\* An update that removes every line leaves an empty one; an empty file is not deleted.
MeantBy(op) ==
  LET was == before[op.path] IN
  CASE op.kind = "add" -> {NewText(op.hunks[1])}
    [] op.kind = "delete" -> {IF was = <<>> THEN was ELSE NoSuchFile}
    [] op.kind = "update" -> {WithLastEnd(PatchMeant(was, op.hunks, p)) :
                                p \in {q \in Fits(was, op.hunks) : InFileOrder(q)}}

\* A diff means the stated places. With git these are binding only for hunks that end in
\* context and stand there; what else it finds is some place where the lines stand.
MeantByDiff(section, gitApplied) ==
  LET was == IF section.was THEN <<>> ELSE before[section.path]
      hunks == [i \in DOMAIN section.hunks |-> section.hunks[i].body]
      stated == [i \in DOMAIN hunks |-> IF section.was THEN 0 ELSE section.hunks[i].start - 1]
      binding == stated \in Fits(was, hunks) /\ \A i \in DOMAIN hunks : ~EndsInChange(hunks[i]) IN
  IF section.is THEN {NoSuchFile}
  ELSE {PatchMeant(was, hunks, p) :
          p \in IF gitApplied /\ ~binding THEN Fits(was, hunks) ELSE {stated} \cap Fits(was, hunks)}

\* An applied patch changed each file it names in a way in which its hunks fit, and no other
\* file. An envelope fits in one way only, with its hunks in order; a diff fits at the lines it
\* states, where git, unlike the code without it, goes on to other lines. A patch that was
\* refused changed nothing. (find_unique_sequence, apply_update_hunks,
\* materialize_unified_file_change, apply_unified_patch_without_git; a write that fails between
\* two files is outside: the code leaves the first one changed.)
PatchSound ==
  /\ outcome \in {"applied", "applied_without_git"} =>
       \A path \in Paths :
         LET own == {i \in DOMAIN patch.ops : patch.ops[i].path = path} IN
         IF own = {} THEN disk[path] = before[path]
         ELSE \A i \in own :
           IF patch.form = "envelope" THEN {disk[path]} = MeantBy(patch.ops[i])
           ELSE disk[path] \in MeantByDiff(patch.ops[i], outcome = "applied")
  /\ outcome \notin {"none", "applied", "applied_without_git", "writing", "patch_apply_failed"} =>
       disk = before
=============================================================================
