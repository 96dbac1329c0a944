------------------------------ MODULE FileEdits ------------------------------
(***************************************************************************)
(* The tools that write one file or remove a directory                     *)
(* (forge/tools/filesystem.py): write_file, its correction of a file of    *)
(* the active task, write_file_chunk, replace_text, create_directory and   *)
(* remove_directory. Each runs in a thread: it reads, decides, and         *)
(* replaces the file in one step. A cancelled call leaves its thread       *)
(* running.                                                                *)
(*                                                                         *)
(* The model has one file and its parent. A text is a sequence of          *)
(* characters, " " standing for white space: a text of nothing else is no  *)
(* JSON.                                                                   *)
(***************************************************************************)
EXTENDS Integers, Sequences, FiniteSets

CONSTANTS
  Chars,        \* characters of a text
  MaxText,      \* MAX_CHUNKED_FILE_CHARACTERS
  MaxEdits      \* bound: calls

ASSUME EditAssumption == MaxText \in Nat /\ MaxEdits \in Nat

VARIABLES
  target,       \* the file: its text, NoFile, or Directory
  parent,       \* its parent: "missing", "directory", "file"
  json,         \* the file has the suffix .json
  symlinks,        \* the parent holds a symbolic link too
  edit,         \* the call the executor waits for
  late,         \* threads of cancelled calls
  edits,        \* history: number of calls
  base          \* history: the file when the call began, if no other thread was about

edit_vars == <<target, parent, json, symlinks, edit, late, edits, base>>

NoFile == <<"no file">>
Directory == <<"directory">>
EditTexts == UNION {[1 .. n -> Chars] : n \in 0 .. MaxText}
Single == {<<x>> : x \in Chars}
Short == {<<>>} \union Single \union [1 .. 2 -> Chars]
Repeated(n) == UNION {[1 .. n -> {x}] : x \in Chars}
IsFile(x) == x \notin {NoFile, Directory}

Blank(text) == \A i \in DOMAIN text : text[i] = " "
ValidContent(text) == json => ~Blank(text)

NoEdit == [op |-> "none", pc |-> "idle", seen |-> NoFile, new |-> NoFile, result |-> "none"]

EditInit ==
  /\ json \in BOOLEAN /\ symlinks \in BOOLEAN /\ (json => ~symlinks)
  /\ \/ target \in Short \union Repeated(MaxText) \union {Directory} /\ parent = "directory"
     \/ target = NoFile /\ parent \in {"missing", "directory", "file"}
  /\ edit = NoEdit /\ late = {} /\ edits = 0 /\ base = target

\* str.count: the places of a text that is not empty, from the left, none of which overlap.
Occurrences(text, old) ==
  LET n == Len(old)
      from[i \in 0 .. Len(text)] ==
        IF i + n > Len(text) THEN 0
        ELSE IF SubSeq(text, i + 1, i + n) = old THEN 1 + from[i + n] ELSE from[i + 1]
  IN from[0]

\* All places, and str.replace at the first of them.
Stands(text, old) ==
  {i \in 0 .. Len(text) - Len(old) : SubSeq(text, i + 1, i + Len(old)) = old}
Replaced(text, old, new) ==
  LET i == CHOOSE j \in Stands(text, old) : \A k \in Stands(text, old) : j <= k IN
  SubSeq(text, 1, i) \o new \o SubSeq(text, i + Len(old) + 1, Len(text))

(***************************************************************************)
(* What each tool decides from the file it reads: an error, a success      *)
(* without a write, or the text to write.                                  *)
(***************************************************************************)
Fail(code) == [error |-> code, write |-> FALSE, new |-> NoFile]
Done == Fail("ok")
Write(text) == [error |-> "none", write |-> TRUE, new |-> text]

\* ensure_parent_directory, then atomic_write_text.
WriteBelowParent(text) == IF parent = "file" THEN Fail("parent_is_file") ELSE Write(text)

WriteFileOver(c) ==
  IF target = Directory THEN Fail("not_a_file")
  ELSE IF ~ValidContent(c.text) THEN Fail("invalid_json_content")
  ELSE IF target = c.text THEN Done
  ELSE WriteBelowParent(c.text)

WriteFile(c) ==
  IF target = Directory THEN Fail("not_a_file")
  ELSE IF ~ValidContent(c.text) THEN Fail("invalid_json_content")
  ELSE IF target = c.text THEN Done
  ELSE IF target # NoFile /\ ~Blank(target) THEN Fail("file_already_exists")
  ELSE WriteBelowParent(c.text)

CorrectExisting(c) ==
  IF ~IsFile(target) THEN Fail("not_a_file")
  ELSE IF ~ValidContent(c.text) THEN Fail("invalid_json_content")
  ELSE IF target # c.expected THEN Fail("write_conflict")
  ELSE IF target = c.text THEN Done
  ELSE Write(c.text)

WriteFileChunk(c) ==
  LET existing == IF c.truncate \/ target = NoFile THEN <<>> ELSE target
      updated == existing \o c.text IN
  IF target = Directory THEN Fail("not_a_file")
  ELSE IF target # NoFile /\ c.truncate /\ c.final /\ target # <<>> THEN Fail("single_chunk_overwrite_denied")
  ELSE IF Len(existing) # c.offset THEN Fail("chunk_offset_mismatch")
  ELSE IF Len(updated) > MaxText THEN Fail("chunked_file_too_large")
  ELSE IF c.expected # NoFile /\ updated # c.expected THEN Fail("chunk_hash_mismatch")
  ELSE IF c.final /\ ~ValidContent(updated) THEN Fail("invalid_json_content")
  ELSE WriteBelowParent(updated)

ReplaceText(c) ==
  LET found == Occurrences(target, c.old)
      updated == Replaced(target, c.old, c.text) IN
  IF ~IsFile(target) THEN Fail("not_a_file")
  ELSE IF found = 0 THEN
    IF c.text # <<>> /\ Occurrences(target, c.text) = 1 THEN Done ELSE Fail("text_not_found")
  ELSE IF found > 1 THEN Fail("text_not_unique")
  ELSE IF ~ValidContent(updated) THEN Fail("invalid_json_content")
  ELSE Write(updated)

Decision(c) ==
  CASE c.op = "write_file" -> WriteFile(c)
    [] c.op = "correct_existing" -> CorrectExisting(c)
    [] c.op = "write_file_chunk" -> WriteFileChunk(c)
    [] c.op = "replace_text" -> ReplaceText(c)

(***************************************************************************)
(* The calls, with the arguments the input models let through.             *)
(***************************************************************************)

Argument(op, text, old, expected, offset, truncate, final) ==
  [op |-> op, pc |-> "read", seen |-> NoFile, new |-> NoFile, result |-> "none", text |-> text,
   old |-> old, expected |-> expected, offset |-> offset, truncate |-> truncate, final |-> final]

TextCalls ==
  {Argument("write_file", t, <<>>, NoFile, 0, FALSE, FALSE) : t \in {<<>>} \union Single}
    \union {Argument("correct_existing", t, <<>>, e, 0, FALSE, FALSE) :
              t \in Single, e \in {<<>>} \union Single}
    \union {Argument("replace_text", p[2], p[1], NoFile, 0, FALSE, FALSE) :
              p \in {q \in (Single \union Repeated(2)) \X (Single \union {<<>>}) : q[1] # q[2]}}
    \union {c \in {Argument("write_file_chunk", t, <<>>, e, n, truncate, final) :
                     t \in Single, e \in {NoFile} \union Short,
                     n \in 0 .. MaxText, truncate \in BOOLEAN, final \in BOOLEAN} :
              /\ c.truncate => c.offset = 0
              /\ c.expected # NoFile => c.final /\ Len(c.expected) = c.offset + 1 /\ c.expected[c.offset + 1] = c.text[1]}

Unknown == <<"unknown">>
Found == IF late = {} THEN target ELSE Unknown

BeginEdit(c) ==
  /\ edit.pc # "read" /\ edit.pc # "write" /\ edits < MaxEdits
  /\ edit' = c
  /\ edits' = edits + 1
  /\ base' = Found
  /\ UNCHANGED <<target, parent, json, symlinks, late>>

\* The tool reads, decides, and makes the missing parents of the file it will write.
Decided(c) ==
  LET d == Decision(c) IN
  [c EXCEPT !.pc = IF d.write THEN "write" ELSE "done", !.seen = target, !.new = d.new,
            !.result = IF d.write THEN "none" ELSE d.error]

ParentOf(c) == IF Decided(c).pc = "write" THEN "directory" ELSE parent

ReadAndDecide ==
  /\ edit.pc = "read"
  /\ edit' = Decided(edit)
  /\ parent' = ParentOf(edit)
  /\ UNCHANGED <<target, json, symlinks, late, edits, base>>

\* atomic_write_text: the temporary file takes the place of the target, or nothing happens (the
\* temporary file cannot be written, or the directory is gone).
ReplaceFile ==
  /\ edit.pc = "write"
  /\ \/ /\ parent = "directory" /\ target # Directory
        /\ target' = edit.new
        /\ edit' = [edit EXCEPT !.pc = "done", !.result = "ok"]
     \/ /\ edit' = [edit EXCEPT !.pc = "done", !.result = "tool_execution_failed"]
        /\ UNCHANGED target
  /\ UNCHANGED <<parent, json, symlinks, late, edits, base>>

\* The turn is cancelled at the await; the thread stays.
CancelEdit ==
  /\ edit.pc \in {"read", "write"}
  /\ late' = late \union {edit}
  /\ edit' = NoEdit
  /\ UNCHANGED <<target, parent, json, symlinks, edits, base>>

LateStep(c) ==
  /\ c \in late
  /\ IF c.pc = "read"
     THEN /\ late' = (late \ {c}) \union {d \in {Decided(c)} : d.pc = "write"}
          /\ parent' = ParentOf(c)
          /\ UNCHANGED target
     ELSE /\ late' = late \ {c}
          /\ target' = IF parent = "directory" /\ target # Directory THEN c.new ELSE target
          /\ UNCHANGED parent
  /\ UNCHANGED <<json, symlinks, edit, edits, base>>

(***************************************************************************)
(* create_directory and remove_directory on the parent, in one step each.  *)
(***************************************************************************)
DirectoryCall(op, result) ==
  /\ edit.pc \notin {"read", "write"} /\ edits < MaxEdits
  /\ edits' = edits + 1 /\ base' = Found
  /\ edit' = [NoEdit EXCEPT !.op = op, !.pc = "done", !.result = result, !.seen = target]
  /\ UNCHANGED <<json, late>>

CreateDirectory ==
  /\ DirectoryCall("create_directory",
       IF parent = "missing" THEN "ok"
       ELSE IF parent = "file" THEN "not_a_directory" ELSE "directory_already_exists")
  /\ parent' = IF parent = "missing" THEN "directory" ELSE parent
  /\ UNCHANGED <<target, symlinks>>

RemoveDirectory(recursive, contents_only) ==
  LET error == CASE parent = "missing" -> "path_not_found"
                 [] parent = "file" -> "not_a_directory"
                 [] parent = "directory" ->
                      IF symlinks THEN "symbolic_link_denied"
                      ELSE IF ~recursive /\ target # NoFile THEN "directory_not_empty" ELSE "ok" IN
  /\ contents_only => recursive
  /\ DirectoryCall("remove_directory", error)
  /\ target' = IF error = "ok" THEN NoFile ELSE target
  /\ parent' = IF error = "ok" /\ ~contents_only THEN "missing" ELSE parent
  /\ UNCHANGED symlinks

EditNext ==
  \/ \E c \in TextCalls : BeginEdit(c)
  \/ ReadAndDecide \/ ReplaceFile \/ CancelEdit
  \/ \E c \in late : LateStep(c)
  \/ CreateDirectory
  \/ \E recursive \in BOOLEAN, contents_only \in BOOLEAN : RemoveDirectory(recursive, contents_only)

EditSpec == EditInit /\ [][EditNext]_edit_vars

(***************************************************************************)
(* What the tools promise.                                                 *)
(***************************************************************************)

\* The first place of a text, if all others overlap it: "aa" stands twice in "aaa", and
\* content.count finds it once.
FirstOfCluster(text, old) ==
  {i \in Stands(text, old) : \A j \in Stands(text, old) : i <= j /\ j < i + Len(old)}

\* What a call may make of a text it was shown.
EditMeant(c, was) ==
  CASE c.op = "write_file" -> {t \in {c.text} : was \in {NoFile, c.text} \/ Blank(was)}
    [] c.op = "correct_existing" -> {t \in {c.text} : was = c.expected}
    [] c.op = "write_file_chunk" ->
         {t \in EditTexts :
            /\ \E kept \in {<<>>, was} : t = (IF kept = NoFile THEN <<>> ELSE kept) \o c.text
            /\ Len(t) = c.offset + Len(c.text)
            /\ (c.truncate /\ c.final) => was \in {NoFile, <<>>}
            /\ ~c.truncate => was = NoFile \/ SubSeq(t, 1, c.offset) = was}
    [] c.op = "replace_text" ->
         {SubSeq(was, 1, i) \o c.text \o SubSeq(was, i + Len(c.old) + 1, Len(was)) :
            i \in FirstOfCluster(was, c.old)}
           \union {t \in {was} : Stands(was, c.old) = {} /\ FirstOfCluster(was, c.text) # {}}
    [] c.op = "create_directory" -> {was}
    [] c.op = "remove_directory" -> {NoFile}

\* A call that began with no thread of a cancelled call about and reports success made of the
\* file it found exactly what its arguments mean; one that reports an error left the file as it
\* was: write_file replaces nothing but white space, a chunk goes to its own offset, a correction
\* needs the text it was prepared for, a replacement one place that no other one stands beside
\* (of places that overlap the code takes the first, where it means to refuse).
EditsMeant ==
  edit.pc = "done" /\ base # Unknown
    => IF edit.result = "ok" THEN target \in EditMeant(edit, base) ELSE target = base
=============================================================================
