--------------------------- MODULE SessionJournal ---------------------------
(***************************************************************************)
(* The append-only journal of one session (forge/sessions/store.py and     *)
(* forge/sessions/locking.py): several processes may hold the same journal *)
(* open, each with its own idea of the head (sequence, parent_uuid).  An   *)
(* append takes a non-blocking file lock, compares the head with the last  *)
(* durable line, and writes one line followed by fsync.  Processes crash,  *)
(* writes fail half way, and the machine may lose power.                   *)
(*                                                                         *)
(* A record is identified by its uuid, a fresh number; 0 is Python's None. *)
(***************************************************************************)
EXTENDS Naturals, Sequences, FiniteSets

CONSTANTS
  Writers,       \* processes that may hold a SessionJournal for this session
  NoWriter,      \* the lock is free
  Texts,         \* classes of payload text, a subset of TextClasses
  MaxRecords,    \* bound: records any process may start to write
  MaxQueue,      \* bound: records buffered by a deferred session
  MaxPowerLoss   \* bound: power failures

\* "wide": holds a character of several bytes; "separator": holds U+2028, U+2029 or
\* U+0085, which are wide too.
TextClasses == {"plain", "wide", "separator"}

ASSUME WriterAssumption == NoWriter \notin Writers
ASSUME TextAssumption   == Texts \subseteq TextClasses
ASSUME BoundAssumption  == MaxRecords \in Nat /\ MaxQueue \in Nat /\ MaxPowerLoss \in Nat

VARIABLES
  created,    \* SessionStore.create was called for this session
  exists,     \* the .jsonl file exists
  lines,      \* its newline-terminated records, in file order
  tail,       \* the bytes after the last newline: a member of TailStates
  tailRecord, \* the record whose write left that tail
  synced,     \* lines known to be on the disk
  artifacts,  \* uuids whose payload file was renamed into place
  lock,       \* owner of the .jsonl.lock file lock
  pc,         \* where each process is
  sequence,   \* self.sequence of its journal object
  parentUuid, \* self.parent_uuid of its journal object
  queue,      \* payloads still to be written: _pending, or the one of append()
  deferred,   \* _pending is a list
  current,    \* the record the process is writing
  view,       \* sequence of the state the process loaded and works from
  issued,     \* uuids drawn
  acked,      \* history: uuids whose append returned
  failed,     \* history: processes whose current journal object saw an append fail
  powerLoss   \* power failures so far

fileVars == <<exists, lines, tail, tailRecord, synced, artifacts>>
procVars == <<pc, sequence, parentUuid, queue, deferred, current, view, failed>>
vars == <<created, fileVars, lock, procVars, issued, acked, powerLoss>>

Payload == [text: Texts, ref: BOOLEAN]  \* ref: larger than inline_payload_bytes
Record  == [uuid: Nat, parent: Nat, seq: Nat, text: Texts, ref: BOOLEAN]
NoRecord == [uuid |-> 0, parent |-> 0, seq |-> 0, text |-> "plain", ref |-> FALSE]

\* "partial": no JSON yet; "split": cut behind a separator; "broken": cut between two
\* bytes of one character; "whole": JSON without "\n".
TailStates == {"none", "partial", "split", "broken", "whole"}
Holding == {"locked", "artifact", "write", "sync"}  \* inside exclusive_append
PCs == {"closed", "loaded", "idle"} \cup Holding

-----------------------------------------------------------------------------
(***************************************************************************)
(* Reading a journal.                                                      *)
(***************************************************************************)

\* The records json.loads returns, in file order.
Parsed == IF tail = "whole" THEN Append(lines, tailRecord) ELSE lines

\* _read_records decodes the whole file strictly, so one character cut in two makes all
\* of it unreadable (UnicodeDecodeError).  It cuts the text with str.splitlines, which
\* also breaks a line at the separators json.dumps(ensure_ascii=False) left unescaped:
\* such a record becomes several pieces, the first neither JSON nor the last line.
Legible == /\ tail \notin {"broken", "split"}
           /\ \A i \in 1 .. Len(Parsed) : Parsed[i].text # "separator"

\* The checks of _select_valid_record_chain on one parsed file.
ValidChain(rs) ==
  /\ \A i, j \in 1 .. Len(rs) : rs[i].uuid = rs[j].uuid => i = j
  /\ \A i \in 1 .. Len(rs) :
       IF rs[i].parent = 0
       THEN rs[i].seq = 1
       ELSE \E j \in 1 .. i - 1 : rs[j].uuid = rs[i].parent /\ rs[i].seq = rs[j].seq + 1
  /\ \E i \in 1 .. Len(rs) : rs[i].parent = 0
  /\ \A i, j \in 1 .. Len(rs) : rs[i].parent = 0 /\ rs[j].parent = 0 => i = j

Terminals(rs) ==
  {i \in 1 .. Len(rs) : \A j \in 1 .. Len(rs) : rs[j].parent # rs[i].uuid}

\* The branch that wins: highest sequence, then latest position.
Winner(rs) ==
  CHOOSE i \in Terminals(rs) :
    \A j \in Terminals(rs) : rs[j].seq < rs[i].seq \/ (rs[j].seq = rs[i].seq /\ j <= i)

\* _build_state and _read_records return without an error; every referenced payload
\* is read (_payload).
Loadable ==
  /\ exists
  /\ Legible
  /\ Len(Parsed) > 0
  /\ ValidChain(Parsed)
  /\ \A i \in 1 .. Len(Parsed) : Parsed[i].ref => Parsed[i].uuid \in artifacts

ReadHead == LET last == Parsed[Winner(Parsed)] IN [seq |-> last.seq, uuid |-> last.uuid]

\* The journal objects of the processes in ws, and all local state, are gone.
Forget(ws) ==
  /\ pc' = [w \in Writers |-> IF w \in ws THEN "closed" ELSE pc[w]]
  /\ sequence' = [w \in Writers |-> IF w \in ws THEN 0 ELSE sequence[w]]
  /\ parentUuid' = [w \in Writers |-> IF w \in ws THEN 0 ELSE parentUuid[w]]
  /\ queue' = [w \in Writers |-> IF w \in ws THEN <<>> ELSE queue[w]]
  /\ deferred' = [w \in Writers |-> IF w \in ws THEN FALSE ELSE deferred[w]]
  /\ current' = [w \in Writers |-> IF w \in ws THEN NoRecord ELSE current[w]]
  /\ view' = [w \in Writers |-> IF w \in ws THEN 0 ELSE view[w]]
  /\ failed' = failed \ ws

-----------------------------------------------------------------------------
Init ==
  /\ created = FALSE
  /\ exists = FALSE
  /\ lines = <<>>
  /\ tail = "none"
  /\ tailRecord = NoRecord
  /\ synced = 0
  /\ artifacts = {}
  /\ lock = NoWriter
  /\ pc = [w \in Writers |-> "closed"]
  /\ sequence = [w \in Writers |-> 0]
  /\ parentUuid = [w \in Writers |-> 0]
  /\ queue = [w \in Writers |-> <<>>]
  /\ deferred = [w \in Writers |-> FALSE]
  /\ current = [w \in Writers |-> NoRecord]
  /\ view = [w \in Writers |-> 0]
  /\ issued = 0
  /\ acked = {}
  /\ failed = {}
  /\ powerLoss = 0

\* SessionStore.create: a new session identity, so exactly one creator.  A deferred
\* session keeps its session_started record in memory until commit.
Create(w) ==
  /\ ~created
  /\ pc[w] = "closed"
  /\ created' = TRUE
  /\ pc' = [pc EXCEPT ![w] = "idle"]
  /\ \E lazy \in BOOLEAN :
       /\ deferred' = [deferred EXCEPT ![w] = lazy]
       /\ \E p \in Payload :
            queue' = [queue EXCEPT ![w] = IF lazy THEN <<p>> ELSE <<>>]
  /\ UNCHANGED <<fileVars, lock, sequence, parentUuid, current, view, failed, issued,
                 acked, powerLoss>>

\* SessionStore.open, first read: load() replays the file into a SessionState.
OpenLoad(w) ==
  /\ pc[w] = "closed"
  /\ Loadable
  /\ pc' = [pc EXCEPT ![w] = "loaded"]
  /\ view' = [view EXCEPT ![w] = ReadHead.seq]
  /\ UNCHANGED <<created, fileVars, lock, sequence, parentUuid, queue, deferred, current,
                 issued, acked, failed, powerLoss>>

\* SessionStore.open, second read: the last record of the chain becomes the append head.
OpenHead(w) ==
  /\ pc[w] = "loaded"
  /\ IF Loadable
     THEN /\ pc' = [pc EXCEPT ![w] = "idle"]
          /\ sequence' = [sequence EXCEPT ![w] = ReadHead.seq]
          /\ parentUuid' = [parentUuid EXCEPT ![w] = ReadHead.uuid]
          /\ UNCHANGED <<queue, deferred, current, view, failed>>
     ELSE Forget({w})
  /\ UNCHANGED <<created, fileVars, lock, issued, acked, powerLoss>>

\* append() on a deferred session only remembers the payload.
Buffer(w) ==
  /\ pc[w] = "idle"
  /\ deferred[w]
  /\ Len(queue[w]) < MaxQueue
  /\ \E p \in Payload : queue' = [queue EXCEPT ![w] = Append(@, p)]
  /\ UNCHANGED <<created, fileVars, lock, pc, sequence, parentUuid, deferred, current,
                 view, issued, acked, failed, powerLoss>>

\* append() and commit() take the file lock without waiting; when another process
\* holds it they raise, which changes nothing.
Acquire(w) ==
  /\ pc[w] = "idle"
  /\ lock = NoWriter
  /\ IF deferred[w]
     THEN UNCHANGED queue
     ELSE \E p \in Payload : queue' = [queue EXCEPT ![w] = <<p>>]
  /\ issued + Len(queue'[w]) <= MaxRecords
  /\ lock' = w
  /\ pc' = [pc EXCEPT ![w] = "locked"]
  /\ UNCHANGED <<created, fileVars, sequence, parentUuid, deferred, current, view, issued,
                 acked, failed, powerLoss>>

\* Mistake: no finally clause around the body of exclusive_append.
ReleaseKeepsLock(w) ==
  /\ pc' = [pc EXCEPT ![w] = "idle"]
  /\ queue' = [queue EXCEPT ![w] = IF deferred[w] THEN @ ELSE <<>>]
  /\ current' = [current EXCEPT ![w] = NoRecord]
  /\ UNCHANGED lock

\* An exception leaves exclusive_append: the lock is released, append() forgets its
\* payload and commit() keeps what it has not written.
Release(w) ==
  /\ lock' = NoWriter
  /\ pc' = [pc EXCEPT ![w] = "idle"]
  /\ queue' = [queue EXCEPT ![w] = IF deferred[w] THEN @ ELSE <<>>]
  /\ current' = [current EXCEPT ![w] = NoRecord]

\* Mistake: only the termination of the last line is checked.
HeadTerminated(w) ==
  IF ~exists
  THEN sequence[w] = 0 /\ parentUuid[w] = 0
  ELSE tail = "none" /\ Len(lines) > 0

\* _assert_append_head: the file is absent and this object never wrote, or the last
\* line is terminated, is JSON and is the record this object wrote or opened last.
HeadMatches(w) ==
  IF ~exists
  THEN sequence[w] = 0 /\ parentUuid[w] = 0
  ELSE /\ tail = "none"
       /\ Len(lines) > 0
       /\ lines[Len(lines)].seq = sequence[w]
       /\ lines[Len(lines)].uuid = parentUuid[w]

\* Mistake: the line goes first, the payload file it names is left for later.
BuildRecordOnly(w) ==
  /\ pc[w] = "locked"
  /\ queue[w] # <<>>
  /\ HeadMatches(w)
  /\ issued' = issued + 1
  /\ sequence' = [sequence EXCEPT ![w] = @ + 1]
  /\ current' = [current EXCEPT ![w] =
       [uuid |-> issued + 1, parent |-> parentUuid[w], seq |-> sequence[w] + 1,
        text |-> queue[w][1].text, ref |-> queue[w][1].ref]]
  /\ pc' = [pc EXCEPT ![w] = "write"]
  /\ UNCHANGED <<parentUuid, created, fileVars, lock, queue, deferred, view, acked, failed,
                 powerLoss>>

\* _append_locked up to the construction of the record: sequence moves before any
\* byte is written, parent_uuid does not.
BuildRecord(w) ==
  /\ pc[w] = "locked"
  /\ queue[w] # <<>>
  /\ HeadMatches(w)
  /\ issued' = issued + 1
  /\ sequence' = [sequence EXCEPT ![w] = @ + 1]
  /\ current' = [current EXCEPT ![w] =
       [uuid |-> issued + 1, parent |-> parentUuid[w], seq |-> sequence[w] + 1,
        text |-> queue[w][1].text, ref |-> queue[w][1].ref]]
  /\ pc' = [pc EXCEPT ![w] = IF queue[w][1].ref THEN "artifact" ELSE "write"]
  /\ UNCHANGED <<parentUuid, created, fileVars, lock, queue, deferred, view, acked, failed,
                 powerLoss>>

\* _assert_append_head raises SessionError.
RefuseHead(w) ==
  /\ pc[w] = "locked"
  /\ queue[w] # <<>>
  /\ ~HeadMatches(w)
  /\ Release(w)
  /\ UNCHANGED <<created, fileVars, sequence, parentUuid, deferred, view, issued, acked,
                 failed, powerLoss>>

\* _write_artifact: temporary file and rename, no fsync.
WriteArtifact(w) ==
  /\ pc[w] = "artifact"
  /\ artifacts' = artifacts \cup {current[w].uuid}
  /\ pc' = [pc EXCEPT ![w] = "write"]
  /\ UNCHANGED <<created, exists, lines, tail, tailRecord, synced, lock, sequence,
                 parentUuid, queue, deferred, current, view, issued, acked, failed,
                 powerLoss>>

\* Mistake: the file is opened with mode 'w'.
OverwriteFile(w) ==
  /\ pc[w] = "write"
  /\ exists' = TRUE
  /\ lines' = <<current[w]>>
  /\ pc' = [pc EXCEPT ![w] = "sync"]
  /\ UNCHANGED <<created, tail, tailRecord, synced, artifacts, lock, sequence, parentUuid,
                 queue, deferred, current, view, issued, acked, failed, powerLoss>>

\* open('a'), write and flush of the whole line.
WriteLine(w) ==
  /\ pc[w] = "write"
  /\ exists' = TRUE
  /\ lines' = Append(lines, current[w])
  /\ pc' = [pc EXCEPT ![w] = "sync"]
  /\ UNCHANGED <<created, tail, tailRecord, synced, artifacts, lock, sequence, parentUuid,
                 queue, deferred, current, view, issued, acked, failed, powerLoss>>

\* What an unfinished write of the bytes of one line may leave behind.
Torn(r) ==
  {"none", "partial", "whole"} \cup (IF r.text = "plain" THEN {} ELSE {"broken"})
                              \cup (IF r.text = "separator" THEN {"split"} ELSE {})

\* The write stops before the newline, by an exception or by the end of the process.
TearLine(w) ==
  /\ pc[w] = "write"
  /\ exists' = TRUE
  /\ tail' \in Torn(current[w])
  /\ tailRecord' = current[w]
  /\ \/ /\ Release(w)
        /\ failed' = failed \cup {w}
        /\ UNCHANGED <<sequence, parentUuid, deferred, view>>
     \/ /\ lock' = NoWriter
        /\ Forget({w})
  /\ UNCHANGED <<created, lines, synced, artifacts, issued, acked, powerLoss>>

\* Mistake: the failed append gives its sequence number back.
FailIORollsBack(w) ==
  /\ pc[w] \in {"artifact", "sync"}
  /\ Release(w)
  /\ failed' = failed \cup {w}
  /\ sequence' = [sequence EXCEPT ![w] = @ - 1]
  /\ UNCHANGED <<parentUuid, created, fileVars, deferred, view, issued, acked, powerLoss>>

\* The artifact write or fsync raises OSError.
FailIO(w) ==
  /\ pc[w] \in {"artifact", "sync"}
  /\ Release(w)
  /\ failed' = failed \cup {w}
  /\ UNCHANGED <<created, fileVars, sequence, parentUuid, deferred, view, issued, acked,
                 powerLoss>>

\* Mistake: the call returns without fsync.
AcknowledgeUnsynced(w) ==
  /\ pc[w] = "sync"
  /\ parentUuid' = [parentUuid EXCEPT ![w] = current[w].uuid]
  /\ acked' = acked \cup {current[w].uuid}
  /\ queue' = [queue EXCEPT ![w] = Tail(@)]
  /\ pc' = [pc EXCEPT ![w] = "idle"]
  /\ lock' = NoWriter
  /\ deferred' = [deferred EXCEPT ![w] = FALSE]
  /\ current' = [current EXCEPT ![w] = NoRecord]
  /\ UNCHANGED <<sequence, created, exists, lines, tail, tailRecord, synced, artifacts,
                 view, issued, failed, powerLoss>>

\* fsync returned: parent_uuid moves, the call returns or commit() goes on with the
\* next buffered record under the same lock.
Acknowledge(w) ==
  /\ pc[w] = "sync"
  /\ synced' = Len(lines)
  /\ parentUuid' = [parentUuid EXCEPT ![w] = current[w].uuid]
  /\ acked' = acked \cup {current[w].uuid}
  /\ queue' = [queue EXCEPT ![w] = Tail(@)]
  /\ view' = [view EXCEPT ![w] = IF @ = current[w].seq - 1 THEN @ + 1 ELSE @]
  /\ IF Len(queue[w]) > 1
     THEN /\ pc' = [pc EXCEPT ![w] = "locked"]
          /\ UNCHANGED <<lock, deferred>>
     ELSE /\ pc' = [pc EXCEPT ![w] = "idle"]
          /\ lock' = NoWriter
          /\ deferred' = [deferred EXCEPT ![w] = FALSE]
  /\ current' = [current EXCEPT ![w] = NoRecord]
  /\ UNCHANGED <<sequence, created, exists, lines, tail, tailRecord, artifacts, issued,
                 failed, powerLoss>>

\* The process ends anywhere; the operating system releases its lock.
Crash(w) ==
  /\ pc[w] # "closed"
  /\ Forget({w})
  /\ lock' = IF lock = w THEN NoWriter ELSE lock
  /\ UNCHANGED <<created, fileVars, issued, acked, powerLoss>>

\* The machine stops: of what no fsync covered, any suffix of the lines and any set of
\* artifacts may be gone.  A new file whose first fsync never returned may be gone too.
PowerLoss ==
  /\ powerLoss < MaxPowerLoss
  /\ powerLoss' = powerLoss + 1
  /\ \E n \in synced .. Len(lines) :
       /\ lines' = SubSeq(lines, 1, n)
       /\ IF n < Len(lines)
          THEN \/ tail' = "none" /\ UNCHANGED tailRecord
               \/ /\ tail' \in Torn(lines[n + 1])
                  /\ tailRecord' = lines[n + 1]
          ELSE \/ UNCHANGED <<tail, tailRecord>>
               \/ tail' = "none" /\ UNCHANGED tailRecord
       /\ exists' \in IF n = 0 /\ tail' = "none" THEN {exists, FALSE} ELSE {exists}
  /\ artifacts' \in SUBSET artifacts
  /\ lock' = NoWriter
  /\ Forget(Writers)
  /\ UNCHANGED <<created, synced, issued, acked>>

Process(w) ==
  \/ Create(w) \/ OpenLoad(w) \/ OpenHead(w) \/ Buffer(w) \/ Acquire(w)
  \/ BuildRecord(w) \/ RefuseHead(w) \/ WriteArtifact(w) \/ WriteLine(w)
  \/ TearLine(w) \/ FailIO(w) \/ Acknowledge(w) \/ Crash(w)

Next == PowerLoss \/ \E w \in Writers : Process(w)

\* What a process does between taking the lock and releasing it is straight-line code.
LockedStep(w) ==
  BuildRecord(w) \/ RefuseHead(w) \/ WriteArtifact(w) \/ WriteLine(w) \/ TearLine(w)
  \/ FailIO(w) \/ Acknowledge(w)

Spec == Init /\ [][Next]_vars
FairSpec == Spec /\ \A w \in Writers : WF_vars(LockedStep(w))

-----------------------------------------------------------------------------
\* The lock is held exactly while its owner is inside exclusive_append.
LockOwned == \A w \in Writers : lock = w <=> pc[w] \in Holding

TypeOK ==
  /\ created \in BOOLEAN /\ exists \in BOOLEAN
  /\ lines \in Seq(Record)
  /\ tail \in TailStates
  /\ tailRecord \in Record \cup {NoRecord}
  /\ synced \in Nat
  /\ artifacts \subseteq Nat
  /\ lock \in Writers \cup {NoWriter}
  /\ pc \in [Writers -> PCs]
  /\ LockOwned
  /\ sequence \in [Writers -> Nat]
  /\ parentUuid \in [Writers -> Nat]
  /\ queue \in [Writers -> Seq(Payload)]
  /\ deferred \in [Writers -> BOOLEAN]
  /\ current \in [Writers -> Record \cup {NoRecord}]
  /\ view \in [Writers -> Nat]
  /\ issued \in Nat
  /\ acked \subseteq Nat
  /\ failed \subseteq Writers
  /\ powerLoss \in Nat

\* Whatever the processes, their crashes and the power do, the terminated lines are one
\* unforked chain from the root: each names its predecessor and carries its own
\* position (_append_locked under exclusive_append, _assert_append_head).
NoFork ==
  \A i \in 1 .. Len(lines) :
    /\ lines[i].seq = i
    /\ lines[i].parent = IF i = 1 THEN 0 ELSE lines[i - 1].uuid

\* A record whose append returned stays in the journal: no torn write, other writer,
\* crash or power failure removes it (write, flush, fsync before parent_uuid moves).
AckedKept == acked \subseteq {lines[i].uuid : i \in 1 .. synced}

\* A journal object one of whose appends failed after the head check writes nothing
\* more, whether or not the failed record reached the file (sequence was already
\* incremented, so no head matches it again).
FailedWriterFenced ==
  \A w \in failed : pc[w] \notin {"artifact", "write", "sync"}

\* Once an append has returned, the session can be loaded again: no torn tail, failed
\* writer, competing writer or interrupted commit makes _read_records, the chain
\* selection or the payload check reject the file.  Three things do, and are excluded
\* here: payload text with a line separator, a last line torn between two bytes of one
\* character, and a power failure, which may take artifacts that were never synced.
Replayable ==
  /\ acked # {} /\ powerLoss = 0
  /\ tail \notin {"broken", "split"}
  /\ \A i \in 1 .. Len(Parsed) : Parsed[i].text # "separator"
  => Loadable

\* The same without exclusions, as the module docstring of store.py promises
\* ("Crash-tolerant append-only session persistence").
AlwaysReplayable == acked # {} => Loadable

\* A process that appends has loaded every record before its own: its turn continues
\* the conversation that is in the file ("Session changed after it was opened").
AppendsOverSeenHistory ==
  \A w \in Writers : pc[w] = "sync" => view[w] = current[w].seq - 1

\* A process that holds the append lock gives it back: exclusive_append's finally
\* clause and the operating system release it on every path.
LockReleased == \A w \in Writers : (lock = w) ~> (lock # w)

(***************************************************************************)
(* What the journal promises: a log that grows at its end, whose           *)
(* acknowledged prefix never changes.                                      *)
(***************************************************************************)
Log == INSTANCE DurableLog WITH
  Entries <- 1 .. MaxRecords,
  log <- [i \in 1 .. Len(lines) |-> lines[i].uuid],
  durable <- Cardinality({i \in 1 .. Len(lines) :
               \E j \in i .. Len(lines) : lines[j].uuid \in acked})

\* Every step of the journal appends to, acknowledges or loses an unacknowledged end
\* of the durable log, or leaves it alone.
ImplementsLog == Log!Spec

=============================================================================
