------------------------ MODULE SessionJournalProofs ------------------------
(***************************************************************************)
(* Machine-checked invariants of SessionJournal, for any set of processes, *)
(* any payload texts and any bounds.                                       *)
(*                                                                         *)
(* None of the theorems is inductive.  IInv adds what they lean on: the    *)
(* record under way is the one the file needs next, a uuid stands in one   *)
(* place, and the head (sequence, parentUuid) of a journal object matches  *)
(* the file exactly when none of its appends failed.  PayloadInv (where    *)
(* the payload files are) and Budget (what is left of the bound on uuids)  *)
(* are inductive relative to it.                                           *)
(***************************************************************************)
EXTENDS SessionJournal, SequenceTheorems, FiniteSetTheorems, TLAPS

Writing == {"artifact", "write", "sync"}
Open == {"idle"} \cup Holding

\* The terminated lines are one chain of distinct records whose uuids were drawn.
ChainInv ==
  /\ NoFork
  /\ \A i \in 1 .. Len(lines) : lines[i].uuid \in 1 .. issued
  /\ \A i, j \in 1 .. Len(lines) : lines[i].uuid = lines[j].uuid => i = j
  /\ ~exists => lines = <<>> /\ tail = "none"

\* r could be the next line of the file.
Extends(r) ==
  /\ r \in Record
  /\ r.uuid \in 1 .. issued
  /\ r.seq = Len(lines) + 1
  /\ r.parent = (IF Len(lines) = 0 THEN 0 ELSE lines[Len(lines)].uuid)
  /\ \A i \in 1 .. Len(lines) : lines[i].uuid # r.uuid

\* So could a record torn just before its newline, which readers accept.
TailInv == tail = "whole" => exists /\ Extends(tailRecord)

\* So can the record between its head check and its write.
PendingAt(w) ==
  pc[w] \in {"artifact", "write"} =>
    tail = "none" /\ Extends(current[w]) /\ sequence[w] = current[w].seq

\* It is nobody's predecessor yet.
FreshInv ==
  \A w, v \in Writers :
    pc[w] \in {"artifact", "write"} => parentUuid[v] # current[w].uuid

SyncAt(w) ==
  pc[w] = "sync" =>
    /\ tail = "none"
    /\ exists
    /\ Len(lines) > 0
    /\ current[w] = lines[Len(lines)]
    /\ sequence[w] = current[w].seq

AckInv ==
  /\ synced \in 0 .. Len(lines)
  /\ AckedKept

\* Where a journal object's parentUuid stands in the file is where its sequence says,
\* except that an append under way, or a failed one, is one ahead for good.
HeadAt(w) ==
  pc[w] \in Open =>
    /\ parentUuid[w] \in 0 .. issued
    /\ w \notin failed /\ pc[w] \notin Writing =>
         \A i \in 1 .. Len(lines) : lines[i].uuid = parentUuid[w] => sequence[w] = i
    /\ w \in failed \/ pc[w] \in Writing =>
         /\ sequence[w] >= 1
         /\ \A i \in 1 .. Len(lines) : lines[i].uuid = parentUuid[w] => sequence[w] = i + 1

\* A closed process has no journal object; a commit or append in progress has payloads.
ObjectAt(w) ==
  /\ pc[w] \notin Open =>
       parentUuid[w] = 0 /\ sequence[w] = 0 /\ w \notin failed /\ ~deferred[w]
  /\ pc[w] \in Holding \/ (pc[w] = "idle" /\ deferred[w]) => queue[w] # <<>>
  /\ w \in failed => pc[w] \notin Writing

WriterInv == \A w \in Writers : PendingAt(w) /\ SyncAt(w) /\ HeadAt(w) /\ ObjectAt(w)

IInv == TypeOK /\ ChainInv /\ TailInv /\ FreshInv /\ AckInv /\ WriterInv

USE WriterAssumption, TextAssumption, BoundAssumption

-----------------------------------------------------------------------------
(***************************************************************************)
(* Facts shared by the actions.                                            *)
(***************************************************************************)

\* A step of w leaves the journal objects of the others alone.
OthersKeep(w) ==
  \A v \in Writers \ {w} :
    /\ pc'[v] = pc[v] /\ sequence'[v] = sequence[v] /\ parentUuid'[v] = parentUuid[v]
    /\ queue'[v] = queue[v] /\ deferred'[v] = deferred[v] /\ current'[v] = current[v]
    /\ v \in failed' <=> v \in failed

\* A step of w that leaves the file alone and draws uuids upwards.
Local(w) ==
  /\ OthersKeep(w)
  /\ UNCHANGED <<exists, lines, tail, tailRecord>>
  /\ issued' \in Nat /\ issued <= issued'

\* The tail of a sequence of two or more elements, what commit() keeps of its
\* buffered payloads after one append, is not empty.
LEMMA TailNonempty ==
  ASSUME NEW S, NEW q \in Seq(S), Len(q) > 1
  PROVE  Tail(q) # <<>>
<1> DEFINE t == Tail(q)
<1>1. Len(q) \in Nat /\ q # <<>>
  OBVIOUS
<1>2. t \in Seq(S) /\ Len(t) = Len(q) - 1
  BY <1>1, HeadTailProperties
<1> HIDE DEF t
<1>3. t # <<>>
  BY <1>1, <1>2
<1> QED BY <1>3 DEF t

\* The file lock admits one process to the code between _append_locked and its end.
LEMMA OnlyOneHolds ==
  ASSUME TypeOK, NEW w \in Writers, pc[w] \in Holding, NEW v \in Writers \ {w}
  PROVE  pc[v] \notin Holding
BY DEF TypeOK, LockOwned

\* A step that leaves the file alone leaves its chain and its torn end well formed.
LEMMA FileKept ==
  ASSUME IInv, NEW w \in Writers, Local(w)
  PROVE  ChainInv' /\ TailInv'
<1>0. issued \in Nat /\ Len(lines) \in Nat BY DEF IInv, TypeOK
<1>1. ChainInv'
  BY <1>0 DEF IInv, ChainInv, NoFork, Local
<1>2. TailInv'
  BY <1>0 DEF IInv, TailInv, Extends, Local
<1> QED BY <1>1, <1>2

\* A step that leaves lines, synced and acked alone keeps acknowledged records durable.
LEMMA AckKept ==
  ASSUME IInv, UNCHANGED <<lines, synced, acked>>
  PROVE  AckInv'
BY DEF IInv, AckInv, AckedKept

\* To show WriterInv' after a local step, its own journal object is enough.
LEMMA OthersKept ==
  ASSUME IInv, NEW w \in Writers, Local(w),
         PendingAt(w)', SyncAt(w)', HeadAt(w)', ObjectAt(w)'
  PROVE  WriterInv'
<1>0. issued \in Nat /\ Len(lines) \in Nat BY DEF IInv, TypeOK
<1> SUFFICES ASSUME NEW v \in Writers \ {w}
             PROVE  PendingAt(v)' /\ SyncAt(v)' /\ HeadAt(v)' /\ ObjectAt(v)'
  BY DEF WriterInv
<1>1. PendingAt(v) /\ SyncAt(v) /\ HeadAt(v) /\ ObjectAt(v)
  BY DEF IInv, WriterInv
<1>2. PendingAt(v)'
  BY <1>0, <1>1 DEF PendingAt, Extends, Local, OthersKeep
<1>3. SyncAt(v)'
  BY <1>1 DEF SyncAt, Local, OthersKeep
<1>4. HeadAt(v)'
  <2>1. parentUuid[v] \in 0 .. issued => parentUuid[v] \in 0 .. issued'
    BY <1>0 DEF Local
  <2> QED BY <1>1, <2>1 DEF HeadAt, Local, OthersKeep
<1>5. ObjectAt(v)'
  BY <1>1 DEF ObjectAt, Local, OthersKeep
<1> QED BY <1>2, <1>3, <1>4, <1>5

\* The parent_uuid of any journal object is a uuid that was drawn before.
LEMMA ParentDrawn ==
  ASSUME IInv, NEW v \in Writers
  PROVE  parentUuid[v] \in 0 .. issued
<1>0. issued \in Nat BY DEF IInv, TypeOK
<1> QED BY <1>0 DEF IInv, WriterInv, HeadAt, ObjectAt

\* A process that loses its journal object leaves those of the others alone.
LEMMA ForgetOne ==
  ASSUME TypeOK, NEW w \in Writers, Forget({w})
  PROVE  /\ OthersKeep(w)
         /\ pc'[w] = "closed" /\ sequence'[w] = 0 /\ parentUuid'[w] = 0 /\ w \notin failed'
         /\ ~deferred'[w]
BY DEF Forget, OthersKeep

\* What is left of a process that lost its journal object satisfies the invariants.
LEMMA ClosedWriter ==
  ASSUME NEW w \in Writers, pc'[w] = "closed", sequence'[w] = 0, parentUuid'[w] = 0,
         w \notin failed', ~deferred'[w]
  PROVE  PendingAt(w)' /\ SyncAt(w)' /\ HeadAt(w)' /\ ObjectAt(w)'
BY DEF PendingAt, SyncAt, HeadAt, ObjectAt, Open, Holding, Writing

\* Losing journal objects, of one process or of all, keeps the types.
LEMMA ForgetTypes ==
  ASSUME TypeOK, NEW ws \in SUBSET Writers, Forget(ws)
  PROVE  /\ pc' \in [Writers -> PCs] /\ sequence' \in [Writers -> Nat]
         /\ parentUuid' \in [Writers -> Nat] /\ queue' \in [Writers -> Seq(Payload)]
         /\ deferred' \in [Writers -> BOOLEAN]
         /\ current' \in [Writers -> Record \cup {NoRecord}]
         /\ view' \in [Writers -> Nat] /\ failed' \subseteq Writers
<1>1. pc' \in [Writers -> PCs] BY DEF Forget, TypeOK, PCs
<1>2. sequence' \in [Writers -> Nat] BY DEF Forget, TypeOK
<1>3. parentUuid' \in [Writers -> Nat] BY DEF Forget, TypeOK
<1>4. queue' \in [Writers -> Seq(Payload)] BY DEF Forget, TypeOK
<1>5. deferred' \in [Writers -> BOOLEAN] BY DEF Forget, TypeOK
<1>6. current' \in [Writers -> Record \cup {NoRecord}] BY DEF Forget, TypeOK
<1>7. view' \in [Writers -> Nat] BY DEF Forget, TypeOK
<1>8. failed' \subseteq Writers BY DEF Forget, TypeOK
<1> QED BY <1>1, <1>2, <1>3, <1>4, <1>5, <1>6, <1>7, <1>8

\* The head that SessionStore.open reads from a loadable file is the sequence and the
\* uuid of a record of its chain.
LEMMA ReadHeadLemma ==
  ASSUME TypeOK, ChainInv, TailInv, Loadable
  PROVE  /\ ReadHead.seq \in Nat
         /\ ReadHead.uuid \in 1 .. issued
         /\ \A i \in 1 .. Len(lines) : lines[i].uuid = ReadHead.uuid => ReadHead.seq = i
         /\ tail # "whole" => \E i \in 1 .. Len(lines) : lines[i].uuid = ReadHead.uuid
<1> DEFINE rs == Parsed
<1> DEFINE n == Len(rs)
<1>1. /\ rs \in Seq(Record) /\ n \in Nat /\ n > 0
      /\ n = Len(lines) + (IF tail = "whole" THEN 1 ELSE 0)
      /\ \A i \in 1 .. Len(lines) : rs[i] = lines[i]
      /\ tail = "whole" => rs[n] = tailRecord
  BY DEF Loadable, Parsed, TypeOK, TailInv, Extends
<1>2. \A i \in 1 .. n : rs[i].seq = i /\ rs[i].uuid \in 1 .. issued
  BY <1>1 DEF ChainInv, NoFork, TailInv, Extends, TypeOK
<1>3. \A i, j \in 1 .. n : rs[i].uuid = rs[j].uuid => i = j
  BY <1>1 DEF ChainInv, TailInv, Extends
<1>4. \A i \in 1 .. n : rs[i].parent = 0 \/ \E k \in 1 .. i - 1 : rs[i].parent = rs[k].uuid
  <2> SUFFICES ASSUME NEW i \in 1 .. n, rs[i].parent # 0
               PROVE  \E k \in 1 .. i - 1 : rs[i].parent = rs[k].uuid
    OBVIOUS
  <2>0. Len(lines) \in Nat BY DEF TypeOK
  <2>1. CASE i \in 1 .. Len(lines)
    <3>1. rs[i] = lines[i] /\ i # 1 /\ lines[i].parent = lines[i - 1].uuid
      BY <2>1, <1>1 DEF ChainInv, NoFork
    <3>2. i - 1 \in 1 .. Len(lines) /\ i - 1 \in 1 .. i - 1
      BY <3>1, <2>1, <2>0
    <3> QED BY <3>1, <3>2, <1>1
  <2>2. CASE i \notin 1 .. Len(lines)
    <3>1. tail = "whole" /\ i = n /\ n = Len(lines) + 1
      BY <2>2, <2>0, <1>1
    <3>2. Len(lines) # 0 /\ rs[i].parent = lines[Len(lines)].uuid
      BY <3>1, <1>1 DEF TailInv, Extends
    <3> QED BY <3>1, <3>2, <2>0, <1>1
  <2> QED BY <2>1, <2>2
<1>5. n \in Terminals(rs)
  <2>1. ASSUME NEW j \in 1 .. n, rs[j].parent = rs[n].uuid PROVE FALSE
    <3>1. rs[n].uuid # 0
      BY <1>1, <1>2 DEF TypeOK
    <3>2. PICK k \in 1 .. j - 1 : rs[n].uuid = rs[k].uuid
      BY <2>1, <3>1, <1>4
    <3> QED BY <3>2, <1>1, <1>3
  <2> QED BY <2>1, <1>1 DEF Terminals
<1>6. \A j \in Terminals(rs) : j \in 1 .. n /\ rs[j].seq = j
  BY <1>2 DEF Terminals
<1>7. \A j \in Terminals(rs) : rs[j].seq < rs[n].seq \/ (rs[j].seq = rs[n].seq /\ j <= n)
  BY <1>1, <1>2, <1>6
<1>8. Winner(rs) = n
  <2>1. Winner(rs) \in Terminals(rs) /\ \A j \in Terminals(rs) :
          rs[j].seq < rs[Winner(rs)].seq \/ (rs[j].seq = rs[Winner(rs)].seq /\ j <= Winner(rs))
    BY <1>5, <1>7 DEF Winner
  <2> QED BY <2>1, <1>1, <1>2, <1>5, <1>6
<1>9. ReadHead = [seq |-> n, uuid |-> rs[n].uuid]
  BY <1>1, <1>2, <1>8 DEF ReadHead
<1>11. \A i \in 1 .. Len(lines) : lines[i].uuid = rs[n].uuid => n = i
  BY <1>1, <1>3
<1>12. tail # "whole" => rs[n] = lines[n] /\ n \in 1 .. Len(lines)
  BY <1>1
<1> HIDE DEF rs, n
<1> QED
  BY <1>1, <1>2, <1>9, <1>11, <1>12

-----------------------------------------------------------------------------
(***************************************************************************)
(* One lemma per action.                                                   *)
(***************************************************************************)
\* SessionStore.create draws a session whose journal is still to be written.
LEMMA CreateStep ==
  ASSUME IInv, NEW w \in Writers, Create(w)
  PROVE  IInv'
<1>0. TypeOK BY DEF IInv
<1>1. LockOwned'
  BY <1>0 DEF TypeOK, LockOwned, Holding, Create
<1>2. TypeOK'
  <2>1. queue' \in [Writers -> Seq(Payload)] /\ deferred' \in [Writers -> BOOLEAN]
    BY <1>0 DEF TypeOK, Create
  <2>2. pc' \in [Writers -> PCs]
    BY <1>0 DEF TypeOK, Create, PCs
  <2> QED BY <1>0, <1>1, <2>1, <2>2 DEF TypeOK, Create, fileVars
<1>3. Local(w)
  BY <1>0 DEF TypeOK, Local, OthersKeep, fileVars, Create
<1>4. ChainInv' /\ TailInv' BY <1>3, FileKept
<1>5. AckInv' BY AckKept DEF Create, fileVars
<1>6. WriterInv'
  <2>1. parentUuid[w] = 0 /\ sequence[w] = 0 /\ w \notin failed /\ issued \in Nat
    BY <1>0 DEF IInv, TypeOK, WriterInv, ObjectAt, Open, Holding, Create
  <2>2. pc'[w] = "idle" /\ (deferred'[w] => queue'[w] # <<>>)
    BY <1>0 DEF TypeOK, Create
  <2>3. \A i \in 1 .. Len(lines) : lines[i].uuid # 0
    BY <2>1 DEF IInv, ChainInv
  <2>4. PendingAt(w)' /\ SyncAt(w)'
    BY <2>2 DEF PendingAt, SyncAt
  <2>5. HeadAt(w)'
    BY <2>1, <2>2, <2>3 DEF HeadAt, Open, Holding, Writing, Create, fileVars
  <2>6. ObjectAt(w)'
    BY <2>1, <2>2 DEF ObjectAt, Open, Holding, Writing, Create
  <2> QED BY <1>3, <2>4, <2>5, <2>6, OthersKept
<1>7. FreshInv'
  BY <1>0, <1>3 DEF IInv, FreshInv, Local, OthersKeep, Create
<1> QED BY <1>2, <1>4, <1>5, <1>6, <1>7 DEF IInv

\* The first read of SessionStore.open keeps the invariant: it only remembers a view.
LEMMA OpenLoadStep ==
  ASSUME IInv, NEW w \in Writers, OpenLoad(w)
  PROVE  IInv'
<1>0. TypeOK /\ ReadHead.seq \in Nat
  BY ReadHeadLemma DEF IInv, OpenLoad
<1>1. LockOwned'
  BY <1>0 DEF TypeOK, LockOwned, Holding, OpenLoad
<1>2. TypeOK'
  <2>1. pc' \in [Writers -> PCs]
    BY <1>0 DEF OpenLoad, TypeOK, PCs
  <2>2. view' \in [Writers -> Nat]
    BY <1>0 DEF OpenLoad, TypeOK
  <2> QED BY <1>0, <1>1, <2>1, <2>2 DEF TypeOK, OpenLoad, fileVars
<1>3. Local(w)
  BY <1>0 DEF TypeOK, Local, OthersKeep, fileVars, OpenLoad
<1>4. ChainInv' /\ TailInv' BY <1>3, FileKept
<1>5. AckInv' BY AckKept DEF OpenLoad, fileVars
<1>6. WriterInv'
  <2>1. PendingAt(w) /\ SyncAt(w) /\ HeadAt(w) /\ ObjectAt(w)
    BY DEF IInv, WriterInv
  <2>2. PendingAt(w)'
    BY <1>0, <2>1 DEF TypeOK, PendingAt, Extends, fileVars, OpenLoad
  <2>3. SyncAt(w)' BY <1>0, <2>1 DEF TypeOK, SyncAt, fileVars, OpenLoad
  <2>4. HeadAt(w)'
    BY <1>0, <2>1 DEF TypeOK, HeadAt, Open, Holding, Writing, fileVars, OpenLoad
  <2>5. ObjectAt(w)'
    BY <1>0, <2>1 DEF TypeOK, ObjectAt, Open, Holding, Writing, fileVars, OpenLoad
  <2> QED BY <1>3, <2>2, <2>3, <2>4, <2>5, OthersKept
<1>7. FreshInv'
  BY <1>0, <1>3 DEF IInv, FreshInv, Local, OthersKeep, OpenLoad
<1> QED BY <1>2, <1>4, <1>5, <1>6, <1>7 DEF IInv

\* The second read of SessionStore.open yields a head that matches the file.
LEMMA OpenHeadStep ==
  ASSUME IInv, NEW w \in Writers, OpenHead(w)
  PROVE  IInv'
<1>0. TypeOK BY DEF IInv
<1>a. pc[w] = "loaded" /\ pc'[w] \notin Holding /\ lock' = lock
      /\ \A v \in Writers \ {w} : pc'[v] = pc[v]
  <2>1. CASE Loadable BY <1>0, <2>1 DEF TypeOK, Holding, OpenHead
  <2>2. CASE ~Loadable BY <1>0, <2>2, ForgetOne DEF OthersKeep, Holding, OpenHead
  <2> QED BY <2>1, <2>2
<1>1. LockOwned'
  BY <1>0, <1>a DEF TypeOK, LockOwned, Holding
<1>2. TypeOK'
  <2>1. CASE Loadable
    <3>1. ReadHead.seq \in Nat /\ ReadHead.uuid \in Nat
      BY <1>0, <2>1, ReadHeadLemma DEF IInv, TypeOK
    <3>2. sequence' \in [Writers -> Nat] /\ parentUuid' \in [Writers -> Nat]
      BY <1>0, <2>1, <3>1 DEF TypeOK, OpenHead
    <3>3. pc' \in [Writers -> PCs]
      BY <1>0, <2>1 DEF TypeOK, OpenHead, PCs
    <3> QED BY <1>0, <1>1, <2>1, <3>2, <3>3 DEF TypeOK, OpenHead, fileVars
  <2>2. CASE ~Loadable
    <3>1. Forget({w}) BY <2>2 DEF OpenHead
    <3> HIDE DEF Forget
    <3> QED BY <1>0, <1>1, <3>1, ForgetTypes DEF TypeOK, OpenHead, fileVars
  <2> QED BY <2>1, <2>2
<1>3. Local(w)
  <2>1. CASE Loadable
    BY <1>0, <2>1 DEF TypeOK, Local, OthersKeep, fileVars, OpenHead
  <2>2. CASE ~Loadable
    <3>1. OthersKeep(w) BY <1>0, <2>2, ForgetOne DEF OpenHead
    <3> QED BY <1>0, <3>1 DEF TypeOK, Local, fileVars, OpenHead
  <2> QED BY <2>1, <2>2
<1>4. ChainInv' /\ TailInv' BY <1>3, FileKept
<1>5. AckInv' BY AckKept DEF OpenHead, fileVars
<1>6. WriterInv'
  <2>1. CASE Loadable
    <3>1. /\ pc'[w] = "idle" /\ sequence'[w] = ReadHead.seq /\ parentUuid'[w] = ReadHead.uuid
          /\ deferred'[w] = deferred[w] /\ queue'[w] = queue[w]
          /\ w \notin failed /\ w \notin failed' /\ ~deferred[w]
      BY <1>0, <2>1 DEF IInv, WriterInv, ObjectAt, Open, Holding, TypeOK, OpenHead
    <3>2. /\ ReadHead.uuid \in 1 .. issued
          /\ \A i \in 1 .. Len(lines) : lines[i].uuid = ReadHead.uuid => ReadHead.seq = i
      BY <1>0, <2>1, ReadHeadLemma DEF IInv
    <3>3. PendingAt(w)' /\ SyncAt(w)'
      BY <3>1 DEF PendingAt, SyncAt
    <3>4. HeadAt(w)'
      <4>1. lines' = lines /\ issued' = issued /\ issued \in Nat
        BY <1>0 DEF OpenHead, fileVars, TypeOK
      <4> QED BY <3>1, <3>2, <4>1 DEF HeadAt, Open, Holding, Writing
    <3>5. ObjectAt(w)'
      BY <3>1 DEF ObjectAt, Open, Holding, Writing
    <3> QED BY <1>3, <3>3, <3>4, <3>5, OthersKept
  <2>2. CASE ~Loadable
    <3>1. PendingAt(w)' /\ SyncAt(w)' /\ HeadAt(w)' /\ ObjectAt(w)'
      BY <1>0, <2>2, ForgetOne, ClosedWriter DEF OpenHead
    <3> QED BY <1>3, <3>1, OthersKept
  <2> QED BY <2>1, <2>2
<1>7. FreshInv'
  <2> SUFFICES ASSUME NEW u \in Writers, NEW v \in Writers,
                      pc'[u] \in {"artifact", "write"}
               PROVE  parentUuid'[v] # current'[u].uuid
    BY DEF FreshInv
  <2>1. u # w
    BY <1>0, ForgetOne DEF TypeOK, OpenHead
  <2>2. /\ pc[u] \in {"artifact", "write"} /\ current'[u] = current[u]
        /\ parentUuid[v] # current[u].uuid /\ tail = "none" /\ Extends(current[u])
    BY <2>1, <1>3 DEF Local, OthersKeep, IInv, FreshInv, WriterInv, PendingAt
  <2>3. CASE v # w BY <2>2, <2>3, <1>3 DEF Local, OthersKeep
  <2>4. CASE v = w /\ Loadable
    <3>1. parentUuid'[w] = ReadHead.uuid
      BY <1>0, <2>4 DEF TypeOK, OpenHead
    <3>2. \E i \in 1 .. Len(lines) : lines[i].uuid = ReadHead.uuid
      BY <1>0, <2>2, <2>4, ReadHeadLemma DEF IInv
    <3> QED BY <2>2, <2>4, <3>1, <3>2 DEF Extends
  <2>5. CASE v = w /\ ~Loadable
    <3>1. parentUuid'[w] = 0 BY <1>0, <2>5, ForgetOne DEF OpenHead
    <3> QED BY <1>0, <2>2, <2>5, <3>1 DEF Extends, TypeOK
  <2> QED BY <2>3, <2>4, <2>5
<1> QED BY <1>2, <1>4, <1>5, <1>6, <1>7 DEF IInv

\* Buffering a payload keeps the invariant.
LEMMA BufferStep ==
  ASSUME IInv, NEW w \in Writers, Buffer(w)
  PROVE  IInv'
<1>0. TypeOK BY DEF IInv
<1>1. LockOwned'
  BY <1>0 DEF TypeOK, LockOwned, Buffer
<1>2. TypeOK'
  <2>1. queue' \in [Writers -> Seq(Payload)]
    BY <1>0 DEF TypeOK, Buffer
  <2> QED BY <1>0, <1>1, <2>1 DEF TypeOK, Buffer, fileVars
<1>3. Local(w)
  BY <1>0 DEF TypeOK, Local, OthersKeep, fileVars, Buffer
<1>4. ChainInv' /\ TailInv' BY <1>3, FileKept
<1>5. AckInv' BY AckKept DEF Buffer, fileVars
<1>6. WriterInv'
  <2>1. PendingAt(w) /\ SyncAt(w) /\ HeadAt(w) /\ ObjectAt(w)
    BY DEF IInv, WriterInv
  <2>2. PendingAt(w)' BY <1>0, <2>1 DEF TypeOK, PendingAt, Extends, fileVars, Buffer
  <2>3. SyncAt(w)' BY <1>0, <2>1 DEF TypeOK, SyncAt, fileVars, Buffer
  <2>4. HeadAt(w)'
    BY <1>0, <2>1 DEF TypeOK, HeadAt, Open, Holding, Writing, fileVars, Buffer
  <2>5. ObjectAt(w)'
    <3>1. PICK p \in Payload : queue' = [queue EXCEPT ![w] = Append(@, p)]
      BY DEF Buffer
    <3>2. Append(queue[w], p) # <<>>
      <4>1. queue[w] \in Seq(Payload) BY <1>0 DEF TypeOK
      <4>2. Len(Append(queue[w], p)) = Len(queue[w]) + 1 /\ Len(queue[w]) \in Nat BY <4>1
      <4>3. Len(Append(queue[w], p)) # 0 BY <4>2
      <4> QED BY <4>3
    <3>3. queue'[w] # <<>>
      BY <1>0, <3>1, <3>2 DEF TypeOK
    <3> QED BY <2>1, <3>3 DEF ObjectAt, Buffer
  <2> QED BY <1>3, <2>2, <2>3, <2>4, <2>5, OthersKept
<1>7. FreshInv'
  BY <1>0, <1>3 DEF IInv, FreshInv, Local, OthersKeep, Buffer
<1> QED BY <1>2, <1>4, <1>5, <1>6, <1>7 DEF IInv

\* Taking the file lock keeps the invariant: nobody else holds it.
LEMMA AcquireStep ==
  ASSUME IInv, NEW w \in Writers, Acquire(w)
  PROVE  IInv'
<1>0. TypeOK BY DEF IInv
<1>1. LockOwned'
  BY <1>0 DEF TypeOK, LockOwned, Holding, Acquire
<1>2. TypeOK'
  <2>1. queue' \in [Writers -> Seq(Payload)]
    <3>1. CASE deferred[w] BY <1>0, <3>1 DEF TypeOK, Acquire
    <3>2. CASE ~deferred[w]
      <4>1. PICK p \in Payload : queue' = [queue EXCEPT ![w] = <<p>>]
        BY <3>2 DEF Acquire
      <4>2. <<p>> \in Seq(Payload) OBVIOUS
      <4> QED BY <1>0, <4>1, <4>2 DEF TypeOK
    <3> QED BY <3>1, <3>2
  <2>2. pc' \in [Writers -> PCs] /\ lock' \in Writers
    BY <1>0 DEF TypeOK, Acquire, PCs, Holding
  <2> QED BY <1>0, <1>1, <2>1, <2>2 DEF TypeOK, Acquire, fileVars
<1>3. Local(w)
  BY <1>0 DEF TypeOK, Local, OthersKeep, fileVars, Acquire
<1>4. ChainInv' /\ TailInv' BY <1>3, FileKept
<1>5. AckInv' BY AckKept DEF Acquire, fileVars
<1>6. WriterInv'
  <2>1. PendingAt(w) /\ SyncAt(w) /\ HeadAt(w) /\ ObjectAt(w)
    BY DEF IInv, WriterInv
  <2>2. PendingAt(w)'
    BY <1>0, <2>1 DEF TypeOK, PendingAt, Extends, fileVars, Acquire
  <2>3. SyncAt(w)' BY <1>0, <2>1 DEF TypeOK, SyncAt, fileVars, Acquire
  <2>4. HeadAt(w)'
    BY <1>0, <2>1 DEF TypeOK, HeadAt, Open, Holding, Writing, fileVars, Acquire
  <2>5. ObjectAt(w)'
    <3>1. CASE deferred[w]
      BY <1>0, <2>1, <3>1 DEF TypeOK, ObjectAt, Open, Holding, Writing, Acquire
    <3>2. CASE ~deferred[w]
      <4>1. PICK p \in Payload : queue' = [queue EXCEPT ![w] = <<p>>]
        BY <3>2 DEF Acquire
      <4>2. queue'[w] # <<>>
        BY <1>0, <4>1 DEF TypeOK
      <4>3. pc'[w] = "locked" /\ pc[w] = "idle" /\ failed' = failed
        BY <1>0 DEF TypeOK, Acquire
      <4> QED BY <2>1, <4>2, <4>3 DEF ObjectAt, Open, Holding, Writing
    <3> QED BY <3>1, <3>2
  <2> QED BY <1>3, <2>2, <2>3, <2>4, <2>5, OthersKept
<1>7. FreshInv'
  BY <1>0, <1>3 DEF IInv, FreshInv, Local, OthersKeep, Acquire
<1> QED BY <1>2, <1>4, <1>5, <1>6, <1>7 DEF IInv

\* The head check makes the record that _append_locked builds extend the file.
LEMMA BuildRecordStep ==
  ASSUME IInv, NEW w \in Writers, BuildRecord(w)
  PROVE  IInv'
<1>0. TypeOK BY DEF IInv
<1>a. queue[w][1] \in Payload
  BY <1>0 DEF TypeOK, BuildRecord
<1>b. current'[w] \in Record
  BY <1>0, <1>a DEF TypeOK, Record, Payload, BuildRecord
<1>1. LockOwned'
  BY <1>0 DEF TypeOK, LockOwned, Holding, BuildRecord
<1>2. TypeOK'
  <2>1. current' \in [Writers -> Record \cup {NoRecord}]
    BY <1>0, <1>b DEF TypeOK, BuildRecord
  <2>2. sequence' \in [Writers -> Nat] /\ issued' \in Nat
    BY <1>0 DEF TypeOK, BuildRecord
  <2>3. pc' \in [Writers -> PCs]
    BY <1>0 DEF TypeOK, BuildRecord, PCs, Holding
  <2> QED BY <1>0, <1>1, <2>1, <2>2, <2>3 DEF TypeOK, BuildRecord, fileVars
<1>3. Local(w)
  BY <1>0 DEF TypeOK, Local, OthersKeep, fileVars, BuildRecord
<1>4. ChainInv' /\ TailInv' BY <1>3, FileKept
<1>5. AckInv' BY AckKept DEF BuildRecord, fileVars
<1>c. PendingAt(w) /\ SyncAt(w) /\ HeadAt(w) /\ ObjectAt(w) /\ pc[w] \in Open
  BY DEF IInv, WriterInv, BuildRecord, Open, Holding
<1>d. /\ pc'[w] \in {"artifact", "write"} /\ issued' = issued + 1
      /\ current'[w] = [uuid |-> issued + 1, parent |-> parentUuid[w],
                        seq |-> sequence[w] + 1, text |-> queue[w][1].text,
                        ref |-> queue[w][1].ref]
      /\ sequence'[w] = sequence[w] + 1 /\ parentUuid' = parentUuid
      /\ UNCHANGED <<exists, lines, tail, failed, queue>>
      /\ queue[w] # <<>> /\ pc[w] = "locked"
  BY <1>0 DEF TypeOK, BuildRecord, fileVars
<1>e. /\ Len(lines) \in Nat /\ issued \in Nat /\ sequence[w] \in Nat
      /\ \A i \in 1 .. Len(lines) : lines[i].uuid \in 1 .. issued
  BY <1>0 DEF TypeOK, IInv, ChainInv
\* The head check passed: this object's head is the end of the file.
<1>f. /\ tail = "none" /\ sequence[w] = Len(lines)
      /\ parentUuid[w] = (IF Len(lines) = 0 THEN 0 ELSE lines[Len(lines)].uuid)
      /\ w \notin failed
  <2>1. CASE exists
    <3>1. /\ tail = "none" /\ Len(lines) > 0 /\ lines[Len(lines)].seq = sequence[w]
          /\ lines[Len(lines)].uuid = parentUuid[w]
      BY <2>1 DEF BuildRecord, HeadMatches
    <3>2. lines[Len(lines)].seq = Len(lines) /\ Len(lines) \in 1 .. Len(lines)
      BY <1>e, <3>1 DEF IInv, ChainInv, NoFork
    <3>3. w \notin failed
      BY <1>c, <1>e, <3>1, <3>2 DEF HeadAt
    <3> QED BY <1>e, <3>1, <3>2, <3>3
  <2>2. CASE ~exists
    <3>1. sequence[w] = 0 /\ parentUuid[w] = 0
      BY <2>2 DEF BuildRecord, HeadMatches
    <3>2. lines = <<>>
      BY <2>2 DEF IInv, ChainInv
    <3>3. w \notin failed
      BY <1>c, <3>1 DEF HeadAt
    <3>4. tail = "none"
      BY <2>2 DEF IInv, ChainInv
    <3> QED BY <3>1, <3>2, <3>3, <3>4
  <2> QED BY <2>1, <2>2
<1>6. WriterInv'
  <2>2. PendingAt(w)'
    <3>1. current'[w] \in Record BY <1>b
    <3> HIDE <1>b
    <3> QED BY <1>d, <1>e, <1>f, <3>1 DEF PendingAt, Extends
  <2>3. SyncAt(w)' BY <1>d DEF SyncAt
  <2>4. HeadAt(w)'
    BY <1>c, <1>d, <1>e, <1>f DEF HeadAt, Open, Holding, Writing
  <2>5. ObjectAt(w)'
    BY <1>c, <1>d, <1>f DEF ObjectAt, Open, Holding, Writing
  <2> QED BY <1>3, <2>2, <2>3, <2>4, <2>5, OthersKept
<1>7. FreshInv'
  <2> SUFFICES ASSUME NEW u \in Writers, NEW v \in Writers,
                      pc'[u] \in {"artifact", "write"}
               PROVE  parentUuid'[v] # current'[u].uuid
    BY DEF FreshInv
  <2>1. CASE u = w
    BY <1>d, <1>e, <2>1, ParentDrawn
  <2>2. CASE u # w
    BY <1>3, <1>d, <2>2 DEF Local, OthersKeep, IInv, FreshInv
  <2> QED BY <2>1, <2>2
<1> QED BY <1>2, <1>4, <1>5, <1>6, <1>7 DEF IInv

\* An append refused by _assert_append_head changes nothing but the lock.
LEMMA RefuseHeadStep ==
  ASSUME IInv, NEW w \in Writers, RefuseHead(w)
  PROVE  IInv'
<1>0. TypeOK BY DEF IInv
<1>1. LockOwned'
  BY <1>0 DEF TypeOK, LockOwned, Holding, RefuseHead, Release
<1>2. TypeOK'
  <2>1. queue' \in [Writers -> Seq(Payload)] /\ current' \in [Writers -> Record \cup {NoRecord}]
    BY <1>0 DEF TypeOK, RefuseHead, Release
  <2>2. pc' \in [Writers -> PCs]
    BY <1>0 DEF TypeOK, RefuseHead, Release, PCs
  <2> QED BY <1>0, <1>1, <2>1, <2>2 DEF TypeOK, RefuseHead, Release, fileVars
<1>3. Local(w)
  BY <1>0 DEF TypeOK, Local, OthersKeep, fileVars, RefuseHead, Release
<1>4. ChainInv' /\ TailInv' BY <1>3, FileKept
<1>5. AckInv' BY AckKept DEF RefuseHead, fileVars
<1>6. WriterInv'
  <2>1. PendingAt(w) /\ SyncAt(w) /\ HeadAt(w) /\ ObjectAt(w)
    BY DEF IInv, WriterInv
  <2>2. PendingAt(w)'
    BY <1>0, <2>1 DEF TypeOK, PendingAt, Extends, fileVars, RefuseHead, Release
  <2>3. SyncAt(w)'
    BY <1>0, <2>1 DEF TypeOK, SyncAt, fileVars, RefuseHead, Release
  <2>4. HeadAt(w)'
    BY <1>0, <2>1 DEF TypeOK, HeadAt, Open, Holding, Writing, fileVars, RefuseHead, Release
  <2>5. ObjectAt(w)'
    BY <1>0, <2>1 DEF TypeOK, ObjectAt, Open, Holding, Writing, fileVars, RefuseHead, Release
  <2> QED BY <1>3, <2>2, <2>3, <2>4, <2>5, OthersKept
<1>7. FreshInv'
  BY <1>0, <1>3 DEF IInv, FreshInv, Local, OthersKeep, RefuseHead, Release
<1> QED BY <1>2, <1>4, <1>5, <1>6, <1>7 DEF IInv

\* Writing the payload file of a record leaves the journal file alone.
LEMMA WriteArtifactStep ==
  ASSUME IInv, NEW w \in Writers, WriteArtifact(w)
  PROVE  IInv'
<1>0. TypeOK BY DEF IInv
<1>1. LockOwned'
  BY <1>0 DEF TypeOK, LockOwned, Holding, WriteArtifact
<1>2. TypeOK'
  <2>1. current[w].uuid \in Nat
    BY <1>0 DEF IInv, TypeOK, WriterInv, PendingAt, Extends, Record, WriteArtifact
  <2>2. artifacts' \subseteq Nat
    BY <1>0, <2>1 DEF TypeOK, WriteArtifact
  <2>3. pc' \in [Writers -> PCs]
    BY <1>0 DEF TypeOK, WriteArtifact, PCs, Holding
  <2> QED BY <1>0, <1>1, <2>2, <2>3 DEF TypeOK, WriteArtifact
<1>3. Local(w)
  BY <1>0 DEF TypeOK, Local, OthersKeep, fileVars, WriteArtifact
<1>4. ChainInv' /\ TailInv' BY <1>3, FileKept
<1>5. AckInv' BY AckKept DEF WriteArtifact, fileVars
<1>6. WriterInv'
  <2>1. PendingAt(w) /\ SyncAt(w) /\ HeadAt(w) /\ ObjectAt(w)
    BY DEF IInv, WriterInv
  <2>2. PendingAt(w)'
    BY <1>0, <2>1 DEF TypeOK, PendingAt, Extends, fileVars, WriteArtifact
  <2>3. SyncAt(w)' BY <1>0, <2>1 DEF TypeOK, SyncAt, fileVars, WriteArtifact
  <2>4. HeadAt(w)'
    BY <1>0, <2>1 DEF TypeOK, HeadAt, Open, Holding, Writing, fileVars, WriteArtifact
  <2>5. ObjectAt(w)'
    BY <1>0, <2>1 DEF TypeOK, ObjectAt, Open, Holding, Writing, fileVars, WriteArtifact
  <2> QED BY <1>3, <2>2, <2>3, <2>4, <2>5, OthersKept
<1>7. FreshInv'
  BY <1>0, <1>3 DEF IInv, FreshInv, Local, OthersKeep, WriteArtifact
<1> QED BY <1>2, <1>4, <1>5, <1>6, <1>7 DEF IInv

\* Writing the line of the pending record extends the chain by one.
LEMMA WriteLineStep ==
  ASSUME IInv, NEW w \in Writers, WriteLine(w)
  PROVE  IInv'
<1>0. TypeOK BY DEF IInv
<1>1. LockOwned'
  BY <1>0 DEF TypeOK, LockOwned, Holding, WriteLine
<1>2. TypeOK'
  <2>1. current[w] \in Record
    BY DEF IInv, WriterInv, PendingAt, Extends, WriteLine
  <2>2. lines' \in Seq(Record)
    BY <1>0, <2>1 DEF TypeOK, WriteLine
  <2>3. pc' \in [Writers -> PCs]
    BY <1>0 DEF TypeOK, WriteLine, PCs, Holding
  <2> QED BY <1>0, <1>1, <2>2, <2>3 DEF TypeOK, WriteLine
<1>c. PendingAt(w) /\ HeadAt(w) /\ ObjectAt(w) /\ pc[w] = "write" /\ Extends(current[w])
  BY DEF IInv, WriterInv, WriteLine, PendingAt
<1>d. /\ exists' /\ lines' = Append(lines, current[w]) /\ pc'[w] = "sync"
      /\ UNCHANGED <<tail, tailRecord, synced, sequence, parentUuid, queue, deferred,
                     current, issued, acked, failed>>
      /\ \A v \in Writers \ {w} : pc'[v] = pc[v]
  BY <1>0 DEF TypeOK, WriteLine
<1>e. /\ Len(lines) \in Nat /\ issued \in Nat /\ Len(lines') = Len(lines) + 1
      /\ \A i \in 1 .. Len(lines) : lines'[i] = lines[i]
      /\ lines'[Len(lines) + 1] = current[w] /\ tail = "none"
  BY <1>0, <1>c, <1>d DEF TypeOK, PendingAt, Extends
<1>3. ChainInv'
  <2>1. NoFork'
    <3> SUFFICES ASSUME NEW i \in 1 .. Len(lines) + 1
                 PROVE  /\ lines'[i].seq = i
                        /\ lines'[i].parent = IF i = 1 THEN 0 ELSE lines'[i - 1].uuid
      BY <1>e DEF NoFork
    <3>1. CASE i \in 1 .. Len(lines)
      <4>1. i # 1 => i - 1 \in 1 .. Len(lines) BY <1>e, <3>1
      <4> QED BY <1>e, <3>1, <4>1 DEF IInv, ChainInv, NoFork
    <3>2. CASE i = Len(lines) + 1
      <4>1. i # 1 => i - 1 = Len(lines) /\ Len(lines) \in 1 .. Len(lines)
        BY <1>e, <3>2
      <4> QED BY <1>c, <1>e, <3>2, <4>1 DEF Extends
    <3> QED BY <1>e, <3>1, <3>2
  <2>2. \A i \in 1 .. Len(lines') : lines'[i].uuid \in 1 .. issued'
    BY <1>c, <1>d, <1>e DEF IInv, ChainInv, Extends
  <2>3. \A i, j \in 1 .. Len(lines') : lines'[i].uuid = lines'[j].uuid => i = j
    BY <1>c, <1>d, <1>e DEF IInv, ChainInv, Extends
  <2> QED BY <1>d, <2>1, <2>2, <2>3 DEF ChainInv
<1>4. TailInv' BY <1>d, <1>e DEF TailInv
<1>5. AckInv'
  BY <1>d, <1>e DEF IInv, AckInv, AckedKept
<1>6. WriterInv'
  <2> SUFFICES ASSUME NEW v \in Writers
               PROVE  PendingAt(v)' /\ SyncAt(v)' /\ HeadAt(v)' /\ ObjectAt(v)'
    BY DEF WriterInv
  <2>1. CASE v = w
    <3>1. PendingAt(w)' BY <1>d DEF PendingAt
    <3>2. SyncAt(w)'
      BY <1>c, <1>d, <1>e DEF SyncAt, PendingAt
    <3>3. parentUuid[w] # current[w].uuid
      BY <1>c DEF IInv, FreshInv
    <3>4. HeadAt(w)'
      BY <1>c, <1>d, <1>e, <3>3 DEF HeadAt, Open, Holding, Writing
    <3>5. ObjectAt(w)'
      BY <1>c, <1>d DEF ObjectAt, Open, Holding, Writing
    <3> QED BY <2>1, <3>1, <3>2, <3>4, <3>5
  <2>2. CASE v # w
    <3>1. pc'[v] = pc[v] /\ pc[v] \notin Holding
      BY <1>0, <1>c, <1>d, <2>2, OnlyOneHolds DEF Holding
    <3>2. PendingAt(v)' /\ SyncAt(v)'
      BY <3>1 DEF PendingAt, SyncAt, Holding
    <3>3. parentUuid[v] # current[w].uuid /\ HeadAt(v) /\ ObjectAt(v)
      BY <1>c DEF IInv, FreshInv, WriterInv
    <3>4. HeadAt(v)'
      BY <1>d, <1>e, <3>1, <3>3 DEF HeadAt
    <3>5. ObjectAt(v)'
      BY <1>d, <3>1, <3>3 DEF ObjectAt
    <3> QED BY <3>2, <3>4, <3>5
  <2> QED BY <2>1, <2>2
<1>7. FreshInv'
  BY <1>d DEF IInv, FreshInv
<1> QED BY <1>2, <1>3, <1>4, <1>5, <1>6, <1>7 DEF IInv

\* A torn write leaves the chain, and an end that readers accept only if it extends it.
LEMMA TearLineStep ==
  ASSUME IInv, NEW w \in Writers, TearLine(w)
  PROVE  IInv'
<1>0. TypeOK BY DEF IInv
<1>a. pc[w] = "write" /\ tail' \in TailStates /\ current[w] \in Record
  BY DEF IInv, WriterInv, PendingAt, Extends, TearLine, Torn, TailStates
<1>b. lock' = NoWriter /\ pc'[w] \notin Holding /\ \A v \in Writers \ {w} : pc'[v] = pc[v]
  BY <1>0 DEF TypeOK, TearLine, Release, Forget, Holding
<1>1. LockOwned'
  BY <1>0, <1>a, <1>b DEF TypeOK, LockOwned, Holding
<1>2. TypeOK'
  <2>1. CASE Release(w) /\ UNCHANGED <<sequence, parentUuid, deferred, view>>
             /\ failed' = failed \cup {w}
    <3>1. queue' \in [Writers -> Seq(Payload)] /\ current' \in [Writers -> Record \cup {NoRecord}]
      BY <1>0, <2>1 DEF TypeOK, Release
    <3>2. pc' \in [Writers -> PCs]
      BY <1>0, <2>1 DEF TypeOK, Release, PCs
    <3> QED BY <1>0, <1>1, <1>a, <2>1, <3>1, <3>2 DEF TypeOK, TearLine, Release
  <2>2. CASE lock' = NoWriter /\ Forget({w})
    BY <1>0, <1>1, <1>a, <2>2, ForgetTypes DEF TypeOK, TearLine
  <2> QED BY <2>1, <2>2 DEF TearLine
<1>c. /\ PendingAt(w) /\ HeadAt(w) /\ ObjectAt(w) /\ Extends(current[w])
      /\ exists' /\ tailRecord' = current[w]
      /\ UNCHANGED <<lines, synced, issued, acked>>
  BY <1>a DEF IInv, WriterInv, TearLine, PendingAt
<1>d. OthersKeep(w)
  <2>1. CASE Release(w) /\ UNCHANGED <<sequence, parentUuid, deferred, view>>
             /\ failed' = failed \cup {w}
    BY <1>0, <2>1 DEF TypeOK, OthersKeep, Release
  <2>2. CASE Forget({w}) BY <1>0, <2>2, ForgetOne
  <2> QED BY <2>1, <2>2 DEF TearLine
<1>3. ChainInv' /\ TailInv' /\ AckInv'
  <2>1. ChainInv' BY <1>c DEF IInv, ChainInv, NoFork
  <2>2. TailInv' BY <1>c DEF TailInv, Extends
  <2>3. AckInv' BY <1>c, AckKept
  <2> QED BY <2>1, <2>2, <2>3
<1>6. WriterInv'
  <2> SUFFICES ASSUME NEW v \in Writers
               PROVE  PendingAt(v)' /\ SyncAt(v)' /\ HeadAt(v)' /\ ObjectAt(v)'
    BY DEF WriterInv
  <2>1. CASE v # w
    <3>1. pc'[v] = pc[v] /\ pc[v] \notin Holding /\ HeadAt(v) /\ ObjectAt(v)
      BY <1>0, <1>a, <1>d, <2>1, OnlyOneHolds DEF Holding, OthersKeep, IInv, WriterInv
    <3>2. PendingAt(v)' /\ SyncAt(v)'
      BY <3>1 DEF PendingAt, SyncAt, Holding
    <3>3. HeadAt(v)'
      BY <1>c, <1>d, <2>1, <3>1 DEF HeadAt, OthersKeep
    <3>4. ObjectAt(v)'
      BY <1>d, <2>1, <3>1 DEF ObjectAt, OthersKeep
    <3> QED BY <3>2, <3>3, <3>4
  <2>2. CASE v = w /\ Forget({w})
    BY <1>0, <2>2, ForgetOne, ClosedWriter
  <2>3. CASE v = w /\ Release(w) /\ UNCHANGED <<sequence, parentUuid, deferred, view>>
             /\ failed' = failed \cup {w}
    <3>1. pc'[w] = "idle" /\ w \in failed' /\ (deferred[w] => queue'[w] = queue[w])
      BY <1>0, <2>3 DEF TypeOK, Release
    <3>2. PendingAt(w)' /\ SyncAt(w)'
      BY <3>1 DEF PendingAt, SyncAt
    <3>3. HeadAt(w)'
      BY <1>a, <1>c, <2>3, <3>1 DEF HeadAt, Open, Holding, Writing
    <3>4. ObjectAt(w)'
      BY <1>a, <1>c, <2>3, <3>1 DEF ObjectAt, Open, Holding, Writing
    <3> QED BY <2>3, <3>2, <3>3, <3>4
  <2> QED BY <2>1, <2>2, <2>3 DEF TearLine
<1>7. FreshInv'
  <2>1. \A u \in Writers : pc'[u] \notin {"artifact", "write"}
    BY <1>0, <1>a, <1>b, OnlyOneHolds DEF Holding
  <2> QED BY <2>1 DEF FreshInv
<1> QED BY <1>2, <1>3, <1>6, <1>7 DEF IInv

\* A failed write leaves its journal object ahead of the file for good.
LEMMA FailIOStep ==
  ASSUME IInv, NEW w \in Writers, FailIO(w)
  PROVE  IInv'
<1>0. TypeOK BY DEF IInv
<1>1. LockOwned'
  BY <1>0 DEF TypeOK, LockOwned, Holding, FailIO, Release
<1>2. TypeOK'
  <2>1. queue' \in [Writers -> Seq(Payload)] /\ current' \in [Writers -> Record \cup {NoRecord}]
    BY <1>0 DEF TypeOK, FailIO, Release
  <2>2. pc' \in [Writers -> PCs]
    BY <1>0 DEF TypeOK, FailIO, Release, PCs
  <2> QED BY <1>0, <1>1, <2>1, <2>2 DEF TypeOK, FailIO, Release, fileVars
<1>3. Local(w)
  BY <1>0 DEF TypeOK, Local, OthersKeep, fileVars, FailIO, Release
<1>4. ChainInv' /\ TailInv' BY <1>3, FileKept
<1>5. AckInv' BY AckKept DEF FailIO, fileVars
<1>6. WriterInv'
  <2>1. PendingAt(w) /\ SyncAt(w) /\ HeadAt(w) /\ ObjectAt(w)
    BY DEF IInv, WriterInv
  <2>2. PendingAt(w)'
    BY <1>0, <2>1 DEF TypeOK, PendingAt, Extends, fileVars, FailIO, Release
  <2>3. SyncAt(w)' BY <1>0, <2>1 DEF TypeOK, SyncAt, fileVars, FailIO, Release
  <2>4. HeadAt(w)'
    BY <1>0, <2>1 DEF TypeOK, HeadAt, Open, Holding, Writing, fileVars, FailIO, Release
  <2>5. ObjectAt(w)'
    BY <1>0, <2>1 DEF TypeOK, ObjectAt, Open, Holding, Writing, fileVars, FailIO, Release
  <2> QED BY <1>3, <2>2, <2>3, <2>4, <2>5, OthersKept
<1>7. FreshInv'
  <2>1. \A u \in Writers : pc'[u] \notin {"artifact", "write"}
    BY <1>0, <1>3, OnlyOneHolds DEF TypeOK, Holding, Local, OthersKeep, FailIO, Release
  <2> QED BY <2>1 DEF FreshInv
<1> QED BY <1>2, <1>4, <1>5, <1>6, <1>7 DEF IInv

\* An append returns after fsync, when its record and all before it are on the disk.
LEMMA AcknowledgeStep ==
  ASSUME IInv, NEW w \in Writers, Acknowledge(w)
  PROVE  IInv'
<1>0. TypeOK BY DEF IInv
<1>a. /\ Len(lines) \in 1 .. Len(lines) /\ current[w] = lines[Len(lines)]
      /\ current[w].uuid \in 1 .. issued /\ current[w].uuid \in Nat
  BY <1>0 DEF IInv, WriterInv, SyncAt, ChainInv, Acknowledge, TypeOK
<1>1. LockOwned'
  BY <1>0 DEF TypeOK, LockOwned, Holding, Acknowledge
<1>2. TypeOK'
  <2>1. queue[w] # <<>> /\ queue' \in [Writers -> Seq(Payload)]
    BY <1>0 DEF IInv, WriterInv, ObjectAt, TypeOK, Acknowledge, Holding
  <2>2. parentUuid' \in [Writers -> Nat]
    BY <1>0, <1>a DEF TypeOK, Acknowledge
  <2>3. pc' \in [Writers -> PCs]
    BY <1>0 DEF TypeOK, Acknowledge, PCs, Holding
  <2>4. current' \in [Writers -> Record \cup {NoRecord}] /\ view' \in [Writers -> Nat]
    BY <1>0 DEF TypeOK, Acknowledge
  <2>5. acked' = acked \cup {current[w].uuid} /\ synced' = Len(lines)
    BY DEF Acknowledge
  <2>6. lock' \in Writers \cup {NoWriter} /\ deferred' \in [Writers -> BOOLEAN]
    BY <1>0 DEF TypeOK, Acknowledge
  <2>7. acked' \subseteq Nat /\ synced' \in Nat
    <3>1. acked \subseteq Nat /\ Len(lines) \in Nat BY <1>0 DEF TypeOK
    <3> QED BY <1>a, <2>5, <3>1
  <2> QED BY <1>0, <1>1, <2>1, <2>2, <2>3, <2>4, <2>6, <2>7 DEF TypeOK, Acknowledge
<1>3. Local(w)
  BY <1>0 DEF TypeOK, Local, OthersKeep, Acknowledge
<1>4. ChainInv' /\ TailInv' BY <1>3, FileKept
<1>c. /\ synced' = Len(lines) /\ acked' = acked \cup {current[w].uuid} /\ lines' = lines
      /\ parentUuid'[w] = current[w].uuid /\ UNCHANGED <<sequence, issued, failed>>
      /\ pc'[w] \in {"locked", "idle"} /\ pc[w] = "sync"
      /\ queue'[w] = Tail(queue[w])
  BY <1>0 DEF TypeOK, Acknowledge
<1>5. AckInv'
  <2>1. Len(lines) \in Nat /\ synced \in 0 .. Len(lines) /\ AckedKept
    BY <1>0 DEF TypeOK, IInv, AckInv
  <2> QED BY <1>a, <1>c, <2>1 DEF AckInv, AckedKept
<1>6. WriterInv'
  <2>1. SyncAt(w) /\ HeadAt(w) /\ ObjectAt(w)
    BY DEF IInv, WriterInv
  <2>2. PendingAt(w)' /\ SyncAt(w)' BY <1>c DEF PendingAt, SyncAt
  <2>3. HeadAt(w)'
    <3>1. sequence[w] = Len(lines) /\ w \notin failed
      BY <1>a, <1>c, <2>1 DEF SyncAt, ObjectAt, Writing, IInv, ChainInv, NoFork
    <3>2. \A i \in 1 .. Len(lines) : lines[i].uuid = current[w].uuid => i = Len(lines)
      BY <1>a DEF IInv, ChainInv
    <3>3. current[w].uuid \in 0 .. issued BY <1>0, <1>a DEF TypeOK
    <3> QED BY <1>c, <3>1, <3>2, <3>3 DEF HeadAt, Writing
  <2>4. ObjectAt(w)'
    <3>1. w \notin failed' BY <1>c, <2>1 DEF ObjectAt, Writing
    <3>2. CASE Len(queue[w]) > 1
      <4>1. Tail(queue[w]) # <<>>
        <5>1. queue[w] \in Seq(Payload) BY <1>0 DEF TypeOK
        <5> QED BY <3>2, <5>1, TailNonempty
      <4> QED BY <1>c, <3>1, <4>1 DEF ObjectAt, Open, Holding
    <3>3. CASE ~(Len(queue[w]) > 1)
      <4>1. pc'[w] = "idle" /\ ~deferred'[w]
        BY <1>0, <3>3 DEF TypeOK, Acknowledge
      <4> QED BY <3>1, <4>1 DEF ObjectAt, Open, Holding
    <3> QED BY <3>2, <3>3
  <2> QED BY <1>3, <2>2, <2>3, <2>4, OthersKept
<1>7. FreshInv'
  <2>1. \A u \in Writers : pc'[u] \notin {"artifact", "write"}
    BY <1>0, <1>3, <1>c, OnlyOneHolds DEF Holding, Local, OthersKeep
  <2> QED BY <2>1 DEF FreshInv
<1> QED BY <1>2, <1>4, <1>5, <1>6, <1>7 DEF IInv

\* The end of a process frees its lock and leaves the file as it is.
LEMMA CrashStep ==
  ASSUME IInv, NEW w \in Writers, Crash(w)
  PROVE  IInv'
<1>0. TypeOK BY DEF IInv
<1>b. /\ pc'[w] \notin Holding /\ \A v \in Writers \ {w} : pc'[v] = pc[v]
      /\ lock' = IF lock = w THEN NoWriter ELSE lock
  BY <1>0 DEF TypeOK, Crash, Forget, Holding
<1>1. LockOwned'
  BY <1>0, <1>b DEF TypeOK, LockOwned, Holding
<1>2. TypeOK'
  BY <1>0, <1>1, <1>b, ForgetTypes DEF TypeOK, Crash, fileVars
<1>3. Local(w)
  BY <1>0, ForgetOne DEF TypeOK, Local, Crash, fileVars
<1>4. ChainInv' /\ TailInv' BY <1>3, FileKept
<1>5. AckInv' BY AckKept DEF Crash, fileVars
<1>6. WriterInv'
  BY <1>0, <1>3, ForgetOne, ClosedWriter, OthersKept DEF Crash
<1>7. FreshInv'
  <2> SUFFICES ASSUME NEW u \in Writers, NEW v \in Writers,
                      pc'[u] \in {"artifact", "write"}
               PROVE  parentUuid'[v] # current'[u].uuid
    BY DEF FreshInv
  <2>1. u # w
    BY <1>0, ForgetOne DEF Crash
  <2>2. /\ current'[u] = current[u] /\ parentUuid[v] # current[u].uuid
        /\ Extends(current[u])
    BY <2>1, <1>3 DEF Local, OthersKeep, IInv, FreshInv, WriterInv, PendingAt
  <2>3. CASE v # w BY <2>2, <2>3, <1>3 DEF Local, OthersKeep
  <2>4. CASE v = w
    <3>1. parentUuid'[w] = 0 BY <1>0, ForgetOne DEF Crash
    <3> QED BY <1>0, <2>2, <2>4, <3>1 DEF Extends, TypeOK
  <2> QED BY <2>3, <2>4
<1> QED BY <1>2, <1>4, <1>5, <1>6, <1>7 DEF IInv

\* A power failure cuts the file behind its synced prefix, which holds every
\* acknowledged record.
LEMMA PowerLossStep ==
  ASSUME IInv, PowerLoss
  PROVE  IInv'
<1>0. TypeOK BY DEF IInv
<1>a. PICK n \in synced .. Len(lines) :
       /\ lines' = SubSeq(lines, 1, n)
       /\ IF n < Len(lines)
          THEN \/ tail' = "none" /\ UNCHANGED tailRecord
               \/ /\ tail' \in Torn(lines[n + 1])
                  /\ tailRecord' = lines[n + 1]
          ELSE \/ UNCHANGED <<tail, tailRecord>>
               \/ tail' = "none" /\ UNCHANGED tailRecord
       /\ exists' \in IF n = 0 /\ tail' = "none" THEN {exists, FALSE} ELSE {exists}
  BY DEF PowerLoss
<1>b. /\ n \in 0 .. Len(lines) /\ synced <= n
      /\ lines' \in Seq(Record) /\ Len(lines') = n
      /\ \A i \in 1 .. n : lines'[i] = lines[i]
  BY <1>0, <1>a DEF TypeOK, IInv, AckInv
<1>c. \A w \in Writers : pc'[w] = "closed"
  BY DEF PowerLoss, Forget
<1>1. LockOwned'
  BY <1>0, <1>c DEF TypeOK, LockOwned, Holding, PowerLoss
<1>2. TypeOK'
  <2>a. n < Len(lines) => lines[n + 1] \in Record
    <3>1. n < Len(lines) => n + 1 \in 1 .. Len(lines) BY <1>0, <1>b DEF TypeOK
    <3> QED BY <1>0, <3>1 DEF TypeOK
  <2>b. tail' \in TailStates
    BY <1>0, <1>a DEF TypeOK, TailStates, Torn
  <2>c. tailRecord' \in Record \cup {NoRecord}
    BY <1>0, <1>a, <2>a DEF TypeOK
  <2>d. exists' \in BOOLEAN
    BY <1>0, <1>a DEF TypeOK
  <2>1. tail' \in TailStates /\ tailRecord' \in Record \cup {NoRecord} /\ exists' \in BOOLEAN
    BY <2>b, <2>c, <2>d
  <2>2. artifacts' \subseteq Nat /\ powerLoss' \in Nat /\ lock' = NoWriter
    BY <1>0 DEF TypeOK, PowerLoss
  <2>3. Forget(Writers) /\ UNCHANGED <<created, synced, issued, acked>>
    BY DEF PowerLoss
  <2> QED BY <1>0, <1>1, <1>b, <2>1, <2>2, <2>3, ForgetTypes DEF TypeOK
<1>3. ChainInv'
  <2>1. UNCHANGED issued BY DEF PowerLoss
  <2>2. NoFork'
    <3> SUFFICES ASSUME NEW i \in 1 .. n
                 PROVE  /\ lines'[i].seq = i
                        /\ lines'[i].parent = IF i = 1 THEN 0 ELSE lines'[i - 1].uuid
      BY <1>b DEF NoFork
    <3>1. i \in 1 .. Len(lines) /\ (i # 1 => i - 1 \in 1 .. n)
      BY <1>0, <1>b DEF TypeOK
    <3> QED BY <1>b, <3>1 DEF IInv, ChainInv, NoFork
  <2>3. \A i \in 1 .. n : i \in 1 .. Len(lines)
    BY <1>0, <1>b DEF TypeOK
  <2>4. ~exists' => lines' = <<>> /\ tail' = "none"
    <3>1. n = 0 => lines' = <<>> BY <1>b
    <3>2. ~exists => n = 0 /\ Len(lines) = 0 /\ tail = "none"
      BY <1>0, <1>b DEF IInv, ChainInv
    <3>3. CASE exists' = exists
      BY <1>a, <3>1, <3>2, <3>3
    <3>4. CASE exists' # exists
      BY <1>a, <3>1, <3>4
    <3> QED BY <3>3, <3>4
  <2> QED BY <1>b, <2>1, <2>2, <2>3, <2>4 DEF IInv, ChainInv
<1>4. TailInv'
  <2> SUFFICES ASSUME tail' = "whole" PROVE exists' /\ Extends(tailRecord)'
    BY DEF TailInv
  <2>0. exists' = exists /\ UNCHANGED issued /\ issued \in Nat
    BY <1>0, <1>a DEF PowerLoss, TypeOK
  <2>1. CASE n < Len(lines)
    <3>1. tailRecord' = lines[n + 1] /\ n + 1 \in 1 .. Len(lines) /\ n \in Nat
      BY <1>0, <1>a, <1>b, <2>1 DEF TypeOK
    <3>2. exists BY <2>1, <1>0, <1>b DEF IInv, ChainInv
    <3>3. /\ lines[n + 1] \in Record /\ lines[n + 1].uuid \in 1 .. issued
          /\ lines[n + 1].seq = n + 1
          /\ lines[n + 1].parent = IF n + 1 = 1 THEN 0 ELSE lines[n + 1 - 1].uuid
      BY <1>0, <3>1 DEF TypeOK, IInv, ChainInv, NoFork
    <3>4. lines[n + 1].parent = IF n = 0 THEN 0 ELSE lines'[n].uuid
      BY <1>b, <3>1, <3>3
    <3>5. \A i \in 1 .. n : lines'[i].uuid # lines[n + 1].uuid
      <4>1. \A i \in 1 .. n : i \in 1 .. Len(lines) /\ i # n + 1
        BY <3>1
      <4> QED BY <1>b, <3>1, <4>1 DEF IInv, ChainInv
    <3> QED BY <1>b, <2>0, <3>1, <3>2, <3>3, <3>4, <3>5 DEF Extends
  <2>2. CASE ~(n < Len(lines))
    <3>1. n = Len(lines) /\ tail = "whole" /\ tailRecord' = tailRecord
      BY <1>0, <1>a, <1>b, <2>2 DEF TypeOK
    <3> QED BY <1>b, <2>0, <3>1 DEF IInv, TailInv, Extends
  <2> QED BY <2>1, <2>2
<1>5. AckInv'
  <2>1. UNCHANGED <<synced, acked>> /\ synced \in Nat
    BY <1>0 DEF PowerLoss, TypeOK
  <2>2. synced \in 0 .. n /\ \A i \in 1 .. synced : i \in 1 .. n
    BY <1>b, <2>1
  <2> QED BY <1>b, <2>1, <2>2 DEF IInv, AckInv, AckedKept
<1>6. WriterInv'
  <2>1. \A w \in Writers : pc'[w] = "closed" /\ sequence'[w] = 0 /\ parentUuid'[w] = 0
                           /\ w \notin failed' /\ ~deferred'[w]
    BY DEF PowerLoss, Forget
  <2> QED BY <2>1, ClosedWriter DEF WriterInv
<1>7. FreshInv'
  BY <1>c DEF FreshInv
<1> QED BY <1>2, <1>3, <1>4, <1>5, <1>6, <1>7 DEF IInv

-----------------------------------------------------------------------------
\* The chain, the heads and the record under way fit together in every reachable state.
THEOREM Inductive == Spec => []IInv
<1>1. Init => IInv
  <2> SUFFICES ASSUME Init PROVE IInv OBVIOUS
  <2>2. TypeOK
    <3>1. LockOwned BY DEF Init, LockOwned, Holding
    <3>2. lines \in Seq(Record) /\ queue \in [Writers -> Seq(Payload)]
      BY DEF Init
    <3>3. current \in [Writers -> Record \cup {NoRecord}] /\ tailRecord \in Record \cup {NoRecord}
      BY DEF Init
    <3> QED BY <3>1, <3>2, <3>3 DEF Init, TypeOK, TailStates, PCs
  <2>3. ChainInv /\ TailInv /\ FreshInv /\ AckInv
    BY DEF Init, ChainInv, NoFork, TailInv, FreshInv, AckInv, AckedKept
  <2>4. WriterInv
    BY DEF Init, WriterInv, PendingAt, SyncAt, HeadAt, ObjectAt, Open, Holding, Writing
  <2> QED BY <2>2, <2>3, <2>4 DEF IInv
<1>2. IInv /\ [Next]_vars => IInv'
  <2> SUFFICES ASSUME IInv, [Next]_vars PROVE IInv' OBVIOUS
  <2>1. CASE PowerLoss BY <2>1, PowerLossStep
  <2>2. ASSUME NEW w \in Writers, Process(w) PROVE IInv'
    BY <2>2, CreateStep, OpenLoadStep, OpenHeadStep, BufferStep, AcquireStep,
       BuildRecordStep, RefuseHeadStep, WriteArtifactStep, WriteLineStep, TearLineStep,
       FailIOStep, AcknowledgeStep, CrashStep DEF Process
  <2>3. CASE UNCHANGED vars
    <3> USE <2>3 DEF vars, fileVars, procVars
    <3>1. TypeOK' BY DEF IInv, TypeOK, LockOwned
    <3>2. ChainInv' /\ AckInv' BY DEF IInv, ChainInv, NoFork, AckInv, AckedKept
    <3>3. TailInv' /\ FreshInv' BY DEF IInv, TailInv, Extends, FreshInv
    <3>4. WriterInv'
      BY DEF IInv, WriterInv, PendingAt, Extends, SyncAt, HeadAt, ObjectAt
    <3> QED BY <3>1, <3>2, <3>3, <3>4 DEF IInv
  <2> QED BY <2>1, <2>2, <2>3 DEF Next
<1> QED BY <1>1, <1>2, PTL DEF Spec

\* Types, and the lock is held exactly inside exclusive_append.
THEOREM Types == Spec => []TypeOK
<1>1. IInv => TypeOK BY DEF IInv
<1> QED BY <1>1, Inductive, PTL

\* However many processes hold the journal open, and whatever crashes, tears or power
\* failures happen, the file is one chain.
THEOREM Unforked == Spec => []NoFork
<1>1. IInv => NoFork BY DEF IInv, ChainInv
<1> QED BY <1>1, Inductive, PTL

\* An acknowledged record is never lost.
THEOREM Durable == Spec => []AckedKept
<1>1. IInv => AckedKept BY DEF IInv, AckInv
<1> QED BY <1>1, Inductive, PTL

\* A journal object one of whose appends failed writes nothing more.
THEOREM Fenced == Spec => []FailedWriterFenced
<1>1. IInv => FailedWriterFenced
  BY DEF IInv, TypeOK, WriterInv, ObjectAt, FailedWriterFenced, Writing
<1> QED BY <1>1, Inductive, PTL

-----------------------------------------------------------------------------
\* The payload file that a record names is in place.
Stored(r) == r.ref => r.uuid \in artifacts

\* Until power fails, every record that is or may become readable names a payload in place.
PayloadInv ==
  powerLoss = 0 =>
    /\ \A i \in 1 .. Len(lines) : Stored(lines[i])
    /\ tail = "whole" => Stored(tailRecord)
    /\ \A w \in Writers : pc[w] = "write" => Stored(current[w])

\* An oversized payload reaches its file before the line that names it is written, so the
\* line never names a missing payload while the power stays on.
LEMMA PayloadStep ==
  ASSUME IInv, PayloadInv, [Next]_vars
  PROVE  PayloadInv'
<1>0. TypeOK BY DEF IInv
<1>1. CASE PowerLoss
  <2>1. powerLoss' = powerLoss + 1 /\ powerLoss \in Nat BY <1>0, <1>1 DEF PowerLoss, TypeOK
  <2> QED BY <2>1 DEF PayloadInv
<1>2. ASSUME NEW w \in Writers, Process(w) PROVE PayloadInv'
  <2> DEFINE File == UNCHANGED <<lines, tail, tailRecord, artifacts>>
  <2> DEFINE Others == \A v \in Writers \ {w} : pc'[v] = pc[v] /\ current'[v] = current[v]
  <2> SUFFICES ASSUME powerLoss' = 0 PROVE PayloadInv'
    BY DEF PayloadInv
  <2>p. powerLoss = 0
    BY <1>2 DEF Process, Create, OpenLoad, OpenHead, Buffer, Acquire, BuildRecord, RefuseHead,
       WriteArtifact, WriteLine, TearLine, FailIO, Acknowledge, Crash
  <2>k. ASSUME File, Others, pc'[w] # "write" PROVE PayloadInv'
    BY <2>p, <2>k DEF PayloadInv, Stored
  <2>f. ASSUME Forget({w}) PROVE Others /\ pc'[w] = "closed"
    BY <2>f DEF Forget
  <2>1. CASE Create(w) \/ OpenLoad(w) \/ Buffer(w) \/ Acquire(w)
    <3>1. File BY <2>1 DEF Create, OpenLoad, Buffer, Acquire, fileVars
    <3>2. Others /\ pc'[w] # "write"
      BY <1>0, <2>1 DEF TypeOK, Create, OpenLoad, Buffer, Acquire
    <3> QED BY <3>1, <3>2, <2>k
  <2>2. CASE OpenHead(w)
    <3>1. File BY <2>2 DEF OpenHead, fileVars
    <3>2. Others /\ pc'[w] # "write"
      <4>1. CASE Loadable BY <1>0, <2>2, <4>1 DEF TypeOK, OpenHead
      <4>2. CASE ~Loadable BY <2>2, <4>2, <2>f DEF OpenHead
      <4> QED BY <4>1, <4>2
    <3> QED BY <3>1, <3>2, <2>k
  <2>3. CASE RefuseHead(w) \/ FailIO(w)
    <3>1. File BY <2>3 DEF RefuseHead, FailIO, fileVars
    <3>2. Others /\ pc'[w] # "write"
      BY <1>0, <2>3 DEF TypeOK, RefuseHead, FailIO, Release
    <3> QED BY <3>1, <3>2, <2>k
  <2>4. CASE Acknowledge(w)
    <3>1. File BY <2>4 DEF Acknowledge
    <3>2. Others /\ pc'[w] # "write"
      BY <1>0, <2>4 DEF TypeOK, Acknowledge
    <3> QED BY <3>1, <3>2, <2>k
  <2>5. CASE Crash(w)
    <3>1. File BY <2>5 DEF Crash, fileVars
    <3> QED BY <3>1, <2>5, <2>f, <2>k DEF Crash
  <2>6. CASE BuildRecord(w)
    <3>1. File BY <2>6 DEF BuildRecord, fileVars
    <3>2. Others /\ (pc'[w] = "write" => ~current'[w].ref)
      BY <1>0, <2>6 DEF TypeOK, BuildRecord
    <3> QED BY <2>p, <3>1, <3>2 DEF PayloadInv, Stored
  <2>7. CASE WriteArtifact(w)
    <3>1. /\ UNCHANGED <<lines, tail, tailRecord, current>>
          /\ artifacts' = artifacts \cup {current[w].uuid}
          /\ \A v \in Writers \ {w} : pc'[v] = pc[v]
      BY <1>0, <2>7 DEF TypeOK, WriteArtifact
    <3> QED BY <2>p, <3>1 DEF PayloadInv, Stored
  <2>8. CASE WriteLine(w)
    <3>1. /\ UNCHANGED <<tail, tailRecord, artifacts, current>> /\ pc[w] = "write"
          /\ pc'[w] = "sync" /\ \A v \in Writers \ {w} : pc'[v] = pc[v]
      BY <1>0, <2>8 DEF TypeOK, WriteLine
    <3>2. /\ Len(lines) \in Nat /\ Len(lines') = Len(lines) + 1
          /\ lines'[Len(lines) + 1] = current[w]
          /\ \A i \in 1 .. Len(lines) : lines'[i] = lines[i]
      <4>1. current[w] \in Record
        BY <3>1 DEF IInv, WriterInv, PendingAt, Extends
      <4>2. lines \in Seq(Record) BY <1>0 DEF TypeOK
      <4> QED BY <2>8, <4>1, <4>2 DEF WriteLine
    <3>3. \A i \in 1 .. Len(lines') : Stored(lines'[i])
      BY <2>p, <3>1, <3>2 DEF PayloadInv, Stored
    <3> QED BY <2>p, <3>1, <3>3 DEF PayloadInv, Stored
  <2>9. CASE TearLine(w)
    <3>1. /\ UNCHANGED <<lines, artifacts>> /\ pc[w] = "write" /\ tailRecord' = current[w]
      BY <2>9 DEF TearLine
    <3>2. Others /\ pc'[w] # "write"
      <4>1. CASE Release(w) BY <1>0, <4>1 DEF Release, TypeOK
      <4>2. CASE Forget({w}) BY <4>2, <2>f
      <4> QED BY <2>9, <4>1, <4>2 DEF TearLine
    <3> QED BY <2>p, <3>1, <3>2 DEF PayloadInv, Stored
  <2> QED BY <1>2, <2>1, <2>2, <2>3, <2>4, <2>5, <2>6, <2>7, <2>8, <2>9 DEF Process
<1>3. CASE UNCHANGED vars
  BY <1>3 DEF vars, fileVars, procVars, PayloadInv, Stored
<1> QED BY <1>1, <1>2, <1>3 DEF Next

\* What json.loads returns of a well-formed file passes _select_valid_record_chain.
LEMMA ParsedIsChain ==
  ASSUME TypeOK, ChainInv, TailInv, Len(Parsed) > 0
  PROVE  ValidChain(Parsed)
<1> DEFINE rs == Parsed
<1> DEFINE n == Len(rs)
<1>0. Len(lines) \in Nat /\ issued \in Nat BY DEF TypeOK
<1>1. /\ rs \in Seq(Record) /\ n \in Nat /\ n > 0
      /\ n = Len(lines) + (IF tail = "whole" THEN 1 ELSE 0)
      /\ \A i \in 1 .. Len(lines) : rs[i] = lines[i]
      /\ tail = "whole" => rs[n] = tailRecord
  BY DEF Parsed, TypeOK, TailInv, Extends
<1>2. \A i \in 1 .. n : rs[i].seq = i /\ rs[i].uuid \in 1 .. issued
  BY <1>1 DEF ChainInv, NoFork, TailInv, Extends, TypeOK
<1>3. \A i, j \in 1 .. n : rs[i].uuid = rs[j].uuid => i = j
  BY <1>1 DEF ChainInv, TailInv, Extends
<1>4. \A i \in 1 .. n : rs[i].parent = IF i = 1 THEN 0 ELSE rs[i - 1].uuid
  <2> SUFFICES ASSUME NEW i \in 1 .. n
               PROVE  rs[i].parent = IF i = 1 THEN 0 ELSE rs[i - 1].uuid
    OBVIOUS
  <2>1. CASE i \in 1 .. Len(lines)
    <3>1. rs[i] = lines[i] /\ lines[i].parent = IF i = 1 THEN 0 ELSE lines[i - 1].uuid
      BY <2>1, <1>1 DEF ChainInv, NoFork
    <3>2. i # 1 => i - 1 \in 1 .. Len(lines)
      BY <2>1, <1>0
    <3> QED BY <3>1, <3>2, <1>1
  <2>2. CASE i \notin 1 .. Len(lines)
    <3>1. tail = "whole" /\ i = n /\ n = Len(lines) + 1
      BY <2>2, <1>0, <1>1
    <3>2. rs[i].parent = IF Len(lines) = 0 THEN 0 ELSE lines[Len(lines)].uuid
      BY <3>1, <1>1 DEF TailInv, Extends
    <3>3. Len(lines) # 0 => Len(lines) \in 1 .. Len(lines) BY <1>0
    <3> QED BY <3>1, <3>2, <3>3, <1>0, <1>1
  <2> QED BY <2>1, <2>2
<1> HIDE DEF rs
<1>5. \A i \in 1 .. n : rs[i].parent = 0 <=> i = 1
  <2>1. \A i \in 1 .. n : i # 1 => i - 1 \in 1 .. n BY <1>1
  <2> QED BY <1>0, <1>2, <1>4, <2>1
<1>6. \A i \in 1 .. n : IF rs[i].parent = 0 THEN rs[i].seq = 1
        ELSE \E j \in 1 .. i - 1 : rs[j].uuid = rs[i].parent /\ rs[i].seq = rs[j].seq + 1
  <2> SUFFICES ASSUME NEW i \in 1 .. n, i # 1
               PROVE  i - 1 \in 1 .. i - 1 /\ rs[i - 1].uuid = rs[i].parent
                      /\ rs[i].seq = rs[i - 1].seq + 1
    BY <1>1, <1>2, <1>5
  <2>1. i - 1 \in 1 .. n /\ i - 1 \in 1 .. i - 1 BY <1>1
  <2> QED BY <1>2, <1>4, <2>1
<1>7. 1 \in 1 .. n /\ rs[1].parent = 0 BY <1>1, <1>5
<1>8. ValidChain(rs)
  BY <1>3, <1>5, <1>6, <1>7 DEF ValidChain
<1> QED BY <1>8 DEF rs

\* Once an append has returned, and as long as the power stays on, no payload holds a
\* line separator and the last line was not cut inside a character, the session can be
\* loaded again.
THEOREM Reloads == Spec => []Replayable
<1>1. Init => PayloadInv
  BY DEF Init, PayloadInv
<1>2. IInv /\ PayloadInv /\ [Next]_vars => PayloadInv'
  BY PayloadStep
<1>3. IInv /\ PayloadInv => Replayable
  <2> SUFFICES ASSUME IInv, PayloadInv, acked # {}, powerLoss = 0,
                      tail \notin {"broken", "split"},
                      \A i \in 1 .. Len(Parsed) : Parsed[i].text # "separator"
               PROVE  Loadable
    BY DEF Replayable
  <2>0. TypeOK /\ ChainInv /\ TailInv BY DEF IInv
  <2>1. Len(lines) \in Nat /\ Len(lines) > 0
    <3>1. synced \in 0 .. Len(lines) /\ 1 .. synced # {}
      BY DEF IInv, AckInv, AckedKept
    <3>2. Len(lines) \in Nat BY <2>0 DEF TypeOK
    <3> QED BY <3>1, <3>2
  <2>2. exists BY <2>1 DEF IInv, ChainInv
  <2>3. /\ Len(Parsed) = Len(lines) + (IF tail = "whole" THEN 1 ELSE 0)
        /\ \A i \in 1 .. Len(lines) : Parsed[i] = lines[i]
        /\ tail = "whole" => Parsed[Len(lines) + 1] = tailRecord
    BY <2>0 DEF Parsed, TypeOK, TailInv, Extends
  <2>4. \A i \in 1 .. Len(Parsed) : Stored(Parsed[i])
    <3> SUFFICES ASSUME NEW i \in 1 .. Len(Parsed) PROVE Stored(Parsed[i]) OBVIOUS
    <3>1. CASE i \in 1 .. Len(lines) BY <2>3, <3>1 DEF PayloadInv
    <3>2. CASE i \notin 1 .. Len(lines)
      <4>1. tail = "whole" /\ i = Len(lines) + 1 BY <2>1, <2>3, <3>2
      <4> QED BY <2>3, <4>1 DEF PayloadInv
    <3> QED BY <3>1, <3>2
  <2>5. Len(Parsed) > 0 BY <2>1, <2>3
  <2>6. ValidChain(Parsed) BY <2>0, <2>5, ParsedIsChain
  <2>7. Legible BY DEF Legible
  <2> QED BY <2>2, <2>4, <2>5, <2>6, <2>7 DEF Loadable, Stored
<1> QED BY <1>1, <1>2, <1>3, Inductive, PTL DEF Spec

-----------------------------------------------------------------------------
\* What the file lock leaves of the bound to its owner.
BudgetAt(w) ==
  /\ pc[w] = "locked" => issued + Len(queue[w]) <= MaxRecords
  /\ pc[w] \in Writing => issued + Len(queue[w]) <= MaxRecords + 1

Budget == issued <= MaxRecords /\ \A w \in Writers : BudgetAt(w)

\* The two state functions of the refinement mapping: the log a reader sees, and the
\* positions at or before an acknowledged line.
UuidLog == [i \in 1 .. Len(lines) |-> lines[i].uuid]
Covered == {i \in 1 .. Len(lines) : \E j \in i .. Len(lines) : lines[j].uuid \in acked}

\* _append_buffered draws a uuid per queued payload and pops it once the line is synced, so
\* no step of any process spends more uuids than Acquire found room for.
LEMMA BudgetStep ==
  ASSUME IInv, Budget, [Next]_vars
  PROVE  Budget'
<1>0. TypeOK BY DEF IInv
<1>1. CASE PowerLoss
  <2>1. \A v \in Writers : pc'[v] = "closed" BY <1>1 DEF PowerLoss, Forget
  <2> QED BY <1>1, <2>1 DEF PowerLoss, Budget, BudgetAt, Writing
<1>2. ASSUME NEW w \in Writers, Process(w) PROVE Budget'
  <2> DEFINE Rest == \A v \in Writers \ {w} : pc'[v] = pc[v] /\ queue'[v] = queue[v]
  <2>0. \A v \in Writers \ {w} : pc[v] \in Holding => pc[w] \notin Holding /\ lock = v
    BY <1>0 DEF TypeOK, LockOwned
  <2>k. ASSUME Rest, issued' = issued, BudgetAt(w)' PROVE Budget'
    BY <2>k DEF Budget, BudgetAt
  <2>c. ASSUME pc'[w] \in {"closed", "loaded", "idle"} PROVE BudgetAt(w)'
    BY <2>c DEF BudgetAt, Writing
  <2>f. ASSUME Forget({w}) PROVE Rest /\ pc'[w] = "closed"
    BY <2>f DEF Forget
  <2>1. CASE Create(w)
    <3>1. Rest /\ pc'[w] = "idle" /\ issued' = issued
      BY <1>0, <2>1 DEF Create, TypeOK
    <3> QED BY <3>1, <2>k, <2>c
  <2>2. CASE OpenLoad(w)
    <3>1. Rest /\ pc'[w] = "loaded" /\ issued' = issued
      BY <1>0, <2>2 DEF OpenLoad, TypeOK
    <3> QED BY <3>1, <2>k, <2>c
  <2>3. CASE OpenHead(w)
    <3>1. Rest /\ pc'[w] \in {"idle", "closed"} /\ issued' = issued
      BY <1>0, <2>3, <2>f DEF OpenHead, TypeOK
    <3> QED BY <3>1, <2>k, <2>c
  <2>4. CASE Buffer(w)
    <3>1. Rest /\ pc'[w] = "idle" /\ issued' = issued
      BY <1>0, <2>4 DEF Buffer, TypeOK
    <3> QED BY <3>1, <2>k, <2>c
  <2>5. CASE Acquire(w)
    <3>1. Rest /\ pc'[w] = "locked" /\ issued' = issued
      BY <1>0, <2>5 DEF Acquire, TypeOK
    <3>2. issued + Len(queue'[w]) <= MaxRecords BY <2>5 DEF Acquire
    <3> QED BY <3>1, <3>2, <2>k DEF BudgetAt, Writing
  <2>6. CASE BuildRecord(w)
    <3>1. /\ Rest /\ pc[w] = "locked" /\ pc'[w] \in Writing /\ issued' = issued + 1
          /\ queue'[w] = queue[w] /\ queue[w] # <<>> /\ queue[w] \in Seq(Payload)
      BY <1>0, <2>6 DEF BuildRecord, TypeOK, Writing
    <3>2. issued + Len(queue[w]) <= MaxRecords /\ Len(queue[w]) \in Nat /\ Len(queue[w]) >= 1
          /\ issued \in Nat
      BY <1>0, <3>1, EmptySeq DEF Budget, BudgetAt, TypeOK
    <3>3. \A v \in Writers \ {w} : pc'[v] \notin Holding
      BY <2>0, <3>1 DEF Holding
    <3>4. BudgetAt(w)'
      <4>1. issued' + Len(queue'[w]) <= MaxRecords + 1
        <5>1. Len(queue'[w]) = Len(queue[w]) /\ issued' = issued + 1 BY <3>1
        <5>2. \A a, b, m \in Nat : a + b <= m => (a + 1) + b <= m + 1 OBVIOUS
        <5>3. (issued + 1) + Len(queue[w]) <= MaxRecords + 1 BY <3>2, <5>2, BoundAssumption
        <5> QED BY <5>1, <5>3
      <4>2. pc'[w] # "locked" BY <3>1 DEF Writing
      <4> QED BY <4>1, <4>2 DEF BudgetAt
    <3>5. \A v \in Writers \ {w} : BudgetAt(v)' BY <3>3 DEF BudgetAt, Writing, Holding
    <3> QED BY <3>1, <3>2, <3>4, <3>5 DEF Budget
  <2>7. CASE RefuseHead(w)
    <3>1. Rest /\ pc'[w] = "idle" /\ issued' = issued
      BY <1>0, <2>7 DEF RefuseHead, Release, TypeOK
    <3> QED BY <3>1, <2>k, <2>c
  <2>8. CASE WriteArtifact(w)
    <3>1. Rest /\ pc[w] = "artifact" /\ pc'[w] = "write" /\ issued' = issued /\ queue' = queue
      BY <1>0, <2>8 DEF WriteArtifact, TypeOK
    <3> QED BY <3>1, <2>k DEF Budget, BudgetAt, Writing
  <2>9. CASE WriteLine(w)
    <3>1. Rest /\ pc[w] = "write" /\ pc'[w] = "sync" /\ issued' = issued /\ queue' = queue
      BY <1>0, <2>9 DEF WriteLine, TypeOK
    <3> QED BY <3>1, <2>k DEF Budget, BudgetAt, Writing
  <2>10. CASE TearLine(w)
    <3>1. Rest /\ pc'[w] \in {"idle", "closed"} /\ issued' = issued
      <4>1. CASE Release(w) BY <1>0, <2>10, <4>1 DEF TearLine, Release, TypeOK
      <4>2. CASE Forget({w}) BY <2>10, <4>2, <2>f DEF TearLine
      <4> QED BY <2>10, <4>1, <4>2 DEF TearLine
    <3> QED BY <3>1, <2>k, <2>c
  <2>11. CASE FailIO(w)
    <3>1. Rest /\ pc'[w] = "idle" /\ issued' = issued
      BY <1>0, <2>11 DEF FailIO, Release, TypeOK
    <3> QED BY <3>1, <2>k, <2>c
  <2>12. CASE Acknowledge(w)
    <3>1. /\ Rest /\ pc[w] = "sync" /\ issued' = issued /\ pc'[w] \in {"locked", "idle"}
          /\ queue'[w] = Tail(queue[w]) /\ queue[w] \in Seq(Payload)
      BY <1>0, <2>12 DEF Acknowledge, TypeOK
    <3>2. queue[w] # <<>>
      BY <3>1 DEF IInv, WriterInv, ObjectAt, Holding
    <3>3. Len(Tail(queue[w])) = Len(queue[w]) - 1 /\ Len(queue[w]) \in Nat
      BY <3>1, <3>2, HeadTailProperties
    <3>4. BudgetAt(w)'
      BY <1>0, <3>1, <3>3 DEF Budget, BudgetAt, Writing, TypeOK
    <3> QED BY <3>1, <3>4, <2>k
  <2>13. CASE Crash(w)
    <3>1. Rest /\ pc'[w] = "closed" /\ issued' = issued
      BY <2>13, <2>f DEF Crash
    <3> QED BY <3>1, <2>k, <2>c
  <2> QED BY <1>2, <2>1, <2>2, <2>3, <2>4, <2>5, <2>6, <2>7, <2>8, <2>9, <2>10, <2>11,
             <2>12, <2>13 DEF Process
<1>3. CASE UNCHANGED vars
  BY <1>3 DEF vars, procVars, Budget, BudgetAt
<1> QED BY <1>1, <1>2, <1>3 DEF Next

\* What fsync has confirmed: the covered prefix has at most synced entries; they are all within the file.
LEMMA CoveredBounds ==
  ASSUME IInv
  PROVE  /\ IsFiniteSet(Covered)
         /\ Cardinality(Covered) \in 0 .. synced
         /\ synced \in 0 .. Len(lines) /\ Len(lines) \in Nat
         /\ Covered \subseteq 1 .. synced
<1>0. /\ Len(lines) \in Nat /\ synced \in 0 .. Len(lines)
      /\ acked \subseteq {lines[i].uuid : i \in 1 .. synced}
      /\ \A i, j \in 1 .. Len(lines) : lines[i].uuid = lines[j].uuid => i = j
  BY DEF IInv, TypeOK, AckInv, AckedKept, ChainInv
<1>1. Covered \subseteq 1 .. synced
  <2> SUFFICES ASSUME NEW i \in 1 .. Len(lines), NEW j \in i .. Len(lines),
                      lines[j].uuid \in acked
               PROVE  i \in 1 .. synced
    BY DEF Covered
  <2>1. PICK k \in 1 .. synced : lines[j].uuid = lines[k].uuid BY <1>0
  <2>2. j \in 1 .. Len(lines) /\ k \in 1 .. Len(lines) BY <1>0
  <2>3. j = k BY <1>0, <2>1, <2>2
  <2> QED BY <1>0, <2>3
<1>2. IsFiniteSet(1 .. synced) /\ Cardinality(1 .. synced) = synced
  BY <1>0, FS_Interval
<1>3. IsFiniteSet(Covered) /\ Cardinality(Covered) <= synced
  BY <1>1, <1>2, FS_Subset
<1>4. Cardinality(Covered) \in Nat BY <1>3, FS_CardinalityType
<1> QED BY <1>0, <1>1, <1>3, <1>4

\* The uuids of a sequence of records are a sequence as long.
UuidsOf(ls) == [i \in 1 .. Len(ls) |-> ls[i].uuid]

LEMMA UuidsSeq ==
  ASSUME NEW ls \in Seq(Record)
  PROVE  /\ UuidsOf(ls) \in Seq(Nat) /\ Len(UuidsOf(ls)) = Len(ls)
         /\ \A i \in 1 .. Len(ls) : UuidsOf(ls)[i] = ls[i].uuid
<1>1. Len(ls) \in Nat /\ \A i \in 1 .. Len(ls) : ls[i] \in Record
  BY ElementOfSeq
<1>2. \A i \in 1 .. Len(ls) : ls[i].uuid \in Nat BY <1>1 DEF Record
<1>3. UuidsOf(ls) \in [1 .. Len(ls) -> Nat] BY <1>1, <1>2 DEF UuidsOf
<1> QED BY <1>1, <1>3 DEF UuidsOf

\* So is the log that readers see, before and after a step.
LEMMA UuidLogIsSeq ==
  ASSUME lines \in Seq(Record)
  PROVE  UuidLog \in Seq(Nat) /\ Len(UuidLog) = Len(lines)
         /\ \A i \in 1 .. Len(lines) : UuidLog[i] = lines[i].uuid
BY UuidsSeq DEF UuidLog, UuidsOf

\* The same for the log after a step.
LEMMA UuidLogIsSeqNext ==
  ASSUME lines' \in Seq(Record)
  PROVE  UuidLog' \in Seq(Nat) /\ Len(UuidLog') = Len(lines')
         /\ \A i \in 1 .. Len(lines') : UuidLog'[i] = lines'[i].uuid
BY UuidsSeq DEF UuidLog, UuidsOf

\* A step that leaves the lines and the acknowledgements alone is a stutter of the log.
LEMMA LogStutters ==
  ASSUME UNCHANGED <<lines, acked>>
  PROVE  UuidLog' = UuidLog /\ Covered' = Covered
BY DEF UuidLog, Covered

\* The write of one line adds one fresh uuid to the log and confirms nothing.
LEMMA WriteLineAdds ==
  ASSUME IInv, IInv', Budget, NEW w \in Writers, WriteLine(w)
  PROVE  /\ \E entry \in (1 .. MaxRecords) \ {UuidLog[i] : i \in 1 .. Len(UuidLog)} :
              UuidLog' = Append(UuidLog, entry)
         /\ Covered' = Covered
<1> DEFINE r == current[w]
<1>a. TypeOK BY DEF IInv
<1>0. Len(lines) \in Nat /\ lines \in Seq(Record) /\ synced \in Nat /\ issued \in Nat
  BY <1>a DEF TypeOK
<1>1. Extends(r)
  BY DEF IInv, WriterInv, PendingAt, WriteLine
<1>2. /\ lines' = Append(lines, r) /\ acked' = acked
      /\ Len(lines') = Len(lines) + 1 /\ lines'[Len(lines) + 1] = r
      /\ \A i \in 1 .. Len(lines) : lines'[i] = lines[i]
  BY <1>0, <1>1 DEF WriteLine, Extends
<1>3. r.uuid \in 1 .. MaxRecords /\ \A i \in 1 .. Len(lines) : lines[i].uuid # r.uuid
  BY <1>0, <1>1 DEF Extends, Budget
<1>4. r.uuid \notin acked
  <2>1. \A i \in 1 .. synced : i \in 1 .. Len(lines) BY <1>0 DEF IInv, AckInv
  <2> QED BY <1>3, <2>1 DEF IInv, AckInv, AckedKept
<1>5. Covered' = Covered
  <2>1. Covered' = {i \in 1 .. Len(lines) + 1 :
                      \E j \in i .. Len(lines) + 1 : lines'[j].uuid \in acked}
    BY <1>2 DEF Covered
  <2>2. \A i \in 1 .. Len(lines) + 1 :
          (\E j \in i .. Len(lines) + 1 : lines'[j].uuid \in acked)
          <=> i \in 1 .. Len(lines) /\ \E j \in i .. Len(lines) : lines[j].uuid \in acked
    <3> SUFFICES ASSUME NEW i \in 1 .. Len(lines) + 1, NEW j \in i .. Len(lines) + 1
                 PROVE  lines'[j].uuid \in acked
                        <=> j \in i .. Len(lines) /\ lines[j].uuid \in acked
      BY <1>0, <1>2, <1>4
    <3>1. CASE j = Len(lines) + 1 BY <1>0, <1>2, <1>4, <3>1
    <3>2. CASE j # Len(lines) + 1
      <4>1. j \in i .. Len(lines) /\ j \in 1 .. Len(lines) BY <1>0, <3>2
      <4> QED BY <1>2, <4>1
    <3> QED BY <3>1, <3>2
  <2> QED BY <2>1, <2>2 DEF Covered
<1>6. UuidLog' = Append(UuidLog, r.uuid)
  <2>1. UuidLog \in Seq(Nat) /\ Len(UuidLog) = Len(lines)
        /\ \A i \in 1 .. Len(lines) : UuidLog[i] = lines[i].uuid
    BY <1>0, UuidLogIsSeq
  <2>2. /\ UuidLog' \in Seq(Nat) /\ Len(UuidLog') = Len(lines) + 1
        /\ \A i \in 1 .. Len(lines) + 1 : UuidLog'[i] = lines'[i].uuid
    <3>1. lines' \in Seq(Record) BY DEF IInv, TypeOK
    <3> QED BY <1>2, <3>1, UuidLogIsSeqNext
  <2>3. r.uuid \in Nat BY <1>3
  <2>4. /\ Append(UuidLog, r.uuid) \in Seq(Nat)
        /\ Len(Append(UuidLog, r.uuid)) = Len(lines) + 1
        /\ \A i \in 1 .. Len(lines) + 1 :
             Append(UuidLog, r.uuid)[i] = IF i = Len(lines) + 1 THEN r.uuid ELSE lines[i].uuid
    BY <1>0, <2>1, <2>3
  <2>5. \A i \in 1 .. Len(lines) + 1 : UuidLog'[i] = Append(UuidLog, r.uuid)[i]
    <3> SUFFICES ASSUME NEW i \in 1 .. Len(lines) + 1
                 PROVE  UuidLog'[i] = Append(UuidLog, r.uuid)[i]
      OBVIOUS
    <3>1. CASE i = Len(lines) + 1
      BY <1>0, <1>2, <2>2, <2>4, <3>1
    <3>2. CASE i # Len(lines) + 1
      <4>1. i \in 1 .. Len(lines) BY <1>0, <3>2
      <4> QED BY <1>2, <2>2, <2>4, <3>2, <4>1
    <3> QED BY <3>1, <3>2
  <2> HIDE DEF r
  <2> QED BY <2>2, <2>4, <2>5, SeqEqual
<1>7. r.uuid \notin {UuidLog[i] : i \in 1 .. Len(UuidLog)}
  BY <1>0, <1>3, UuidLogIsSeq
<1> QED BY <1>3, <1>5, <1>6, <1>7

\* The fsync that lets an append return confirms every line written so far.
LEMMA AcknowledgeConfirms ==
  ASSUME IInv, NEW w \in Writers, Acknowledge(w)
  PROVE  UuidLog' = UuidLog /\ Cardinality(Covered') = Len(lines)
<1>0. TypeOK /\ Len(lines) \in Nat BY DEF IInv, TypeOK
<1>1. /\ lines' = lines /\ acked' = acked \cup {current[w].uuid}
      /\ Len(lines) > 0 /\ current[w] = lines[Len(lines)]
  BY DEF IInv, WriterInv, SyncAt, Acknowledge
<1>2. Covered' = 1 .. Len(lines)
  <2>1. \A i \in 1 .. Len(lines) : Len(lines) \in i .. Len(lines) BY <1>0
  <2>2. lines[Len(lines)].uuid \in acked' BY <1>1
  <2> QED BY <1>1, <2>1, <2>2 DEF Covered
<1>3. Cardinality(1 .. Len(lines)) = Len(lines) BY <1>0, FS_Interval
<1> QED BY <1>1, <1>2, <1>3 DEF UuidLog

\* A power failure cuts the log no shorter than its confirmed prefix.
LEMMA PowerLossCuts ==
  ASSUME IInv, IInv', PowerLoss
  PROVE  /\ \E n \in Cardinality(Covered) .. Len(UuidLog) :
              UuidLog' = SubSeq(UuidLog, 1, n)
         /\ Covered' = Covered
<1>a. TypeOK BY DEF IInv
<1>0. Len(lines) \in Nat /\ lines \in Seq(Record) /\ synced \in Nat /\ issued \in Nat
  BY <1>a DEF TypeOK
<1>1. PICK n \in synced .. Len(lines) : lines' = SubSeq(lines, 1, n)
  BY DEF PowerLoss
<1>2. /\ n \in 0 .. Len(lines) /\ Len(lines') = n /\ acked' = acked
      /\ \A i \in 1 .. n : lines'[i] = lines[i]
  BY <1>0, <1>1 DEF IInv, AckInv, PowerLoss
<1>3. /\ Cardinality(Covered) \in 0 .. synced /\ synced \in Nat
      /\ Covered \subseteq 1 .. synced
  BY <1>0, CoveredBounds
<1>4. UuidLog' = SubSeq(UuidLog, 1, n)
  <2>1. UuidLog \in Seq(Nat) /\ Len(UuidLog) = Len(lines)
        /\ \A i \in 1 .. Len(lines) : UuidLog[i] = lines[i].uuid
    BY <1>0, UuidLogIsSeq
  <2>2. /\ UuidLog' \in Seq(Nat) /\ Len(UuidLog') = n
        /\ \A i \in 1 .. n : UuidLog'[i] = lines'[i].uuid
    <3>1. lines' \in Seq(Record) BY DEF IInv, TypeOK
    <3> QED BY <1>2, <3>1, UuidLogIsSeqNext
  <2>3. /\ SubSeq(UuidLog, 1, n) \in Seq(Nat) /\ Len(SubSeq(UuidLog, 1, n)) = n
        /\ \A i \in 1 .. n : SubSeq(UuidLog, 1, n)[i] = UuidLog[i]
    BY <1>2, <2>1
  <2>4. \A i \in 1 .. n : UuidLog'[i] = SubSeq(UuidLog, 1, n)[i]
    <3>1. \A i \in 1 .. n : i \in 1 .. Len(lines) BY <1>0, <1>2
    <3> QED BY <1>2, <2>1, <2>2, <2>3, <3>1
  <2> QED BY <2>2, <2>3, <2>4, SeqEqual
<1>5. Covered' = Covered
  <2>1. \A i \in 1 .. Len(lines) : \A j \in i .. Len(lines) :
          lines[j].uuid \in acked => j \in 1 .. n
    <3> SUFFICES ASSUME NEW i \in 1 .. Len(lines), NEW j \in i .. Len(lines),
                        lines[j].uuid \in acked
                 PROVE  j \in 1 .. n
      OBVIOUS
    <3>1. j \in 1 .. Len(lines) /\ j \in j .. Len(lines) BY <1>0
    <3>2. j \in Covered BY <3>1 DEF Covered
    <3> QED BY <1>1, <1>3, <3>2
  <2>2. Covered' = {i \in 1 .. n : \E j \in i .. n : lines'[j].uuid \in acked}
    BY <1>2 DEF Covered
  <2>3. \A i \in 1 .. n : \A j \in i .. n : lines'[j].uuid = lines[j].uuid
    BY <1>2
  <2>4. \A i \in 1 .. Len(lines) : \A j \in i .. Len(lines) :
          j \in 1 .. n => i \in 1 .. n /\ j \in i .. n
    BY <1>0, <1>2
  <2>5. \A i \in 1 .. n : i \in 1 .. Len(lines) /\ \A j \in i .. n : j \in i .. Len(lines)
    BY <1>0, <1>2
  <2> QED BY <2>1, <2>2, <2>3, <2>4, <2>5 DEF Covered
<1>6. Len(UuidLog) = Len(lines) /\ n \in Cardinality(Covered) .. Len(lines)
  BY <1>0, <1>1, <1>2, <1>3, UuidLogIsSeq
<1> QED BY <1>4, <1>5, <1>6

\* The journal file, whatever its writers, crashes and power failures do, is an append-only
\* log of distinct records whose confirmed prefix only grows: every step of SessionJournal is
\* an Add, a Confirm, a Lose or a stutter of DurableLog.
THEOREM Implements == Spec => ImplementsLog
<1> DEFINE Mid == IInv /\ Budget
<1>1. Init => Log!Init
  <2>1. Cardinality({}) = 0 BY FS_EmptySet
  <2> SUFFICES ASSUME Init PROVE Log!Init OBVIOUS
  <2>2. Covered = {} BY DEF Init, Covered
  <2>3. UuidLog = <<>> BY DEF Init, UuidLog
  <2> QED BY <2>1, <2>2, <2>3 DEF Log!Init, UuidLog, Covered
<1>2. Init => Budget
  BY DEF Init, Budget, BudgetAt, Writing
<1>3. Mid /\ IInv' /\ [Next]_vars => Budget'
  BY BudgetStep
<1>4. Mid /\ IInv' /\ [Next]_vars =>
        [Log!Next]_<<[i \in 1 .. Len(lines) |-> lines[i].uuid],
          Cardinality({i \in 1 .. Len(lines) :
            \E j \in i .. Len(lines) : lines[j].uuid \in acked})>>
  <2> SUFFICES ASSUME IInv, Budget, IInv', [Next]_vars
               PROVE  [Log!Next]_<<UuidLog, Cardinality(Covered)>>
    BY DEF UuidLog, Covered
  <2>1. CASE PowerLoss
    BY <2>1, PowerLossCuts DEF Log!Next, Log!Lose, UuidLog, Covered
  <2>2. ASSUME NEW w \in Writers, WriteLine(w)
        PROVE  [Log!Next]_<<UuidLog, Cardinality(Covered)>>
    BY <2>2, WriteLineAdds DEF Log!Next, Log!Add, UuidLog, Covered
  <2>3. ASSUME NEW w \in Writers, Acknowledge(w)
        PROVE  [Log!Next]_<<UuidLog, Cardinality(Covered)>>
    <3>1. UuidLog' = UuidLog /\ Cardinality(Covered') = Len(lines)
      BY <2>3, AcknowledgeConfirms
    <3>2. Cardinality(Covered) \in 0 .. Len(lines) /\ Len(UuidLog) = Len(lines)
          /\ Len(lines) \in Nat
      <4>1. lines \in Seq(Record) BY DEF IInv, TypeOK
      <4> QED BY <4>1, UuidLogIsSeq, CoveredBounds
    <3>3. CASE Cardinality(Covered) < Len(lines)
      BY <3>1, <3>2, <3>3 DEF Log!Next, Log!Confirm, UuidLog, Covered
    <3>4. CASE Cardinality(Covered) = Len(lines)
      BY <3>1, <3>4
    <3> QED BY <3>2, <3>3, <3>4
  <2>4. CASE UNCHANGED <<lines, acked>>
    BY <2>4, LogStutters
  <2>5. ASSUME NEW w \in Writers, Process(w), ~WriteLine(w), ~Acknowledge(w)
        PROVE  UNCHANGED <<lines, acked>>
    BY <2>5 DEF Process, Create, OpenLoad, OpenHead, Buffer, Acquire, BuildRecord,
                RefuseHead, WriteArtifact, TearLine, FailIO, Crash, fileVars
  <2>6. CASE UNCHANGED vars
    BY <2>4, <2>6 DEF vars, fileVars
  <2> QED BY <2>1, <2>2, <2>3, <2>4, <2>5, <2>6 DEF Next
<1> QED BY <1>1, <1>2, <1>3, <1>4, Inductive, PTL DEF Spec, ImplementsLog, Log!Spec

=============================================================================
