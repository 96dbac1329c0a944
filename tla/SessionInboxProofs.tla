------------------------- MODULE SessionInboxProofs -------------------------
(***************************************************************************)
(* InputsKept: every input that was taken is pending or settled, settled   *)
(* once and in its turn, for any number of inputs, turns and faults.       *)
(*                                                                         *)
(* The property is not inductive. PendingSound adds that what the journal  *)
(* holds as pending was queued once, under a number that was given out,    *)
(* and was not settled: so it may be settled now. MemorySound adds that    *)
(* the queue in memory is the pending one as long as the journal object    *)
(* takes appends, that the turn that starts holds the head of the queue,   *)
(* and that a cancelled turn whose end is due left no steering.            *)
(*                                                                         *)
(* What is pending is what a replay of the whole journal leaves, and       *)
(* settling filters a list: both are recursive functions.  Each exists     *)
(* (FoldExists), there is one only (OneFunction), and so it does at each   *)
(* position what its definition says (PendingStep, WithoutIs).             *)
(***************************************************************************)
EXTENDS SessionInbox, FoldLemmas, SequenceTheorems, FiniteSetTheorems, TLAPS

(* SessionInbox: the invariant. *)
Kinds == {"input_queued", "input_deferred", "input_discarded", "user_message", "turn_cancelled"}
Record == [kind : Kinds, ns : SUBSET Nat, item : Item \union {NoItem}]
Queues(r) == r.kind = "input_queued" => r.item \in Item
Distinct(list) == \A a, b \in DOMAIN list : list[a].n = list[b].n => a = b

JournalTypes == journal \in Seq(Record) /\ \A i \in DOMAIN journal : Queues(journal[i])
MemoryTypes ==
  /\ items \in Seq(Item)
  /\ phase \in Phases /\ input \in Nat /\ inputs \in 0 .. MaxInputs
  /\ fenced \in BOOLEAN /\ failedAppend \in BOOLEAN /\ acknowledged \subseteq Nat
InboxTypes == JournalTypes /\ MemoryTypes

\* What the journal holds as pending was queued, each once, and was not settled.
PendingSound ==
  /\ Pending(journal) \in Seq(Item) /\ Distinct(Pending(journal))
  /\ \A n \in Numbers(Pending(journal)) : n <= inputs /\ Settling(n) = {}
  /\ \A i \in DOMAIN journal : \A n \in journal[i].ns : n <= inputs

\* The memory agrees with the journal as long as the journal object takes appends.
MemorySound ==
  /\ phase # "down" /\ ~fenced => items = Pending(journal)
  /\ fenced => failedAppend
  /\ phase = "starting" /\ input # 0 => items # <<>> /\ items[1].n = input
  /\ phase = "cancelled" => Steering(items) = {}

OnceSettled == \A n \in Inputs : \A a, b \in Settling(n) : a = b

\* What the journal says: everything of the invariant that speaks of it alone.
JournalSound ==
  /\ PendingSound /\ OnceSettled /\ NothingLost /\ OnlySteeringOvertakes /\ CancelDefers

InboxInv == InboxTypes /\ JournalSound /\ MemorySound

-----------------------------------------------------------------------------
(* The operators of the inbox. *)

\* What is left of a list: the function Without is defined by.
Keeps(list, ns, kept) ==
  kept = [i \in 0 .. Len(list) |->
            IF i = 0 THEN <<>>
            ELSE IF list[i].n \in ns THEN kept[i - 1] ELSE Append(kept[i - 1], list[i])]

\* The function is there, and its values are lists of inputs.
LEMMA KeepsExists ==
  ASSUME NEW list \in Seq(Item), NEW ns
  PROVE  \E kept \in [0 .. Len(list) -> Seq(Item)] : Keeps(list, ns, kept) /\ Without(list, ns) = kept[Len(list)]
<1> DEFINE g == [x \in Seq(Item) \X Item |-> IF x[2].n \in ns THEN x[1] ELSE Append(x[1], x[2])]
<1>1. g \in [Seq(Item) \X Item -> Seq(Item)]
  OBVIOUS
<1>2. <<>> \in Seq(Item) /\ Len(list) \in Nat
  OBVIOUS
<1>3. PICK f \in [0 .. Len(list) -> Seq(Item)] : IsFold(f, <<>>, g, list)
  BY <1>1, <1>2, FoldExists
<1>4. ASSUME NEW i \in 0 .. Len(list)
      PROVE  f[i] = IF i = 0 THEN <<>>
                    ELSE IF list[i].n \in ns THEN f[i - 1] ELSE Append(f[i - 1], list[i])
  <2>1. CASE i = 0
    BY <1>3, <2>1 DEF IsFold
  <2>2. CASE i # 0
    <3>1. i \in 1 .. Len(list) /\ i - 1 \in 0 .. Len(list)
      BY <2>2, <1>2
    <3>2. f[i - 1] \in Seq(Item) /\ list[i] \in Item
      BY <3>1, <1>3
    <3>3. f[i] = g[<<f[i - 1], list[i]>>]
      BY <3>1, <1>3 DEF IsFold
    <3> QED
      BY <2>2, <3>2, <3>3
  <2> QED
    BY <2>1, <2>2
<1>5. Keeps(list, ns, f)
  BY <1>3, <1>4 DEF Keeps
<1>6. ASSUME NEW k, Keeps(list, ns, k) PROVE k = f
  <2>1. k = [i \in 0 .. Len(list) |-> k[i]] /\ f = [i \in 0 .. Len(list) |-> f[i]]
    BY <1>6, <1>3 DEF Keeps
  <2>2. k[0] = f[0]
    BY <1>2, <1>4, <1>6 DEF Keeps
  <2>3. ASSUME NEW i \in 1 .. Len(list), f[i - 1] = k[i - 1] PROVE f[i] = k[i]
    <3>1. i \in 0 .. Len(list) /\ i # 0
      BY <1>2
    <3> QED
      BY <1>4, <1>6, <2>3, <3>1 DEF Keeps
  <2> QED
    BY <1>2, <2>1, <2>2, <2>3, OneFunction
<1>7. f = CHOOSE k : Keeps(list, ns, k)
  BY <1>5, <1>6
<1>8. Without(list, ns) = f[Len(list)]
  BY <1>7 DEF Without, Keeps
<1> QED
  BY <1>5, <1>8

\* What is left of a list: the other inputs, each as often as it was there (consumed, discard).
LEMMA WithoutIs ==
  ASSUME NEW list \in Seq(Item), NEW ns
  PROVE  /\ Without(list, ns) \in Seq(Item)
         /\ Numbers(Without(list, ns)) = Numbers(list) \ ns
         /\ Distinct(list) => Distinct(Without(list, ns))
<1>1. PICK kept \in [0 .. Len(list) -> Seq(Item)] : Keeps(list, ns, kept) /\ Without(list, ns) = kept[Len(list)]
  BY KeepsExists
<1> DEFINE Upto(i) == {list[k].n : k \in 1 .. i}
           Fits(i) == /\ Numbers(kept[i]) = Upto(i) \ ns
                      /\ Distinct(list) => Distinct(kept[i])
           Bad == {i \in 0 .. Len(list) : ~Fits(i)}
<1>2. Bad \in SUBSET Nat /\ Len(list) \in Nat /\ DOMAIN list = 1 .. Len(list)
  OBVIOUS
<1>3. ASSUME Bad # {} PROVE FALSE
  <2>1. PICK m \in Bad : \A i \in Bad : m <= i
    BY <1>2, <1>3, LeastOf
  <2>2. CASE m = 0
    <3>1. kept[0] = <<>>
      BY <1>1, <1>2 DEF Keeps
    <3>2. Fits(0)
      BY <3>1 DEF Numbers, Distinct
    <3> QED
      BY <2>1, <2>2, <3>2
  <2>3. CASE m # 0
    <3>1. m \in 1 .. Len(list) /\ m - 1 \in 0 .. Len(list) /\ ~(m <= m - 1) /\ m \in Nat
      BY <2>1, <2>3, <1>2
    <3>2. Fits(m - 1)
      BY <2>1, <3>1
    <3>3. PICK k \in Seq(Item) : k = kept[m - 1]
      BY <1>1, <3>1
    <3>4. kept[m] = IF list[m].n \in ns THEN k ELSE Append(k, list[m])
      BY <1>1, <3>1, <3>3, <2>3 DEF Keeps
    <3>5. Upto(m) = Upto(m - 1) \union {list[m].n}
      <4>1. 1 .. m = (1 .. m - 1) \union {m}
        BY <3>1
      <4> QED
        BY <4>1
    <3>6. CASE list[m].n \in ns
      <4>1. kept[m] = kept[m - 1]
        BY <3>3, <3>4, <3>6
      <4>2. Upto(m) \ ns = Upto(m - 1) \ ns
        BY <3>5, <3>6
      <4>3. Fits(m)
        BY <3>2, <4>1, <4>2
      <4> QED
        BY <2>1, <4>3
    <3>7. CASE list[m].n \notin ns
      <4>1. kept[m] = Append(k, list[m]) /\ list[m] \in Item
        BY <3>1, <3>4, <3>7
      <4>2. /\ DOMAIN kept[m] = 1 .. Len(k) + 1 /\ DOMAIN k = 1 .. Len(k) /\ Len(k) \in Nat
            /\ kept[m][Len(k) + 1] = list[m] /\ \A i \in 1 .. Len(k) : kept[m][i] = k[i]
        BY <4>1
      <4>3. Numbers(kept[m]) = Numbers(k) \union {list[m].n}
        <5>1. 1 .. Len(k) + 1 = (1 .. Len(k)) \union {Len(k) + 1}
          BY <4>2
        <5> QED
          BY <4>2, <5>1 DEF Numbers
      <4>4. Numbers(kept[m]) = Upto(m) \ ns
        BY <4>3, <3>2, <3>3, <3>5, <3>7
      <4>5. ASSUME Distinct(list) PROVE Distinct(kept[m])
        <5>1. list[m].n \notin Upto(m - 1)
          <6> SUFFICES ASSUME NEW i \in 1 .. m - 1, list[i].n = list[m].n PROVE FALSE
            OBVIOUS
          <6>1. i \in DOMAIN list /\ m \in DOMAIN list /\ i # m
            BY <3>1, <1>2
          <6> QED
            BY <6>1, <4>5 DEF Distinct
        <5>2. \A i \in 1 .. Len(k) : k[i].n # list[m].n
          BY <5>1, <3>2, <3>3, <4>2 DEF Numbers
        <5>3. \A a, b \in 1 .. Len(k) : k[a].n = k[b].n => a = b
          BY <4>5, <3>2, <3>3, <4>2 DEF Distinct
        <5>4. \A a \in 1 .. Len(k) + 1 : a \in 1 .. Len(k) \/ a = Len(k) + 1
          BY <4>2
        <5> QED
          BY <4>2, <5>2, <5>3, <5>4 DEF Distinct
      <4>6. Fits(m)
        BY <4>4, <4>5
      <4> QED
        BY <2>1, <4>6
    <3> QED
      BY <3>6, <3>7
  <2> QED
    BY <2>2, <2>3
<1>4. Fits(Len(list))
  <2>1. Len(list) \in 0 .. Len(list)
    BY <1>2
  <2> HIDE DEF Fits, Bad
  <2>2. Len(list) \notin Bad
    BY <1>3
  <2> QED
    BY <2>1, <2>2 DEF Bad
<1>5. Upto(Len(list)) = Numbers(list)
  BY <1>2 DEF Numbers
<1> QED
  BY <1>1, <1>2, <1>4, <1>5

\* Steering that a cancelled turn left becomes a follow-up, and stays (defer_steering).
LEMMA DeferredIs ==
  ASSUME NEW list \in Seq(Item), NEW ns
  PROVE  /\ Deferred(list, ns) \in Seq(Item)
         /\ Numbers(Deferred(list, ns)) = Numbers(list)
         /\ Distinct(list) => Distinct(Deferred(list, ns))
         /\ (\A i \in DOMAIN list : list[i].mode = "steering" => list[i].n \in ns)
              => Steering(Deferred(list, ns)) = {}
<1> DEFINE d == Deferred(list, ns)
<1>1. Len(list) \in Nat /\ DOMAIN list = 1 .. Len(list) /\ \A i \in 1 .. Len(list) : list[i] \in Item
  OBVIOUS
<1>2. d = [i \in 1 .. Len(list) |-> IF list[i].n \in ns THEN [list[i] EXCEPT !.mode = "follow_up"] ELSE list[i]]
  BY <1>1 DEF Deferred
<1>3. \A i \in 1 .. Len(list) :
        /\ d[i] \in Item /\ d[i].n = list[i].n
        /\ list[i].n \in ns => d[i].mode = "follow_up"
        /\ list[i].n \notin ns => d[i].mode = list[i].mode
  BY <1>1, <1>2 DEF Item, Modes
<1>4. d \in Seq(Item) /\ DOMAIN d = 1 .. Len(list)
  BY <1>1, <1>2, <1>3
<1> HIDE DEF d
<1>5. Numbers(d) = Numbers(list) /\ (Distinct(list) => Distinct(d))
  BY <1>1, <1>3, <1>4 DEF Numbers, Distinct
<1>6. (\A i \in DOMAIN list : list[i].mode = "steering" => list[i].n \in ns) => Steering(d) = {}
  BY <1>1, <1>3, <1>4 DEF Steering
<1> QED
  BY <1>4, <1>5, <1>6 DEF d

-----------------------------------------------------------------------------
(* What the journal holds as pending. *)

Records == {r \in Record : Queues(r)}

\* One record replayed (_build_state).
LEMMA ReplayTyped ==
  ASSUME NEW list \in Seq(Item), NEW r \in Records
  PROVE  Replay(list, r) \in Seq(Item)
<1>1. CASE r.kind = "input_queued"
  <2>1. r.item \in Item
    BY <1>1 DEF Records, Queues
  <2> QED
    BY <1>1, <2>1 DEF Replay
<1>2. CASE r.kind \in {"input_discarded", "user_message"}
  <2>1. Replay(list, r) = Without(list, r.ns)
    BY <1>2 DEF Replay
  <2> QED
    BY <2>1, WithoutIs
<1>3. CASE r.kind = "input_deferred"
  <2>1. Replay(list, r) = Deferred(list, r.ns)
    BY <1>3 DEF Replay
  <2> QED
    BY <2>1, DeferredIs
<1>4. CASE r.kind = "turn_cancelled"
  BY <1>4 DEF Replay
<1> QED
  BY <1>1, <1>2, <1>3, <1>4 DEF Records, Record, Kinds

\* What is pending after the first i records: the function Pending is defined by.
Replays(j, after) ==
  after = [i \in 0 .. Len(j) |-> IF i = 0 THEN <<>> ELSE Replay(after[i - 1], j[i])]

\* The function is there, there is one only, and its values are lists of inputs.
LEMMA ReplaysExists ==
  ASSUME NEW j \in Seq(Records)
  PROVE  \E after \in [0 .. Len(j) -> Seq(Item)] :
           /\ Replays(j, after) /\ Pending(j) = after[Len(j)]
           /\ \A k : Replays(j, k) => k = after
<1> DEFINE g == [x \in Seq(Item) \X Records |-> Replay(x[1], x[2])]
<1>1. g \in [Seq(Item) \X Records -> Seq(Item)]
  BY ReplayTyped
<1>2. <<>> \in Seq(Item) /\ Len(j) \in Nat
  OBVIOUS
<1>3. PICK f \in [0 .. Len(j) -> Seq(Item)] : IsFold(f, <<>>, g, j)
  BY <1>1, <1>2, FoldExists
<1>4. ASSUME NEW i \in 0 .. Len(j)
      PROVE  f[i] = IF i = 0 THEN <<>> ELSE Replay(f[i - 1], j[i])
  <2>1. CASE i = 0
    BY <1>3, <2>1 DEF IsFold
  <2>2. CASE i # 0
    <3>1. i \in 1 .. Len(j) /\ i - 1 \in 0 .. Len(j)
      BY <2>2, <1>2
    <3>2. f[i - 1] \in Seq(Item) /\ j[i] \in Records
      BY <3>1, <1>3
    <3>3. f[i] = g[<<f[i - 1], j[i]>>]
      BY <3>1, <1>3 DEF IsFold
    <3> QED
      BY <2>2, <3>2, <3>3
  <2> QED
    BY <2>1, <2>2
<1>5. Replays(j, f)
  BY <1>3, <1>4 DEF Replays
<1>6. ASSUME NEW k, Replays(j, k) PROVE k = f
  <2>1. k = [i \in 0 .. Len(j) |-> k[i]] /\ f = [i \in 0 .. Len(j) |-> f[i]]
    BY <1>6, <1>3 DEF Replays
  <2>2. k[0] = f[0]
    BY <1>2, <1>4, <1>6 DEF Replays
  <2>3. ASSUME NEW i \in 1 .. Len(j), f[i - 1] = k[i - 1] PROVE f[i] = k[i]
    <3>1. i \in 0 .. Len(j) /\ i # 0
      BY <1>2
    <3> QED
      BY <1>4, <1>6, <2>3, <3>1 DEF Replays
  <2> QED
    BY <1>2, <2>1, <2>2, <2>3, OneFunction
<1>7. f = CHOOSE k : Replays(j, k)
  BY <1>5, <1>6
<1>8. Pending(j) = f[Len(j)]
  BY <1>7 DEF Pending, Replays
<1> QED
  BY <1>5, <1>6, <1>8

\* An empty journal holds nothing as pending; a further record is replayed upon what there was.
LEMMA PendingStep ==
  /\ Pending(<<>>) = <<>>
  /\ \A j \in Seq(Records) : /\ Pending(j) \in Seq(Item)
                             /\ \A r \in Records : Pending(Append(j, r)) = Replay(Pending(j), r)
<1>1. Pending(<<>>) = <<>>
  <2>1. <<>> \in Seq(Records) /\ Len(<<>>) = 0
    OBVIOUS
  <2>2. PICK after : Replays(<<>>, after) /\ Pending(<<>>) = after[Len(<<>>)]
    BY <2>1, ReplaysExists
  <2> QED
    BY <2>1, <2>2 DEF Replays
<1>2. ASSUME NEW j \in Seq(Records) PROVE Pending(j) \in Seq(Item)
  <2>1. PICK after \in [0 .. Len(j) -> Seq(Item)] : Pending(j) = after[Len(j)]
    BY ReplaysExists
  <2>2. Len(j) \in 0 .. Len(j)
    OBVIOUS
  <2> QED
    BY <2>1, <2>2
<1>3. ASSUME NEW j \in Seq(Records), NEW r \in Records
      PROVE  Pending(Append(j, r)) = Replay(Pending(j), r)
  <2>1. PICK before \in [0 .. Len(j) -> Seq(Item)] :
          /\ Pending(j) = before[Len(j)] /\ \A k : Replays(j, k) => k = before
    BY ReplaysExists
  <2>2. PICK n \in Nat, l \in Seq(Records) : n = Len(j) /\ l = Append(j, r)
    OBVIOUS
  <2>3. Len(l) = n + 1 /\ l[n + 1] = r /\ \A i \in 1 .. n : l[i] = j[i]
    BY <2>2
  <2>4. PICK after \in [0 .. Len(l) -> Seq(Item)] : Replays(l, after) /\ Pending(l) = after[Len(l)]
    BY ReplaysExists
  <2>5. \A i \in 0 .. n + 1 : after[i] = IF i = 0 THEN <<>> ELSE Replay(after[i - 1], l[i])
    BY <2>3, <2>4 DEF Replays
  <2> DEFINE k == [i \in 0 .. n |-> after[i]]
  <2>6. Replays(j, k)
    <3>1. ASSUME NEW i \in 0 .. n
          PROVE  k[i] = IF i = 0 THEN <<>> ELSE Replay(k[i - 1], j[i])
      <4>1. CASE i = 0
        BY <2>5, <4>1
      <4>2. CASE i # 0
        <5>1. i \in 1 .. n /\ i - 1 \in 0 .. n /\ i \in 0 .. n + 1
          BY <4>2
        <5>2. k[i - 1] = after[i - 1] /\ k[i] = after[i] /\ l[i] = j[i]
          BY <5>1, <2>3
        <5> QED
          BY <5>1, <5>2, <2>5, <4>2
      <4> QED
        BY <4>1, <4>2
    <3> HIDE DEF k
    <3>2. k = [i \in 0 .. n |-> k[i]]
      BY DEF k
    <3> QED
      BY <3>1, <3>2, <2>2 DEF Replays
  <2>7. after[n] = Pending(j)
    BY <2>1, <2>2, <2>6
  <2>8. after[n + 1] = Replay(after[n], r)
    BY <2>3, <2>5
  <2> QED
    BY <2>2, <2>3, <2>4, <2>7, <2>8
<1> QED
  BY <1>1, <1>2, <1>3

-----------------------------------------------------------------------------
(* SessionInbox: the proof. *)

\* The journal is made of records that can be replayed.
LEMMA JournalRecords ==
  ASSUME InboxTypes
  PROVE  journal \in Seq(Records)
<1>1. journal \in Seq(Record) /\ \A i \in DOMAIN journal : Queues(journal[i])
  BY DEF InboxTypes, JournalTypes
<1>2. Len(journal) \in Nat /\ DOMAIN journal = 1 .. Len(journal) /\ journal = [i \in 1 .. Len(journal) |-> journal[i]]
  BY <1>1
<1>3. \A i \in 1 .. Len(journal) : journal[i] \in Records
  BY <1>1, <1>2 DEF Records
<1> QED
  BY <1>2, <1>3

\* The prefix of a longer journal is that of the shorter one.
LEMMA PrefixStays ==
  ASSUME NEW r, NEW n, n = Len(journal), journal \in Seq(Records), journal' = Append(journal, r)
  PROVE  /\ DOMAIN journal' = 1 .. n + 1 /\ DOMAIN journal = 1 .. n /\ n \in Nat
         /\ journal'[n + 1] = r /\ \A i \in 1 .. n : journal'[i] = journal[i]
         /\ Prefix(n + 1)' = journal
         /\ \A i \in 1 .. n : Prefix(i)' = Prefix(i)
<1>1. /\ DOMAIN journal' = 1 .. n + 1 /\ DOMAIN journal = 1 .. n /\ n \in Nat
      /\ journal'[n + 1] = r /\ \A i \in 1 .. n : journal'[i] = journal[i]
      /\ Len(journal') = n + 1
  OBVIOUS
<1>2. Prefix(n + 1)' = journal
  <2>1. SubSeq(journal', 1, n) = [i \in 1 .. n |-> journal'[i]]
    BY <1>1
  <2>2. n + 1 - 1 = n
    BY <1>1
  <2>3. Prefix(n + 1)' = SubSeq(journal', 1, n)
    BY <2>2 DEF Prefix
  <2>4. journal = [i \in 1 .. n |-> journal[i]]
    BY <1>1
  <2> QED
    BY <1>1, <2>1, <2>3, <2>4
<1>3. ASSUME NEW i \in 1 .. n PROVE Prefix(i)' = Prefix(i)
  <2>1. i - 1 \in 0 .. n
    BY <1>1
  <2>2. SubSeq(journal', 1, i - 1) = [k \in 1 .. i - 1 |-> journal'[k]]
    BY <1>1, <2>1
  <2>3. SubSeq(journal, 1, i - 1) = [k \in 1 .. i - 1 |-> journal[k]]
    BY <1>1, <2>1
  <2>4. \A k \in 1 .. i - 1 : journal'[k] = journal[k]
    BY <1>1, <2>1
  <2> QED
    BY <2>2, <2>3, <2>4 DEF Prefix
<1> QED
  BY <1>1, <1>2, <1>3

\* A record may be appended that settles what is pending, in its turn, and queues what is new.
Admissible(r) ==
  /\ r \in Records
  /\ r.kind = "input_queued" => r.ns = {r.item.n} /\ inputs < r.item.n
  /\ r.kind # "input_queued" => \A n \in r.ns : n <= inputs
  /\ r.kind \in {"user_message", "input_discarded"} =>
       \A n \in r.ns \ {0} : n \in Numbers(Pending(journal))
  /\ r.kind = "user_message" =>
       \A a, b \in DOMAIN Pending(journal) : a < b /\ Pending(journal)[b].n \in r.ns =>
          Pending(journal)[a].mode = "follow_up" /\ Pending(journal)[b].mode = "steering"
  /\ r.kind = "turn_cancelled" => Steering(Pending(journal)) = {}

\* A record more: what is pending follows, and nothing that was settled is settled again.
LEMMA WriteSound ==
  ASSUME InboxTypes, JournalSound, NEW r, Admissible(r), journal' = Append(journal, r),
         inputs' \in Nat, inputs <= inputs', \A n \in r.ns : n <= inputs',
         \A n \in acknowledged' \ acknowledged : r.kind = "input_queued" /\ n = r.item.n
  PROVE  /\ JournalSound' /\ Pending(journal)' = Replay(Pending(journal), r)
         /\ journal' \in Seq(Record) /\ \A i \in DOMAIN journal' : Queues(journal'[i])
<1>1. journal \in Seq(Records) /\ r \in Records /\ inputs \in Nat
  BY JournalRecords DEF Admissible, InboxTypes, MemoryTypes
<1>2. PICK P \in Seq(Item), Q \in Seq(Item) : P = Pending(journal) /\ Q = Pending(journal)' /\ Q = Replay(P, r)
  BY <1>1, PendingStep, ReplayTyped
<1>3. PICK l \in Nat : l = Len(journal)
  BY <1>1
<1>4. /\ DOMAIN journal' = 1 .. l + 1 /\ DOMAIN journal = 1 .. l
      /\ journal'[l + 1] = r /\ (\A i \in 1 .. l : journal'[i] = journal[i])
      /\ Prefix(l + 1)' = journal /\ \A i \in 1 .. l : Prefix(i)' = Prefix(i)
  BY <1>1, <1>3, PrefixStays
<1>5. DOMAIN journal' = DOMAIN journal \union {l + 1}
  BY <1>4
<1>6. journal' \in Seq(Record) /\ \A i \in DOMAIN journal' : Queues(journal'[i])
  <2>1. r \in Record /\ Queues(r) /\ journal \in Seq(Record)
    BY <1>1 DEF Records, InboxTypes, JournalTypes
  <2>2. journal' \in Seq(Record)
    BY <2>1
  <2> QED
    BY <2>1, <2>2, <1>4, <1>5 DEF InboxTypes, JournalTypes
<1>7. ASSUME NEW n
      PROVE  Settling(n)' = IF r.kind \in {"user_message", "input_discarded"} /\ n \in r.ns
                            THEN Settling(n) \union {l + 1} ELSE Settling(n)
  BY <1>4, <1>5 DEF Settling
<1>8. \A i \in DOMAIN journal : \A n \in journal[i].ns : n <= inputs /\ n \in Nat
  BY <1>1 DEF JournalSound, PendingSound, Records, Record
<1>9. \A i \in DOMAIN journal' : \A n \in journal'[i].ns : n <= inputs'
  <2>1. ASSUME NEW i \in DOMAIN journal, NEW n \in journal[i].ns PROVE n <= inputs'
    BY <2>1, <1>8, <1>1
  <2> QED
    BY <2>1, <1>4, <1>5
<1>10. /\ \A n \in Numbers(P) : n \in Nat /\ n <= inputs /\ n <= inputs' /\ Settling(n) = {}
       /\ Distinct(P)
  <2>1. \A n \in Numbers(P) : n \in Nat
    <3>1. \A i \in DOMAIN P : P[i] \in Item
      BY <1>2
    <3>2. \A q \in Item : q.n \in Nat
      BY DEF Item, Inputs
    <3> QED
      BY <3>1, <3>2 DEF Numbers
  <2>2. \A n \in Numbers(P) : n <= inputs /\ Settling(n) = {}
    BY <1>2 DEF JournalSound, PendingSound
  <2>3. \A n \in Numbers(P) : n <= inputs'
    BY <2>1, <2>2, <1>1
  <2> QED
    BY <2>1, <2>2, <2>3, <1>2 DEF JournalSound, PendingSound
<1>11. OnlySteeringOvertakes'
  <2>1. ASSUME NEW i \in DOMAIN journal, journal'[i].kind = "user_message",
               NEW a \in DOMAIN Pending(Prefix(i))', NEW b \in DOMAIN Pending(Prefix(i))',
               a < b, Pending(Prefix(i))'[b].n \in journal'[i].ns
        PROVE  Pending(Prefix(i))'[a].mode = "follow_up" /\ Pending(Prefix(i))'[b].mode = "steering"
    <3>1. Pending(Prefix(i))' = Pending(Prefix(i)) /\ journal'[i] = journal[i]
      BY <1>4
    <3> QED
      BY <2>1, <3>1 DEF JournalSound, OnlySteeringOvertakes
  <2>2. Pending(Prefix(l + 1))' = P
    BY <1>2, <1>4
  <2>3. r.kind = "user_message" =>
          \A a, b \in DOMAIN P : a < b /\ P[b].n \in r.ns => P[a].mode = "follow_up" /\ P[b].mode = "steering"
    BY <1>2 DEF Admissible
  <2> QED
    BY <2>1, <2>2, <2>3, <1>4, <1>5 DEF OnlySteeringOvertakes
<1>12. CancelDefers'
  <2>1. ASSUME NEW i \in DOMAIN journal, journal'[i].kind = "turn_cancelled" PROVE Steering(Pending(Prefix(i)))' = {}
    <3>1. Prefix(i)' = Prefix(i) /\ journal'[i] = journal[i]
      BY <1>4
    <3>2. Steering(Pending(Prefix(i))) = {}
      BY <2>1, <3>1 DEF JournalSound, CancelDefers
    <3> QED
      BY <3>1, <3>2
  <2>2. Steering(Pending(Prefix(l + 1)))' = Steering(P)
    BY <1>2, <1>4
  <2>3. r.kind = "turn_cancelled" => Steering(P) = {}
    BY <1>2 DEF Admissible
  <2> QED
    BY <2>1, <2>2, <2>3, <1>4, <1>5 DEF CancelDefers
<1>13. PendingSound' /\ OnceSettled' /\ NothingLost'
  <2>1. CASE r.kind = "input_queued"
    <3>1. PICK q \in Item : q = r.item /\ r.ns = {q.n} /\ inputs < q.n /\ q.n \in Nat /\ q.n <= inputs'
      BY <1>1, <2>1 DEF Admissible, Records, Queues, Item, Inputs
    <3>2. Q = Append(P, q)
      BY <1>2, <2>1, <3>1 DEF Replay
    <3>3. PICK p \in Nat : p = Len(P)
      OBVIOUS
    <3>4. /\ DOMAIN Q = 1 .. p + 1 /\ DOMAIN P = 1 .. p
          /\ Q[p + 1] = q /\ \A i \in 1 .. p : Q[i] = P[i]
      BY <3>2, <3>3
    <3>5. DOMAIN Q = DOMAIN P \union {p + 1}
      BY <3>4
    <3>6. Numbers(Q) = Numbers(P) \union {q.n}
      <4>1. Numbers(Q) = {Q[i].n : i \in DOMAIN P} \union {Q[p + 1].n}
        BY <3>5 DEF Numbers
      <4>2. \A i \in DOMAIN P : Q[i].n = P[i].n
        BY <3>4
      <4>3. {Q[i].n : i \in DOMAIN P} = Numbers(P)
        BY <4>2 DEF Numbers
      <4> QED
        BY <3>4, <4>1, <4>3
    <3>7. Settling(q.n) = {}
      <4>1. \A i \in DOMAIN journal : q.n \notin journal[i].ns
        BY <3>1, <1>8, <1>1
      <4> QED
        BY <4>1 DEF Settling
    <3>8. q.n \notin Numbers(P)
      BY <3>1, <1>10, <1>1
    <3>9. Distinct(Q)
      BY <1>10, <3>4, <3>5, <3>8 DEF Distinct, Numbers
    <3>10. \A n \in Numbers(Q) : n <= inputs' /\ Settling(n)' = {}
      BY <3>1, <3>6, <3>7, <1>7, <1>10, <2>1
    <3>11. PendingSound'
      BY <1>2, <1>9, <3>9, <3>10 DEF PendingSound
    <3>12. NothingLost'
      BY <3>1, <3>6, <1>2, <1>7, <2>1 DEF JournalSound, NothingLost
    <3>13. OnceSettled'
      BY <1>7, <2>1 DEF JournalSound, OnceSettled
    <3> QED
      BY <3>11, <3>12, <3>13
  <2>2. CASE r.kind \in {"user_message", "input_discarded"}
    <3>1. Q = Without(P, r.ns)
      BY <1>2, <2>2 DEF Replay
    <3>2. Numbers(Q) = Numbers(P) \ r.ns /\ Distinct(Q)
      BY <3>1, <1>10, WithoutIs
    <3>3. \A n \in Numbers(Q) : n <= inputs' /\ Settling(n)' = {}
      BY <3>2, <1>7, <1>10
    <3>4. PendingSound'
      BY <1>2, <1>9, <3>2, <3>3 DEF PendingSound
    <3>5. NothingLost'
      <4>1. ASSUME NEW n \in acknowledged' PROVE n \in Numbers(Q) \/ Settling(n)' # {}
        <5>1. n \in acknowledged
          BY <2>2, <4>1
        <5>2. n \in Numbers(P) \/ Settling(n) # {}
          BY <5>1, <1>2 DEF JournalSound, NothingLost
        <5>3. CASE n \in r.ns
          BY <5>3, <1>7, <2>2
        <5>4. CASE n \notin r.ns
          BY <5>2, <5>4, <1>7, <3>2
        <5> QED
          BY <5>3, <5>4
      <4> QED
        BY <4>1, <1>2 DEF NothingLost
    <3>6. OnceSettled'
      <4>1. ASSUME NEW n \in Inputs, NEW a \in Settling(n)', NEW b \in Settling(n)' PROVE a = b
        <5>1. CASE n \in r.ns
          <6>1. n # 0
            BY DEF Inputs
          <6>2. n \in Numbers(P)
            BY <5>1, <6>1, <1>2, <2>2 DEF Admissible
          <6>3. Settling(n)' = {l + 1}
            BY <5>1, <6>2, <1>7, <1>10, <2>2
          <6> QED
            BY <4>1, <6>3
        <5>2. CASE n \notin r.ns
          <6>1. Settling(n)' = Settling(n)
            BY <5>2, <1>7
          <6> QED
            BY <4>1, <6>1 DEF JournalSound, OnceSettled
        <5> QED
          BY <5>1, <5>2
      <4> QED
        BY <4>1 DEF OnceSettled
    <3> QED
      BY <3>4, <3>5, <3>6
  <2>3. CASE r.kind \in {"input_deferred", "turn_cancelled"}
    <3>1. Numbers(Q) = Numbers(P) /\ Distinct(Q)
      <4>1. Q = P \/ Q = Deferred(P, r.ns)
        BY <1>2, <2>3 DEF Replay
      <4> QED
        BY <4>1, <1>10, DeferredIs
    <3>2. \A n : Settling(n)' = Settling(n)
      BY <1>7, <2>3
    <3>3. PendingSound'
      BY <1>2, <1>9, <1>10, <3>1, <3>2 DEF PendingSound
    <3>4. NothingLost'
      BY <1>2, <2>3, <3>1, <3>2 DEF JournalSound, NothingLost
    <3>5. OnceSettled'
      BY <3>2 DEF JournalSound, OnceSettled
    <3> QED
      BY <3>3, <3>4, <3>5
  <2>4. r.kind \in Kinds
    BY <1>1 DEF Records, Record
  <2> QED
    BY <2>1, <2>2, <2>3, <2>4 DEF Kinds
<1> QED
  BY <1>2, <1>6, <1>11, <1>12, <1>13 DEF JournalSound

\* A step that writes nothing keeps what the journal says.
LEMMA QuietSound ==
  ASSUME InboxInv, UNCHANGED <<journal, acknowledged>>, inputs <= inputs', MemoryTypes', MemorySound'
  PROVE  InboxInv'
<1>1. journal \in Seq(Records) /\ inputs \in Nat /\ inputs' \in Nat
  BY JournalRecords DEF InboxInv, InboxTypes, MemoryTypes
<1>2. PICK P \in Seq(Item) : P = Pending(journal) /\ P = Pending(journal)'
  BY <1>1, PendingStep
<1>3. \A n : Settling(n)' = Settling(n)
  BY DEF Settling
<1>4. \A i \in DOMAIN journal : Prefix(i)' = Prefix(i)
  BY DEF Prefix
<1>5. PendingSound'
  <2>1. \A i \in DOMAIN P : P[i].n \in Nat
    <3>1. \A i \in DOMAIN P : P[i] \in Item
      BY <1>2
    <3> QED
      BY <3>1 DEF Item, Inputs
  <2>2. \A n \in Numbers(P) : n <= inputs /\ n \in Nat
    BY <1>2, <2>1 DEF Numbers, InboxInv, JournalSound, PendingSound
  <2>3. \A n \in Numbers(P) : n <= inputs'
    BY <1>1, <2>2
  <2>4. \A i \in DOMAIN journal : \A n \in journal[i].ns : n <= inputs /\ n \in Nat
    BY <1>1 DEF InboxInv, JournalSound, PendingSound, Records, Record
  <2>5. \A i \in DOMAIN journal : \A n \in journal[i].ns : n <= inputs'
    BY <1>1, <2>4
  <2> QED
    BY <1>2, <1>3, <2>3, <2>5 DEF PendingSound, InboxInv, JournalSound
<1>6. OnceSettled' /\ NothingLost'
  BY <1>2, <1>3 DEF OnceSettled, NothingLost, InboxInv, JournalSound
<1>7. OnlySteeringOvertakes' /\ CancelDefers'
  BY <1>4 DEF OnlySteeringOvertakes, CancelDefers, InboxInv, JournalSound
<1>8. JournalTypes'
  BY DEF InboxInv, InboxTypes, JournalTypes
<1> QED
  BY <1>5, <1>6, <1>7, <1>8 DEF InboxInv, InboxTypes, JournalSound

\* A step that writes an admissible record keeps what the journal says.
LEMMA WrittenSound ==
  ASSUME InboxInv, NEW r, Admissible(r), journal' = Append(journal, r),
         inputs <= inputs', \A n \in r.ns : n <= inputs',
         \A n \in acknowledged' \ acknowledged : r.kind = "input_queued" /\ n = r.item.n,
         MemoryTypes', MemorySound'
  PROVE  InboxInv'
<1>1. inputs' \in Nat
  BY DEF MemoryTypes
<1>2. JournalSound' /\ journal' \in Seq(Record) /\ \A i \in DOMAIN journal' : Queues(journal'[i])
  BY <1>1, WriteSound DEF InboxInv
<1> QED
  BY <1>2 DEF InboxInv, InboxTypes, JournalTypes

\* What a turn would write in its phase may be written: the input at the head, the first
\* steering, the steering that is left, or the end of a turn without any.
LEMMA DueAdmissible ==
  ASSUME InboxInv, ~fenced, phase \in {"starting", "boundary", "deferring", "cancelled"},
         phase = "boundary" => Steering(items) # {}
  PROVE  Admissible(Due) /\ Due.kind # "input_queued"
<1>1. items \in Seq(Item) /\ items = Pending(journal) /\ input \in Nat /\ inputs \in Nat
  BY DEF InboxInv, InboxTypes, MemoryTypes, MemorySound
<1>2. \A i \in DOMAIN items : items[i] \in Item /\ items[i].n \in Nat /\ items[i].n # 0 /\ items[i].mode \in Modes
  <2>1. \A i \in DOMAIN items : items[i] \in Item
    BY <1>1
  <2> QED
    BY <2>1 DEF Item, Inputs
<1>3. \A i \in DOMAIN items : items[i].n \in Numbers(items) /\ items[i].n <= inputs
  BY <1>1 DEF Numbers, InboxInv, JournalSound, PendingSound
<1>4. Distinct(items)
  BY <1>1 DEF InboxInv, JournalSound, PendingSound
<1>5. ASSUME NEW kind \in Kinds \ {"input_queued"}, NEW ns \in SUBSET Nat
      PROVE  Rec(kind, ns, NoItem) \in Records
  BY DEF Rec, Records, Record, Queues
<1>6. CASE phase = "starting"
  <2>1. Due = Rec("user_message", {input}, NoItem)
    BY <1>6 DEF Due
  <2>2. Due \in Records
    BY <1>1, <1>5, <2>1 DEF Kinds
  <2>3. input # 0 => 1 \in DOMAIN items /\ items[1].n = input
    BY <1>1, <1>6 DEF InboxInv, MemorySound
  <2>4. input <= inputs
    BY <1>1, <1>3, <2>3
  <2>5. ASSUME NEW a \in DOMAIN items, NEW b \in DOMAIN items, a < b, items[b].n = input PROVE FALSE
    <3>1. b = 1
      BY <1>2, <1>4, <2>3, <2>5 DEF Distinct
    <3> QED
      BY <1>1, <2>5, <3>1
  <2> QED
    BY <1>1, <1>3, <2>1, <2>2, <2>3, <2>4, <2>5 DEF Admissible, Rec
<1>7. CASE phase = "boundary"
  <2>1. Steering(items) \in SUBSET Nat /\ Steering(items) # {}
    BY <1>1, <1>7 DEF Steering
  <2>2. PICK i \in Steering(items) : \A k \in Steering(items) : i <= k
    BY <2>1, LeastOf
  <2>3. PICK c \in Steering(items) : FirstSteering(items) = items[c].n /\ \A k \in Steering(items) : c <= k
    BY <2>2 DEF FirstSteering
  <2>4. c \in DOMAIN items /\ items[c].mode = "steering"
    BY <2>3 DEF Steering
  <2>5. Due = Rec("user_message", {items[c].n}, NoItem)
    BY <1>7, <2>3 DEF Due
  <2>6. Due \in Records
    BY <1>2, <1>5, <2>4, <2>5 DEF Kinds
  <2>7. ASSUME NEW a \in DOMAIN items, NEW b \in DOMAIN items, a < b, items[b].n = items[c].n
        PROVE  items[a].mode = "follow_up" /\ items[b].mode = "steering"
    <3>1. b = c
      BY <1>4, <2>4, <2>7 DEF Distinct
    <3>2. a \notin Steering(items)
      BY <1>1, <2>3, <2>4, <2>7, <3>1
    <3> QED
      BY <1>2, <2>4, <2>7, <3>1, <3>2 DEF Steering, Modes
  <2> QED
    BY <1>1, <1>3, <2>4, <2>5, <2>6, <2>7 DEF Admissible, Rec
<1>8. CASE phase = "deferring"
  <2>1. Due = Rec("input_deferred", SteeringNumbers, NoItem)
    BY <1>8 DEF Due
  <2>2. \A n \in SteeringNumbers : n \in Nat /\ n <= inputs
    BY <1>2, <1>3 DEF SteeringNumbers, Steering
  <2>3. Due \in Records
    BY <1>5, <2>1, <2>2 DEF Kinds
  <2> QED
    BY <2>1, <2>2, <2>3 DEF Admissible, Rec
<1>9. CASE phase = "cancelled"
  <2>1. Due = Rec("turn_cancelled", {}, NoItem)
    BY <1>9 DEF Due
  <2>2. Due \in Records
    BY <1>5, <2>1 DEF Kinds
  <2>3. Steering(items) = {}
    BY <1>9 DEF InboxInv, MemorySound
  <2> QED
    BY <1>1, <2>1, <2>2, <2>3 DEF Admissible, Rec
<1> QED
  BY <1>6, <1>7, <1>8, <1>9

\* A new input may be queued: its number is above every one there was.
LEMMA NewAdmissible ==
  ASSUME InboxInv, NEW mode \in Modes, NEW content \in Contents, inputs < MaxInputs
  PROVE  /\ Admissible(Rec("input_queued", {inputs + 1}, NewItem(mode, content)))
         /\ NewItem(mode, content) \in Item
<1>1. inputs \in Nat /\ inputs + 1 \in Inputs /\ inputs + 1 \in Nat
  BY BoundAssumption DEF InboxInv, InboxTypes, MemoryTypes, Inputs
<1>2. NewItem(mode, content) \in Item
  BY <1>1 DEF NewItem, Item
<1>3. Rec("input_queued", {inputs + 1}, NewItem(mode, content)) \in Records
  BY <1>1, <1>2 DEF Records, Record, Queues, Rec, Kinds
<1>4. inputs < inputs + 1
  BY <1>1
<1> QED
  BY <1>2, <1>3, <1>4 DEF Admissible, Rec, NewItem

\* The steps that write nothing: the prompt loop, the answers, a cancel.
QuietStep ==
  \/ TypePrompt \/ TypeNext \/ TakeQueued \/ TakeCommand \/ StartFails \/ Prepare \/ Ask
  \/ EndAtBoundary \/ Answer \/ Decide \/ Cancel

LEMMA QuietKeeps ==
  ASSUME InboxInv, QuietStep
  PROVE  InboxInv'
<1> USE DEF InboxInv, InboxTypes, MemoryTypes, MemorySound
<1>1. /\ items \in Seq(Item) /\ phase \in Phases /\ input \in Nat /\ inputs \in 0 .. MaxInputs
      /\ (phase # "down" /\ ~fenced => items = Pending(journal)) /\ (fenced => failedAppend)
      /\ (phase = "starting" /\ input # 0 => items # <<>> /\ items[1].n = input)
      /\ (phase = "cancelled" => Steering(items) = {})
  OBVIOUS
<1>2. UNCHANGED <<journal, acknowledged, items, inputs, fenced, failedAppend>>
  BY DEF QuietStep, TypePrompt, TypeNext, TakeQueued, TakeCommand, StartFails, Prepare, Ask, EndAtBoundary,
         Answer, Decide, Cancel, vars, counters
<1>3. /\ phase' \in Phases /\ phase # "down" /\ input' \in Nat
      /\ phase' = "starting" /\ input' # 0 => items # <<>> /\ items[1].n = input'
      /\ phase' = "cancelled" => Steering(items) = {}
  <2>1. CASE TypePrompt
    BY <2>1 DEF TypePrompt, Phases, Reading
  <2>2. CASE TypeNext
    BY <1>1, <2>2 DEF TypeNext, Phases, Reading
  <2>3. CASE TakeQueued
    <3>1. items # <<>> /\ input' = items[1].n /\ phase' = "starting" /\ phase = "prompt"
      BY <2>3 DEF TakeQueued
    <3>2. items[1] \in Item
      BY <1>1, <3>1
    <3>3. items[1].n \in Nat
      BY <3>2 DEF Item, Inputs
    <3> QED
      BY <3>1, <3>3 DEF Phases
  <2>4. CASE TakeCommand
    BY <1>1, <2>4 DEF TakeCommand, Phases, vars
  <2>5. CASE StartFails
    BY <1>1, <2>5 DEF StartFails, EndTurn, Phases
  <2>6. CASE Prepare
    BY <1>1, <2>6 DEF Prepare, EndTurn, Phases
  <2>7. CASE Ask
    BY <1>1, <2>7 DEF Ask, Phases
  <2>8. CASE EndAtBoundary
    BY <1>1, <2>8 DEF EndAtBoundary, EndTurn, Phases
  <2>9. CASE Answer
    BY <1>1, <2>9 DEF Answer, EndTurn, Phases
  <2>10. CASE Decide
    BY <1>1, <2>10 DEF Decide, EndTurn, Phases
  <2>11. CASE Cancel
    <3>1. phase' \in {"prompt", "deferring", "cancelled"} /\ (phase' = "cancelled" => Steering(items) = {})
      BY <2>11 DEF Cancel, Awaiting
    <3> QED
      BY <1>1, <2>11, <3>1 DEF Cancel, Awaiting, Phases
  <2> QED
    BY <2>1, <2>2, <2>3, <2>4, <2>5, <2>6, <2>7, <2>8, <2>9, <2>10, <2>11 DEF QuietStep
<1>4. MemoryTypes' /\ MemorySound'
  BY <1>1, <1>2, <1>3
<1>5. inputs <= inputs'
  BY <1>1, <1>2
<1> QED
  BY <1>2, <1>4, <1>5, QuietSound

\* An input is queued (queue), or its append fails.
LEMMA QueueKeeps ==
  ASSUME InboxInv, NEW mode \in Modes, NEW content \in Contents,
         Queue(mode, content) \/ QueueFails(mode, content)
  PROVE  InboxInv'
<1> DEFINE r == Rec("input_queued", {inputs + 1}, NewItem(mode, content))
<1>1. /\ items \in Seq(Item) /\ phase \in Phases /\ input \in Nat /\ inputs \in 0 .. MaxInputs /\ inputs \in Nat
      /\ fenced \in BOOLEAN /\ failedAppend \in BOOLEAN /\ acknowledged \subseteq Nat
      /\ (phase # "down" /\ ~fenced => items = Pending(journal)) /\ (fenced => failedAppend)
      /\ (phase = "starting" /\ input # 0 => items # <<>> /\ items[1].n = input)
  BY BoundAssumption DEF InboxInv, InboxTypes, MemoryTypes, MemorySound
<1>2. /\ phase \in Awaiting /\ inputs < MaxInputs /\ inputs' = inputs + 1
      /\ UNCHANGED <<phase, input>>
  BY DEF Queue, QueueFails
<1>3. inputs' \in 0 .. MaxInputs /\ inputs <= inputs' /\ inputs + 1 <= inputs' /\ phase # "cancelled" /\ phase # "down"
  BY <1>1, <1>2, BoundAssumption DEF Awaiting
<1>4. Admissible(r) /\ NewItem(mode, content) \in Item
  BY <1>2, NewAdmissible
<1>5. r.kind = "input_queued" /\ r.item = NewItem(mode, content) /\ r.item.n = inputs + 1 /\ r.ns = {inputs + 1}
  BY DEF Rec, NewItem
<1>6. CASE Queue(mode, content)
  <2>1. /\ ~fenced /\ journal' = Append(journal, r) /\ items' = Append(items, NewItem(mode, content))
        /\ acknowledged' = acknowledged \union {inputs + 1} /\ UNCHANGED <<fenced, failedAppend>>
    BY <1>2, <1>6 DEF Queue, Write
  <2>2. journal \in Seq(Records) /\ r \in Records
    BY <1>4, JournalRecords DEF InboxInv, Admissible
  <2>3. Pending(journal') = Append(Pending(journal), NewItem(mode, content))
    <3>1. Replay(Pending(journal), r) = Append(Pending(journal), r.item)
      BY <1>5 DEF Replay
    <3> QED
      BY <1>5, <2>1, <2>2, <3>1, PendingStep
  <2>4. items' \in Seq(Item) /\ (items # <<>> => items' # <<>> /\ items'[1] = items[1])
    BY <1>1, <1>4, <2>1
  <2>5. MemoryTypes'
    <3>1. acknowledged' \subseteq Nat
      BY <1>1, <2>1
    <3> QED
      BY <1>1, <1>2, <1>3, <2>1, <2>4, <3>1 DEF MemoryTypes
  <2>6. MemorySound'
    BY <1>1, <1>2, <1>3, <2>1, <2>3, <2>4 DEF MemorySound
  <2>7. /\ \A n \in r.ns : n <= inputs'
        /\ \A n \in acknowledged' \ acknowledged : r.kind = "input_queued" /\ n = r.item.n
    <3>1. \A n \in acknowledged' \ acknowledged : n = inputs + 1
      BY <2>1
    <3> QED
      BY <1>3, <1>5, <3>1
  <2> QED
    BY <1>3, <1>4, <2>1, <2>5, <2>6, <2>7, WrittenSound
<1>7. CASE QueueFails(mode, content)
  <2>1. UNCHANGED <<items, acknowledged>> /\ Fault(r)
    BY <1>2, <1>7 DEF QueueFails
  <2>2. /\ failedAppend' = TRUE /\ fenced' \in BOOLEAN
        /\ \/ UNCHANGED journal /\ (~fenced' => ~fenced)
           \/ ~fenced /\ fenced' /\ journal' = Append(journal, r)
    BY <1>1, <2>1 DEF Fault, Write
  <2>3. MemoryTypes'
    BY <1>1, <1>2, <1>3, <2>1, <2>2 DEF MemoryTypes
  <2>4. MemorySound'
    BY <1>1, <1>2, <1>3, <2>1, <2>2 DEF MemorySound
  <2>5. \A n \in r.ns : n <= inputs'
    BY <1>3, <1>5
  <2>6. CASE UNCHANGED journal
    BY <1>3, <2>1, <2>3, <2>4, <2>6, QuietSound
  <2>7. CASE journal' = Append(journal, r)
    BY <1>3, <1>4, <2>1, <2>3, <2>4, <2>5, <2>7, WrittenSound
  <2> QED
    BY <2>2, <2>6, <2>7
<1> QED
  BY <1>6, <1>7

\* The turn writes what is due: an input admitted, its steering deferred, its end.
LEMMA TurnWrites ==
  ASSUME InboxInv, RecordPrompt \/ AdmitSteering \/ Defer \/ RecordCancelled
  PROVE  InboxInv'
<1>1. /\ items \in Seq(Item) /\ phase \in Phases /\ input \in Nat /\ inputs \in 0 .. MaxInputs /\ inputs \in Nat
      /\ fenced \in BOOLEAN /\ failedAppend \in BOOLEAN /\ acknowledged \subseteq Nat
      /\ (fenced => failedAppend)
  BY BoundAssumption DEF InboxInv, InboxTypes, MemoryTypes, MemorySound
<1>2. /\ phase \in {"starting", "boundary", "deferring", "cancelled"}
      /\ phase = "boundary" => Steering(items) # {}
      /\ ~fenced /\ UNCHANGED <<acknowledged, inputs, fenced, failedAppend>>
      /\ journal' = Append(journal, Due)
      /\ phase = "starting" => phase' = "preparing" /\ input' = 0
      /\ phase = "boundary" => phase' = phase /\ input' = input
      /\ phase = "deferring" => phase' = "cancelled" /\ input' = input
      /\ phase = "cancelled" => phase' = "prompt" /\ input' = 0
      /\ phase \in {"starting", "boundary"} => Due.kind = "user_message" /\ items' = Without(items, Due.ns)
      /\ phase = "deferring" => Due.kind = "input_deferred" /\ items' = Deferred(items, SteeringNumbers) /\ Due.ns = SteeringNumbers
      /\ phase = "cancelled" => Due.kind = "turn_cancelled" /\ items' = items
  BY DEF RecordPrompt, AdmitSteering, Defer, RecordCancelled, Write, Due, EndTurn, counters, Rec
<1>3. Admissible(Due)
  BY <1>2, DueAdmissible
<1>4. items = Pending(journal)
  BY <1>2 DEF InboxInv, MemorySound
<1>5. journal \in Seq(Records) /\ Due \in Records
  BY <1>3, JournalRecords DEF InboxInv, Admissible
<1>6. items' = Replay(items, Due)
  BY <1>2 DEF Replay
<1>7. items' = Pending(journal') /\ items' \in Seq(Item)
  BY <1>1, <1>2, <1>4, <1>5, <1>6, PendingStep, ReplayTyped
<1>8. phase = "deferring" => Steering(items') = {}
  <2>1. \A i \in DOMAIN items : items[i].mode = "steering" => items[i].n \in SteeringNumbers
    BY DEF SteeringNumbers, Steering
  <2> QED
    BY <1>1, <1>2, <2>1, DeferredIs
<1>9. MemoryTypes'
  BY <1>1, <1>2, <1>7 DEF MemoryTypes, Phases
<1>10. MemorySound'
  BY <1>1, <1>2, <1>7, <1>8 DEF MemorySound
<1>11. \A n \in Due.ns : n <= inputs'
  BY <1>2, <1>3, DueAdmissible DEF Admissible
<1> QED
  BY <1>1, <1>2, <1>3, <1>9, <1>10, <1>11, WrittenSound

\* The append of a turn fails, whether its record reached the disk or not.
LEMMA TurnAppendFailsKeeps ==
  ASSUME InboxInv, TurnAppendFails
  PROVE  InboxInv'
<1>1. /\ items \in Seq(Item) /\ phase \in Phases /\ inputs \in 0 .. MaxInputs /\ inputs \in Nat
      /\ fenced \in BOOLEAN /\ failedAppend \in BOOLEAN /\ acknowledged \subseteq Nat
      /\ (phase # "down" /\ ~fenced => items = Pending(journal)) /\ (fenced => failedAppend)
  BY BoundAssumption DEF InboxInv, InboxTypes, MemoryTypes, MemorySound
<1>2. /\ phase \in {"starting", "boundary", "deferring", "cancelled"}
      /\ phase = "boundary" => Steering(items) # {}
      /\ UNCHANGED <<items, acknowledged, inputs>> /\ phase' = "prompt" /\ input' = 0 /\ Fault(Due)
  BY DEF TurnAppendFails, EndTurn
<1>3. /\ failedAppend' = TRUE /\ fenced' \in BOOLEAN
      /\ \/ UNCHANGED journal /\ (~fenced' => ~fenced)
         \/ ~fenced /\ fenced' /\ journal' = Append(journal, Due)
  BY <1>1, <1>2 DEF Fault, Write
<1>4. MemoryTypes' /\ MemorySound'
  BY <1>1, <1>2, <1>3 DEF MemoryTypes, MemorySound, Phases
<1>5. CASE UNCHANGED journal
  BY <1>1, <1>2, <1>4, <1>5, QuietSound
<1>6. CASE ~fenced /\ journal' = Append(journal, Due)
  <2>1. Admissible(Due) /\ Due.kind # "input_queued"
    BY <1>2, <1>6, DueAdmissible
  <2>2. \A n \in Due.ns : n <= inputs'
    BY <1>2, <2>1 DEF Admissible
  <2> QED
    BY <1>1, <1>2, <1>4, <1>6, <2>1, <2>2, WrittenSound
<1> QED
  BY <1>3, <1>5, <1>6

\* A queued input is discarded (discard).
LEMMA DiscardKeeps ==
  ASSUME InboxInv, NEW n, Discard(n)
  PROVE  InboxInv'
<1> DEFINE r == Rec("input_discarded", {n}, NoItem)
<1>1. /\ items \in Seq(Item) /\ phase \in Phases /\ input \in Nat /\ inputs \in 0 .. MaxInputs /\ inputs \in Nat
      /\ fenced \in BOOLEAN /\ failedAppend \in BOOLEAN /\ acknowledged \subseteq Nat
      /\ (phase # "down" /\ ~fenced => items = Pending(journal)) /\ (fenced => failedAppend)
  BY BoundAssumption DEF InboxInv, InboxTypes, MemoryTypes, MemorySound
<1>2. /\ phase = "prompt" /\ n \in Numbers(items) /\ ~fenced /\ journal' = Append(journal, r)
      /\ items' = Without(items, {n})
      /\ UNCHANGED <<phase, input, acknowledged, fenced, failedAppend, inputs>>
  BY DEF Discard, Reading, Write, counters
<1>3. items = Pending(journal)
  BY <1>1, <1>2
<1>4. n \in Nat /\ n <= inputs
  <2>1. PICK i \in DOMAIN items : n = items[i].n
    BY <1>2 DEF Numbers
  <2>2. items[i] \in Item
    BY <1>1, <2>1
  <2> QED
    BY <1>2, <1>3, <2>1, <2>2 DEF Item, Inputs, InboxInv, JournalSound, PendingSound
<1>5. Admissible(r) /\ r.kind = "input_discarded" /\ r.ns = {n}
  BY <1>2, <1>3, <1>4 DEF Admissible, Rec, Records, Record, Queues, Kinds
<1>6. journal \in Seq(Records) /\ r \in Records
  BY <1>5, JournalRecords DEF InboxInv, Admissible
<1> HIDE DEF r
<1>7. items' = Replay(items, r)
  BY <1>2, <1>5 DEF Replay
<1>8. items' = Pending(journal') /\ items' \in Seq(Item)
  BY <1>1, <1>2, <1>3, <1>6, <1>7, PendingStep, ReplayTyped
<1>9. MemoryTypes' /\ MemorySound'
  BY <1>1, <1>2, <1>8 DEF MemoryTypes, MemorySound
<1>10. inputs <= inputs' /\ \A k \in r.ns : k <= inputs'
  BY <1>1, <1>2, <1>4, <1>5
<1> QED
  BY <1>2, <1>5, <1>9, <1>10, WrittenSound

\* The process is gone; a new one restores the queue from the journal (restore).
LEMMA RestartKeeps ==
  ASSUME InboxInv, Crash \/ Resume
  PROVE  InboxInv'
<1>1. /\ journal \in Seq(Records) /\ input \in Nat /\ inputs \in 0 .. MaxInputs /\ inputs \in Nat
      /\ fenced \in BOOLEAN /\ failedAppend \in BOOLEAN /\ acknowledged \subseteq Nat /\ (fenced => failedAppend)
  BY JournalRecords, BoundAssumption DEF InboxInv, InboxTypes, MemoryTypes, MemorySound
<1>2. UNCHANGED <<journal, acknowledged, inputs>>
  BY DEF Crash, Resume, counters
<1>3. Pending(journal) \in Seq(Item)
  BY <1>1, PendingStep
<1>4. CASE Crash
  <2>1. items' = <<>> /\ phase' = "down" /\ input' = 0 /\ fenced' = FALSE /\ failedAppend' = FALSE
    BY <1>4 DEF Crash
  <2>2. <<>> \in Seq(Item)
    OBVIOUS
  <2>3. MemoryTypes' /\ MemorySound'
    BY <1>1, <1>2, <2>1, <2>2 DEF MemoryTypes, MemorySound, Phases
  <2> QED
    BY <1>1, <1>2, <2>3, QuietSound
<1>5. CASE Resume
  <2>1. items' = Pending(journal) /\ phase' = "prompt" /\ UNCHANGED <<input, fenced, failedAppend>>
    BY <1>5 DEF Resume
  <2>2. MemoryTypes' /\ MemorySound'
    BY <1>1, <1>2, <1>3, <2>1 DEF MemoryTypes, MemorySound, Phases
  <2> QED
    BY <1>1, <1>2, <2>2, QuietSound
<1> QED
  BY <1>4, <1>5

\* What the prompt loop starts with.
LEMMA InboxBegins == Init => InboxInv
<1> SUFFICES ASSUME Init PROVE InboxInv
  OBVIOUS
<1>1. journal = <<>> /\ items = <<>> /\ Len(journal) = 0 /\ DOMAIN journal = {} /\ DOMAIN items = {}
  BY DEF Init
<1>2. Pending(journal) = <<>>
  BY <1>1, PendingStep
<1>3. InboxTypes
  <2>1. journal \in Seq(Record) /\ items \in Seq(Item)
    BY <1>1
  <2>2. JournalTypes
    BY <1>1, <2>1 DEF JournalTypes
  <2>3. 0 \in 0 .. MaxInputs /\ 0 \in Nat
    BY BoundAssumption
  <2> QED
    BY <2>1, <2>2, <2>3 DEF Init, InboxTypes, MemoryTypes, Phases
<1>4. PendingSound /\ OnceSettled
  <2>0. <<>> \in Seq(Item) /\ DOMAIN <<>> = {}
    OBVIOUS
  <2>1. DOMAIN Pending(journal) = {} /\ Pending(journal) \in Seq(Item)
    BY <1>2, <2>0
  <2> QED
    BY <1>1, <2>1 DEF PendingSound, Distinct, Numbers, OnceSettled, Settling
<1>5. NothingLost /\ OnlySteeringOvertakes /\ CancelDefers
  BY <1>1 DEF Init, NothingLost, OnlySteeringOvertakes, CancelDefers
<1>6. MemorySound
  BY <1>1, <1>2 DEF Init, MemorySound
<1> QED
  BY <1>3, <1>4, <1>5, <1>6 DEF InboxInv, JournalSound

\* Every step keeps it.
LEMMA InboxSteps == InboxInv /\ [Next]_vars => InboxInv'
<1> SUFFICES ASSUME InboxInv, [Next]_vars PROVE InboxInv'
  OBVIOUS
<1>1. CASE QuietStep
  BY <1>1, QuietKeeps
<1>2. ASSUME NEW mode \in Modes, NEW content \in Contents, Queue(mode, content) \/ QueueFails(mode, content)
      PROVE  InboxInv'
  BY <1>2, QueueKeeps
<1>3. CASE RecordPrompt \/ AdmitSteering \/ Defer \/ RecordCancelled
  BY <1>3, TurnWrites
<1>4. CASE TurnAppendFails
  BY <1>4, TurnAppendFailsKeeps
<1>5. ASSUME NEW n \in Inputs, Discard(n) PROVE InboxInv'
  BY <1>5, DiscardKeeps
<1>6. CASE Crash \/ Resume
  BY <1>6, RestartKeeps
<1>7. CASE UNCHANGED vars
  <2>1. UNCHANGED <<journal, acknowledged, items, phase, input, inputs, fenced, failedAppend>>
    BY <1>7 DEF vars, counters
  <2>2. inputs <= inputs'
    BY <2>1, BoundAssumption DEF InboxInv, InboxTypes, MemoryTypes
  <2>3. MemoryTypes' /\ MemorySound'
    BY <2>1 DEF InboxInv, InboxTypes, MemoryTypes, MemorySound
  <2> QED
    BY <2>1, <2>2, <2>3, QuietSound
<1> QED
  BY <1>1, <1>2, <1>3, <1>4, <1>5, <1>6, <1>7 DEF Next, ProcessStep, UserStep, QuietStep

\* What the invariant says is what is promised.
LEMMA InboxTold == InboxInv => InputsKept
<1> SUFFICES ASSUME InboxInv PROVE InputsKept
  OBVIOUS
<1>1. QueueIsJournal
  BY DEF InboxInv, MemorySound, QueueIsJournal
<1>2. SettledOnce
  <2>1. ASSUME NEW n \in Inputs PROVE Cardinality(Settling(n)) <= 1
    <3>1. \A a, b \in Settling(n) : a = b
      BY DEF InboxInv, JournalSound, OnceSettled
    <3>2. CASE Settling(n) = {}
      BY <3>2, FS_EmptySet
    <3>3. CASE Settling(n) # {}
      <4>1. PICK a \in Settling(n) : TRUE
        BY <3>3
      <4>2. Settling(n) = {a}
        BY <3>1, <4>1
      <4>3. Cardinality(Settling(n)) = 1
        BY <4>2, FS_Singleton
      <4> QED
        BY <4>3
    <3> QED
      BY <3>2, <3>3
  <2> QED
    BY <2>1 DEF SettledOnce
<1> QED
  BY <1>1, <1>2 DEF InputsKept, InboxInv, JournalSound

\* Whatever inputs are queued, cancelled turns end, appends fail and processes crash: each input
\* that was taken is pending or settled, once and in its turn (queue, consumed, discard,
\* defer_steering, _build_state).
THEOREM QueueKept == Spec => []InputsKept
<1>1. InboxInv => InputsKept
  BY InboxTold
<1> QED
  BY InboxBegins, InboxSteps, <1>1, PTL DEF Spec

=============================================================================
