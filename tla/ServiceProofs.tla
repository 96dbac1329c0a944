--------------------------- MODULE ServiceProofs ---------------------------
(***************************************************************************)
(* What the engine serves and uses beside the workspace: the gateway of a  *)
(* chat platform, the servers of external tools, the permissions of calls, *)
(* the confirmations of operations, the stream of events, and what a       *)
(* session owns.                                                           *)
(*                                                                         *)
(* OneTurnOneSession (Gateway): a message of a chat has one turn, a chat   *)
(* one session, and an approval comes from the sender of the turn that     *)
(* asked, for every number of messages, chats and restarts.                *)
(* The property is not inductive. That a message runs once rests on the    *)
(* two copies of the list of known messages: whatever runs or waits is in  *)
(* memory, and what is in memory is in the file, so that a restart brings  *)
(* it back (SeenInv); and on the queue, in which it stands once and from   *)
(* which it is gone when its turn is over (LockInv). That a session has    *)
(* one chat rests on everything that names a session: file, memory,        *)
(* runtime and the turns so far (SessionInv). A press counts for the turn  *)
(* that asked because a turn cannot begin anew while its request waits     *)
(* (AskInv).                                                               *)
(*                                                                         *)
(* RegistryAgrees (Mcp), for any servers, tool names, refresh tasks and    *)
(* bounds, is inductive only together with what a refresh and the          *)
(* conversation carry over an await: whose list it is, whose connection    *)
(* is given up, which servers are left to go through (CarriedInv).         *)
(*                                                                         *)
(* What is allowed, and what a person confirms, has a reason that holds:   *)
(* AllowedIsGranted (Permissions) and ConfirmedAsShown (Confirmations),    *)
(* for every set of targets, rules, calls, answers and requests.           *)
(*                                                                         *)
(* AllowedIsGranted is not inductive: a rule allows a call long after the  *)
(* answer that left it. PermInv traces every rule to its origin            *)
(* (RulesInv): somebody wrote it into the project's file, or an answer     *)
(* left it, for the project or for this session, and not wider than the    *)
(* answer was. A rule of a session that ends is gone before the session's  *)
(* number changes; rules of a child are gone before its answers are. And a *)
(* question that waits was found neither forbidden nor denied, and nothing *)
(* that could forbid it changes while it waits (QuestionInv).              *)
(*                                                                         *)
(* A rule for one target is told from one for all of them by its pattern,  *)
(* hence the assumption that no target is named as a pattern is, or by the *)
(* empty name.                                                             *)
(*                                                                         *)
(* ConfirmedAsShown is not inductive either: that what passed was decided  *)
(* needs that an approved row has its decision on record, and one only     *)
(* (DecisionInv); that it was shown as it was needs that nobody changes    *)
(* the row between decision and last look (WaitInv); and that a nonce      *)
(* serves once needs that its number is not given again (NonceInv).        *)
(*                                                                         *)
(* StreamFaithful (EventStream), for any batch size, any number of records *)
(* and breaks, needs what is between the two ends: the rows that were      *)
(* scanned and not yet taken by the client are on their way to it, in one  *)
(* batch, and no acknowledgement of an older batch can be taken for that   *)
(* of this one (ClientInv). What a projection and a batch make of a        *)
(* sequence is a recursive function: the lemmas about it are inductions,   *)
(* with those of FoldLemmas.                                               *)
(*                                                                         *)
(* ScopesEnd (Lifetimes), for any plugins, names, turns and failures, says *)
(* of the end that nothing is left; LifeInv says who owes it until then:   *)
(* every open client is wired, a candidate or on somebody's list           *)
(* (ClientsInv), the backend is open while somebody has still to close it  *)
(* (BackendInv), a host that stands owes the disposal of all its plugins   *)
(* hold, each entry behind those it rests on (PluginsInv), a name that     *)
(* leads to a plugin is among what the host takes out (NamesInv). What may *)
(* happen at the same time as what is StagesInv.                           *)
(***************************************************************************)
EXTENDS Gateway, Mcp, Permissions, Confirmations, EventStream, Lifetimes, FoldLemmas,
        FiniteSetTheorems, SequenceTheorems, TLAPS

(* Gateway. *)

\* The types that the proof needs.
GatewayShape ==
  /\ log \in Seq(Messages \cup {"broken"}) /\ known \in Seq(Messages \cup {"broken"})
  /\ Len(known) <= KeptEntries /\ (torn => log # <<>> /\ log[Len(log)] = "broken")
  /\ index \in [Chats -> Nat] /\ mapping \in [Chats -> Nat] /\ runtimes \in [Chats -> Nat]
  /\ sessions \in Nat /\ locks \in [Chats -> Seq(Messages)]
  /\ asking \in [Messages -> Nat] /\ asked \in [Messages -> Nat]
  /\ ran \in [Messages -> Seq(Nat)] /\ ended \in [Messages -> Nat]

\* A message that has its turn or waits for it is known, and will be after a restart.
Waiting(m) == \E i \in DOMAIN locks[ChatOf[m]] : locks[ChatOf[m]][i] = m
SeenInv ==
  \A m \in Messages \ lost :
    /\ m \in Range(known) => m \in Range(log)
    /\ ran[m] # <<>> \/ Waiting(m) => m \in Range(known)

\* It waits once, and not any more when its turn is over.
LockInv ==
  /\ \A c \in Chats : \A i, j \in DOMAIN locks[c] :
       locks[c][i] = locks[c][j] /\ locks[c][i] \notin lost => i = j
  /\ \A m \in Messages \ lost :
       /\ Len(ran[m]) <= 1
       /\ Waiting(m) => ran[m] = <<>> \/ ended[m] < Len(ran[m])

\* The sessions that were ever a chat's.
SessionsOf(c) ==
  ({index[c], mapping[c], runtimes[c]} \ {0})
  \cup UNION {Range(ran[m]) : m \in {n \in Messages : ChatOf[n] = c}}

\* No session is of two chats; and a chat whose entry is on disk has one.
SessionInv ==
  /\ \A c \in Chats : SessionsOf(c) \subseteq 1 .. sessions
  /\ \A c, d \in Chats : c # d => SessionsOf(c) \cap SessionsOf(d) = {}
  /\ \A c \in Chats \ lost : mapping[c] = index[c] /\ SessionsOf(c) \subseteq {index[c]}

\* The request that waits is the newest of its message, and of the turn that runs.
AskInv ==
  /\ \A m \in Messages : ended[m] <= Len(ran[m]) /\ (asking[m] # 0 => ended[m] < Len(ran[m]))
  /\ \A card \in cards :
       /\ card.message \in Messages /\ card.number \in 1 .. asked[card.message]
       /\ Waits(card) => card.run = Len(ran[card.message])
  /\ \A a \in approved : a.by = SenderOf[a.card.message] /\ a.run = a.card.run

\* The inductive invariant.
GatewayInv == GatewayShape /\ SeenInv /\ LockInv /\ SessionInv /\ AskInv

\* What a line of the log may be.
Line == Messages \cup {"broken"}

\* A message is of a chat.
LEMMA ChatOfIs == \A m \in Messages : ChatOf[m] \in Chats
BY GatewayAssumption DEF Chats, Range

\* What is in a sequence after an append.
LEMMA AppendIs ==
  ASSUME NEW S, NEW s \in Seq(S), NEW e \in S
  PROVE  /\ Append(s, e) \in Seq(S) /\ Len(s) \in Nat /\ Len(Append(s, e)) = Len(s) + 1
         /\ DOMAIN s = 1 .. Len(s) /\ DOMAIN Append(s, e) = 1 .. Len(s) + 1
         /\ \A i \in 1 .. Len(s) : Append(s, e)[i] = s[i]
         /\ Append(s, e)[Len(s) + 1] = e
         /\ Range(Append(s, e)) = Range(s) \cup {e}
<1>1. /\ Append(s, e) \in Seq(S) /\ Len(s) \in Nat /\ Len(Append(s, e)) = Len(s) + 1
      /\ DOMAIN s = 1 .. Len(s) /\ DOMAIN Append(s, e) = 1 .. Len(s) + 1
      /\ \A i \in 1 .. Len(s) : Append(s, e)[i] = s[i]
      /\ Append(s, e)[Len(s) + 1] = e
  OBVIOUS
<1>2. Range(Append(s, e)) = Range(s) \cup {e}
  <2>1. \A x \in Range(Append(s, e)) : x \in Range(s) \cup {e} BY <1>1 DEF Range
  <2>2. \A x \in Range(s) : x \in Range(Append(s, e)) BY <1>1 DEF Range
  <2>3. Len(s) + 1 \in DOMAIN Append(s, e) BY <1>1
  <2>4. e \in Range(Append(s, e)) BY <1>1, <2>3 DEF Range
  <2> QED BY <2>1, <2>2, <2>4
<1> QED BY <1>1, <1>2

\* The newest lines: as many as are kept, and of one line too many all but the oldest.
LEMMA NewestIs ==
  ASSUME NEW S, NEW s \in Seq(S)
  PROVE  /\ Newest(s) \in Seq(S) /\ Len(Newest(s)) <= KeptEntries
         /\ Len(s) <= KeptEntries => Newest(s) = s
         /\ Len(s) = KeptEntries + 1 => /\ Range(s) \subseteq Range(Newest(s)) \cup {Head(s)}
                                        /\ s[Len(s)] \in Range(Newest(s))
<1> DEFINE from == IF Len(s) > KeptEntries THEN Len(s) - KeptEntries + 1 ELSE 1
<1>1. Len(s) \in Nat /\ KeptEntries \in Nat \ {0} /\ from \in 1 .. Len(s) + 1
  BY GatewayAssumption
<1>2. /\ Newest(s) \in Seq(S)
      /\ Len(Newest(s)) = IF from <= Len(s) THEN Len(s) - from + 1 ELSE 0
      /\ \A i \in 1 .. Len(s) - from + 1 : Newest(s)[i] = s[from + i - 1]
  BY <1>1, SubSeqProperties DEF Newest
<1>3. Len(Newest(s)) <= KeptEntries BY <1>1, <1>2
<1>4. ASSUME Len(s) <= KeptEntries PROVE Newest(s) = s
  <2>1. from = 1 BY <1>1, <1>4
  <2>2. Len(Newest(s)) = Len(s) BY <1>1, <1>2, <2>1
  <2>3. \A i \in 1 .. Len(s) : Newest(s)[i] = s[i] BY <1>1, <1>2, <2>1
  <2> QED BY <1>2, <2>2, <2>3, SeqEqual
<1>5. ASSUME Len(s) = KeptEntries + 1
      PROVE  /\ Range(s) \subseteq Range(Newest(s)) \cup {Head(s)}
             /\ s[Len(s)] \in Range(Newest(s))
  <2>1. from = 2 /\ Len(Newest(s)) = Len(s) - 1 BY <1>1, <1>2, <1>5
  <2>2. \A i \in 2 .. Len(s) : i - 1 \in 1 .. Len(Newest(s)) /\ Newest(s)[i - 1] = s[i]
    <3> SUFFICES ASSUME NEW i \in 2 .. Len(s)
                 PROVE  i - 1 \in 1 .. Len(Newest(s)) /\ Newest(s)[i - 1] = s[i]
      OBVIOUS
    <3>1. i - 1 \in 1 .. Len(s) - from + 1 /\ from + (i - 1) - 1 = i BY <1>1, <2>1
    <3>2. Newest(s)[i - 1] = s[from + (i - 1) - 1] BY <1>2, <3>1
    <3> QED BY <1>1, <2>1, <3>1, <3>2
  <2>3. DOMAIN Newest(s) = 1 .. Len(Newest(s)) /\ DOMAIN s = 1 .. Len(s) BY <1>2, LenProperties
  <2>4. \A i \in 2 .. Len(s) : s[i] \in Range(Newest(s)) BY <2>2, <2>3 DEF Range
  <2>5. Head(s) = s[1] BY <1>1, <1>5, HeadTailProperties
  <2>6. \A i \in DOMAIN s : i = 1 \/ i \in 2 .. Len(s) BY <1>1, <2>3
  <2> HIDE DEF from
  <2>7. Range(s) \subseteq Range(Newest(s)) \cup {Head(s)} BY <2>4, <2>5, <2>6 DEF Range
  <2>8. Len(s) \in 2 .. Len(s) BY <1>1, <1>5
  <2> QED BY <2>4, <2>7, <2>8
<1> QED BY <1>2, <1>3, <1>4, <1>5

\* The newest lines are lines.
LEMMA NewestIn ==
  ASSUME NEW S, NEW s \in Seq(S)
  PROVE  Range(Newest(s)) \subseteq Range(s)
<1> DEFINE from == IF Len(s) > KeptEntries THEN Len(s) - KeptEntries + 1 ELSE 1
<1>1. Len(s) \in Nat /\ KeptEntries \in Nat \ {0} /\ from \in 1 .. Len(s) + 1
  BY GatewayAssumption
<1>2. /\ Newest(s) \in Seq(S)
      /\ Len(Newest(s)) = IF from <= Len(s) THEN Len(s) - from + 1 ELSE 0
      /\ \A i \in 1 .. Len(s) - from + 1 : Newest(s)[i] = s[from + i - 1]
  BY <1>1, SubSeqProperties DEF Newest
<1>3. DOMAIN Newest(s) = 1 .. Len(Newest(s)) /\ DOMAIN s = 1 .. Len(s) BY <1>2, LenProperties
<1>4. \A i \in DOMAIN Newest(s) : from + i - 1 \in DOMAIN s /\ Newest(s)[i] = s[from + i - 1]
  <2> SUFFICES ASSUME NEW i \in 1 .. Len(Newest(s))
               PROVE  from + i - 1 \in DOMAIN s /\ Newest(s)[i] = s[from + i - 1]
    BY <1>3
  <2>1. from <= Len(s) /\ i \in 1 .. Len(s) - from + 1 BY <1>1, <1>2
  <2>2. from + i - 1 \in 1 .. Len(s) BY <1>1, <2>1
  <2> QED BY <1>2, <1>3, <2>1, <2>2
<1> QED BY <1>4 DEF Range

\* The queue of a lock without its head.
LEMMA TailIs ==
  ASSUME NEW S, NEW s \in Seq(S), s # <<>>
  PROVE  /\ Tail(s) \in Seq(S) /\ Len(s) \in Nat \ {0} /\ Head(s) = s[1]
         /\ DOMAIN s = 1 .. Len(s) /\ DOMAIN Tail(s) = 1 .. Len(s) - 1
         /\ \A i \in 1 .. Len(s) - 1 : i + 1 \in DOMAIN s /\ Tail(s)[i] = s[i + 1]
OBVIOUS

\* What is lost stays lost, and what is not touched stays seen.
LEMMA SeenKept ==
  ASSUME SeenInv, lost \subseteq lost', UNCHANGED <<log, known, ran, locks>>
  PROVE  SeenInv'
BY DEF SeenInv, Waiting

\* What is not touched stays in its queue.
LEMMA LockKept ==
  ASSUME LockInv, lost \subseteq lost', UNCHANGED <<locks, ran, ended>>
  PROVE  LockInv'
BY DEF LockInv, Waiting

\* What names no session anew mixes none up.
LEMMA SessionKept ==
  ASSUME SessionInv, lost \subseteq lost', UNCHANGED <<index, mapping, runtimes, sessions, ran>>
  PROVE  SessionInv'
<1>1. \A c : SessionsOf(c)' = SessionsOf(c) BY DEF SessionsOf
<1> QED BY <1>1 DEF SessionInv

\* A request stays what it is while no turn begins or ends.
LEMMA AskKept ==
  ASSUME AskInv, UNCHANGED <<asking, cards, asked, ran, ended, approved>>
  PROVE  AskInv'
BY DEF AskInv, Waits

\* Every initial state satisfies the invariant.
LEMMA GatewayBegins == GatewayInit => GatewayInv
<1> SUFFICES ASSUME GatewayInit PROVE GatewayInv OBVIOUS
<1>1. GatewayShape
  BY GatewayAssumption DEF GatewayInit, GatewayShape
<1>2. \A m \in Messages : ran[m] = <<>> /\ locks[ChatOf[m]] = <<>> BY ChatOfIs DEF GatewayInit
<1>3. \A m \in Messages : ~Waiting(m) BY <1>2 DEF Waiting
<1>4. SeenInv
  <2>1. Range(known) = {} BY DEF GatewayInit, Range
  <2> QED BY <1>2, <1>3, <2>1 DEF SeenInv
<1>5. LockInv
  <2>1. \A c \in Chats : DOMAIN locks[c] = {} BY DEF GatewayInit
  <2> QED BY <1>2, <1>3, <2>1 DEF LockInv
<1>6. SessionInv
  <2>1. \A m \in Messages : Range(ran[m]) = {} BY <1>2 DEF Range
  <2>2. \A c \in Chats : index[c] = 0 /\ mapping[c] = 0 /\ runtimes[c] = 0 BY DEF GatewayInit
  <2>3. \A c \in Chats : SessionsOf(c) = {} BY <2>1, <2>2 DEF SessionsOf
  <2> QED BY <2>2, <2>3 DEF SessionInv
<1>7. AskInv BY DEF GatewayInit, AskInv
<1> QED BY <1>1, <1>4, <1>5, <1>6, <1>7 DEF GatewayInv

\* A message joins the queue of its chat.
LEMMA DeliverStep ==
  ASSUME GatewayInv, NEW m \in Messages, Deliver(m)
  PROVE  GatewayInv'
<1> DEFINE order == Append(known, m)
           full == Len(order) > KeptEntries
           c == ChatOf[m]
<1>1. /\ m \notin Range(known) /\ known' = Newest(order)
      /\ log' = IF full THEN Newest(order) ELSE Appended(m)
      /\ lost' = lost \cup (IF full THEN {Head(order)} ELSE IF torn THEN {m} ELSE {})
      /\ locks' = [locks EXCEPT ![c] = Append(@, m)]
      /\ UNCHANGED <<index, mapping, sessions, runtimes, asking, cards, asked, ran, ended, approved>>
  BY DEF Deliver, Fresh, gateway_index
<1>2. c \in Chats BY ChatOfIs
<1>3. /\ log \in Seq(Line) /\ known \in Seq(Line) /\ Len(known) <= KeptEntries
      /\ locks \in [Chats -> Seq(Messages)] /\ m \in Line
  BY DEF GatewayInv, GatewayShape, Line
<1>4. /\ order \in Seq(Line) /\ Len(known) \in Nat /\ Len(order) = Len(known) + 1
      /\ order[Len(order)] = m /\ Range(order) = Range(known) \cup {m}
  BY <1>3, AppendIs
<1>5. KeptEntries \in Nat \ {0} BY GatewayAssumption
<1>6. full => Len(order) = KeptEntries + 1 BY <1>3, <1>4, <1>5
<1> HIDE DEF order
<1>7. /\ known' \in Seq(Line) /\ Len(known') <= KeptEntries
      /\ Range(known) \cup {m} \subseteq Range(known') \cup (IF full THEN {Head(order)} ELSE {})
      /\ m \in Range(known')
  <2>1. CASE full BY <1>1, <1>4, <1>6, <2>1, NewestIs
  <2>2. CASE ~full
    <3>1. known' = order BY <1>1, <1>4, <1>5, <2>2, NewestIs
    <3> QED BY <1>4, <1>5, <2>2, <3>1
  <2> QED BY <2>1, <2>2
<1>8. /\ log' \in Seq(Line)
      /\ full => log' = known'
      /\ ~full /\ ~torn => Range(log') = Range(log) \cup {m}
      /\ ~full /\ torn => log' = log
  <2>1. CASE full BY <1>1, <1>7, <2>1
  <2>2. CASE ~full /\ ~torn
    <3>1. log' = Append(log, m) BY <1>1, <2>2 DEF Appended
    <3> QED BY <1>3, <2>2, <3>1, AppendIs
  <2>3. CASE ~full /\ torn
    <3>1. log' = [log EXCEPT ![Len(log)] = "broken"] BY <1>1, <2>3 DEF Appended
    <3>2. log[Len(log)] = "broken" BY <2>3 DEF GatewayInv, GatewayShape
    <3>3. log = [i \in 1 .. Len(log) |-> log[i]] BY <1>3
    <3>4. log' = log
      <4>1. log' = [i \in 1 .. Len(log) |-> IF i = Len(log) THEN "broken" ELSE log[i]] BY ONLY <3>1, <3>3
      <4>2. \A i \in 1 .. Len(log) : (IF i = Len(log) THEN "broken" ELSE log[i]) = log[i] BY <3>2
      <4> QED BY ONLY <3>3, <4>1, <4>2
    <3> QED BY <1>3, <2>3, <3>4
  <2> QED BY <2>1, <2>2, <2>3
<1>9. /\ locks' \in [Chats -> Seq(Messages)]
      /\ \A d \in Chats : d # c => locks'[d] = locks[d]
      /\ DOMAIN locks[c] = 1 .. Len(locks[c]) /\ DOMAIN locks'[c] = 1 .. Len(locks[c]) + 1
      /\ Len(locks[c]) \in Nat
      /\ \A i \in 1 .. Len(locks[c]) : locks'[c][i] = locks[c][i]
      /\ locks'[c][Len(locks[c]) + 1] = m
  <2>1. locks'[c] = Append(locks[c], m) /\ locks[c] \in Seq(Messages) BY <1>1, <1>2, <1>3
  <2>2. Append(locks[c], m) \in Seq(Messages) BY <2>1
  <2>3. locks' \in [Chats -> Seq(Messages)] /\ \A d \in Chats : d # c => locks'[d] = locks[d]
    BY <1>1, <1>2, <1>3, <2>2
  <2> QED BY <2>1, <2>3, AppendIs
<1>10. GatewayShape'
  <2>1. torn' = FALSE BY DEF Deliver
  <2> QED BY <1>1, <1>7, <1>8, <1>9, <2>1 DEF GatewayInv, GatewayShape, Line
<1>11. \A n \in Messages : n # m => Waiting(n)' = Waiting(n)
  <2> SUFFICES ASSUME NEW n \in Messages, n # m PROVE Waiting(n)' = Waiting(n) OBVIOUS
  <2>0. ChatOf[n] \in Chats BY ChatOfIs
  <2>1. CASE ChatOf[n] # c BY <1>9, <2>0, <2>1 DEF Waiting
  <2>2. CASE ChatOf[n] = c
    <3>1. ASSUME NEW i \in DOMAIN locks'[c], locks'[c][i] = n PROVE \E j \in DOMAIN locks[c] : locks[c][j] = n
      <4>1. i \in 1 .. Len(locks[c]) + 1 /\ i # Len(locks[c]) + 1 /\ Len(locks[c]) \in Nat BY <1>9, <3>1
      <4>2. i \in 1 .. Len(locks[c]) BY ONLY <4>1
      <4> QED BY <1>9, <3>1, <4>2
    <3>2. ASSUME NEW i \in DOMAIN locks[c], locks[c][i] = n PROVE \E j \in DOMAIN locks'[c] : locks'[c][j] = n
      <4>1. i \in 1 .. Len(locks[c]) /\ Len(locks[c]) \in Nat BY <1>9
      <4>2. i \in 1 .. Len(locks[c]) + 1 BY ONLY <4>1
      <4> QED BY <1>9, <3>2, <4>1, <4>2
    <3> QED BY <2>2, <3>1, <3>2 DEF Waiting
  <2> QED BY <2>1, <2>2
<1>12. m \notin lost => ran[m] = <<>> /\ ~Waiting(m) BY <1>1 DEF GatewayInv, SeenInv
<1>13. SeenInv'
  <2> SUFFICES ASSUME NEW n \in Messages, n \notin lost'
               PROVE  /\ n \in Range(known') => n \in Range(log')
                      /\ ran[n] # <<>> \/ Waiting(n)' => n \in Range(known')
    BY <1>1 DEF SeenInv
  <2>1. n \notin lost /\ (full => n # Head(order)) /\ (~full /\ torn => n # m) BY <1>1
  <2>2. n \in Range(known) \cup {m} => n \in Range(known') BY <1>7, <2>1
  <2>3. Range(known') \subseteq Range(known) \cup {m} \/ full
    <3>1. ~full => known' = order BY <1>1, <1>4, <1>5, NewestIs
    <3> QED BY <1>4, <3>1
  <2>4. n \in Range(known') => n \in Range(log')
    <3>1. CASE full BY <1>8, <3>1
    <3>2. CASE ~full /\ n = m BY <1>8, <2>1, <3>2
    <3>3. CASE ~full /\ n # m
      <4>1. n \in Range(known') => n \in Range(known) BY <2>3, <3>3
      <4>2. n \in Range(known) => n \in Range(log) BY <2>1 DEF GatewayInv, SeenInv
      <4> QED BY <1>8, <3>3, <4>1, <4>2
    <3> QED BY <3>1, <3>2, <3>3
  <2>5. n # m => (ran[n] # <<>> \/ Waiting(n) => n \in Range(known)) BY <2>1 DEF GatewayInv, SeenInv
  <2> QED BY <1>11, <2>2, <2>4, <2>5
<1>14. LockInv'
  <2>1. \A d \in Chats : \A i, j \in DOMAIN locks'[d] :
          locks'[d][i] = locks'[d][j] /\ locks'[d][i] \notin lost' => i = j
    <3> SUFFICES ASSUME NEW d \in Chats, NEW i \in DOMAIN locks'[d], NEW j \in DOMAIN locks'[d],
                        locks'[d][i] = locks'[d][j], locks'[d][i] \notin lost'
                 PROVE  i = j
      OBVIOUS
    <3>0. locks'[d][i] \notin lost BY <1>1
    <3>1. CASE d # c BY <1>9, <3>0, <3>1 DEF GatewayInv, LockInv
    <3>2. CASE d = c
      <4>1. ASSUME NEW k \in 1 .. Len(locks[c]), m \notin lost PROVE locks[c][k] # m
        BY <1>9, <1>12, <4>1 DEF Waiting
      <4>2. CASE i \in 1 .. Len(locks[c]) /\ j \in 1 .. Len(locks[c])
        BY <1>2, <1>9, <3>0, <3>2, <4>2 DEF GatewayInv, LockInv
      <4>0. /\ i \in 1 .. Len(locks[c]) \/ i = Len(locks[c]) + 1
            /\ j \in 1 .. Len(locks[c]) \/ j = Len(locks[c]) + 1
        <5>1. i \in 1 .. Len(locks[c]) + 1 /\ j \in 1 .. Len(locks[c]) + 1 /\ Len(locks[c]) \in Nat
          BY <1>9, <3>2
        <5> QED BY ONLY <5>1
      <4>3. CASE i = Len(locks[c]) + 1
        <5>1. locks'[d][i] = m /\ m \notin lost BY <1>9, <3>0, <3>2, <4>3
        <5>2. j \notin 1 .. Len(locks[c]) BY <1>9, <3>2, <4>1, <5>1
        <5> QED BY <1>9, <3>2, <4>3, <5>2
      <4>4. CASE j = Len(locks[c]) + 1
        <5>1. locks'[d][i] = m /\ m \notin lost BY <1>9, <3>0, <3>2, <4>4
        <5>2. i \notin 1 .. Len(locks[c]) BY <1>9, <3>2, <4>1, <5>1
        <5> QED BY <1>9, <3>2, <4>4, <5>2
      <4> QED BY <4>0, <4>2, <4>3, <4>4
    <3> QED BY <3>1, <3>2
  <2>2. \A n \in Messages \ lost' :
          /\ Len(ran[n]) <= 1
          /\ Waiting(n)' => ran[n] = <<>> \/ ended[n] < Len(ran[n])
    BY <1>1, <1>11, <1>12 DEF GatewayInv, LockInv
  <2> QED BY <1>1, <2>1, <2>2 DEF LockInv
<1>15. SessionInv' BY <1>1, SessionKept DEF GatewayInv
<1>16. AskInv' BY <1>1, AskKept DEF GatewayInv
<1> QED BY <1>10, <1>13, <1>14, <1>15, <1>16 DEF GatewayInv

\* The head of a queue leaves it: its message has had its turn, or gets none.
LEMMA LeaveIs ==
  ASSUME GatewayInv, NEW m \in Messages, Holds(m),
         locks' = [locks EXCEPT ![ChatOf[m]] = Tail(@)], lost \subseteq lost', UNCHANGED <<log, known, ran>>
  PROVE  /\ locks' \in [Chats -> Seq(Messages)]
         /\ \A n \in Messages : Waiting(n)' => Waiting(n)
         /\ m \notin lost => ~Waiting(m)'
         /\ SeenInv'
         /\ \A c \in Chats : \A i, j \in DOMAIN locks'[c] :
              locks'[c][i] = locks'[c][j] /\ locks'[c][i] \notin lost' => i = j
<1> DEFINE c == ChatOf[m]
<1>1. c \in Chats /\ locks \in [Chats -> Seq(Messages)] BY ChatOfIs DEF GatewayInv, GatewayShape
<1>2. locks[c] \in Seq(Messages) /\ locks[c] # <<>> /\ Head(locks[c]) = m BY <1>1 DEF Holds
<1>3. /\ Tail(locks[c]) \in Seq(Messages) /\ Len(locks[c]) \in Nat \ {0} /\ locks[c][1] = m
      /\ DOMAIN locks[c] = 1 .. Len(locks[c]) /\ DOMAIN Tail(locks[c]) = 1 .. Len(locks[c]) - 1
      /\ \A i \in 1 .. Len(locks[c]) - 1 : i + 1 \in DOMAIN locks[c] /\ Tail(locks[c])[i] = locks[c][i + 1]
  BY <1>2, TailIs
<1>4. /\ locks' \in [Chats -> Seq(Messages)] /\ locks'[c] = Tail(locks[c])
      /\ \A d \in Chats : d # c => locks'[d] = locks[d]
  BY <1>1, <1>3
<1>5. \A n \in Messages : Waiting(n)' => Waiting(n)
  <2> SUFFICES ASSUME NEW n \in Messages, Waiting(n)' PROVE Waiting(n) OBVIOUS
  <2>1. CASE ChatOf[n] = c BY <1>3, <1>4, <2>1 DEF Waiting
  <2>2. CASE ChatOf[n] # c BY <1>4, <2>2, ChatOfIs DEF Waiting
  <2> QED BY <2>1, <2>2
<1>6. \A d \in Chats : \A i, j \in DOMAIN locks[d] :
        locks[d][i] = locks[d][j] /\ locks[d][i] \notin lost => i = j
  BY DEF GatewayInv, LockInv
<1>7. ASSUME m \notin lost PROVE ~Waiting(m)'
  <2> SUFFICES ASSUME NEW i \in 1 .. Len(locks[c]) - 1, Tail(locks[c])[i] = m PROVE FALSE
    BY <1>3, <1>4 DEF Waiting
  <2>1. i + 1 \in DOMAIN locks[c] /\ locks[c][i + 1] = m /\ 1 \in DOMAIN locks[c] BY <1>3
  <2>2. i + 1 = 1 BY <1>1, <1>3, <1>6, <1>7, <2>1
  <2> QED BY <2>2
<1>8. SeenInv' BY <1>5 DEF GatewayInv, SeenInv
<1>9. \A d \in Chats : \A i, j \in DOMAIN locks'[d] :
        locks'[d][i] = locks'[d][j] /\ locks'[d][i] \notin lost' => i = j
  <2> SUFFICES ASSUME NEW d \in Chats, NEW i \in DOMAIN locks'[d], NEW j \in DOMAIN locks'[d],
                      locks'[d][i] = locks'[d][j], locks'[d][i] \notin lost
               PROVE  i = j
    OBVIOUS
  <2>1. CASE d # c BY <1>4, <1>6, <2>1
  <2>2. CASE d = c
    <3>1. /\ i \in 1 .. Len(locks[c]) - 1 /\ j \in 1 .. Len(locks[c]) - 1
          /\ i + 1 \in DOMAIN locks[c] /\ j + 1 \in DOMAIN locks[c]
          /\ locks[c][i + 1] = locks[c][j + 1] /\ locks[c][i + 1] \notin lost
      BY <1>3, <1>4, <2>2
    <3>2. i + 1 = j + 1 BY <1>1, <1>6, <3>1
    <3> QED BY <3>1, <3>2
  <2> QED BY <2>1, <2>2
<1> QED BY <1>4, <1>5, <1>7, <1>8, <1>9

\* A message with the lock runs in the session of its chat, or in one that is opened for it.
LEMMA BindIs ==
  ASSUME GatewayInv, NEW c \in Chats, runtimes[c] = 0,
         sessions' = IF mapping[c] = 0 THEN sessions + 1 ELSE sessions,
         runtimes' = [runtimes EXCEPT ![c] = IF mapping[c] = 0 THEN sessions' ELSE mapping[c]],
         mapping' = [mapping EXCEPT ![c] = runtimes'[c]]
  PROVE  /\ sessions' \in Nat /\ sessions <= sessions'
         /\ runtimes' \in [Chats -> Nat] /\ mapping' \in [Chats -> Nat]
         /\ mapping'[c] = runtimes'[c] /\ runtimes'[c] \in 1 .. sessions'
         /\ \A d \in Chats : d # c => mapping'[d] = mapping[d] /\ runtimes'[d] = runtimes[d]
         /\ \A d \in Chats : d # c => runtimes'[c] \notin SessionsOf(d)
         /\ mapping[c] # 0 => runtimes'[c] = mapping[c]
         /\ runtimes'[c] \in SessionsOf(c) \/ (mapping[c] = 0 /\ runtimes'[c] = sessions + 1)
<1>1. /\ sessions \in Nat /\ runtimes \in [Chats -> Nat] /\ mapping \in [Chats -> Nat]
  BY DEF GatewayInv, GatewayShape
<1>2. /\ \A d \in Chats : SessionsOf(d) \subseteq 1 .. sessions
      /\ \A d \in Chats : d # c => SessionsOf(c) \cap SessionsOf(d) = {}
  BY DEF GatewayInv, SessionInv
<1>3. sessions' \in Nat /\ sessions <= sessions' BY <1>1
<1>4. mapping[c] # 0 => mapping[c] \in SessionsOf(c) BY DEF SessionsOf
<1>5. runtimes'[c] = IF mapping[c] = 0 THEN sessions + 1 ELSE mapping[c] BY <1>1
<1>6. runtimes'[c] \in 1 .. sessions' BY <1>1, <1>2, <1>4, <1>5
<1>7. /\ runtimes' \in [Chats -> Nat] /\ mapping' \in [Chats -> Nat] /\ mapping'[c] = runtimes'[c]
      /\ \A d \in Chats : d # c => mapping'[d] = mapping[d] /\ runtimes'[d] = runtimes[d]
  BY <1>1, <1>3, <1>5, <1>6
<1>8. \A d \in Chats : d # c => runtimes'[c] \notin SessionsOf(d)
  <2>1. CASE mapping[c] = 0
    <3>1. runtimes'[c] \notin 1 .. sessions BY <1>1, <1>5, <2>1
    <3> QED BY <1>2, <3>1
  <2>2. CASE mapping[c] # 0 BY <1>2, <1>4, <1>5, <2>2
  <2> QED BY <2>1, <2>2
<1> QED BY <1>3, <1>4, <1>5, <1>6, <1>7, <1>8

\* The sessions stay apart when those of each chat only shrink, but for one that gets one of its own.
LEMMA Apart ==
  ASSUME SessionInv, NEW c \in Chats, NEW r \in Nat, sessions' \in Nat, sessions <= sessions', sessions \in Nat,
         r \in 1 .. sessions',
         \A d \in Chats : d # c => r \notin SessionsOf(d),
         \A d \in Chats : SessionsOf(d)' \subseteq SessionsOf(d) \cup (IF d = c THEN {r} ELSE {})
  PROVE  /\ \A d \in Chats : SessionsOf(d)' \subseteq 1 .. sessions'
         /\ \A d, e \in Chats : d # e => SessionsOf(d)' \cap SessionsOf(e)' = {}
<1>1. 1 .. sessions \subseteq 1 .. sessions' OBVIOUS
<1>2. \A d \in Chats : SessionsOf(d) \subseteq 1 .. sessions BY DEF SessionInv
<1>3. \A d, e \in Chats : d # e => SessionsOf(d) \cap SessionsOf(e) = {} BY DEF SessionInv
<1>4. \A d \in Chats : SessionsOf(d)' \subseteq 1 .. sessions' BY <1>1, <1>2
<1>5. ASSUME NEW d \in Chats, NEW e \in Chats, d # e, NEW x \in SessionsOf(d)', x \in SessionsOf(e)'
      PROVE  FALSE
  <2>1. x \in SessionsOf(d) \/ (d = c /\ x = r) BY <1>5
  <2>2. x \in SessionsOf(e) \/ (e = c /\ x = r) BY <1>5
  <2> QED BY <1>3, <1>5, <2>1, <2>2
<1> QED BY <1>4, <1>5

\* What a turn adds to the history of its message.
LEMMA RanIs ==
  ASSUME GatewayShape, NEW m \in Messages, NEW r \in Nat, ran' = [ran EXCEPT ![m] = Append(@, r)]
  PROVE  /\ ran' \in [Messages -> Seq(Nat)] /\ ran'[m] = Append(ran[m], r)
         /\ Len(ran[m]) \in Nat /\ Len(ran'[m]) = Len(ran[m]) + 1
         /\ Range(ran'[m]) = Range(ran[m]) \cup {r}
         /\ \A n \in Messages : n # m => ran'[n] = ran[n]
<1>1. ran \in [Messages -> Seq(Nat)] BY DEF GatewayShape
<1>2. ran[m] \in Seq(Nat) /\ Append(ran[m], r) \in Seq(Nat) BY <1>1
<1>3. /\ ran' \in [Messages -> Seq(Nat)] /\ ran'[m] = Append(ran[m], r)
      /\ \A n \in Messages : n # m => ran'[n] = ran[n]
  BY <1>1, <1>2
<1> QED BY <1>2, <1>3, AppendIs

\* A turn begins.
LEMMA StartStep ==
  ASSUME GatewayInv, NEW m \in Messages, StartRun(m)
  PROVE  GatewayInv'
<1> DEFINE c == ChatOf[m]
           r == runtimes'[c]
<1>1. /\ Begins(m) /\ ran' = [ran EXCEPT ![m] = Append(@, r)]
      /\ UNCHANGED <<log, torn, known, locks, asking, cards, asked, ended, approved, lost>>
  BY DEF StartRun, gateway_log
<1>2. c \in Chats BY ChatOfIs
<1>3. /\ sessions \in Nat /\ runtimes \in [Chats -> Nat] /\ mapping \in [Chats -> Nat]
      /\ index \in [Chats -> Nat] /\ locks \in [Chats -> Seq(Messages)] /\ ran \in [Messages -> Seq(Nat)]
      /\ ended \in [Messages -> Nat]
  BY DEF GatewayInv, GatewayShape
<1>4. /\ sessions' \in Nat /\ sessions <= sessions'
      /\ runtimes' \in [Chats -> Nat] /\ mapping' \in [Chats -> Nat] /\ index' \in [Chats -> Nat]
      /\ r \in 1 .. sessions'
      /\ \A d \in Chats : d # c => r \notin SessionsOf(d)
      /\ \A d \in Chats : {index'[d], mapping'[d], runtimes'[d]} \ {0} \subseteq
           SessionsOf(d) \cup (IF d = c THEN {r} ELSE {})
      /\ \A d \in Chats \ lost : /\ mapping'[d] = index'[d]
                                 /\ d # c => index'[d] = index[d]
      /\ c \notin lost => index'[c] = r /\ SessionsOf(c) \subseteq {r}
  <2>0. /\ \A d \in Chats : SessionsOf(d) \subseteq 1 .. sessions
        /\ \A d \in Chats : d # c => SessionsOf(c) \cap SessionsOf(d) = {}
        /\ \A d \in Chats \ lost : mapping[d] = index[d] /\ SessionsOf(d) \subseteq {index[d]}
    BY <1>2 DEF GatewayInv, SessionInv
  <2>1. \A d \in Chats : {index[d], mapping[d], runtimes[d]} \ {0} \subseteq SessionsOf(d)
    BY DEF SessionsOf
  <2>2. CASE runtimes[c] # 0
    <3>1. UNCHANGED <<runtimes, index, mapping, sessions>> BY <2>2 DEF StartRun, gateway_index
    <3>2. r = runtimes[c] /\ r \in SessionsOf(c) BY <1>2, <2>1, <2>2, <3>1
    <3>3. r \in 1 .. sessions BY <1>2, <2>0, <3>2
    <3>4. c \notin lost => index[c] = r BY <1>2, <2>0, <3>2
    <3> HIDE DEF r
    <3> QED BY <1>2, <1>3, <2>0, <2>1, <3>1, <3>2, <3>3, <3>4
  <2>3. CASE runtimes[c] = 0
    <3>1. /\ sessions' = IF mapping[c] = 0 THEN sessions + 1 ELSE sessions
          /\ runtimes' = [runtimes EXCEPT ![c] = IF mapping[c] = 0 THEN sessions' ELSE mapping[c]]
          /\ mapping' = [mapping EXCEPT ![c] = r] /\ index' = mapping'
      BY <2>3 DEF StartRun, IndexWritten
    <3>2. /\ sessions' \in Nat /\ sessions <= sessions'
          /\ runtimes' \in [Chats -> Nat] /\ mapping' \in [Chats -> Nat]
          /\ mapping'[c] = r /\ r \in 1 .. sessions'
          /\ \A d \in Chats : d # c => mapping'[d] = mapping[d] /\ runtimes'[d] = runtimes[d]
          /\ \A d \in Chats : d # c => r \notin SessionsOf(d)
          /\ mapping[c] # 0 => r = mapping[c]
      BY <1>2, <2>3, <3>1, BindIs
    <3> HIDE DEF r
    <3>3. \A d \in Chats : {index'[d], mapping'[d], runtimes'[d]} \ {0} \subseteq
            SessionsOf(d) \cup (IF d = c THEN {r} ELSE {})
      <4> SUFFICES ASSUME NEW d \in Chats
                   PROVE  {index'[d], mapping'[d], runtimes'[d]} \ {0} \subseteq
                            SessionsOf(d) \cup (IF d = c THEN {r} ELSE {})
        OBVIOUS
      <4>1. CASE d = c BY <3>1, <3>2, <4>1 DEF r
      <4>2. CASE d # c BY <2>1, <3>1, <3>2, <4>2
      <4> QED BY <4>1, <4>2
    <3>4. c \notin lost => SessionsOf(c) \subseteq {r}
      <4>1. c \notin lost /\ mapping[c] = 0 => SessionsOf(c) = {}
        <5>1. 0 \notin SessionsOf(c) BY <1>2, <1>3, <2>0
        <5> QED BY <1>2, <2>0, <5>1
      <4> QED BY <1>2, <2>0, <3>2, <4>1
    <3> QED BY <1>2, <1>3, <2>0, <3>1, <3>2, <3>3, <3>4
  <2> QED BY <2>2, <2>3
<1>5. r \in Nat BY <1>4
<1> HIDE DEF r
<1>6. /\ ran' \in [Messages -> Seq(Nat)] /\ ran'[m] = Append(ran[m], r)
      /\ Len(ran[m]) \in Nat /\ Len(ran'[m]) = Len(ran[m]) + 1
      /\ Range(ran'[m]) = Range(ran[m]) \cup {r}
      /\ \A n \in Messages : n # m => ran'[n] = ran[n]
  BY <1>1, <1>5, RanIs DEF GatewayInv
<1>7. GatewayShape' BY <1>1, <1>4, <1>6 DEF GatewayInv, GatewayShape
<1>8. Waiting(m)
  <2>1. locks[c] \in Seq(Messages) /\ locks[c] # <<>> /\ Head(locks[c]) = m
    BY <1>1, <1>2, <1>3 DEF Begins, Holds
  <2>2. 1 \in DOMAIN locks[c] /\ locks[c][1] = m BY <2>1, TailIs
  <2> QED BY <2>2 DEF Waiting
<1>9. \A n \in Messages : Waiting(n)' = Waiting(n) BY <1>1 DEF Waiting
<1>10. SeenInv' BY <1>1, <1>6, <1>8, <1>9 DEF GatewayInv, SeenInv
<1>11. m \notin lost => ran[m] = <<>> BY <1>1, <1>8 DEF GatewayInv, LockInv, Begins
<1>12. ended[m] \in Nat /\ ended[m] <= Len(ran[m]) BY <1>3 DEF GatewayInv, AskInv
<1>13. LockInv'
  <2>1. \A n \in Messages \ lost :
          /\ Len(ran'[n]) <= 1
          /\ Waiting(n)' => ran'[n] = <<>> \/ ended[n] < Len(ran'[n])
    <3> SUFFICES ASSUME NEW n \in Messages \ lost
                 PROVE  /\ Len(ran'[n]) <= 1
                        /\ Waiting(n)' => ran'[n] = <<>> \/ ended[n] < Len(ran'[n])
      OBVIOUS
    <3>1. CASE n = m
      <4>1. Len(ran[m]) = 0 BY <1>11, <3>1
      <4> QED BY <1>6, <1>12, <3>1, <4>1
    <3>2. CASE n # m BY <1>6, <1>9, <3>2 DEF GatewayInv, LockInv
    <3> QED BY <3>1, <3>2
  <2>2. \A d \in Chats : \A i, j \in DOMAIN locks[d] :
          locks[d][i] = locks[d][j] /\ locks[d][i] \notin lost => i = j
    BY DEF GatewayInv, LockInv
  <2> QED BY <1>1, <2>1, <2>2 DEF LockInv
<1>14. \A d \in Chats : SessionsOf(d)' \subseteq SessionsOf(d) \cup (IF d = c THEN {r} ELSE {})
  <2> SUFFICES ASSUME NEW d \in Chats, NEW x \in SessionsOf(d)'
               PROVE  x \in SessionsOf(d) \cup (IF d = c THEN {r} ELSE {})
    OBVIOUS
  <2>1. CASE x \in {index'[d], mapping'[d], runtimes'[d]} \ {0} BY <1>4, <2>1
  <2>2. CASE \E n \in Messages : ChatOf[n] = d /\ x \in Range(ran'[n])
    <3>1. PICK n \in Messages : ChatOf[n] = d /\ x \in Range(ran'[n]) BY <2>2
    <3>2. x \in Range(ran[n]) \/ (n = m /\ x = r) BY <1>6, <3>1
    <3>3. x \in Range(ran[n]) => x \in SessionsOf(d) BY <3>1 DEF SessionsOf
    <3> QED BY <3>1, <3>2, <3>3
  <2> QED BY <2>1, <2>2 DEF SessionsOf
<1>15. SessionInv'
  <2>1. /\ \A d \in Chats : SessionsOf(d)' \subseteq 1 .. sessions'
        /\ \A d, e \in Chats : d # e => SessionsOf(d)' \cap SessionsOf(e)' = {}
    <3>1. SessionInv /\ sessions' \in Nat /\ sessions <= sessions' /\ r \in 1 .. sessions' BY <1>4 DEF GatewayInv
    <3>2. \A d \in Chats : d # c => r \notin SessionsOf(d) BY <1>4
    <3> QED BY ONLY <1>2, <1>3, <1>5, <1>14, <3>1, <3>2, Apart
  <2>2. \A d \in Chats \ lost : mapping'[d] = index'[d] /\ SessionsOf(d)' \subseteq {index'[d]}
    <3> SUFFICES ASSUME NEW d \in Chats \ lost
                 PROVE  mapping'[d] = index'[d] /\ SessionsOf(d)' \subseteq {index'[d]}
      OBVIOUS
    <3>1. SessionsOf(d) \subseteq {index[d]} BY DEF GatewayInv, SessionInv
    <3> QED BY <1>4, <1>14, <3>1
  <2> QED BY <1>1, <2>1, <2>2 DEF SessionInv
<1>16. AskInv'
  <2>1. asking[m] = 0
    <3>1. ran[m] = <<>> => Len(ran[m]) = 0 OBVIOUS
    <3>2. asking[m] # 0 => ended[m] < Len(ran[m]) BY DEF GatewayInv, AskInv
    <3> QED BY <1>1, <1>6, <1>12, <3>1, <3>2 DEF Begins
  <2>2. \A n \in Messages : ended[n] <= Len(ran'[n]) /\ (asking[n] # 0 => ended[n] < Len(ran'[n]))
    <3> SUFFICES ASSUME NEW n \in Messages
                 PROVE  ended[n] <= Len(ran'[n]) /\ (asking[n] # 0 => ended[n] < Len(ran'[n]))
      OBVIOUS
    <3>1. ended[n] <= Len(ran[n]) /\ (asking[n] # 0 => ended[n] < Len(ran[n])) BY DEF GatewayInv, AskInv
    <3>2. CASE n # m BY <1>6, <1>12, <3>1, <3>2
    <3>3. CASE n = m BY <1>6, <1>12, <2>1, <3>1, <3>3
    <3> QED BY <3>2, <3>3
  <2>3. \A card \in cards :
          /\ card.message \in Messages /\ card.number \in 1 .. asked[card.message]
          /\ asking[card.message] = card.number => card.run = Len(ran'[card.message])
    BY <1>6, <2>1 DEF GatewayInv, AskInv, Waits
  <2> QED BY <1>1, <2>2, <2>3 DEF GatewayInv, AskInv, Waits
<1> QED BY <1>7, <1>10, <1>13, <1>15, <1>16 DEF GatewayInv

\* The index could not be written.
LEMMA StartFailsStep ==
  ASSUME GatewayInv, NEW m \in Messages, StartRunFails(m)
  PROVE  GatewayInv'
<1> DEFINE c == ChatOf[m]
           r == runtimes'[c]
<1>1. /\ Begins(m) /\ runtimes[c] = 0
      /\ sessions' = IF mapping[c] = 0 THEN sessions + 1 ELSE sessions
      /\ runtimes' = [runtimes EXCEPT ![c] = IF mapping[c] = 0 THEN sessions' ELSE mapping[c]]
      /\ mapping' = [mapping EXCEPT ![c] = r]
      /\ lost' = lost \cup {c} /\ locks' = [locks EXCEPT ![c] = Tail(@)]
      /\ UNCHANGED <<log, torn, known, index, asking, cards, asked, ran, ended, approved>>
  BY DEF StartRunFails, gateway_log, IndexWritten
<1>2. c \in Chats BY ChatOfIs
<1>3. sessions \in Nat /\ index \in [Chats -> Nat] BY DEF GatewayInv, GatewayShape
<1>4. /\ sessions' \in Nat /\ sessions <= sessions'
      /\ runtimes' \in [Chats -> Nat] /\ mapping' \in [Chats -> Nat]
      /\ mapping'[c] = r /\ r \in 1 .. sessions'
      /\ \A d \in Chats : d # c => mapping'[d] = mapping[d] /\ runtimes'[d] = runtimes[d]
      /\ \A d \in Chats : d # c => r \notin SessionsOf(d)
  BY <1>1, <1>2, BindIs
<1>5. /\ locks' \in [Chats -> Seq(Messages)]
      /\ \A n \in Messages : Waiting(n)' => Waiting(n)
      /\ SeenInv'
      /\ \A d \in Chats : \A i, j \in DOMAIN locks'[d] :
           locks'[d][i] = locks'[d][j] /\ locks'[d][i] \notin lost' => i = j
  BY <1>1, LeaveIs DEF Begins
<1>6. GatewayShape' BY <1>1, <1>4, <1>5 DEF GatewayInv, GatewayShape
<1>7. LockInv' BY <1>1, <1>5 DEF GatewayInv, LockInv
<1>8. \A d \in Chats : SessionsOf(d)' \subseteq SessionsOf(d) \cup (IF d = c THEN {r} ELSE {})
  <2> SUFFICES ASSUME NEW d \in Chats
               PROVE  SessionsOf(d)' \subseteq SessionsOf(d) \cup (IF d = c THEN {r} ELSE {})
    OBVIOUS
  <2> HIDE DEF r
  <2>1. CASE d = c BY <1>1, <1>4, <2>1 DEF SessionsOf, r
  <2>2. CASE d # c BY <1>1, <1>4, <2>2 DEF SessionsOf
  <2> QED BY <2>1, <2>2
<1>9. SessionInv'
  <2>0. r \in Nat BY <1>4
  <2>1. /\ \A d \in Chats : SessionsOf(d)' \subseteq 1 .. sessions'
        /\ \A d, e \in Chats : d # e => SessionsOf(d)' \cap SessionsOf(e)' = {}
    <3> HIDE DEF r
    <3> QED BY <1>2, <1>3, <1>4, <1>8, <2>0, Apart DEF GatewayInv
  <2>2. \A d \in Chats \ lost' : mapping'[d] = index'[d] /\ SessionsOf(d)' \subseteq {index'[d]}
    BY <1>1, <1>4, <1>8 DEF GatewayInv, SessionInv
  <2> QED BY <2>1, <2>2 DEF SessionInv
<1>10. AskInv' BY <1>1, AskKept DEF GatewayInv
<1> QED BY <1>5, <1>6, <1>7, <1>9, <1>10 DEF GatewayInv

\* A turn ends and frees the lock.
LEMMA EndStep ==
  ASSUME GatewayInv, NEW m \in Messages, EndRun(m)
  PROVE  GatewayInv'
<1>1. /\ Holds(m) /\ asking[m] = 0
      /\ ended' = [ended EXCEPT ![m] = Len(ran[m])] /\ locks' = [locks EXCEPT ![ChatOf[m]] = Tail(@)]
      /\ UNCHANGED <<log, torn, known, index, mapping, sessions, runtimes, asking, cards, asked, ran,
                     approved, lost>>
  BY DEF EndRun, Running, gateway_log, gateway_index
<1>2. ran \in [Messages -> Seq(Nat)] /\ ended \in [Messages -> Nat] BY DEF GatewayInv, GatewayShape
<1>3. Len(ran[m]) \in Nat BY <1>2
<1>4. /\ ended' \in [Messages -> Nat] /\ ended'[m] = Len(ran[m])
      /\ \A n \in Messages : n # m => ended'[n] = ended[n]
  BY <1>1, <1>2, <1>3
<1>5. /\ locks' \in [Chats -> Seq(Messages)]
      /\ \A n \in Messages : Waiting(n)' => Waiting(n)
      /\ m \notin lost => ~Waiting(m)'
      /\ SeenInv'
      /\ \A d \in Chats : \A i, j \in DOMAIN locks'[d] :
           locks'[d][i] = locks'[d][j] /\ locks'[d][i] \notin lost' => i = j
  BY <1>1, LeaveIs
<1>6. GatewayShape' BY <1>1, <1>4, <1>5 DEF GatewayInv, GatewayShape
<1>7. \A n \in Messages \ lost :
        /\ Len(ran[n]) <= 1
        /\ Waiting(n)' => ran[n] = <<>> \/ ended'[n] < Len(ran[n])
  BY <1>4, <1>5 DEF GatewayInv, LockInv
<1>8. LockInv' BY <1>1, <1>5, <1>7 DEF LockInv
<1>9. SessionInv' BY <1>1, SessionKept DEF GatewayInv
<1>10. AskInv' BY <1>1, <1>3, <1>4 DEF GatewayInv, AskInv, Waits
<1> QED BY <1>5, <1>6, <1>8, <1>9, <1>10 DEF GatewayInv

\* Requests for approval: one is made, is answered, or ends.
LEMMA AskSteps ==
  ASSUME GatewayInv,
         \/ \E m \in Messages : Ask(m) \/ AskEnds(m)
         \/ \E card \in cards, person \in People, approves \in BOOLEAN : Press(card, person, approves)
  PROVE  GatewayInv'
<1>1. UNCHANGED <<log, torn, known, index, mapping, sessions, runtimes, locks, ran, ended, lost>>
  BY DEF Ask, AskEnds, Press, gateway_log, gateway_index
<1>2. SeenInv' /\ LockInv' /\ SessionInv' BY <1>1, SeenKept, LockKept, SessionKept DEF GatewayInv
<1>3. /\ asking \in [Messages -> Nat] /\ asked \in [Messages -> Nat]
      /\ ran \in [Messages -> Seq(Nat)] /\ ended \in [Messages -> Nat]
  BY DEF GatewayInv, GatewayShape
<1>4. ASSUME NEW m \in Messages, Ask(m) PROVE GatewayInv'
  <2> DEFINE new == [message |-> m, number |-> asked'[m], run |-> Len(ran[m])]
  <2>1. /\ Running(m) /\ asked' = [asked EXCEPT ![m] = @ + 1]
        /\ asking' = [asking EXCEPT ![m] = asked'[m]] /\ cards' = cards \cup {new} /\ approved' = approved
    BY <1>4 DEF Ask
  <2>2. /\ asked' \in [Messages -> Nat] /\ asking' \in [Messages -> Nat]
        /\ asked'[m] = asked[m] + 1 /\ asking'[m] = asked'[m] /\ asked[m] \in Nat
        /\ \A n \in Messages : n # m => asked'[n] = asked[n] /\ asking'[n] = asking[n]
    BY <1>3, <2>1
  <2>3. GatewayShape' BY <1>1, <2>2 DEF GatewayInv, GatewayShape
  <2>4. \A n \in Messages : ended[n] <= Len(ran[n]) /\ (asking'[n] # 0 => ended[n] < Len(ran[n]))
    BY <2>1, <2>2 DEF GatewayInv, AskInv, Running
  <2>5. \A card \in cards' :
          /\ card.message \in Messages /\ card.number \in 1 .. asked'[card.message]
          /\ asking'[card.message] = card.number => card.run = Len(ran[card.message])
    <3> SUFFICES ASSUME NEW card \in cards'
                 PROVE  /\ card.message \in Messages /\ card.number \in 1 .. asked'[card.message]
                        /\ asking'[card.message] = card.number => card.run = Len(ran[card.message])
      OBVIOUS
    <3>1. CASE card = new BY <2>2, <3>1
    <3>2. CASE card \in cards
      <4>1. /\ card.message \in Messages /\ card.number \in 1 .. asked[card.message]
            /\ asking[card.message] = card.number => card.run = Len(ran[card.message])
        BY <3>2 DEF GatewayInv, AskInv, Waits
      <4> QED BY <2>2, <4>1
    <3> QED BY <2>1, <3>1, <3>2
  <2>6. AskInv' BY <1>1, <2>1, <2>4, <2>5 DEF GatewayInv, AskInv, Waits
  <2> QED BY <1>2, <2>3, <2>6 DEF GatewayInv
<1>5. ASSUME NEW m \in Messages, AskEnds(m) PROVE GatewayInv'
  <2>1. asking' = [asking EXCEPT ![m] = 0] /\ UNCHANGED <<cards, asked, approved>> BY <1>5 DEF AskEnds
  <2>2. /\ asking' \in [Messages -> Nat] /\ asking'[m] = 0
        /\ \A n \in Messages : n # m => asking'[n] = asking[n]
    BY <1>3, <2>1
  <2>3. GatewayShape' BY <1>1, <2>1, <2>2 DEF GatewayInv, GatewayShape
  <2>4. AskInv' BY <1>1, <2>1, <2>2 DEF GatewayInv, AskInv, Waits
  <2> QED BY <1>2, <2>3, <2>4 DEF GatewayInv
<1>6. ASSUME NEW card \in cards, NEW person \in People, NEW approves \in BOOLEAN,
             Press(card, person, approves)
      PROVE  GatewayInv'
  <2> DEFINE m == card.message
             new == [card |-> card, by |-> person, run |-> Len(ran[m])]
  <2>1. /\ Waits(card) /\ person = SenderOf[m] /\ asking' = [asking EXCEPT ![m] = 0]
        /\ approved' \in {approved, approved \cup {new}} /\ UNCHANGED <<cards, asked>>
    BY <1>6 DEF Press
  <2>2. m \in Messages /\ card.run = Len(ran[m]) BY <2>1 DEF GatewayInv, AskInv
  <2>3. /\ asking' \in [Messages -> Nat] /\ asking'[m] = 0
        /\ \A n \in Messages : n # m => asking'[n] = asking[n]
    BY <1>3, <2>1, <2>2
  <2>4. GatewayShape' BY <1>1, <2>1, <2>3 DEF GatewayInv, GatewayShape
  <2>5. \A a \in approved' : a.by = SenderOf[a.card.message] /\ a.run = a.card.run
    BY <2>1, <2>2 DEF GatewayInv, AskInv
  <2>6. AskInv' BY <1>1, <2>1, <2>2, <2>3, <2>5 DEF GatewayInv, AskInv, Waits
  <2> QED BY <1>2, <2>4, <2>6 DEF GatewayInv
<1> QED BY <1>4, <1>5, <1>6

\* The gateway ends and starts again.
LEMMA RestartStep ==
  ASSUME GatewayInv, NEW m \in Messages, NEW partly \in BOOLEAN, GatewayRestarts(m, partly)
  PROVE  GatewayInv'
<1>1. /\ known' = Newest(log') /\ lost' = lost \cup (Range(log') \ Range(known')) /\ mapping' = index
      /\ runtimes' = [c \in Chats |-> 0] /\ locks' = [c \in Chats |-> <<>>]
      /\ asking' = [n \in Messages |-> 0] /\ ended' = [n \in Messages |-> Len(ran[n])]
      /\ UNCHANGED <<index, sessions, cards, asked, ran, approved>>
  BY DEF GatewayRestarts, Loaded
<1>2. log \in Seq(Line) /\ ran \in [Messages -> Seq(Nat)] BY DEF GatewayInv, GatewayShape, Line
<1>3. /\ log' \in Seq(Line) /\ Range(log) \subseteq Range(log')
      /\ torn' => log' # <<>> /\ log'[Len(log')] = "broken"
  <2>1. CASE partly
    <3>1. log' = Append(log, "broken") BY <2>1 DEF GatewayRestarts
    <3>2. "broken" \in Line BY DEF Line
    <3>3. /\ log' \in Seq(Line) /\ Len(log) \in Nat /\ Len(log') = Len(log) + 1
          /\ Range(log') = Range(log) \cup {"broken"} /\ log'[Len(log) + 1] = "broken"
      BY <1>2, <3>1, <3>2, AppendIs
    <3> QED BY <3>3
  <2>2. CASE ~partly
    <3>1. UNCHANGED <<log, torn>> BY <2>2 DEF GatewayRestarts
    <3> QED BY <1>2, <3>1 DEF GatewayInv, GatewayShape
  <2> QED BY <2>1, <2>2
<1>4. known' \in Seq(Line) /\ Len(known') <= KeptEntries BY <1>1, <1>3, NewestIs
<1>5. \A n \in Messages : Len(ran[n]) \in Nat BY <1>2
<1>6. GatewayShape'
  <2>1. locks' \in [Chats -> Seq(Messages)]
    <3>1. <<>> \in Seq(Messages) OBVIOUS
    <3> QED BY <1>1, <3>1
  <2>2. ended' \in [Messages -> Nat] BY <1>1, <1>5
  <2>3. asking' \in [Messages -> Nat] /\ runtimes' \in [Chats -> Nat] BY <1>1
  <2> QED BY <1>1, <1>3, <1>4, <2>1, <2>2, <2>3 DEF GatewayInv, GatewayShape, Line
<1>7. \A n \in Messages : ~Waiting(n)'
  <2>1. \A c \in Chats : DOMAIN locks'[c] = {} BY <1>1
  <2> QED BY <2>1, ChatOfIs DEF Waiting
<1>8. SeenInv'
  <2>1. \A n \in Messages \ lost' : n \in Range(log') => n \in Range(known') BY <1>1
  <2>2. Range(known') \subseteq Range(log')
    <3> DEFINE s == log'
    <3>1. s \in Seq(Line) /\ Newest(s) \in Seq(Line) /\ known' = Newest(s) BY <1>1, <1>3, NewestIs
    <3> HIDE DEF s
    <3>2. Range(Newest(s)) \subseteq Range(s) BY <3>1, NewestIn
    <3> QED BY <3>1, <3>2 DEF s
  <2>3. \A n \in Messages \ lost : ran[n] # <<>> => n \in Range(log) BY DEF GatewayInv, SeenInv
  <2>4. lost \subseteq lost' BY <1>1
  <2> QED BY <1>1, <1>3, <1>7, <2>1, <2>2, <2>3, <2>4 DEF SeenInv
<1>9. LockInv'
  <2>1. \A c \in Chats : DOMAIN locks'[c] = {} BY <1>1
  <2> QED BY <1>1, <1>7, <2>1 DEF GatewayInv, LockInv
<1>10. \A c \in Chats : SessionsOf(c)' \subseteq SessionsOf(c)
  <2>1. \A c \in Chats : runtimes'[c] = 0 BY <1>1
  <2> QED BY <1>1, <2>1 DEF SessionsOf
<1>11. SessionInv' BY <1>1, <1>10 DEF GatewayInv, SessionInv
<1>12. AskInv' BY <1>1, <1>5 DEF GatewayInv, AskInv, Waits
<1> QED BY <1>6, <1>8, <1>9, <1>11, <1>12 DEF GatewayInv

\* GatewayInv is an invariant: neither repeated messages, nor restarts, nor failed or torn writes lead
\* out of it.
THEOREM GatewayInductive == GatewaySpec => []GatewayInv
<1>1. GatewayInv /\ [GatewayNext]_gateway_vars => GatewayInv'
  <2> SUFFICES ASSUME GatewayInv, [GatewayNext]_gateway_vars PROVE GatewayInv' OBVIOUS
  <2>1. CASE UNCHANGED gateway_vars
    <3>1. UNCHANGED <<log, torn, known, index, mapping, sessions, runtimes, locks, asking, cards,
                      asked, ran, ended, approved, lost>>
      BY <2>1 DEF gateway_vars, gateway_log, gateway_index
    <3>2. GatewayShape' BY <3>1 DEF GatewayInv, GatewayShape
    <3> QED BY <3>1, <3>2, SeenKept, LockKept, SessionKept, AskKept DEF GatewayInv
  <2>2. CASE GatewayNext
    BY <2>2, DeliverStep, StartStep, StartFailsStep, EndStep, AskSteps, RestartStep DEF GatewayNext
  <2> QED BY <2>1, <2>2
<1> QED BY <1>1, GatewayBegins, PTL DEF GatewaySpec

\* OneTurnOneSession for every number of messages, chats, people and restarts, and every size of
\* the log (DurableEventDeduplicator, ChannelSessionIndex, ApprovalBroker).
THEOREM OneTurn == GatewaySpec => []OneTurnOneSession
<1>1. GatewayInv => OneTurnOneSession
  <2> SUFFICES ASSUME GatewayInv PROVE OneTurnOneSession OBVIOUS
  <2>1. \A m \in Messages \ lost : Len(ran[m]) <= 1 BY DEF GatewayInv, LockInv
  <2>2. ASSUME NEW m \in Messages, NEW n \in Messages, NEW r \in Range(ran[m]), NEW s \in Range(ran[n])
        PROVE  /\ ChatOf[m] = ChatOf[n] /\ ChatOf[m] \notin lost => r = s
               /\ r = s => ChatOf[m] = ChatOf[n]
    <3>1. ChatOf[m] \in Chats /\ ChatOf[n] \in Chats BY ChatOfIs
    <3>2. r \in SessionsOf(ChatOf[m]) /\ s \in SessionsOf(ChatOf[n]) BY DEF SessionsOf
    <3> QED BY <3>1, <3>2 DEF GatewayInv, SessionInv
  <2>3. \A a \in approved : a.by = SenderOf[a.card.message] /\ a.run = a.card.run BY DEF GatewayInv, AskInv
  <2> QED BY <2>1, <2>2, <2>3 DEF OneTurnOneSession
<1> QED BY <1>1, GatewayInductive, PTL

-----------------------------------------------------------------------------
(* Mcp. *)

USE McpAssumption

Slots == Refreshers \cup {"conversation"}

\* Each name leads to one adapter at most, and each server is recorded with names.
RegistryInv ==
    /\ registered \in [ToolNames -> Servers \cup {Nobody, "local"}]
    /\ recorded \in [Servers -> SUBSET ToolNames]
    /\ RegistryAgrees

\* A refresh has read names, for a server that is configured unless it is nobody's.
RefreshInv ==
    refreshes \in [Slots -> [server: Servers \cup {Nobody}, found: Seq(ToolNames)]]

User == [does: {"nothing", "ensuring", "authorizing", "opening", "listing", "calling",
                "resetting", "closing"},
         server: Servers \cup {Nobody}, why: {"none", "plan", "ensure", "call"},
         left: SUBSET Servers]

\* What the conversation works at is a configured server, from asking for approval to the
\* answer of a call.
UserInv ==
    /\ user \in User
    /\ user.does \in {"authorizing", "opening", "listing", "calling"} \/ user.why = "call" =>
          user.server \in Servers

CarriedInv == RefreshInv /\ UserInv
McpIInv == RegistryInv /\ CarriedInv

\* _disconnect takes exactly the names of its server out of the registry.
LEMMA DisconnectKeeps ==
  ASSUME RegistryInv, NEW s \in Servers, NEW conn, Disconnect(s, conn)
  PROVE  RegistryInv'
<1>1. /\ registered' = [n \in ToolNames |-> IF n \in recorded[s] THEN Nobody ELSE registered[n]]
      /\ recorded' = [recorded EXCEPT ![s] = {}]
  BY DEF Disconnect
<1>2. registered' \in [ToolNames -> Servers \cup {Nobody, "local"}]
  BY <1>1 DEF RegistryInv
<1>3. recorded' \in [Servers -> SUBSET ToolNames] BY <1>1 DEF RegistryInv
<1>4. ASSUME NEW t \in Servers PROVE {n \in ToolNames : registered'[n] = t} = recorded'[t]
  <2>1. {n \in ToolNames : registered[n] = s} = recorded[s]
        /\ {n \in ToolNames : registered[n] = t} = recorded[t]
    BY DEF RegistryInv, RegistryAgrees
  <2>2. CASE t = s BY <1>1, <2>1, <2>2 DEF RegistryInv
  <2>3. CASE t # s BY <1>1, <2>1, <2>3 DEF RegistryInv
  <2> QED BY <2>2, <2>3
<1>5. ASSUME NEW n \in LocalTools PROVE registered'[n] = "local"
  <2>1. registered[n] = "local" /\ n \in ToolNames BY DEF RegistryInv, RegistryAgrees
  <2>2. n \notin recorded[s] BY <2>1 DEF RegistryInv, RegistryAgrees
  <2> QED BY <1>1, <2>1, <2>2
<1> QED BY <1>2, <1>3, <1>4, <1>5 DEF RegistryInv, RegistryAgrees

\* A list that passed the check against the registry takes only its own and free names.
LEMMA ReplaceKeeps ==
  ASSUME McpIInv, NEW r \in Slots, Replace(r)
  PROVE  RegistryInv'
<1> DEFINE s == refreshes[r].server
           new == Range(refreshes[r].found)
<1>0. RegistryInv BY DEF McpIInv
<1>1. s \in Servers /\ new \subseteq ToolNames
  <2>1. refreshes[r] \in [server: Servers \cup {Nobody}, found: Seq(ToolNames)]
    BY DEF McpIInv, CarriedInv, RefreshInv
  <2>2. refreshes[r].server \in Servers \cup {Nobody} /\ refreshes[r].found \in Seq(ToolNames)
    BY <2>1
  <2>3. new \subseteq ToolNames BY <2>2 DEF Range
  <2> QED BY <2>2, <2>3 DEF Replace
<1> HIDE DEF new, s
<1>2. CASE UNCHANGED <<recorded, registered>>
  BY <1>0, <1>2 DEF RegistryInv, RegistryAgrees
<1>3. CASE /\ Unavailable(s) \cap new = {}
           /\ registered' = [n \in ToolNames |-> IF n \in new THEN s
                                ELSE IF n \in recorded[s] THEN Nobody ELSE registered[n]]
           /\ recorded' = [recorded EXCEPT ![s] = new]
  <2>0. recorded[s] = {n \in ToolNames : registered[n] = s}
    BY <1>0, <1>1 DEF RegistryInv, RegistryAgrees
  <2>1. \A n \in new : registered[n] = Nobody \/ registered[n] = s
    BY <1>1, <1>3, <2>0 DEF Unavailable
  <2>2. registered' \in [ToolNames -> Servers \cup {Nobody, "local"}]
    BY <1>0, <1>1, <1>3 DEF RegistryInv
  <2>3. recorded' \in [Servers -> SUBSET ToolNames] BY <1>0, <1>1, <1>3 DEF RegistryInv
  <2>4. ASSUME NEW t \in Servers PROVE {n \in ToolNames : registered'[n] = t} = recorded'[t]
    <3>1. {n \in ToolNames : registered[n] = t} = recorded[t]
      BY <1>0 DEF RegistryInv, RegistryAgrees
    <3>2. CASE t = s BY <1>0, <1>1, <1>3, <2>0, <3>2 DEF RegistryInv
    <3>3. CASE t # s BY <1>0, <1>1, <1>3, <2>0, <2>1, <3>1, <3>3 DEF RegistryInv
    <3> QED BY <3>2, <3>3
  <2>5. ASSUME NEW n \in LocalTools PROVE registered'[n] = "local"
    <3>1. registered[n] = "local" /\ n \in ToolNames BY <1>0 DEF RegistryInv, RegistryAgrees
    <3>2. n \notin new /\ n \notin recorded[s] BY <1>1, <2>0, <2>1, <3>1
    <3> QED BY <1>3, <3>1, <3>2
  <2> QED BY <2>2, <2>3, <2>4, <2>5 DEF RegistryInv, RegistryAgrees
<1> QED BY <1>2, <1>3 DEF Replace, s, new

\* Where the conversation goes after connecting keeps what it carries.
LEMMA AfterConnectingKeeps ==
  ASSUME UserInv, NEW s, NEW c \in BOOLEAN, AfterConnecting(s, c)
  PROVE  UserInv'
<1>1. CASE user.why = "call" /\ c
  <2>1. user' = [user EXCEPT !.does = "calling"] BY <1>1 DEF AfterConnecting
  <2> QED BY <1>1, <2>1 DEF UserInv, User
<1>2. CASE user.why = "call" /\ ~c
  <2>1. user' = Resting BY <1>2 DEF AfterConnecting
  <2> QED BY <2>1 DEF UserInv, User, Resting
<1>3. CASE user.why # "call"
  <2>1. user' = [user EXCEPT !.does = "ensuring", !.server = Nobody]
    BY <1>3 DEF AfterConnecting
  <2> QED BY <1>3, <2>1 DEF UserInv, User
<1> QED BY <1>1, <1>2, <1>3

\* So does a refresh that is over.
LEMMA RefreshOverKeeps ==
  ASSUME CarriedInv, NEW r \in Slots, NEW state, RefreshOver(r, state)
  PROVE  CarriedInv'
<1>1. refreshes' = [refreshes EXCEPT ![r] = NoRefresh] BY DEF RefreshOver
<1>2. NoRefresh \in [server: Servers \cup {Nobody}, found: Seq(ToolNames)] BY DEF NoRefresh
<1>3. RefreshInv' BY <1>1, <1>2 DEF CarriedInv, RefreshInv
<1>4. UserInv'
  <2>1. CASE user' = user BY <2>1 DEF CarriedInv, UserInv
  <2>2. CASE \E s : AfterConnecting(s, TRUE)
    BY <2>2, AfterConnectingKeeps DEF CarriedInv
  <2> QED BY <2>1, <2>2 DEF RefreshOver
<1> QED BY <1>3, <1>4 DEF CarriedInv

\* A step that leaves registry and refreshes alone: the conversation is all there is to see.
LEMMA UserOnly ==
  ASSUME McpIInv, UNCHANGED <<registered, recorded, refreshes>>, UserInv'
  PROVE  McpIInv'
BY DEF McpIInv, RegistryInv, RegistryAgrees, CarriedInv, RefreshInv

\* Turns, calls and resets that only move the conversation on.
LEMMA UserSteps ==
  ASSUME McpIInv,
         \/ EnsureConnected \/ EnsureDone \/ \E granted \in BOOLEAN : Authorize(granted)
         \/ \E s \in Servers : TransportError(s) \/ CallTool(s)
         \/ CallAnswered \/ ResetSession \/ ResetDone
  PROVE  McpIInv'
<1>0. UserInv BY DEF McpIInv, CarriedInv
<1>1. UNCHANGED <<registered, recorded, refreshes>>
  BY DEF EnsureConnected, EnsureDone, Authorize, TransportError, CallTool, CallAnswered,
         ResetSession, ResetDone
<1>2. UserInv'
  <2>1. CASE EnsureConnected \/ ResetSession
    BY <2>1 DEF EnsureConnected, ResetSession, Resting, UserInv, User
  <2>2. CASE EnsureDone \/ CallAnswered \/ ResetDone
    BY <2>2 DEF EnsureDone, CallAnswered, ResetDone, Resting, UserInv, User
  <2>3. ASSUME NEW granted \in BOOLEAN, Authorize(granted) PROVE UserInv'
    <3>1. CASE granted
      <4>1. user' = [user EXCEPT !.does = "opening"] /\ user.does = "authorizing"
        BY <2>3, <3>1 DEF Authorize
      <4> QED BY <1>0, <4>1 DEF UserInv, User
    <3>2. CASE ~granted
      <4>1. AfterConnecting(user.server, FALSE) BY <2>3, <3>2 DEF Authorize
      <4> QED BY <1>0, <4>1, AfterConnectingKeeps
    <3> QED BY <3>1, <3>2
  <2>4. ASSUME NEW s \in Servers, TransportError(s) PROVE UserInv'
    BY <1>0, <2>4 DEF TransportError, UserInv
  <2>5. ASSUME NEW s \in Servers, CallTool(s) PROVE UserInv'
    <3>1. PICK d \in {"authorizing", "calling"} :
            user' = [Resting EXCEPT !.server = s, !.why = "call", !.does = d]
      BY <2>5 DEF CallTool
    <3> QED BY <3>1 DEF Resting, UserInv, User
  <2> QED BY <2>1, <2>2, <2>3, <2>4, <2>5
<1> QED BY <1>1, <1>2, UserOnly

\* Going through the servers and leaving them, one _disconnect at a time.
LEMMA LeaveSteps ==
  ASSUME McpIInv, EnsureNext \/ LeaveServer \/ AnswerLost
  PROVE  McpIInv'
<1>0. RegistryInv /\ UserInv /\ RefreshInv BY DEF McpIInv, CarriedInv
<1>1. RefreshInv' BY <1>0 DEF EnsureNext, LeaveServer, AnswerLost, RefreshInv
<1>2. CASE EnsureNext
  <2>1. PICK s \in user.left :
          IF user.why = "plan"
          THEN /\ user' = [user EXCEPT !.left = @ \ {s}]
               /\ IF connections[s].session = 0
                  THEN UNCHANGED <<connections, recorded, registered>>
                  ELSE Disconnect(s, [connections[s] EXCEPT !.state = "disabled", !.session = 0])
          ELSE /\ user' = IF connections[s].session # 0 \/ connections[s].denied
                          THEN [user EXCEPT !.left = @ \ {s}]
                          ELSE [user EXCEPT !.left = @ \ {s}, !.does = "authorizing",
                                            !.server = s]
               /\ UNCHANGED <<connections, recorded, registered>>
    BY <1>2 DEF EnsureNext
  <2>2. s \in Servers BY <1>0 DEF UserInv, User
  <2>3. \/ UNCHANGED <<recorded, registered>>
        \/ Disconnect(s, [connections[s] EXCEPT !.state = "disabled", !.session = 0])
    BY <2>1
  <2>4. RegistryInv'
    BY <1>0, <2>2, <2>3, DisconnectKeeps DEF RegistryInv, RegistryAgrees
  <2>5. UserInv'
    <3>1. CASE user' = [user EXCEPT !.left = @ \ {s}] BY <1>0, <3>1 DEF UserInv, User
    <3>2. CASE user' = [user EXCEPT !.left = @ \ {s}, !.does = "authorizing", !.server = s]
      BY <1>0, <2>2, <3>2 DEF UserInv, User
    <3> QED BY <2>1, <3>1, <3>2
  <2> QED BY <1>1, <2>4, <2>5 DEF McpIInv, CarriedInv
<1>3. CASE LeaveServer
  <2>1. PICK s \in user.left : /\ user' = [user EXCEPT !.left = @ \ {s}]
                               /\ \E conn : Disconnect(s, conn)
    BY <1>3 DEF LeaveServer
  <2>2. s \in Servers BY <1>0 DEF UserInv, User
  <2>3. RegistryInv' BY <1>0, <2>1, <2>2, DisconnectKeeps
  <2>4. UserInv' BY <1>0, <2>1 DEF UserInv, User
  <2> QED BY <1>1, <2>3, <2>4 DEF McpIInv, CarriedInv
<1>4. CASE AnswerLost
  <2>1. /\ user' = Resting /\ user.server \in Servers
        /\ \E conn : Disconnect(user.server, conn)
    BY <1>0, <1>4 DEF AnswerLost, UserInv
  <2>2. RegistryInv' BY <1>0, <2>1, DisconnectKeeps
  <2>3. UserInv' BY <2>1 DEF UserInv, User, Resting
  <2> QED BY <1>1, <2>2, <2>3 DEF McpIInv, CarriedInv
<1> QED BY <1>2, <1>3, <1>4

\* Connections that open or fail, refreshes that begin, read a page or are dropped.
LEMMA RefreshSteps ==
  ASSUME McpIInv,
         \/ Opened \/ ConnectFails \/ TurnCancelled \/ McpClose
         \/ \E r \in Refreshers : ToolListChanged(r)
         \/ \E r \in Slots : NextPage(r)
  PROVE  McpIInv'
<1>0. RegistryInv /\ UserInv /\ RefreshInv BY DEF McpIInv, CarriedInv
<1>1. UNCHANGED <<registered, recorded>>
  BY DEF Opened, ConnectFails, TurnCancelled, McpClose, ToolListChanged, NextPage
<1>2. RegistryInv' BY <1>0, <1>1 DEF RegistryInv, RegistryAgrees
<1>3. NoRefresh \in [server: Servers \cup {Nobody}, found: Seq(ToolNames)] /\ "conversation" \in Slots
  BY DEF NoRefresh, Slots
<1>4. CASE Opened
  <2>1. /\ user.server \in Servers /\ user' = [user EXCEPT !.does = "listing"]
        /\ refreshes' = [refreshes EXCEPT !["conversation"].server = user.server]
    BY <1>0, <1>4 DEF Opened, UserInv
  <2>2. RefreshInv' BY <1>0, <1>3, <2>1 DEF RefreshInv
  <2>3. UserInv' BY <1>0, <2>1 DEF UserInv, User
  <2> QED BY <1>2, <2>2, <2>3 DEF McpIInv, CarriedInv
<1>5. CASE ConnectFails
  <2>1. RefreshInv' BY <1>0, <1>3, <1>5 DEF RefreshInv, ConnectFails
  <2>2. UserInv' BY <1>0, <1>5, AfterConnectingKeeps DEF ConnectFails
  <2> QED BY <1>2, <2>1, <2>2 DEF McpIInv, CarriedInv
<1>6. CASE TurnCancelled
  <2>1. RefreshInv' BY <1>0, <1>3, <1>6 DEF RefreshInv, TurnCancelled
  <2>2. UserInv' BY <1>6 DEF TurnCancelled, UserInv, User, Resting
  <2> QED BY <1>2, <2>1, <2>2 DEF McpIInv, CarriedInv
<1>7. CASE McpClose
  <2>1. RefreshInv' BY <1>0, <1>3, <1>7 DEF RefreshInv, McpClose
  <2>2. UserInv' BY <1>7 DEF McpClose, UserInv, User, Resting
  <2> QED BY <1>2, <2>1, <2>2 DEF McpIInv, CarriedInv
<1>8. ASSUME NEW r \in Refreshers, ToolListChanged(r) PROVE McpIInv'
  <2>1. PICK s \in Servers : refreshes' = [refreshes EXCEPT ![r].server = s]
    BY <1>8 DEF ToolListChanged
  <2>2. r \in Slots BY DEF Slots
  <2>3. RefreshInv' BY <1>0, <2>1, <2>2 DEF RefreshInv
  <2>4. UserInv' BY <1>0, <1>8 DEF UserInv, ToolListChanged
  <2> QED BY <1>2, <2>3, <2>4 DEF McpIInv, CarriedInv
<1>9. ASSUME NEW r \in Slots, NextPage(r) PROVE McpIInv'
  <2>1. PICK n \in ToolNames : refreshes' = [refreshes EXCEPT ![r].found = Append(@, n)]
    BY <1>9 DEF NextPage
  <2>2. refreshes[r].found \in Seq(ToolNames) BY <1>0 DEF RefreshInv
  <2>3. Append(refreshes[r].found, n) \in Seq(ToolNames) BY <2>2
  <2>4. RefreshInv' BY <1>0, <2>1, <2>3 DEF RefreshInv
  <2>5. UserInv' BY <1>0, <1>9 DEF UserInv, NextPage
  <2> QED BY <1>2, <2>4, <2>5 DEF McpIInv, CarriedInv
<1> QED BY <1>4, <1>5, <1>6, <1>7, <1>8, <1>9

\* The last page, or the failure that takes its place.
LEMMA RefreshEnds ==
  ASSUME McpIInv, NEW r \in Slots, Replace(r) \/ RefreshFails(r)
  PROVE  McpIInv'
<1>0. RegistryInv /\ CarriedInv BY DEF McpIInv
<1>1. \E state : RefreshOver(r, state) BY DEF Replace, RefreshFails
<1>2. CarriedInv' BY <1>0, <1>1, RefreshOverKeeps
<1>3. RegistryInv'
  <2>1. CASE Replace(r) BY <2>1, ReplaceKeeps
  <2>2. CASE RefreshFails(r) BY <1>0, <2>2 DEF RefreshFails, RegistryInv, RegistryAgrees
  <2> QED BY <2>1, <2>2
<1> QED BY <1>2, <1>3 DEF McpIInv

\* What the manager recorded is what the registry leads to, however refreshes, lost answers,
\* resets and cancelled turns overlap (refresh_tools and _disconnect of MCPClientManager).
THEOREM RegistryKept == McpSpec => []RegistryAgrees
<1>1. McpInit => McpIInv
  <2> SUFFICES ASSUME McpInit PROVE McpIInv OBVIOUS
  <2>1. RegistryInv BY DEF McpInit, RegistryInv, RegistryAgrees
  <2>2. UserInv BY DEF McpInit, UserInv, User, Resting
  <2>3. RefreshInv BY DEF McpInit, RefreshInv, Slots, NoRefresh
  <2> QED BY <2>1, <2>2, <2>3 DEF McpIInv, CarriedInv
<1>2. McpIInv /\ [McpNext]_mcp_vars => McpIInv'
  <2> SUFFICES ASSUME McpIInv, [McpNext]_mcp_vars PROVE McpIInv' OBVIOUS
  <2>1. DOMAIN refreshes = Slots BY DEF McpIInv, CarriedInv, RefreshInv
  <2>2. CASE McpNext
    BY <2>1, <2>2, UserSteps, LeaveSteps, RefreshSteps, RefreshEnds DEF McpNext
  <2>3. CASE UNCHANGED mcp_vars
    BY <2>3, UserOnly DEF mcp_vars, McpIInv, CarriedInv, UserInv
  <2> QED BY <2>2, <2>3
<1>3. McpIInv => RegistryAgrees BY DEF McpIInv, RegistryInv
<1> QED BY <1>1, <1>2, <1>3, PTL DEF McpSpec

-----------------------------------------------------------------------------
(* Permissions and confirmations. *)

\* What a call may be classified as.
Capabilities == ReadOnly \cup {"file.write", "file.delete", "mcp.write", "process.privileged",
                               "process.exec", "dependency.install", "network.access"}

\* The control state, and rules that are kept per holder and scope.
PermShape ==
  /\ mode \in Modes /\ child \in BOOLEAN /\ sitting \in Nat \ {0}
  /\ DOMAIN rules = Holders
  /\ rules = [h \in Holders |-> [project |-> rules[h].project, session |-> rules[h].session]]
  /\ projectFile = [readable |-> projectFile.readable, rules |-> projectFile.rules]

\* A request names the files of the call or nothing; the protected ones among them are refused,
\* unless the tool states its request itself.
Tells(r) ==
  /\ r.files = r.targets \/ r.targets = {}
  /\ r.targets \cap Protected # {} =>
       r.hard \/ r.capability \in {"mcp.read", "mcp.write", "file.delete"}

\* What the user is asked about was found neither forbidden nor denied, and still is not.
QuestionInv ==
  question # Nothing =>
    /\ question.capability \in Capabilities /\ question.targets \subseteq Targets /\ Tells(question)
    /\ ~question.hard
    /\ question.capability \notin ReadOnly => ~profile.readOnly /\ mode # "plan"
    /\ ~\E s \in Matching(Acting, question) : s.rule.action = "deny"

\* A rule that an answer left: no wider than the answer, and never for what is asked each time.
LeftBy(rule, a) ==
  /\ rule = Grant(a)
  /\ a.capability \in Capabilities \ {"mcp.write"} /\ a.targets \subseteq Targets
  /\ a.capability = "file.delete" => Cardinality(a.targets) = 1 /\ a.sitting # 0

\* A rule of the project that was written by somebody, or left by an answer for the project.
ForProject(rule) ==
  \/ rule \in written
  \/ \E a \in remembered : LeftBy(rule, a) /\ a.sitting = 0

\* A rule of the session that an answer of this session left, to the holder or to its parent.
ForSession(h, rule) ==
  \E a \in remembered : LeftBy(rule, a) /\ a.sitting = sitting /\ (a.holder = "parent" \/ h = "child")

\* Every rule in the file and in memory has its origin.
RulesInv ==
  /\ \A rule \in projectFile.rules : ForProject(rule)
  /\ \A h \in Holders : \A rule \in rules[h].project : profile.stored /\ ForProject(rule)
  /\ \A h \in Holders : \A rule \in rules[h].session : ForSession(h, rule)
  /\ ~child => rules["child"].session = {}

\* The inductive invariant.
PermInv == PermShape /\ QuestionInv /\ RulesInv /\ AllowedIsGranted

USE DEF Modes

\* What a call asks for is one of the capabilities, and about the targets of the call.
LEMMA ClassifyIs ==
  ASSUME NEW call \in CallSet
  PROVE  /\ Classify(call).capability \in Capabilities
         /\ Classify(call).targets \subseteq Targets
         /\ Tells(Classify(call))
<1>1. call.targets \subseteq Targets /\ (call.files = call.targets \/ call.targets = {})
  BY DEF CallSet, Named, IsDiff
<1>2. /\ ClassifyProcess(call).capability \in Capabilities
      /\ ClassifyProcess(call).targets = call.targets
      /\ ClassifyProcess(call).files = call.files
  BY DEF ClassifyProcess, Request, Capabilities, ReadOnly
<1>3. /\ Classify(call).capability \in Capabilities
      /\ Classify(call).targets = call.targets
      /\ Classify(call).files = call.files
  BY <1>2 DEF Classify, Request, Capabilities, ReadOnly
<1>4. ASSUME call.targets \cap Protected # {}
      PROVE  \/ Classify(call).hard
             \/ Classify(call).capability \in {"mcp.read", "mcp.write", "file.delete"}
  BY <1>4 DEF Classify, Request
<1> QED BY <1>1, <1>3, <1>4 DEF Tells

\* A rule that says so is among those that match a request; a layer of the rules holds one.
Says(h, r, action) == \E s \in Matching(h, r) : s.rule.action = action
Ruled(h, r, action) ==
  \E rule \in (IF profile.stored THEN UserRules ELSE {}) \cup rules[h].project \cup rules[h].session :
    rule.action = action /\ RuleMatches(rule, r)

\* The rules that count are those of the user, the project and the session that match.
LEMMA MatchingIs ==
  ASSUME NEW h, NEW r, NEW action
  PROVE  Says(h, r, action) <=> Ruled(h, r, action)
<1>1. ASSUME NEW s \in Matching(h, r), s.rule.action = action
      PROVE  \E rule \in (IF profile.stored THEN UserRules ELSE {}) \cup rules[h].project \cup rules[h].session :
               rule.action = action /\ RuleMatches(rule, r)
  BY <1>1 DEF Matching, Scoped
<1>2. ASSUME NEW rule \in (IF profile.stored THEN UserRules ELSE {}) \cup rules[h].project \cup rules[h].session,
             rule.action = action, RuleMatches(rule, r)
      PROVE  \E s \in Matching(h, r) : s.rule.action = action
  <2>1. \E n \in {0, 1, 2} : [rule |-> rule, scope |-> n] \in Matching(h, r)
    BY <1>2 DEF Matching, Scoped
  <2> QED BY <1>2, <2>1
<1> QED BY <1>1, <1>2 DEF Says, Ruled

\* A rule that an answer left covers nothing that the answer does not stand for.
LEMMA LeftStands ==
  ASSUME NEW rule, NEW a, NEW r, LeftBy(rule, a), RuleMatches(rule, r),
         r.targets \subseteq Targets, a.sitting = 0 \/ a.sitting = sitting
  PROVE  Stands(a, r)
<1>1. IsFiniteSet(a.targets) BY PermissionAssumption, FS_Subset DEF LeftBy
<1>2. /\ rule.action = "allow" /\ rule.capability = a.capability /\ rule.target = RuleTarget(a)
      /\ a.capability \in Capabilities \ {"mcp.write"}
  BY DEF LeftBy, Grant
<1>3. a.capability = r.capability
  BY <1>2 DEF RuleMatches, Capabilities, ReadOnly
<1>4. CASE Cardinality(a.targets) = 1
  <2>1. PICK t : a.targets = {t} BY <1>1, <1>4, FS_Singleton
  <2>2. rule.target = t BY <1>2, <1>4, <2>1 DEF RuleTarget
  <2>3. t \in Targets /\ t # "*" /\ t # "" BY <2>1, PermissionAssumption DEF LeftBy
  <2>4. \A u \in About(r) : u = t BY <1>2, <2>2, <2>3 DEF RuleMatches, Covers
  <2>5. r.targets # {} BY <2>3, <2>4 DEF About
  <2>6. r.targets = {t} BY <2>4, <2>5 DEF About
  <2> QED BY <1>2, <1>3, <2>1, <2>6 DEF Stands, LeftBy
<1>5. CASE Cardinality(a.targets) # 1
  BY <1>2, <1>3, <1>5 DEF Stands, LeftBy
<1> QED BY <1>4, <1>5

\* A file that a deny rule covers, or a protected one, belongs to a request that was denied, or that
\* names nothing.
LEMMA FilesTold ==
  ASSUME NEW h, NEW r, Tells(r), ~r.hard, ~\E s \in Matching(h, r) : s.rule.action = "deny"
  PROVE  /\ \A f \in r.files :
              (\E s \in Matching(h, Alone(r, f)) : s.rule.action = "deny") => r.targets = {}
         /\ r.files \cap Protected # {} =>
              r.targets = {} \/ r.capability \in {"mcp.read", "mcp.write", "file.delete"}
<1>1. ASSUME NEW f \in r.targets, \E s \in Matching(h, Alone(r, f)) : s.rule.action = "deny"
      PROVE  FALSE
  <2>1. Says(h, Alone(r, f), "deny") <=> Ruled(h, Alone(r, f), "deny") BY MatchingIs
  <2>2. Says(h, r, "deny") <=> Ruled(h, r, "deny") BY MatchingIs
  <2>3. PICK rule \in (IF profile.stored THEN UserRules ELSE {}) \cup rules[h].project \cup rules[h].session :
          rule.action = "deny" /\ RuleMatches(rule, Alone(r, f))
    BY <1>1, <2>1 DEF Says, Ruled
  <2>4. RuleMatches(rule, r) BY <1>1, <2>3 DEF RuleMatches, About, Alone
  <2> QED BY <2>2, <2>3, <2>4 DEF Says, Ruled
<1> QED BY <1>1 DEF Tells

\* What is allowed without a question has a reason.
LEMMA EvaluateSound ==
  ASSUME PermShape, RulesInv, NEW h \in Holders, NEW r, r.targets \subseteq Targets,
         "allow" \in Evaluate(h, r)
  PROVE  /\ ~r.hard
         /\ r.capability \notin ReadOnly => ~profile.readOnly /\ mode # "plan"
         /\ ~\E s \in Matching(h, r) : s.rule.action = "deny"
         /\ \/ r.capability \in ReadOnly
            \/ mode = "auto" /\ r.risk = "low"
            \/ InRoots(r)
            \/ /\ r.capability # "mcp.write" /\ profile.stored
               /\ \E rule \in UserRules \cup written : rule.action = "allow" /\ RuleMatches(rule, r)
            \/ \E a \in remembered : Stands(a, r) /\ (a.holder = "parent" \/ h = "child"
                                                      \/ a.sitting = 0)
<1>1. /\ ~r.hard
      /\ r.capability \notin ReadOnly => ~profile.readOnly /\ mode # "plan"
      /\ ~\E s \in Matching(h, r) : s.rule.action = "deny"
      /\ r.capability # "mcp.write"
      /\ \/ \E s \in Matching(h, r) : s.rule.action = "allow"
         \/ InRoots(r)
         \/ ModeDefault(r) = "allow"
  BY DEF Evaluate, MostSpecific
<1>2. CASE \E s \in Matching(h, r) : s.rule.action = "allow"
  <2>1. PICK rule \in (IF profile.stored THEN UserRules ELSE {}) \cup rules[h].project \cup rules[h].session :
          rule.action = "allow" /\ RuleMatches(rule, r)
    <3>1. Says(h, r, "allow") <=> Ruled(h, r, "allow")
      BY MatchingIs
    <3> QED BY <1>2, <3>1 DEF Says, Ruled
  <2>2. CASE rule \in (IF profile.stored THEN UserRules ELSE {})
    BY <1>1, <2>1, <2>2
  <2>3. CASE rule \in rules[h].project
    <3>1. profile.stored /\ ForProject(rule) BY <2>3 DEF RulesInv
    <3>2. CASE rule \in written BY <1>1, <2>1, <3>1, <3>2
    <3>3. CASE rule \notin written
      <4>1. PICK a \in remembered : LeftBy(rule, a) /\ a.sitting = 0 BY <3>1, <3>3 DEF ForProject
      <4>2. Stands(a, r) BY <2>1, <4>1, LeftStands
      <4> QED BY <1>1, <4>1, <4>2
    <3> QED BY <3>2, <3>3
  <2>4. CASE rule \in rules[h].session
    <3>1. PICK a \in remembered : LeftBy(rule, a) /\ a.sitting = sitting /\ (a.holder = "parent" \/ h = "child")
      BY <2>4 DEF RulesInv, ForSession
    <3>2. Stands(a, r) BY <2>1, <3>1, LeftStands
    <3> QED BY <1>1, <3>1, <3>2
  <2> QED BY <2>1, <2>2, <2>3, <2>4
<1>3. CASE InRoots(r) BY <1>1, <1>3
<1>4. CASE ModeDefault(r) = "allow"
  BY <1>1, <1>4 DEF ModeDefault, PermShape
<1> QED BY <1>1, <1>2, <1>3, <1>4

\* As long as no rule, no holder and no mode changes, a question stays as it was found.
LEMMA QuestionKept ==
  ASSUME QuestionInv, UNCHANGED <<mode, profile, rules, child>>, question' \in {question, Nothing}
  PROVE  QuestionInv'
<1> SUFFICES ASSUME question' # Nothing PROVE QuestionInv' BY DEF QuestionInv
<1>1. question' = question OBVIOUS
<1>2. Matching(Acting, question)' = Matching(Acting, question) BY <1>1 DEF Matching, Acting
<1> QED BY <1>1, <1>2 DEF QuestionInv

\* Rules that nobody touches keep their reasons while answers and writings are only added.
LEMMA RulesKept ==
  ASSUME RulesInv, UNCHANGED <<profile, projectFile, rules, child, sitting>>,
         remembered \subseteq remembered', written \subseteq written'
  PROVE  RulesInv'
<1>1. \A rule : ForProject(rule) => ForProject(rule)' BY DEF ForProject, LeftBy
<1>2. \A h, rule : ForSession(h, rule) => ForSession(h, rule)' BY DEF ForSession, LeftBy
<1> QED BY <1>1, <1>2 DEF RulesInv

\* A step that decides nothing allows nothing.
LEMMA NothingAllowed == NoVerdict' = NoVerdict /\ (verdict' = NoVerdict => AllowedIsGranted')
BY DEF NoVerdict, AllowedIsGranted

\* Every initial state satisfies the invariant.
LEMMA PermBegins == PermInit => PermInv
<1> SUFFICES ASSUME PermInit PROVE PermInv OBVIOUS
<1>1. PermShape
  <2>5. child \in BOOLEAN BY Zenon DEF PermInit
  <2>1. mode \in Modes /\ child \in BOOLEAN /\ sitting \in Nat \ {0} BY <2>5 DEF PermInit
  <2>2. rules = [h \in Holders |-> [project |-> rules[h].project, session |-> rules[h].session]]
    BY DEF PermInit, Holders
  <2>3. projectFile = [readable |-> projectFile.readable, rules |-> projectFile.rules]
    BY DEF PermInit
  <2>4. DOMAIN rules = Holders BY DEF PermInit
  <2> QED BY <2>1, <2>2, <2>3, <2>4 DEF PermShape
<1>2. QuestionInv BY DEF PermInit, QuestionInv
<1>3. RulesInv
  <2>1. \A rule \in projectFile.rules : ForProject(rule) BY DEF PermInit, ForProject
  <2>2. \A h \in Holders : \A rule \in rules[h].project : profile.stored /\ ForProject(rule)
    BY <2>1 DEF PermInit, LoadRules
  <2>3. \A h \in Holders : rules[h].session = {} BY DEF PermInit
  <2> QED BY <2>1, <2>2, <2>3 DEF RulesInv, Holders
<1>4. AllowedIsGranted BY DEF PermInit, AllowedIsGranted, NoVerdict
<1> QED BY <1>1, <1>2, <1>3, <1>4 DEF PermInv

\* A call that is decided at once, or becomes a question.
LEMMA AuthorizeStep ==
  ASSUME PermInv, NEW call \in CallSet, AuthorizeCall(call)
  PROVE  PermInv'
<1> DEFINE r == Classify(call)
<1>1. r.capability \in Capabilities /\ r.targets \subseteq Targets /\ Tells(r) BY ClassifyIs
<1>2. UNCHANGED <<mode, profile, projectFile, rules, child, sitting, remembered, written>>
  BY DEF AuthorizeCall
<1>3. PermShape' BY <1>2 DEF PermInv, PermShape
<1>4. RulesInv' BY <1>2, RulesKept DEF PermInv
<1>5. PICK outcome \in Evaluate(Acting, r) :
        IF outcome = "ask" /\ profile.handler
        THEN question' = r /\ verdict' = NoVerdict
        ELSE verdict' = Decision(Acting, r, outcome = "allow", FALSE) /\ question' = question
  BY DEF AuthorizeCall
<1>6. Acting \in Holders BY DEF Acting, Holders
<1>7. Acting' = Acting /\ Matching(Acting, r)' = Matching(Acting, r)
  <2>1. Classify(call)' = Classify(call) BY DEF Classify, ClassifyProcess
  <2> QED BY <1>2, <2>1 DEF Matching, Acting
<1> HIDE DEF r
<1>8. CASE outcome = "ask" /\ profile.handler
  <2>1. question' = r /\ verdict' = NoVerdict BY <1>5, <1>8
  <2>2. /\ ~r.hard
        /\ r.capability \notin ReadOnly => ~profile.readOnly /\ mode # "plan"
        /\ ~\E s \in Matching(Acting, r) : s.rule.action = "deny"
    BY <1>5, <1>8 DEF Evaluate
  <2>3. Matching(Acting, question)' = Matching(Acting, r)
    BY <1>2, <2>1 DEF Matching, Acting
  <2>5. Tells(question)' BY <1>1, <2>1 DEF Tells
  <2>4. QuestionInv' BY <1>1, <1>2, <2>1, <2>2, <2>3, <2>5 DEF QuestionInv
  <2> QED BY <1>3, <1>4, <2>1, <2>4, NothingAllowed DEF PermInv
<1>9. CASE ~(outcome = "ask" /\ profile.handler)
  <2>1. verdict' = Decision(Acting, r, outcome = "allow", FALSE) /\ question' = question
    BY <1>5, <1>9
  <2>2. QuestionInv' BY <1>2, <2>1, QuestionKept DEF PermInv
  <2>3. /\ verdict'.request = r /\ verdict'.holder = Acting
        /\ verdict'.allowed <=> (outcome = "allow")
    BY <2>1 DEF Decision
  <2>4. AllowedIsGranted'
    <3> SUFFICES ASSUME verdict'.allowed PROVE AllowedIsGranted'
      BY DEF AllowedIsGranted
    <3>1. "allow" \in Evaluate(Acting, r) BY <1>5, <2>3
    <3>2. /\ ~r.hard
          /\ r.capability \notin ReadOnly => ~profile.readOnly /\ mode # "plan"
          /\ ~\E s \in Matching(Acting, r) : s.rule.action = "deny"
          /\ \/ r.capability \in ReadOnly
             \/ mode = "auto" /\ r.risk = "low"
             \/ InRoots(r)
             \/ /\ r.capability # "mcp.write" /\ profile.stored
                /\ \E rule \in UserRules \cup written : rule.action = "allow" /\ RuleMatches(rule, r)
             \/ \E a \in remembered : Stands(a, r) /\ (a.holder = "parent" \/ Acting = "child"
                                                       \/ a.sitting = 0)
      BY <1>1, <1>6, <3>1, EvaluateSound DEF PermInv
    <3>3. Matching(verdict.holder, verdict.request)' = Matching(Acting, r)
      BY <1>2, <2>3 DEF Matching
    <3>4. \A a : Stands(a, verdict.request)' <=> Stands(a, r) BY <1>2, <2>3 DEF Stands
    <3>5. InRoots(verdict.request)' <=> InRoots(r) BY <2>3 DEF InRoots
    <3>6. \A rule : RuleMatches(rule, verdict.request)' <=> RuleMatches(rule, r) 
      BY <2>3 DEF RuleMatches, About
    <3>7. /\ \A f \in r.files :
               (\E s \in Matching(Acting, Alone(r, f)) : s.rule.action = "deny") => r.targets = {}
          /\ r.files \cap Protected # {} =>
               r.targets = {} \/ r.capability \in {"mcp.read", "mcp.write", "file.delete"}
      BY <1>1, <3>2, FilesTold
    <3>8. \A f : Matching(verdict.holder, Alone(verdict.request, f))' = Matching(Acting, Alone(r, f))
      BY <1>2, <2>3 DEF Matching, Alone
    <3> QED BY <1>2, <2>3, <3>2, <3>3, <3>4, <3>5, <3>6, <3>7, <3>8 DEF AllowedIsGranted
  <2> QED BY <1>3, <1>4, <2>2, <2>4 DEF PermInv
<1> QED BY <1>8, <1>9

\* What an answer comes to.
LEMMA EffectiveIs ==
  ASSUME NEW r, NEW choice,
         Effective(r, choice) \in {"allow_session", "allow_project"}
  PROVE  /\ r.capability # "mcp.write"
         /\ r.capability = "file.delete" =>
              Effective(r, choice) = "allow_session" /\ Cardinality(r.targets) = 1
BY DEF Effective

\* An answer decides the call at hand and may leave a rule.
LEMMA RespondStep ==
  ASSUME PermInv, NEW choice \in {"allow_once", "allow_session", "allow_project", "deny"},
         Respond(choice)
  PROVE  PermInv'
<1> DEFINE e == Effective(question, choice)
           persist == e = "allow_project" /\ profile.stored
           answer == [capability |-> question.capability, targets |-> question.targets,
                      holder |-> Acting, sitting |-> IF persist THEN 0 ELSE sitting]
           left == IF e = "allow_session" \/ persist THEN {Grant(question)} ELSE {}
<1>1. /\ question # Nothing /\ question' = Nothing
      /\ UNCHANGED <<mode, profile, child, sitting, written>>
      /\ verdict'.request = question /\ verdict'.holder = Acting /\ verdict'.asked
  BY DEF Respond, Decision
<1>2. /\ question.capability \in Capabilities /\ question.targets \subseteq Targets /\ ~question.hard
      /\ question.capability \notin ReadOnly => ~profile.readOnly /\ mode # "plan"
      /\ ~\E s \in Matching(Acting, question) : s.rule.action = "deny"
  BY <1>1 DEF PermInv, QuestionInv
<1>3. Acting \in Holders /\ Acting' = Acting /\ (Acting = "child" <=> child)
  BY <1>1 DEF Acting, Holders
<1>4. /\ DOMAIN rules' = Holders
      /\ rules' = [h \in Holders |-> [project |-> rules'[h].project, session |-> rules'[h].session]]
      /\ \A h \in Holders : h # Acting => rules'[h] = rules[h]
      /\ rules'[Acting].project = IF persist THEN rules[Acting].project \cup left ELSE rules[Acting].project
      /\ rules'[Acting].session = IF persist THEN rules[Acting].session ELSE rules[Acting].session \cup left
  <2>1. rules = [h \in Holders |-> [project |-> rules[h].project, session |-> rules[h].session]]
    BY DEF PermInv, PermShape
  <2>2. CASE e = "allow_session"
    <3>1. rules' = [rules EXCEPT ![Acting].session = @ \cup {Grant(question)}]
      BY <2>2 DEF Respond
    <3>2. left = {Grant(question)} /\ ~persist BY <2>2
    <3> HIDE DEF left, persist, e
    <3> DEFINE g == Grant(question)
    <3>3. rules' = [rules EXCEPT ![Acting].session = @ \cup {g}] BY <3>1
    <3>4. Acting \in Holders BY <1>3
    <3> HIDE DEF g
    <3>6. /\ DOMAIN rules' = Holders
          /\ \A h \in Holders : h # Acting => rules'[h] = rules[h]
          /\ rules'[Acting] = [rules[Acting] EXCEPT !.session = @ \cup {g}]
      BY ONLY <2>1, <3>3, <3>4
    <3>7. \A h \in Holders : rules[h] = [project |-> rules[h].project, session |-> rules[h].session]
      BY ONLY <2>1
    <3>8. /\ rules'[Acting].project = rules[Acting].project
          /\ rules'[Acting].session = rules[Acting].session \cup {g}
          /\ rules'[Acting] = [project |-> rules'[Acting].project, session |-> rules'[Acting].session]
      BY ONLY <3>4, <3>6, <3>7
    <3>9. rules' = [h \in Holders |-> rules'[h]] BY ONLY <2>1, <3>3
    <3>10. \A h \in Holders : rules'[h] = [project |-> rules'[h].project, session |-> rules'[h].session]
      BY ONLY <3>6, <3>7, <3>8
    <3>11. rules' = [h \in Holders |-> [project |-> rules'[h].project, session |-> rules'[h].session]]
      BY ONLY <3>9, <3>10
    <3>5. /\ DOMAIN rules' = Holders
          /\ rules' = [h \in Holders |-> [project |-> rules'[h].project, session |-> rules'[h].session]]
          /\ \A h \in Holders : h # Acting => rules'[h] = rules[h]
          /\ rules'[Acting].project = rules[Acting].project
          /\ rules'[Acting].session = rules[Acting].session \cup {g}
      BY ONLY <3>6, <3>8, <3>11
    <3> QED BY <3>2, <3>5 DEF g
  <2>3. CASE e # "allow_session" /\ persist
    <3>1. rules' = [rules EXCEPT ![Acting].project = @ \cup {Grant(question)}]
      BY <2>3 DEF Respond
    <3>2. left = {Grant(question)} BY <2>3
    <3> HIDE DEF left, persist, e
    <3> DEFINE g == Grant(question)
    <3>3. rules' = [rules EXCEPT ![Acting].project = @ \cup {g}] BY <3>1
    <3>4. Acting \in Holders BY <1>3
    <3> HIDE DEF g
    <3>6. /\ DOMAIN rules' = Holders
          /\ \A h \in Holders : h # Acting => rules'[h] = rules[h]
          /\ rules'[Acting] = [rules[Acting] EXCEPT !.project = @ \cup {g}]
      BY ONLY <2>1, <3>3, <3>4
    <3>7. \A h \in Holders : rules[h] = [project |-> rules[h].project, session |-> rules[h].session]
      BY ONLY <2>1
    <3>8. /\ rules'[Acting].session = rules[Acting].session
          /\ rules'[Acting].project = rules[Acting].project \cup {g}
          /\ rules'[Acting] = [project |-> rules'[Acting].project, session |-> rules'[Acting].session]
      BY ONLY <3>4, <3>6, <3>7
    <3>9. rules' = [h \in Holders |-> rules'[h]] BY ONLY <2>1, <3>3
    <3>10. \A h \in Holders : rules'[h] = [project |-> rules'[h].project, session |-> rules'[h].session]
      BY ONLY <3>6, <3>7, <3>8
    <3>11. rules' = [h \in Holders |-> [project |-> rules'[h].project, session |-> rules'[h].session]]
      BY ONLY <3>9, <3>10
    <3>5. /\ DOMAIN rules' = Holders
          /\ rules' = [h \in Holders |-> [project |-> rules'[h].project, session |-> rules'[h].session]]
          /\ \A h \in Holders : h # Acting => rules'[h] = rules[h]
          /\ rules'[Acting].session = rules[Acting].session
          /\ rules'[Acting].project = rules[Acting].project \cup {g}
      BY ONLY <3>6, <3>8, <3>11
    <3> QED BY <2>3, <3>2, <3>5 DEF g
  <2>4. CASE e # "allow_session" /\ ~persist
    <3>1. rules' = rules BY <2>4 DEF Respond
    <3> QED BY <1>3, <2>1, <2>4, <3>1
  <2> QED BY <2>2, <2>3, <2>4
<1>5. /\ projectFile' = [readable |-> projectFile'.readable, rules |-> projectFile'.rules]
      /\ projectFile'.rules \in {projectFile.rules, rules'[Acting].project}
  <2>1. projectFile = [readable |-> projectFile.readable, rules |-> projectFile.rules]
    BY DEF PermInv, PermShape
  <2>2. projectFile' \in {projectFile, [projectFile EXCEPT !.rules = rules'[Acting].project]}
    BY DEF Respond
  <2> QED BY <2>1, <2>2
<1>6. remembered' = IF e = "allow_session" \/ persist THEN remembered \cup {answer} ELSE remembered
  BY DEF Respond
<1>7. PermShape' BY <1>1, <1>4, <1>5 DEF PermInv, PermShape
<1>8. QuestionInv' BY <1>1 DEF QuestionInv
<1>9. \A rule \in left : answer \in remembered' /\ LeftBy(rule, answer)
  <2> SUFFICES ASSUME e = "allow_session" \/ persist
               PROVE  answer \in remembered' /\ LeftBy(Grant(question), answer)
    OBVIOUS
  <2>1. /\ question.capability # "mcp.write"
        /\ question.capability = "file.delete" => e = "allow_session" /\ Cardinality(question.targets) = 1
    BY EffectiveIs
  <2>2. sitting # 0 BY DEF PermInv, PermShape
  <2>3. Grant(question) = Grant(answer) BY DEF Grant, RuleTarget
  <2> QED BY <1>2, <1>6, <2>1, <2>2, <2>3 DEF LeftBy
<1>10. RulesInv'
  <2>1. \A rule : ForProject(rule) => ForProject(rule)' BY <1>1, <1>6 DEF ForProject, LeftBy
  <2>2. \A h, rule : ForSession(h, rule) => ForSession(h, rule)'
    BY <1>1, <1>6 DEF ForSession, LeftBy
  <2>3. \A h \in Holders : \A rule \in rules'[h].project : profile.stored /\ ForProject(rule)'
    <3>1. \A h \in Holders : \A rule \in rules[h].project : profile.stored /\ ForProject(rule)'
      BY <2>1 DEF PermInv, RulesInv
    <3>2. persist => \A rule \in left : profile.stored /\ ForProject(rule)'
      BY <1>9 DEF ForProject, LeftBy
    <3> QED BY <1>3, <1>4, <3>1, <3>2
  <2>4. \A rule \in projectFile'.rules : ForProject(rule)'
    BY <1>3, <1>5, <2>1, <2>3 DEF PermInv, RulesInv
  <2>5. \A h \in Holders : \A rule \in rules'[h].session : ForSession(h, rule)'
    <3>1. \A h \in Holders : \A rule \in rules[h].session : ForSession(h, rule)'
      BY <2>2 DEF PermInv, RulesInv
    <3>2. ~persist => \A rule \in left : ForSession(Acting, rule)'
      <4> SUFFICES ASSUME ~persist, NEW rule \in left PROVE ForSession(Acting, rule)'
        OBVIOUS
      <4>1. answer \in remembered' /\ LeftBy(rule, answer) BY <1>9
      <4>2. answer.sitting = sitting' /\ (answer.holder = "parent" \/ Acting = "child")
        BY <1>1, <1>3 DEF Holders
      <4> HIDE DEF answer
      <4> QED BY <1>3, <4>1, <4>2 DEF ForSession, LeftBy
    <3> QED BY <1>3, <1>4, <3>1, <3>2
  <2>6. ~child' => rules'["child"].session = {}
    BY <1>1, <1>3, <1>4 DEF PermInv, RulesInv, Holders
  <2> QED BY <1>1, <2>3, <2>4, <2>5, <2>6 DEF RulesInv
<1>11. AllowedIsGranted'
  <2>1. ~\E s \in Matching(Acting, question) : s.rule.action = "deny"
    BY <1>2
  <2>2. \A rule \in (IF profile.stored THEN UserRules ELSE {}) \cup rules[Acting].project \cup rules[Acting].session :
          ~(rule.action = "deny" /\ RuleMatches(rule, question))
    <3>1. Says(Acting, question, "deny") <=> Ruled(Acting, question, "deny")
      BY MatchingIs
    <3> QED BY <2>1, <3>1 DEF Says, Ruled
  <2>3. \A rule \in left : rule.action = "allow" BY DEF Grant
  <2>4. ~\E s \in Matching(verdict.holder, verdict.request)' : s.rule.action = "deny"
    <3> SUFFICES ASSUME NEW s \in Matching(verdict.holder, verdict.request)', s.rule.action = "deny"
                 PROVE  FALSE
      OBVIOUS
    <3>1. /\ s.rule \in (IF profile.stored THEN UserRules ELSE {}) \cup rules'[Acting].project \cup rules'[Acting].session
          /\ RuleMatches(s.rule, question)
      <4>1. Matching(verdict.holder, verdict.request)' =
              {x \in Scoped(IF profile.stored THEN UserRules ELSE {}, 0)
                     \cup Scoped(rules'[Acting].project, 1) \cup Scoped(rules'[Acting].session, 2) :
                 RuleMatches(x.rule, question)}
        BY <1>1 DEF Matching, Scoped, RuleMatches, About
      <4> QED BY <4>1 DEF Scoped
    <3> HIDE DEF left, persist, e
    <3> QED BY <1>4, <2>2, <2>3, <3>1
  <2>0. PICK q : q = question OBVIOUS
  <2>5. /\ \A f \in q.files :
             (\E s \in Matching(Acting, Alone(q, f))' : s.rule.action = "deny")
               => q.targets = {}
        /\ q.files \cap Protected # {} =>
             q.targets = {} \/ q.capability \in {"mcp.read", "mcp.write", "file.delete"}
    <3>1. /\ Tells(q) /\ ~q.hard
          /\ ~\E s \in Matching(verdict.holder, verdict.request)' : s.rule.action = "deny"
      BY <1>1, <1>2, <2>0, <2>4 DEF PermInv, QuestionInv
    <3>2. ASSUME NEW f \in q.targets,
                 NEW s \in Matching(Acting, Alone(q, f))', s.rule.action = "deny"
          PROVE  FALSE
      <4>1. Matching(Acting, Alone(q, f))' =
              {x \in Scoped(IF profile.stored THEN UserRules ELSE {}, 0)
                     \cup Scoped(rules'[Acting].project, 1) \cup Scoped(rules'[Acting].session, 2) :
                 RuleMatches(x.rule, Alone(q, f))}
        BY <1>1, <1>3, <2>0 DEF Matching, Scoped, RuleMatches, About, Alone
      <4>2. Matching(verdict.holder, verdict.request)' =
              {x \in Scoped(IF profile.stored THEN UserRules ELSE {}, 0)
                     \cup Scoped(rules'[Acting].project, 1) \cup Scoped(rules'[Acting].session, 2) :
                 RuleMatches(x.rule, q)}
        BY <1>1, <2>0 DEF Matching, Scoped, RuleMatches, About
      <4>3. RuleMatches(s.rule, q) BY <3>2, <4>1 DEF RuleMatches, About, Alone
      <4>4. s \in Matching(verdict.holder, verdict.request)' BY <3>2, <4>1, <4>2, <4>3
      <4> QED BY <3>1, <3>2, <4>4
    <3> QED BY <3>1, <3>2 DEF Tells
  <2>6. \A f : Matching(verdict.holder, Alone(verdict.request, f))' = Matching(Acting, Alone(q, f))'
    BY <1>1, <1>3, <2>0 DEF Matching, Alone
  <2> QED BY <1>1, <1>2, <2>0, <2>4, <2>5, <2>6 DEF AllowedIsGranted
<1> QED BY <1>7, <1>8, <1>10, <1>11 DEF PermInv

\* The other steps decide nothing; they take rules away, copy them or read them from the file.
LEMMA OtherSteps ==
  ASSUME PermInv,
         \/ \E m \in Modes : SetMode(m) \/ Restart(m)
         \/ \E r \in EditedRules, readable \in BOOLEAN :
              EditFile([readable |-> readable, rules |-> projectFile.rules \cup {r}])
         \/ Abandon \/ OpenChild \/ CloseChild \/ SwitchSession
  PROVE  PermInv'
<1>1. verdict' = NoVerdict
  BY DEF SetMode, Restart, EditFile, Abandon, OpenChild, CloseChild, SwitchSession, NothingAsked
<1>2. AllowedIsGranted' BY <1>1, NothingAllowed
<1>3. /\ rules = [h \in Holders |-> [project |-> rules[h].project, session |-> rules[h].session]]
      /\ projectFile = [readable |-> projectFile.readable, rules |-> projectFile.rules]
      /\ mode \in Modes /\ sitting \in Nat \ {0} /\ DOMAIN rules = Holders
  BY DEF PermInv, PermShape
<1>c. child \in BOOLEAN BY DEF PermInv, PermShape
<1>4. ASSUME NEW m \in Modes, SetMode(m) PROVE PermInv'
  <2>1. /\ UNCHANGED <<profile, projectFile, rules, question, child, sitting, remembered, written>>
        /\ question = Nothing /\ mode' = m
    BY <1>4 DEF SetMode, NothingAsked
  <2>2. RulesInv' BY <2>1, RulesKept DEF PermInv
  <2>3. QuestionInv' BY <2>1 DEF QuestionInv
  <2>4. PermShape' BY <2>1, <1>4 DEF PermInv, PermShape
  <2> QED BY <1>2, <2>2, <2>3, <2>4 DEF PermInv
<1>5. ASSUME NEW m \in Modes, Restart(m) PROVE PermInv'
  <2>1. /\ UNCHANGED <<profile, projectFile, remembered, written>>
        /\ question' = Nothing /\ mode' = m /\ child' = FALSE /\ sitting' = sitting + 1
        /\ rules' = [h \in Holders |->
             [project |-> IF h = "parent" THEN LoadRules(projectFile) ELSE {}, session |-> {}]]
    BY <1>5 DEF Restart
  <2>2. \A rule : ForProject(rule) => ForProject(rule)' BY <2>1 DEF ForProject, LeftBy
  <2>3. RulesInv'
    <3>1. \A h \in Holders : rules'[h].session = {} BY <2>1
    <3>2. \A h \in Holders : rules'[h].project \subseteq LoadRules(projectFile) BY <2>1
    <3>3. \A rule \in LoadRules(projectFile) : profile.stored /\ ForProject(rule)
      BY DEF LoadRules, PermInv, RulesInv
    <3>4. \A rule \in projectFile.rules : ForProject(rule) BY DEF PermInv, RulesInv
    <3> QED BY <2>1, <2>2, <3>1, <3>2, <3>3, <3>4 DEF RulesInv, Holders
  <2>4. QuestionInv' BY <2>1 DEF QuestionInv
  <2>5. child' \in BOOLEAN BY <2>1, Zenon
  <2>6. rules' = [h \in Holders |-> [project |-> rules'[h].project, session |-> rules'[h].session]]
        /\ DOMAIN rules' = Holders
    BY <2>1
  <2>7. PermShape' BY <1>3, <1>5, <2>1, <2>5, <2>6 DEF PermShape
  <2> QED BY <1>2, <2>3, <2>4, <2>7 DEF PermInv
<1>6. ASSUME NEW r \in EditedRules, NEW readable \in BOOLEAN,
             EditFile([readable |-> readable, rules |-> projectFile.rules \cup {r}])
      PROVE  PermInv'
  <2>1. /\ UNCHANGED <<mode, profile, rules, question, child, sitting, remembered>>
        /\ projectFile' = [readable |-> readable, rules |-> projectFile.rules \cup {r}]
        /\ written' = written \cup ((projectFile.rules \cup {r}) \ projectFile.rules)
    BY <1>6 DEF EditFile
  <2>2. \A rule : ForProject(rule) => ForProject(rule)' BY <2>1 DEF ForProject, LeftBy
  <2>3. \A h, rule : ForSession(h, rule) => ForSession(h, rule)' BY <2>1 DEF ForSession, LeftBy
  <2>4. \A rule \in projectFile'.rules : ForProject(rule)'
    <3>1. \A rule \in projectFile.rules : ForProject(rule)' BY <2>2 DEF PermInv, RulesInv
    <3>2. r \in projectFile.rules \/ ForProject(r)' BY <2>1 DEF ForProject
    <3> QED BY <2>1, <3>1, <3>2
  <2>5. RulesInv' BY <2>1, <2>2, <2>3, <2>4 DEF PermInv, RulesInv
  <2>6. QuestionInv' BY <2>1, QuestionKept DEF PermInv
  <2>7. projectFile' = [readable |-> projectFile'.readable, rules |-> projectFile'.rules] BY <2>1
  <2>8. PermShape' BY <2>1, <2>7 DEF PermInv, PermShape
  <2> QED BY <1>2, <2>5, <2>6, <2>8 DEF PermInv
<1>7. ASSUME Abandon PROVE PermInv'
  <2>1. /\ UNCHANGED <<mode, profile, projectFile, rules, child, sitting, remembered, written>>
        /\ question' = Nothing
    BY <1>7 DEF Abandon
  <2>2. RulesInv' BY <2>1, RulesKept DEF PermInv
  <2>3. QuestionInv' BY <2>1 DEF QuestionInv
  <2>4. PermShape' BY <2>1 DEF PermInv, PermShape
  <2> QED BY <1>2, <2>2, <2>3, <2>4 DEF PermInv
<1>8. ASSUME OpenChild PROVE PermInv'
  <2>1. /\ UNCHANGED <<mode, profile, projectFile, question, sitting, remembered, written>>
        /\ question = Nothing /\ child' = TRUE
        /\ rules' = [rules EXCEPT !["child"] = rules["parent"]]
    BY <1>8 DEF OpenChild, NothingAsked
  <2>2. /\ rules' = [h \in Holders |-> rules["parent"]] /\ DOMAIN rules' = Holders
    BY <1>3, <2>1 DEF Holders
  <2>3. rules["parent"] = [project |-> rules["parent"].project, session |-> rules["parent"].session]
    BY <1>3 DEF Holders
  <2>4. rules' = [h \in Holders |-> [project |-> rules'[h].project, session |-> rules'[h].session]]
    BY <2>2, <2>3
  <2>5. \A rule : ForProject(rule) => ForProject(rule)' BY <2>1 DEF ForProject, LeftBy
  <2>6. \A h \in Holders : \A rule : ForSession("parent", rule) => ForSession(h, rule)'
    BY <2>1 DEF ForSession, LeftBy
  <2>7. RulesInv'
    <3>1. \A rule \in projectFile.rules : ForProject(rule) BY DEF PermInv, RulesInv
    <3>2. \A rule \in rules["parent"].project : profile.stored /\ ForProject(rule)
      BY DEF PermInv, RulesInv, Holders
    <3>3. \A rule \in rules["parent"].session : ForSession("parent", rule)
      BY DEF PermInv, RulesInv, Holders
    <3> QED BY <2>1, <2>2, <2>5, <2>6, <3>1, <3>2, <3>3 DEF RulesInv
  <2>8. QuestionInv' BY <2>1 DEF QuestionInv
  <2>9. child' \in BOOLEAN BY <2>1, Zenon
  <2>10. PermShape' BY <1>3, <2>1, <2>2, <2>4, <2>9 DEF PermShape
  <2> QED BY <1>2, <2>7, <2>8, <2>10 DEF PermInv
<1>9. ASSUME CloseChild PROVE PermInv'
  <2>1. /\ UNCHANGED <<mode, profile, projectFile, question, sitting, written>>
        /\ question = Nothing /\ child' = FALSE
        /\ rules' = [rules EXCEPT !["child"] = [project |-> {}, session |-> {}]]
        /\ remembered' = {a \in remembered : a.holder = "parent" \/ a.sitting = 0}
    BY <1>9 DEF CloseChild, NothingAsked
  <2>2. /\ DOMAIN rules' = Holders /\ rules'["parent"] = rules["parent"]
        /\ rules'["child"].project = {} /\ rules'["child"].session = {}
        /\ rules' = [h \in Holders |-> [project |-> rules'[h].project, session |-> rules'[h].session]]
    BY <1>3, <2>1 DEF Holders
  <2>3. \A rule : ForProject(rule) => ForProject(rule)' BY <2>1 DEF ForProject, LeftBy
  <2>4. \A rule : ForSession("parent", rule) => ForSession("parent", rule)'
    BY <2>1 DEF ForSession, LeftBy
  <2>5. RulesInv'
    <3>1. \A rule \in projectFile.rules : ForProject(rule) BY DEF PermInv, RulesInv
    <3>2. \A rule \in rules["parent"].project : profile.stored /\ ForProject(rule)
      BY DEF PermInv, RulesInv, Holders
    <3>3. \A rule \in rules["parent"].session : ForSession("parent", rule)
      BY DEF PermInv, RulesInv, Holders
    <3> QED BY <2>1, <2>2, <2>3, <2>4, <3>1, <3>2, <3>3 DEF RulesInv, Holders
  <2>6. QuestionInv' BY <2>1 DEF QuestionInv
  <2>7. child' \in BOOLEAN BY <2>1, Zenon
  <2>8. PermShape' BY <1>3, <2>1, <2>2, <2>7 DEF PermShape
  <2> QED BY <1>2, <2>5, <2>6, <2>8 DEF PermInv
<1>10. ASSUME SwitchSession PROVE PermInv'
  <2>1. /\ UNCHANGED <<mode, profile, projectFile, question, child, remembered, written>>
        /\ question = Nothing /\ ~child /\ sitting' = sitting + 1
        /\ rules' = [rules EXCEPT !["parent"] = [@ EXCEPT !.session = {}]]
    BY <1>10 DEF SwitchSession, NothingAsked, BindSession
  <2>2. /\ DOMAIN rules' = Holders /\ rules'["child"] = rules["child"]
        /\ rules'["parent"].project = rules["parent"].project /\ rules'["parent"].session = {}
        /\ rules' = [h \in Holders |-> [project |-> rules'[h].project, session |-> rules'[h].session]]
    <3>1. \A h \in Holders : rules[h] = [project |-> rules[h].project, session |-> rules[h].session]
      BY <1>3
    <3>2. /\ DOMAIN rules' = Holders /\ rules'["child"] = rules["child"]
          /\ rules'["parent"] = [rules["parent"] EXCEPT !.session = {}]
      BY <1>3, <2>1 DEF Holders
    <3>3. /\ rules'["parent"].project = rules["parent"].project /\ rules'["parent"].session = {}
          /\ rules'["parent"] = [project |-> rules'["parent"].project, session |-> rules'["parent"].session]
      BY <3>1, <3>2 DEF Holders
    <3>4. rules' = [h \in Holders |-> rules'[h]] BY <1>3, <2>1
    <3> QED BY ONLY <3>1, <3>2, <3>3, <3>4 DEF Holders
  <2>3. \A rule : ForProject(rule) => ForProject(rule)' BY <2>1 DEF ForProject, LeftBy
  <2>4. rules["child"].session = {} BY <2>1 DEF PermInv, RulesInv
  <2>5. RulesInv'
    <3>1. \A rule \in projectFile.rules : ForProject(rule) BY DEF PermInv, RulesInv
    <3>2. \A h \in Holders : \A rule \in rules[h].project : profile.stored /\ ForProject(rule)
      BY DEF PermInv, RulesInv
    <3> QED BY <2>1, <2>2, <2>3, <2>4, <3>1, <3>2 DEF RulesInv, Holders
  <2>6. QuestionInv' BY <2>1 DEF QuestionInv
  <2>7. PermShape' BY <1>3, <1>c, <2>1, <2>2 DEF PermShape
  <2> QED BY <1>2, <2>5, <2>6, <2>7 DEF PermInv
<1> QED BY <1>4, <1>5, <1>6, <1>7, <1>8, <1>9, <1>10

\* PermInv is an invariant: no sequence of calls, answers, children, sessions, restarts and foreign
\* writes of the rules leads out of it.
THEOREM PermInductive == PermSpec => []PermInv
<1>1. PermInv /\ [PermNext]_perm_vars => PermInv'
  <2> SUFFICES ASSUME PermInv, [PermNext]_perm_vars PROVE PermInv' OBVIOUS
  <2>1. CASE UNCHANGED perm_vars
    <3>1. UNCHANGED <<mode, profile, projectFile, rules, question, child, sitting, verdict, remembered, written>>
      BY <2>1 DEF perm_vars
    <3>2. PermShape' BY <3>1 DEF PermInv, PermShape
    <3>3. QuestionInv' BY <3>1, QuestionKept DEF PermInv
    <3>4. RulesInv' BY <3>1, RulesKept DEF PermInv
    <3>5. Matching(verdict.holder, verdict.request)' = Matching(verdict.holder, verdict.request)
      BY <3>1 DEF Matching
    <3>7. PICK r : r = verdict.request OBVIOUS
    <3>8. \A f : Matching(verdict.holder, Alone(r, f))' = Matching(verdict.holder, Alone(r, f))
      BY <3>1 DEF Matching
    <3>9. \A f : /\ Matching(verdict.holder, Alone(verdict.request, f))' = Matching(verdict.holder, Alone(r, f))'
                 /\ Matching(verdict.holder, Alone(verdict.request, f)) = Matching(verdict.holder, Alone(r, f))
      BY <3>1, <3>7 DEF Matching
    <3>10. \A f : Matching(verdict.holder, Alone(verdict.request, f))' = Matching(verdict.holder, Alone(verdict.request, f))
      BY <3>8, <3>9
    <3>6. AllowedIsGranted'
      BY <3>1, <3>5, <3>10 DEF PermInv, AllowedIsGranted, InRoots, Stands, RuleMatches, About
    <3> QED BY <3>2, <3>3, <3>4, <3>6 DEF PermInv
  <2>2. CASE PermNext
    BY <2>2, AuthorizeStep, RespondStep, OtherSteps DEF PermNext
  <2> QED BY <2>1, <2>2
<1> QED BY <1>1, PermBegins, PTL DEF PermSpec

\* AllowedIsGranted for every set of targets, files, rules and answers: what PermissionManager.authorize
\* allows has a reason that still holds, no denial in force speaks against what its request names, and
\* a file that is denied or protected is changed only where the request does not say so
\* (permissions/policy.py, permissions/risk.py).
THEOREM Granted == PermSpec => []AllowedIsGranted
BY PermInductive, PTL DEF PermInv

USE ConfirmationAssumption

-----------------------------------------------------------------------------
(* Confirmations: the invariant. *)

\* The rows of a connection and of approvals.
Links == [revision : Nat, settings : Settings \cup {"none"}]
Row == [state : {"pending", "approved", "denied", "expired", "consumed"}, world : Nat, owner : Nat,
        revision : Nat, late : BOOLEAN]

RowShape ==
  /\ epoch \in Nat /\ world \in Nat /\ workspace \in [revision : Nat, trusted : BOOLEAN]
  /\ link \in Links
  /\ approvals \in Seq(Row)
  /\ turnRow \in [state : {"none", "running", "awaiting_approval", "cancel_requested"},
                  revision : Nat, link : Links]
  /\ wait \in [stage : {"idle", "waiting", "checking", "ending"},
               future : {"none", "approve", "deny", "cancelled"}]

\* A number is given to one nonce, and to no other one after it was used.
NonceInv ==
  /\ issued \in Nat
  /\ \A t \in tokens : t[1] \in 1 .. issued
  /\ \A t, u \in tokens : t[1] = u[1] => t = u
  /\ \E S : done \in Seq(S)
  /\ \A i \in DOMAIN done : done[i].token \in 1 .. issued
  /\ \A i \in DOMAIN done, t \in tokens : done[i].token # t[1]
  /\ \A i, j \in DOMAIN done : i # j => done[i].token # done[j].token

\* A request that is handled is about an approval there is, and decides it one way or the other.
Sent(r) ==
  /\ r.approval \in DOMAIN approvals
  /\ r.method = "decide" => r.decision \in {"approve", "deny"}

\* The state of an approval follows from the one decision that is on record.
DecisionInv ==
  /\ \A r \in handling : Sent(r)
  /\ \A r \in actionLog : r.approval \in DOMAIN approvals
  /\ \A r \in actionLog : approvals[r.approval].state # "pending"
  /\ \A a \in DOMAIN approvals : approvals[a].state \in {"approved", "consumed"} =>
       \E r \in actionLog : r.approval = a /\ r.decision = "approve"
  /\ \A r, s \in actionLog : r.approval = s.approval => r = s

\* The call that waits has the newest approval, and after the decision was taken nobody else
\* changes it until the workspace has been looked at.
WaitInv ==
  /\ wait.stage = "idle" => wait = NoWait
  /\ wait # NoWait => Latest \in DOMAIN approvals
  /\ turnRow.state = "awaiting_approval" => wait # NoWait
  /\ wait.stage = "checking" =>
       approvals[Latest].state = "approved" /\ approvals[Latest].owner = epoch

\* What passed is told by rows that do not change any more.
PassInv ==
  /\ \E S : allowed \in Seq(S)
  /\ \A i \in DOMAIN allowed : allowed[i].approval \in DOMAIN approvals
  /\ ApprovedAsShown

ConfInv == RowShape /\ NonceInv /\ DecisionInv /\ WaitInv /\ PassInv /\ KeysBound

-----------------------------------------------------------------------------
(* Confirmations: lemmas. *)

\* What is in a sequence after an append.
LEMMA OneAppended ==
  ASSUME NEW S, NEW s \in Seq(S), NEW e
  PROVE  /\ Append(s, e) \in Seq(S \cup {e})
         /\ Len(s) \in Nat /\ DOMAIN s = 1 .. Len(s) /\ DOMAIN Append(s, e) = 1 .. Len(s) + 1
         /\ Len(Append(s, e)) = Len(s) + 1
         /\ \A i \in 1 .. Len(s) : Append(s, e)[i] = s[i]
         /\ Append(s, e)[Len(s) + 1] = e
<1>1. s \in Seq(S \cup {e})
  <2>1. Len(s) \in Nat /\ s \in [1 .. Len(s) -> S] BY LenProperties
  <2>2. s \in [1 .. Len(s) -> S \cup {e}] BY <2>1
  <2> QED BY <2>1, <2>2, SeqDef
<1>2. Append(s, e) \in Seq(S \cup {e}) BY <1>1, AppendProperties
<1> QED BY <1>1, <1>2, AppendProperties, LenProperties

\* A nonce that is issued has a number of its own (Issue).
LEMMA IssueKeeps ==
  ASSUME NonceInv, NEW kind, NEW target, NEW binding, Issue(kind, target, binding), UNCHANGED done
  PROVE  NonceInv'
<1> DEFINE new == <<issued', kind, target, binding>>
<1>1. issued' = issued + 1 /\ issued' \in Nat BY DEF NonceInv, Issue
<1>2. tokens' = tokens \cup {new} /\ new[1] = issued' BY DEF Issue
<1> HIDE DEF new
<1>3. \A t \in tokens : t[1] \in 1 .. issued /\ t[1] # issued' BY <1>1 DEF NonceInv
<1>4. \A t \in tokens' : t[1] \in 1 .. issued' BY <1>1, <1>2, <1>3 DEF NonceInv
<1>5. \A t, u \in tokens' : t[1] = u[1] => t = u BY <1>2, <1>3 DEF NonceInv
<1>6. \A i \in DOMAIN done : done[i].token \in 1 .. issued /\ done[i].token # issued'
  BY <1>1 DEF NonceInv
<1>7. \A i \in DOMAIN done, t \in tokens' : done[i].token # t[1]
  <2> TAKE i \in DOMAIN done, t \in tokens'
  <2>1. CASE t \in tokens BY <2>1 DEF NonceInv
  <2>2. CASE t = new BY <1>2, <1>6, <2>2
  <2> QED BY <1>2, <2>1, <2>2
<1>8. \A i \in DOMAIN done : done[i].token \in 1 .. issued' BY <1>1, <1>6 DEF NonceInv
<1> QED BY <1>1, <1>4, <1>5, <1>7, <1>8 DEF NonceInv

\* A nonce that is used is gone (Consume).
LEMMA ConsumeKeeps ==
  ASSUME NonceInv, NEW token \in tokens, Consume(token), UNCHANGED issued
  PROVE  NonceInv'
<1> DEFINE entry == [kind |-> token[2], token |-> token[1]]
<1>1. tokens' = tokens \ {token} /\ done' = Append(done, entry) BY DEF Consume
<1>2. entry.token = token[1] OBVIOUS
<1> HIDE DEF entry
<1>3. PICK S : done \in Seq(S) BY DEF NonceInv
<1>4. /\ \E T : done' \in Seq(T)
      /\ Len(done) \in Nat /\ DOMAIN done = 1 .. Len(done) /\ DOMAIN done' = 1 .. Len(done) + 1
      /\ \A i \in 1 .. Len(done) : done'[i] = done[i]
      /\ done'[Len(done) + 1] = entry
  <2> DEFINE after == Append(done, entry)
  <2>1. /\ after \in Seq(S \cup {entry})
        /\ Len(done) \in Nat /\ DOMAIN done = 1 .. Len(done) /\ DOMAIN after = 1 .. Len(done) + 1
        /\ \A i \in 1 .. Len(done) : after[i] = done[i]
        /\ after[Len(done) + 1] = entry
    BY <1>3, OneAppended
  <2>2. done' = after BY <1>1
  <2> HIDE DEF after
  <2> QED BY <2>1, <2>2
<1>5. \A i \in DOMAIN done' : \/ i \in DOMAIN done /\ done'[i] = done[i]
                              \/ i = Len(done) + 1 /\ done'[i] = entry
  BY <1>4
<1>6. \A t \in tokens' : t \in tokens /\ t[1] # token[1] BY <1>1 DEF NonceInv
<1>7. token[1] \in 1 .. issued BY DEF NonceInv
<1>8. \A i \in DOMAIN done' : done'[i].token \in 1 .. issued BY <1>2, <1>5, <1>7 DEF NonceInv
<1>9. \A i \in DOMAIN done', t \in tokens' : done'[i].token # t[1]
  BY <1>2, <1>5, <1>6 DEF NonceInv
<1>10. \A i, j \in DOMAIN done' : i # j => done'[i].token # done'[j].token
  <2> SUFFICES ASSUME NEW i \in DOMAIN done', NEW j \in DOMAIN done', i # j
               PROVE  done'[i].token # done'[j].token
    OBVIOUS
  <2> QED BY <1>2, <1>5 DEF NonceInv
<1> QED BY <1>4, <1>6, <1>8, <1>9, <1>10 DEF NonceInv

\* Nonces that are gone for another reason.
LEMMA FewerNonces ==
  ASSUME NonceInv, tokens' \subseteq tokens, UNCHANGED <<done, issued>>
  PROVE  NonceInv'
BY DEF NonceInv

\* As long as no approval changes and no decision is recorded, what passed stays as it is.
LEMMA RowsStay ==
  ASSUME ConfInv, UNCHANGED <<approvals, actionLog, allowed>>,
         \A r \in handling' : Sent(r)
  PROVE  DecisionInv' /\ PassInv'
<1>1. DecisionInv' BY DEF ConfInv, DecisionInv, Sent
<1>2. ApprovedAsShown' BY DEF ConfInv, PassInv, ApprovedAsShown
<1>3. PassInv' BY <1>2 DEF ConfInv, PassInv
<1> QED BY <1>1, <1>3

\* What somebody asks or prepares, beside the turn.
LEMMA TurnStays ==
  ASSUME ConfInv, UNCHANGED <<epoch, approvals, turnRow, wait>>
  PROVE  WaitInv'
BY DEF ConfInv, WaitInv, Latest, NoWait

\* SettleApproval: the call that waited goes on, and what it did not use expires. It leaves no
\* decision that could be taken, and nothing that passed changes.
LEMMA SettleKeeps ==
  ASSUME ConfInv, wait # NoWait, NEW state \in {"denied", "refused"}, SettleApproval(state),
         UNCHANGED <<epoch, world, workspace, link, tests, tokens, handling, actionLog, done, allowed, issued>>
  PROVE  ConfInv'
<1>1. /\ Latest \in DOMAIN approvals /\ Len(approvals) \in Nat
      /\ approvals \in Seq(Row) /\ approvals[Latest] \in Row
  BY LenProperties, ElementOfSeq DEF ConfInv, WaitInv, RowShape, Latest
<1> DEFINE row == [approvals[Latest] EXCEPT
                     !.state = IF @ \in {"pending", "approved"} THEN "expired" ELSE @]
<1>2. approvals' = [approvals EXCEPT ![Latest] = row]
  BY <1>1 DEF SettleApproval
<1>3. /\ row \in Row /\ row.owner = approvals[Latest].owner /\ row.world = approvals[Latest].world
      /\ row.revision = approvals[Latest].revision
      /\ row.state # "pending" /\ row.state # "approved"
      /\ row.state = "consumed" <=> approvals[Latest].state = "consumed"
  BY <1>1 DEF Row
<1> HIDE DEF row
<1>4. approvals' \in Seq(Row) /\ Len(approvals') = Len(approvals) /\ DOMAIN approvals' = DOMAIN approvals
  BY <1>1, <1>2, <1>3, ExceptSeq
<1>5. \A a \in DOMAIN approvals : approvals'[a] = IF a = Latest THEN row ELSE approvals[a]
  BY <1>1, <1>2
<1>6. /\ turnRow' \in [state : {"none", "running", "awaiting_approval", "cancel_requested"},
                       revision : Nat, link : Links]
      /\ turnRow'.state # "awaiting_approval" /\ turnRow'.link = turnRow.link
      /\ turnRow'.state \in {"running", "awaiting_approval"} => turnRow.state \in {"running", "awaiting_approval"}
  BY DEF SettleApproval, ConfInv, RowShape
<1>7. wait' = NoWait BY DEF SettleApproval
<1> USE DEF NoWait
<1>8. RowShape' BY <1>4, <1>6, <1>7 DEF ConfInv, RowShape
<1>9. NonceInv' BY FewerNonces DEF ConfInv
<1>10. DecisionInv' BY <1>3, <1>4, <1>5 DEF ConfInv, DecisionInv, Sent
<1>11. WaitInv' BY <1>6, <1>7 DEF WaitInv
<1>12. ApprovedAsShown' BY <1>3, <1>4, <1>5 DEF ConfInv, PassInv, ApprovedAsShown
<1>13. PassInv' BY <1>4, <1>12 DEF ConfInv, PassInv
<1>14. KeysBound' BY <1>6 DEF ConfInv, KeysBound
<1> QED BY <1>8, <1>9, <1>10, <1>11, <1>13, <1>14 DEF ConfInv

\* A cancellation (cancel_turn) ends a wait, and a turn that uses a key.
LEMMA CancelledKeeps ==
  ASSUME ConfInv, Cancelled, UNCHANGED <<epoch, approvals>>
  PROVE  /\ WaitInv'
         /\ turnRow' \in [state : {"none", "running", "awaiting_approval", "cancel_requested"},
                          revision : Nat, link : Links]
         /\ wait' \in [stage : {"idle", "waiting", "checking", "ending"},
                       future : {"none", "approve", "deny", "cancelled"}]
         /\ turnRow'.state \notin {"running", "awaiting_approval"}
BY DEF ConfInv, WaitInv, RowShape, Cancelled, NoWait, Latest

-----------------------------------------------------------------------------
(* Confirmations: the actions on approvals. *)

\* A new approval takes the place after all others (AskApproval).
LEMMA AskKeeps ==
  ASSUME ConfInv, AskApproval
  PROVE  ConfInv'
<1> USE DEF NoWait
<1> DEFINE row == [state |-> "pending", world |-> world, owner |-> epoch,
                   revision |-> workspace.revision, late |-> FALSE]
<1>1. row \in Row /\ row.state = "pending" BY DEF ConfInv, RowShape, Row
<1>2. approvals' = Append(approvals, row) BY DEF AskApproval
<1> HIDE DEF row
<1>3. approvals \in Seq(Row) /\ Len(approvals) \in Nat /\ DOMAIN approvals = 1 .. Len(approvals)
  BY LenProperties DEF ConfInv, RowShape
<1>4. /\ approvals' \in Seq(Row) /\ Len(approvals') = Len(approvals) + 1
      /\ DOMAIN approvals' = 1 .. Len(approvals) + 1
      /\ \A a \in DOMAIN approvals : a \in DOMAIN approvals' /\ approvals'[a] = approvals[a]
      /\ approvals'[Len(approvals) + 1] = row
  BY <1>1, <1>2, <1>3, AppendProperties
<1>5. \A a \in DOMAIN approvals' : a \in DOMAIN approvals \/ (a = Len(approvals) + 1 /\ approvals'[a] = row)
  BY <1>3, <1>4
<1>6. RowShape' BY <1>4 DEF ConfInv, RowShape, AskApproval
<1>7. NonceInv'
  <2>1. UNCHANGED <<tokens, done, issued>> BY DEF AskApproval
  <2>2. NonceInv BY DEF ConfInv
  <2> QED BY <2>1, <2>2, FewerNonces
<1>8. DecisionInv'
  <2>1. handling' = handling /\ actionLog' = actionLog BY DEF AskApproval
  <2>2. \A r \in handling : Sent(r) => Sent(r)' BY <1>4 DEF Sent
  <2>3. DecisionInv BY DEF ConfInv
  <2>4. \A a \in DOMAIN approvals' : approvals'[a].state \in {"approved", "consumed"} =>
          a \in DOMAIN approvals /\ approvals'[a] = approvals[a]
    BY <1>1, <1>4, <1>5
  <2> HIDE DEF Sent
  <2> QED BY <1>4, <2>1, <2>2, <2>3, <2>4 DEF DecisionInv
<1>9. WaitInv'
  <2>1. Latest' \in DOMAIN approvals' BY <1>3, <1>4 DEF Latest
  <2> QED BY <2>1 DEF WaitInv, AskApproval
<1>10. ApprovedAsShown' BY <1>4 DEF ConfInv, PassInv, ApprovedAsShown, AskApproval
<1>11. PassInv' BY <1>4, <1>10 DEF ConfInv, PassInv, AskApproval
<1>12. KeysBound' BY DEF ConfInv, KeysBound, RowShape, AskApproval
<1> QED BY <1>6, <1>7, <1>8, <1>9, <1>11, <1>12 DEF ConfInv

\* wait_for returns: a denial or a lapse settles, an approval is looked at once more.
LEMMA TakeKeeps ==
  ASSUME ConfInv, TakeDecision
  PROVE  ConfInv'
<1> USE DEF NoWait
<1>1. UNCHANGED <<epoch, world, workspace, link, key, tests, tokens, handling, actionLog, done,
                  allowed, issued, requests>> /\ wait.stage = "waiting"
  BY DEF TakeDecision
<1>2. wait # NoWait BY <1>1
<1>3. CASE SettleApproval("denied") \/ SettleApproval("refused") BY <1>1, <1>2, <1>3, SettleKeeps
<1>4. CASE /\ UNCHANGED <<approvals, turnRow>>
                /\ \/ LiveSoFar(Latest, "approved") /\ wait' = [wait EXCEPT !.stage = "checking"]
                   \/ wait' = [stage |-> "ending", future |-> "cancelled"]
  <2>1. RowShape' BY <1>1, <1>4 DEF ConfInv, RowShape
  <2>2. NonceInv' BY <1>1 DEF ConfInv, NonceInv
  <2>3. DecisionInv' /\ PassInv' BY <1>1, <1>4, RowsStay DEF ConfInv, DecisionInv
  <2>4. WaitInv'
    <3>1. wait \in [stage : {"idle", "waiting", "checking", "ending"},
                    future : {"none", "approve", "deny", "cancelled"}]
      BY DEF ConfInv, RowShape
    <3> QED BY <1>1, <1>2, <1>4, <3>1 DEF ConfInv, WaitInv, Latest, LiveSoFar
  <2>5. KeysBound' BY <1>1, <1>4 DEF ConfInv, KeysBound
  <2> QED BY <2>1, <2>2, <2>3, <2>4, <2>5 DEF ConfInv
<1>5. \/ SettleApproval("denied") \/ SettleApproval("refused")
      \/ /\ UNCHANGED <<approvals, turnRow>>
         /\ \/ LiveSoFar(Latest, "approved") /\ wait' = [wait EXCEPT !.stage = "checking"]
            \/ wait' = [stage |-> "ending", future |-> "cancelled"]
  BY DEF TakeDecision
<1> QED BY <1>3, <1>4, <1>5

\* The last look: the call passes with what holds at this moment, or is refused.
LEMMA CheckKeeps ==
  ASSUME ConfInv, FinishCheck
  PROVE  ConfInv'
<1> USE DEF NoWait
<1>1. /\ UNCHANGED <<epoch, world, workspace, link, key, tests, tokens, handling, actionLog, done,
                     issued, requests>>
      /\ wait.stage = "checking" /\ wait # NoWait
  BY DEF FinishCheck
<1>2. CASE ~StillLive(Latest) BY <1>1, <1>2, SettleKeeps DEF FinishCheck
<1>3. CASE StillLive(Latest)
  <2> DEFINE row == [approvals[Latest] EXCEPT !.state = "consumed"]
             pass == [approval |-> Latest, world |-> world, workspace |-> workspace, epoch |-> epoch]
  <2>1. /\ Latest \in DOMAIN approvals /\ Len(approvals) \in Nat /\ DOMAIN approvals = 1 .. Len(approvals)
        /\ approvals \in Seq(Row) /\ approvals[Latest] \in Row
        /\ approvals[Latest].state = "approved" /\ approvals[Latest].owner = epoch
    BY <1>1, LenProperties, ElementOfSeq DEF ConfInv, WaitInv, RowShape, Latest
  <2>2. approvals' = [approvals EXCEPT ![Latest] = row] /\ allowed' = Append(allowed, pass)
    BY <1>3, <2>1 DEF FinishCheck, SettleApproval
  <2>3. /\ row \in Row /\ row.owner = epoch /\ row.world = world /\ row.state = "consumed"
        /\ row.revision = workspace.revision /\ workspace.trusted
    BY <1>3, <2>1 DEF Row, StillLive
  <2>4. pass.approval = Latest /\ pass.world = world /\ pass.workspace = workspace /\ pass.epoch = epoch
    OBVIOUS
  <2> HIDE DEF row, pass
  <2>5. approvals' \in Seq(Row) /\ Len(approvals') = Len(approvals) /\ DOMAIN approvals' = DOMAIN approvals
    BY <2>1, <2>2, <2>3, ExceptSeq, LenProperties
  <2>6. \A a \in DOMAIN approvals : approvals'[a] = IF a = Latest THEN row ELSE approvals[a]
    BY <2>1, <2>2
  <2>7. PICK S : allowed \in Seq(S) BY DEF ConfInv, PassInv
  <2> DEFINE after == Append(allowed, pass)
  <2>8. /\ after \in Seq(S \cup {pass})
        /\ Len(allowed) \in Nat /\ DOMAIN allowed = 1 .. Len(allowed) /\ DOMAIN after = 1 .. Len(allowed) + 1
        /\ \A i \in 1 .. Len(allowed) : after[i] = allowed[i]
        /\ after[Len(allowed) + 1] = pass
    BY <2>7, OneAppended
  <2>9. allowed' = after BY <2>2
  <2> HIDE DEF after
  <2>10. \A i \in DOMAIN allowed' : \/ i \in DOMAIN allowed /\ allowed'[i] = allowed[i]
                                    \/ i = Len(allowed) + 1 /\ allowed'[i] = pass
    BY <2>8, <2>9
  <2>11. \A i \in DOMAIN allowed : allowed[i].approval # Latest
    BY <2>1 DEF ConfInv, PassInv, ApprovedAsShown
  <2>12. \E request \in actionLog : request.approval = Latest /\ request.decision = "approve"
    BY <2>1 DEF ConfInv, DecisionInv
  <2>13. ApprovedAsShown'
    <3>1. \A i \in DOMAIN allowed' :
            /\ approvals'[allowed'[i].approval].state = "consumed"
            /\ approvals'[allowed'[i].approval].owner = allowed'[i].epoch
            /\ approvals'[allowed'[i].approval].world = allowed'[i].world
            /\ approvals'[allowed'[i].approval].revision = allowed'[i].workspace.revision
            /\ allowed'[i].workspace.trusted
            /\ \E request \in actionLog' : request.approval = allowed'[i].approval /\ request.decision = "approve"
      <4> TAKE i \in DOMAIN allowed'
      <4>1. CASE i \in DOMAIN allowed /\ allowed'[i] = allowed[i]
        <5>1. allowed[i].approval \in DOMAIN approvals /\ allowed[i].approval # Latest
          BY <2>11, <4>1 DEF ConfInv, PassInv
        <5>2. approvals'[allowed[i].approval] = approvals[allowed[i].approval] BY <2>6, <5>1
        <5> QED BY <1>1, <4>1, <5>2 DEF ConfInv, PassInv, ApprovedAsShown
      <4>2. CASE i = Len(allowed) + 1 /\ allowed'[i] = pass
        <5>1. approvals'[Latest] = row BY <2>1, <2>6
        <5> QED BY <1>1, <2>3, <2>4, <2>12, <4>2, <5>1
      <4> QED BY <2>10, <4>1, <4>2
    <3>2. \A i, j \in DOMAIN allowed' : j # i => allowed'[j].approval # allowed'[i].approval
      <4> SUFFICES ASSUME NEW i \in DOMAIN allowed', NEW j \in DOMAIN allowed', j # i
                   PROVE  allowed'[j].approval # allowed'[i].approval
        OBVIOUS
      <4> QED BY <2>4, <2>10, <2>11 DEF ConfInv, PassInv, ApprovedAsShown
    <3> QED BY <3>1, <3>2 DEF ApprovedAsShown
  <2>14. PassInv' BY <2>1, <2>4, <2>5, <2>8, <2>9, <2>10, <2>13 DEF ConfInv, PassInv
  <2>15. DecisionInv' BY <1>1, <2>3, <2>5, <2>6, <2>12 DEF ConfInv, DecisionInv, Sent
  <2>16. wait' = NoWait BY <1>3 DEF FinishCheck, SettleApproval
  <2>17. /\ turnRow' \in [state : {"none", "running", "awaiting_approval", "cancel_requested"},
                         revision : Nat, link : Links]
         /\ turnRow'.state # "awaiting_approval" /\ turnRow'.link = turnRow.link
         /\ turnRow'.state \in {"running", "awaiting_approval"} => turnRow.state \in {"running", "awaiting_approval"}
    BY <1>3 DEF FinishCheck, SettleApproval, ConfInv, RowShape
  <2>18. RowShape' BY <1>1, <2>5, <2>16, <2>17 DEF ConfInv, RowShape
  <2>19. NonceInv' BY <1>1 DEF ConfInv, NonceInv
  <2>20. WaitInv' BY <2>16, <2>17 DEF WaitInv
  <2>21. KeysBound' BY <1>1, <2>17 DEF ConfInv, KeysBound
  <2> QED BY <2>14, <2>15, <2>18, <2>19, <2>20, <2>21 DEF ConfInv
<1> QED BY <1>2, <1>3

\* A decision is recorded for an approval that has none, and by a nonce that is then gone.
LEMMA DecideKeeps ==
  ASSUME ConfInv, NEW request \in handling, FinishDecide(request)
  PROVE  ConfInv'
<1> USE DEF NoWait
<1> DEFINE a == request.approval
           row == [approvals[a] EXCEPT !.state = IF request.decision = "approve" THEN "approved" ELSE "denied"]
<1>1. /\ UNCHANGED <<epoch, world, workspace, link, tests, turnRow, allowed, issued>>
      /\ approvals[a].state = "pending" /\ actionLog' = actionLog \cup {request}
      /\ handling' = handling \ {request} /\ turnRow.state = "awaiting_approval"
      /\ request.token \in tokens /\ Consume(request.token)
  BY DEF FinishDecide, StillLive, Valid
<1>2. /\ a \in DOMAIN approvals /\ Len(approvals) \in Nat /\ DOMAIN approvals = 1 .. Len(approvals)
      /\ approvals \in Seq(Row) /\ approvals[a] \in Row
  BY LenProperties, ElementOfSeq DEF ConfInv, DecisionInv, Sent, RowShape
<1>3. approvals' = [approvals EXCEPT ![a] = row] BY <1>2 DEF FinishDecide
<1>4. /\ row \in Row /\ row.owner = approvals[a].owner /\ row.world = approvals[a].world
      /\ row.revision = approvals[a].revision /\ row.state \in {"approved", "denied"}
      /\ row.state = "approved" => request.decision = "approve"
  BY <1>2 DEF Row
<1> HIDE DEF row
<1>5. approvals' \in Seq(Row) /\ Len(approvals') = Len(approvals) /\ DOMAIN approvals' = DOMAIN approvals
  BY <1>2, <1>3, <1>4, ExceptSeq, LenProperties
<1>6. \A b \in DOMAIN approvals : approvals'[b] = IF b = a THEN row ELSE approvals[b]
  BY <1>2, <1>3
<1>7. \A r \in actionLog : r.approval # a BY <1>1 DEF ConfInv, DecisionInv
<1>8. \/ wait' = wait \/ wait' = [wait EXCEPT !.future = request.decision]
  BY DEF FinishDecide
<1>9. request.decision \in {"approve", "deny"} BY DEF FinishDecide, ConfInv, DecisionInv, Sent
<1>10. RowShape' BY <1>1, <1>5, <1>8, <1>9 DEF ConfInv, RowShape
<1>11. NonceInv' BY <1>1, ConsumeKeeps DEF ConfInv
<1>12. DecisionInv'
  <2>1. \A r \in handling' : Sent(r)' BY <1>1, <1>5 DEF ConfInv, DecisionInv, Sent
  <2>2. \A r \in actionLog' : r.approval \in DOMAIN approvals' /\ approvals'[r.approval].state # "pending"
    BY <1>1, <1>2, <1>4, <1>5, <1>6 DEF ConfInv, DecisionInv
  <2>3. \A b \in DOMAIN approvals' : approvals'[b].state \in {"approved", "consumed"} =>
          \E r \in actionLog' : r.approval = b /\ r.decision = "approve"
    <3> TAKE b \in DOMAIN approvals'
    <3>1. CASE b = a BY <1>1, <1>4, <1>6, <1>2, <3>1
    <3>2. CASE b # a BY <1>1, <1>5, <1>6, <3>2 DEF ConfInv, DecisionInv
    <3> QED BY <3>1, <3>2
  <2>4. \A r, s \in actionLog' : r.approval = s.approval => r = s
    BY <1>1, <1>7 DEF ConfInv, DecisionInv
  <2> QED BY <2>1, <2>2, <2>3, <2>4 DEF DecisionInv
<1>13. WaitInv'
  <2>1. wait # NoWait /\ wait.stage # "idle" BY <1>1 DEF ConfInv, WaitInv
  <2>2. wait'.stage = wait.stage /\ wait' # NoWait BY <1>8, <2>1 DEF ConfInv, RowShape
  <2>3. wait.stage = "checking" => a # Latest BY <1>1 DEF ConfInv, WaitInv
  <2> QED BY <1>1, <1>5, <1>6, <2>1, <2>2, <2>3 DEF ConfInv, WaitInv, Latest
<1>14. PassInv'
  <2>1. \A i \in DOMAIN allowed : allowed[i].approval \in DOMAIN approvals /\ allowed[i].approval # a
    BY <1>1 DEF ConfInv, PassInv, ApprovedAsShown
  <2>2. ApprovedAsShown' BY <1>1, <1>6, <2>1 DEF ConfInv, PassInv, ApprovedAsShown
  <2> QED BY <1>1, <1>5, <2>2 DEF ConfInv, PassInv
<1>15. KeysBound' BY <1>1 DEF ConfInv, KeysBound
<1> QED BY <1>10, <1>11, <1>12, <1>13, <1>14, <1>15 DEF ConfInv

\* The clock passes the limit of the newest approval.
LEMMA LateKeeps ==
  ASSUME ConfInv, BecomeLate
  PROVE  ConfInv'
<1> USE DEF NoWait
<1> DEFINE row == [approvals[Latest] EXCEPT !.late = TRUE]
<1>1. /\ Latest \in DOMAIN approvals /\ Len(approvals) \in Nat
      /\ approvals \in Seq(Row) /\ approvals[Latest] \in Row
  BY LenProperties, ElementOfSeq DEF ConfInv, RowShape, Latest, BecomeLate
<1>2. approvals' = [approvals EXCEPT ![Latest] = row] BY <1>1 DEF BecomeLate
<1>3. /\ row \in Row /\ row.owner = approvals[Latest].owner /\ row.world = approvals[Latest].world
      /\ row.revision = approvals[Latest].revision /\ row.state = approvals[Latest].state
  BY <1>1 DEF Row
<1> HIDE DEF row
<1>4. approvals' \in Seq(Row) /\ Len(approvals') = Len(approvals) /\ DOMAIN approvals' = DOMAIN approvals
  BY <1>1, <1>2, <1>3, ExceptSeq
<1>5. \A a \in DOMAIN approvals : approvals'[a] = IF a = Latest THEN row ELSE approvals[a]
  BY <1>1, <1>2
<1>6. RowShape' BY <1>4 DEF ConfInv, RowShape, BecomeLate
<1>7. NonceInv'
  <2>1. UNCHANGED <<tokens, done, issued>> BY DEF BecomeLate
  <2>2. NonceInv BY DEF ConfInv
  <2> QED BY <2>1, <2>2, FewerNonces
<1>8. DecisionInv' BY <1>3, <1>4, <1>5 DEF ConfInv, DecisionInv, Sent, BecomeLate
<1>9. WaitInv' BY <1>1, <1>3, <1>4, <1>5 DEF ConfInv, WaitInv, Latest, BecomeLate
<1>10. ApprovedAsShown' BY <1>3, <1>4, <1>5 DEF ConfInv, PassInv, ApprovedAsShown, BecomeLate
<1>11. PassInv' BY <1>4, <1>10 DEF ConfInv, PassInv, BecomeLate
<1>12. KeysBound' BY DEF ConfInv, KeysBound, BecomeLate
<1> QED BY <1>6, <1>7, <1>8, <1>9, <1>11, <1>12 DEF ConfInv

\* A restart forgets nonces, keys and waits, and no row.
LEMMA RestartKeeps ==
  ASSUME ConfInv, RestartEngine
  PROVE  ConfInv'
<1> USE DEF NoWait
<1>1. RowShape' BY DEF ConfInv, RowShape, RestartEngine, NoTurn, NoRow, Links
<1>2. NonceInv' BY FewerNonces DEF ConfInv, RestartEngine
<1>3. DecisionInv' /\ PassInv' BY RowsStay DEF RestartEngine
<1>4. WaitInv' BY DEF WaitInv, RestartEngine, NoTurn
<1>5. KeysBound' BY DEF KeysBound, RestartEngine, NoTurn
<1> QED BY <1>1, <1>2, <1>3, <1>4, <1>5 DEF ConfInv

-----------------------------------------------------------------------------
(* Confirmations: the other actions, and the theorems. *)

\* A turn begins, is cancelled and ends.
LEMMA TurnKeeps ==
  ASSUME ConfInv, StartConfiguredTurn \/ CancelConfiguredTurn \/ EndConfiguredTurn
  PROVE  ConfInv'
<1>1. CASE StartConfiguredTurn
  <2>1. turnRow' = [state |-> "running", revision |-> workspace.revision, link |-> link]
    BY <1>1 DEF StartConfiguredTurn
  <2>2. RowShape' BY <1>1, <2>1 DEF ConfInv, RowShape, StartConfiguredTurn
  <2>3. NonceInv' BY <1>1, FewerNonces DEF ConfInv, StartConfiguredTurn
  <2>4. DecisionInv' /\ PassInv' BY <1>1, RowsStay DEF StartConfiguredTurn, ConfInv, DecisionInv
  <2>5. WaitInv' BY <1>1, <2>1 DEF ConfInv, WaitInv, Latest, NoWait, StartConfiguredTurn
  <2>6. KeysBound' BY <1>1, <2>1 DEF ConfInv, KeysBound, StartConfiguredTurn
  <2> QED BY <2>2, <2>3, <2>4, <2>5, <2>6 DEF ConfInv
<1>2. CASE CancelConfiguredTurn
  <2>1. WaitInv' BY <1>2, CancelledKeeps DEF CancelConfiguredTurn
  <2>2. RowShape' BY <1>2, CancelledKeeps DEF ConfInv, RowShape, CancelConfiguredTurn
  <2>3. NonceInv' BY <1>2, FewerNonces DEF ConfInv, CancelConfiguredTurn
  <2>4. DecisionInv' /\ PassInv' BY <1>2, RowsStay DEF CancelConfiguredTurn, ConfInv, DecisionInv
  <2>5. KeysBound' BY <1>2, CancelledKeeps DEF ConfInv, KeysBound, CancelConfiguredTurn
  <2> QED BY <2>1, <2>2, <2>3, <2>4, <2>5 DEF ConfInv
<1>3. CASE EndConfiguredTurn
  <2>1. turnRow' = NoTurn BY <1>3 DEF EndConfiguredTurn
  <2>2. RowShape' BY <1>3, <2>1 DEF ConfInv, RowShape, EndConfiguredTurn, NoTurn, NoRow, Links
  <2>3. NonceInv' BY <1>3, FewerNonces DEF ConfInv, EndConfiguredTurn
  <2>4. DecisionInv' /\ PassInv' BY <1>3, RowsStay DEF EndConfiguredTurn, ConfInv, DecisionInv
  <2>5. WaitInv' BY <1>3, <2>1 DEF ConfInv, WaitInv, Latest, NoWait, NoTurn, EndConfiguredTurn
  <2>6. KeysBound' BY <1>3, <2>1 DEF ConfInv, KeysBound, NoTurn, EndConfiguredTurn
  <2> QED BY <2>2, <2>3, <2>4, <2>5, <2>6 DEF ConfInv
<1> QED BY <1>1, <1>2, <1>3

\* What touches nonces, requests and the clock of the workspace alone.
LEMMA QuietKeeps ==
  ASSUME ConfInv, NonceInv', world' \in Nat, \A r \in handling' : Sent(r), tests' \subseteq tests,
         UNCHANGED <<epoch, workspace, link, approvals, turnRow, wait, actionLog, allowed>>
  PROVE  ConfInv'
<1>1. RowShape' BY DEF ConfInv, RowShape
<1>2. DecisionInv' /\ PassInv' BY RowsStay
<1>3. WaitInv' BY TurnStays
<1>4. KeysBound' BY DEF ConfInv, KeysBound
<1> QED BY <1>1, <1>2, <1>3, <1>4 DEF ConfInv

\* The connection changes or loses its key: what uses the key is cancelled (Revoke).
LEMMA RevokeKeeps ==
  ASSUME ConfInv, NonceInv', Revoke, link' \in Links,
         UNCHANGED <<epoch, world, workspace, approvals, handling, actionLog, allowed>>
  PROVE  ConfInv'
<1>1. Cancelled /\ tests' = {} BY DEF Revoke
<1>2. WaitInv' BY <1>1, CancelledKeeps
<1>3. RowShape' BY <1>1, CancelledKeeps DEF ConfInv, RowShape
<1>4. DecisionInv' /\ PassInv' BY RowsStay DEF ConfInv, DecisionInv
<1>5. KeysBound' BY <1>1, CancelledKeeps DEF KeysBound
<1> QED BY <1>2, <1>3, <1>4, <1>5 DEF ConfInv

\* Every action keeps the invariant.
LEMMA ConfStep ==
  ASSUME ConfInv, [ConfNext]_conf_vars
  PROVE  ConfInv'
<1>1. \A r \in handling : Sent(r) BY DEF ConfInv, DecisionInv
<1>2. NonceInv /\ world \in Nat /\ world + 1 \in Nat BY DEF ConfInv, RowShape
<1>3. CASE UNCHANGED conf_vars
  <2>1. NonceInv' BY <1>2, <1>3, FewerNonces DEF conf_vars
  <2> QED BY <1>1, <1>2, <1>3, <2>1, QuietKeeps DEF conf_vars
<1>4. CASE \/ StartConfiguredTurn \/ CancelConfiguredTurn \/ EndConfiguredTurn
  BY <1>4, TurnKeeps
<1>5. CASE AskApproval BY <1>5, AskKeeps
<1>6. CASE TakeDecision BY <1>6, TakeKeeps
<1>7. CASE FinishCheck BY <1>7, CheckKeeps
<1>8. CASE EndWait
  <2>1. wait # NoWait BY <1>8 DEF EndWait, NoWait
  <2> QED BY <1>8, <2>1, SettleKeeps DEF EndWait
<1>9. ASSUME NEW a \in 1 .. MaxApprovals,
             Begin(Preparation(a)) \/ \E request \in Decisions(a) : Begin(request)
      PROVE  ConfInv'
  <2>1. PICK request : Begin(request) /\ (request = Preparation(a) \/ request \in Decisions(a))
    BY <1>9
  <2>2. request.method = "decide" => request.decision \in {"approve", "deny"}
    BY <2>1 DEF Preparation, Decisions
  <2>3. handling' = handling \cup {request} /\ Sent(request) BY <2>1, <2>2 DEF Begin, Sent
  <2>4. NonceInv' BY <1>2, <2>1, FewerNonces DEF Begin
  <2> QED BY <1>1, <1>2, <2>1, <2>3, <2>4, QuietKeeps DEF Begin
<1>10. ASSUME NEW request \in handling, Refuse(request)
       PROVE  ConfInv'
  <2>1. NonceInv' BY <1>2, <1>10, FewerNonces DEF Refuse
  <2> QED BY <1>1, <1>2, <1>10, <2>1, QuietKeeps DEF Refuse
<1>11. ASSUME NEW request \in handling, FinishPrepare(request)
       PROVE  ConfInv'
  <2>1. NonceInv' BY <1>2, <1>11, IssueKeeps DEF FinishPrepare
  <2> QED BY <1>1, <1>2, <1>11, <2>1, QuietKeeps DEF FinishPrepare
<1>12. ASSUME NEW request \in handling, FinishDecide(request)
       PROVE  ConfInv'
  BY <1>12, DecideKeeps
<1>13. ASSUME NEW token \in tokens, ExpireToken(token)
       PROVE  ConfInv'
  <2>1. NonceInv' BY <1>2, <1>13, FewerNonces DEF ExpireToken
  <2> QED BY <1>1, <1>2, <1>13, <2>1, QuietKeeps DEF ExpireToken
<1>14. ASSUME NEW token \in tokens, BeginTest(token)
       PROVE  ConfInv'
  <2>1. NonceInv' BY <1>2, <1>14, ConsumeKeeps DEF BeginTest
  <2>2. tests' = tests \cup {link} BY <1>14 DEF BeginTest, HasKey
  <2>3. RowShape' BY <1>14 DEF ConfInv, RowShape, BeginTest
  <2>4. DecisionInv' /\ PassInv' BY <1>1, <1>14, RowsStay DEF BeginTest
  <2>5. WaitInv' BY <1>14, TurnStays DEF BeginTest
  <2>6. KeysBound' BY <1>14, <2>2 DEF ConfInv, KeysBound, BeginTest
  <2> QED BY <2>1, <2>3, <2>4, <2>5, <2>6 DEF ConfInv
<1>15. ASSUME NEW token \in tokens, NEW allow \in BOOLEAN, AuthorizeWorkspace(token, allow)
       PROVE  ConfInv'
  <2>1. NonceInv' BY <1>2, <1>15, ConsumeKeeps DEF AuthorizeWorkspace
  <2>2. RowShape' BY <1>15 DEF ConfInv, RowShape, AuthorizeWorkspace
  <2>3. DecisionInv' /\ PassInv' BY <1>1, <1>15, RowsStay DEF AuthorizeWorkspace
  <2>4. WaitInv' BY <1>15, TurnStays DEF AuthorizeWorkspace
  <2>5. KeysBound' BY <1>15 DEF ConfInv, KeysBound, AuthorizeWorkspace
  <2> QED BY <2>1, <2>2, <2>3, <2>4, <2>5 DEF ConfInv
<1>16. ASSUME NEW token \in tokens, NEW s \in Settings, SetConnection(token, s)
       PROVE  ConfInv'
  <2>1. NonceInv' BY <1>2, <1>16, ConsumeKeeps DEF SetConnection
  <2>2. link' \in Links BY <1>16 DEF SetConnection, ConfInv, RowShape, Links
  <2> QED BY <1>16, <2>1, <2>2, RevokeKeeps DEF SetConnection
<1>17. CASE PrepareTrust \/ PrepareTest \/ \E s \in Settings : PrepareSet(s)
  <2>1. NonceInv' BY <1>2, <1>17, IssueKeeps DEF PrepareTrust, PrepareTest, PrepareSet
  <2> QED BY <1>1, <1>2, <1>17, <2>1, QuietKeeps DEF PrepareTrust, PrepareTest, PrepareSet
<1>18. CASE Inject
  <2>1. NonceInv' BY <1>2, <1>18, FewerNonces DEF Inject
  <2> QED BY <1>1, <1>2, <1>18, <2>1, QuietKeeps DEF Inject
<1>19. CASE ChangeWorld
  <2>1. NonceInv' BY <1>2, <1>19, FewerNonces DEF ChangeWorld
  <2> QED BY <1>1, <1>2, <1>19, <2>1, QuietKeeps DEF ChangeWorld
<1>20. CASE BecomeLate BY <1>20, LateKeeps
<1>21. CASE RestartEngine BY <1>21, RestartKeeps
<1>22. ASSUME NEW delete \in BOOLEAN, ClearConnection(delete)
       PROVE  ConfInv'
  <2>1. NonceInv' BY <1>2, <1>22, FewerNonces DEF ClearConnection
  <2>2. link' \in Links BY <1>22 DEF ClearConnection, ConfInv, RowShape, Links, NoRow
  <2> QED BY <1>22, <2>1, <2>2, RevokeKeeps DEF ClearConnection
<1>23. ASSUME NEW scope \in tests, EndTest(scope)
       PROVE  ConfInv'
  <2>1. NonceInv' BY <1>2, <1>23, FewerNonces DEF EndTest
  <2> QED BY <1>1, <1>2, <1>23, <2>1, QuietKeeps DEF EndTest
<1> QED
  BY <1>3, <1>4, <1>5, <1>6, <1>7, <1>8, <1>9, <1>10, <1>11, <1>12, <1>13, <1>14, <1>15, <1>16,
     <1>17, <1>18, <1>19, <1>20, <1>21, <1>22, <1>23 DEF ConfNext

\* ConfInv is an invariant: whatever requests, expiries, cancellations and restarts overlap.
THEOREM ConfInductive == ConfSpec => []ConfInv
<1>1. ConfInit => ConfInv
  <2> SUFFICES ASSUME ConfInit PROVE ConfInv OBVIOUS
  <2> USE DEF ConfInit
  <2>1. RowShape BY DEF RowShape, Links, NoRow, NoTurn, NoWait
  <2>2. NonceInv BY DEF NonceInv
  <2>3. DecisionInv BY DEF DecisionInv
  <2>4. WaitInv BY DEF WaitInv, NoTurn, NoWait
  <2>5. PassInv BY DEF PassInv, ApprovedAsShown
  <2>6. KeysBound BY DEF KeysBound, NoTurn
  <2> QED BY <2>1, <2>2, <2>3, <2>4, <2>5, <2>6 DEF ConfInv
<1> QED BY <1>1, ConfStep, PTL DEF ConfSpec

\* ConfirmedAsShown for every number of calls, requests and restarts: what passed is what was shown
\* and approved, and a nonce serves one operation (approvals.py, engine/methods.py).
THEOREM Confirmed == ConfSpec => []ConfirmedAsShown
<1>1. ConfInv => ConfirmedAsShown
  BY DEF ConfInv, PassInv, DecisionInv, NonceInv, ConfirmedAsShown, DecidedOnce
<1> QED BY <1>1, ConfInductive, PTL

(* EventStream. *)

Event == [scope : EventScopes \union {JournalScope}, record : Nat]

\* The control state.
StreamTypes ==
  /\ journal \in Nat /\ offset \in 0 .. journal /\ store \in Seq(Event)
  /\ captured \in Seq(1 .. journal)
  /\ subscription \in [open : BOOLEAN, scanned : Nat, acked : Nat, pending : Nat]
  /\ client \in [connected : BOOLEAN, cursor : Nat, base : Nat, valid : BOOLEAN, got : Seq(Nat)]
  /\ wire \in Seq([cursor : Nat, events : Seq(Nat)]) /\ acks \in SUBSET Nat

\* The events of a store that come from the journal are its first o records.
HoldsRecords(s, o) ==
  LET projected == {i \in DOMAIN s : s[i].record # 0} IN
  /\ {s[i].record : i \in projected} = 1 .. o
  /\ \A i \in projected : s[i].scope = JournalScope
  /\ \A i, j \in projected : i < j => s[i].record < s[j].record

Prolongs(s, t) == Len(s) <= Len(t) /\ \A i \in 1 .. Len(s) : t[i] = s[i]

\* What a projection of records up to m may make.
Projections(m) ==
  {p \in [refused : BOOLEAN, offset : 0 .. m, store : Seq(Event)] :
     HoldsRecords(p.store, p.offset) /\ Prolongs(store, p.store)}

\* s are the matching rows after a, up to b.
AreRows(s, a, b) ==
  /\ s \in Seq(Nat)
  /\ \A i, j \in DOMAIN s : i < j => s[i] < s[j]
  /\ {s[i] : i \in DOMAIN s} = {i \in a + 1 .. b : Matches(i)}

\* A client has what matches up to its cursor; what matches up to the last row that was scanned is
\* on its way to it, and nothing more is sent before that is acknowledged.
ClientInv ==
  /\ client.base <= client.cursor /\ client.cursor <= Len(store)
  /\ AreRows(client.got, client.base, client.cursor)
  /\ ~client.connected => ~subscription.open /\ wire = <<>> /\ acks = {}
  /\ client.connected =>
       /\ client.cursor <= subscription.scanned /\ subscription.scanned <= Len(store)
       /\ acks \subseteq 0 .. client.cursor
       /\ subscription.pending # 0 => subscription.pending = subscription.scanned
       /\ wire = <<>> => AreRows(<<>>, client.cursor, subscription.scanned)
       /\ wire # <<>> =>
            /\ subscription.pending = subscription.scanned /\ client.cursor < subscription.scanned
            /\ \E e \in Seq(Nat) : /\ wire = <<[cursor |-> subscription.scanned, events |-> e]>>
                                   /\ AreRows(e, client.cursor, subscription.scanned)

StreamInv == StreamTypes /\ HoldsRecords(store, offset) /\ ClientInv

-----------------------------------------------------------------------------
(* The projection. *)

\* One record is compared, refused or inserted.
LEMMA InsertedKeeps ==
  ASSUME store \in Seq(Event), NEW m \in Nat, NEW p \in Projections(m), NEW n \in 1 .. m
  PROVE  Inserted(p, n) \in Projections(m)
<1>1. /\ p \in [refused : BOOLEAN, offset : 0 .. m, store : Seq(Event)]
      /\ HoldsRecords(p.store, p.offset) /\ Prolongs(store, p.store)
  BY DEF Projections
<1>2. CASE p.refused \/ n <= p.offset
  BY <1>2 DEF Inserted
<1>3. CASE ~(p.refused \/ n <= p.offset) /\ n # p.offset + 1
  <2>1. Inserted(p, n) = [p EXCEPT !.refused = TRUE]
    BY <1>3 DEF Inserted
  <2> QED
    BY <1>1, <2>1 DEF Projections
<1>4. CASE ~(p.refused \/ n <= p.offset) /\ n = p.offset + 1
  <2> DEFINE e == [scope |-> JournalScope, record |-> n]
  <2>1. PICK s \in Seq(Event), k \in Nat : s = p.store /\ k = Len(s)
    BY <1>1
  <2>2. e \in Event
    BY DEF Event
  <2>3. e.record = n /\ e.scope = JournalScope
    OBVIOUS
  <2> HIDE DEF e
  <2>4. PICK t \in Seq(Event) : t = Append(s, e)
    <3>1. Append(s, e) \in Seq(Event)
      BY <2>1, <2>2
    <3> QED
      BY ONLY <3>1, Zenon
  <2>5. /\ Len(t) = k + 1 /\ DOMAIN t = 1 .. k + 1 /\ DOMAIN s = 1 .. k /\ t[k + 1] = e
        /\ \A i \in 1 .. k : t[i] = s[i]
    BY <2>1, <2>2, <2>4
  <2>6. Inserted(p, n) = [p EXCEPT !.offset = n, !.store = t]
    BY <1>4, <2>1, <2>4 DEF Inserted, e
  <2>7. Prolongs(store, t)
    <3>1. Len(store) <= k /\ \A i \in 1 .. Len(store) : s[i] = store[i]
      BY <1>1, <2>1 DEF Prolongs
    <3>2. \A i \in 1 .. Len(store) : i \in 1 .. k
      BY <3>1, <2>1
    <3>3. Len(store) \in Nat
      OBVIOUS
    <3> QED
      BY <2>1, <2>5, <3>1, <3>2, <3>3 DEF Prolongs
  <2>8. HoldsRecords(t, n)
    <3> DEFINE old == {i \in 1 .. k : s[i].record # 0}
    <3>1. /\ {s[i].record : i \in old} = 1 .. p.offset
          /\ \A i \in old : s[i].scope = JournalScope
          /\ \A i, j \in old : i < j => s[i].record < s[j].record
      BY <1>1, <2>1, <2>5 DEF HoldsRecords
    <3>2. {i \in DOMAIN t : t[i].record # 0} = old \union {k + 1}
      BY <2>1, <2>3, <2>5
    <3>3. \A i \in old : i \in 1 .. k /\ t[i] = s[i] /\ s[i].record \in 1 .. p.offset
      BY <2>5, <3>1
    <3> HIDE DEF old
    <3>4. {t[i].record : i \in old \union {k + 1}} = 1 .. n
      <4>1. {t[i].record : i \in old \union {k + 1}} = {s[i].record : i \in old} \union {n}
        BY <2>3, <2>5, <3>3
      <4>2. (1 .. p.offset) \union {n} = 1 .. n
        BY <1>1, <1>4
      <4> QED
        BY <3>1, <4>1, <4>2
    <3>5. \A i \in old \union {k + 1} : t[i].scope = JournalScope
      BY <2>3, <2>5, <3>1, <3>3
    <3>6. ASSUME NEW i \in old \union {k + 1}, NEW j \in old \union {k + 1}, i < j
          PROVE  t[i].record < t[j].record
      <4>1. CASE i \in old /\ j \in old
        BY <3>1, <3>3, <3>6, <4>1
      <4>2. CASE i \in old /\ j = k + 1
        BY <1>1, <1>4, <2>3, <2>5, <3>3, <4>2
      <4>3. i # k + 1
        BY <2>1, <3>3, <3>6
      <4> QED
        BY <4>1, <4>2, <4>3
    <3> QED
      BY <3>2, <3>4, <3>5, <3>6 DEF HoldsRecords
  <2>9. Inserted(p, n) = [refused |-> p.refused, offset |-> n, store |-> t]
    BY <1>1, <2>6
  <2>10. n \in 0 .. m /\ p.refused \in BOOLEAN
    BY <1>1
  <2> QED
    BY <2>7, <2>8, <2>9, <2>10 DEF Projections
<1> QED
  BY <1>2, <1>3, <1>4

\* All of them (JournalProjector._project).
LEMMA ProjectionIs ==
  ASSUME StreamInv, NEW m \in Nat, offset <= m, NEW records \in Seq(1 .. m)
  PROVE  Projection(records) \in Projections(m)
<1> DEFINE base == [refused |-> FALSE, offset |-> offset, store |-> store]
           g == [x \in Projections(m) \X (1 .. m) |-> Inserted(x[1], x[2])]
           Makes(k) == k = [i \in 0 .. Len(records) |->
                              IF i = 0 THEN base ELSE Inserted(k[i - 1], records[i])]
<1>1. store \in Seq(Event) /\ offset \in 0 .. m /\ HoldsRecords(store, offset) /\ Len(records) \in Nat
  BY DEF StreamInv, StreamTypes
<1>2. base \in Projections(m)
  <2>1. Prolongs(store, store)
    BY <1>1 DEF Prolongs
  <2> QED
    BY <1>1, <2>1 DEF Projections
<1>3. g \in [Projections(m) \X (1 .. m) -> Projections(m)]
  BY <1>1, InsertedKeeps
<1> HIDE DEF base
<1>4. PICK f \in [0 .. Len(records) -> Projections(m)] : IsFold(f, base, g, records)
  BY <1>2, <1>3, FoldExists
<1>5. ASSUME NEW i \in 0 .. Len(records)
      PROVE  f[i] = IF i = 0 THEN base ELSE Inserted(f[i - 1], records[i])
  <2>1. CASE i = 0
    BY <1>4, <2>1 DEF IsFold
  <2>2. CASE i # 0
    <3>1. i \in 1 .. Len(records) /\ i - 1 \in 0 .. Len(records)
      BY <2>2, <1>1
    <3>2. f[i - 1] \in Projections(m)
      BY <3>1, <1>4, Zenon
    <3>4. records[i] \in 1 .. m
      BY <3>1
    <3>3. f[i] = g[<<f[i - 1], records[i]>>]
      BY <3>1, <1>4 DEF IsFold
    <3> QED
      BY <2>2, <3>2, <3>3, <3>4
  <2> QED
    BY <2>1, <2>2
<1>6. Makes(f)
  BY <1>4, <1>5
<1>7. ASSUME NEW k, Makes(k) PROVE k = f
  <2>1. k = [i \in 0 .. Len(records) |-> k[i]] /\ f = [i \in 0 .. Len(records) |-> f[i]]
    BY <1>4, <1>7
  <2>2. k[0] = f[0]
    BY <1>1, <1>5, <1>7
  <2>3. ASSUME NEW i \in 1 .. Len(records), f[i - 1] = k[i - 1] PROVE f[i] = k[i]
    <3>1. i \in 0 .. Len(records) /\ i # 0
      BY <1>1
    <3> QED
      BY <1>5, <1>7, <2>3, <3>1
  <2>4. \A i \in 1 .. Len(records) : f[i - 1] = k[i - 1] => f[i] = k[i]
    BY <2>3
  <2>5. Len(records) \in Nat
    BY <1>1
  <2> QED
    BY ONLY <2>1, <2>2, <2>4, <2>5, OneFunction
<1> HIDE DEF Makes
<1>8. f = CHOOSE k : Makes(k)
  BY <1>6, <1>7
<1>9. Projection(records) = f[Len(records)]
  BY <1>8 DEF Projection, Makes, base
<1> QED
  BY <1>1, <1>4, <1>9

-----------------------------------------------------------------------------
(* The rows of a batch. *)

\* No row is nothing.
LEMMA NoRowIs == ASSUME NEW a \in Nat PROVE AreRows(<<>>, a, a)
<1>1. {i \in a + 1 .. a : Matches(i)} = {}
  OBVIOUS
<1> QED
  BY <1>1 DEF AreRows

\* Rows and the rows that follow them.
LEMMA RowsJoin ==
  ASSUME NEW a \in Nat, NEW b \in Nat, NEW c \in Nat, a <= b, b <= c, NEW s, NEW u, AreRows(s, a, b), AreRows(u, b, c)
  PROVE  AreRows(s \o u, a, c)
<1>0. s \in Seq(Nat) /\ u \in Seq(Nat)
  BY DEF AreRows
<1>1. PICK k \in Nat, l \in Nat, t \in Seq(Nat) : k = Len(s) /\ l = Len(u) /\ t = s \o u
  <2>1. Len(s) \in Nat /\ Len(u) \in Nat /\ s \o u \in Seq(Nat)
    BY <1>0
  <2> QED
    BY ONLY <2>1, Zenon
<1>2. /\ DOMAIN t = 1 .. k + l /\ DOMAIN s = 1 .. k /\ DOMAIN u = 1 .. l
      /\ \A i \in 1 .. k : t[i] = s[i]
      /\ \A i \in 1 .. l : t[k + i] = u[i]
  BY <1>0, <1>1
<1>3. /\ \A i \in 1 .. k : s[i] \in a + 1 .. b /\ Matches(s[i])
      /\ \A i \in 1 .. l : u[i] \in b + 1 .. c /\ Matches(u[i])
  BY <1>2 DEF AreRows
<1>4. \A i \in 1 .. k + l : i \in 1 .. k \/ (i - k \in 1 .. l /\ t[i] = u[i - k])
  <2>1. \A i \in 1 .. k + l : i \in 1 .. k \/ (i - k \in 1 .. l /\ k + (i - k) = i)
    OBVIOUS
  <2> QED
    BY <1>2, <2>1
<1>5. ASSUME NEW i \in 1 .. k + l, NEW j \in 1 .. k + l, i < j PROVE t[i] < t[j]
  <2>1. CASE j \in 1 .. k
    <3>1. i \in 1 .. k
      BY <1>5, <2>1
    <3>2. s[i] < s[j]
      BY <1>2, <1>5, <2>1, <3>1 DEF AreRows
    <3> QED
      BY <1>2, <2>1, <3>1, <3>2
  <2>2. CASE j \notin 1 .. k /\ i \in 1 .. k
    <3>1. t[i] = s[i] /\ j - k \in 1 .. l /\ t[j] = u[j - k]
      BY <1>2, <1>4, <2>2
    <3>2. s[i] <= b /\ u[j - k] >= b + 1 /\ s[i] \in Nat /\ u[j - k] \in Nat
      BY <1>3, <2>2, <3>1
    <3> QED
      BY <3>1, <3>2
  <2>3. CASE j \notin 1 .. k /\ i \notin 1 .. k
    <3>1. i - k \in 1 .. l /\ t[i] = u[i - k] /\ j - k \in 1 .. l /\ t[j] = u[j - k]
      BY <1>4, <2>3
    <3>2. i - k < j - k
      BY <1>1, <1>5
    <3>3. u[i - k] < u[j - k]
      BY <1>2, <3>1, <3>2 DEF AreRows
    <3> QED
      BY <3>1, <3>3
  <2> QED
    BY <2>1, <2>2, <2>3
<1>6. {t[i] : i \in 1 .. k + l} = {i \in a + 1 .. c : Matches(i)}
  <2>1. ASSUME NEW i \in 1 .. k + l PROVE t[i] \in a + 1 .. c /\ Matches(t[i])
    <3>1. CASE i \in 1 .. k
      <4>1. t[i] = s[i] /\ s[i] \in a + 1 .. b /\ Matches(s[i])
        BY <1>2, <1>3, <3>1
      <4> QED
        BY <4>1
    <3>2. CASE i \notin 1 .. k
      <4>1. t[i] = u[i - k] /\ u[i - k] \in b + 1 .. c /\ Matches(u[i - k])
        BY <1>3, <1>4, <3>2
      <4> QED
        BY <4>1
    <3> QED
      BY <3>1, <3>2
  <2>2. ASSUME NEW r \in a + 1 .. c, Matches(r) PROVE \E i \in 1 .. k + l : t[i] = r
    <3>1. CASE r \in a + 1 .. b
      <4>0. r \in {s[i] : i \in 1 .. k}
        <5>1. {s[i] : i \in 1 .. k} = {i \in a + 1 .. b : Matches(i)}
          BY <1>2 DEF AreRows
        <5> QED
          BY ONLY <5>1, <2>2, <3>1
      <4>1. PICK i \in 1 .. k : s[i] = r
        BY ONLY <4>0
      <4>2. i \in 1 .. k + l
        OBVIOUS
      <4> QED
        BY <1>2, <4>1, <4>2
    <3>2. CASE r \in b + 1 .. c
      <4>0. r \in {u[i] : i \in 1 .. l}
        <5>1. {u[i] : i \in 1 .. l} = {i \in b + 1 .. c : Matches(i)}
          BY <1>2 DEF AreRows
        <5> QED
          BY ONLY <5>1, <2>2, <3>2
      <4>1. PICK i \in 1 .. l : u[i] = r
        BY ONLY <4>0
      <4>2. k + i \in 1 .. k + l
        OBVIOUS
      <4> QED
        BY <1>2, <4>1, <4>2
    <3> QED
      BY <3>1, <3>2
  <2> QED
    BY <2>1, <2>2
<1> QED
  BY <1>1, <1>2, <1>5, <1>6 DEF AreRows

\* The next row comes last if it matches.
LEMMA NextRow ==
  ASSUME NEW a \in Nat, NEW b \in Nat, a <= b, NEW s, AreRows(s, a, b)
  PROVE  AreRows(IF Matches(b + 1) THEN Append(s, b + 1) ELSE s, a, b + 1)
<1>1. s \in Seq(Nat) /\ {i \in b + 1 .. b + 1 : Matches(i)} = IF Matches(b + 1) THEN {b + 1} ELSE {}
  <2>1. b + 1 .. b + 1 = {b + 1}
    OBVIOUS
  <2> QED
    BY <2>1 DEF AreRows
<1>2. CASE Matches(b + 1)
  <2> DEFINE u == <<b + 1>>
  <2>1. u \in Seq(Nat) /\ DOMAIN u = {1} /\ u[1] = b + 1
    OBVIOUS
  <2>2. {u[i] : i \in DOMAIN u} = {b + 1}
    BY <2>1
  <2>3. \A i, j \in DOMAIN u : ~(i < j)
    BY <2>1
  <2>4. AreRows(u, b, b + 1)
    BY <1>1, <1>2, <2>1, <2>2, <2>3 DEF AreRows
  <2>5. s \o u = Append(s, b + 1)
    BY <1>1
  <2>6. AreRows(s \o u, a, b + 1)
    <3>1. b + 1 \in Nat /\ b <= b + 1
      OBVIOUS
    <3> QED
      BY <2>4, <3>1, RowsJoin
  <2> QED
    BY <1>2, <2>5, <2>6
<1>3. CASE ~Matches(b + 1)
  <2>1. AreRows(<<>>, b, b + 1)
    BY <1>1, <1>3 DEF AreRows
  <2>2. AreRows(s \o <<>>, a, b + 1)
    <3>1. b + 1 \in Nat /\ b <= b + 1
      OBVIOUS
    <3> QED
      BY <2>1, <3>1, RowsJoin
  <2> QED
    BY <1>1, <1>3, <2>2
<1> QED
  BY <1>2, <1>3

\* The events of a batch (EventStream.next_batch).
LEMMA EventsAre ==
  ASSUME NEW a \in Nat, NEW b \in Nat, a <= b
  PROVE  AreRows(Events(a, b), a, b)
<1> DEFINE Keeping(k) == k = [i \in 0 .. b - a |->
                                IF i = 0 THEN <<>>
                                ELSE IF Matches(a + i) THEN Append(k[i - 1], a + i) ELSE k[i - 1]]
           list == [i \in 1 .. b - a |-> a + i]
           g == [x \in Seq(Nat) \X Nat |-> IF Matches(x[2]) THEN Append(x[1], x[2]) ELSE x[1]]
<1>1. b - a \in Nat /\ list \in Seq(Nat) /\ Len(list) = b - a /\ <<>> \in Seq(Nat)
  OBVIOUS
<1>2. g \in [Seq(Nat) \X Nat -> Seq(Nat)]
  OBVIOUS
<1>3. PICK f \in [0 .. Len(list) -> Seq(Nat)] : IsFold(f, <<>>, g, list)
  BY <1>1, <1>2, FoldExists
<1>4. Keeping(f)
  <2>1. ASSUME NEW i \in 0 .. b - a
        PROVE  f[i] = IF i = 0 THEN <<>>
                      ELSE IF Matches(a + i) THEN Append(f[i - 1], a + i) ELSE f[i - 1]
    <3>1. CASE i = 0
      BY <1>3, <3>1 DEF IsFold
    <3>2. CASE i # 0
      <4>1. i \in 1 .. b - a /\ i - 1 \in 0 .. b - a
        BY <3>2, <1>1
      <4>2. f[i - 1] \in Seq(Nat) /\ list[i] = a + i /\ a + i \in Nat
        BY <4>1, <1>1, <1>3
      <4>3. f[i] = g[<<f[i - 1], list[i]>>]
        BY <4>1, <1>1, <1>3 DEF IsFold
      <4> QED
        BY <3>2, <4>2, <4>3
    <3> QED
      BY <3>1, <3>2
  <2> QED
    BY <1>1, <1>3, <2>1
<1> HIDE DEF Keeping
<1>5. PICK k : Keeping(k) /\ Events(a, b) = k[b - a]
  <2>1. Keeping(CHOOSE k : Keeping(k))
    BY <1>4
  <2>2. Events(a, b) = (CHOOSE k : Keeping(k))[b - a]
    BY DEF Events, Keeping
  <2> QED
    BY <2>1, <2>2
<1>6. \A i \in 0 .. b - a : k[i] = IF i = 0 THEN <<>>
                                  ELSE IF Matches(a + i) THEN Append(k[i - 1], a + i) ELSE k[i - 1]
  BY <1>5 DEF Keeping
<1> DEFINE P == [i \in 0 .. b - a |-> AreRows(k[i], a, a + i)]
<1>7. P[0]
  <2>1. 0 \in 0 .. b - a /\ a + 0 = a
    BY <1>1
  <2>2. k[0] = <<>>
    BY <1>6, <2>1
  <2> QED
    BY <2>1, <2>2, NoRowIs
<1>8. ASSUME NEW i \in 1 .. b - a, P[i - 1] PROVE P[i]
  <2>1. i - 1 \in 0 .. b - a /\ i \in 0 .. b - a /\ i # 0 /\ a + (i - 1) \in Nat /\ a <= a + (i - 1)
        /\ (a + (i - 1)) + 1 = a + i
    BY <1>1
  <2>2. AreRows(k[i - 1], a, a + (i - 1))
    BY <1>8, <2>1
  <2>3. k[i] = IF Matches(a + i) THEN Append(k[i - 1], a + i) ELSE k[i - 1]
    BY <1>6, <2>1
  <2>4. AreRows(k[i], a, a + i)
    BY <2>1, <2>2, <2>3, NextRow
  <2> QED
    BY <2>1, <2>4
<1>9. P[b - a]
  <2> HIDE DEF P
  <2>1. \A i \in 0 .. b - a : P[i]
    BY <1>1, <1>7, <1>8, UpTo
  <2> QED
    BY <1>1, <2>1
<1> QED
  BY <1>1, <1>5, <1>9

-----------------------------------------------------------------------------
(* The steps. *)

\* What matches stays what it was when the store grows.
LEMMA MatchesStay ==
  ASSUME store \in Seq(Event), store' \in Seq(Event), Prolongs(store, store'),
         NEW s, NEW a \in Nat, NEW b \in Nat, b <= Len(store), AreRows(s, a, b)
  PROVE  AreRows(s, a, b)'
<1>1. \A i \in a + 1 .. b : i \in 1 .. Len(store) /\ i \in DOMAIN store /\ store'[i] = store[i]
  BY DEF Prolongs
<1>2. \A i \in a + 1 .. b : Matches(i)' <=> Matches(i)
  BY <1>1 DEF Matches
<1>3. {i \in a + 1 .. b : Matches(i)'} = {i \in a + 1 .. b : Matches(i)}
  BY <1>2
<1> QED
  BY <1>3 DEF AreRows

\* The client's side when the store grows.
LEMMA ClientStays ==
  ASSUME StreamInv, store' \in Seq(Event), Prolongs(store, store'), UNCHANGED client_side
  PROVE  ClientInv'
<1>1. UNCHANGED <<client, subscription, wire, acks>> /\ store \in Seq(Event)
  BY DEF client_side, StreamInv, StreamTypes
<1>2. /\ client \in [connected : BOOLEAN, cursor : Nat, base : Nat, valid : BOOLEAN, got : Seq(Nat)]
      /\ subscription.scanned \in Nat /\ Len(store) \in Nat /\ Len(store') \in Nat /\ Len(store) <= Len(store')
  BY <1>1 DEF StreamInv, StreamTypes, Prolongs
<1>3. PICK base \in Nat, cursor \in Nat, scanned \in Nat, got \in Seq(Nat) :
        base = client.base /\ cursor = client.cursor /\ scanned = subscription.scanned /\ got = client.got
  BY <1>2
<1>4. base <= cursor /\ cursor <= Len(store) /\ AreRows(got, base, cursor)
  BY <1>3 DEF StreamInv, ClientInv
<1>5. cursor <= Len(store') /\ AreRows(got, base, cursor)'
  BY <1>1, <1>2, <1>4, MatchesStay
<1>6. ASSUME client.connected
      PROVE  /\ cursor <= scanned /\ scanned <= Len(store')
             /\ wire = <<>> => AreRows(<<>>, cursor, scanned)'
             /\ wire # <<>> => \E e \in Seq(Nat) : /\ wire = <<[cursor |-> scanned, events |-> e]>>
                                                   /\ AreRows(e, cursor, scanned)'
  <2>1. /\ cursor <= scanned /\ scanned <= Len(store)
        /\ wire = <<>> => AreRows(<<>>, cursor, scanned)
        /\ wire # <<>> => \E e \in Seq(Nat) : /\ wire = <<[cursor |-> scanned, events |-> e]>>
                                              /\ AreRows(e, cursor, scanned)
    BY <1>3, <1>6 DEF StreamInv, ClientInv
  <2>2. \A e : AreRows(e, cursor, scanned) => AreRows(e, cursor, scanned)'
    BY <1>1, <1>3, <2>1, MatchesStay
  <2> QED
    BY <1>2, <1>3, <2>1, <2>2
<1> QED
  BY <1>1, <1>3, <1>4, <1>5, <1>6 DEF StreamInv, ClientInv

\* A projection writes what it may, or nothing (JournalProjector._project).
LEMMA ProjectKeeps ==
  ASSUME StreamInv, NEW m \in Nat, offset <= m, NEW records \in Seq(1 .. m), Project(records)
  PROVE  store' \in Seq(Event) /\ offset' \in 0 .. m /\ HoldsRecords(store', offset') /\ Prolongs(store, store')
<1>1. store \in Seq(Event) /\ offset \in 0 .. m /\ HoldsRecords(store, offset) /\ Prolongs(store, store)
  BY DEF StreamInv, StreamTypes, Prolongs
<1>2. CASE Projection(records).refused
  BY <1>1, <1>2 DEF Project
<1>3. CASE ~Projection(records).refused
  <2>1. PICK p \in Projections(m) : p = Projection(records)
    BY ProjectionIs
  <2>2. offset' = p.offset /\ store' = p.store
    BY <1>3, <2>1 DEF Project
  <2> QED
    BY <2>1, <2>2 DEF Projections
<1> QED
  BY <1>2, <1>3

\* The numbers up to m.
LEMMA AllRecords == ASSUME NEW m \in Nat PROVE [n \in 1 .. m |-> n] \in Seq(1 .. m)
OBVIOUS

\* The steps of the projection.
LEMMA ProjectionSteps ==
  ASSUME StreamInv,
         \/ \E fails \in BOOLEAN : BeginJournal(fails) \/ \E later \in 0 .. 1 : EndJournal(later, fails)
         \/ AppendRecord \/ ProjectLive
  PROVE  StreamInv'
<1>1. /\ journal \in Nat /\ offset \in 0 .. journal /\ store \in Seq(Event) /\ captured \in Seq(1 .. journal)
      /\ HoldsRecords(store, offset) /\ Prolongs(store, store)
  BY DEF StreamInv, StreamTypes, Prolongs
<1>2. \A m \in Nat : journal <= m => captured \in Seq(1 .. m)
  <2>1. ASSUME NEW m \in Nat, journal <= m PROVE captured \in Seq(1 .. m)
    <3>1. 1 .. journal \subseteq 1 .. m
      BY <1>1, <2>1
    <3> QED
      BY <1>1, <3>1, SeqMonotonic
  <2> QED
    BY <2>1
<1>3. /\ UNCHANGED client_side /\ journal' \in Nat /\ journal <= journal' /\ captured' \in Seq(1 .. journal')
      /\ \/ UNCHANGED <<store, offset>>
         \/ \E r \in Seq(1 .. journal') : Project(r)
  <2>1. ASSUME NEW fails \in BOOLEAN, BeginJournal(fails) PROVE <1>3
    <3>1. journal' = journal /\ captured' = <<>> /\ UNCHANGED client_side
          /\ (UNCHANGED <<store, offset>> \/ Project([n \in 1 .. journal |-> n]))
      BY <2>1 DEF BeginJournal
    <3>2. <<>> \in Seq(1 .. journal)
      OBVIOUS
    <3> QED
      BY <1>1, <3>1, <3>2, AllRecords
  <2>2. ASSUME NEW fails \in BOOLEAN, NEW later \in 0 .. 1, EndJournal(later, fails) PROVE <1>3
    <3>1. journal' = journal + later /\ captured' = <<>> /\ UNCHANGED client_side
          /\ (UNCHANGED <<store, offset>> \/ Project([n \in 1 .. journal' |-> n]))
      BY <2>2 DEF EndJournal
    <3>2. journal' \in Nat /\ journal <= journal' /\ <<>> \in Seq(1 .. journal')
      BY <1>1, <3>1
    <3> QED
      BY <3>1, <3>2, AllRecords
  <2>3. CASE AppendRecord
    <3>1. journal' = journal + 1 /\ captured' = Append(captured, journal + 1) /\ UNCHANGED client_side
          /\ UNCHANGED <<store, offset>>
      BY <2>3 DEF AppendRecord
    <3>2. journal + 1 \in Nat /\ journal <= journal + 1 /\ journal + 1 \in 1 .. journal + 1
      BY <1>1
    <3>3. captured \in Seq(1 .. journal + 1)
      BY <1>2, <3>2
    <3>4. Append(captured, journal + 1) \in Seq(1 .. journal + 1)
      BY <3>2, <3>3
    <3> QED
      BY <3>1, <3>2, <3>4
  <2>4. CASE ProjectLive
    <3>1. /\ journal' = journal /\ (captured' = captured \/ captured' = <<>>)
          /\ UNCHANGED client_side /\ Project(captured)
      BY <2>4 DEF ProjectLive
    <3>2. <<>> \in Seq(1 .. journal)
      OBVIOUS
    <3>3. captured \in Seq(1 .. journal') /\ captured' \in Seq(1 .. journal')
      BY <1>1, <3>1, <3>2
    <3>4. \E r \in Seq(1 .. journal') : Project(r)
      BY <3>1, <3>3
    <3>5. journal' \in Nat /\ journal <= journal'
      BY <1>1, <3>1
    <3> QED
      BY <3>1, <3>3, <3>4, <3>5
  <2> QED
    BY <2>1, <2>2, <2>3, <2>4
<1>4. store' \in Seq(Event) /\ offset' \in 0 .. journal' /\ HoldsRecords(store', offset') /\ Prolongs(store, store')
  <2>1. CASE UNCHANGED <<store, offset>>
    BY <1>1, <1>3, <2>1
  <2>2. ASSUME NEW r \in Seq(1 .. journal'), Project(r) PROVE <1>4
    <3>1. offset <= journal'
      BY <1>1, <1>3
    <3> QED
      BY <1>3, <2>2, <3>1, ProjectKeeps
  <2> QED
    BY <1>3, <2>1, <2>2
<1>5. ClientInv'
  BY <1>3, <1>4, ClientStays
<1>6. StreamTypes'
  BY <1>3, <1>4 DEF StreamInv, StreamTypes, client_side
<1> QED
  BY <1>4, <1>5, <1>6 DEF StreamInv

\* The engine's own events (Store.event).
LEMMA EngineEventStep ==
  ASSUME StreamInv, NEW scope \in EventScopes, EngineEvent(scope)
  PROVE  StreamInv'
<1> DEFINE e == [scope |-> scope, record |-> 0]
<1>1. e \in Event /\ e.record = 0
  BY DEF Event
<1> HIDE DEF e
<1>2. store' = Append(store, e) /\ UNCHANGED <<journal, captured, offset, client_side>>
  BY DEF EngineEvent, e
<1>3. PICK s \in Seq(Event), k \in Nat : s = store /\ k = Len(s)
  BY DEF StreamInv, StreamTypes
<1>4. Append(s, e) \in Seq(Event)
  BY <1>1
<1>5. PICK t \in Seq(Event) : t = store'
  BY <1>2, <1>3, <1>4
<1>6. /\ Len(t) = k + 1 /\ DOMAIN t = 1 .. k + 1 /\ DOMAIN s = 1 .. k /\ t[k + 1] = e
      /\ \A i \in 1 .. k : t[i] = s[i]
  BY <1>1, <1>2, <1>3, <1>5
<1>7. Prolongs(store, store')
  BY <1>3, <1>5, <1>6 DEF Prolongs
<1>8. HoldsRecords(store', offset')
  <2>1. {i \in DOMAIN t : t[i].record # 0} = {i \in DOMAIN s : s[i].record # 0}
    BY <1>1, <1>6, <1>3
  <2>2. \A i \in {i \in DOMAIN s : s[i].record # 0} : t[i] = s[i]
    BY <1>6
  <2>3. HoldsRecords(s, offset)
    BY <1>3 DEF StreamInv
  <2>4. HoldsRecords(t, offset)
    BY <2>1, <2>2, <2>3 DEF HoldsRecords
  <2> QED
    BY <1>2, <1>5, <2>4
<1>9. ClientInv'
  BY <1>2, <1>5, <1>7, ClientStays
<1>10. StreamTypes'
  BY <1>2, <1>5 DEF StreamInv, StreamTypes, client_side
<1> QED
  BY <1>8, <1>9, <1>10 DEF StreamInv

\* The types, and a store that no step of the subscription writes.
LEMMA SubscriptionOnly ==
  ASSUME StreamInv, StreamTypes', ClientInv', UNCHANGED <<store, offset>>
  PROVE  StreamInv'
BY DEF StreamInv

\* EventStream.subscribe.
LEMMA SubscribeStep ==
  ASSUME StreamInv, Subscribe
  PROVE  StreamInv'
<1>1. /\ store \in Seq(Event) /\ Len(store) \in Nat
      /\ client \in [connected : BOOLEAN, cursor : Nat, base : Nat, valid : BOOLEAN, got : Seq(Nat)]
  BY DEF StreamInv, StreamTypes
<1>2. PICK start \in Nat : /\ start = StartAt(client.cursor, client.valid) /\ start <= Len(store)
                           /\ client.valid => start = client.cursor
                           /\ ~client.valid => start = Len(store)
  <2>1. client.cursor \in Nat /\ client.cursor <= Len(store)
    BY <1>1 DEF StreamInv, ClientInv
  <2> QED
    BY <1>1, <2>1 DEF StartAt
<1>3. /\ UNCHANGED <<journal_side, wire, acks>> /\ ~client.connected
      /\ subscription' = [open |-> TRUE, scanned |-> start, acked |-> start, pending |-> 0]
  BY <1>2 DEF Subscribe, Open
<1>4. PICK base \in Nat, got \in Seq(Nat) :
        /\ client' = [connected |-> TRUE, cursor |-> start, base |-> base, valid |-> TRUE, got |-> got]
        /\ base <= start /\ AreRows(got, base, start)
  <2>1. CASE client.valid
    <3>1. client' = [connected |-> TRUE, cursor |-> start, base |-> client.base, valid |-> TRUE, got |-> client.got]
      BY <1>1, <1>2, <2>1 DEF Subscribe
    <3>2. client.base <= start /\ AreRows(client.got, client.base, start) /\ client.base \in Nat /\ client.got \in Seq(Nat)
      BY <1>1, <1>2, <2>1 DEF StreamInv, ClientInv
    <3> QED
      BY <3>1, <3>2
  <2>2. CASE ~client.valid
    <3>1. client' = [connected |-> TRUE, cursor |-> start, base |-> start, valid |-> TRUE, got |-> <<>>]
      BY <1>1, <1>2, <2>2 DEF Subscribe
    <3>2. AreRows(<<>>, start, start) /\ <<>> \in Seq(Nat) /\ start <= start
      BY NoRowIs
    <3> QED
      BY <3>1, <3>2
  <2> QED
    BY <2>1, <2>2
<1>5. store' = store /\ offset' = offset /\ journal' = journal /\ captured' = captured /\ wire' = wire /\ acks' = acks
  BY <1>3 DEF journal_side
<1>6. wire = <<>> /\ acks = {}
  BY <1>3 DEF StreamInv, ClientInv
<1>7. StreamTypes'
  BY <1>3, <1>4, <1>5 DEF StreamInv, StreamTypes
<1>8. ClientInv'
  <2>1. AreRows(<<>>, start, start)
    BY NoRowIs
  <2>2. \A s, a, b : AreRows(s, a, b)' <=> AreRows(s, a, b)
    BY <1>5 DEF AreRows, Matches
  <2>3. client'.connected /\ client'.cursor = start /\ client'.base = base /\ client'.got = got
        /\ subscription'.scanned = start /\ subscription'.pending = 0
    BY <1>3, <1>4
  <2>4. AreRows(got, base, start)' /\ AreRows(<<>>, start, start)'
    BY <1>4, <2>1, <2>2
  <2> QED
    BY <1>2, <1>4, <1>5, <1>6, <2>3, <2>4 DEF ClientInv
<1> QED
  BY <1>5, <1>7, <1>8, SubscriptionOnly

\* EventStream.next_batch.
LEMMA NextBatchStep ==
  ASSUME StreamInv, NextBatch
  PROVE  StreamInv'
<1>1. PICK cursor \in Nat, old \in Nat : cursor = client.cursor /\ old = subscription.scanned
  BY DEF StreamInv, StreamTypes
<1>2. PICK i \in Rows : LET events == Events(old, i) IN
        /\ subscription' = [subscription EXCEPT !.scanned = i, !.pending = IF events = <<>> THEN 0 ELSE i]
        /\ wire' = IF events = <<>> THEN wire ELSE Append(wire, [cursor |-> i, events |-> events])
  BY <1>1 DEF NextBatch
<1>3. i \in Nat /\ old < i /\ i <= Len(store) /\ i # 0
  BY <1>1 DEF Rows, StreamInv, StreamTypes
<1>4. PICK events : events = Events(old, i) /\ AreRows(events, old, i) /\ events \in Seq(Nat)
  <2>1. old <= i
    BY <1>1, <1>3
  <2>2. AreRows(Events(old, i), old, i)
    BY <1>1, <1>3, <2>1, EventsAre
  <2>3. Events(old, i) \in Seq(Nat)
    BY ONLY <2>2 DEF AreRows
  <2> QED
    BY ONLY <2>2, <2>3
<1>5. UNCHANGED <<journal, captured, live, offset, store, acks, client>> /\ subscription.open /\ subscription.pending = 0
  BY DEF NextBatch, journal_side
<1>6. client.connected
  BY <1>5 DEF StreamInv, ClientInv
<1>7. wire = <<>> /\ cursor <= old /\ AreRows(<<>>, cursor, old) /\ acks \subseteq 0 .. cursor
  BY <1>1, <1>5, <1>6 DEF StreamInv, ClientInv
<1>8. AreRows(events, cursor, i)
  <2>1. AreRows(<<>> \o events, cursor, i)
    <3>1. cursor <= old /\ old <= i /\ <<>> \in Seq(Nat)
      BY <1>1, <1>3, <1>7
    <3> QED
      BY <1>1, <1>3, <1>4, <1>7, <3>1, RowsJoin
  <2>2. <<>> \o events = events
    BY <1>4
  <2> QED
    BY <2>1, <2>2
<1>9. \A s, a, b : AreRows(s, a, b)' <=> AreRows(s, a, b)
  BY <1>5 DEF AreRows, Matches
<1>10. subscription \in [open : BOOLEAN, scanned : Nat, acked : Nat, pending : Nat]
  BY DEF StreamInv, StreamTypes
<1>11. CASE events = <<>>
  <2>1. /\ subscription' = [subscription EXCEPT !.scanned = i, !.pending = 0]
        /\ wire' = <<>>
    BY <1>2, <1>4, <1>7, <1>11
  <2>2. subscription'.scanned = i /\ subscription'.pending = 0
        /\ subscription' \in [open : BOOLEAN, scanned : Nat, acked : Nat, pending : Nat]
    BY <1>3, <1>10, <2>1
  <2>3. StreamTypes'
    <3>1. <<>> \in Seq([cursor : Nat, events : Seq(Nat)])
      OBVIOUS
    <3> QED
      BY <1>5, <2>1, <2>2, <3>1 DEF StreamInv, StreamTypes
  <2>4. AreRows(<<>>, cursor, i)'
    BY <1>8, <1>9, <1>11
  <2>5. cursor <= i
    BY <1>1, <1>3, <1>7
  <2>6. ClientInv'
    BY <1>1, <1>3, <1>5, <1>6, <1>7, <1>9, <2>1, <2>2, <2>4, <2>5 DEF StreamInv, ClientInv
  <2> QED
    BY <1>5, <2>3, <2>6, SubscriptionOnly
<1>12. CASE events # <<>>
  <2>1. /\ subscription' = [subscription EXCEPT !.scanned = i, !.pending = i]
        /\ wire' = Append(wire, [cursor |-> i, events |-> events])
    BY <1>2, <1>4, <1>12
  <2>2. wire' = <<[cursor |-> i, events |-> events]>>
    BY <1>7, <2>1
  <2>3. subscription'.scanned = i /\ subscription'.pending = i
        /\ subscription' \in [open : BOOLEAN, scanned : Nat, acked : Nat, pending : Nat]
    BY <1>3, <1>10, <2>1
  <2>4. StreamTypes'
    <3>1. [cursor |-> i, events |-> events] \in [cursor : Nat, events : Seq(Nat)]
      BY <1>3, <1>4
    <3>2. wire' \in Seq([cursor : Nat, events : Seq(Nat)])
      BY <2>2, <3>1
    <3> QED
      BY <1>5, <2>3, <3>2 DEF StreamInv, StreamTypes
  <2>5. AreRows(events, cursor, i)'
    BY <1>8, <1>9
  <2>6. cursor < i /\ cursor <= i
    BY <1>1, <1>3, <1>7
  <2>7. wire' # <<>>
    BY <2>2
  <2>8. ClientInv'
    BY <1>1, <1>3, <1>4, <1>5, <1>6, <1>7, <1>9, <2>2, <2>3, <2>5, <2>6, <2>7 DEF StreamInv, ClientInv
  <2> QED
    BY <1>5, <2>4, <2>8, SubscriptionOnly
<1> QED
  BY <1>11, <1>12

\* The client takes a batch.
LEMMA TakeBatchStep ==
  ASSUME StreamInv, TakeBatch
  PROVE  StreamInv'
<1>1. /\ client \in [connected : BOOLEAN, cursor : Nat, base : Nat, valid : BOOLEAN, got : Seq(Nat)]
      /\ client.connected /\ wire # <<>> /\ acks \in SUBSET Nat
      /\ UNCHANGED <<journal, captured, live, offset, store, subscription>>
  BY DEF TakeBatch, journal_side, StreamInv, StreamTypes
<1>2. PICK base \in Nat, cursor \in Nat, scanned \in Nat, got \in Seq(Nat) :
        base = client.base /\ cursor = client.cursor /\ scanned = subscription.scanned /\ got = client.got
  BY <1>1 DEF StreamInv, StreamTypes
<1>3. PICK e \in Seq(Nat) : wire = <<[cursor |-> scanned, events |-> e]>> /\ AreRows(e, cursor, scanned)
  BY <1>1, <1>2 DEF StreamInv, ClientInv
<1>4. /\ base <= cursor /\ cursor < scanned /\ scanned <= Len(store) /\ AreRows(got, base, cursor)
      /\ acks \subseteq 0 .. cursor /\ subscription.pending = scanned
  BY <1>1, <1>2 DEF StreamInv, ClientInv
<1>5. Head(wire) = [cursor |-> scanned, events |-> e] /\ Tail(wire) = <<>>
  BY <1>3
<1>6. /\ client' = [client EXCEPT !.got = got \o e, !.cursor = scanned]
      /\ acks' = acks \union {scanned} /\ wire' = <<>>
  <2>1. Head(wire).events = e /\ Head(wire).cursor = scanned
    BY <1>5
  <2>2. /\ client' = [client EXCEPT !.got = client.got \o Head(wire).events, !.cursor = Head(wire).cursor]
        /\ acks' = acks \union {Head(wire).cursor} /\ wire' = Tail(wire)
    BY DEF TakeBatch
  <2> QED
    BY <1>2, <1>5, <2>1, <2>2
<1>7. got \o e \in Seq(Nat) /\ AreRows(got \o e, base, scanned)
  <2>1. cursor <= scanned
    BY <1>4
  <2>2. AreRows(got \o e, base, scanned)
    BY <1>2, <1>3, <1>4, <2>1, RowsJoin
  <2> QED
    BY <2>2 DEF AreRows
<1>8. /\ client' \in [connected : BOOLEAN, cursor : Nat, base : Nat, valid : BOOLEAN, got : Seq(Nat)]
      /\ client'.connected /\ client'.got = got \o e /\ client'.cursor = scanned /\ client'.base = base
  BY <1>1, <1>2, <1>6, <1>7
<1>9. StreamTypes'
  <2>1. <<>> \in Seq([cursor : Nat, events : Seq(Nat)])
    OBVIOUS
  <2> QED
    BY <1>1, <1>2, <1>6, <1>8, <2>1 DEF StreamInv, StreamTypes
<1>10. \A s, a, b : AreRows(s, a, b)' <=> AreRows(s, a, b)
  BY <1>1 DEF AreRows, Matches
<1>11. AreRows(got \o e, base, scanned)' /\ AreRows(<<>>, scanned, scanned)'
  BY <1>2, <1>7, <1>10, NoRowIs
<1>12. acks' \subseteq 0 .. scanned
  BY <1>2, <1>4, <1>6
<1>13. base <= scanned /\ scanned <= scanned
  BY <1>4
<1>14. ClientInv'
  BY <1>1, <1>2, <1>4, <1>6, <1>8, <1>11, <1>12, <1>13 DEF ClientInv
<1> QED
  BY <1>1, <1>9, <1>14, SubscriptionOnly

\* EventStream.ack.
LEMMA AckStep ==
  ASSUME StreamInv, NEW c \in acks, NEW again \in BOOLEAN, Ack(c, again)
  PROVE  StreamInv'
<1>1. /\ UNCHANGED <<journal, captured, live, offset, store, wire, client>> /\ acks' \subseteq acks /\ subscription.open
      /\ \/ subscription' = subscription
         \/ c = subscription.pending /\ subscription' = [subscription EXCEPT !.acked = c, !.pending = 0]
  BY DEF Ack, journal_side
<1>2. /\ subscription \in [open : BOOLEAN, scanned : Nat, acked : Nat, pending : Nat] /\ acks \in SUBSET Nat
      /\ client \in [connected : BOOLEAN, cursor : Nat, base : Nat, valid : BOOLEAN, got : Seq(Nat)]
      /\ client.connected
  BY <1>1 DEF StreamInv, StreamTypes, ClientInv
<1>3. PICK base \in Nat, cursor \in Nat, scanned \in Nat, pending \in Nat, got \in Seq(Nat) :
        /\ base = client.base /\ cursor = client.cursor /\ got = client.got
        /\ scanned = subscription.scanned /\ pending = subscription.pending
  BY <1>2
<1>4. /\ base <= cursor /\ cursor <= Len(store) /\ AreRows(got, base, cursor)
      /\ cursor <= scanned /\ scanned <= Len(store) /\ acks \subseteq 0 .. cursor
      /\ pending # 0 => pending = scanned
      /\ wire = <<>> => AreRows(<<>>, cursor, scanned)
      /\ wire # <<>> => /\ pending = scanned /\ cursor < scanned
                        /\ \E e \in Seq(Nat) : wire = <<[cursor |-> scanned, events |-> e]>> /\ AreRows(e, cursor, scanned)
  BY <1>2, <1>3 DEF StreamInv, ClientInv
<1>5. \A s, a, b : AreRows(s, a, b)' <=> AreRows(s, a, b)
  BY <1>1 DEF AreRows, Matches
<1>6. /\ subscription' \in [open : BOOLEAN, scanned : Nat, acked : Nat, pending : Nat]
      /\ subscription'.scanned = scanned /\ subscription'.pending \in {pending, 0}
      /\ wire # <<>> => subscription'.pending = pending
  <2>1. c \in Nat
    BY <1>2
  <2>2. CASE subscription' = subscription
    BY <1>2, <1>3, <2>2
  <2>3. CASE c = pending /\ subscription' = [subscription EXCEPT !.acked = c, !.pending = 0]
    <3>1. wire = <<>>
      BY <1>3, <1>4, <2>1, <2>3
    <3>2. /\ subscription' \in [open : BOOLEAN, scanned : Nat, acked : Nat, pending : Nat]
          /\ subscription'.scanned = scanned /\ subscription'.pending = 0
      BY <1>2, <1>3, <2>1, <2>3
    <3> QED
      BY <3>1, <3>2
  <2> QED
    BY <1>1, <1>3, <2>2, <2>3
<1>7. StreamTypes'
  <2>1. acks' \in SUBSET Nat
    BY <1>1, <1>2
  <2>2. StreamTypes
    BY DEF StreamInv
  <2>3. /\ journal' = journal /\ captured' = captured /\ offset' = offset /\ store' = store
        /\ wire' = wire /\ client' = client
    BY <1>1
  <2> QED
    BY <1>6, <2>1, <2>2, <2>3 DEF StreamTypes
<1>8. ClientInv'
  <2>1. client' = client /\ wire' = wire /\ store' = store /\ client'.connected
    BY <1>1, <1>2
  <2>2. acks' \subseteq 0 .. cursor /\ (subscription'.pending # 0 => subscription'.pending = scanned)
    BY <1>1, <1>4, <1>6
  <2>3. AreRows(got, base, cursor)' /\ (wire = <<>> => AreRows(<<>>, cursor, scanned)')
    BY <1>4, <1>5
  <2>4. wire # <<>> => /\ subscription'.pending = scanned /\ cursor < scanned
                      /\ \E e \in Seq(Nat) : wire = <<[cursor |-> scanned, events |-> e]>> /\ AreRows(e, cursor, scanned)'
    BY <1>4, <1>5, <1>6
  <2>5. client'.base = base /\ client'.cursor = cursor /\ client'.got = got /\ subscription'.scanned = scanned
    BY <1>3, <1>6, <2>1
  <2> QED
    BY <1>4, <2>1, <2>2, <2>3, <2>4, <2>5 DEF ClientInv
<1> QED
  BY <1>1, <1>7, <1>8, SubscriptionOnly

\* The engine ends with all that was on the way, or a cursor is too old.
LEMMA BreakSteps ==
  ASSUME StreamInv, EngineEnds \/ CursorExpires
  PROVE  StreamInv'
<1>1. CASE EngineEnds
  <2>1. /\ UNCHANGED <<journal, offset, store>> /\ captured' = <<>> /\ wire' = <<>> /\ acks' = {}
        /\ subscription' = [open |-> FALSE, scanned |-> 0, acked |-> 0, pending |-> 0]
        /\ client' = [client EXCEPT !.connected = FALSE]
    BY <1>1 DEF EngineEnds, NoSubscription, Open
  <2>2. client \in [connected : BOOLEAN, cursor : Nat, base : Nat, valid : BOOLEAN, got : Seq(Nat)]
    BY DEF StreamInv, StreamTypes
  <2>3. /\ client' \in [connected : BOOLEAN, cursor : Nat, base : Nat, valid : BOOLEAN, got : Seq(Nat)]
        /\ ~client'.connected /\ client'.cursor = client.cursor /\ client'.base = client.base /\ client'.got = client.got
    BY <2>1, <2>2
  <2>4. StreamTypes'
    <3>1. <<>> \in Seq([cursor : Nat, events : Seq(Nat)]) /\ <<>> \in Seq(1 .. journal)
      OBVIOUS
    <3>2. subscription' \in [open : BOOLEAN, scanned : Nat, acked : Nat, pending : Nat]
      BY <2>1
    <3> QED
      BY <2>1, <2>3, <3>1, <3>2 DEF StreamInv, StreamTypes
  <2>5. \A s, a, b : AreRows(s, a, b)' <=> AreRows(s, a, b)
    BY <2>1 DEF AreRows, Matches
  <2>6. ~subscription'.open
    BY <2>1
  <2>7. ClientInv'
    BY <2>1, <2>3, <2>5, <2>6 DEF StreamInv, ClientInv
  <2> QED
    BY <2>1, <2>4, <2>7, SubscriptionOnly
<1>2. CASE CursorExpires
  <2>1. /\ UNCHANGED <<journal, captured, offset, store, subscription, wire, acks>>
        /\ client' = [client EXCEPT !.valid = FALSE]
    BY <1>2 DEF CursorExpires, journal_side
  <2>2. client \in [connected : BOOLEAN, cursor : Nat, base : Nat, valid : BOOLEAN, got : Seq(Nat)]
    BY DEF StreamInv, StreamTypes
  <2>3. /\ client' \in [connected : BOOLEAN, cursor : Nat, base : Nat, valid : BOOLEAN, got : Seq(Nat)]
        /\ client'.connected = client.connected /\ client'.cursor = client.cursor
        /\ client'.base = client.base /\ client'.got = client.got
    BY <2>1, <2>2
  <2>4. StreamTypes'
    BY <2>1, <2>3 DEF StreamInv, StreamTypes
  <2>5. \A s, a, b : AreRows(s, a, b)' <=> AreRows(s, a, b)
    BY <2>1 DEF AreRows, Matches
  <2>6. ClientInv'
    BY <2>1, <2>3, <2>5 DEF StreamInv, ClientInv
  <2> QED
    BY <2>1, <2>4, <2>6, SubscriptionOnly
<1> QED
  BY <1>1, <1>2

\* A stream at its beginning.
LEMMA StreamBegins == StreamInit => StreamInv
<1> SUFFICES ASSUME StreamInit PROVE StreamInv
  OBVIOUS
<1>1. /\ journal = 0 /\ offset = 0 /\ captured = <<>> /\ store = <<>> /\ wire = <<>> /\ acks = {}
      /\ subscription = [open |-> FALSE, scanned |-> 0, acked |-> 0, pending |-> 0]
      /\ client = [connected |-> FALSE, cursor |-> 0, base |-> 0, valid |-> FALSE, got |-> <<>>]
  BY DEF StreamInit, NoSubscription, Open
<1>2. StreamTypes
  <2>1. /\ <<>> \in Seq(Event) /\ <<>> \in Seq(1 .. 0) /\ <<>> \in Seq([cursor : Nat, events : Seq(Nat)])
        /\ <<>> \in Seq(Nat)
    OBVIOUS
  <2>2. /\ subscription \in [open : BOOLEAN, scanned : Nat, acked : Nat, pending : Nat]
        /\ client \in [connected : BOOLEAN, cursor : Nat, base : Nat, valid : BOOLEAN, got : Seq(Nat)]
    BY <1>1, <2>1
  <2> QED
    BY <1>1, <2>1, <2>2 DEF StreamTypes
<1>3. HoldsRecords(store, offset)
  BY <1>1 DEF HoldsRecords
<1>4. ClientInv
  <2>1. AreRows(<<>>, 0, 0)
    BY NoRowIs
  <2> QED
    BY <1>1, <2>1 DEF ClientInv
<1> QED
  BY <1>2, <1>3, <1>4 DEF StreamInv

\* Every record of the journal reaches the store once and in order, and a client every event that it
\* watches, for any batch size, number of events, lost connections and projections.
THEOREM Delivered == StreamSpec => []StreamFaithful
<1>1. StreamInv /\ [StreamNext]_stream_vars => StreamInv'
  <2> SUFFICES ASSUME StreamInv, [StreamNext]_stream_vars PROVE StreamInv'
    OBVIOUS
  <2>1. CASE UNCHANGED stream_vars
    <3>1. UNCHANGED <<journal, captured, offset, store, subscription, wire, acks, client>>
      BY <2>1 DEF stream_vars, journal_side, client_side
    <3>2. \A s, a, b : AreRows(s, a, b)' <=> AreRows(s, a, b)
      BY <3>1 DEF AreRows, Matches
    <3>3. StreamTypes' /\ ClientInv'
      BY <3>1, <3>2 DEF StreamInv, StreamTypes, ClientInv
    <3> QED
      BY <3>1, <3>3, SubscriptionOnly
  <2>2. CASE StreamNext
    BY <2>2, ProjectionSteps, EngineEventStep, SubscribeStep, NextBatchStep, TakeBatchStep, AckStep, BreakSteps
    DEF StreamNext
  <2> QED
    BY <2>1, <2>2
<1>2. ASSUME StreamInv PROVE StreamFaithful
  <2>1. offset <= journal
    BY <1>2 DEF StreamInv, StreamTypes
  <2>2. HoldsRecords(store, offset) /\ AreRows(client.got, client.base, client.cursor)
    BY <1>2 DEF StreamInv, ClientInv
  <2>3. LET projected == {i \in DOMAIN store : store[i].record # 0} IN
        /\ {store[i].record : i \in projected} = 1 .. offset
        /\ \A i \in projected : store[i].scope = JournalScope
        /\ \A i, j \in projected : i < j => store[i].record < store[j].record
    BY ONLY <2>2 DEF HoldsRecords
  <2>4. /\ \A i, j \in DOMAIN client.got : i < j => client.got[i] < client.got[j]
        /\ {client.got[i] : i \in DOMAIN client.got} = {i \in client.base + 1 .. client.cursor : Matches(i)}
    BY ONLY <2>2 DEF AreRows
  <2> QED
    BY ONLY <2>1, <2>3, <2>4 DEF StreamFaithful
<1> QED
  BY <1>1, <1>2, StreamBegins, PTL DEF StreamSpec

-----------------------------------------------------------------------------
(* Lifetimes. *)

\* What plugins hold, and the types that the proof needs.
Holding == [plugin : Plugins, what : {"module", "effect"}, name : {""}, late : BOOLEAN]
           \cup [plugin : Plugins, what : RegisteredKinds, name : PluginToolNames, late : BOOLEAN]
OpenTypes ==
  /\ coding \in BOOLEAN
  /\ opening \in [at : {"none", "loading", "configuring", "assembling", "open", "unwinding", "unloading", "failed"},
                  clients : SUBSET {1, 2}, unsure : BOOLEAN, cut : BOOLEAN]
  /\ backend \in {"none", "open", "closed"}
HostTypes ==
  /\ host \in [at : {"none", "active", "closing", "closed"}, listed : SUBSET Plugins, loaded : SUBSET Plugins,
               activating : SUBSET Plugins, cleanups : Seq(Holding), failed : BOOLEAN]
  /\ hooked \in BOOLEAN
  /\ registry \in [PluginToolNames -> Plugins \cup {"none", "own"}]
ClientTypes ==
  /\ modelClients \in [1 .. MaxClients -> {"none", "open", "closed"}]
  /\ wired \in [main : 0 .. MaxClients, router : 0 .. MaxClients, others : SUBSET (1 .. MaxClients)]
  /\ candidates \subseteq 1 .. MaxClients
RunTypes ==
  /\ inTurn \in [at : {"none", "running", "child", "closing child"}, cancel : BOOLEAN]
  /\ ending \in [at : {"no", "ending", "clients", "plugins", "over"}, todo : SUBSET (1 .. MaxClients),
                 failed : BOOLEAN, report : {"none", "clean", "unknown", "raised"}]
  /\ session \in [closed : BOOLEAN, close : {"none", "draining", "waiting", "cut", "returned"},
                  cleanup : {"none", "clean", "unknown", "raised"}]
LifeTypes == OpenTypes /\ HostTypes /\ ClientTypes /\ RunTypes

\* While a host stands it owes the disposal of all that its plugins hold, each entry once, those of a
\* plugin behind those of the plugins it requires; and so it is of what a host that closes still owes.
Owed == {host.cleanups[i] : i \in DOMAIN host.cleanups}
PluginsInv ==
  /\ host.at = "none" => host.cleanups = <<>> /\ basis = {} /\ host.loaded = {} /\ ~host.failed
  /\ host.at = "closed" => host.cleanups = <<>>
  /\ host.at # "active" => host.activating = {}
  /\ host.at \in {"none", "active"} =>
       /\ standing = Owed /\ basis \subseteq Owed
       /\ host.activating \subseteq host.listed \ host.loaded
       /\ \A p, q \in host.activating : p = q
       /\ \A p \in host.loaded \cup host.activating : Requires[p] \subseteq host.loaded
       /\ \A e \in Owed : e.plugin \in host.loaded \/ (e.plugin \in host.activating /\ e.what # "effect")
  /\ standing \subseteq Owed \/ host.failed
  /\ \A i, j \in DOMAIN host.cleanups : host.cleanups[i] = host.cleanups[j] => i = j
  /\ \A i \in DOMAIN host.cleanups : \A e \in basis :
       e.plugin \in Requires[host.cleanups[i].plugin] =>
         e \in standing /\ \E j \in 1 .. i - 1 : host.cleanups[j] = e

\* Where opening, host, turn and close can be at the same time.
StagesInv ==
  /\ opening.at = "none" => host.at = "none"
  /\ opening.at = "loading" => host.at = "active"
  /\ opening.at \in {"configuring", "assembling", "unwinding"} => host.at \in {"none", "active"}
  /\ opening.at = "unloading" => host.at \in {"closing", "closed"}
  /\ opening.at = "failed" => host.at \in {"none", "closing", "closed"}
  /\ opening.at = "open" /\ ending.at \in {"no", "ending", "clients"} => host.at \in {"none", "active"}
  /\ host.activating # {} => opening.at = "loading"
  /\ hooked => host.at \in {"active", "closing"}
  /\ opening.at = "open" /\ host.at = "active" => hooked
  /\ opening.at # "open" => /\ inTurn.at = "none" /\ ~session.closed /\ ~hooked
                            /\ \A e \in standing : ~e.late
  /\ ~session.closed => session.close = "none" /\ ending.at = "no"
  /\ session.close = "draining" => ending.at = "no"
  /\ ending.at # "no" => inTurn.at = "none"
  /\ ending.at = "over" => host.at \in {"none", "closed"}
  /\ ending.report # "none" => ending.at = "over"
  /\ ending.report = "clean" => ~ending.failed /\ ~host.failed
  /\ session.cleanup = "clean" => ending.report = "clean"
  /\ childSession = "open" => inTurn.at = "child"
  /\ inTurn.at = "closing child" => childSession = "closing"

\* The backend of a coding agent is open as long as somebody is going to close it.
BackendInv ==
  /\ ~coding => backend = "none"
  /\ opening.at \in {"none", "loading", "configuring"} => backend = "none"
  /\ coding /\ opening.at \in {"assembling", "unwinding"} => backend = "open"
  /\ coding /\ opening.at = "open" /\ ending.at # "over" => backend = "open"
  /\ opening.at \in {"unloading", "failed"} => backend # "open" \/ opening.unsure \/ opening.cut
  /\ ending.report = "clean" => backend # "open"

\* Every open client is somebody's who will close it.
Wiring == ({wired.main, wired.router} \ {0}) \cup wired.others
ClientsInv ==
  /\ opening.at \in {"none", "loading", "configuring", "assembling"} => OpenClients = {}
  /\ opening.at = "unwinding" => OpenClients \subseteq opening.clients \/ opening.unsure
  /\ opening.at \in {"unloading", "failed"} => OpenClients = {} \/ opening.unsure \/ opening.cut
  /\ opening.at # "open" => wired = [main |-> 0, router |-> 0, others |-> {}] /\ candidates = {}
  /\ opening.at = "open" =>
       /\ ending.at \in {"no", "ending"} => /\ OpenClients \subseteq Wiring \cup candidates \cup astray
                                            /\ {wired.main, wired.router} \ {0} \subseteq OpenClients
       /\ ending.at = "clients" => OpenClients \subseteq ending.todo \cup candidates \cup astray \/ ending.failed
       /\ ending.at \in {"plugins", "over"} => OpenClients \subseteq candidates \cup astray \/ ending.failed
  /\ \A c \in candidates : modelClients[c] # "none"
  /\ candidates \cap {wired.main, wired.router} = {}

\* A name of a plugin in the registry is one that the host will take out.
NamesInv ==
  /\ opening.at # "open" => \A n \in PluginToolNames : registry[n] = "none"
  /\ \A n \in PluginToolNames : registry[n] \in Plugins =>
       \E i \in DOMAIN host.cleanups : host.cleanups[i] = Held(registry[n], "tool", n, FALSE)
  /\ opening.at = "open" /\ coding => \A n \in OwnNames : registry[n] = "own"

LifeInv == LifeTypes /\ PluginsInv /\ StagesInv /\ BackendInv /\ ClientsInv /\ NamesInv

\* What a step leaves alone stays true.
LEMMA PluginsKept == ASSUME PluginsInv, UNCHANGED <<host, standing, basis>> PROVE PluginsInv'
BY DEF PluginsInv, Owed

\* The same of the backend.
LEMMA BackendKept == ASSUME BackendInv, UNCHANGED <<coding, opening, backend, ending>> PROVE BackendInv'
BY DEF BackendInv

\* The same of the clients.
LEMMA ClientsKept ==
  ASSUME ClientsInv, UNCHANGED <<opening, ending, modelClients, wired, candidates, astray>>
  PROVE  ClientsInv'
BY DEF ClientsInv, OpenClients, Wiring

\* The same of the registry.
LEMMA NamesKept == ASSUME NamesInv, UNCHANGED <<opening, coding, registry, host>> PROVE NamesInv'
BY DEF NamesInv, Held

\* The same of the types.
LEMMA OpenTypesKept == ASSUME OpenTypes, UNCHANGED <<coding, opening, backend>> PROVE OpenTypes'
BY DEF OpenTypes

\* The same of the types.
LEMMA HostTypesKept == ASSUME HostTypes, UNCHANGED <<host, hooked, registry>> PROVE HostTypes'
BY DEF HostTypes

\* The same of the types.
LEMMA ClientTypesKept == ASSUME ClientTypes, UNCHANGED <<modelClients, wired, candidates>> PROVE ClientTypes'
BY DEF ClientTypes

\* The same of the types.
LEMMA RunTypesKept == ASSUME RunTypes, UNCHANGED <<inTurn, ending, session>> PROVE RunTypes'
<1>1. inTurn' = inTurn /\ ending' = ending /\ session' = session
  OBVIOUS
<1> QED
  BY <1>1, Zenon DEF RunTypes

\* The turn and its child.
LEMMA HarnessTurnSteps ==
  ASSUME LifeInv,
         \/ BeginHarnessTurn \/ EndHarnessTurn \/ CancelHarnessTurn \/ StartChild \/ ChildEnds \/ LeaveChild
         \/ \E clean \in BOOLEAN : ChildClosed(clean)
  PROVE  LifeInv'
<1>1. /\ LifeTypes /\ StagesInv
      /\ UNCHANGED <<coding, opening, host_vars, client_vars, backend, ending, session>>
  BY DEF LifeInv, BeginHarnessTurn, EndHarnessTurn, CancelHarnessTurn, StartChild, ChildEnds, LeaveChild, ChildClosed
<1>2. inTurn = [at |-> inTurn.at, cancel |-> inTurn.cancel] /\ inTurn.at \in {"none", "running", "child", "closing child"}
      /\ inTurn.cancel \in BOOLEAN
  BY <1>1 DEF LifeTypes, RunTypes
<1>3. /\ inTurn' \in [at : {"none", "running", "child", "closing child"}, cancel : BOOLEAN]
      /\ inTurn'.at # "none" => (opening.at = "open" /\ ~session.closed) \/ inTurn.at # "none"
      /\ childSession' = "open" => inTurn'.at = "child"
      /\ inTurn'.at = "closing child" => childSession' = "closing"
  <2>1. CASE BeginHarnessTurn
    BY <1>1, <1>2, <2>1 DEF BeginHarnessTurn, Usable, StagesInv
  <2>2. CASE EndHarnessTurn
    BY <1>1, <1>2, <2>2 DEF EndHarnessTurn, StagesInv
  <2>3. CASE CancelHarnessTurn
    <3>1. inTurn' = [at |-> inTurn.at, cancel |-> TRUE] /\ inTurn.at # "none" /\ UNCHANGED childSession
      BY <1>2, <2>3 DEF CancelHarnessTurn
    <3> QED
      BY <1>1, <1>2, <3>1 DEF StagesInv
  <2>4. CASE StartChild
    <3>1. inTurn' = [at |-> "child", cancel |-> inTurn.cancel] /\ inTurn.at = "running" /\ childSession' = "open"
      BY <1>2, <2>4 DEF StartChild
    <3> QED
      BY <1>2, <3>1
  <2>5. CASE ChildEnds
    BY <1>1, <2>5 DEF ChildEnds
  <2>6. CASE LeaveChild
    <3>1. inTurn' = [at |-> "running", cancel |-> FALSE] /\ inTurn.at = "closing child" /\ UNCHANGED childSession
      BY <1>2, <2>6 DEF LeaveChild
    <3> QED
      BY <1>1, <3>1 DEF StagesInv
  <2>7. CASE \E clean \in BOOLEAN : ChildClosed(clean)
    <3>1. childSession' \in {"none", "unclean"}
      BY <2>7 DEF ChildClosed
    <3>2. CASE inTurn.at = "closing child"
      <4>1. inTurn' = [at |-> "running", cancel |-> inTurn.cancel]
        BY <1>2, <2>7, <3>2 DEF ChildClosed
      <4> QED
        BY <1>2, <3>1, <3>2, <4>1
    <3>3. CASE inTurn.at # "closing child"
      <4>1. inTurn' = inTurn
        BY <2>7, <3>3 DEF ChildClosed
      <4> QED
        BY <1>1, <1>2, <3>1, <3>3, <4>1 DEF LifeTypes, RunTypes
    <3> QED
      BY <3>2, <3>3
  <2> QED
    BY <2>1, <2>2, <2>3, <2>4, <2>5, <2>6, <2>7
<1>4. inTurn'.at # "none" => opening.at = "open" /\ ending.at = "no"
  BY <1>1, <1>3 DEF StagesInv
<1>5. LifeTypes'
  <2>1. RunTypes'
    BY <1>1, <1>3 DEF LifeTypes, RunTypes
  <2> QED
    BY <1>1, <2>1, OpenTypesKept, HostTypesKept, ClientTypesKept DEF LifeTypes, host_vars, client_vars
<1>6. StagesInv'
  BY <1>1, <1>3, <1>4 DEF StagesInv, host_vars, client_vars
<1> QED
  BY <1>1, <1>5, <1>6, PluginsKept, BackendKept, ClientsKept, NamesKept DEF LifeInv, host_vars, client_vars

\* Who closes a session, and who waits for it.
LEMMA CloserSteps ==
  ASSUME LifeInv, CloseSession \/ Drained \/ CutClose \/ CloseReturns
  PROVE  LifeInv'
<1>1. /\ LifeTypes /\ StagesInv /\ UNCHANGED <<coding, opening, host_vars, client_vars, backend, childSession>>
  BY DEF LifeInv, CloseSession, Drained, CutClose, CloseReturns, run_vars
<1>2. /\ session = [closed |-> session.closed, close |-> session.close, cleanup |-> session.cleanup]
      /\ ending = [at |-> ending.at, todo |-> ending.todo, failed |-> ending.failed, report |-> ending.report]
      /\ inTurn = [at |-> inTurn.at, cancel |-> inTurn.cancel]
  BY <1>1 DEF LifeTypes, RunTypes
<1>3. /\ session.cleanup \in {"none", "clean", "unknown", "raised"}
      /\ ending.report \in {"none", "clean", "unknown", "raised"}
      /\ inTurn.at \in {"none", "running", "child", "closing child"} /\ inTurn.cancel \in BOOLEAN
      /\ ending.todo \in SUBSET (1 .. MaxClients) /\ ending.failed \in BOOLEAN
      /\ ending.at \in {"no", "ending", "clients", "plugins", "over"}
  BY <1>1 DEF LifeTypes, RunTypes
<1>4. PICK close \in {"draining", "waiting", "cut", "returned"}, cleanup \in {session.cleanup, ending.report},
           cancel \in BOOLEAN, at \in {"no", "ending", "clients", "plugins", "over"} :
        /\ session' = [closed |-> TRUE, close |-> close, cleanup |-> cleanup]
        /\ inTurn' = [at |-> inTurn.at, cancel |-> cancel]
        /\ ending' = [at |-> at, todo |-> ending.todo, failed |-> ending.failed, report |-> ending.report]
        /\ opening.at = "open"
        /\ \/ at = ending.at /\ (close = "draining" => ending.at = "no")
           \/ at = "ending" /\ ending.at = "no" /\ inTurn.at = "none" /\ close # "draining"
  <2>1. CASE CloseSession
    <3>1. ending.at = "no" /\ opening.at = "open"
      BY <1>1, <2>1 DEF CloseSession, StagesInv
    <3>2. CASE inTurn.at = "none"
      <4>1. session' = [closed |-> TRUE, close |-> "waiting", cleanup |-> session.cleanup]
        BY <1>2, <2>1, <3>2 DEF CloseSession
      <4>2. ending' = [at |-> "ending", todo |-> ending.todo, failed |-> ending.failed, report |-> ending.report]
        BY <1>2, <2>1, <3>2 DEF CloseSession
      <4>3. inTurn' = [at |-> inTurn.at, cancel |-> inTurn.cancel]
        BY <1>2, <2>1, <3>2 DEF CloseSession
      <4> QED
        BY <1>3, <3>1, <3>2, <4>1, <4>2, <4>3
    <3>3. CASE inTurn.at # "none"
      <4>1. session' = [closed |-> TRUE, close |-> "draining", cleanup |-> session.cleanup]
        BY <1>2, <2>1, <3>3 DEF CloseSession
      <4>2. ending' = [at |-> "no", todo |-> ending.todo, failed |-> ending.failed, report |-> ending.report]
        BY <1>2, <2>1, <3>1, <3>3 DEF CloseSession
      <4>3. inTurn' = [at |-> inTurn.at, cancel |-> TRUE]
        BY <1>2, <2>1, <3>3 DEF CloseSession
      <4> QED
        BY <1>3, <3>1, <4>1, <4>2, <4>3
    <3> QED
      BY <3>2, <3>3
  <2>2. CASE Drained
    <3>1. ending.at = "no" /\ opening.at = "open" /\ inTurn.at = "none" /\ session.closed = TRUE
      BY <1>1, <2>2 DEF Drained, StagesInv, LifeTypes, RunTypes
    <3>2. session' = [closed |-> TRUE, close |-> "waiting", cleanup |-> session.cleanup]
      BY <1>2, <2>2, <3>1 DEF Drained
    <3>3. ending' = [at |-> "ending", todo |-> ending.todo, failed |-> ending.failed, report |-> ending.report]
      BY <1>2, <2>2 DEF Drained
    <3>4. inTurn' = [at |-> inTurn.at, cancel |-> inTurn.cancel]
      BY <1>2, <2>2 DEF Drained, run_vars
    <3> QED
      BY <1>3, <3>1, <3>2, <3>3, <3>4
  <2>3. CASE CutClose
    <3>1. opening.at = "open" /\ session.closed = TRUE
      BY <1>1, <2>3 DEF CutClose, StagesInv, LifeTypes, RunTypes
    <3>2. session' = [closed |-> TRUE, close |-> "cut", cleanup |-> session.cleanup]
      BY <1>2, <2>3, <3>1 DEF CutClose
    <3>3. ending' = [at |-> ending.at, todo |-> ending.todo, failed |-> ending.failed, report |-> ending.report]
      BY <1>2, <2>3 DEF CutClose
    <3>4. inTurn' = [at |-> inTurn.at, cancel |-> inTurn.cancel]
      BY <1>2, <2>3 DEF CutClose, run_vars
    <3> QED
      BY <1>3, <3>1, <3>2, <3>3, <3>4
  <2>4. CASE CloseReturns
    <3>1. opening.at = "open" /\ session.closed = TRUE
      BY <1>1, <2>4 DEF CloseReturns, StagesInv, LifeTypes, RunTypes
    <3>2. session' = [closed |-> TRUE, close |-> "returned", cleanup |-> ending.report]
      BY <1>2, <2>4, <3>1 DEF CloseReturns
    <3>3. ending' = [at |-> ending.at, todo |-> ending.todo, failed |-> ending.failed, report |-> ending.report]
      BY <1>2, <2>4 DEF CloseReturns
    <3>4. inTurn' = [at |-> inTurn.at, cancel |-> inTurn.cancel]
      BY <1>2, <2>4 DEF CloseReturns, run_vars
    <3> QED
      BY <1>3, <3>1, <3>2, <3>3, <3>4
  <2> QED
    BY <2>1, <2>2, <2>3, <2>4
<1>5. LifeTypes'
  <2>1. RunTypes'
    <3>1. inTurn' \in [at : {"none", "running", "child", "closing child"}, cancel : BOOLEAN]
      BY <1>3, <1>4
    <3>2. session' \in [closed : BOOLEAN, close : {"none", "draining", "waiting", "cut", "returned"},
                        cleanup : {"none", "clean", "unknown", "raised"}]
      BY <1>3, <1>4
    <3>3. ending' \in [at : {"no", "ending", "clients", "plugins", "over"}, todo : SUBSET (1 .. MaxClients),
                       failed : BOOLEAN, report : {"none", "clean", "unknown", "raised"}]
      BY <1>3, <1>4
    <3> QED
      BY <3>1, <3>2, <3>3 DEF RunTypes
  <2> QED
    BY <1>1, <2>1, OpenTypesKept, HostTypesKept, ClientTypesKept DEF LifeTypes, host_vars, client_vars
<1>6. /\ session'.closed /\ session'.close = close /\ session'.cleanup = cleanup /\ inTurn'.at = inTurn.at
      /\ ending'.at = at /\ ending'.report = ending.report /\ ending'.failed = ending.failed
  BY <1>4
<1>7. UNCHANGED <<opening, host, hooked, standing, childSession, coding, modelClients, wired, candidates, astray, backend>>
  BY <1>1 DEF host_vars, client_vars
<1>8. StagesInv'
  BY <1>1, <1>4, <1>6, <1>7 DEF StagesInv
<1>9. BackendInv' /\ ClientsInv'
  BY <1>4, <1>6, <1>7 DEF LifeInv, BackendInv, ClientsInv, OpenClients, Wiring
<1> QED
  BY <1>1, <1>5, <1>8, <1>9, PluginsKept, NamesKept DEF LifeInv, host_vars

\* Records and their fields, from the types.
LEMMA LifeShape ==
  ASSUME LifeTypes
  PROVE  /\ session = [closed |-> session.closed, close |-> session.close, cleanup |-> session.cleanup]
         /\ ending = [at |-> ending.at, todo |-> ending.todo, failed |-> ending.failed, report |-> ending.report]
         /\ ending.report \in {"none", "clean", "unknown", "raised"} /\ ending.failed \in BOOLEAN
         /\ ending.todo \subseteq 1 .. MaxClients
         /\ ending.at \in {"no", "ending", "clients", "plugins", "over"}
         /\ opening = [at |-> opening.at, clients |-> opening.clients, unsure |-> opening.unsure, cut |-> opening.cut]
         /\ opening.at \in {"none", "loading", "configuring", "assembling", "open", "unwinding", "unloading", "failed"}
         /\ opening.clients \subseteq {1, 2} /\ opening.unsure \in BOOLEAN /\ opening.cut \in BOOLEAN
         /\ host = [at |-> host.at, listed |-> host.listed, loaded |-> host.loaded, activating |-> host.activating,
                    cleanups |-> host.cleanups, failed |-> host.failed]
         /\ host.at \in {"none", "active", "closing", "closed"} /\ host.failed \in BOOLEAN
         /\ host.listed \subseteq Plugins /\ host.loaded \subseteq Plugins /\ host.activating \subseteq Plugins
         /\ host.cleanups \in Seq(Holding)
         /\ wired = [main |-> wired.main, router |-> wired.router, others |-> wired.others]
         /\ wired.main \in 0 .. MaxClients /\ wired.router \in 0 .. MaxClients /\ wired.others \subseteq 1 .. MaxClients
<1>1. /\ session = [closed |-> session.closed, close |-> session.close, cleanup |-> session.cleanup]
      /\ ending = [at |-> ending.at, todo |-> ending.todo, failed |-> ending.failed, report |-> ending.report]
      /\ ending.report \in {"none", "clean", "unknown", "raised"} /\ ending.failed \in BOOLEAN
      /\ ending.todo \subseteq 1 .. MaxClients
      /\ ending.at \in {"no", "ending", "clients", "plugins", "over"}
  BY DEF LifeTypes, RunTypes
<1>2. /\ opening = [at |-> opening.at, clients |-> opening.clients, unsure |-> opening.unsure, cut |-> opening.cut]
      /\ opening.at \in {"none", "loading", "configuring", "assembling", "open", "unwinding", "unloading", "failed"}
      /\ opening.clients \subseteq {1, 2} /\ opening.unsure \in BOOLEAN /\ opening.cut \in BOOLEAN
  BY DEF LifeTypes, OpenTypes
<1>3. /\ host = [at |-> host.at, listed |-> host.listed, loaded |-> host.loaded, activating |-> host.activating,
                 cleanups |-> host.cleanups, failed |-> host.failed]
      /\ host.at \in {"none", "active", "closing", "closed"} /\ host.failed \in BOOLEAN
      /\ host.listed \subseteq Plugins /\ host.loaded \subseteq Plugins /\ host.activating \subseteq Plugins
      /\ host.cleanups \in Seq(Holding)
  BY DEF LifeTypes, HostTypes
<1>4. /\ wired = [main |-> wired.main, router |-> wired.router, others |-> wired.others]
      /\ wired.main \in 0 .. MaxClients /\ wired.router \in 0 .. MaxClients /\ wired.others \subseteq 1 .. MaxClients
  BY DEF LifeTypes, ClientTypes
<1> QED
  BY <1>1, <1>2, <1>3, <1>4

\* The close goes on: only its record changes, and what is named.
LEMMA EndingTypes ==
  ASSUME LifeTypes, UNCHANGED <<inTurn, session>>,
         NEW at \in {"no", "ending", "clients", "plugins", "over"}, NEW todo \in SUBSET (1 .. MaxClients),
         NEW failed \in BOOLEAN, NEW said \in {"none", "clean", "unknown", "raised"},
         ending' = [at |-> at, todo |-> todo, failed |-> failed, report |-> said]
  PROVE  RunTypes'
<1>1. ending' \in [at : {"no", "ending", "clients", "plugins", "over"}, todo : SUBSET (1 .. MaxClients),
                   failed : BOOLEAN, report : {"none", "clean", "unknown", "raised"}]
  OBVIOUS
<1>2. inTurn' = inTurn /\ session' = session
  OBVIOUS
<1> QED
  BY <1>1, <1>2, Zenon DEF LifeTypes, RunTypes

\* An ending is that of a session that was opened.
LEMMA EndsOpen ==
  ASSUME StagesInv, ending.at # "no"
  PROVE  opening.at = "open" /\ session.closed /\ inTurn.at = "none" /\ session.close # "draining"
BY DEF StagesInv

\* The close has told the session's end, and turns to the clients.
LEMMA EndSessionStep ==
  ASSUME LifeInv, NEW succeeds \in BOOLEAN, EndSession(succeeds)
  PROVE  LifeInv'
<1>1. /\ LifeTypes /\ StagesInv /\ ending.at = "ending"
      /\ UNCHANGED <<coding, opening, host_vars, client_vars, backend, run_vars, session>>
  BY DEF LifeInv, EndSession
<1>2. PICK failed \in BOOLEAN :
        ending' = [at |-> "clients", todo |-> Wiring, failed |-> failed, report |-> ending.report]
  BY <1>1, LifeShape DEF EndSession, Wiring
<1>3. Wiring \subseteq 1 .. MaxClients
  BY <1>1, LifeShape DEF Wiring
<1>4. RunTypes'
  BY <1>1, <1>2, <1>3, EndingTypes, LifeShape DEF run_vars
<1>5. LifeTypes'
  BY <1>1, <1>4, OpenTypesKept, HostTypesKept, ClientTypesKept DEF LifeTypes, host_vars, client_vars
<1>6. /\ UNCHANGED <<opening, host, hooked, standing, childSession, coding, modelClients, wired, candidates, astray, backend,
                     inTurn, session>>
      /\ ending'.at = "clients" /\ ending'.todo = Wiring /\ ending'.report = ending.report
  BY <1>1, <1>2 DEF host_vars, client_vars, run_vars
<1>7. opening.at = "open" /\ session.closed /\ inTurn.at = "none" /\ session.close # "draining" /\ ending.report = "none"
  BY <1>1, EndsOpen DEF StagesInv
<1>8. StagesInv'
  BY <1>1, <1>6, <1>7 DEF StagesInv
<1>9. BackendInv' /\ ClientsInv'
  BY <1>1, <1>6, <1>7 DEF LifeInv, BackendInv, ClientsInv, OpenClients, Wiring
<1> QED
  BY <1>1, <1>5, <1>8, <1>9, PluginsKept, NamesKept DEF LifeInv, host_vars

\* The least of some clients is one of them.
LEMMA MinIs ==
  ASSUME NEW S \in SUBSET (1 .. MaxClients), S # {}
  PROVE  Min(S) \in S /\ Min(S) \in 1 .. MaxClients /\ \A c \in S : Min(S) <= c
<1>1. S \in SUBSET Nat
  OBVIOUS
<1>2. PICK c \in S : \A d \in S : c <= d
  BY <1>1, LeastOf
<1> QED
  BY <1>2 DEF Min

\* It closes one of them.
LEMMA CloseClientStep ==
  ASSUME LifeInv, NEW succeeds \in BOOLEAN, CloseClient(succeeds)
  PROVE  LifeInv'
<1>1. /\ LifeTypes /\ StagesInv /\ ClientsInv /\ ending.at = "clients" /\ ending.todo # {}
      /\ UNCHANGED <<coding, opening, host_vars, wired, candidates, astray, backend, run_vars, session>>
  BY DEF LifeInv, CloseClient
<1> DEFINE c == Min(ending.todo)
<1>2. c \in ending.todo /\ c \in 1 .. MaxClients
  BY <1>1, MinIs, LifeShape
<1>3. modelClients' = IF succeeds THEN [modelClients EXCEPT ![c] = "closed"] ELSE modelClients
  BY DEF CloseClient
<1>4. (ending.failed \/ ~succeeds) \in BOOLEAN
  OBVIOUS
<1>5. ending' = [at |-> "clients", todo |-> ending.todo \ {c}, failed |-> (ending.failed \/ ~succeeds), report |-> ending.report]
  BY <1>1, LifeShape DEF CloseClient
<1> HIDE DEF c
<1>6. RunTypes'
  <2>1. ending.todo \ {c} \in SUBSET (1 .. MaxClients) /\ ending.report \in {"none", "clean", "unknown", "raised"}
    BY <1>1, LifeShape
  <2>2. UNCHANGED <<inTurn, session>>
    BY <1>1 DEF run_vars
  <2> QED
    BY <1>1, <1>4, <1>5, <2>1, <2>2, EndingTypes
<1>7. modelClients \in [1 .. MaxClients -> {"none", "open", "closed"}]
  BY <1>1 DEF LifeTypes, ClientTypes
<1>8. ClientTypes'
  BY <1>1, <1>2, <1>3, <1>7 DEF LifeTypes, ClientTypes
<1>9. LifeTypes'
  BY <1>1, <1>6, <1>8, OpenTypesKept, HostTypesKept DEF LifeTypes, host_vars
<1>10. /\ UNCHANGED <<opening, host, hooked, standing, childSession, coding, wired, candidates, astray, backend, inTurn, session>>
       /\ ending'.at = "clients" /\ ending'.todo = ending.todo \ {c} /\ ending'.report = ending.report
       /\ ending'.failed = (ending.failed \/ ~succeeds)
  BY <1>1, <1>5 DEF host_vars, run_vars
<1>11. opening.at = "open" /\ session.closed /\ inTurn.at = "none" /\ session.close # "draining" /\ ending.report = "none"
  BY <1>1, EndsOpen DEF StagesInv
<1>12. StagesInv'
  BY <1>1, <1>10, <1>11 DEF StagesInv
<1>13. BackendInv'
  BY <1>1, <1>10, <1>11 DEF LifeInv, BackendInv
<1>14. OpenClients' \subseteq OpenClients /\ (succeeds => OpenClients' \subseteq OpenClients \ {c})
  BY <1>2, <1>3, <1>7 DEF OpenClients
<1>15. \A d \in candidates : modelClients'[d] # "none"
  BY <1>1, <1>2, <1>3, <1>7 DEF ClientsInv, LifeTypes, ClientTypes
<1>16. ending'.failed \/ OpenClients' \subseteq ending'.todo \cup candidates \cup astray
  <2>1. CASE ending.failed \/ ~succeeds
    BY <1>10, <2>1
  <2>2. CASE ~ending.failed /\ succeeds
    BY <1>1, <1>10, <1>11, <1>14, <2>2 DEF ClientsInv
  <2> QED
    BY <2>1, <2>2
<1>17. ClientsInv'
  BY <1>1, <1>10, <1>11, <1>15, <1>16 DEF ClientsInv
<1> QED
  BY <1>1, <1>9, <1>12, <1>13, <1>17, PluginsKept, NamesKept DEF LifeInv, host_vars

\* The host begins to close: no plugin is activated any more.
LEMMA HostCloses ==
  ASSUME LifeTypes, PluginsInv, NEW listed \in SUBSET Plugins,
         host' = [at |-> "closing", listed |-> listed, loaded |-> host.loaded, activating |-> {},
                  cleanups |-> host.cleanups, failed |-> host.failed],
         host.at \in {"none", "active"}, UNCHANGED <<standing, basis, hooked, registry>>
  PROVE  PluginsInv' /\ HostTypes' /\ host'.at = "closing" /\ host'.activating = {} /\ host'.failed = host.failed
         /\ host'.cleanups = host.cleanups
<1>1. host'.at = "closing" /\ host'.activating = {} /\ host'.cleanups = host.cleanups /\ host'.failed = host.failed
  OBVIOUS
<1>2. PluginsInv'
  BY <1>1 DEF PluginsInv, Owed
<1>3. host' \in [at : {"none", "active", "closing", "closed"}, listed : SUBSET Plugins, loaded : SUBSET Plugins,
                 activating : SUBSET Plugins, cleanups : Seq(Holding), failed : BOOLEAN]
  BY LifeShape
<1>4. HostTypes'
  BY <1>3 DEF LifeTypes, HostTypes
<1> QED
  BY <1>1, <1>2, <1>4

\* It turns to the plugins.
LEMMA ClosePluginsStep == ASSUME LifeInv, ClosePlugins PROVE LifeInv'
<1>1. /\ LifeTypes /\ StagesInv /\ ending.at = "clients" /\ ending.todo = {}
      /\ UNCHANGED <<coding, opening, standing, registry, hooked, basis, client_vars, backend, run_vars, session>>
  BY DEF LifeInv, ClosePlugins
<1>2. ending' = [at |-> "plugins", todo |-> ending.todo, failed |-> ending.failed, report |-> ending.report]
  BY <1>1, LifeShape DEF ClosePlugins
<1>3. RunTypes'
  BY <1>1, <1>2, EndingTypes, LifeShape DEF run_vars
<1>4. opening.at = "open" /\ session.closed /\ inTurn.at = "none" /\ session.close # "draining" /\ ending.report = "none"
      /\ host.at \in {"none", "active"} /\ host.activating = {}
  BY <1>1, EndsOpen DEF StagesInv
<1>5. /\ PluginsInv' /\ HostTypes' /\ host'.cleanups = host.cleanups /\ host'.failed = host.failed
      /\ host'.activating = {} /\ host'.at \in {"none", "closing"}
      /\ host.at = "none" => host' = host /\ host'.at = "none"
      /\ host.at = "active" => host'.at = "closing"
  <2>1. CASE host.at = "none"
    <3>1. host' = host
      BY <2>1 DEF ClosePlugins
    <3> QED
      BY <1>1, <1>4, <2>1, <3>1, PluginsKept, HostTypesKept DEF LifeInv, LifeTypes
  <2>2. CASE host.at = "active"
    <3>1. host' = [at |-> "closing", listed |-> host.listed, loaded |-> host.loaded, activating |-> {},
                   cleanups |-> host.cleanups, failed |-> host.failed]
      BY <1>1, <1>4, <2>2, LifeShape DEF ClosePlugins
    <3> QED
      BY <1>1, <2>2, <3>1, HostCloses, LifeShape DEF LifeInv
  <2> QED
    BY <1>4, <2>1, <2>2
<1>6. LifeTypes'
  BY <1>1, <1>3, <1>5, OpenTypesKept, ClientTypesKept DEF LifeTypes, client_vars
<1>7. /\ UNCHANGED <<opening, hooked, registry, standing, childSession, coding, modelClients, wired, candidates, astray, backend,
                     inTurn, session>>
      /\ ending'.at = "plugins" /\ ending'.report = ending.report /\ ending'.failed = ending.failed
  BY <1>1, <1>2 DEF client_vars, run_vars
<1>8. StagesInv'
  <2>1. hooked => host'.at = "closing"
    BY <1>1, <1>4, <1>5 DEF StagesInv
  <2>2. /\ host'.at \in {"none", "closing"} /\ host'.activating = {} /\ host'.failed = host.failed
        /\ ending'.at = "plugins" /\ ending'.report = "none"
    BY <1>4, <1>5, <1>7
  <2>3. /\ childSession = "open" => inTurn.at = "child"
        /\ inTurn.at = "closing child" => childSession = "closing"
        /\ session.cleanup # "clean"
    BY <1>1, <1>4 DEF StagesInv
  <2>4. UNCHANGED <<opening, hooked, standing, childSession, inTurn, session>>
    BY <1>7
  <2> QED
    BY <1>4, <2>1, <2>2, <2>3, <2>4 DEF StagesInv
<1>9. BackendInv' /\ ClientsInv' /\ NamesInv'
  BY <1>1, <1>4, <1>5, <1>7 DEF LifeInv, BackendInv, ClientsInv, OpenClients, Wiring, NamesInv, Held
<1> QED
  BY <1>5, <1>6, <1>8, <1>9 DEF LifeInv

\* It closes the backend, and reports.
LEMMA CloseBackendStep ==
  ASSUME LifeInv, NEW result \in {"clean", "unknown", "raised"}, CloseBackend(result)
  PROVE  LifeInv'
<1>1. /\ LifeTypes /\ StagesInv /\ BackendInv /\ ending.at = "plugins" /\ host.at \in {"none", "closed"}
      /\ UNCHANGED <<coding, opening, host_vars, client_vars, run_vars, session>>
      /\ backend' = IF coding /\ result = "clean" THEN "closed" ELSE backend
  BY DEF LifeInv, CloseBackend
<1>2. PICK said \in {"none", "clean", "unknown", "raised"} :
        /\ ending' = [at |-> "over", todo |-> ending.todo, failed |-> ending.failed, report |-> said]
        /\ said = "clean" => ~ending.failed /\ ~host.failed /\ (coding => result = "clean")
  <2> DEFINE said == IF coding /\ result = "raised" THEN "none"
                     ELSE IF ending.failed \/ host.failed THEN "unknown"
                     ELSE IF coding THEN result ELSE "clean"
  <2>1. ending' = [at |-> "over", todo |-> ending.todo, failed |-> ending.failed, report |-> said]
    BY <1>1, LifeShape DEF CloseBackend
  <2> QED
    BY <2>1
<1>3. RunTypes'
  BY <1>1, <1>2, EndingTypes, LifeShape DEF run_vars
<1>4. OpenTypes'
  BY <1>1 DEF LifeTypes, OpenTypes
<1>5. LifeTypes'
  BY <1>1, <1>3, <1>4, HostTypesKept, ClientTypesKept DEF LifeTypes, host_vars, client_vars
<1>6. /\ UNCHANGED <<opening, host, hooked, standing, childSession, coding, modelClients, wired, candidates, astray,
                     inTurn, session>>
      /\ ending'.at = "over" /\ ending'.report = said /\ ending'.failed = ending.failed
  BY <1>1, <1>2 DEF host_vars, client_vars, run_vars
<1>7. opening.at = "open" /\ session.closed /\ inTurn.at = "none" /\ session.close # "draining" /\ ending.report = "none"
  BY <1>1, EndsOpen DEF StagesInv
<1>8. StagesInv'
  BY <1>1, <1>2, <1>6, <1>7 DEF StagesInv
<1>9. BackendInv'
  BY <1>1, <1>2, <1>6, <1>7 DEF BackendInv
<1>10. ClientsInv'
  BY <1>1, <1>6, <1>7 DEF LifeInv, ClientsInv, OpenClients, Wiring
<1> QED
  BY <1>1, <1>5, <1>8, <1>9, <1>10, PluginsKept, NamesKept DEF LifeInv, host_vars

\* A step of the clients alone.
LEMMA ClientStep ==
  ASSUME LifeInv, ClientTypes', ClientsInv', UNCHANGED <<coding, opening, host_vars, backend, run_vars, ending, session>>
  PROVE  LifeInv'
<1>1. /\ LifeTypes /\ PluginsInv /\ StagesInv /\ BackendInv /\ NamesInv
      /\ UNCHANGED <<coding, opening, host, standing, registry, hooked, basis, backend, inTurn, childSession, ending, session>>
  BY DEF LifeInv, host_vars, run_vars
<1>2. StagesInv'
  BY <1>1 DEF StagesInv
<1>3. LifeTypes'
  BY <1>1, OpenTypesKept, HostTypesKept, RunTypesKept DEF LifeTypes
<1> QED
  BY <1>1, <1>2, <1>3, PluginsKept, BackendKept, NamesKept DEF LifeInv

\* Clients that are not used are clients that were never made.
LEMMA UnusedAre ==
  Unused \subseteq 1 .. MaxClients /\ \A c \in Unused : modelClients[c] = "none"
<1>1. MaxClients \in Nat /\ MaxClients \div 2 <= MaxClients
  BY LifetimesAssumption
<1> QED
  BY <1>1 DEF Unused

\* A client for a role is made and wired in one step.
LEMMA RoleClientStep == ASSUME LifeInv, MakeRoleClient PROVE LifeInv'
<1>1. /\ LifeTypes /\ StagesInv /\ ClientsInv /\ inTurn.at = "running" /\ Unused # {}
      /\ UNCHANGED <<coding, opening, host_vars, candidates, astray, backend, run_vars, ending, session>>
  BY DEF LifeInv, MakeRoleClient
<1>2. opening.at = "open" /\ ending.at = "no"
  BY <1>1 DEF StagesInv
<1> DEFINE c == Min(Unused)
<1>3. c \in Unused /\ c \in 1 .. MaxClients /\ modelClients[c] = "none"
  BY <1>1, MinIs, UnusedAre
<1>4. modelClients' = [modelClients EXCEPT ![c] = "open"]
  BY DEF MakeRoleClient
<1>5. wired' = [main |-> wired.main, router |-> wired.router, others |-> wired.others \cup {c}]
  BY <1>1, LifeShape DEF MakeRoleClient
<1> HIDE DEF c
<1>6. /\ modelClients \in [1 .. MaxClients -> {"none", "open", "closed"}]
      /\ candidates \subseteq 1 .. MaxClients
  BY <1>1 DEF LifeTypes, ClientTypes
<1>7. ClientTypes'
  <2>1. modelClients' \in [1 .. MaxClients -> {"none", "open", "closed"}]
    BY <1>4, <1>6
  <2>2. wired' \in [main : 0 .. MaxClients, router : 0 .. MaxClients, others : SUBSET (1 .. MaxClients)]
    BY <1>1, <1>3, <1>5, LifeShape
  <2> QED
    BY <1>1, <1>6, <2>1, <2>2 DEF ClientTypes
<1>8. OpenClients' = OpenClients \cup {c}
  BY <1>3, <1>4, <1>6 DEF OpenClients
<1>9. wired'.main = wired.main /\ wired'.router = wired.router /\ Wiring' = Wiring \cup {c}
  BY <1>5 DEF Wiring
<1>10. \A d \in candidates : modelClients'[d] # "none"
  BY <1>1, <1>4, <1>6 DEF ClientsInv
<1>11. ClientsInv'
  <2>1. UNCHANGED <<opening, ending, candidates, astray>>
    BY <1>1
  <2>2. /\ OpenClients' \subseteq Wiring' \cup candidates \cup astray
        /\ {wired'.main, wired'.router} \ {0} \subseteq OpenClients'
        /\ candidates \cap {wired'.main, wired'.router} = {}
    BY <1>1, <1>2, <1>8, <1>9 DEF ClientsInv
  <2> QED
    BY <1>2, <1>10, <2>1, <2>2 DEF ClientsInv
<1> QED
  BY <1>1, <1>7, <1>11, ClientStep

\* As many clients as an agent has are its main client and, with a workspace, its router's.
LEMMA FreshAre ==
  ASSUME coding \in BOOLEAN, NEW fresh \in FreshClients
  PROVE  /\ fresh \subseteq Unused /\ Min(fresh) \in fresh
         /\ IF coding THEN Max(fresh) \in fresh /\ fresh = {Min(fresh), Max(fresh)} ELSE fresh = {Min(fresh)}
<1>1. fresh \subseteq Unused /\ fresh \subseteq 1 .. MaxClients /\ Cardinality(fresh) = Cardinality(Assembled)
  BY UnusedAre DEF FreshClients
<1>2. IsFiniteSet(fresh) /\ Cardinality(fresh) \in Nat
  <2>1. IsFiniteSet(1 .. MaxClients)
    BY FS_Interval, LifetimesAssumption
  <2> QED
    BY <1>1, <2>1, FS_Subset, FS_CardinalityType
<1>3. Cardinality({1}) = 1 /\ IsFiniteSet({1})
  BY FS_Singleton
<1>4. Cardinality(Assembled) = IF coding THEN 2 ELSE 1
  <2>1. Cardinality(1 .. 2) = 2
    <3>1. \A a, b \in Int : Cardinality(a .. b) = IF a > b THEN 0 ELSE b - a + 1
      BY FS_Interval
    <3>2. 1 \in Int /\ 2 \in Int /\ ~(1 > 2) /\ 2 - 1 + 1 = 2
      OBVIOUS
    <3> QED
      BY <3>1, <3>2
  <2>2. {1, 2} = 1 .. 2
    OBVIOUS
  <2>3. Cardinality({1, 2}) = 2
    BY <2>1, <2>2
  <2> QED
    BY <1>3, <2>3 DEF Assembled
<1>5. fresh # {}
  BY <1>1, <1>4, FS_EmptySet
<1>6. Min(fresh) \in fresh /\ \A d \in fresh : Min(fresh) <= d
  BY <1>1, <1>5, MinIs
<1>7. CASE ~coding
  <2>1. PICK x : fresh = {x}
    BY <1>1, <1>2, <1>4, <1>7, FS_Singleton
  <2> QED
    BY <1>1, <1>6, <1>7, <2>1
<1>8. CASE coding
  <2>1. IsFiniteSet(fresh \ {Min(fresh)}) /\ Cardinality(fresh \ {Min(fresh)}) = 1
    BY <1>1, <1>2, <1>4, <1>6, <1>8, FS_RemoveElement
  <2>2. PICK x : fresh \ {Min(fresh)} = {x}
    BY <2>1, FS_Singleton
  <2>3. x \in fresh /\ fresh = {Min(fresh), x} /\ \A d \in fresh : x >= d
    <3>1. x \in fresh /\ fresh = {Min(fresh), x}
      BY <1>6, <2>2
    <3> QED
      BY <1>1, <1>6, <3>1
  <2>4. Max(fresh) \in fresh /\ \A d \in fresh : Max(fresh) >= d
    BY <2>3 DEF Max
  <2>5. Max(fresh) = x
    <3>1. fresh \subseteq Int
      BY <1>1
    <3>2. x \in Int /\ Max(fresh) \in Int /\ x >= Max(fresh) /\ Max(fresh) >= x
      BY <2>3, <2>4, <3>1
    <3> QED
      BY <3>2
  <2> QED
    BY <1>1, <1>6, <1>8, <2>3, <2>5
<1> QED
  BY <1>7, <1>8

\* The clients of a selection are made.
LEMMA MadeFresh ==
  ASSUME LifeInv, NEW fresh \in FreshClients,
         modelClients' = [c \in DOMAIN modelClients |-> IF c \in fresh THEN "open" ELSE modelClients[c]]
  PROVE  /\ modelClients' \in [1 .. MaxClients -> {"none", "open", "closed"}]
         /\ OpenClients' = OpenClients \cup fresh /\ fresh \subseteq 1 .. MaxClients
         /\ \A c \in candidates : modelClients'[c] # "none"
         /\ fresh \cap (OpenClients \cup candidates) = {}
<1>1. /\ modelClients \in [1 .. MaxClients -> {"none", "open", "closed"}] /\ candidates \subseteq 1 .. MaxClients
      /\ \A c \in candidates : modelClients[c] # "none"
  BY DEF LifeInv, LifeTypes, ClientTypes, ClientsInv
<1>2. fresh \subseteq 1 .. MaxClients /\ \A c \in fresh : modelClients[c] = "none"
  BY UnusedAre DEF FreshClients
<1> QED
  BY <1>1, <1>2 DEF OpenClients

\* Another model is selected.
LEMMA SelectStep ==
  ASSUME LifeInv, NEW fresh \in FreshClients, SelectModelOf(fresh)
  PROVE  LifeInv'
<1>1. /\ LifeTypes /\ StagesInv /\ ClientsInv /\ opening.at = "open" /\ ending.at = "no" /\ coding \in BOOLEAN
      /\ UNCHANGED <<coding, opening, host_vars, candidates, astray, backend, run_vars, ending, session>>
      /\ modelClients' = [c \in DOMAIN modelClients |-> IF c \in fresh THEN "open" ELSE modelClients[c]]
  BY DEF LifeInv, LifeTypes, OpenTypes, SelectModelOf, Usable
<1>2. /\ modelClients' \in [1 .. MaxClients -> {"none", "open", "closed"}]
      /\ OpenClients' = OpenClients \cup fresh /\ fresh \subseteq 1 .. MaxClients
      /\ \A c \in candidates : modelClients'[c] # "none"
      /\ fresh \cap (OpenClients \cup candidates) = {}
  BY <1>1, MadeFresh
<1>3. PICK main \in fresh, router \in fresh \cup {0} :
        /\ wired' = [main |-> main, router |-> router, others |-> wired.others \cup ({wired.main, wired.router} \ {0})]
        /\ fresh = {main, router} \ {0}
  <2>1. 0 \notin fresh
    BY <1>2
  <2>2. CASE coding
    <3>1. wired' = [main |-> Min(fresh), router |-> Max(fresh), others |-> wired.others \cup ({wired.main, wired.router} \ {0})]
      BY <2>2 DEF SelectModelOf
    <3>2. Min(fresh) \in fresh /\ Max(fresh) \in fresh /\ fresh = {Min(fresh), Max(fresh)}
      BY <1>1, <2>2, FreshAre
    <3>3. fresh = {Min(fresh), Max(fresh)} \ {0}
      BY <2>1, <3>2
    <3> QED
      BY <3>1, <3>2, <3>3
  <2>3. CASE ~coding
    <3>1. wired' = [main |-> Min(fresh), router |-> 0, others |-> wired.others \cup ({wired.main, wired.router} \ {0})]
      BY <2>3 DEF SelectModelOf
    <3>2. Min(fresh) \in fresh /\ fresh = {Min(fresh)}
      BY <1>1, <2>3, FreshAre
    <3>3. fresh = {Min(fresh), 0} \ {0}
      BY <2>1, <3>2
    <3> QED
      BY <3>1, <3>2, <3>3
  <2> QED
    BY <2>2, <2>3
<1>4. ClientTypes'
  <2>1. main \in 0 .. MaxClients /\ router \in 0 .. MaxClients
    <3>1. 0 \in 0 .. MaxClients /\ \A c \in 1 .. MaxClients : c \in 0 .. MaxClients
      BY LifetimesAssumption
    <3> QED
      BY <1>2, <1>3, <3>1
  <2>2. wired.others \cup ({wired.main, wired.router} \ {0}) \subseteq 1 .. MaxClients
    BY <1>1, LifeShape
  <2>3. wired' \in [main : 0 .. MaxClients, router : 0 .. MaxClients, others : SUBSET (1 .. MaxClients)]
    BY <1>3, <2>1, <2>2
  <2> QED
    BY <1>1, <1>2, <2>3 DEF LifeTypes, ClientTypes
<1>5. wired'.main = main /\ wired'.router = router /\ Wiring' = fresh \cup Wiring
  BY <1>3 DEF Wiring
<1>6. ClientsInv'
  <2>1. UNCHANGED <<opening, ending, candidates, astray>>
    BY <1>1
  <2>2. candidates \cap {main, router} = {}
    BY <1>1, <1>2 DEF LifeTypes, ClientTypes
  <2>3. OpenClients' \subseteq Wiring' \cup candidates \cup astray /\ {main, router} \ {0} \subseteq OpenClients'
    BY <1>1, <1>2, <1>3, <1>5 DEF ClientsInv
  <2> QED
    BY <1>1, <1>2, <1>5, <2>1, <2>2, <2>3 DEF ClientsInv
<1> QED
  BY <1>1, <1>4, <1>6, ClientStep

\* A selection fails after it made its clients.
LEMMA SelectFailsStep ==
  ASSUME LifeInv, NEW fresh \in FreshClients, SelectionFails(fresh)
  PROVE  LifeInv'
<1>1. /\ LifeTypes /\ StagesInv /\ ClientsInv /\ opening.at = "open" /\ ending.at = "no" /\ candidates = {} /\ candidates' = fresh
      /\ UNCHANGED <<coding, opening, host_vars, wired, astray, backend, run_vars, ending, session>>
      /\ modelClients' = [c \in DOMAIN modelClients |-> IF c \in fresh THEN "open" ELSE modelClients[c]]
  BY DEF LifeInv, SelectionFails, Usable
<1>2. /\ modelClients' \in [1 .. MaxClients -> {"none", "open", "closed"}]
      /\ OpenClients' = OpenClients \cup fresh /\ fresh \subseteq 1 .. MaxClients
      /\ fresh \cap (OpenClients \cup candidates) = {}
  BY <1>1, MadeFresh
<1>3. ClientTypes'
  BY <1>1, <1>2 DEF LifeTypes, ClientTypes
<1>4. {wired.main, wired.router} \ {0} \subseteq OpenClients /\ OpenClients \subseteq Wiring \cup candidates \cup astray
  BY <1>1 DEF ClientsInv
<1>5. fresh \cap {wired.main, wired.router} = {} /\ Wiring' = Wiring
  BY <1>1, <1>2, <1>4 DEF Wiring
<1>6. \A c \in fresh : modelClients'[c] # "none"
  BY <1>1, <1>2, LifetimesAssumption DEF LifeTypes, ClientTypes
<1>7. ClientsInv'
  BY <1>1, <1>2, <1>4, <1>5, <1>6 DEF ClientsInv
<1> QED
  BY <1>1, <1>3, <1>7, ClientStep

\* One of them is closed, or what is left of them has no owner any more.
LEMMA CandidateStep ==
  ASSUME LifeInv, NEW succeeds \in BOOLEAN, CandidateClosed(succeeds)
  PROVE  LifeInv'
<1>1. /\ LifeTypes /\ StagesInv /\ ClientsInv /\ candidates # {} /\ opening.at = "open"
      /\ UNCHANGED <<coding, opening, host_vars, wired, backend, run_vars, ending, session>>
  BY DEF LifeInv, CandidateClosed, ClientsInv
<1>2. modelClients \in [1 .. MaxClients -> {"none", "open", "closed"}] /\ candidates \subseteq 1 .. MaxClients
  BY <1>1 DEF LifeTypes, ClientTypes
<1>3. CASE succeeds
  <2> DEFINE c == Min(candidates)
  <2>1. c \in candidates /\ c \in 1 .. MaxClients
    BY <1>1, <1>2, MinIs
  <2>2. modelClients' = [modelClients EXCEPT ![c] = "closed"] /\ candidates' = candidates \ {c} /\ astray' = astray
    BY <1>3 DEF CandidateClosed
  <2> HIDE DEF c
  <2>3. ClientTypes'
    BY <1>1, <1>2, <2>1, <2>2 DEF LifeTypes, ClientTypes
  <2>4. OpenClients' = OpenClients \ {c} /\ Wiring' = Wiring
    BY <1>1, <1>2, <2>1, <2>2 DEF OpenClients, Wiring
  <2>5. \A d \in candidates' : modelClients'[d] # "none"
    BY <1>1, <1>2, <2>1, <2>2 DEF ClientsInv
  <2>6. c \notin {wired.main, wired.router}
    BY <1>1, <2>1 DEF ClientsInv
  <2>7. ClientsInv'
    BY <1>1, <2>2, <2>4, <2>5, <2>6 DEF ClientsInv
  <2> QED
    BY <1>1, <2>3, <2>7, ClientStep
<1>4. CASE ~succeeds
  <2>1. astray' = astray \cup candidates /\ candidates' = {} /\ modelClients' = modelClients
    BY <1>4 DEF CandidateClosed
  <2>2. ClientTypes'
    BY <1>1, <1>2, <2>1 DEF LifeTypes, ClientTypes
  <2>3. OpenClients' = OpenClients /\ Wiring' = Wiring
    BY <1>1, <2>1 DEF OpenClients, Wiring
  <2>4. ClientsInv'
    BY <1>1, <2>1, <2>3 DEF ClientsInv
  <2> QED
    BY <1>1, <2>2, <2>4, ClientStep
<1> QED
  BY <1>3, <1>4

\* A step of the opening: its record changes, and what is named.
LEMMA OpeningTypes ==
  ASSUME LifeTypes, coding' = coding, backend' \in {"none", "open", "closed"},
         NEW at \in {"none", "loading", "configuring", "assembling", "open", "unwinding", "unloading", "failed"},
         NEW clients \in SUBSET {1, 2}, NEW unsure \in BOOLEAN, NEW cut \in BOOLEAN,
         opening' = [at |-> at, clients |-> clients, unsure |-> unsure, cut |-> cut]
  PROVE  OpenTypes'
<1>1. opening' \in [at : {"none", "loading", "configuring", "assembling", "open", "unwinding", "unloading", "failed"},
                    clients : SUBSET {1, 2}, unsure : BOOLEAN, cut : BOOLEAN]
  OBVIOUS
<1> QED
  BY <1>1 DEF LifeTypes, OpenTypes

\* A session that is not open has no turn and no close.
LEMMA NotOpen ==
  ASSUME StagesInv, opening.at # "open"
  PROVE  /\ inTurn.at = "none" /\ ~session.closed /\ session.close = "none" /\ ending.at = "no" /\ ending.report = "none"
         /\ session.cleanup # "clean" /\ ~hooked /\ childSession # "open" /\ \A e \in standing : ~e.late
BY DEF StagesInv

\* Its record, when its cut is noted.
LEMMA WithCut ==
  ASSUME LifeTypes
  PROVE  \A b : [opening EXCEPT !.cut = b]
                = [at |-> opening.at, clients |-> opening.clients, unsure |-> opening.unsure, cut |-> b]
BY DEF LifeTypes, OpenTypes

\* A step of an opening that is not over yet, of the stages and of what the others say of them.
LEMMA OpeningStages ==
  ASSUME StagesInv, opening.at # "open", opening'.at # "open", UNCHANGED <<standing, hooked, inTurn, childSession, ending, session>>,
         opening'.at = "none" => host'.at = "none",
         opening'.at = "loading" => host'.at = "active",
         opening'.at \in {"configuring", "assembling", "unwinding"} => host'.at \in {"none", "active"},
         opening'.at = "unloading" => host'.at \in {"closing", "closed"},
         opening'.at = "failed" => host'.at \in {"none", "closing", "closed"},
         host'.activating # {} => opening'.at = "loading"
  PROVE  StagesInv'
<1>1. /\ inTurn.at = "none" /\ ~session.closed /\ session.close = "none" /\ ending.at = "no" /\ ending.report = "none"
      /\ session.cleanup # "clean" /\ ~hooked /\ childSession # "open" /\ \A e \in standing : ~e.late
  BY NotOpen
<1> QED
  BY <1>1 DEF StagesInv

\* A registry without plugins.
LEMMA NamesOpening ==
  ASSUME NamesInv, opening.at # "open", opening'.at # "open", UNCHANGED registry
  PROVE  NamesInv'
<1>1. "none" \notin Plugins
  BY LifetimesAssumption
<1> QED
  BY <1>1 DEF NamesInv

\* The undoing of what was opened gets to the host: there is one and it begins to close, or there is none.
LEMMA Unloading ==
  ASSUME LifeInv, opening.at \in {"configuring", "assembling", "unwinding"},
         NEW at \in {"none", "loading", "configuring", "assembling", "open", "unwinding", "unloading", "failed"},
         NEW clients \in SUBSET {1, 2}, NEW unsure \in BOOLEAN, NEW cut \in BOOLEAN,
         Unload([at |-> at, clients |-> clients, unsure |-> unsure, cut |-> cut]),
         UNCHANGED <<coding, standing, registry, hooked, basis, client_vars, run_vars, ending, session>>,
         backend' \in {"none", "open", "closed"}, ~coding => backend' = "none",
         backend' # "open" \/ unsure \/ cut, OpenClients = {} \/ unsure \/ cut
  PROVE  LifeInv'
<1>1. /\ LifeTypes /\ PluginsInv /\ StagesInv /\ BackendInv /\ ClientsInv /\ NamesInv
      /\ host.at \in {"none", "active"} /\ host.activating = {}
  BY DEF LifeInv, StagesInv
<1>2. PICK stage \in {"failed", "unloading"} :
        /\ opening' = [at |-> stage, clients |-> clients, unsure |-> unsure, cut |-> cut]
        /\ PluginsInv' /\ HostTypes' /\ host'.activating = {}
        /\ stage = "failed" => host'.at = "none"
        /\ stage = "unloading" => host'.at = "closing"
  <2>1. CASE host.at = "none"
    <3>1. opening' = [at |-> "failed", clients |-> clients, unsure |-> unsure, cut |-> cut] /\ host' = host
      BY <2>1 DEF Unload
    <3>2. PluginsInv' /\ HostTypes'
      BY <1>1, <3>1, PluginsKept, HostTypesKept DEF LifeTypes
    <3> QED
      BY <1>1, <2>1, <3>1, <3>2
  <2>2. CASE host.at # "none"
    <3>1. opening' = [at |-> "unloading", clients |-> clients, unsure |-> unsure, cut |-> cut]
      BY <2>2 DEF Unload
    <3>2. host' = [at |-> "closing", listed |-> host.listed, loaded |-> host.loaded, activating |-> {},
                   cleanups |-> host.cleanups, failed |-> host.failed]
      BY <1>1, <2>2, LifeShape DEF Unload
    <3>3. PluginsInv' /\ HostTypes' /\ host'.at = "closing" /\ host'.activating = {}
      BY <1>1, <3>2, HostCloses, LifeShape
    <3> QED
      BY <3>1, <3>3
  <2> QED
    BY <2>1, <2>2
<1>3. OpenTypes'
  BY <1>1, <1>2, OpeningTypes
<1>4. LifeTypes'
  BY <1>1, <1>2, <1>3, ClientTypesKept, RunTypesKept DEF LifeTypes, client_vars, run_vars
<1>5. opening'.at = stage /\ opening'.unsure = unsure /\ opening'.cut = cut
  BY <1>2
<1>6. UNCHANGED <<coding, standing, hooked, registry, inTurn, childSession, ending, session, modelClients, wired, candidates, astray>>
  BY DEF client_vars, run_vars
<1>7. StagesInv'
  BY <1>1, <1>2, <1>5, <1>6, OpeningStages
<1>8. NamesInv'
  BY <1>1, <1>5, <1>6, NamesOpening
<1>9. BackendInv'
  BY <1>1, <1>5, <1>6, NotOpen DEF BackendInv
<1>10. ClientsInv'
  BY <1>1, <1>5, <1>6 DEF ClientsInv, OpenClients
<1> QED
  BY <1>2, <1>4, <1>7, <1>8, <1>9, <1>10 DEF LifeInv

\* What fails before anything but the host stands, or where nothing is undone but the host.
LEMMA EarlyFailures ==
  ASSUME LifeInv, ConfigurationFails \/ BindingsFail
  PROVE  LifeInv'
<1>1. /\ LifeTypes /\ StagesInv /\ BackendInv /\ ClientsInv
      /\ UNCHANGED <<coding, standing, registry, hooked, basis, client_vars, backend, run_vars, ending, session>>
  BY DEF LifeInv, ConfigurationFails, BindingsFail
<1>2. backend \in {"none", "open", "closed"} /\ (~coding => backend = "none")
  BY <1>1 DEF LifeTypes, OpenTypes, BackendInv
<1>3. CASE ConfigurationFails
  <2>1. opening.at = "configuring" /\ Unload(opening) /\ backend = "none" /\ OpenClients = {}
    BY <1>1, <1>3 DEF ConfigurationFails, BackendInv, ClientsInv
  <2>2. Unload([at |-> opening.at, clients |-> opening.clients, unsure |-> opening.unsure, cut |-> opening.cut])
    BY <1>1, <2>1, LifeShape
  <2> QED
    BY <1>1, <1>2, <2>1, <2>2, LifeShape, Unloading
<1>4. CASE BindingsFail
  <2>1. opening.at = "assembling" /\ Unload([opening EXCEPT !.cut = TRUE])
    BY <1>4 DEF BindingsFail
  <2>2. [opening EXCEPT !.cut = TRUE] = [at |-> opening.at, clients |-> opening.clients, unsure |-> opening.unsure, cut |-> TRUE]
    BY <1>1, WithCut
  <2>3. Unload([at |-> opening.at, clients |-> opening.clients, unsure |-> opening.unsure, cut |-> TRUE])
    BY <2>1, <2>2
  <2> QED
    BY <1>1, <1>2, <2>1, <2>3, LifeShape, Unloading
<1> QED
  BY <1>3, <1>4

\* The backend of what is undone is closed, or it is noted that it is not.
LEMMA UnwindBackendStep ==
  ASSUME LifeInv, NEW succeeds \in BOOLEAN, UnwindBackend(succeeds)
  PROVE  LifeInv'
<1>1. /\ LifeTypes /\ StagesInv /\ BackendInv /\ ClientsInv /\ opening.at = "unwinding" /\ opening.clients = {}
      /\ UNCHANGED <<coding, standing, registry, hooked, basis, client_vars, run_vars, ending, session>>
  BY DEF LifeInv, UnwindBackend
<1>2. OpenClients = {} \/ opening.unsure
  BY <1>1 DEF ClientsInv
<1>3. CASE ~coding
  <2>1. backend' = backend /\ backend = "none" /\ Unload(opening)
    BY <1>1, <1>3 DEF UnwindBackend, BackendInv
  <2>2. Unload([at |-> opening.at, clients |-> opening.clients, unsure |-> opening.unsure, cut |-> opening.cut])
    BY <1>1, <2>1, LifeShape
  <2> QED
    BY <1>1, <1>2, <2>1, <2>2, LifeShape, Unloading
<1>4. CASE coding
  <2>1. backend' = IF succeeds THEN "closed" ELSE backend
    BY <1>4 DEF UnwindBackend
  <2>2. Unload([opening EXCEPT !.unsure = opening.unsure \/ ~succeeds])
    BY <1>4 DEF UnwindBackend
  <2>3. [opening EXCEPT !.unsure = opening.unsure \/ ~succeeds]
        = [at |-> opening.at, clients |-> opening.clients, unsure |-> (opening.unsure \/ ~succeeds), cut |-> opening.cut]
    BY <1>1 DEF LifeTypes, OpenTypes
  <2>4. Unload([at |-> opening.at, clients |-> opening.clients, unsure |-> (opening.unsure \/ ~succeeds), cut |-> opening.cut])
    BY <2>2, <2>3
  <2>5. backend' \in {"none", "open", "closed"} /\ (backend' # "open" \/ (opening.unsure \/ ~succeeds))
    BY <1>1, <2>1 DEF LifeTypes, OpenTypes
  <2>6. (opening.unsure \/ ~succeeds) \in BOOLEAN
    OBVIOUS
  <2> QED
    BY <1>1, <1>2, <1>4, <2>4, <2>5, <2>6, LifeShape, Unloading
<1> QED
  BY <1>3, <1>4

\* Steps of the opening that leave host and clients alone.
LEMMA OpeningStep ==
  ASSUME LifeInv, opening.at # "open",
         NEW at \in {"configuring", "assembling", "failed"},
         opening' = [at |-> at, clients |-> opening.clients, unsure |-> opening.unsure, cut |-> opening.cut],
         UNCHANGED <<coding, host_vars, client_vars, run_vars, ending, session>>,
         backend' \in {"none", "open", "closed"}, ~coding => backend' = "none",
         at \in {"configuring", "assembling"} => host.at \in {"none", "active"} /\ host.activating = {} /\ OpenClients = {},
         at = "configuring" => backend' = "none",
         coding /\ at = "assembling" => backend' = "open",
         at = "failed" => /\ host.at \in {"none", "closing", "closed"} /\ host.activating = {}
                          /\ OpenClients = {} \/ opening.unsure \/ opening.cut
                          /\ backend' # "open" \/ opening.unsure \/ opening.cut
  PROVE  LifeInv'
<1>1. /\ LifeTypes /\ PluginsInv /\ StagesInv /\ BackendInv /\ ClientsInv /\ NamesInv
      /\ UNCHANGED <<coding, host, standing, hooked, registry, basis, inTurn, childSession, ending, session, modelClients, wired,
                     candidates, astray>>
  BY DEF LifeInv, host_vars, client_vars, run_vars
<1>2. opening'.at = at /\ opening'.unsure = opening.unsure /\ opening'.cut = opening.cut
  OBVIOUS
<1>3. OpenTypes'
  BY <1>1, OpeningTypes, LifeShape
<1>4. LifeTypes'
  BY <1>1, <1>3, HostTypesKept, ClientTypesKept, RunTypesKept DEF LifeTypes
<1>5. StagesInv'
  BY <1>1, <1>2, OpeningStages
<1>6. NamesInv'
  BY <1>1, <1>2, NamesOpening
<1>7. BackendInv'
  BY <1>1, <1>2, NotOpen DEF BackendInv
<1>8. ClientsInv'
  BY <1>1, <1>2 DEF ClientsInv, OpenClients
<1> QED
  BY <1>1, <1>4, <1>5, <1>6, <1>7, <1>8, PluginsKept DEF LifeInv

\* The plugins are loaded; the backend opens; the undoing ends, or is cut off while the host closes.
LEMMA StageSteps ==
  ASSUME LifeInv, PluginsLoaded \/ BackendOpens \/ Unloaded
                  \/ (opening.at = "unloading" /\ CutOpening)
  PROVE  LifeInv'
<1>1. /\ LifeTypes /\ PluginsInv /\ StagesInv /\ BackendInv /\ ClientsInv
  BY DEF LifeInv
<1>2. backend \in {"none", "open", "closed"} /\ (~coding => backend = "none")
  BY <1>1 DEF LifeTypes, OpenTypes, BackendInv
<1>3. CASE PluginsLoaded
  <2>1. /\ opening.at = "loading" /\ host.at = "active" /\ OpenClients = {} /\ backend = "none" /\ backend' = backend
        /\ UNCHANGED <<coding, host_vars, client_vars, run_vars, ending, session>>
    BY <1>1, <1>3 DEF PluginsLoaded, StagesInv, ClientsInv, BackendInv
  <2>2. host.activating = {}
    BY <1>1, <1>3, <2>1 DEF PluginsLoaded, PluginsInv
  <2>3. opening' = [at |-> "configuring", clients |-> opening.clients, unsure |-> opening.unsure, cut |-> opening.cut]
    BY <1>1, <1>3, LifeShape DEF PluginsLoaded
  <2> QED
    BY <1>2, <2>1, <2>2, <2>3, OpeningStep
<1>4. CASE BackendOpens
  <2>1. /\ opening.at = "configuring" /\ host.at \in {"none", "active"} /\ OpenClients = {} /\ host.activating = {}
        /\ backend' = IF coding THEN "open" ELSE "none"
        /\ UNCHANGED <<coding, host_vars, client_vars, run_vars, ending, session>>
    BY <1>1, <1>4 DEF BackendOpens, StagesInv, ClientsInv
  <2>2. opening' = [at |-> "assembling", clients |-> opening.clients, unsure |-> opening.unsure, cut |-> opening.cut]
    BY <1>1, <1>4, LifeShape DEF BackendOpens
  <2> QED
    BY <2>1, <2>2, OpeningStep
<1>5. CASE Unloaded \/ (opening.at = "unloading" /\ CutOpening)
  <2>1. /\ opening.at = "unloading" /\ host.at \in {"closing", "closed"} /\ host.activating = {} /\ backend' = backend
        /\ OpenClients = {} \/ opening.unsure \/ opening.cut
        /\ backend # "open" \/ opening.unsure \/ opening.cut
        /\ UNCHANGED <<coding, host_vars, client_vars, run_vars, ending, session>>
    BY <1>1, <1>5 DEF Unloaded, CutOpening, StagesInv, ClientsInv, BackendInv, host_vars
  <2>2. opening' = [at |-> "failed", clients |-> opening.clients, unsure |-> opening.unsure, cut |-> opening.cut]
    BY <1>1, <1>5, LifeShape DEF Unloaded, CutOpening
  <2> QED
    BY <1>2, <2>1, <2>2, OpeningStep
<1> QED
  BY <1>3, <1>4, <1>5

\* A cancellation cuts the undoing of the clients and the backend off.
LEMMA CutStep ==
  ASSUME LifeInv, opening.at = "unwinding", CutOpening
  PROVE  LifeInv'
<1>1. /\ LifeTypes /\ StagesInv /\ BackendInv /\ Unload([opening EXCEPT !.cut = TRUE])
      /\ UNCHANGED <<coding, standing, registry, hooked, basis, client_vars, backend, run_vars, ending, session>>
  BY DEF LifeInv, CutOpening
<1>2. backend \in {"none", "open", "closed"} /\ (~coding => backend = "none")
  BY <1>1 DEF LifeTypes, OpenTypes, BackendInv
<1>3. [opening EXCEPT !.cut = TRUE] = [at |-> opening.at, clients |-> opening.clients, unsure |-> opening.unsure, cut |-> TRUE]
  BY <1>1, WithCut
<1>4. Unload([at |-> opening.at, clients |-> opening.clients, unsure |-> opening.unsure, cut |-> TRUE])
  BY <1>1, <1>3
<1> QED
  BY <1>1, <1>2, <1>4, LifeShape, Unloading

\* A session begins to open, with a host if plugins are listed.
LEMMA OpenStep ==
  ASSUME LifeInv, NEW listed \in SUBSET Plugins, OpenHarness(listed)
  PROVE  LifeInv'
<1>1. /\ LifeTypes /\ PluginsInv /\ StagesInv /\ BackendInv /\ ClientsInv /\ NamesInv
      /\ opening.at = "none" /\ host.at = "none" /\ host.activating = {}
      /\ UNCHANGED <<coding, standing, registry, hooked, basis, client_vars, backend, run_vars, ending, session>>
  BY DEF LifeInv, OpenHarness, StagesInv
<1>2. host.cleanups = <<>> /\ basis = {} /\ standing = {} /\ host.loaded = {} /\ ~host.failed
  BY <1>1 DEF PluginsInv, Owed
<1>3. PICK at \in {"configuring", "loading", "unloading"} :
        /\ opening' = [at |-> at, clients |-> opening.clients, unsure |-> opening.unsure, cut |-> opening.cut]
        /\ PluginsInv' /\ HostTypes' /\ host'.activating = {}
        /\ at = "configuring" => host'.at = "none"
        /\ at = "loading" => host'.at = "active"
        /\ at = "unloading" => host'.at = "closing"
  <2>1. CASE listed = {}
    <3>1. opening' = [at |-> "configuring", clients |-> opening.clients, unsure |-> opening.unsure, cut |-> opening.cut]
      BY <1>1, <2>1, LifeShape DEF OpenHarness
    <3>2. host' = host
      BY <2>1 DEF OpenHarness
    <3> QED
      BY <1>1, <3>1, <3>2, PluginsKept, HostTypesKept DEF LifeTypes
  <2>2. CASE listed # {} /\ \A p \in listed : Requires[p] \subseteq listed
    <3>1. opening' = [at |-> "loading", clients |-> opening.clients, unsure |-> opening.unsure, cut |-> opening.cut]
      BY <1>1, <2>2, LifeShape DEF OpenHarness
    <3>2. host' = [at |-> "active", listed |-> listed, loaded |-> {}, activating |-> {}, cleanups |-> <<>>, failed |-> FALSE]
      BY <1>1, <1>2, <2>2, LifeShape DEF OpenHarness
    <3>3. HostTypes'
      <4>1. <<>> \in Seq(Holding)
        OBVIOUS
      <4>2. host' \in [at : {"none", "active", "closing", "closed"}, listed : SUBSET Plugins, loaded : SUBSET Plugins,
                       activating : SUBSET Plugins, cleanups : Seq(Holding), failed : BOOLEAN]
        BY <3>2, <4>1
      <4> QED
        BY <1>1, <4>2 DEF LifeTypes, HostTypes
    <3>4. /\ host'.at = "active" /\ host'.loaded = {} /\ host'.activating = {} /\ host'.cleanups = <<>>
          /\ basis' = {} /\ standing' = {} /\ DOMAIN host'.cleanups = {}
      BY <1>1, <1>2, <3>2
    <3>5. PluginsInv'
      BY <3>4 DEF PluginsInv, Owed
    <3> QED
      BY <3>1, <3>3, <3>4, <3>5
  <2>3. CASE listed # {} /\ ~\A p \in listed : Requires[p] \subseteq listed
    <3>1. opening' = [at |-> "unloading", clients |-> opening.clients, unsure |-> opening.unsure, cut |-> opening.cut]
      BY <1>1, <2>3, LifeShape DEF OpenHarness
    <3>2. host' = [at |-> "closing", listed |-> listed, loaded |-> host.loaded, activating |-> {},
                   cleanups |-> host.cleanups, failed |-> host.failed]
      BY <1>1, <2>3, LifeShape DEF OpenHarness
    <3>3. PluginsInv' /\ HostTypes' /\ host'.at = "closing" /\ host'.activating = {}
      BY <1>1, <3>2, HostCloses
    <3> QED
      BY <3>1, <3>3
  <2> QED
    BY <2>1, <2>2, <2>3
<1>4. UNCHANGED <<coding, standing, hooked, registry, inTurn, childSession, ending, session, modelClients, wired, candidates,
                  astray, backend>>
  BY <1>1 DEF client_vars, run_vars
<1>5. backend' \in {"none", "open", "closed"} /\ coding' = coding
  BY <1>1 DEF LifeTypes, OpenTypes
<1>6. OpenTypes'
  BY <1>1, <1>3, <1>5, OpeningTypes, LifeShape
<1>7. LifeTypes'
  BY <1>1, <1>3, <1>4, <1>6, ClientTypesKept, RunTypesKept DEF LifeTypes
<1>8. opening'.at = at
  BY <1>3
<1>9. StagesInv'
  BY <1>1, <1>3, <1>4, <1>8, OpeningStages
<1>10. NamesInv'
  BY <1>1, <1>4, <1>8, NamesOpening
<1>11. BackendInv'
  BY <1>1, <1>4, <1>8, NotOpen DEF BackendInv
<1>12. ClientsInv'
  BY <1>1, <1>4, <1>8 DEF ClientsInv, OpenClients
<1> QED
  BY <1>3, <1>7, <1>9, <1>10, <1>11, <1>12 DEF LifeInv

\* The first clients of an agent are clients.
LEMMA AssembledAre ==
  Assembled \subseteq 1 .. MaxClients /\ Assembled \subseteq {1, 2}
BY LifetimesAssumption DEF Assembled

\* The agent fails to assemble after some of its clients.
LEMMA AssemblyFailsStep ==
  ASSUME LifeInv, NEW n \in 0 .. 2, AssemblyFails(n)
  PROVE  LifeInv'
<1> DEFINE begun == {c \in Assembled : c <= n}
<1>1. /\ LifeTypes /\ PluginsInv /\ StagesInv /\ BackendInv /\ ClientsInv /\ NamesInv /\ opening.at = "assembling"
      /\ UNCHANGED <<coding, host_vars, wired, candidates, astray, backend, run_vars, ending, session>>
      /\ modelClients' = [c \in DOMAIN modelClients |-> IF c \in begun THEN "open" ELSE "none"]
  BY DEF LifeInv, AssemblyFails
<1>2. opening' = [at |-> "unwinding", clients |-> begun, unsure |-> opening.unsure, cut |-> opening.cut]
  BY <1>1, LifeShape DEF AssemblyFails
<1>3. begun \subseteq {1, 2} /\ begun \subseteq 1 .. MaxClients
  BY AssembledAre
<1> HIDE DEF begun
<1>4. UNCHANGED <<coding, host, standing, basis, hooked, registry, inTurn, childSession, ending, session, wired, candidates,
                  astray, backend>>
  BY <1>1 DEF host_vars, run_vars
<1>5. modelClients' \in [1 .. MaxClients -> {"none", "open", "closed"}] /\ OpenClients' = begun
  BY <1>1, <1>3 DEF LifeTypes, ClientTypes, OpenClients
<1>6. ClientTypes'
  BY <1>1, <1>4, <1>5 DEF LifeTypes, ClientTypes
<1>7. backend' \in {"none", "open", "closed"} /\ coding' = coding
  BY <1>1, <1>4 DEF LifeTypes, OpenTypes
<1>8. OpenTypes'
  BY <1>1, <1>2, <1>3, <1>7, OpeningTypes, LifeShape
<1>9. LifeTypes'
  BY <1>1, <1>4, <1>6, <1>8, HostTypesKept, RunTypesKept DEF LifeTypes
<1>10. opening'.at = "unwinding" /\ opening'.clients = begun
  BY <1>2
<1>11. StagesInv'
  BY <1>1, <1>4, <1>10, OpeningStages DEF StagesInv
<1>12. NamesInv'
  BY <1>1, <1>4, <1>10, NamesOpening
<1>13. BackendInv'
  BY <1>1, <1>4, <1>10, NotOpen DEF BackendInv
<1>14. ClientsInv'
  BY <1>1, <1>4, <1>5, <1>10 DEF ClientsInv
<1> QED
  BY <1>1, <1>4, <1>9, <1>11, <1>12, <1>13, <1>14, PluginsKept DEF LifeInv

\* One of them is closed again, or it is noted that it is not.
LEMMA UnwindClientStep ==
  ASSUME LifeInv, NEW succeeds \in BOOLEAN, UnwindClient(succeeds)
  PROVE  LifeInv'
<1> DEFINE c == Min(opening.clients)
<1>1. /\ LifeTypes /\ PluginsInv /\ StagesInv /\ BackendInv /\ ClientsInv /\ NamesInv
      /\ opening.at = "unwinding" /\ opening.clients # {}
      /\ UNCHANGED <<coding, host_vars, wired, candidates, astray, backend, run_vars, ending, session>>
      /\ modelClients' = IF succeeds THEN [modelClients EXCEPT ![c] = "closed"] ELSE modelClients
  BY DEF LifeInv, UnwindClient
<1>2. opening' = [at |-> "unwinding", clients |-> opening.clients \ {c}, unsure |-> (opening.unsure \/ ~succeeds),
                  cut |-> opening.cut]
  BY <1>1, LifeShape DEF UnwindClient
<1>3. opening.clients \subseteq 1 .. MaxClients
  BY <1>1, LifeShape, LifetimesAssumption
<1>4. c \in opening.clients /\ c \in 1 .. MaxClients
  BY <1>1, <1>3, MinIs
<1> HIDE DEF c
<1>5. UNCHANGED <<coding, host, standing, basis, hooked, registry, inTurn, childSession, ending, session, wired, candidates,
                  astray, backend>>
  BY <1>1 DEF host_vars, run_vars
<1>6. modelClients \in [1 .. MaxClients -> {"none", "open", "closed"}]
  BY <1>1 DEF LifeTypes, ClientTypes
<1>7. /\ modelClients' \in [1 .. MaxClients -> {"none", "open", "closed"}]
      /\ OpenClients' \subseteq OpenClients /\ (succeeds => OpenClients' \subseteq OpenClients \ {c})
  BY <1>1, <1>4, <1>6 DEF OpenClients
<1>8. ClientTypes'
  BY <1>1, <1>5, <1>7 DEF LifeTypes, ClientTypes
<1>9. backend' \in {"none", "open", "closed"} /\ coding' = coding
  BY <1>1, <1>5 DEF LifeTypes, OpenTypes
<1>10. OpenTypes'
  <2>1. (opening.unsure \/ ~succeeds) \in BOOLEAN /\ opening.clients \ {c} \in SUBSET {1, 2} /\ opening.cut \in BOOLEAN
    BY <1>1, LifeShape
  <2> QED
    BY <1>1, <1>2, <1>9, <2>1, OpeningTypes
<1>11. LifeTypes'
  BY <1>1, <1>5, <1>8, <1>10, HostTypesKept, RunTypesKept DEF LifeTypes
<1>12. /\ opening'.at = "unwinding" /\ opening'.clients = opening.clients \ {c}
       /\ opening'.unsure = (opening.unsure \/ ~succeeds)
  BY <1>2
<1>13. StagesInv'
  BY <1>1, <1>5, <1>12, OpeningStages DEF StagesInv
<1>14. NamesInv'
  BY <1>1, <1>5, <1>12, NamesOpening
<1>15. BackendInv'
  BY <1>1, <1>5, <1>12, NotOpen DEF BackendInv
<1>16. ClientsInv'
  <2>1. OpenClients' \subseteq opening'.clients \/ opening'.unsure
    <3>1. CASE opening.unsure \/ ~succeeds
      BY <1>12, <3>1
    <3>2. CASE ~opening.unsure /\ succeeds
      BY <1>1, <1>7, <1>12, <3>2 DEF ClientsInv
    <3> QED
      BY <3>1, <3>2
  <2> QED
    BY <1>1, <1>5, <1>12, <2>1 DEF ClientsInv
<1> QED
  BY <1>1, <1>5, <1>11, <1>13, <1>14, <1>15, <1>16, PluginsKept DEF LifeInv

\* The session is open: its clients are wired, and a name in the registry leads to what a plugin holds.
LEMMA AssembleStep == ASSUME LifeInv, Assemble PROVE LifeInv'
<1>1. /\ LifeTypes /\ PluginsInv /\ StagesInv /\ BackendInv /\ ClientsInv /\ NamesInv /\ opening.at = "assembling"
      /\ UNCHANGED <<coding, host, standing, basis, candidates, astray, backend, run_vars, ending, session>>
      /\ modelClients' = [c \in DOMAIN modelClients |-> IF c \in Assembled THEN "open" ELSE "none"]
      /\ hooked' = (host.at = "active")
  BY DEF LifeInv, Assemble
<1>2. opening' = [at |-> "open", clients |-> opening.clients, unsure |-> opening.unsure, cut |-> opening.cut]
  BY <1>1, LifeShape DEF Assemble
<1>3. /\ wired' = [main |-> 1, router |-> IF coding THEN 2 ELSE 0, others |-> {}]
      /\ candidates = {} /\ host.at \in {"none", "active"} /\ host.activating = {} /\ ~session.closed
  <2>1. wired = [main |-> 0, router |-> 0, others |-> {}] /\ candidates = {}
    BY <1>1 DEF ClientsInv
  <2>2. wired' = [wired EXCEPT !.main = 1, !.router = IF coding THEN 2 ELSE 0]
    BY DEF Assemble
  <2>3. wired' = [main |-> 1, router |-> IF coding THEN 2 ELSE 0, others |-> {}]
    BY <2>1, <2>2
  <2>4. host.at \in {"none", "active"} /\ host.activating = {} /\ ~session.closed
    BY <1>1 DEF StagesInv
  <2> QED
    BY <2>1, <2>3, <2>4
<1>4. UNCHANGED <<inTurn, childSession>> /\ coding \in BOOLEAN
  BY <1>1 DEF run_vars, LifeTypes, OpenTypes
<1>5. modelClients' \in [1 .. MaxClients -> {"none", "open", "closed"}] /\ OpenClients' = Assembled
  BY <1>1, AssembledAre DEF LifeTypes, ClientTypes, OpenClients
<1>6. ClientTypes'
  <2>1. 1 \in 0 .. MaxClients /\ 2 \in 0 .. MaxClients /\ 0 \in 0 .. MaxClients
    BY LifetimesAssumption
  <2>2. wired' \in [main : 0 .. MaxClients, router : 0 .. MaxClients, others : SUBSET (1 .. MaxClients)]
    BY <1>3, <2>1
  <2> QED
    BY <1>1, <1>3, <1>5, <2>2 DEF LifeTypes, ClientTypes
<1>7. OpenTypes'
  <2>1. backend' \in {"none", "open", "closed"}
    BY <1>1 DEF LifeTypes, OpenTypes
  <2> QED
    BY <1>1, <1>2, <2>1, OpeningTypes, LifeShape
<1>8. ASSUME NEW n \in PluginToolNames
      PROVE  /\ registry'[n] \in Plugins \cup {"none", "own"}
             /\ coding /\ n \in OwnNames => registry'[n] = "own"
             /\ registry'[n] \in Plugins =>
                  \E i \in DOMAIN host.cleanups : host.cleanups[i] = Held(registry'[n], "tool", n, FALSE)
  <2> DEFINE who == {e.plugin : e \in {t \in PluginTools : t.name = n}}
  <2>1. registry'[n] = IF coding /\ n \in OwnNames THEN "own"
                       ELSE IF who = {} THEN "none" ELSE CHOOSE p \in who : TRUE
    BY DEF Assemble
  <2>2. "own" \notin Plugins /\ "none" \notin Plugins
    BY LifetimesAssumption
  <2>3. ASSUME NEW p \in who
        PROVE  p \in Plugins /\ \E i \in DOMAIN host.cleanups : host.cleanups[i] = Held(p, "tool", n, FALSE)
    <3>1. PICK e \in standing : e.what = "tool" /\ e.name = n /\ e.plugin = p
      BY <2>3 DEF PluginTools
    <3>2. PICK i \in DOMAIN host.cleanups : host.cleanups[i] = e
      BY <1>1, <1>3, <3>1 DEF PluginsInv, Owed
    <3>3. e \in Holding
      BY <1>1, <3>2, LifeShape
    <3>4. ~e.late
      BY <1>1, NotOpen
    <3>5. e = [plugin |-> e.plugin, what |-> e.what, name |-> e.name, late |-> e.late] /\ e.late \in BOOLEAN /\ e.plugin \in Plugins
      BY <3>3 DEF Holding
    <3> QED
      BY <3>1, <3>2, <3>4, <3>5 DEF Held
  <2> HIDE DEF who
  <2> QED
    BY <2>1, <2>2, <2>3
<1>9. HostTypes'
  <2>1. registry' \in [PluginToolNames -> Plugins \cup {"none", "own"}]
    <3>1. registry' = [n \in PluginToolNames |-> registry'[n]]
      BY DEF Assemble
    <3> QED
      BY <1>8, <3>1
  <2> QED
    BY <1>1, <2>1 DEF LifeTypes, HostTypes
<1>10. LifeTypes'
  BY <1>1, <1>4, <1>6, <1>7, <1>9, RunTypesKept DEF LifeTypes
<1>11. opening'.at = "open"
  BY <1>2
<1>12. /\ inTurn.at = "none" /\ session.close = "none" /\ ending.at = "no" /\ ending.report = "none"
       /\ session.cleanup # "clean" /\ ~hooked /\ childSession # "open"
  BY <1>1, NotOpen
<1>13. StagesInv'
  BY <1>1, <1>3, <1>4, <1>11, <1>12 DEF StagesInv
<1>14. BackendInv'
  BY <1>1, <1>11, <1>12 DEF BackendInv
<1>15. ClientsInv'
  <2>1. Wiring' = Assembled /\ {wired'.main, wired'.router} \ {0} \subseteq Assembled
    BY <1>3, <1>4 DEF Wiring, Assembled
  <2> QED
    BY <1>1, <1>3, <1>5, <1>11, <1>12, <2>1 DEF ClientsInv
<1>16. NamesInv'
  <2>1. OwnNames \subseteq PluginToolNames
    BY LifetimesAssumption
  <2> QED
    BY <1>1, <1>8, <1>11, <2>1 DEF NamesInv, Held
<1> QED
  BY <1>1, <1>10, <1>13, <1>14, <1>15, <1>16, PluginsKept DEF LifeInv

\* An entry that a standing host takes up is behind those it rests on, and none rests on it.
LEMMA OwedMore ==
  ASSUME LifeTypes, PluginsInv, host.at = "active", NEW entry \in Holding, entry \notin Owed,
         NEW loaded \in SUBSET Plugins, NEW activating \in SUBSET Plugins,
         host' = [at |-> "active", listed |-> host.listed, loaded |-> loaded, activating |-> activating,
                  cleanups |-> Append(host.cleanups, entry), failed |-> host.failed],
         standing' = standing \cup {entry},
         basis' = basis \/ (basis' = basis \cup {entry} /\ entry.plugin \notin host.loaded),
         Requires[entry.plugin] \subseteq host.loaded,
         activating \subseteq host.listed \ loaded, \A p, q \in activating : p = q,
         \A p \in loaded \cup activating : Requires[p] \subseteq loaded,
         \A e \in Owed \cup {entry} : e.plugin \in loaded \/ (e.plugin \in activating /\ e.what # "effect"),
         UNCHANGED <<hooked, registry>>
  PROVE  PluginsInv' /\ HostTypes'
<1> DEFINE m == Len(host.cleanups)
<1>1. /\ host.cleanups \in Seq(Holding) /\ m \in Nat /\ DOMAIN host.cleanups = 1 .. m
      /\ host'.cleanups = Append(host.cleanups, entry) /\ DOMAIN host'.cleanups = 1 .. m + 1
      /\ host'.cleanups[m + 1] = entry /\ \A i \in 1 .. m : host'.cleanups[i] = host.cleanups[i]
      /\ host'.cleanups \in Seq(Holding)
  BY LifeShape
<1>2. /\ host'.at = "active" /\ host'.listed = host.listed /\ host'.loaded = loaded /\ host'.activating = activating
      /\ host'.failed = host.failed
  OBVIOUS
<1>3. Owed' = Owed \cup {entry}
  <2>1. Owed' = {host'.cleanups[i] : i \in 1 .. m + 1} /\ Owed = {host.cleanups[i] : i \in 1 .. m}
    BY <1>1 DEF Owed
  <2> HIDE DEF m
  <2>2. 1 .. m + 1 = (1 .. m) \cup {m + 1}
    BY <1>1
  <2> QED
    BY <1>1, <2>1, <2>2
<1>4. /\ standing = Owed /\ basis \subseteq Owed
      /\ \A p \in host.loaded \cup host.activating : Requires[p] \subseteq host.loaded
      /\ \A e \in Owed : e.plugin \in host.loaded \cup host.activating
  BY DEF PluginsInv
<1>5. standing' = Owed' /\ basis' \subseteq Owed'
  BY <1>3, <1>4
<1>6. \A i, j \in DOMAIN host'.cleanups : host'.cleanups[i] = host'.cleanups[j] => i = j
  <2>1. \A i \in 1 .. m : host.cleanups[i] \in Owed
    BY <1>1 DEF Owed
  <2>2. \A i, j \in 1 .. m : host.cleanups[i] = host.cleanups[j] => i = j
    BY <1>1 DEF PluginsInv
  <2> HIDE DEF m
  <2> QED
    BY <1>1, <2>1, <2>2
<1>7. ASSUME NEW i \in DOMAIN host'.cleanups, NEW e \in basis', e.plugin \in Requires[host'.cleanups[i].plugin]
      PROVE  e \in standing' /\ \E j \in 1 .. i - 1 : host'.cleanups[j] = e
  <2>1. CASE i \in 1 .. m
    <3>1. host'.cleanups[i] = host.cleanups[i] /\ host.cleanups[i] \in Owed
      BY <1>1, <2>1 DEF Owed
    <3>2. Requires[host.cleanups[i].plugin] \subseteq host.loaded
      BY <1>4, <3>1
    <3>3. e \in basis
      BY <1>7, <3>1, <3>2
    <3>4. e \in standing /\ \E j \in 1 .. i - 1 : host.cleanups[j] = e
      BY <1>1, <1>7, <2>1, <3>1, <3>3 DEF PluginsInv
    <3>5. \A j \in 1 .. i - 1 : host'.cleanups[j] = host.cleanups[j]
      BY <1>1, <2>1
    <3> QED
      BY <3>4, <3>5
  <2>2. CASE i = m + 1
    <3>1. e \in basis
      BY <1>1, <1>7, <2>2
    <3>2. e \in Owed
      BY <1>4, <3>1
    <3>3. PICK j \in 1 .. m : host.cleanups[j] = e
      BY <1>1, <3>2 DEF Owed
    <3>4. j \in 1 .. i - 1 /\ host'.cleanups[j] = e
      BY <1>1, <2>2, <3>3
    <3> QED
      BY <1>4, <3>1, <3>4
  <2> QED
    BY <1>1, <2>1, <2>2
<1>8. \A p \in host'.loaded \cup host'.activating : Requires[p] \subseteq host'.loaded
  BY <1>2
<1>9. \A e \in Owed' : e.plugin \in host'.loaded \/ (e.plugin \in host'.activating /\ e.what # "effect")
  BY <1>2, <1>3
<1>10. host'.activating \subseteq host'.listed \ host'.loaded /\ \A p, q \in host'.activating : p = q
  BY <1>2
<1>11. PluginsInv'
  <2> HIDE DEF m
  <2> QED
    BY <1>2, <1>5, <1>6, <1>7, <1>8, <1>9, <1>10 DEF PluginsInv
<1>12. HostTypes'
  <2>1. host' \in [at : {"none", "active", "closing", "closed"}, listed : SUBSET Plugins, loaded : SUBSET Plugins,
                   activating : SUBSET Plugins, cleanups : Seq(Holding), failed : BOOLEAN]
    BY <1>1, LifeShape
  <2> QED
    BY <2>1 DEF LifeTypes, HostTypes
<1> QED
  BY <1>11, <1>12

\* What the registry leads to is still there when the host takes up more.
LEMMA NamesMore ==
  ASSUME NamesInv, NEW entry, host.cleanups \in Seq(Holding), host'.cleanups = Append(host.cleanups, entry),
         UNCHANGED <<opening, coding, registry>>
  PROVE  NamesInv'
<1>1. \A i \in DOMAIN host.cleanups : i \in DOMAIN host'.cleanups /\ host'.cleanups[i] = host.cleanups[i]
  <2>1. host.cleanups = [i \in 1 .. Len(host.cleanups) |-> host.cleanups[i]] /\ Len(host.cleanups) \in Nat
    OBVIOUS
  <2>2. /\ DOMAIN host.cleanups = 1 .. Len(host.cleanups)
        /\ host'.cleanups = [i \in 1 .. Len(host.cleanups) + 1 |-> IF i <= Len(host.cleanups) THEN host.cleanups[i] ELSE entry]
    BY <2>1
  <2> QED
    BY <2>1, <2>2
<1> QED
  BY <1>1 DEF NamesInv, Held

\* A step of plugins that stand, of everything but the plugins.
LEMMA PluginStep ==
  ASSUME LifeInv, PluginsInv', HostTypes', NamesInv',
         host'.at = host.at, host'.activating # {} => opening.at = "loading", host'.failed = host.failed,
         opening.at # "open" => \A e \in standing' : ~e.late,
         UNCHANGED <<coding, opening, registry, hooked, client_vars, backend, run_vars, ending, session>>
  PROVE  LifeInv'
<1>1. /\ LifeTypes /\ StagesInv /\ BackendInv /\ ClientsInv
      /\ UNCHANGED <<coding, opening, hooked, modelClients, wired, candidates, astray, backend, inTurn, childSession, ending, session>>
  BY DEF LifeInv, client_vars, run_vars
<1>2. LifeTypes'
  BY <1>1, OpenTypesKept, ClientTypesKept, RunTypesKept DEF LifeTypes
<1>3. StagesInv'
  <2>1. UNCHANGED <<opening, hooked, inTurn, childSession, ending, session>>
    BY <1>1
  <2>2. /\ opening'.at = "none" => host'.at = "none"
        /\ opening'.at = "loading" => host'.at = "active"
        /\ opening'.at \in {"configuring", "assembling", "unwinding"} => host'.at \in {"none", "active"}
        /\ opening'.at = "unloading" => host'.at \in {"closing", "closed"}
        /\ opening'.at = "failed" => host'.at \in {"none", "closing", "closed"}
        /\ opening'.at = "open" /\ ending'.at \in {"no", "ending", "clients"} => host'.at \in {"none", "active"}
        /\ host'.activating # {} => opening'.at = "loading"
    BY <1>1, <2>1 DEF StagesInv
  <2>3. /\ hooked' => host'.at \in {"active", "closing"}
        /\ opening'.at = "open" /\ host'.at = "active" => hooked'
    <3>1. /\ hooked => host.at \in {"active", "closing"}
          /\ opening.at = "open" /\ host.at = "active" => hooked
      BY <1>1 DEF StagesInv
    <3>2. opening' = opening /\ hooked' = hooked /\ host'.at = host.at
      BY <2>1
    <3> QED
      BY ONLY <3>1, <3>2, Zenon
  <2>4. opening'.at # "open" => /\ inTurn'.at = "none" /\ ~session'.closed /\ ~hooked'
                                /\ \A e \in standing' : ~e.late
    <3>1. opening.at # "open" => inTurn.at = "none" /\ ~session.closed /\ ~hooked
      BY <1>1 DEF StagesInv
    <3>2. opening' = opening /\ hooked' = hooked /\ inTurn' = inTurn /\ session' = session
      BY <2>1
    <3>3. opening'.at # "open" => inTurn'.at = "none" /\ ~session'.closed /\ ~hooked'
      BY ONLY <3>1, <3>2, Zenon
    <3>4. opening'.at # "open" => \A e \in standing' : ~e.late
      BY <3>2
    <3> QED
      BY ONLY <3>3, <3>4, Zenon
  <2>5. /\ ~session'.closed => session'.close = "none" /\ ending'.at = "no"
        /\ session'.close = "draining" => ending'.at = "no"
        /\ ending'.at # "no" => inTurn'.at = "none"
        /\ ending'.at = "over" => host'.at \in {"none", "closed"}
        /\ ending'.report # "none" => ending'.at = "over"
        /\ session'.cleanup = "clean" => ending'.report = "clean"
        /\ childSession' = "open" => inTurn'.at = "child"
        /\ inTurn'.at = "closing child" => childSession' = "closing"
    BY <1>1, <2>1 DEF StagesInv
  <2>6. ending'.report = "clean" => ~ending'.failed /\ ~host'.failed
    BY <1>1, <2>1 DEF StagesInv
  <2> QED
    BY <2>2, <2>3, <2>4, <2>5, <2>6 DEF StagesInv
<1> QED
  BY <1>1, <1>2, <1>3, BackendKept, ClientsKept DEF LifeInv

\* A plugin is imported and activated, when those it requires are.
LEMMA ActivateStep ==
  ASSUME LifeInv, NEW p \in Plugins, Activate(p)
  PROVE  LifeInv'
<1> DEFINE module == Held(p, "module", "", FALSE)
<1>1. /\ LifeTypes /\ PluginsInv /\ StagesInv /\ NamesInv /\ opening.at = "loading" /\ host.activating = {}
      /\ p \in host.listed \ host.loaded /\ Requires[p] \subseteq host.loaded
      /\ standing' = standing \cup {module} /\ basis' = basis \cup {module}
      /\ UNCHANGED <<coding, opening, registry, hooked, client_vars, backend, run_vars, ending, session>>
  BY DEF LifeInv, Activate
<1>2. host.at = "active"
  BY <1>1 DEF StagesInv
<1>3. module \in Holding /\ module.plugin = p /\ module.what = "module" /\ module.late = FALSE
  BY DEF Holding, Held
<1>4. host' = [at |-> "active", listed |-> host.listed, loaded |-> host.loaded, activating |-> {p},
               cleanups |-> Append(host.cleanups, module), failed |-> host.failed]
  BY <1>1, <1>2, LifeShape DEF Activate
<1> HIDE DEF module
<1>5. /\ \A q \in host.loaded : Requires[q] \subseteq host.loaded
      /\ \A e \in Owed : e.plugin \in host.loaded
  BY <1>1, <1>2 DEF PluginsInv
<1>6. module \notin Owed
  BY <1>1, <1>3, <1>5
<1>7. PluginsInv' /\ HostTypes'
  BY <1>1, <1>2, <1>3, <1>4, <1>5, <1>6, OwedMore, LifeShape
<1>8. NamesInv'
  BY <1>1, <1>4, NamesMore, LifeShape
<1>9. \A e \in standing' : ~e.late
  BY <1>1, <1>3, NotOpen
<1>10. host'.at = host.at /\ host'.failed = host.failed
  BY <1>2, <1>4
<1> QED
  BY <1>1, <1>7, <1>8, <1>9, <1>10, PluginStep

\* A plugin registers something.
LEMMA RegisterStep ==
  ASSUME LifeInv, NEW p \in Plugins, NEW what \in RegisteredKinds, NEW name \in PluginToolNames, Register(p, what, name)
  PROVE  LifeInv'
<1> DEFINE late == p \notin host.activating
           entry == Held(p, what, name, late)
<1>1. /\ LifeTypes /\ PluginsInv /\ StagesInv /\ NamesInv /\ host.at = "active"
      /\ late => p \in host.loaded /\ inTurn.at # "none"
      /\ ~\E e \in standing : e.what = what /\ e.name = name
      /\ standing' = standing \cup {entry}
      /\ basis' = (IF late THEN basis ELSE basis \cup {entry})
      /\ UNCHANGED <<coding, opening, registry, hooked, client_vars, backend, run_vars, ending, session>>
  BY DEF LifeInv, Register
<1>2. entry \in Holding /\ entry.plugin = p /\ entry.what = what /\ entry.name = name /\ entry.late = late
  BY DEF Holding, Held
<1>3. host' = [at |-> "active", listed |-> host.listed, loaded |-> host.loaded, activating |-> host.activating,
               cleanups |-> Append(host.cleanups, entry), failed |-> host.failed]
  BY <1>1, LifeShape DEF Register, Owes
<1>4. what # "effect"
  BY LifetimesAssumption
<1>5. /\ standing = Owed /\ host.activating \subseteq host.listed \ host.loaded
      /\ \A q, r \in host.activating : q = r
      /\ \A q \in host.loaded \cup host.activating : Requires[q] \subseteq host.loaded
      /\ \A e \in Owed : e.plugin \in host.loaded \/ (e.plugin \in host.activating /\ e.what # "effect")
  BY <1>1 DEF PluginsInv
<1>6. late <=> p \notin host.activating
  OBVIOUS
<1> HIDE DEF late, entry
<1>7. entry \notin Owed
  BY <1>1, <1>2, <1>5
<1>8. Requires[entry.plugin] \subseteq host.loaded
  BY <1>1, <1>2, <1>5, <1>6
<1>9. basis' = basis \/ (basis' = basis \cup {entry} /\ entry.plugin \notin host.loaded)
  BY <1>1, <1>2, <1>5, <1>6
<1>10. \A e \in Owed \cup {entry} : e.plugin \in host.loaded \/ (e.plugin \in host.activating /\ e.what # "effect")
  BY <1>1, <1>2, <1>4, <1>5, <1>6
<1>11. PluginsInv' /\ HostTypes'
  <2>1. host.loaded \in SUBSET Plugins /\ host.activating \in SUBSET Plugins
    BY <1>1, LifeShape
  <2> QED
    BY <1>1, <1>2, <1>3, <1>5, <1>7, <1>8, <1>9, <1>10, <2>1, OwedMore
<1>12. NamesInv'
  BY <1>1, <1>3, NamesMore, LifeShape
<1>13. opening.at # "open" => ~late /\ \A e \in standing' : ~e.late
  BY <1>1, <1>2, NotOpen
<1>14. host'.at = host.at /\ host'.failed = host.failed /\ (host'.activating # {} => opening.at = "loading")
  BY <1>1, <1>3 DEF StagesInv
<1> QED
  BY <1>1, <1>11, <1>12, <1>13, <1>14, PluginStep

\* An activation ends.
LEMMA ActivationEndsStep ==
  ASSUME LifeInv, NEW p \in Plugins, NEW disposer \in BOOLEAN, ActivationEnds(p, disposer)
  PROVE  LifeInv'
<1> DEFINE entry == Held(p, "effect", "", FALSE)
<1>1. /\ LifeTypes /\ PluginsInv /\ StagesInv /\ NamesInv /\ host.activating = {p}
      /\ standing' = (IF disposer THEN standing \cup {entry} ELSE standing)
      /\ basis' = (IF disposer THEN basis \cup {entry} ELSE basis)
      /\ UNCHANGED <<coding, opening, registry, hooked, client_vars, backend, run_vars, ending, session>>
  BY DEF LifeInv, ActivationEnds
<1>2. opening.at = "loading" /\ host.at = "active"
  BY <1>1 DEF StagesInv
<1>3. entry \in Holding /\ entry.plugin = p /\ entry.what = "effect" /\ entry.late = FALSE
  BY DEF Holding, Held
<1>4. host' = [at |-> "active", listed |-> host.listed, loaded |-> host.loaded \cup {p}, activating |-> {},
               cleanups |-> IF disposer THEN Append(host.cleanups, entry) ELSE host.cleanups, failed |-> host.failed]
  BY <1>1, <1>2, LifeShape DEF ActivationEnds
<1> HIDE DEF entry
<1>5. /\ standing = Owed /\ p \in host.listed \ host.loaded
      /\ \A q \in host.loaded \cup {p} : Requires[q] \subseteq host.loaded
      /\ \A e \in Owed : e.plugin \in host.loaded \/ (e.plugin = p /\ e.what # "effect")
  BY <1>1, <1>2 DEF PluginsInv
<1>6. PluginsInv' /\ HostTypes' /\ NamesInv'
  <2>1. CASE disposer
    <3>1. host' = [at |-> "active", listed |-> host.listed, loaded |-> host.loaded \cup {p}, activating |-> {},
                   cleanups |-> Append(host.cleanups, entry), failed |-> host.failed]
      BY <1>4, <2>1
    <3>2. entry \notin Owed
      BY <1>3, <1>5
    <3>3. host.loaded \cup {p} \in SUBSET Plugins
      BY <1>1, LifeShape
    <3>4. \A e \in Owed \cup {entry} : e.plugin \in host.loaded \cup {p}
      BY <1>3, <1>5
    <3>5. \A q \in (host.loaded \cup {p}) \cup {} : Requires[q] \subseteq host.loaded \cup {p}
      BY <1>5
    <3>6. PluginsInv' /\ HostTypes'
      BY <1>1, <1>2, <1>3, <1>5, <2>1, <3>1, <3>2, <3>3, <3>4, <3>5, OwedMore
    <3> QED
      BY <1>1, <3>1, <3>6, NamesMore, LifeShape
  <2>2. CASE ~disposer
    <3>1. /\ host'.at = "active" /\ host'.listed = host.listed /\ host'.loaded = host.loaded \cup {p}
          /\ host'.activating = {} /\ host'.cleanups = host.cleanups /\ host'.failed = host.failed
          /\ standing' = standing /\ basis' = basis /\ Owed' = Owed
      BY <1>1, <1>4, <2>2 DEF Owed
    <3>2. \A q \in host'.loaded \cup host'.activating : Requires[q] \subseteq host'.loaded
      BY <1>5, <3>1
    <3>3. PluginsInv'
      BY <1>1, <1>2, <1>5, <3>1, <3>2 DEF PluginsInv
    <3>4. host' \in [at : {"none", "active", "closing", "closed"}, listed : SUBSET Plugins, loaded : SUBSET Plugins,
                     activating : SUBSET Plugins, cleanups : Seq(Holding), failed : BOOLEAN]
      BY <1>1, <1>4, <2>2, LifeShape
    <3>5. HostTypes'
      BY <1>1, <3>4 DEF LifeTypes, HostTypes
    <3>6. NamesInv'
      BY <1>1, <3>1 DEF NamesInv, Held
    <3> QED
      BY <3>3, <3>5, <3>6
  <2> QED
    BY <2>1, <2>2
<1>7. host'.at = host.at /\ host'.failed = host.failed /\ host'.activating = {}
  BY <1>2, <1>4
<1>8. \A e \in standing' : ~e.late
  BY <1>1, <1>2, <1>3, NotOpen
<1> QED
  BY <1>1, <1>6, <1>7, <1>8, PluginStep

\* An activation fails: the opening is undone.
LEMMA ActivationFailsStep == ASSUME LifeInv, ActivationFails PROVE LifeInv'
<1>1. /\ LifeTypes /\ PluginsInv /\ StagesInv /\ BackendInv /\ ClientsInv /\ NamesInv /\ host.activating # {}
      /\ UNCHANGED <<coding, standing, registry, hooked, basis, client_vars, backend, run_vars, ending, session>>
  BY DEF LifeInv, ActivationFails
<1>2. opening.at = "loading" /\ host.at = "active"
  BY <1>1 DEF StagesInv
<1>3. opening' = [at |-> "unloading", clients |-> opening.clients, unsure |-> opening.unsure, cut |-> opening.cut]
  BY <1>1, LifeShape DEF ActivationFails
<1>4. host' = [at |-> "closing", listed |-> host.listed, loaded |-> host.loaded, activating |-> {},
               cleanups |-> host.cleanups, failed |-> host.failed]
  BY <1>1, LifeShape DEF ActivationFails
<1>5. PluginsInv' /\ HostTypes' /\ host'.at = "closing" /\ host'.activating = {}
  BY <1>1, <1>2, <1>4, HostCloses, LifeShape
<1>6. UNCHANGED <<coding, standing, hooked, registry, inTurn, childSession, ending, session, modelClients, wired, candidates,
                  astray, backend>>
  BY <1>1 DEF client_vars, run_vars
<1>7. OpenTypes'
  <2>1. backend' \in {"none", "open", "closed"}
    BY <1>1 DEF LifeTypes, OpenTypes
  <2> QED
    BY <1>1, <1>3, <2>1, OpeningTypes, LifeShape
<1>8. LifeTypes'
  BY <1>1, <1>5, <1>6, <1>7, ClientTypesKept, RunTypesKept DEF LifeTypes
<1>9. opening'.at = "unloading"
  BY <1>3
<1>10. StagesInv'
  BY <1>1, <1>2, <1>5, <1>6, <1>9, OpeningStages
<1>11. NamesInv'
  BY <1>1, <1>2, <1>6, <1>9, NamesOpening
<1>12. BackendInv'
  BY <1>1, <1>2, <1>6, <1>9, NotOpen DEF BackendInv
<1>13. ClientsInv'
  BY <1>1, <1>2, <1>6, <1>9 DEF ClientsInv, OpenClients
<1> QED
  BY <1>5, <1>8, <1>10, <1>11, <1>12, <1>13 DEF LifeInv

\* The host disposes of the latest of what it owes, on which nothing rests any more.
LEMMA DisposeStep ==
  ASSUME LifeInv, NEW succeeds \in BOOLEAN, DisposeNext(succeeds)
  PROVE  LifeInv'
<1> DEFINE m == Len(host.cleanups)
           entry == host.cleanups[m]
           released == entry.what # "effect" \/ succeeds
<1>1. /\ LifeTypes /\ PluginsInv /\ StagesInv /\ BackendInv /\ ClientsInv /\ NamesInv
      /\ host.at = "closing" /\ host.cleanups # <<>>
      /\ UNCHANGED <<coding, opening, hooked, basis, client_vars, backend, run_vars, ending, session>>
      /\ standing' = (IF released THEN standing \ {entry} ELSE standing)
      /\ registry' = IF entry.what = "tool" /\ ~entry.late /\ registry[entry.name] = entry.plugin
                     THEN [registry EXCEPT ![entry.name] = "none"] ELSE registry
  BY DEF LifeInv, DisposeNext, Last
<1>2. /\ host.cleanups \in Seq(Holding) /\ m \in Nat /\ m >= 1 /\ DOMAIN host.cleanups = 1 .. m
  BY <1>1, LifeShape
<1>3. host' = [at |-> "closing", listed |-> host.listed, loaded |-> host.loaded, activating |-> host.activating,
               cleanups |-> SubSeq(host.cleanups, 1, m - 1), failed |-> (host.failed \/ ~released)]
  BY <1>1, LifeShape DEF DisposeNext, Front, Last
<1>4. entry \in Holding /\ entry = [plugin |-> entry.plugin, what |-> entry.what, name |-> entry.name, late |-> entry.late]
      /\ entry.plugin \in Plugins
  <2>1. entry \in Holding
    BY <1>2
  <2> HIDE DEF m, entry, released
  <2> QED
    BY <2>1 DEF Holding
<1>5. released \in BOOLEAN
  OBVIOUS
<1>6. \A i \in 1 .. m : host.cleanups[i] = entry => i = m
  BY <1>1, <1>2 DEF PluginsInv
<1>7. host.cleanups[m] = entry
  OBVIOUS
<1> HIDE DEF m, entry, released
<1>8. /\ host'.at = "closing" /\ host'.activating = {} /\ host'.failed = (host.failed \/ ~released)
      /\ host'.cleanups \in Seq(Holding) /\ DOMAIN host'.cleanups = 1 .. m - 1
      /\ \A i \in 1 .. m - 1 : host'.cleanups[i] = host.cleanups[i]
  <2>1. host.activating = {}
    BY <1>1 DEF PluginsInv
  <2> QED
    BY <1>2, <1>3, <2>1
<1>9. Owed = {host.cleanups[i] : i \in 1 .. m} /\ Owed' = {host.cleanups[i] : i \in 1 .. m - 1}
  BY <1>2, <1>8 DEF Owed
<1>10. \A e \in Owed : e # entry => e \in Owed'
  BY <1>2, <1>7, <1>9
<1>11. PluginsInv'
  <2>1. standing' \subseteq Owed' \/ host'.failed
    <3>1. CASE released
      BY <1>1, <1>8, <1>10, <3>1 DEF PluginsInv
    <3>2. CASE ~released
      BY <1>8, <3>2
    <3> QED
      BY <3>1, <3>2
  <2>2. \A i, j \in DOMAIN host'.cleanups : host'.cleanups[i] = host'.cleanups[j] => i = j
    BY <1>1, <1>2, <1>8 DEF PluginsInv
  <2>3. ASSUME NEW i \in DOMAIN host'.cleanups, NEW e \in basis', e.plugin \in Requires[host'.cleanups[i].plugin]
        PROVE  e \in standing' /\ \E j \in 1 .. i - 1 : host'.cleanups[j] = e
    <3>1. i \in 1 .. m - 1 /\ i \in 1 .. m /\ host'.cleanups[i] = host.cleanups[i] /\ e \in basis
      BY <1>1, <1>2, <1>8, <2>3
    <3>2. e \in standing /\ \E j \in 1 .. i - 1 : host.cleanups[j] = e
      BY <1>1, <1>2, <2>3, <3>1 DEF PluginsInv
    <3>3. PICK j \in 1 .. i - 1 : host.cleanups[j] = e
      BY <3>2
    <3>4. j \in 1 .. m - 1 /\ j \in 1 .. m /\ j # m
      BY <1>2, <3>1
    <3>5. e # entry /\ host'.cleanups[j] = e
      BY <1>6, <1>8, <3>3, <3>4
    <3> QED
      BY <1>1, <3>2, <3>5
  <2> QED
    BY <1>8, <2>1, <2>2, <2>3 DEF PluginsInv
<1>12. registry \in [PluginToolNames -> Plugins \cup {"none", "own"}]
  BY <1>1 DEF LifeTypes, HostTypes
<1>13. registry' \in [PluginToolNames -> Plugins \cup {"none", "own"}]
       /\ \A n \in PluginToolNames :
            \/ registry'[n] = registry[n]
            \/ registry'[n] = "none" /\ registry[n] = entry.plugin
  BY <1>1, <1>12
<1>14. HostTypes'
  <2>1. (host.failed \/ ~released) \in BOOLEAN
    OBVIOUS
  <2>2. host' \in [at : {"none", "active", "closing", "closed"}, listed : SUBSET Plugins, loaded : SUBSET Plugins,
                   activating : SUBSET Plugins, cleanups : Seq(Holding), failed : BOOLEAN]
    <3>1. SubSeq(host.cleanups, 1, m - 1) \in Seq(Holding)
      BY <1>2
    <3> QED
      BY <1>1, <1>3, <2>1, <3>1, LifeShape
  <2> QED
    BY <1>1, <1>13, <2>2 DEF LifeTypes, HostTypes
<1>15. NamesInv'
  <2>1. "none" \notin Plugins /\ "own" \notin Plugins /\ OwnNames \subseteq PluginToolNames
    BY LifetimesAssumption
  <2>2. ASSUME NEW n \in PluginToolNames, registry'[n] \in Plugins
        PROVE  \E i \in DOMAIN host'.cleanups : host'.cleanups[i] = Held(registry'[n], "tool", n, FALSE)
    <3>1. registry'[n] = registry[n]
      BY <1>13, <2>1, <2>2
    <3>2. PICK i \in 1 .. m : host.cleanups[i] = Held(registry[n], "tool", n, FALSE)
      BY <1>1, <1>2, <2>2, <3>1 DEF NamesInv
    <3>3. i # m
      <4>1. ASSUME i = m PROVE FALSE
        <5>1. entry.what = "tool" /\ ~entry.late /\ entry.name = n /\ entry.plugin = registry[n]
          BY <1>7, <3>2, <4>1 DEF Held
        <5>2. registry'[n] = "none"
          BY <1>1, <1>12, <5>1
        <5> QED
          BY <2>1, <2>2, <5>2
      <4> QED
        BY <4>1
    <3>4. i \in 1 .. m - 1
      BY <1>2, <3>2, <3>3
    <3> QED
      BY <1>8, <3>1, <3>2, <3>4
  <2>3. opening'.at # "open" => \A n \in PluginToolNames : registry'[n] = "none"
    BY <1>1, <1>13 DEF NamesInv
  <2>4. opening'.at = "open" /\ coding' => \A n \in OwnNames : registry'[n] = "own"
    BY <1>1, <1>4, <1>13, <2>1 DEF NamesInv
  <2> QED
    BY <2>2, <2>3, <2>4 DEF NamesInv
<1>16. UNCHANGED <<inTurn, childSession, modelClients, wired, candidates, astray>>
  BY <1>1 DEF client_vars, run_vars
<1>17. LifeTypes'
  BY <1>1, <1>14, <1>16, OpenTypesKept, ClientTypesKept, RunTypesKept DEF LifeTypes
<1>18. ending.report # "clean" /\ standing' \subseteq standing
  BY <1>1 DEF StagesInv
<1>19. StagesInv'
  BY <1>1, <1>8, <1>16, <1>18 DEF StagesInv
<1> QED
  BY <1>1, <1>11, <1>15, <1>16, <1>17, <1>19, BackendKept, ClientsKept DEF LifeInv

\* It has disposed of all of it.
LEMMA HostClosedStep == ASSUME LifeInv, HostClosed PROVE LifeInv'
<1>1. /\ LifeTypes /\ PluginsInv /\ StagesInv /\ BackendInv /\ ClientsInv /\ NamesInv
      /\ host.at = "closing" /\ host.cleanups = <<>> /\ hooked' = FALSE
      /\ UNCHANGED <<coding, opening, standing, registry, basis, client_vars, backend, run_vars, ending, session>>
  BY DEF LifeInv, HostClosed
<1>2. host' = [at |-> "closed", listed |-> host.listed, loaded |-> host.loaded, activating |-> host.activating,
               cleanups |-> host.cleanups, failed |-> host.failed]
  BY <1>1, LifeShape DEF HostClosed
<1>3. /\ host'.at = "closed" /\ host'.activating = {} /\ host'.cleanups = host.cleanups /\ host'.failed = host.failed
      /\ Owed' = Owed
  BY <1>1, <1>2 DEF PluginsInv, Owed
<1>4. PluginsInv'
  BY <1>1, <1>3 DEF PluginsInv
<1>5. HostTypes'
  <2>1. host' \in [at : {"none", "active", "closing", "closed"}, listed : SUBSET Plugins, loaded : SUBSET Plugins,
                   activating : SUBSET Plugins, cleanups : Seq(Holding), failed : BOOLEAN]
    BY <1>1, <1>2, LifeShape
  <2> QED
    BY <1>1, <2>1 DEF LifeTypes, HostTypes
<1>6. UNCHANGED <<inTurn, childSession, modelClients, wired, candidates, astray>>
  BY <1>1 DEF client_vars, run_vars
<1>7. LifeTypes'
  BY <1>1, <1>5, <1>6, OpenTypesKept, ClientTypesKept, RunTypesKept DEF LifeTypes
<1>8. StagesInv'
  BY <1>1, <1>3, <1>6 DEF StagesInv
<1>9. NamesInv'
  BY <1>1, <1>3 DEF NamesInv, Held
<1> QED
  BY <1>1, <1>4, <1>6, <1>7, <1>8, <1>9, BackendKept, ClientsKept DEF LifeInv

\* The beginning of a session.
LEMMA LifeStart == ASSUME LifeInit PROVE LifeInv
<1>1. MaxClients \in Nat
  BY LifetimesAssumption
<1>2. /\ opening = [at |-> "none", clients |-> {}, unsure |-> FALSE, cut |-> FALSE]
      /\ host = [at |-> "none", listed |-> {}, loaded |-> {}, activating |-> {}, cleanups |-> <<>>, failed |-> FALSE]
      /\ wired = [main |-> 0, router |-> 0, others |-> {}] /\ inTurn = [at |-> "none", cancel |-> FALSE]
      /\ ending = [at |-> "no", todo |-> {}, failed |-> FALSE, report |-> "none"]
      /\ session = [closed |-> FALSE, close |-> "none", cleanup |-> "none"]
      /\ standing = {} /\ basis = {} /\ hooked = FALSE /\ candidates = {} /\ backend = "none" /\ childSession = "none"
      /\ registry = [n \in PluginToolNames |-> "none"] /\ modelClients = [c \in 1 .. MaxClients |-> "none"]
      /\ coding \in BOOLEAN
  BY DEF LifeInit
<1>3. LifeTypes
  <2>1. OpenTypes
    BY <1>2 DEF OpenTypes
  <2>2. HostTypes
    <3>1. <<>> \in Seq(Holding)
      OBVIOUS
    <3>2. host \in [at : {"none", "active", "closing", "closed"}, listed : SUBSET Plugins, loaded : SUBSET Plugins,
                    activating : SUBSET Plugins, cleanups : Seq(Holding), failed : BOOLEAN]
      BY <1>2, <3>1
    <3> QED
      BY <1>2, <3>2 DEF HostTypes
  <2>3. ClientTypes
    BY <1>1, <1>2 DEF ClientTypes
  <2>4. RunTypes
    BY <1>2 DEF RunTypes
  <2> QED
    BY <2>1, <2>2, <2>3, <2>4 DEF LifeTypes
<1>4. host.cleanups = <<>> /\ DOMAIN host.cleanups = {} /\ host.at = "none" /\ host.activating = {} /\ host.loaded = {} /\ ~host.failed
  BY <1>2
<1>5. PluginsInv
  BY <1>2, <1>4 DEF PluginsInv, Owed
<1>6. StagesInv
  BY <1>2, <1>4 DEF StagesInv
<1>7. BackendInv /\ ClientsInv
  BY <1>1, <1>2 DEF BackendInv, ClientsInv, OpenClients
<1>8. NamesInv
  <2>1. "none" \notin Plugins
    BY LifetimesAssumption
  <2> QED
    BY <1>2, <2>1 DEF NamesInv
<1> QED
  BY <1>3, <1>5, <1>6, <1>7, <1>8 DEF LifeInv

\* What the invariant says of a session, to its owner.
LEMMA ScopesFollow == ASSUME LifeInv PROVE ScopesEnd
<1>1. LifeTypes /\ PluginsInv /\ StagesInv /\ BackendInv /\ ClientsInv /\ NamesInv
  BY DEF LifeInv
<1>2. host.cleanups = <<>> => Owed = {} /\ \A n \in PluginToolNames : registry[n] \in {"none", "own"}
  <2>1. registry \in [PluginToolNames -> Plugins \cup {"none", "own"}]
    BY <1>1 DEF LifeTypes, HostTypes
  <2> QED
    BY <1>1, <2>1 DEF Owed, NamesInv
<1>3. CleanIsTrue
  <2>1. SUFFICES ASSUME session.cleanup = "clean"
                 PROVE  /\ inTurn.at = "none" /\ childSession # "open" /\ ~hooked
                        /\ OpenClients \subseteq astray \cup candidates
                        /\ backend # "open" /\ standing = {} /\ \A n \in PluginToolNames : registry[n] \in {"none", "own"}
    BY DEF CleanIsTrue
  <2>2. ending.report = "clean" /\ ending.at = "over" /\ ~ending.failed /\ ~host.failed /\ host.at \in {"none", "closed"}
    BY <1>1, <2>1 DEF StagesInv
  <2>3. opening.at = "open" /\ inTurn.at = "none" /\ childSession # "open" /\ ~hooked
    BY <1>1, <2>2 DEF StagesInv
  <2>4. host.cleanups = <<>> /\ standing \subseteq Owed
    BY <1>1, <2>2 DEF PluginsInv
  <2>5. OpenClients \subseteq astray \cup candidates /\ backend # "open"
    BY <1>1, <2>2, <2>3 DEF ClientsInv, BackendInv
  <2> QED
    BY <1>2, <2>3, <2>4, <2>5
<1>4. FailedOpenIsUndone
  <2>1. SUFFICES ASSUME opening.at = "failed", host.at # "closing"
                 PROVE  /\ standing = {} \/ host.failed
                        /\ (OpenClients = {} /\ backend # "open") \/ opening.unsure \/ opening.cut
    BY DEF FailedOpenIsUndone
  <2>2. host.at \in {"none", "closed"}
    BY <1>1, <2>1 DEF StagesInv
  <2>3. host.cleanups = <<>> /\ (standing \subseteq Owed \/ host.failed)
    BY <1>1, <2>2 DEF PluginsInv
  <2> QED
    BY <1>1, <1>2, <2>1, <2>3 DEF ClientsInv, BackendInv
<1>5. UsedIsOpen
  <2>1. SUFFICES ASSUME inTurn.at # "none"
                 PROVE  /\ {wired.main, wired.router} \ {0} \subseteq OpenClients
                        /\ coding => backend = "open"
                        /\ host.at \in {"none", "active"} /\ hooked = (host.at = "active")
    BY DEF UsedIsOpen
  <2>2. opening.at = "open" /\ ending.at = "no"
    BY <1>1, <2>1 DEF StagesInv
  <2>3. host.at \in {"none", "active"} /\ hooked = (host.at = "active")
    BY <1>1, <2>2 DEF StagesInv, LifeTypes, HostTypes
  <2> QED
    BY <1>1, <2>2, <2>3 DEF ClientsInv, BackendInv
<1>6. DependentsFirst
  BY <1>1 DEF DependentsFirst, PluginsInv, NamesInv
<1> QED
  BY <1>3, <1>4, <1>5, <1>6 DEF ScopesEnd

\* Every step of a session keeps the invariant.
LEMMA LifeStep == ASSUME LifeInv, [LifeNext]_life_vars PROVE LifeInv'
<1>1. CASE UNCHANGED life_vars
  <2>1. UNCHANGED <<coding, opening, host, standing, registry, hooked, modelClients, wired, candidates, backend, inTurn,
                    childSession, ending, session, basis, astray>>
    BY <1>1 DEF life_vars
  <2>2. UNCHANGED <<host_vars, run_vars>>
    BY <2>1, <1>1 DEF life_vars, host_vars, run_vars
  <2>3. ClientTypes' /\ ClientsInv'
    BY <2>1, ClientTypesKept, ClientsKept DEF LifeInv, LifeTypes
  <2> QED
    BY <2>1, <2>2, <2>3, ClientStep
<1>2. CASE CloseStep
  <2>1. PICK succeeds \in BOOLEAN, result \in {"clean", "unknown", "raised"} :
          \/ DisposeNext(succeeds) \/ UnwindClient(succeeds) \/ UnwindBackend(succeeds)
          \/ CandidateClosed(succeeds) \/ ChildClosed(succeeds)
          \/ EndSession(succeeds) \/ CloseClient(succeeds) \/ CloseBackend(result)
    BY <1>2 DEF CloseStep
  <2> QED
    BY <2>1, DisposeStep, UnwindClientStep, UnwindBackendStep, CandidateStep, HarnessTurnSteps, EndSessionStep,
       CloseClientStep, CloseBackendStep
<1>3. CASE OtherStep
  <2>1. CASE \E p \in Plugins :
               \/ Activate(p) \/ \E disposer \in BOOLEAN : ActivationEnds(p, disposer)
               \/ \E what \in RegisteredKinds, name \in PluginToolNames : Register(p, what, name)
    BY <2>1, ActivateStep, ActivationEndsStep, RegisterStep
  <2>2. CASE (\E listed \in SUBSET Plugins : OpenHarness(listed)) \/ \E n \in 0 .. 2 : AssemblyFails(n)
    BY <2>2, OpenStep, AssemblyFailsStep
  <2>3. CASE \E fresh \in FreshClients : SelectModelOf(fresh) \/ SelectionFails(fresh)
    BY <2>3, SelectStep, SelectFailsStep
  <2>4. CASE CutOpening
    <3>1. opening.at \in {"unwinding", "unloading"}
      BY <2>4 DEF CutOpening
    <3> QED
      BY <2>4, <3>1, CutStep, StageSteps
  <2>5. CASE ActivationFails \/ PluginsLoaded \/ HostClosed \/ ConfigurationFails \/ BackendOpens \/ BindingsFail \/ Assemble \/ Unloaded
    BY <2>5, ActivationFailsStep, StageSteps, HostClosedStep, EarlyFailures, AssembleStep
  <2>6. CASE BeginHarnessTurn \/ EndHarnessTurn \/ CancelHarnessTurn \/ StartChild \/ ChildEnds \/ LeaveChild
    BY <2>6, HarnessTurnSteps
  <2>7. CASE MakeRoleClient \/ CloseSession \/ Drained \/ CutClose \/ ClosePlugins \/ CloseReturns
    BY <2>7, RoleClientStep, CloserSteps, ClosePluginsStep
  <2> QED
    BY <1>3, <2>1, <2>2, <2>3, <2>4, <2>5, <2>6, <2>7 DEF OtherStep
<1> QED
  BY <1>1, <1>2, <1>3 DEF LifeNext

\* What a session of the harness opened ends with it: a clean report of its close is true, an opening that failed
\* is undone, no turn runs on what is closed, and dependents are disposed of first (HarnessSession.open and close,
\* Conversation.runtime_close, PluginHost).
THEOREM ScopesEnded == LifeSpec => []ScopesEnd
<1>1. LifeInit => LifeInv
  BY LifeStart
<1>2. LifeInv /\ [LifeNext]_life_vars => LifeInv'
  BY LifeStep
<1>3. LifeInv => ScopesEnd
  BY ScopesFollow
<1> QED
  BY <1>1, <1>2, <1>3, PTL DEF LifeSpec

=============================================================================
