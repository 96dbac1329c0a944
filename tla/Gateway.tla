------------------------------- MODULE Gateway -------------------------------
(***************************************************************************)
(* The gateway of a chat platform (forge/channels/gateway.py, with the     *)
(* adapter of forge/channels/feishu.py): a message is reserved in a log,   *)
(* waits for the lock of its chat, runs as a turn of the chat's session   *)
(* and gets one reply; a write of the turn asks the sender for approval    *)
(* through a card.                                                         *)
(*                                                                         *)
(* The platform delivers a message once or several times. A chat here is a *)
(* session key: chat and thread.                                           *)
(***************************************************************************)
EXTENDS Naturals, Sequences, FiniteSets, SequencesExt, Functions

CONSTANTS
  Messages,     \* accepted messages that the platform delivers
  ChatOf,       \* the chat of each
  SenderOf,     \* and its sender
  People,       \* who may press a button
  KeptEntries,  \* maximum_entries of the log
  MaxTurns,     \* bound: turns of a message
  MaxAsks,      \* bound: cards, all of one message
  MaxStops      \* bound: ends of the gateway and failures of writes

ASSUME GatewayAssumption ==
  /\ DOMAIN ChatOf = Messages /\ DOMAIN SenderOf = Messages /\ "broken" \notin Messages
  /\ KeptEntries \in Nat \ {0} /\ MaxTurns \in Nat /\ MaxAsks \in Nat /\ MaxStops \in Nat

VARIABLES
  log,          \* lines of channel-events.log: messages, or broken ones
  torn,         \* the last line has no end
  known,        \* DurableEventDeduplicator._order in memory
  index,        \* channel-sessions.json
  mapping,      \* ChannelSessionIndex._mapping
  runtimes,     \* ChannelGateway._runtimes: the session of each chat that has a runtime
  locks,        \* per chat: messages that hold or await its lock, in order
  asking,       \* per message: the approval that its turn awaits (0 for none)
  cards,        \* cards that were sent: message and number
  sessions,     \* history: number of sessions
  asked,        \* history: approvals of each message
  ran,         \* history: the sessions in which each message ran
  ended,        \* history: how many of them are over
  approved,     \* history: approvals that allowed a write: message, number, who
  lost,         \* history: messages whose line of the log was lost, chats whose entry of the index was
  stops         \* history: number of stops

gateway_log == <<log, torn, known>>
gateway_index == <<index, mapping, sessions>>
gateway_vars ==
  <<gateway_log, gateway_index, runtimes, locks, asking, cards, asked, ran, ended, approved, lost, stops>>

Chats == Range(ChatOf)
Holds(m) == locks[ChatOf[m]] # <<>> /\ Head(locks[ChatOf[m]]) = m
Running(m) == Holds(m) /\ ran[m] # <<>> /\ ended[m] < Len(ran[m])

GatewayInit ==
  /\ log = <<>> /\ torn = FALSE /\ known = <<>>
  /\ index = [c \in Chats |-> 0] /\ mapping = index /\ sessions = 0
  /\ runtimes = [c \in Chats |-> 0] /\ locks = [c \in Chats |-> <<>>]
  /\ asking = [m \in Messages |-> 0] /\ cards = {} /\ asked = [m \in Messages |-> 0]
  /\ ran = [m \in Messages |-> <<>>] /\ ended = [m \in Messages |-> 0]
  /\ approved = {} /\ lost = {} /\ stops = 0

(***************************************************************************)
(* The log. A line is appended and remembered; beyond the maximum the log  *)
(* is written anew with the newest lines.                                  *)
(***************************************************************************)
Newest(lines) == SubSeq(lines, IF Len(lines) > KeptEntries THEN Len(lines) - KeptEntries + 1 ELSE 1, Len(lines))

\* What a new process reads: a broken line is no message, yet takes its place. (Two broken lines
\* are never the same text here.)
Loaded(lines) == Newest(lines)

\* A line behind one without an end is part of it.
Appended(m) == IF torn THEN [log EXCEPT ![Len(log)] = "broken"] ELSE Append(log, m)

FreshAlways(m) == TRUE

Fresh(m) == m \notin Range(known)

Deliver(m) ==
  LET order == Append(known, m)
      full == Len(order) > KeptEntries IN
  /\ Fresh(m) /\ Len(ran[m]) < MaxTurns /\ Len(locks[ChatOf[m]]) < MaxTurns
  /\ known' = Newest(order)
  /\ log' = IF full THEN Newest(order) ELSE Appended(m)
  /\ torn' = FALSE
  /\ lost' = lost \union (IF full THEN {Head(order)} ELSE IF torn THEN {m} ELSE {})
  /\ locks' = [locks EXCEPT ![ChatOf[m]] = Append(@, m)]
  /\ UNCHANGED <<gateway_index, runtimes, asking, cards, asked, ran, ended, approved, stops>>

(***************************************************************************)
(* A message with the lock: the runtime of its chat is there, or is opened *)
(* with the session of the index and entered there.                        *)
(***************************************************************************)
IndexWritten(m) == [mapping EXCEPT ![ChatOf[m]] = runtimes'[ChatOf[m]]]

Begins(m) == Holds(m) /\ (ran[m] = <<>> \/ ended[m] = Len(ran[m]))

StartRun(m) ==
  LET c == ChatOf[m] IN
  /\ Begins(m)
  /\ IF runtimes[c] # 0 THEN UNCHANGED <<runtimes, gateway_index>>
     ELSE /\ sessions' = IF mapping[c] = 0 THEN sessions + 1 ELSE sessions
          /\ runtimes' = [runtimes EXCEPT ![c] = IF mapping[c] = 0 THEN sessions' ELSE mapping[c]]
          /\ mapping' = IndexWritten(m) /\ index' = mapping'
  /\ ran' = [ran EXCEPT ![m] = Append(@, runtimes'[c])]
  /\ UNCHANGED <<gateway_log, locks, asking, cards, asked, ended, approved, lost, stops>>

\* The index cannot be written: the message has no turn and no reply, the runtime stays.
StartRunFails(m) ==
  LET c == ChatOf[m] IN
  /\ Begins(m) /\ runtimes[c] = 0 /\ stops < MaxStops
  /\ sessions' = IF mapping[c] = 0 THEN sessions + 1 ELSE sessions
  /\ runtimes' = [runtimes EXCEPT ![c] = IF mapping[c] = 0 THEN sessions' ELSE mapping[c]]
  /\ mapping' = IndexWritten(m)
  /\ lost' = lost \union {c}
  /\ locks' = [locks EXCEPT ![c] = Tail(@)]
  /\ stops' = stops + 1
  /\ UNCHANGED <<gateway_log, index, asking, cards, asked, ran, ended, approved>>

(***************************************************************************)
(* ApprovalBroker. A card is bound to one request and to its sender; a     *)
(* press counts while the request waits.                                   *)
(***************************************************************************)
Ask(m) ==
  /\ Running(m) /\ asking[m] = 0
  /\ Cardinality(cards) < MaxAsks /\ \A card \in cards : card.message = m
  /\ asked' = [asked EXCEPT ![m] = @ + 1]
  /\ asking' = [asking EXCEPT ![m] = asked'[m]]
  /\ cards' = cards \union {[message |-> m, number |-> asked'[m], run |-> Len(ran[m])]}
  /\ UNCHANGED <<gateway_log, gateway_index, runtimes, locks, ran, ended, approved, lost, stops>>

Waits(card) == asking[card.message] = card.number

Press(card, person, approves) ==
  /\ Waits(card) /\ person = SenderOf[card.message]
  /\ asking' = [asking EXCEPT ![card.message] = 0]
  /\ approved' = IF approves THEN approved \union {[card |-> card, by |-> person, run |-> Len(ran[card.message])]} ELSE approved
  /\ UNCHANGED <<gateway_log, gateway_index, runtimes, locks, cards, asked, ran, ended, lost, stops>>

\* The wait ends by its time, or the card could not be sent: the write is denied.
AskEnds(m) ==
  /\ asking[m] # 0
  /\ asking' = [asking EXCEPT ![m] = 0]
  /\ UNCHANGED <<gateway_log, gateway_index, runtimes, locks, cards, asked, ran, ended, approved, lost, stops>>

\* The turn ends, also by an error; its text is sent, if there is one, and the lock is free.
EndRun(m) ==
  /\ Running(m) /\ asking[m] = 0
  /\ ended' = [ended EXCEPT ![m] = Len(ran[m])]
  /\ locks' = [locks EXCEPT ![ChatOf[m]] = Tail(@)]
  /\ UNCHANGED <<gateway_log, gateway_index, runtimes, asking, cards, asked, ran, approved, lost, stops>>

\* The gateway ends, at any moment, perhaps in the middle of an append, and starts again. A line
\* that is there for nothing may be one too many for the oldest.
GatewayRestarts(m, partly) ==
  /\ stops < MaxStops /\ stops' = stops + 1
  /\ IF partly THEN Fresh(m) /\ log' = Append(log, "broken") /\ torn' = TRUE /\ ~torn
     ELSE UNCHANGED <<log, torn>>
  /\ known' = Loaded(log') /\ lost' = lost \union (Range(log') \ Range(known'))
  /\ mapping' = index
  /\ runtimes' = [c \in Chats |-> 0] /\ locks' = [c \in Chats |-> <<>>]
  /\ asking' = [n \in Messages |-> 0]
  /\ ended' = [n \in Messages |-> Len(ran[n])]
  /\ UNCHANGED <<index, sessions, cards, asked, ran, approved>>

GatewayNext ==
  \/ \E m \in Messages :
       \/ Deliver(m) \/ StartRun(m) \/ StartRunFails(m) \/ Ask(m) \/ AskEnds(m)
       \/ EndRun(m)
       \/ \E partly \in BOOLEAN : GatewayRestarts(m, partly)
  \/ \E card \in cards, person \in People, approves \in BOOLEAN : Press(card, person, approves)

GatewaySpec == GatewayInit /\ [][GatewayNext]_gateway_vars

(***************************************************************************)
(* What the people of a chat can rely on.                                  *)
(***************************************************************************)

\* However often the platform repeats a message and the gateway is started again: a message has at
\* most one turn (save one that the log forgot by its limit, or whose line fell to a torn one); all
\* messages of a chat go to one session and no other chat's do (save a chat whose entry could not
\* be written); and an approval comes from the sender, for the turn that asked
\* (DurableEventDeduplicator, ChannelSessionIndex, ApprovalBroker).
OneTurnOneSession ==
  /\ \A m \in Messages \ lost : Len(ran[m]) <= 1
  /\ \A m, n \in Messages : \A r \in Range(ran[m]), s \in Range(ran[n]) :
       /\ ChatOf[m] = ChatOf[n] /\ ChatOf[m] \notin lost => r = s
       /\ r = s => ChatOf[m] = ChatOf[n]
  /\ \A a \in approved : a.by = SenderOf[a.card.message] /\ a.run = a.card.run
=============================================================================
