----------------------------- MODULE EventStream -----------------------------
(***************************************************************************)
(* The way of an event: from the journal of a turn into the event store    *)
(* (JournalProjector in forge/engine/journal_projection.py, driven by      *)
(* execute_turn in forge/application/services.py and by the recovery), and *)
(* from the store to a client, in batches that it acknowledges             *)
(* (EventStream in forge/engine/event_stream.py, RpcServer._events).       *)
(*                                                                         *)
(* Of an event its scope and its source are kept. The client is no part of *)
(* the program: it keeps the cursor of the last batch it took, and takes   *)
(* up again from there.                                                    *)
(***************************************************************************)
EXTENDS Naturals, Sequences, FiniteSets

CONSTANTS
  EventScopes,  \* scopes of the events the engine itself writes
  JournalScope, \* the session of the journal
  Watched,      \* the scope of the subscription, or "all"
  BatchEvents,  \* events in a batch
  BatchScan,    \* rows that one batch looks at
  MaxRecords,   \* bound: records of the journal
  MaxEngine,    \* bound: events of the engine
  MaxBreaks     \* bound: lost connections, restarts, failed projections, expired cursors

ASSUME StreamAssumption ==
  /\ BatchEvents \in Nat \ {0} /\ BatchScan \in Nat \ {0}
  /\ MaxRecords \in Nat /\ MaxEngine \in Nat /\ MaxBreaks \in Nat

VARIABLES
  journal,      \* number of durable records; their sequences are 1, 2, ...
  captured,     \* capture_appends: records of the running turn that wait for the projection
  live,         \* a turn runs and its appends are captured
  offset,       \* projection_offsets of the journal
  store,        \* the events in order of store_seq: scope, and sequence in the journal or 0
  subscription, \* the engine's side: scanned, acked, pending
  wire,         \* batches on their way to the client, by cursor
  acks,         \* acknowledgements on their way back
  client,       \* external: connected, cursor taken, events received since base
  breaks        \* history: number of breaks

journal_side == <<journal, captured, live, offset, store>>
client_side == <<subscription, wire, acks, client>>
stream_vars == <<journal_side, client_side, breaks>>

Open == [open |-> TRUE, scanned |-> 0, acked |-> 0, pending |-> 0]
NoSubscription == [Open EXCEPT !.open = FALSE]

StreamInit ==
  /\ journal = 0 /\ captured = <<>> /\ live = FALSE /\ offset = 0 /\ store = <<>>
  /\ subscription = NoSubscription /\ wire = <<>> /\ acks = {}
  /\ client = [connected |-> FALSE, cursor |-> 0, base |-> 0, valid |-> FALSE, got |-> <<>>]
  /\ breaks = 0

Break == breaks < MaxBreaks /\ breaks' = breaks + 1

(***************************************************************************)
(* The projection. A record is inserted once: one that the offset covers   *)
(* is only compared, one that leaves a gap is refused. All of it is one    *)
(* transaction.                                                            *)
(***************************************************************************)
Inserted(state, n) ==
  IF state.refused \/ n <= state.offset THEN state
  ELSE IF n # state.offset + 1 THEN [state EXCEPT !.refused = TRUE]
  ELSE [state EXCEPT !.offset = n, !.store = Append(@, [scope |-> JournalScope, record |-> n])]

\* after[i] is what the first i records make of the store and its offset.
Projection(records) ==
  LET after[i \in 0 .. Len(records)] ==
        IF i = 0 THEN [refused |-> FALSE, offset |-> offset, store |-> store]
        ELSE Inserted(after[i - 1], records[i])
  IN  after[Len(records)]

Project(records) ==
  IF Projection(records).refused THEN UNCHANGED <<offset, store>>
  ELSE offset' = Projection(records).offset /\ store' = Projection(records).store

\* The capture begins before what the journal holds is projected; a refusal ends the turn.
BeginJournal(fails) ==
  /\ ~live
  /\ captured' = <<>>
  /\ IF fails THEN Break /\ UNCHANGED <<offset, store, live>>
     ELSE live' = TRUE /\ Project([n \in 1 .. journal |-> n]) /\ UNCHANGED breaks
  /\ UNCHANGED <<journal, client_side>>

AppendRecord ==
  /\ live /\ journal < MaxRecords
  /\ journal' = journal + 1 /\ captured' = Append(captured, journal + 1)
  /\ UNCHANGED <<live, offset, store, client_side, breaks>>

\* project_live; what was captured is forgotten once the transaction is through.
ProjectLive ==
  /\ live /\ captured # <<>>
  /\ Project(captured)
  /\ captured' = IF Projection(captured).refused THEN captured ELSE <<>>
  /\ UNCHANGED <<journal, live, client_side, breaks>>

\* The end of a turn: no capture any more, perhaps a last record, and the journal is projected as a
\* whole, if that succeeds.
EndJournal(late, fails) ==
  /\ live /\ journal + late <= MaxRecords
  /\ live' = FALSE /\ captured' = <<>> /\ journal' = journal + late
  /\ IF fails THEN Break /\ UNCHANGED <<offset, store>>
     ELSE Project([n \in 1 .. journal' |-> n]) /\ UNCHANGED breaks
  /\ UNCHANGED client_side

EngineEvent(scope) ==
  /\ Cardinality({i \in DOMAIN store : store[i].record = 0}) < MaxEngine
  /\ store' = Append(store, [scope |-> scope, record |-> 0])
  /\ UNCHANGED <<journal, captured, live, offset, client_side, breaks>>

(***************************************************************************)
(* The subscription.                                                       *)
(***************************************************************************)
Matches(i) == Watched = "all" \/ store[i].scope = Watched

\* subscribe, with a cursor or, for want of a valid one, from the high watermark with a snapshot.
StartAtHigh(cursor, valid) == Len(store)
StartAt(cursor, valid) == IF valid THEN cursor ELSE Len(store)

Subscribe ==
  LET start == StartAt(client.cursor, client.valid) IN
  /\ ~client.connected
  /\ subscription' = [Open EXCEPT !.scanned = start, !.acked = start]
  /\ client' = [client EXCEPT !.connected = TRUE, !.valid = TRUE,
                  !.cursor = start,
                  !.base = IF client.valid THEN @ ELSE start,
                  !.got = IF client.valid THEN @ ELSE <<>>]
  /\ UNCHANGED <<journal_side, wire, acks, breaks>>

\* The matching rows after from, up to to; kept[n] are those of the first n.
Events(from, to) ==
  LET kept[n \in 0 .. to - from] ==
        IF n = 0 THEN <<>>
        ELSE IF Matches(from + n) THEN Append(kept[n - 1], from + n) ELSE kept[n - 1]
  IN  kept[to - from]

Rows == {i \in subscription.scanned + 1 .. Len(store) : i <= subscription.scanned + BatchScan}
Fits(i) == Len(Events(subscription.scanned, i)) <= BatchEvents

\* next_batch: rows after the last one scanned, until one is too much; a batch without an event
\* only moves on.
NextBatch ==
  /\ subscription.open /\ subscription.pending = 0
  /\ \E i \in Rows :
       LET events == Events(subscription.scanned, i) IN
       /\ Fits(i) /\ (i + 1 \in Rows => ~Fits(i + 1))
       /\ subscription' = [subscription EXCEPT !.scanned = i, !.pending = IF events = <<>> THEN 0 ELSE i]
       /\ wire' = IF events = <<>> THEN wire ELSE Append(wire, [cursor |-> i, events |-> events])
  /\ UNCHANGED <<journal_side, acks, client, breaks>>

\* External: the client takes a batch, keeps its cursor, and says so.
TakeBatch ==
  /\ client.connected /\ wire # <<>>
  /\ client' = [client EXCEPT !.got = @ \o Head(wire).events, !.cursor = Head(wire).cursor]
  /\ acks' = acks \union {Head(wire).cursor}
  /\ wire' = Tail(wire)
  /\ UNCHANGED <<journal_side, subscription, breaks>>

\* ack: a repetition of the last one is answered as well, any other cursor is refused.
Ack(cursor, again) ==
  /\ subscription.open /\ cursor \in acks
  /\ acks' = IF again THEN acks ELSE acks \ {cursor}
  /\ IF cursor # subscription.acked /\ cursor = subscription.pending
     THEN subscription' = [subscription EXCEPT !.acked = cursor, !.pending = 0]
     ELSE UNCHANGED subscription
  /\ UNCHANGED <<journal_side, wire, client, breaks>>

(***************************************************************************)
(* Breaks. The pipe carries a connection of one process: its end is the    *)
(* end of the engine, with all that was on the way.                        *)
(***************************************************************************)
EngineEnds ==
  /\ client.connected \/ live
  /\ Break
  /\ live' = FALSE /\ captured' = <<>>
  /\ subscription' = NoSubscription /\ wire' = <<>> /\ acks' = {}
  /\ client' = [client EXCEPT !.connected = FALSE]
  /\ UNCHANGED <<journal, offset, store>>

CursorExpires ==
  /\ ~client.connected /\ client.valid
  /\ Break
  /\ client' = [client EXCEPT !.valid = FALSE]
  /\ UNCHANGED <<journal_side, subscription, wire, acks>>

StreamNext ==
  \/ \E fails \in BOOLEAN : BeginJournal(fails) \/ \E late \in 0 .. 1 : EndJournal(late, fails)
  \/ AppendRecord \/ ProjectLive
  \/ \E scope \in EventScopes : EngineEvent(scope)
  \/ Subscribe \/ NextBatch \/ TakeBatch
  \/ \E cursor \in acks, again \in BOOLEAN : Ack(cursor, again)
  \/ EngineEnds \/ CursorExpires

StreamSpec == StreamInit /\ [][StreamNext]_stream_vars

(***************************************************************************)
(* What a client can rely on.                                              *)
(***************************************************************************)

\* Whatever was repeated, cut off or projected twice: the store holds the records of the journal up
\* to the offset, each once and in their order, and none that is not durable; and the client has
\* received every matching event after its snapshot up to its cursor, each once and in order
\* (JournalProjector._project, EventStream.subscribe, next_batch, ack).
StreamFaithful ==
  LET projected == {i \in DOMAIN store : store[i].record # 0} IN
  /\ offset <= journal
  /\ {store[i].record : i \in projected} = 1 .. offset
  /\ \A i \in projected : store[i].scope = JournalScope
  /\ \A i, j \in projected : i < j => store[i].record < store[j].record
  /\ \A i, j \in DOMAIN client.got : i < j => client.got[i] < client.got[j]
  /\ {client.got[i] : i \in DOMAIN client.got} = {i \in client.base + 1 .. client.cursor : Matches(i)}
=============================================================================
