----------------------------- MODULE DurableLog -----------------------------
(***************************************************************************)
(* What a session journal promises its readers (forge/sessions/store.py):  *)
(* a log of distinct entries that only grows at its end, a prefix of which *)
(* is acknowledged and never changes again.  Only the unacknowledged end   *)
(* may be lost, when the machine stops.                                    *)
(***************************************************************************)
EXTENDS Naturals, Sequences

CONSTANT Entries  \* what the log may hold

VARIABLES
  log,      \* the entries, oldest first
  durable   \* length of the acknowledged prefix

Init == log = <<>> /\ durable = 0

\* One writer adds one entry that was never in the log.
Add ==
  /\ \E entry \in Entries \ {log[i] : i \in 1 .. Len(log)} : log' = Append(log, entry)
  /\ UNCHANGED durable

\* A writer learns that its entry, the last one, is durable; so is all before it.
Confirm ==
  /\ durable < Len(log)
  /\ durable' = Len(log)
  /\ UNCHANGED log

\* The machine stops.
Lose ==
  /\ \E n \in durable .. Len(log) : log' = SubSeq(log, 1, n)
  /\ UNCHANGED durable

Next == Add \/ Confirm \/ Lose
Spec == Init /\ [][Next]_<<log, durable>>

=============================================================================
