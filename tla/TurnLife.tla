------------------------------- MODULE TurnLife -------------------------------
(***************************************************************************)
(* What the engine promises about the turn a client action asks for: it is *)
(* accepted once, started at most once and while no other turn is being    *)
(* executed, and it ends with one outcome, unless its execution is lost.   *)
(* A lost turn is never started again and never given a result.            *)
(***************************************************************************)
CONSTANTS Actions, Outcomes
VARIABLE fate

Fates == {"none", "accepted", "started", "lost"} \cup Outcomes

Init == fate = [a \in Actions |-> "none"]

Move(a, from, to) == fate[a] = from /\ fate' = [fate EXCEPT ![a] = to]

Accept(a) == Move(a, "none", "accepted")

\* Cancelled before it was dispatched.
Withdraw(a) == Move(a, "accepted", "cancelled")

Start(a) ==
  /\ \A b \in Actions : fate[b] # "started"
  /\ Move(a, "accepted", "started")

End(a, outcome) == Move(a, "started", outcome)

Lose(a) == Move(a, "started", "lost")

Next ==
  \E a \in Actions :
    \/ Accept(a) \/ Withdraw(a) \/ Start(a) \/ Lose(a)
    \/ \E outcome \in Outcomes : End(a, outcome)

Spec == Init /\ [][Next]_fate

=============================================================================
