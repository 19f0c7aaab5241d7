----------------------------- MODULE PlanLedger -----------------------------
(***************************************************************************)
(* What the queue server promises about items, whatever its threads do: an *)
(* item is pending until a worker starts it or a client withdraws it, one  *)
(* item runs at a time, and an item that was started is either recorded as *)
(* done or belonged to a worker that was stopped by force ("orphan").      *)
(***************************************************************************)
CONSTANT LedgerItems
VARIABLE stage

Stages == {"none", "pending", "running", "orphan", "done", "gone"}

LedgerInit == stage = [i \in LedgerItems |-> "none"]

InStage(s) == {i \in LedgerItems : stage[i] = s}

\* The items of S, all in stage `from`, go to stage `to`.
Moves(S, from, to) ==
  /\ S # {} /\ S \subseteq InStage(from)
  /\ stage' = [i \in LedgerItems |-> IF i \in S THEN to ELSE stage[i]]

Submit   == \E S \in SUBSET InStage("none") : Moves(S, "none", "pending")
Withdraw == \E S \in SUBSET InStage("pending") : Moves(S, "pending", "gone")
Replace  == \E i, j \in LedgerItems :
              /\ stage[i] = "pending" /\ stage[j] = "none"
              /\ stage' = [stage EXCEPT ![i] = "gone", ![j] = "pending"]

\* An item is started from the queue, or executed directly.
Start  == /\ InStage("running") = {}
          /\ \E i \in LedgerItems, from \in {"none", "pending"} : Moves({i}, from, "running")
Finish == \E i \in LedgerItems, from \in {"running", "orphan"} : Moves({i}, from, "done")
Repeat == \E i \in LedgerItems : Moves({i}, "done", "pending")

\* A worker stopped by force may still start, finish or lose an item.
Force  == \E i \in LedgerItems, from \in {"pending", "running"} : Moves({i}, from, "orphan")
Lose   == \E i \in LedgerItems : Moves({i}, "orphan", "gone")

LedgerNext == Submit \/ Withdraw \/ Replace \/ Start \/ Finish \/ Repeat \/ Force \/ Lose

LedgerSpec == LedgerInit /\ [][LedgerNext]_stage
=============================================================================
