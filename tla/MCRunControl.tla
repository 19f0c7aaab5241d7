---------------------------- MODULE MCRunControl ----------------------------
(* The instances of RunControl that TLC checks; the .cfg files choose.     *)
EXTENDS RunControl, TLC

CONSTANTS r1, r2, c1, c2, s1, s2

RunnersMC     == {r1}
TwoRunners    == {r1, r2}
NoActors      == {}
OneCaller     == {c1}
TwoCallers    == {c1, c2}
OneSuspension == {s1}
TwoSuspensions == {s1, s2}

RunnerSymmetry == Permutations({r1, r2})

PauseSigint  == {"pause", "defer", "resume", "sigint"}
InterruptOps == {"abort", "halt", "stop"}
PauseOps     == {"pause", "resume"}
PauseOnly    == {"pause"}
PauseAbort   == {"pause", "abort"}
SigintOps    == {"sigint"}
NoOps        == {}
=============================================================================
