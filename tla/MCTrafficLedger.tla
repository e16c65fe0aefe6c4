-------------------------- MODULE MCTrafficLedger --------------------------
(* Instances of TrafficLedger for TLC.                                     *)
EXTENDS TrafficLedger, TLC

CONSTANTS r1, r2, c1, c2, z1, u1, u2

\* One user for every chunk, or one user for each.
OneUser == [c \in Chunk |-> u1]
TwoUsers == [c \in Chunk |-> IF c = c1 THEN u1 ELSE u2]

\* Runners are interchangeable.
RunnerSymmetry == Permutations(Runner)
=============================================================================
