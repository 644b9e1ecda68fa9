------------------------ MODULE MCAppRunScheduler ------------------------
(* Instances of AppRunScheduler for TLC.                                   *)
EXTENDS AppRunScheduler, TLC

CONSTANTS w1, w2, w3

OneLoop == {w1}
TwoLoops == {w1, w2}
OneOnce == {w3}

\* Polling workers are interchangeable in safety runs.
LoopSymmetry == Permutations(LoopWorkers)

=============================================================================
