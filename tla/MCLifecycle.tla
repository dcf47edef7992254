------------------------------ MODULE MCLifecycle ------------------------------
(* Lifecycle for TLC: batches larger than what the workers and the channel    *)
(* take together, so that the feeder has to wait.                            *)
EXTENDS Lifecycle, TLC

CONSTANTS wk1, wk2, a, b, c, d, q1

OneWorker == {wk1}
TwoWorkers == {wk1, wk2}
UpToTwoWorkers == {{}, OneWorker, TwoWorkers}
JustOneWorker == {OneWorker}
TwoIds == <<a, b>>
ThreeIds == <<a, b, c>>
FourIds == <<a, b, c, d>>
OneRequest == {q1}
=============================================================================
