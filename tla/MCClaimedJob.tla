---------------------------- MODULE MCClaimedJob ----------------------------
(* ClaimedJob with the values its TLC runs give the parameters. *)
EXTENDS ClaimedJob, TLC

CONSTANTS w1, w2, s1

TwoWorkers == {w1, w2}
OneSession == {s1}

(* Which disturbances a run allows. *)
AllTroubles == TroubleKinds
NoEnqueue == TroubleKinds \ {"enqueue"}

WorkerSymmetry == Permutations(TwoWorkers)
=============================================================================
