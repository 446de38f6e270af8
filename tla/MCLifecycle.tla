----------------------------- MODULE MCLifecycle -----------------------------
(* An instance of Lifecycle for TLC.                                       *)
EXTENDS Lifecycle

CONSTANTS w1, w2

TwoWorkers == {w1, w2}

=============================================================================
