------------------------- MODULE MCExecutableWorker -------------------------
(***************************************************************************)
(* An instance of ExecutableWorker for TLC: the worker's two handles and a *)
(* third value for the other threads of the process.                       *)
(***************************************************************************)
EXTENDS ExecutableWorker

CONSTANTS h1, h2, h3

HandleValues == {h1, h2, h3}

=============================================================================
