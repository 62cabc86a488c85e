------------------------- MODULE MCExecutableService -------------------------
(***************************************************************************)
(* An instance of ExecutableService for TLC.  No other thread of the       *)
(* process opens handles here, so two values are enough.                   *)
(***************************************************************************)
EXTENDS ExecutableService

CONSTANTS h1, h2

HandleValues == {h1, h2}

StartFaults == {"construct", "on_start", "thread"}

=============================================================================
