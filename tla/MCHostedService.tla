--------------------------- MODULE MCHostedService ---------------------------
(***************************************************************************)
(* An instance of HostedService for TLC.  on_start() of the COM worker     *)
(* does nothing, and what its object throws is a std::exception.           *)
(***************************************************************************)
EXTENDS HostedService

ComFaults == {"session", "construct", "dispatch", "thread", "run", "on_stop"}

=============================================================================
