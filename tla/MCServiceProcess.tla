-------------------------- MODULE MCServiceProcess --------------------------
(***************************************************************************)
(* Instances of ServiceProcess for TLC, and the claims of the repository's *)
(* documentation that the threads of service_process.cpp do not keep.      *)
(***************************************************************************)
EXTENDS ServiceProcess

BothModes == BOOLEAN

StandaloneOnly == {TRUE}

NoFaults == {}

StartFaults == {"construct", "on_start"}

RunFaults == {"run"}

-----------------------------------------------------------------------------
(* Claims. *)

\* README.md:242-243: on_stop() lets run() "stop gracefully", after which
\* report_stopped() says "The service has stopped." (service_process.cpp:81).
\* Every stop that reaches the handler is completed by SERVICE_STOPPED.
StopCompletes == pc["handler"] = "on_stop" ~> scm.dwCurrentState = "SERVICE_STOPPED"

\* README.md:379: throwing from the user's code is "expected" and handled by the
\* hosting system.  An exception thrown by the user's run() does not end the process.
NoCrash == process # "crashed"

=============================================================================
