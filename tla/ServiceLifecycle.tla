-------------------------- MODULE ServiceLifecycle --------------------------
(***************************************************************************)
(* What a hosted service promises to the Service Control Manager (SCM),    *)
(* independently of the threads that keep the promise.  Two things are     *)
(* visible: the state the SCM holds for the service, and how far the       *)
(* user's code (the worker's on_start and run) has got.                    *)
(*                                                                         *)
(*  - the SCM state only moves forward, and SERVICE_STOPPED is final;      *)
(*  - SERVICE_RUNNING is announced only after on_start has returned, and   *)
(*    run is entered only after that announcement;                         *)
(*  - SERVICE_STOPPED is announced only when no user code is executing.    *)
(***************************************************************************)

VARIABLES
  visible,   \* the service state the SCM holds
  work       \* progress of the user's code

vars == <<visible, work>>

Alive == {"SERVICE_START_PENDING", "SERVICE_RUNNING", "SERVICE_STOP_PENDING"}

\* "ABORTED" is the SCM's own conclusion when the process is gone although
\* the service never reported SERVICE_STOPPED.
Visible == Alive \cup {"SERVICE_STOPPED", "ABORTED"}

Work == {"none", "starting", "ready", "running", "over"}

TypeOK ==
  /\ visible \in Visible
  /\ work \in Work

Init ==
  /\ visible = "SERVICE_START_PENDING"
  /\ work = "none"

-----------------------------------------------------------------------------
(* The user's code. *)

BeginStart ==
  /\ work = "none"
  /\ work' = "starting"
  /\ UNCHANGED visible

FinishStart ==
  /\ work = "starting"
  /\ work' = "ready"
  /\ UNCHANGED visible

BeginRun ==
  /\ work = "ready"
  /\ visible # "SERVICE_START_PENDING"
  /\ work' = "running"
  /\ UNCHANGED visible

\* The run ends, or the service is given up before it.
EndWork ==
  /\ work # "over"
  /\ work' = "over"
  /\ UNCHANGED visible

-----------------------------------------------------------------------------
(* The announcements. *)

AnnounceRunning ==
  /\ visible = "SERVICE_START_PENDING"
  /\ work = "ready"
  /\ visible' = "SERVICE_RUNNING"
  /\ UNCHANGED work

AnnounceStopPending ==
  /\ visible = "SERVICE_RUNNING"
  /\ visible' = "SERVICE_STOP_PENDING"
  /\ UNCHANGED work

AnnounceStopped ==
  /\ visible \in Alive
  /\ work = "over"
  /\ visible' = "SERVICE_STOPPED"
  /\ UNCHANGED work

ProcessLost ==
  /\ visible \in Alive
  /\ visible' = "ABORTED"
  /\ UNCHANGED work

Next ==
  \/ BeginStart
  \/ FinishStart
  \/ BeginRun
  \/ EndWork
  \/ AnnounceRunning
  \/ AnnounceStopPending
  \/ AnnounceStopped
  \/ ProcessLost

Spec == Init /\ [][Next]_vars

=============================================================================
