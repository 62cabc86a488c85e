-------------------------- MODULE ExecutableWorker --------------------------
(***************************************************************************)
(* workers/executable_service_worker.cpp: a worker that wraps a child      *)
(* process.  Three threads use the object: the one that starts the service *)
(* calls on_start(), the worker's thread calls run(), and the control      *)
(* handler calls on_stop() at any time after on_start(), at most once      *)
(* (ServiceProcess: StopNeverTooEarly, AtMostOneStop).  The destructor     *)
(* calls on_stop() once more.                                              *)
(*                                                                         *)
(* Nothing protects the two handles: on_stop() reads them while run()      *)
(* closes them, and Windows hands a closed handle's value out again, to    *)
(* any thread of the process that opens something (OtherThreads).          *)
(*                                                                         *)
(* An operator named X_Y is X with a plausible slip Y in it; no action     *)
(* uses it.                                                                *)
(***************************************************************************)
EXTENDS Naturals

CONSTANTS
  Handle,         \* the values a handle of this process can have
  NoHandle,       \* the null handle
  PostQuitModes,  \* the values of post_quit_message to consider
  OtherThreads    \* TRUE: other threads of the process open handles as well

ASSUME HandleAssumption ==
  NoHandle \notin Handle /\ \E h, k \in Handle : h # k
ASSUME ModesAssumption ==
  PostQuitModes \subseteq BOOLEAN /\ PostQuitModes # {} /\ OtherThreads \in BOOLEAN

VARIABLES
  post_quit_message,
  wrapped_thread_,
  wrapped_process_,
  object,     \* what each handle value refers to
  child,      \* the wrapped process
  queue,      \* its main thread has a message queue
  quit,       \* WM_QUIT is in that queue
  starter,    \* progress of on_start()
  runner,     \* progress of run()
  stopper,    \* progress of the handler's on_stop()
  victim,     \* the handle on_stop() has read
  old,        \* the handle a reset() of run() gives up
  left,       \* the parts of that reset() still to be done
  destroyed

vars == <<post_quit_message, wrapped_thread_, wrapped_process_, object, child, queue,
          quit, starter, runner, stopper, victim, old, left, destroyed>>

Init ==
  /\ post_quit_message \in PostQuitModes
  /\ wrapped_thread_ = NoHandle
  /\ wrapped_process_ = NoHandle
  /\ object = [h \in Handle |-> "none"]
  /\ child = "none"
  /\ queue = FALSE
  /\ quit = FALSE
  /\ starter = "idle"
  /\ runner = "idle"
  /\ stopper = "idle"
  /\ victim = NoHandle
  /\ old = NoHandle
  /\ left = {}
  /\ destroyed = FALSE

childVars == <<child, queue, quit>>
handleVars == <<wrapped_thread_, wrapped_process_, object>>
runVars == <<runner, old, left>>
stopVars == <<stopper, victim>>
config == <<post_quit_message, destroyed>>

-----------------------------------------------------------------------------
(* on_start() *)

OnStart_OneHandle ==
  /\ starter = "idle"
  /\ starter' = "started"
  /\ child' = "running"
  /\ \E h \in Handle :
       /\ object[h] = "none"
       /\ wrapped_thread_' = h
       /\ wrapped_process_' = h
       /\ object' = [object EXCEPT ![h] = "child"]
  /\ UNCHANGED <<queue, quit, runVars, stopVars, config>>

OnStart ==
  /\ starter = "idle"
  /\ \/ /\ \E hThread, hProcess \in Handle :
             /\ hThread # hProcess
             /\ object[hThread] = "none"
             /\ object[hProcess] = "none"
             /\ wrapped_thread_' = hThread
             /\ wrapped_process_' = hProcess
             /\ object' = [object EXCEPT ![hThread] = "thread", ![hProcess] = "child"]
        /\ child' = "running"
        /\ starter' = "started"
     \/ /\ starter' = "failed"            \* CreateProcessW failed
        /\ UNCHANGED <<handleVars, child>>
  /\ UNCHANGED <<queue, quit, runVars, stopVars, config>>

-----------------------------------------------------------------------------
(* run() *)

Run ==
  /\ starter = "started"
  /\ runner = "idle"
  /\ runner' = "waiting"
  /\ UNCHANGED <<old, left, starter, handleVars, childVars, stopVars, config>>

\* WaitForSingleObject with INFINITE, if there is something to wait for; then
\* wrapped_thread_.reset() begins.
WaitChild_Signalled ==
  /\ runner = "waiting"
  /\ runner' = "reset_thread"
  /\ old' = wrapped_thread_
  /\ left' = {"clear", "close"}
  /\ UNCHANGED <<starter, handleVars, childVars, stopVars, config>>

WaitChild ==
  /\ runner = "waiting"
  /\ wrapped_process_ # NoHandle => child = "exited"
  /\ runner' = "reset_thread"
  /\ old' = wrapped_thread_
  /\ left' = {"clear", "close"}
  /\ UNCHANGED <<starter, handleVars, childVars, stopVars, config>>

\* The two effects of a reset(), in either order.
ClearHandle ==
  /\ "clear" \in left
  /\ left' = left \ {"clear"}
  /\ \/ /\ runner = "reset_thread"
        /\ wrapped_thread_' = NoHandle
        /\ UNCHANGED wrapped_process_
     \/ /\ runner = "reset_process"
        /\ wrapped_process_' = NoHandle
        /\ UNCHANGED wrapped_thread_
  /\ UNCHANGED <<object, runner, old, starter, childVars, stopVars, config>>

CloseOldHandle ==
  /\ "close" \in left
  /\ left' = left \ {"close"}
  /\ object' = IF old = NoHandle THEN object ELSE [object EXCEPT ![old] = "none"]
  /\ UNCHANGED <<wrapped_thread_, wrapped_process_, runner, old, starter, childVars,
                 stopVars, config>>

NextReset ==
  /\ left = {}
  /\ \/ /\ runner = "reset_thread"
        /\ runner' = "reset_process"
        /\ old' = wrapped_process_
        /\ left' = {"clear", "close"}
     \/ /\ runner = "reset_process"
        /\ runner' = "returned"
        /\ old' = NoHandle
        /\ UNCHANGED left
  /\ UNCHANGED <<starter, handleVars, childVars, stopVars, config>>

\* run_business could not create the worker's thread: run() is never called.
NeverRun ==
  /\ starter = "started"
  /\ runner = "idle"
  /\ runner' = "never"
  /\ UNCHANGED <<old, left, starter, handleVars, childVars, stopVars, config>>

-----------------------------------------------------------------------------
(* on_stop() *)

\* The handle h refers to an object of the given kind.
RefersTo(h, kind) == h # NoHandle /\ object[h] = kind

CheckProcess ==
  /\ starter = "started"
  /\ ~destroyed
  /\ stopper = "idle"
  /\ stopper' = IF wrapped_process_ = NoHandle THEN "done" ELSE "read"
  /\ UNCHANGED <<victim, starter, handleVars, childVars, runVars, config>>

ReadHandle_Swapped ==
  /\ stopper = "read"
  /\ victim' = IF post_quit_message THEN wrapped_process_ ELSE wrapped_thread_
  /\ stopper' = "strike"
  /\ UNCHANGED <<starter, handleVars, childVars, runVars, config>>

ReadHandle ==
  /\ stopper = "read"
  /\ victim' = IF post_quit_message THEN wrapped_thread_ ELSE wrapped_process_
  /\ stopper' = "strike"
  /\ UNCHANGED <<starter, handleVars, childVars, runVars, config>>

StrikeVictim_Closes ==
  /\ stopper = "strike"
  /\ child' = IF ~post_quit_message /\ RefersTo(victim, "child") THEN "exited" ELSE child
  /\ stopper' = IF post_quit_message /\ RefersTo(victim, "thread") THEN "post" ELSE "done"
  /\ object' = IF victim = NoHandle THEN object ELSE [object EXCEPT ![victim] = "none"]
  /\ UNCHANGED <<wrapped_thread_, wrapped_process_, victim, starter, queue, quit, runVars, config>>

\* TerminateProcess, or GetThreadId: what is done with the handle.  Without the id of
\* the child's thread there is nothing to post to.  No result is looked at.
StrikeVictim ==
  /\ stopper = "strike"
  /\ child' = IF ~post_quit_message /\ RefersTo(victim, "child") THEN "exited" ELSE child
  /\ stopper' = IF post_quit_message /\ RefersTo(victim, "thread") THEN "post" ELSE "done"
  /\ UNCHANGED <<victim, starter, queue, quit, handleVars, runVars, config>>

\* PostThreadMessageW: the id needs no handle any more, but a living thread, and one
\* that has a message queue.
PostQuit ==
  /\ stopper = "post"
  /\ quit' = (quit \/ (child = "running" /\ queue))
  /\ stopper' = "done"
  /\ UNCHANGED <<victim, starter, child, queue, handleVars, runVars, config>>

\* The destructor, when the process goes and nobody else uses the worker: its
\* on_stop(), then the handles are closed.
Destroy_OnlyCloses ==
  /\ runner \in {"never", "returned"}
  /\ stopper \in {"idle", "done"}
  /\ ~destroyed
  /\ destroyed' = TRUE
  /\ UNCHANGED <<post_quit_message, starter, childVars, handleVars, runVars, stopVars>>

Destroy ==
  /\ runner \in {"never", "returned"}
  /\ stopper \in {"idle", "done"}
  /\ ~destroyed
  /\ destroyed' = TRUE
  /\ child' = IF ~post_quit_message /\ RefersTo(wrapped_process_, "child") THEN "exited" ELSE child
  /\ quit' = (quit \/ (/\ post_quit_message
                       /\ wrapped_process_ # NoHandle
                       /\ RefersTo(wrapped_thread_, "thread")
                       /\ child = "running"
                       /\ queue))
  /\ wrapped_thread_' = NoHandle
  /\ wrapped_process_' = NoHandle
  /\ object' = [h \in Handle |->
                  IF h \in {wrapped_thread_, wrapped_process_} THEN "none" ELSE object[h]]
  /\ UNCHANGED <<post_quit_message, starter, queue, runVars, stopVars>>

-----------------------------------------------------------------------------
(* The surroundings: the child, and the other threads of this process. *)

ChildMakesQueue ==
  /\ child = "running"
  /\ queue' = TRUE
  /\ UNCHANGED <<child, quit, starter, handleVars, runVars, stopVars, config>>

ChildExits ==
  /\ child = "running"
  /\ child' = "exited"
  /\ UNCHANGED <<queue, quit, starter, handleVars, runVars, stopVars, config>>

ForeignOpen ==
  /\ OtherThreads
  /\ \E h \in Handle :
       /\ object[h] = "none"
       /\ object' = [object EXCEPT ![h] = "foreign"]
  /\ UNCHANGED <<wrapped_thread_, wrapped_process_, starter, childVars, runVars, stopVars, config>>

ForeignClose ==
  /\ \E h \in Handle :
       /\ object[h] = "foreign"
       /\ object' = [object EXCEPT ![h] = "none"]
  /\ UNCHANGED <<wrapped_thread_, wrapped_process_, starter, childVars, runVars, stopVars, config>>

Next ==
  \/ OnStart
  \/ Run
  \/ WaitChild
  \/ ClearHandle
  \/ CloseOldHandle
  \/ NextReset
  \/ NeverRun
  \/ CheckProcess
  \/ ReadHandle
  \/ StrikeVictim
  \/ PostQuit
  \/ Destroy
  \/ ChildMakesQueue
  \/ ChildExits
  \/ ForeignOpen
  \/ ForeignClose

Spec == Init /\ [][Next]_vars

\* The threads inside on_stop() and run() are scheduled, run() is called unless
\* it never is, and a child that finds WM_QUIT in its queue exits.  A child need
\* not exit by itself.
Fairness ==
  /\ WF_vars(Run \/ NeverRun)
  /\ WF_vars(WaitChild \/ ClearHandle \/ CloseOldHandle \/ NextReset)
  /\ WF_vars(ReadHandle \/ StrikeVictim \/ PostQuit)
  /\ WF_vars(quit /\ ChildExits)

FairSpec == Spec /\ Fairness

-----------------------------------------------------------------------------
(* Properties. *)

TypeOK ==
  /\ post_quit_message \in BOOLEAN
  /\ {wrapped_thread_, wrapped_process_, victim, old} \subseteq Handle \cup {NoHandle}
  /\ wrapped_thread_ = wrapped_process_ => wrapped_thread_ = NoHandle
  /\ object \in [Handle -> {"none", "child", "thread", "foreign"}]
  /\ child \in {"none", "running", "exited"}
  /\ queue \in BOOLEAN
  /\ quit \in BOOLEAN
  /\ starter \in {"idle", "started", "failed"}
  /\ runner \in {"idle", "waiting", "reset_thread", "reset_process", "returned", "never"}
  /\ stopper \in {"idle", "read", "strike", "post", "done"}
  /\ left \subseteq {"clear", "close"}
  /\ destroyed \in BOOLEAN

\* run() returns, and SERVICE_STOPPED follows, only after the child has exited.
RunOutlastsChild ==
  runner \in {"reset_thread", "reset_process", "returned"} => child = "exited"

\* A handle of the child's is in the hands of another owner, or of nobody, only
\* when the child is gone: a stop that strikes a stale handle was too late anyway.
StrikesOwnChildOrTooLate ==
  [][StrikeVictim =>
       \/ child = "exited"
       \/ victim # NoHandle /\ object[victim] = (IF post_quit_message THEN "thread" ELSE "child")]_vars

\* run() closes handles the worker owns, never a value Windows has handed out
\* again, whatever on_stop() does at the same time.
ClosesOnlyItsOwn ==
  [][CloseOldHandle => old # NoHandle /\ object[old] \in {"thread", "child"}]_vars

\* A worker whose run() never began still takes its child with it.
DestroyedLeavesNoChild ==
  destroyed /\ ~post_quit_message => child = "exited"

\* Without post_quit_message a stop ends run(), wherever run() is.
TerminateEndsRun ==
  (~post_quit_message /\ stopper = "read") ~> runner \in {"returned", "never"}

\* With it a stop ends run() if the child already has a message queue.
QuitEndsRun ==
  (post_quit_message /\ queue /\ stopper = "read") ~> runner \in {"returned", "never"}

=============================================================================
