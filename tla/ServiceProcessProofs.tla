------------------------ MODULE ServiceProcessProofs ------------------------
(***************************************************************************)
(* Proofs about ServiceProcess, for every choice of its constants.  The    *)
(* argument is one inductive invariant, IInv.                              *)
(***************************************************************************)
EXTENDS ServiceProcess, TLAPS

\* SERVICE_RUNNING has not been handed over.
Early ==
  \/ pc["service"] \in {"idle", "start", "on_start"}
  \/ pc["service"] = "spawn" /\ reporting["service"] # "none"

\* No user code executes any more, and none will.
Over ==
  /\ pc["worker"] \in {"idle", "exited"}
  /\ \/ pc["worker"] = "exited"
     \/ pc["service"] = "threw"
     \/ pc["service"] = "idle" /\ pc["main"] \in {"catch", "done"}

\* Where the threads are relative to each other.
Progress ==
  /\ pc["main"] \in {"session", "init", "construct", "run"} => pc["service"] = "idle"
  /\ pc["main"] = "catch" => pc["service"] \in {"idle", "threw"}
  /\ pc["service"] \in {"start", "on_start", "spawn"} => pc["main"] \in {"dispatching", "starting"}
  /\ pc["main"] = "run" \/ pc["service"] # "idle" => worker_ = "held"
  /\ pc["service"] \notin {"idle", "start"} => status_handle_ = "valid"
  /\ pc["service"] \in {"idle", "start", "on_start", "spawn"} => pc["worker"] = "idle"
  /\ pc["service"] \in {"idle", "start", "on_start", "spawn", "register"} =>
       pc["callback"] = "idle"
  /\ pc["worker"] \in {"enter", "running", "leaving"} =>
       pc["service"] \in {"register", "wait", "join"}
  /\ pc["service"] = "returned" => pc["worker"] = "exited"
  /\ pc["service"] = "threw" => pc["worker"] \in {"idle", "exited"}
  /\ pc["callback"] = "fired" => pc["worker"] = "exited"
  /\ Early => pc["handler"] = "idle"
  /\ pc["main"] = "done" => Over

\* Which state a thread may be reporting, and where it is when it does.
ReportedBy ==
  /\ \A t \in Threads : reporting[t] = "none" => unwritten[t] = {}
  /\ reporting["worker"] = "none"
  /\ reporting["main"] # "none" =>
       /\ reporting["main"] = "SERVICE_STOPPED"
       /\ pc["main"] = "done"
       /\ pc["service"] \in {"idle", "threw"}
  /\ reporting["service"] # "none" =>
       \/ reporting["service"] = "SERVICE_START_PENDING" /\ pc["service"] = "on_start"
       \/ reporting["service"] = "SERVICE_RUNNING" /\ pc["service"] = "spawn"
       \/ reporting["service"] = "SERVICE_STOPPED" /\ pc["service"] = "returned"
  /\ reporting["handler"] # "none" =>
       reporting["handler"] = "SERVICE_STOP_PENDING" /\ pc["handler"] = "on_stop"
  /\ reporting["callback"] # "none" =>
       reporting["callback"] = "SERVICE_STOPPED" /\ pc["callback"] = "fired"

\* Until the handler joins in, what a report has written is still there.
Written ==
  pc["handler"] = "idle" => \A t \in Threads : reporting[t] # "none" =>
    /\ "dwCurrentState" \notin unwritten[t] => status_.dwCurrentState = reporting[t]
    /\ "dwControlsAccepted" \notin unwritten[t] =>
         status_.dwControlsAccepted = ControlsAccepted(reporting[t])
    /\ "dwCheckPoint" \notin unwritten[t] /\ reporting[t] \notin Pending =>
         status_.dwCheckPoint = 0

\* The SCM holds SERVICE_RUNNING, or a stop, exactly from its announcement on.
Announced ==
  /\ Early => scm.dwCurrentState \in {"SERVICE_START_PENDING", "SERVICE_STOPPED", "ABORTED"}
  /\ ~Early /\ pc["service"] # "threw" => scm.dwCurrentState # "SERVICE_START_PENDING"
  /\ scm.dwCurrentState = "ABORTED" => process # "running"

\* Once the handler has begun, only a stop can be written and handed over.
StopAnnounced ==
  pc["handler"] # "idle" =>
    /\ scm.dwCurrentState # "SERVICE_START_PENDING"
    /\ reporting["handler"] = "none" => scm.dwCurrentState # "SERVICE_RUNNING"
    /\ \A t \in Threads : reporting[t] # "none" /\ "dwCurrentState" \notin unwritten[t] =>
         status_.dwCurrentState \in {"SERVICE_STOP_PENDING", "SERVICE_STOPPED"}

\* SERVICE_STOPPED is reported, written or held only when the work is over.
StoppedOnlyWhenOver ==
  /\ scm.dwCurrentState = "SERVICE_STOPPED" => Over
  /\ status_.dwCurrentState = "SERVICE_STOPPED" => Over
  /\ \A t \in Threads : reporting[t] = "SERVICE_STOPPED" => Over

IInv ==
  /\ TypeOK
  /\ Progress
  /\ ReportedBy
  /\ Written
  /\ Announced
  /\ StopAnnounced
  /\ CoherentUntilStop
  /\ StoppedOnlyWhenOver

-----------------------------------------------------------------------------
(* The steps, one by one. *)

\* The actions of the threads, reports aside.
Actions ==
  \/ SvchostPushServiceGlobals \/ CheckSession \/ InitProcess \/ MakeWorker
  \/ RunDispatcher \/ DispatcherReturns \/ RunInline \/ StartReturns \/ Catch
  \/ ProcessExit
  \/ Start \/ OnStart \/ SpawnWorker \/ RegisterStopCallback \/ WaitPromise
  \/ Join \/ Uncaught
  \/ WorkerEnter \/ WorkerReturn \/ WorkerThrow \/ WorkerThrowForeign \/ WorkerExit
  \/ StopCallback \/ ScmRequestsStop \/ OnStop

\* A step of the process is one of the actions or one step of a report.
LEMMA NextCases ==
  ASSUME Next
  PROVE  \/ Actions
         \/ \E t \in Threads : \E field \in Fields : WriteField(t, field)
         \/ \E t \in Threads : SetServiceStatus(t)
<1>1. "main" \in Threads /\ "service" \in Threads /\ "handler" \in Threads /\ "callback" \in Threads
  BY DEF Threads
<1> QED
  BY <1>1 DEF Next, MainNext, ServiceNext, WorkerNext, CallbackNext, HandlerNext, ReportStatus, Actions

\* Every step keeps every variable in its type.
LEMMA TypeStep ==
  ASSUME IInv, [Next]_vars
  PROVE  TypeOK'
<1> USE DEF IInv, TypeOK, Threads, Fields, Pending, Reportable, Goto, At, NoReport, Report, shared, setup, signals, ReportedBy
<1>1. CASE SvchostPushServiceGlobals
  BY <1>1 DEF SvchostPushServiceGlobals
<1>2. CASE CheckSession
  BY <1>2 DEF CheckSession
<1>3. CASE InitProcess
  BY <1>3 DEF InitProcess
<1>4. CASE MakeWorker
  BY <1>4 DEF MakeWorker
<1>5. CASE RunDispatcher
  BY <1>5 DEF RunDispatcher
<1>6. CASE DispatcherReturns
  BY <1>6 DEF DispatcherReturns
<1>7. CASE RunInline
  BY <1>7 DEF RunInline
<1>8. CASE StartReturns
  BY <1>8 DEF StartReturns
<1>9. CASE Catch
  BY <1>9 DEF Catch
<1>10. CASE ProcessExit
  BY <1>10 DEF ProcessExit, ScmLosesProcess
<1>11. CASE Start
  BY <1>11 DEF Start
<1>12. CASE OnStart
  BY <1>12 DEF OnStart
<1>13. CASE SpawnWorker
  BY <1>13 DEF SpawnWorker
<1>14. CASE RegisterStopCallback
  BY <1>14 DEF RegisterStopCallback
<1>15. CASE WaitPromise
  BY <1>15 DEF WaitPromise
<1>16. CASE Join
  BY <1>16 DEF Join
<1>17. CASE Uncaught
  BY <1>17 DEF Uncaught, Crash, ScmLosesProcess
<1>18. CASE WorkerEnter
  BY <1>18 DEF WorkerEnter
<1>19. CASE WorkerReturn
  BY <1>19 DEF WorkerReturn
<1>20. CASE WorkerThrow
  BY <1>20 DEF WorkerThrow
<1>21. CASE WorkerThrowForeign
  BY <1>21 DEF WorkerThrowForeign, Crash, ScmLosesProcess
<1>22. CASE WorkerExit
  BY <1>22 DEF WorkerExit
<1>23. CASE StopCallback
  BY <1>23 DEF StopCallback
<1>24. CASE ScmRequestsStop
  BY <1>24 DEF ScmRequestsStop
<1>25. CASE OnStop
  <2>1. stopping' \in BOOLEAN
    BY <1>25, Zenon DEF OnStop
  <2> QED
    BY <1>25, <2>1 DEF OnStop
<1>26. ASSUME NEW t \in Threads, NEW field \in Fields, WriteField(t, field)
  PROVE  TypeOK'
  BY <1>26 DEF WriteField, FieldValue, ControlsAccepted, NextCheckPoint
<1>27. ASSUME NEW t \in Threads, SetServiceStatus(t)
  PROVE  TypeOK'
  BY <1>27 DEF SetServiceStatus, Crash, ScmLosesProcess, Written, StopAnnounced
<1>28. CASE UNCHANGED vars
  BY <1>28 DEF vars
<1> QED
  BY <1>1, <1>2, <1>3, <1>4, <1>5, <1>6, <1>7, <1>8, <1>9, <1>10, <1>11, <1>12, <1>13, <1>14, <1>15, <1>16, <1>17, <1>18, <1>19, <1>20, <1>21, <1>22, <1>23, <1>24, <1>25, <1>26, <1>27, <1>28, NextCases DEF Actions

\* The threads keep their order; that no stop is delivered early is where the
\* controls accepted by SERVICE_START_PENDING matter.
LEMMA ProgressStep ==
  ASSUME IInv, [Next]_vars
  PROVE  Progress'
<1> USE DEF IInv, TypeOK, Threads, Fields, Pending, Reportable, Goto, At, NoReport, Report, shared, setup, signals, Progress, Early, Over, StoppedOnlyWhenOver, ReportedBy, Announced, CoherentUntilStop, ControlsAccepted
<1>1. CASE SvchostPushServiceGlobals
  BY <1>1 DEF SvchostPushServiceGlobals
<1>2. CASE CheckSession
  BY <1>2 DEF CheckSession
<1>3. CASE InitProcess
  BY <1>3 DEF InitProcess
<1>4. CASE MakeWorker
  BY <1>4 DEF MakeWorker
<1>5. CASE RunDispatcher
  BY <1>5 DEF RunDispatcher
<1>6. CASE DispatcherReturns
  BY <1>6 DEF DispatcherReturns
<1>7. CASE RunInline
  BY <1>7 DEF RunInline
<1>8. CASE StartReturns
  BY <1>8 DEF StartReturns
<1>9. CASE Catch
  BY <1>9 DEF Catch
<1>10. CASE ProcessExit
  BY <1>10 DEF ProcessExit, ScmLosesProcess
<1>11. CASE Start
  BY <1>11 DEF Start
<1>12. CASE OnStart
  BY <1>12 DEF OnStart
<1>13. CASE SpawnWorker
  BY <1>13 DEF SpawnWorker
<1>14. CASE RegisterStopCallback
  BY <1>14 DEF RegisterStopCallback
<1>15. CASE WaitPromise
  BY <1>15 DEF WaitPromise
<1>16. CASE Join
  BY <1>16 DEF Join
<1>17. CASE Uncaught
  BY <1>17 DEF Uncaught, Crash, ScmLosesProcess
<1>18. CASE WorkerEnter
  BY <1>18 DEF WorkerEnter
<1>19. CASE WorkerReturn
  BY <1>19 DEF WorkerReturn
<1>20. CASE WorkerThrow
  BY <1>20 DEF WorkerThrow
<1>21. CASE WorkerThrowForeign
  BY <1>21 DEF WorkerThrowForeign, Crash, ScmLosesProcess
<1>22. CASE WorkerExit
  BY <1>22 DEF WorkerExit
<1>23. CASE StopCallback
  BY <1>23 DEF StopCallback
<1>24. CASE ScmRequestsStop
  BY <1>24 DEF ScmRequestsStop
<1>25. CASE OnStop
  BY <1>25 DEF OnStop
<1>26. ASSUME NEW t \in Threads, NEW field \in Fields, WriteField(t, field)
  PROVE  Progress'
  BY <1>26 DEF WriteField
<1>27. ASSUME NEW t \in Threads, SetServiceStatus(t)
  PROVE  Progress'
  BY <1>27 DEF SetServiceStatus, Crash, ScmLosesProcess
<1>28. CASE UNCHANGED vars
  BY <1>28 DEF vars
<1> QED
  BY <1>1, <1>2, <1>3, <1>4, <1>5, <1>6, <1>7, <1>8, <1>9, <1>10, <1>11, <1>12, <1>13, <1>14, <1>15, <1>16, <1>17, <1>18, <1>19, <1>20, <1>21, <1>22, <1>23, <1>24, <1>25, <1>26, <1>27, <1>28, NextCases DEF Actions

\* Each thread reports only from the places ReportedBy lists.
LEMMA ReportedByStep ==
  ASSUME IInv, [Next]_vars
  PROVE  ReportedBy'
<1> USE DEF IInv, TypeOK, Threads, Fields, Pending, Reportable, Goto, At, NoReport, Report, shared, setup, signals, Progress, ReportedBy
<1>1. CASE SvchostPushServiceGlobals
  BY <1>1 DEF SvchostPushServiceGlobals
<1>2. CASE CheckSession
  BY <1>2 DEF CheckSession
<1>3. CASE InitProcess
  BY <1>3 DEF InitProcess
<1>4. CASE MakeWorker
  BY <1>4 DEF MakeWorker
<1>5. CASE RunDispatcher
  BY <1>5 DEF RunDispatcher
<1>6. CASE DispatcherReturns
  BY <1>6 DEF DispatcherReturns
<1>7. CASE RunInline
  BY <1>7 DEF RunInline
<1>8. CASE StartReturns
  BY <1>8 DEF StartReturns
<1>9. CASE Catch
  BY <1>9 DEF Catch
<1>10. CASE ProcessExit
  BY <1>10 DEF ProcessExit, ScmLosesProcess
<1>11. CASE Start
  BY <1>11 DEF Start
<1>12. CASE OnStart
  BY <1>12 DEF OnStart
<1>13. CASE SpawnWorker
  BY <1>13 DEF SpawnWorker
<1>14. CASE RegisterStopCallback
  BY <1>14 DEF RegisterStopCallback
<1>15. CASE WaitPromise
  BY <1>15 DEF WaitPromise
<1>16. CASE Join
  BY <1>16 DEF Join
<1>17. CASE Uncaught
  BY <1>17 DEF Uncaught, Crash, ScmLosesProcess
<1>18. CASE WorkerEnter
  BY <1>18 DEF WorkerEnter
<1>19. CASE WorkerReturn
  BY <1>19 DEF WorkerReturn
<1>20. CASE WorkerThrow
  BY <1>20 DEF WorkerThrow
<1>21. CASE WorkerThrowForeign
  BY <1>21 DEF WorkerThrowForeign, Crash, ScmLosesProcess
<1>22. CASE WorkerExit
  BY <1>22 DEF WorkerExit
<1>23. CASE StopCallback
  BY <1>23 DEF StopCallback
<1>24. CASE ScmRequestsStop
  BY <1>24 DEF ScmRequestsStop
<1>25. CASE OnStop
  BY <1>25 DEF OnStop
<1>26. ASSUME NEW t \in Threads, NEW field \in Fields, WriteField(t, field)
  PROVE  ReportedBy'
  BY <1>26 DEF WriteField
<1>27. ASSUME NEW t \in Threads, SetServiceStatus(t)
  PROVE  ReportedBy'
  BY <1>27 DEF SetServiceStatus, Crash, ScmLosesProcess
<1>28. CASE UNCHANGED vars
  BY <1>28 DEF vars
<1> QED
  BY <1>1, <1>2, <1>3, <1>4, <1>5, <1>6, <1>7, <1>8, <1>9, <1>10, <1>11, <1>12, <1>13, <1>14, <1>15, <1>16, <1>17, <1>18, <1>19, <1>20, <1>21, <1>22, <1>23, <1>24, <1>25, <1>26, <1>27, <1>28, NextCases DEF Actions

\* Two threads other than the handler report at the same time only the same state.
LEMMA WrittenStep ==
  ASSUME IInv, [Next]_vars
  PROVE  Written'
<1> USE DEF IInv, TypeOK, Threads, Fields, Pending, Reportable, Goto, At, NoReport, Report, shared, setup, signals, Progress, Early, ReportedBy, Written, ControlsAccepted
<1>1. CASE SvchostPushServiceGlobals
  BY <1>1 DEF SvchostPushServiceGlobals
<1>2. CASE CheckSession
  BY <1>2 DEF CheckSession
<1>3. CASE InitProcess
  BY <1>3 DEF InitProcess
<1>4. CASE MakeWorker
  BY <1>4 DEF MakeWorker
<1>5. CASE RunDispatcher
  BY <1>5 DEF RunDispatcher
<1>6. CASE DispatcherReturns
  BY <1>6 DEF DispatcherReturns
<1>7. CASE RunInline
  BY <1>7 DEF RunInline
<1>8. CASE StartReturns
  BY <1>8 DEF StartReturns
<1>9. CASE Catch
  BY <1>9 DEF Catch
<1>10. CASE ProcessExit
  BY <1>10 DEF ProcessExit, ScmLosesProcess
<1>11. CASE Start
  BY <1>11 DEF Start
<1>12. CASE OnStart
  BY <1>12 DEF OnStart
<1>13. CASE SpawnWorker
  BY <1>13 DEF SpawnWorker
<1>14. CASE RegisterStopCallback
  BY <1>14 DEF RegisterStopCallback
<1>15. CASE WaitPromise
  BY <1>15 DEF WaitPromise
<1>16. CASE Join
  BY <1>16 DEF Join
<1>17. CASE Uncaught
  BY <1>17 DEF Uncaught, Crash, ScmLosesProcess
<1>18. CASE WorkerEnter
  BY <1>18 DEF WorkerEnter
<1>19. CASE WorkerReturn
  BY <1>19 DEF WorkerReturn
<1>20. CASE WorkerThrow
  BY <1>20 DEF WorkerThrow
<1>21. CASE WorkerThrowForeign
  BY <1>21 DEF WorkerThrowForeign, Crash, ScmLosesProcess
<1>22. CASE WorkerExit
  BY <1>22 DEF WorkerExit
<1>23. CASE StopCallback
  BY <1>23 DEF StopCallback
<1>24. CASE ScmRequestsStop
  BY <1>24 DEF ScmRequestsStop
<1>25. CASE OnStop
  BY <1>25 DEF OnStop
<1>26. ASSUME NEW t \in Threads, NEW field \in Fields, WriteField(t, field)
  PROVE  Written'
  BY <1>26 DEF WriteField, FieldValue, NextCheckPoint
<1>27. ASSUME NEW t \in Threads, SetServiceStatus(t)
  PROVE  Written'
  BY <1>27 DEF SetServiceStatus, Crash, ScmLosesProcess
<1>28. CASE UNCHANGED vars
  BY <1>28 DEF vars
<1> QED
  BY <1>1, <1>2, <1>3, <1>4, <1>5, <1>6, <1>7, <1>8, <1>9, <1>10, <1>11, <1>12, <1>13, <1>14, <1>15, <1>16, <1>17, <1>18, <1>19, <1>20, <1>21, <1>22, <1>23, <1>24, <1>25, <1>26, <1>27, <1>28, NextCases DEF Actions

\* Before on_start() returned only SERVICE_START_PENDING or, from the catch block,
\* SERVICE_STOPPED can be handed over; SERVICE_RUNNING is, before run() begins.
LEMMA AnnouncedStep ==
  ASSUME IInv, [Next]_vars
  PROVE  Announced'
<1> USE DEF IInv, TypeOK, Threads, Fields, Pending, Reportable, Goto, At, NoReport, Report, shared, setup, signals, Progress, Early, ReportedBy, Written, StopAnnounced, Announced
<1>1. CASE SvchostPushServiceGlobals
  BY <1>1 DEF SvchostPushServiceGlobals
<1>2. CASE CheckSession
  BY <1>2 DEF CheckSession
<1>3. CASE InitProcess
  BY <1>3 DEF InitProcess
<1>4. CASE MakeWorker
  BY <1>4 DEF MakeWorker
<1>5. CASE RunDispatcher
  BY <1>5 DEF RunDispatcher
<1>6. CASE DispatcherReturns
  BY <1>6 DEF DispatcherReturns
<1>7. CASE RunInline
  BY <1>7 DEF RunInline
<1>8. CASE StartReturns
  BY <1>8 DEF StartReturns
<1>9. CASE Catch
  BY <1>9 DEF Catch
<1>10. CASE ProcessExit
  BY <1>10 DEF ProcessExit, ScmLosesProcess
<1>11. CASE Start
  BY <1>11 DEF Start
<1>12. CASE OnStart
  BY <1>12 DEF OnStart
<1>13. CASE SpawnWorker
  BY <1>13 DEF SpawnWorker
<1>14. CASE RegisterStopCallback
  BY <1>14 DEF RegisterStopCallback
<1>15. CASE WaitPromise
  BY <1>15 DEF WaitPromise
<1>16. CASE Join
  BY <1>16 DEF Join
<1>17. CASE Uncaught
  BY <1>17 DEF Uncaught, Crash, ScmLosesProcess
<1>18. CASE WorkerEnter
  BY <1>18 DEF WorkerEnter
<1>19. CASE WorkerReturn
  BY <1>19 DEF WorkerReturn
<1>20. CASE WorkerThrow
  BY <1>20 DEF WorkerThrow
<1>21. CASE WorkerThrowForeign
  BY <1>21 DEF WorkerThrowForeign, Crash, ScmLosesProcess
<1>22. CASE WorkerExit
  BY <1>22 DEF WorkerExit
<1>23. CASE StopCallback
  BY <1>23 DEF StopCallback
<1>24. CASE ScmRequestsStop
  BY <1>24 DEF ScmRequestsStop
<1>25. CASE OnStop
  BY <1>25 DEF OnStop
<1>26. ASSUME NEW t \in Threads, NEW field \in Fields, WriteField(t, field)
  PROVE  Announced'
  BY <1>26 DEF WriteField
<1>27. ASSUME NEW t \in Threads, SetServiceStatus(t)
  PROVE  Announced'
  BY <1>27 DEF SetServiceStatus, Crash, ScmLosesProcess
<1>28. CASE UNCHANGED vars
  BY <1>28 DEF vars
<1> QED
  BY <1>1, <1>2, <1>3, <1>4, <1>5, <1>6, <1>7, <1>8, <1>9, <1>10, <1>11, <1>12, <1>13, <1>14, <1>15, <1>16, <1>17, <1>18, <1>19, <1>20, <1>21, <1>22, <1>23, <1>24, <1>25, <1>26, <1>27, <1>28, NextCases DEF Actions

\* A stop is delivered to a service that is running, so that whoever reports
\* beside the handler reports SERVICE_STOPPED.
LEMMA StopAnnouncedStep ==
  ASSUME IInv, [Next]_vars
  PROVE  StopAnnounced'
<1> USE DEF IInv, TypeOK, Threads, Fields, Pending, Reportable, Goto, At, NoReport, Report, shared, setup, signals, Progress, Early, ReportedBy, Written, StopAnnounced, Announced, CoherentUntilStop, ControlsAccepted
<1>1. CASE SvchostPushServiceGlobals
  BY <1>1 DEF SvchostPushServiceGlobals
<1>2. CASE CheckSession
  BY <1>2 DEF CheckSession
<1>3. CASE InitProcess
  BY <1>3 DEF InitProcess
<1>4. CASE MakeWorker
  BY <1>4 DEF MakeWorker
<1>5. CASE RunDispatcher
  BY <1>5 DEF RunDispatcher
<1>6. CASE DispatcherReturns
  BY <1>6 DEF DispatcherReturns
<1>7. CASE RunInline
  BY <1>7 DEF RunInline
<1>8. CASE StartReturns
  BY <1>8 DEF StartReturns
<1>9. CASE Catch
  BY <1>9 DEF Catch
<1>10. CASE ProcessExit
  BY <1>10 DEF ProcessExit, ScmLosesProcess
<1>11. CASE Start
  BY <1>11 DEF Start
<1>12. CASE OnStart
  BY <1>12 DEF OnStart
<1>13. CASE SpawnWorker
  BY <1>13 DEF SpawnWorker
<1>14. CASE RegisterStopCallback
  BY <1>14 DEF RegisterStopCallback
<1>15. CASE WaitPromise
  BY <1>15 DEF WaitPromise
<1>16. CASE Join
  BY <1>16 DEF Join
<1>17. CASE Uncaught
  BY <1>17 DEF Uncaught, Crash, ScmLosesProcess
<1>18. CASE WorkerEnter
  BY <1>18 DEF WorkerEnter
<1>19. CASE WorkerReturn
  BY <1>19 DEF WorkerReturn
<1>20. CASE WorkerThrow
  BY <1>20 DEF WorkerThrow
<1>21. CASE WorkerThrowForeign
  BY <1>21 DEF WorkerThrowForeign, Crash, ScmLosesProcess
<1>22. CASE WorkerExit
  BY <1>22 DEF WorkerExit
<1>23. CASE StopCallback
  BY <1>23 DEF StopCallback
<1>24. CASE ScmRequestsStop
  BY <1>24 DEF ScmRequestsStop
<1>25. CASE OnStop
  BY <1>25 DEF OnStop
<1>26. ASSUME NEW t \in Threads, NEW field \in Fields, WriteField(t, field)
  PROVE  StopAnnounced'
  <2>1. reporting[t] # "none"
    BY <1>26 DEF WriteField
  <2>2. pc["handler"] # "idle" => reporting[t] \in {"SERVICE_STOP_PENDING", "SERVICE_STOPPED"}
    BY <2>1
  <2>3. UNCHANGED <<pc, reporting, scm>>
    BY <1>26 DEF WriteField
  <2>4. CASE field = "dwCurrentState"
    BY <1>26, <2>2, <2>3, <2>4 DEF WriteField, FieldValue
  <2>5. CASE field # "dwCurrentState"
    BY <1>26, <2>3, <2>5 DEF WriteField
  <2> QED
    BY <2>4, <2>5
<1>27. ASSUME NEW t \in Threads, SetServiceStatus(t)
  PROVE  StopAnnounced'
  BY <1>27 DEF SetServiceStatus, Crash, ScmLosesProcess
<1>28. CASE UNCHANGED vars
  BY <1>28 DEF vars
<1> QED
  BY <1>1, <1>2, <1>3, <1>4, <1>5, <1>6, <1>7, <1>8, <1>9, <1>10, <1>11, <1>12, <1>13, <1>14, <1>15, <1>16, <1>17, <1>18, <1>19, <1>20, <1>21, <1>22, <1>23, <1>24, <1>25, <1>26, <1>27, <1>28, NextCases DEF Actions

\* What is handed over before the first stop has been written completely.
LEMMA CoherentStep ==
  ASSUME IInv, [Next]_vars
  PROVE  CoherentUntilStop'
<1> USE DEF IInv, TypeOK, Threads, Fields, Pending, Reportable, Goto, At, NoReport, Report, shared, setup, signals, Progress, Early, ReportedBy, Written, CoherentUntilStop, ControlsAccepted
<1>1. CASE SvchostPushServiceGlobals
  BY <1>1 DEF SvchostPushServiceGlobals
<1>2. CASE CheckSession
  BY <1>2 DEF CheckSession
<1>3. CASE InitProcess
  BY <1>3 DEF InitProcess
<1>4. CASE MakeWorker
  BY <1>4 DEF MakeWorker
<1>5. CASE RunDispatcher
  BY <1>5 DEF RunDispatcher
<1>6. CASE DispatcherReturns
  BY <1>6 DEF DispatcherReturns
<1>7. CASE RunInline
  BY <1>7 DEF RunInline
<1>8. CASE StartReturns
  BY <1>8 DEF StartReturns
<1>9. CASE Catch
  BY <1>9 DEF Catch
<1>10. CASE ProcessExit
  BY <1>10 DEF ProcessExit, ScmLosesProcess
<1>11. CASE Start
  BY <1>11 DEF Start
<1>12. CASE OnStart
  BY <1>12 DEF OnStart
<1>13. CASE SpawnWorker
  BY <1>13 DEF SpawnWorker
<1>14. CASE RegisterStopCallback
  BY <1>14 DEF RegisterStopCallback
<1>15. CASE WaitPromise
  BY <1>15 DEF WaitPromise
<1>16. CASE Join
  BY <1>16 DEF Join
<1>17. CASE Uncaught
  BY <1>17 DEF Uncaught, Crash, ScmLosesProcess
<1>18. CASE WorkerEnter
  BY <1>18 DEF WorkerEnter
<1>19. CASE WorkerReturn
  BY <1>19 DEF WorkerReturn
<1>20. CASE WorkerThrow
  BY <1>20 DEF WorkerThrow
<1>21. CASE WorkerThrowForeign
  BY <1>21 DEF WorkerThrowForeign, Crash, ScmLosesProcess
<1>22. CASE WorkerExit
  BY <1>22 DEF WorkerExit
<1>23. CASE StopCallback
  BY <1>23 DEF StopCallback
<1>24. CASE ScmRequestsStop
  BY <1>24 DEF ScmRequestsStop
<1>25. CASE OnStop
  BY <1>25 DEF OnStop
<1>26. ASSUME NEW t \in Threads, NEW field \in Fields, WriteField(t, field)
  PROVE  CoherentUntilStop'
  BY <1>26 DEF WriteField
<1>27. ASSUME NEW t \in Threads, SetServiceStatus(t)
  PROVE  CoherentUntilStop'
  BY <1>27 DEF SetServiceStatus, Crash, ScmLosesProcess
<1>28. CASE UNCHANGED vars
  BY <1>28 DEF vars
<1> QED
  BY <1>1, <1>2, <1>3, <1>4, <1>5, <1>6, <1>7, <1>8, <1>9, <1>10, <1>11, <1>12, <1>13, <1>14, <1>15, <1>16, <1>17, <1>18, <1>19, <1>20, <1>21, <1>22, <1>23, <1>24, <1>25, <1>26, <1>27, <1>28, NextCases DEF Actions

\* Over is stable, and SERVICE_STOPPED is first reported when it holds.
LEMMA StoppedStep ==
  ASSUME IInv, [Next]_vars
  PROVE  StoppedOnlyWhenOver'
<1> USE DEF IInv, TypeOK, Threads, Fields, Pending, Reportable, Goto, At, NoReport, Report, shared, setup, signals, Progress, Over, ReportedBy, StoppedOnlyWhenOver
<1>1. CASE SvchostPushServiceGlobals
  BY <1>1 DEF SvchostPushServiceGlobals
<1>2. CASE CheckSession
  BY <1>2 DEF CheckSession
<1>3. CASE InitProcess
  BY <1>3 DEF InitProcess
<1>4. CASE MakeWorker
  BY <1>4 DEF MakeWorker
<1>5. CASE RunDispatcher
  BY <1>5 DEF RunDispatcher
<1>6. CASE DispatcherReturns
  BY <1>6 DEF DispatcherReturns
<1>7. CASE RunInline
  BY <1>7 DEF RunInline
<1>8. CASE StartReturns
  BY <1>8 DEF StartReturns
<1>9. CASE Catch
  BY <1>9 DEF Catch
<1>10. CASE ProcessExit
  BY <1>10 DEF ProcessExit, ScmLosesProcess
<1>11. CASE Start
  BY <1>11 DEF Start
<1>12. CASE OnStart
  BY <1>12 DEF OnStart
<1>13. CASE SpawnWorker
  BY <1>13 DEF SpawnWorker
<1>14. CASE RegisterStopCallback
  BY <1>14 DEF RegisterStopCallback
<1>15. CASE WaitPromise
  BY <1>15 DEF WaitPromise
<1>16. CASE Join
  BY <1>16 DEF Join
<1>17. CASE Uncaught
  BY <1>17 DEF Uncaught, Crash, ScmLosesProcess
<1>18. CASE WorkerEnter
  BY <1>18 DEF WorkerEnter
<1>19. CASE WorkerReturn
  BY <1>19 DEF WorkerReturn
<1>20. CASE WorkerThrow
  BY <1>20 DEF WorkerThrow
<1>21. CASE WorkerThrowForeign
  BY <1>21 DEF WorkerThrowForeign, Crash, ScmLosesProcess
<1>22. CASE WorkerExit
  BY <1>22 DEF WorkerExit
<1>23. CASE StopCallback
  BY <1>23 DEF StopCallback
<1>24. CASE ScmRequestsStop
  BY <1>24 DEF ScmRequestsStop
<1>25. CASE OnStop
  BY <1>25 DEF OnStop
<1>26. ASSUME NEW t \in Threads, NEW field \in Fields, WriteField(t, field)
  PROVE  StoppedOnlyWhenOver'
  BY <1>26 DEF WriteField, FieldValue, ControlsAccepted, NextCheckPoint
<1>27. ASSUME NEW t \in Threads, SetServiceStatus(t)
  PROVE  StoppedOnlyWhenOver'
  BY <1>27 DEF SetServiceStatus, Crash, ScmLosesProcess
<1>28. CASE UNCHANGED vars
  BY <1>28 DEF vars
<1> QED
  BY <1>1, <1>2, <1>3, <1>4, <1>5, <1>6, <1>7, <1>8, <1>9, <1>10, <1>11, <1>12, <1>13, <1>14, <1>15, <1>16, <1>17, <1>18, <1>19, <1>20, <1>21, <1>22, <1>23, <1>24, <1>25, <1>26, <1>27, <1>28, NextCases DEF Actions

-----------------------------------------------------------------------------
(* The invariant and what follows from it. *)

\* The invariant holds before anything has been called.
LEMMA Initially == Init => IInv
<1> SUFFICES ASSUME Init
             PROVE  IInv
  OBVIOUS
<1> USE DEF Init, Threads
<1>1. TypeOK
  BY StandaloneModesAssumption DEF TypeOK, Fields, Pending, Reportable
<1>2. Progress
  BY DEF Progress, Early
<1>3. ReportedBy /\ Written
  BY DEF ReportedBy, Written
<1>4. Announced /\ StopAnnounced
  BY DEF Announced, Early, StopAnnounced
<1>5. CoherentUntilStop /\ StoppedOnlyWhenOver
  BY DEF CoherentUntilStop, StoppedOnlyWhenOver, ControlsAccepted, Pending
<1> QED
  BY <1>1, <1>2, <1>3, <1>4, <1>5 DEF IInv

\* Every step of a thread, of the SCM or of the process keeps it.
LEMMA Inductive == IInv /\ [Next]_vars => IInv'
BY TypeStep, ProgressStep, ReportedByStep, WrittenStep, AnnouncedStep,
   StopAnnouncedStep, CoherentStep, StoppedStep
   DEF IInv

\* It holds as long as the process runs.
THEOREM Invariance == Spec => []IInv
BY Initially, Inductive, PTL DEF Spec

\* Every variable stays in its type.
THEOREM TypeCorrect == Spec => []TypeOK
<1>1. IInv => TypeOK
  BY DEF IInv
<1> QED
  BY Invariance, <1>1, PTL

\* on_stop() never runs on an empty worker_, nor before on_start() returned.
THEOREM StopIsNeverTooEarly == Spec => []StopNeverTooEarly
<1>1. IInv => StopNeverTooEarly
  BY DEF IInv, Progress, Early, StopNeverTooEarly
<1> QED
  BY Invariance, <1>1, PTL

\* check_point is never incremented by two threads at once.
THEOREM PendingReportsAreExclusive == Spec => []PendingReportsExclusive
<1>1. ASSUME IInv, NEW t \in Threads, NEW u \in Threads,
             reporting[t] \in Pending, reporting[u] \in Pending
      PROVE  t = u
  <2>1. t \in {"service", "handler"} /\ u \in {"service", "handler"}
    BY <1>1 DEF IInv, ReportedBy, Threads, Pending
  <2>2. ~(reporting["service"] \in Pending /\ reporting["handler"] \in Pending)
    BY <1>1 DEF IInv, ReportedBy, Progress, Early, Pending
  <2> QED
    BY <1>1, <2>1, <2>2
<1>2. IInv => PendingReportsExclusive
  BY <1>1 DEF PendingReportsExclusive
<1> QED
  BY Invariance, <1>2, PTL

\* The SCM holds no torn record before the first stop is delivered.
THEOREM CoherentUntilTheStop == Spec => []CoherentUntilStop
<1>1. IInv => CoherentUntilStop
  BY DEF IInv
<1> QED
  BY Invariance, <1>1, PTL

\* Whoever reported SERVICE_STOPPED, run() and its thread are over by then.
THEOREM StoppedIsIdle == Spec => []StoppedMeansIdle
<1>1. IInv => StoppedMeansIdle
  BY DEF IInv, StoppedOnlyWhenOver, Over, Progress, StoppedMeansIdle
<1> QED
  BY Invariance, <1>1, PTL

\* on_stop() is called at most once.
THEOREM StopIsSingle == Spec => AtMostOneStop
<1>1. ASSUME IInv, ScmRequestsStop
      PROVE  pc["handler"] = "idle"
  BY <1>1 DEF IInv, ReportedBy, Announced, StopAnnounced, ScmRequestsStop
<1>2. IInv /\ [Next]_vars => [ScmRequestsStop => pc["handler"] = "idle"]_vars
  BY <1>1
<1> QED
  BY Invariance, <1>2, PTL DEF Spec, AtMostOneStop

-----------------------------------------------------------------------------
(* The refinement of ServiceLifecycle. *)

\* The process begins where the life cycle begins: the start is pending, no work done.
LEMMA InitRefines == Init => Lifecycle!Init
BY DEF Init, Lifecycle!Init, Work, At, Threads

\* A step that moves the work to its end, and nothing else, is EndWork.
LEMMA EndsWork ==
  ASSUME Work' = "over", scm'.dwCurrentState = scm.dwCurrentState
  PROVE  [Lifecycle!Next]_(Lifecycle!vars)
BY DEF Lifecycle!Next, Lifecycle!EndWork, Lifecycle!vars

\* A step after which the process is gone is ProcessLost.
LEMMA LosesProcess ==
  ASSUME IInv, process = "running", ScmLosesProcess, Work' = Work
  PROVE  [Lifecycle!Next]_(Lifecycle!vars)
<1>1. CASE scm.dwCurrentState = "SERVICE_STOPPED"
  BY <1>1 DEF IInv, TypeOK, ScmLosesProcess, Lifecycle!vars
<1>2. CASE scm.dwCurrentState # "SERVICE_STOPPED"
  <2>1. scm.dwCurrentState \in Lifecycle!Alive
    BY <1>2 DEF IInv, TypeOK, Announced, Reportable, Pending, Lifecycle!Alive
  <2>2. scm'.dwCurrentState = "ABORTED"
    BY <1>2 DEF IInv, TypeOK, ScmLosesProcess
  <2> QED
    BY <2>1, <2>2 DEF Lifecycle!Next, Lifecycle!ProcessLost
<1> QED
  BY <1>1, <1>2

\* Handing over status_ is an announcement, or repeats one; handing over
\* SERVICE_START_PENDING is where on_start() begins.
LEMMA SetServiceStatusRefines ==
  ASSUME IInv, IInv', process = "running", NEW t \in Threads, SetServiceStatus(t)
  PROVE  [Lifecycle!Next]_(Lifecycle!vars)
<1> USE DEF IInv, TypeOK, Threads
<1>1. CASE scm' = status_ /\ UNCHANGED process /\ scm.dwCurrentState # "SERVICE_STOPPED"
  <2> DEFINE new == status_.dwCurrentState
  <2>1. scm'.dwCurrentState = new /\ scm.dwCurrentState \in Lifecycle!Alive
    BY <1>1 DEF Announced, Reportable, Pending, Lifecycle!Alive
  <2>2. UNCHANGED pc
    BY DEF SetServiceStatus
  <2>3. CASE new = "SERVICE_STOPPED"
    <3>1. Work = "over" /\ Work' = "over"
      BY <2>2, <2>3 DEF StoppedOnlyWhenOver, Over, Work, Progress
    <3> QED
      BY <2>1, <2>3, <3>1 DEF Lifecycle!Next, Lifecycle!AnnounceStopped
  <2>4. CASE new # "SERVICE_STOPPED" /\ pc["handler"] = "idle"
    <3>1. new = reporting[t]
      BY <2>4 DEF SetServiceStatus, Written
    <3>2. t = "service" /\ \/ new = "SERVICE_START_PENDING" /\ pc["service"] = "on_start"
                           \/ new = "SERVICE_RUNNING" /\ pc["service"] = "spawn"
      BY <2>4, <3>1 DEF SetServiceStatus, ReportedBy
    <3>3. Early /\ scm.dwCurrentState = "SERVICE_START_PENDING"
      BY <1>1, <3>2 DEF SetServiceStatus, Early, Announced
    <3>4. reporting'["service"] = "none"
      BY <3>2 DEF SetServiceStatus
    <3>5. pc["main"] \in {"dispatching", "starting"} /\ pc["worker"] = "idle"
      BY <3>2 DEF Progress
    <3>6. CASE new = "SERVICE_START_PENDING"
      <4>1. Work = "none" /\ Work' = "starting"
        BY <2>2, <3>2, <3>4, <3>5, <3>6 DEF Work, At, SetServiceStatus
      <4> QED
        BY <2>1, <3>3, <3>6, <4>1 DEF Lifecycle!Next, Lifecycle!BeginStart
    <3>7. CASE new = "SERVICE_RUNNING"
      <4>1. Work = "ready" /\ Work' = "ready"
        BY <2>2, <3>2, <3>5, <3>7 DEF Work, At
      <4> QED
        BY <2>1, <3>3, <3>7, <4>1 DEF Lifecycle!Next, Lifecycle!AnnounceRunning
    <3> QED
      BY <3>2, <3>6, <3>7
  <2>5. CASE new # "SERVICE_STOPPED" /\ pc["handler"] # "idle"
    <3>1. new = "SERVICE_STOP_PENDING"
      BY <2>5 DEF SetServiceStatus, StopAnnounced
    <3>2. scm.dwCurrentState \in {"SERVICE_RUNNING", "SERVICE_STOP_PENDING"}
      BY <2>1, <2>5, <1>1 DEF StopAnnounced, Lifecycle!Alive
    <3>3. Work' = Work
      BY <2>2, <2>5 DEF Work, At, Progress, Early, SetServiceStatus
    <3> QED
      BY <2>1, <3>1, <3>2, <3>3 DEF Lifecycle!Next, Lifecycle!AnnounceStopPending, Lifecycle!vars
  <2> QED
    BY <2>3, <2>4, <2>5
<1>2. CASE UNCHANGED <<scm, process>> /\ (status_handle_ = "null" \/ scm.dwCurrentState = "SERVICE_STOPPED")
  <2>1. pc["service"] # "on_start"
    BY <1>2 DEF Progress, StoppedOnlyWhenOver, Over
  <2>2. Work' = Work
    BY <2>1 DEF SetServiceStatus, Work, At
  <2> QED
    BY <1>2, <2>2 DEF Lifecycle!vars
<1>3. CASE Crash /\ scm.dwCurrentState = "SERVICE_STOPPED"
  <2>1. pc["service"] # "on_start"
    BY <1>3 DEF Progress, StoppedOnlyWhenOver, Over
  <2>2. Work' = Work
    BY <2>1 DEF SetServiceStatus, Work, At
  <2> QED
    BY <1>3, <2>2, LosesProcess DEF Crash
<1> QED
  BY <1>1, <1>2, <1>3 DEF SetServiceStatus

\* No action of a thread, reports aside, does more than begin or end a part of
\* the work, or lose the process.
LEMMA ActionsRefine ==
  ASSUME IInv, IInv', process = "running", Actions
  PROVE  [Lifecycle!Next]_(Lifecycle!vars)
<1> USE DEF IInv, TypeOK, Threads, Goto, At, NoReport, Report, shared, setup, signals
<1>1. CASE CheckSession \/ MakeWorker \/ RunDispatcher
  <2>1. Work' \in {Work, "over"} /\ scm' = scm
    BY <1>1 DEF CheckSession, MakeWorker, RunDispatcher, Work, Progress
  <2> QED
    BY <2>1, EndsWork DEF Lifecycle!vars
<1>2. CASE SvchostPushServiceGlobals \/ InitProcess \/ RunInline
  <2>1. Work' = Work /\ scm' = scm
    BY <1>2 DEF SvchostPushServiceGlobals, InitProcess, RunInline, Work, Progress
  <2> QED
    BY <2>1 DEF Lifecycle!vars
<1>3. CASE DispatcherReturns \/ StartReturns \/ Catch \/ Join \/ WorkerReturn \/ WorkerThrow \/ WorkerExit
  <2>1. Work' = "over" /\ scm' = scm
    BY <1>3 DEF DispatcherReturns, StartReturns, Catch, Join, WorkerReturn, WorkerThrow,
                WorkerExit, Work
  <2> QED
    BY <2>1, EndsWork
<1>4. CASE ProcessExit \/ Uncaught \/ WorkerThrowForeign
  <2>1. Work' = Work /\ ScmLosesProcess
    BY <1>4 DEF ProcessExit, Uncaught, WorkerThrowForeign, Crash, Work
  <2> QED
    BY <2>1, LosesProcess
<1>5. CASE Start
  <2>1. Work' = Work /\ scm' = scm
    BY <1>5 DEF Start, Work, Progress
  <2> QED
    BY <2>1 DEF Lifecycle!vars
<1>6. CASE OnStart
  <2>1. Work = "starting" /\ Work' \in {"ready", "over"} /\ scm' = scm
    BY <1>6 DEF OnStart, Work, Progress
  <2> QED
    BY <2>1, EndsWork DEF Lifecycle!Next, Lifecycle!FinishStart
<1>7. CASE SpawnWorker
  <2>1. Work' \in {Work, "over"} /\ scm' = scm
    BY <1>7 DEF SpawnWorker, Work, Progress
  <2> QED
    BY <2>1, EndsWork DEF Lifecycle!vars
<1>8. CASE RegisterStopCallback \/ WaitPromise \/ StopCallback \/ ScmRequestsStop \/ OnStop
  <2>1. Work' = Work /\ scm' = scm
    BY <1>8 DEF RegisterStopCallback, WaitPromise, StopCallback, ScmRequestsStop, OnStop, Work
  <2> QED
    BY <2>1 DEF Lifecycle!vars
<1>9. CASE WorkerEnter
  <2>1. pc["service"] \in {"register", "wait", "join"}
    BY <1>9 DEF WorkerEnter, Progress
  <2>2. scm.dwCurrentState # "SERVICE_START_PENDING" /\ scm' = scm
    BY <1>9, <2>1 DEF WorkerEnter, Announced, Early
  <2>3. \/ Work = "ready" /\ Work' = "running"
        \/ Work' = "over"
    BY <1>9, <2>1 DEF WorkerEnter, Work
  <2> QED
    BY <2>2, <2>3, EndsWork DEF Lifecycle!Next, Lifecycle!BeginRun
<1> QED
  BY <1>1, <1>2, <1>3, <1>4, <1>5, <1>6, <1>7, <1>8, <1>9 DEF Actions

\* The threads implement the abstract life cycle.
THEOREM Refinement == Spec => RefinesLifecycle
<1>1. ASSUME IInv, IInv', [Next]_vars
      PROVE  [Lifecycle!Next]_(Lifecycle!vars)
  <2>1. CASE UNCHANGED vars
    BY <2>1 DEF vars, Lifecycle!vars, Work, At
  <2>2. ASSUME NEW t \in Threads, NEW field \in Fields, WriteField(t, field)
        PROVE  [Lifecycle!Next]_(Lifecycle!vars)
    BY <2>2 DEF WriteField, Lifecycle!vars, Work, At
  <2>3. Next => process = "running"
    BY DEF Next, MainNext, ServiceNext, WorkerNext, CallbackNext, HandlerNext, ScmRequestsStop
  <2> QED
    BY <1>1, <2>1, <2>2, <2>3, NextCases, SetServiceStatusRefines, ActionsRefine
<1> QED
  BY <1>1, InitRefines, Invariance, PTL DEF Spec, RefinesLifecycle, Lifecycle!Spec

=============================================================================
