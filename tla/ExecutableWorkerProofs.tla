----------------------- MODULE ExecutableWorkerProofs -----------------------
(***************************************************************************)
(* Proofs about ExecutableWorker, for any set of handle values, for either *)
(* post_quit_message, with and without other threads that open handles.    *)
(*                                                                         *)
(* The properties are not inductive: what a stop strikes and what a        *)
(* reset() closes depends on which handles run() still holds and on what   *)
(* Windows keeps behind their values.  IInv says who owns what, and when.  *)
(***************************************************************************)
EXTENDS ExecutableWorker, TLAPS

HoldsBoth == RefersTo(wrapped_thread_, "thread") /\ RefersTo(wrapped_process_, "child")

\* Nobody uses the worker before on_start() has succeeded.
UnusedBeforeStart ==
  IF starter = "started" THEN child # "none"
  ELSE /\ child = "none" /\ wrapped_thread_ = NoHandle /\ wrapped_process_ = NoHandle
       /\ runner = "idle" /\ left = {} /\ stopper = "idle" /\ ~destroyed

\* run() leaves the handles alone until the child is gone.
HandlesKept ==
  starter = "started" /\ ~destroyed /\ runner \in {"idle", "waiting", "never"} =>
    HoldsBoth /\ left = {}

\* `old' is the member's value until that is cleared, and the child's until closed.
Resetting(member, kind) ==
  /\ old # NoHandle
  /\ member = (IF "clear" \in left THEN old ELSE NoHandle)
  /\ IF "close" \in left THEN RefersTo(old, kind)
     ELSE ~RefersTo(old, "thread") /\ ~RefersTo(old, "child")

\* The thread's handle is reset first.
HandlesReset ==
  /\ runner = "reset_thread" =>
       Resetting(wrapped_thread_, "thread") /\ RefersTo(wrapped_process_, "child")
  /\ runner = "reset_process" =>
       Resetting(wrapped_process_, "child") /\ wrapped_thread_ = NoHandle
  /\ runner = "returned" \/ destroyed =>
       wrapped_thread_ = NoHandle /\ wrapped_process_ = NoHandle /\ left = {}

\* Every handle of the child's is a member or about to be closed.
NothingLeaks ==
  \A h \in Handle : object[h] \in {"thread", "child"} =>
    h \in {wrapped_thread_, wrapped_process_} \/ (h = old /\ "close" \in left)

Target == IF post_quit_message THEN "thread" ELSE "child"

\* What on_stop() is about to strike is the child's, or it comes too late.
StopHitsOrIsLate == stopper = "strike" => child = "exited" \/ RefersTo(victim, Target)

\* Nobody is inside the worker when it is destroyed.
DestroyedAlone ==
  destroyed => runner \in {"never", "returned"} /\ stopper \in {"idle", "done"}

Ownership == HandlesKept /\ HandlesReset /\ NothingLeaks

IInv ==
  /\ TypeOK
  /\ UnusedBeforeStart
  /\ Ownership
  /\ StopHitsOrIsLate
  /\ DestroyedAlone
  /\ RunOutlastsChild
  /\ DestroyedLeavesNoChild

-----------------------------------------------------------------------------
(* The steps, by who takes them. *)

\* on_start() gives the worker two handles nobody else has.
LEMMA OnStartStep ==
  ASSUME IInv, OnStart
  PROVE  IInv'
<1> USE DEF IInv, TypeOK, UnusedBeforeStart, runVars, stopVars, config
<1>1. CASE starter' = "failed"
  <2>1. UNCHANGED <<handleVars, child>>
    BY <1>1 DEF OnStart
  <2> QED
    BY <1>1, <2>1 DEF OnStart, Ownership, HandlesKept, HandlesReset, Resetting, NothingLeaks,
                 HoldsBoth, RefersTo, StopHitsOrIsLate, DestroyedAlone, RunOutlastsChild,
                 DestroyedLeavesNoChild, handleVars
<1>2. CASE starter' = "started"
  <2>1. PICK t, p \in Handle :
          /\ t # p /\ object[t] = "none" /\ object[p] = "none"
          /\ wrapped_thread_' = t /\ wrapped_process_' = p
          /\ object' = [object EXCEPT ![t] = "thread", ![p] = "child"]
    BY <1>2 DEF OnStart
  <2>2. UNCHANGED <<queue, quit, runner, old, left, stopper, victim, post_quit_message, destroyed>>
        /\ child' = "running" /\ starter = "idle"
    BY <1>2 DEF OnStart
  <2>3. TypeOK' /\ UnusedBeforeStart'
    BY <1>2, <2>1, <2>2
  <2>4. HoldsBoth'
    BY <2>1, HandleAssumption DEF HoldsBoth, RefersTo
  <2>5. NothingLeaks'
    BY <2>1, <2>2, HandleAssumption DEF NothingLeaks, Ownership, HandlesReset
  <2> QED
    BY <2>2, <2>3, <2>4, <2>5 DEF Ownership, HandlesKept, HandlesReset, StopHitsOrIsLate,
                 DestroyedAlone, RunOutlastsChild, DestroyedLeavesNoChild
<1> QED
  BY <1>1, <1>2 DEF OnStart

\* run() is entered, or never.
LEMMA BeginRunStep ==
  ASSUME IInv, Run \/ NeverRun
  PROVE  IInv'
<1>1. /\ starter = "started" /\ runner = "idle" /\ runner' \in {"waiting", "never"}
      /\ UNCHANGED <<old, left, starter, handleVars, childVars, stopVars, config>>
  BY DEF Run, NeverRun
<1>2. ~destroyed
  BY <1>1 DEF IInv, DestroyedAlone
<1>3. Ownership'
  BY <1>1, <1>2 DEF IInv, Ownership, HandlesKept, HandlesReset, NothingLeaks, HoldsBoth,
                    RefersTo, handleVars, config
<1> QED
  BY <1>1, <1>2, <1>3
  DEF IInv, TypeOK, UnusedBeforeStart, StopHitsOrIsLate, RefersTo, Target, DestroyedAlone,
      RunOutlastsChild, DestroyedLeavesNoChild, handleVars, childVars, stopVars, config

\* The wait ends with the child: its handle has not been given up before.
LEMMA WaitChildStep ==
  ASSUME IInv, WaitChild
  PROVE  IInv'
<1>1. /\ runner = "waiting" /\ runner' = "reset_thread"
      /\ old' = wrapped_thread_ /\ left' = {"clear", "close"}
      /\ UNCHANGED <<starter, handleVars, childVars, stopVars, config>>
  BY DEF WaitChild
<1>2. starter = "started" /\ ~destroyed
  BY <1>1 DEF IInv, UnusedBeforeStart, DestroyedAlone
<1>3. HoldsBoth
  BY <1>1, <1>2 DEF IInv, Ownership, HandlesKept
<1>4. child = "exited"
  BY <1>3 DEF WaitChild, HoldsBoth, RefersTo
<1>5. Ownership'
  BY <1>1, <1>2, <1>3 DEF IInv, Ownership, HandlesKept, HandlesReset, Resetting, NothingLeaks,
                          HoldsBoth, RefersTo, handleVars, config
<1> QED
  BY <1>1, <1>2, <1>4, <1>5
  DEF IInv, TypeOK, UnusedBeforeStart, StopHitsOrIsLate, DestroyedAlone, RunOutlastsChild,
      DestroyedLeavesNoChild, handleVars, childVars, stopVars, config

\* Half of a reset() leaves the other half, and the other handle, as they were.
LEMMA ResetStep ==
  ASSUME IInv, ClearHandle \/ CloseOldHandle
  PROVE  IInv'
<1>1. /\ UNCHANGED <<runner, old, starter, childVars, stopVars, config>>
      /\ left' \subseteq left /\ left # {}
  BY DEF ClearHandle, CloseOldHandle
<1>2. starter = "started" /\ runner \in {"reset_thread", "reset_process"}
  BY <1>1 DEF IInv, TypeOK, UnusedBeforeStart, DestroyedAlone, Ownership, HandlesKept, HandlesReset
<1>3. child = "exited" /\ ~destroyed
  BY <1>2 DEF IInv, RunOutlastsChild, DestroyedAlone
<1>4. TypeOK' /\ Ownership'
  <2> USE DEF IInv, TypeOK, Ownership, HandlesKept, HandlesReset, Resetting, RefersTo
  <2>1. CASE ClearHandle
    <3>1. /\ "clear" \in left /\ left' = left \ {"clear"}
          /\ UNCHANGED object
          /\ \/ runner = "reset_thread" /\ wrapped_thread_' = NoHandle /\ UNCHANGED wrapped_process_
             \/ runner = "reset_process" /\ wrapped_process_' = NoHandle /\ UNCHANGED wrapped_thread_
      BY <2>1 DEF ClearHandle
    <3>2. NothingLeaks'
      BY <1>1, <3>1 DEF NothingLeaks
    <3> QED
      BY <1>1, <1>2, <1>3, <3>1, <3>2 DEF config, childVars, stopVars
  <2>2. CASE CloseOldHandle
    <3>1. /\ old # NoHandle /\ old \in Handle
          /\ object' = [object EXCEPT ![old] = "none"]
          /\ left' = left \ {"close"}
          /\ UNCHANGED <<wrapped_thread_, wrapped_process_>>
      BY <1>2, <2>2 DEF CloseOldHandle
    <3>2. NothingLeaks'
      BY <1>1, <3>1 DEF NothingLeaks
    <3> QED
      BY <1>1, <1>2, <1>3, <3>1, <3>2 DEF config, childVars, stopVars
  <2> QED
    BY <2>1, <2>2
<1> QED
  BY <1>1, <1>2, <1>3, <1>4
  DEF IInv, UnusedBeforeStart, StopHitsOrIsLate, DestroyedAlone, RunOutlastsChild,
      DestroyedLeavesNoChild, childVars, stopVars, config

\* A reset() is over: the handle is closed and the member null.
LEMMA NextResetStep ==
  ASSUME IInv, NextReset
  PROVE  IInv'
<1>1. /\ left = {} /\ runner \in {"reset_thread", "reset_process"}
      /\ UNCHANGED <<starter, handleVars, childVars, stopVars, config>>
  BY DEF NextReset
<1>2. starter = "started" /\ child = "exited" /\ ~destroyed
  BY <1>1 DEF IInv, UnusedBeforeStart, RunOutlastsChild, DestroyedAlone
<1>3. TypeOK' /\ Ownership'
  BY <1>1, <1>2 DEF NextReset, IInv, TypeOK, Ownership, HandlesKept, HandlesReset, Resetting,
                    NothingLeaks, RefersTo, handleVars, childVars, stopVars, config
<1> QED
  BY <1>1, <1>2, <1>3
  DEF NextReset, IInv, UnusedBeforeStart, StopHitsOrIsLate, DestroyedAlone, RunOutlastsChild,
      DestroyedLeavesNoChild, childVars, stopVars, config

\* on_stop() of the handler changes nothing run() depends on but the child.
LEMMA OnStopStep ==
  ASSUME IInv, CheckProcess \/ ReadHandle \/ StrikeVictim \/ PostQuit
  PROVE  IInv'
<1>1. /\ UNCHANGED <<starter, queue, handleVars, runVars, config>>
      /\ child' \in {child, "exited"}
  BY DEF CheckProcess, ReadHandle, StrikeVictim, PostQuit, childVars
<1>2. starter = "started" /\ ~destroyed
  BY DEF CheckProcess, ReadHandle, StrikeVictim, PostQuit, IInv, UnusedBeforeStart, DestroyedAlone
<1>3. TypeOK'
  BY <1>1 DEF IInv, TypeOK, CheckProcess, ReadHandle, StrikeVictim, PostQuit, childVars, handleVars,
              runVars, config
<1>4. Ownership'
  BY <1>1 DEF IInv, Ownership, HandlesKept, HandlesReset, Resetting, NothingLeaks, HoldsBoth,
              RefersTo, handleVars, runVars, config
<1>5. StopHitsOrIsLate'
  <2>1. CASE ReadHandle
    <3>1. child = "exited" \/ HoldsBoth
      BY <1>2, <2>1 DEF IInv, TypeOK, RunOutlastsChild, Ownership, HandlesKept
    <3> QED
      BY <1>1, <2>1, <3>1 DEF ReadHandle, StopHitsOrIsLate, Target, HoldsBoth, RefersTo,
                              childVars, handleVars, config
  <2>2. CASE CheckProcess \/ StrikeVictim \/ PostQuit
    BY <2>2 DEF CheckProcess, StrikeVictim, PostQuit, StopHitsOrIsLate
  <2> QED
    BY <2>1, <2>2
<1> QED
  BY <1>1, <1>2, <1>3, <1>4, <1>5
  DEF IInv, UnusedBeforeStart, DestroyedAlone, RunOutlastsChild, DestroyedLeavesNoChild,
      handleVars, runVars, config

\* The destructor takes a child along that nobody has waited for.
LEMMA DestroyStep ==
  ASSUME IInv, Destroy
  PROVE  IInv'
<1>1. /\ runner \in {"never", "returned"} /\ stopper \in {"idle", "done"} /\ ~destroyed
      /\ wrapped_thread_' = NoHandle /\ wrapped_process_' = NoHandle /\ destroyed'
      /\ UNCHANGED <<post_quit_message, starter, queue, runVars, stopVars>>
      /\ child' \in {child, "exited"}
  BY DEF Destroy
<1>2. starter = "started" /\ left = {}
  BY <1>1 DEF IInv, UnusedBeforeStart, Ownership, HandlesKept, HandlesReset
<1>3. TypeOK'
  BY <1>1 DEF Destroy, IInv, TypeOK, runVars, stopVars
<1>4. Ownership'
  BY <1>1, <1>2 DEF Destroy, IInv, Ownership, HandlesKept, HandlesReset, Resetting,
                    NothingLeaks, runVars
<1>5. DestroyedLeavesNoChild'
  <2>1. runner = "returned" => child = "exited"
    BY DEF IInv, RunOutlastsChild
  <2>2. runner = "never" => HoldsBoth
    BY <1>1, <1>2 DEF IInv, Ownership, HandlesKept
  <2> QED
    BY <1>1, <2>1, <2>2 DEF Destroy, DestroyedLeavesNoChild, HoldsBoth, RefersTo
<1> QED
  BY <1>1, <1>2, <1>3, <1>4, <1>5
  DEF IInv, UnusedBeforeStart, StopHitsOrIsLate, DestroyedAlone, RunOutlastsChild, runVars, stopVars

\* The child does what it likes: nothing depends on its being alive.
LEMMA ChildStep ==
  ASSUME IInv, ChildMakesQueue \/ ChildExits
  PROVE  IInv'
<1>1. /\ UNCHANGED <<quit, starter, handleVars, runVars, stopVars, config>>
      /\ child = "running" /\ child' \in {child, "exited"} /\ queue' \in BOOLEAN
  BY DEF ChildMakesQueue, ChildExits, IInv, TypeOK
<1>2. Ownership'
  BY <1>1 DEF IInv, Ownership, HandlesKept, HandlesReset, Resetting, NothingLeaks, HoldsBoth,
              RefersTo, handleVars, runVars, config
<1> QED
  BY <1>1, <1>2
  DEF IInv, TypeOK, UnusedBeforeStart, StopHitsOrIsLate, RefersTo, Target, DestroyedAlone,
      RunOutlastsChild, DestroyedLeavesNoChild, handleVars, runVars, stopVars, config

\* Windows hands out free values only, and other threads close their own handles.
LEMMA ForeignStep ==
  ASSUME IInv, ForeignOpen \/ ForeignClose
  PROVE  IInv'
<1>1. PICK h \in Handle, kind \in {"none", "foreign"} :
        object[h] \in {"none", "foreign"} /\ object' = [object EXCEPT ![h] = kind]
  BY DEF ForeignOpen, ForeignClose
<1>2. UNCHANGED <<wrapped_thread_, wrapped_process_, starter, childVars, runVars, stopVars, config>>
  BY DEF ForeignOpen, ForeignClose
<1>3. TypeOK'
  BY <1>1, <1>2 DEF IInv, TypeOK, childVars, runVars, stopVars, config
<1>4. ASSUME NEW g \in Handle \cup {NoHandle}, NEW k \in {"thread", "child"}
      PROVE  RefersTo(g, k)' <=> RefersTo(g, k)
  BY <1>1 DEF RefersTo, IInv, TypeOK
<1>5. NothingLeaks'
  BY <1>1, <1>2 DEF NothingLeaks, IInv, TypeOK, Ownership, runVars
<1>6. HandlesKept' /\ HandlesReset' /\ StopHitsOrIsLate'
  BY <1>2, <1>4 DEF IInv, TypeOK, Ownership, HandlesKept, HandlesReset, Resetting, HoldsBoth,
                    StopHitsOrIsLate, Target, childVars, runVars, stopVars, config
<1> QED
  BY <1>2, <1>3, <1>5, <1>6
  DEF IInv, Ownership, UnusedBeforeStart, DestroyedAlone, RunOutlastsChild, DestroyedLeavesNoChild,
      childVars, runVars, stopVars, config

-----------------------------------------------------------------------------
(* The theorems. *)

\* The invariant holds in every state, whatever the threads and the child do.
THEOREM Invariance == Spec => []IInv
<1>1. Init => IInv
  BY HandleAssumption, ModesAssumption
  DEF Init, IInv, TypeOK, UnusedBeforeStart, Ownership, HandlesKept, HandlesReset, NothingLeaks,
      StopHitsOrIsLate, DestroyedAlone, RunOutlastsChild, DestroyedLeavesNoChild
<1>2. IInv /\ [Next]_vars => IInv'
  <2>1. IInv /\ UNCHANGED vars => IInv'
    BY DEF vars, IInv, TypeOK, UnusedBeforeStart, Ownership, HandlesKept, HandlesReset, Resetting,
           NothingLeaks, HoldsBoth, RefersTo, StopHitsOrIsLate, Target, DestroyedAlone,
           RunOutlastsChild, DestroyedLeavesNoChild
  <2> QED
    BY <2>1, OnStartStep, BeginRunStep, WaitChildStep, ResetStep, NextResetStep, OnStopStep,
       DestroyStep, ChildStep, ForeignStep
    DEF Next
<1> QED
  BY <1>1, <1>2, PTL DEF Spec

\* The handles, the child and the threads that use the worker stay what they are.
THEOREM TypeCorrect == Spec => []TypeOK
BY Invariance, PTL DEF IInv

\* run() returns, and SERVICE_STOPPED follows, only after the child has exited.
THEOREM RunWaitsForChild == Spec => []RunOutlastsChild
BY Invariance, PTL DEF IInv

\* The destructor ends a child that nobody has waited for.
THEOREM DestructorTakesChild == Spec => []DestroyedLeavesNoChild
BY Invariance, PTL DEF IInv

\* However on_stop() and run() overlap, a stop never strikes a stranger's handle
\* while the child could still be struck.
THEOREM StopStrikesRight == Spec => StrikesOwnChildOrTooLate
<1>1. IInv /\ StrikeVictim =>
        child = "exited" \/ (victim # NoHandle
                             /\ object[victim] = (IF post_quit_message THEN "thread" ELSE "child"))
  BY DEF IInv, StopHitsOrIsLate, RefersTo, Target, StrikeVictim
<1> QED
  BY <1>1, Invariance, PTL DEF StrikesOwnChildOrTooLate

\* run() closes each of its handles while the value is still its own.
THEOREM ClosesRight == Spec => ClosesOnlyItsOwn
<1>1. IInv /\ CloseOldHandle => old # NoHandle /\ object[old] \in {"thread", "child"}
  BY DEF IInv, TypeOK, UnusedBeforeStart, Ownership, HandlesKept, HandlesReset, DestroyedAlone,
         Resetting, RefersTo, CloseOldHandle
<1> QED
  BY <1>1, Invariance, PTL DEF ClosesOnlyItsOwn

\* When run() has returned, or the destructor has, no handle of the child's is
\* open any more.
THEOREM NoHandleIsLeaked ==
  Spec => [](runner = "returned" \/ destroyed => \A h \in Handle : object[h] \notin {"thread", "child"})
<1>1. IInv => (runner = "returned" \/ destroyed => \A h \in Handle : object[h] \notin {"thread", "child"})
  BY HandleAssumption DEF IInv, Ownership, HandlesReset, NothingLeaks
<1> QED
  BY <1>1, Invariance, PTL

=============================================================================
