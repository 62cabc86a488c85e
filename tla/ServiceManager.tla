--------------------------- MODULE ServiceManager ---------------------------
(***************************************************************************)
(* service_manager.cpp and invokeW (main.cpp): installing and uninstalling *)
(* one service.  Every invocation is a process of its own that changes the *)
(* SCM's database and the registry one call at a time; there is no         *)
(* rollback, a call may fail, the process may be killed, and invocations   *)
(* may overlap with each other and with the SCM starting the service.      *)
(*                                                                         *)
(* DeleteService only marks the record.  The SCM removes it, and with it   *)
(* the service's key and the Parameters below, when the service is stopped *)
(* and the last handle to it is closed; install() and uninstall() keep     *)
(* their handle until they return.                                         *)
(*                                                                         *)
(* An operator named X_Y is X with a plausible slip Y in it; no action     *)
(* uses it.                                                                *)
(***************************************************************************)
EXTENDS Naturals, Sequences

CONSTANTS
  Invokers,   \* processes that may call invokeW
  Regimes     \* the circumstances to consider:
              \*   invokers  those that do
              \*   max_ops   bound: invocations by each of them
              \*   modes     "standalone" in the configurations they are given
              \*   may_fail  a call may fail, a process may be killed

ASSUME RegimesAssumption ==
  Regimes \subseteq [invokers : SUBSET Invokers, max_ops : Nat,
                     modes : SUBSET BOOLEAN, may_fail : BOOLEAN]

VARIABLES
  regime,     \* one of Regimes, for the whole behaviour
  record,     \* the service in the SCM's database
  standalone, \* the record runs rundll32.exe, not svchost.exe
  handles,    \* the invokers that hold a handle to the record
  service,    \* the state of the service
  registry,   \* the values that are present
  op,         \* what each invoker is doing
  ops,        \* how many invocations each has begun
  finished    \* the install() that made the record has returned normally

vars == <<regime, record, standalone, handles, service, registry, op, ops, finished>>

GroupEntries == {"group_value", "group_key"}

ParamEntries == {"service_dll", "service_dll_unload_on_stop", "service_main",
                 "startup_configuration"}

Entries == GroupEntries \cup ParamEntries

\* What install() writes, in order: register_svchost, then the configuration.
Writes(alone) ==
  IF alone THEN <<"startup_configuration">>
  ELSE <<"group_value", "group_key", "service_dll", "service_dll_unload_on_stop",
         "service_main", "startup_configuration">>

Deletes == <<"group_key", "group_value">>   \* unregister_svchost

Idle == [step |-> "idle", alone |-> FALSE, todo |-> <<>>]

Init ==
  /\ regime \in Regimes
  /\ record = "absent"
  /\ standalone = FALSE
  /\ handles = {}
  /\ service = "stopped"
  /\ registry = {}
  /\ op = [i \in Invokers |-> Idle]
  /\ ops = [i \in Invokers |-> 0]
  /\ finished = FALSE

At(i, step) == op[i].step = step

GoTo(i, step) == op' = [op EXCEPT ![i].step = step]

\* The SCM removes a marked record nobody holds.
Settle(mark, holders, state) ==
  IF mark = "marked" /\ holders = {} /\ state = "stopped"
  THEN record' = "absent" /\ registry' = registry \ ParamEntries
  ELSE record' = mark /\ UNCHANGED registry

Return_LeaksHandle(i) ==
  /\ op' = [op EXCEPT ![i] = Idle]
  /\ UNCHANGED <<record, standalone, handles, service, registry, ops>>

\* The invocation ends, normally or by an exception: its handle is closed.
Return(i) ==
  /\ op' = [op EXCEPT ![i] = Idle]
  /\ handles' = handles \ {i}
  /\ Settle(record, handles \ {i}, service)
  /\ UNCHANGED <<standalone, service, ops>>

-----------------------------------------------------------------------------
(* install() *)

\* invokeW has parsed the configuration and made a worker from it.
BeginInstall(i) ==
  /\ At(i, "idle")
  /\ ops[i] < regime.max_ops
  /\ \E alone \in regime.modes :
       op' = [op EXCEPT ![i] = [step |-> "create", alone |-> alone, todo |-> Writes(alone)]]
  /\ ops' = [ops EXCEPT ![i] = @ + 1]
  /\ UNCHANGED <<record, standalone, handles, service, registry, finished>>

CreateService(i) ==
  /\ At(i, "create")
  /\ \/ /\ record = "absent"
        /\ record' = "present"
        /\ standalone' = op[i].alone
        /\ handles' = handles \cup {i}
        /\ finished' = FALSE
        /\ GoTo(i, "describe")
        /\ UNCHANGED <<service, registry, ops>>
     \/ /\ record # "absent" \/ regime.may_fail     \* exists, or is marked for deletion
        /\ Return(i)
        /\ UNCHANGED finished

\* The description is optional; a marked record refuses it.
SetDescription(i) ==
  /\ At(i, "describe")
  /\ \/ /\ GoTo(i, "write")
        /\ UNCHANGED <<record, standalone, handles, service, registry, ops, finished>>
     \/ /\ record = "marked" \/ regime.may_fail
        /\ Return(i)
        /\ UNCHANGED finished

WriteRegistry_Closed(i) ==
  /\ At(i, "write")
  /\ op[i].todo # <<>>
  /\ registry' = registry \cup {Head(op[i].todo)}
  /\ op' = [op EXCEPT ![i].todo = Tail(@)]
  /\ handles' = handles \ {i}
  /\ UNCHANGED <<record, standalone, service, ops, finished>>

WriteRegistry(i) ==
  /\ At(i, "write")
  /\ op[i].todo # <<>>
  /\ \/ /\ registry' = registry \cup {Head(op[i].todo)}
        /\ op' = [op EXCEPT ![i].todo = Tail(@)]
        /\ UNCHANGED <<record, standalone, handles, service, ops, finished>>
     \/ /\ regime.may_fail
        /\ Return(i)
        /\ UNCHANGED finished

FinishInstall(i) ==
  /\ At(i, "write")
  /\ op[i].todo = <<>>
  /\ Return(i)
  /\ finished' = TRUE

-----------------------------------------------------------------------------
(* uninstall() *)

BeginUninstall(i) ==
  /\ At(i, "idle")
  /\ ops[i] < regime.max_ops
  /\ \E alone \in regime.modes :
       op' = [op EXCEPT ![i] = [step |-> "open", alone |-> alone, todo |-> Deletes]]
  /\ ops' = [ops EXCEPT ![i] = @ + 1]
  /\ UNCHANGED <<record, standalone, handles, service, registry, finished>>

OpenService_Unchecked(i) ==
  /\ At(i, "open")
  /\ handles' = handles \cup {i}
  /\ GoTo(i, "stop")
  /\ UNCHANGED <<record, standalone, service, registry, ops, finished>>

OpenService(i) ==
  /\ At(i, "open")
  /\ \/ /\ record # "absent"
        /\ handles' = handles \cup {i}
        /\ GoTo(i, "stop")
        /\ UNCHANGED <<record, standalone, service, registry, ops, finished>>
     \/ /\ record = "absent" \/ regime.may_fail
        /\ Return(i)
        /\ UNCHANGED finished

\* A starting or stopping service cannot take the control; a stopped one gives
\* ERROR_SERVICE_NOT_ACTIVE, which is accepted.
ControlStop(i) ==
  /\ At(i, "stop")
  /\ \/ /\ service \in {"running", "stopped"}
        /\ service' = IF service = "running" THEN "stop_pending" ELSE service
        /\ GoTo(i, "delete")
        /\ UNCHANGED <<record, standalone, handles, registry, ops, finished>>
     \/ /\ service \in {"start_pending", "stop_pending"} \/ regime.may_fail
        /\ Return(i)
        /\ UNCHANGED finished

DeleteService_Closed(i) ==
  /\ At(i, "delete")
  /\ record = "present"
  /\ handles' = handles \ {i}
  /\ GoTo(i, "unregister")
  /\ Settle("marked", handles \ {i}, service)
  /\ UNCHANGED <<standalone, service, ops, finished>>

DeleteService(i) ==
  /\ At(i, "delete")
  /\ \/ /\ record = "present"
        /\ record' = "marked"
        /\ GoTo(i, "unregister")
        /\ UNCHANGED <<standalone, handles, service, registry, ops, finished>>
     \/ /\ record = "marked" \/ regime.may_fail
        /\ Return(i)
        /\ UNCHANGED finished

\* unregister_svchost catches an exception: what follows is skipped.
Unregister_GivesUp(i) ==
  /\ At(i, "unregister")
  /\ Return(i)
  /\ UNCHANGED finished

Unregister(i) ==
  /\ At(i, "unregister")
  /\ ~op[i].alone
  /\ op[i].todo # <<>>
  /\ \/ /\ Head(op[i].todo) \in registry
        /\ registry' = registry \ {Head(op[i].todo)}
        /\ op' = [op EXCEPT ![i].todo = Tail(@)]
     \/ /\ Head(op[i].todo) \notin registry \/ regime.may_fail
        /\ op' = [op EXCEPT ![i].todo = <<>>]
        /\ UNCHANGED registry
  /\ UNCHANGED <<record, standalone, handles, service, ops, finished>>

FinishUninstall(i) ==
  /\ At(i, "unregister")
  /\ op[i].alone \/ op[i].todo = <<>>
  /\ Return(i)
  /\ UNCHANGED finished

\* The process is killed; Windows closes its handle.
Kill(i) ==
  /\ regime.may_fail
  /\ ~At(i, "idle")
  /\ Return(i)
  /\ UNCHANGED finished

-----------------------------------------------------------------------------
(* The SCM and the service. *)

\* svchost.exe needs the group and the library; the name of ServiceMain and
\* the unloading have defaults.
StartService ==
  /\ record = "present"
  /\ service = "stopped"
  /\ standalone \/ {"group_value", "service_dll"} \subseteq registry
  /\ service' = "start_pending"
  /\ UNCHANGED <<record, standalone, handles, registry, op, ops, finished>>

\* make_service_worker_from_registry throws if there is no configuration.
StartEnds ==
  /\ service = "start_pending"
  /\ \/ /\ "startup_configuration" \in registry
        /\ service' = "running"
        /\ UNCHANGED <<record, registry>>
     \/ /\ "startup_configuration" \notin registry
        /\ service' = "stopped"
        /\ Settle(record, handles, "stopped")
  /\ UNCHANGED <<standalone, handles, op, ops, finished>>

ServiceStops ==
  /\ service \in {"running", "stop_pending"}
  /\ service' = "stopped"
  /\ Settle(record, handles, "stopped")
  /\ UNCHANGED <<standalone, handles, op, ops, finished>>

Invoke(i) ==
  \/ BeginInstall(i)
  \/ BeginUninstall(i)
  \/ Kill(i)

Proceed(i) ==
  \/ CreateService(i)
  \/ SetDescription(i)
  \/ WriteRegistry(i)
  \/ FinishInstall(i)
  \/ OpenService(i)
  \/ ControlStop(i)
  \/ DeleteService(i)
  \/ Unregister(i)
  \/ FinishUninstall(i)

Next ==
  /\ UNCHANGED regime
  /\ \/ \E i \in regime.invokers : Invoke(i)
     \/ \E i \in Invokers : Proceed(i)
     \/ StartService
     \/ StartEnds
     \/ ServiceStops

Spec == Init /\ [][Next]_vars

\* An invocation goes on, a start ends, and a service told to stop does.
Fairness ==
  /\ \A i \in Invokers : WF_vars(UNCHANGED regime /\ Proceed(i))
  /\ WF_vars(UNCHANGED regime /\ StartEnds)
  /\ WF_vars(UNCHANGED regime /\ service = "stop_pending" /\ ServiceStops)

FairSpec == Spec /\ Fairness

-----------------------------------------------------------------------------
(* Properties. *)

TypeOK ==
  /\ regime \in Regimes
  /\ record \in {"absent", "present", "marked"}
  /\ standalone \in BOOLEAN
  /\ handles \subseteq Invokers
  /\ service \in {"stopped", "start_pending", "running", "stop_pending"}
  /\ registry \subseteq Entries
  /\ op \in [Invokers -> [step : {"idle", "create", "describe", "write", "open", "stop",
                                  "delete", "unregister"},
                          alone : BOOLEAN,
                          todo : Seq(Entries)]]
  /\ ops \in [Invokers -> 0 .. regime.max_ops]
  /\ finished \in BOOLEAN
  /\ record = "absent" => handles = {} /\ service = "stopped"

\* The values a service of the record's kind needs.
Required == IF standalone THEN {"startup_configuration"} ELSE Entries

\* An install() that returned normally leaves everything the service needs, and
\* nothing takes it away as long as the record is not deleted: an earlier
\* uninstall(), still unregistering the group, cannot overlap with the new
\* installation because its handle keeps the old record in place.
FinishedInstallIsComplete ==
  record = "present" /\ finished => Required \subseteq registry

\* The record and the registry together: a service is complete with its values,
\* not with its record.
InstallationState ==
  IF record = "absent" THEN "absent"
  ELSE IF record = "marked" THEN "deleted"
  ELSE IF Required \subseteq registry THEN "complete"
  ELSE "incomplete"

Installation == INSTANCE ServiceInstallation WITH service <- InstallationState

\* The calls of overlapping, failing and killed invocations keep what
\* ServiceInstallation promises: a complete service loses none of its values, also
\* not those of the group, before it is deleted.
RefinesInstallation == Installation!Spec

\* The service's own key never outlives its record, whoever deletes the record
\* while an installation is still writing.
ParamsBelongToRecord ==
  record = "absent" => registry \cap ParamEntries = {}

\* One invocation after the other, each with the same value of "standalone", and
\* no call fails.
Undisturbed ==
  /\ ~regime.may_fail
  /\ \A i, j \in regime.invokers : i = j
  /\ \A a, b \in regime.modes : a = b

\* Between two undisturbed invocations nothing of an uninstalled service is left,
\* whenever the SCM starts and stops it.
UninstallCleans ==
  Undisturbed /\ record = "absent" /\ (\A i \in Invokers : At(i, "idle")) => registry = {}

\* A deleted service disappears, unless it was started again between uninstall()'s
\* stop and its deletion and runs on.
DeletedIsRemoved ==
  (record = "marked" /\ service \in {"stopped", "stop_pending"}) ~> record = "absent"

=============================================================================
