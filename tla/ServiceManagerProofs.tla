------------------------ MODULE ServiceManagerProofs ------------------------
(***************************************************************************)
(* Proofs about ServiceManager, for any number of invokers and under any   *)
(* circumstances.  The argument is one inductive invariant, IInv; a second *)
(* one, CleanInv, is about what nothing disturbs.                          *)
(***************************************************************************)
EXTENDS ServiceManager, TLAPS

Holding == {"describe", "write", "stop", "delete", "unregister"}

Installing(i) == op[i].step \in {"describe", "write"}

\* An invocation holds a handle from its first call on until it returns.
Holders == \A i \in Invokers : i \in handles <=> op[i].step \in Holding

\* Who unregisters the group has marked the record before and still holds it.
MarkedFirst == \A i \in Invokers : At(i, "unregister") => record = "marked"

\* A record is installed by the one who created it.
OneInstaller == \A i, j \in Invokers : Installing(i) /\ Installing(j) => i = j

Planned == \A i \in Invokers : At(i, "create") => op[i].todo = Writes(op[i].alone)

\* What the service needs is there or still to be written.
Written ==
  record = "present" => \A i \in Invokers : Installing(i) =>
    \A e \in Required : e \in registry \/ \E k \in 1 .. Len(op[i].todo) : op[i].todo[k] = e

IInv ==
  /\ TypeOK
  /\ ParamsBelongToRecord
  /\ FinishedInstallIsComplete
  /\ Holders
  /\ MarkedFirst
  /\ OneInstaller
  /\ Planned
  /\ Written

-----------------------------------------------------------------------------
(* The steps, one by one. *)

\* The entries to write and to delete are entries.
LEMMA PlansAreSequences ==
  Deletes \in Seq(Entries) /\ \A alone \in BOOLEAN : Writes(alone) \in Seq(Entries)
<1>1. \A a, b, c, d, e, f \in Entries : <<a, b, c, d, e, f>> \in Seq(Entries)
  OBVIOUS
<1>2. Deletes \in Seq(Entries)
  BY DEF Deletes, Entries, GroupEntries
<1>3. Writes(TRUE) \in Seq(Entries)
  BY DEF Writes, Entries, ParamEntries
<1>4. Writes(FALSE) \in Seq(Entries)
  BY <1>1 DEF Writes, Entries, GroupEntries, ParamEntries
<1> QED
  BY <1>2, <1>3, <1>4

\* An invocation that returns leaves everything as it is or, as the last holder of
\* a marked record, has it removed.
LEMMA ReturnStep ==
  ASSUME IInv, NEW i \in Invokers, Return(i), UNCHANGED regime,
         \/ UNCHANGED finished
         \/ At(i, "write") /\ op[i].todo = <<>> /\ finished' = TRUE
  PROVE  IInv'
<1> USE DEF IInv, TypeOK
<1>1. /\ op' = [op EXCEPT ![i] = Idle]
      /\ handles' = handles \ {i}
      /\ UNCHANGED <<regime, standalone, service, ops>>
  BY DEF Return
<1>2. \/ UNCHANGED <<record, registry>>
      \/ /\ record = "marked" /\ record' = "absent"
         /\ registry' = registry \ ParamEntries
         /\ handles' = {} /\ service' = "stopped"
  BY DEF Return, Settle
<1>3. /\ Idle \in [step : {"idle", "create", "describe", "write", "open", "stop",
                          "delete", "unregister"}, alone : BOOLEAN, todo : Seq(Entries)]
      /\ Idle.step = "idle"
  BY DEF Idle
<1>4. \A j \in Invokers : op'[j] = IF j = i THEN Idle ELSE op[j]
  BY <1>1
<1>5. TypeOK'
  BY <1>1, <1>2, <1>3
<1>6. ParamsBelongToRecord'
  BY <1>2 DEF ParamsBelongToRecord
<1>7. FinishedInstallIsComplete'
  <2>1. CASE UNCHANGED finished
    BY <1>1, <1>2, <2>1 DEF FinishedInstallIsComplete, Required
  <2>2. CASE At(i, "write") /\ op[i].todo = <<>> /\ finished' = TRUE
    <3>1. record' = "present" => Required \subseteq registry
      BY <1>2, <2>2 DEF Written, Installing, At
    <3> QED
      BY <1>1, <1>2, <3>1 DEF FinishedInstallIsComplete, Required
  <2> QED
    BY <2>1, <2>2
<1>8. Holders'
  BY <1>1, <1>3 DEF Holders, Holding
<1>9. MarkedFirst'
  BY <1>2, <1>3, <1>4, <1>8 DEF MarkedFirst, At, Holders, Holding
<1>10. OneInstaller'
  BY <1>3, <1>4 DEF OneInstaller, Installing
<1>11. Planned'
  BY <1>3, <1>4 DEF Planned, At, Writes
<1>12. Written'
  BY <1>1, <1>2, <1>3 DEF Written, Installing, Required
<1> QED
  BY <1>5, <1>6, <1>7, <1>8, <1>9, <1>10, <1>11, <1>12

\* What is left of the plan of an invocation once its first entry is done with.
LEMMA HeadAndTail ==
  ASSUME NEW todo \in Seq(Entries), todo # <<>>
  PROVE  /\ Head(todo) \in Entries
         /\ Tail(todo) \in Seq(Entries)
         /\ \A e : (\E k \in 1 .. Len(todo) : todo[k] = e) =>
              e = Head(todo) \/ \E k \in 1 .. Len(Tail(todo)) : Tail(todo)[k] = e
<1>1. ASSUME NEW k \in 1 .. Len(todo), k # 1
      PROVE  k - 1 \in 1 .. Len(Tail(todo)) /\ Tail(todo)[k - 1] = todo[k]
  BY <1>1
<1> QED
  BY <1>1

\* install() begins.
LEMMA BeginInstallStep ==
  ASSUME IInv, NEW i \in Invokers, BeginInstall(i), UNCHANGED regime
  PROVE  IInv'
<1> USE DEF IInv, TypeOK
<1>1. PICK alone \in BOOLEAN :
        op' = [op EXCEPT ![i] = [step |-> "create", alone |-> alone, todo |-> Writes(alone)]]
  BY RegimesAssumption DEF BeginInstall
<1>2. /\ ops' = [ops EXCEPT ![i] = @ + 1] /\ ops[i] < regime.max_ops /\ regime.max_ops \in Nat
      /\ UNCHANGED <<record, standalone, handles, service, registry, finished>>
  BY RegimesAssumption DEF BeginInstall
<1>3. Writes(alone) \in Seq(Entries)
  BY PlansAreSequences
<1>4. \A j \in Invokers :
      op'[j] = IF j = i THEN [step |-> "create", alone |-> alone, todo |-> Writes(alone)] ELSE op[j]
  BY <1>1
<1>5. op[i].step = "idle"
  BY DEF BeginInstall, At
<1>6. TypeOK'
  BY <1>1, <1>2, <1>3
<1>7. ParamsBelongToRecord'
  BY <1>2 DEF ParamsBelongToRecord
<1>8. FinishedInstallIsComplete'
  BY <1>2 DEF FinishedInstallIsComplete, Required
<1>9. Holders'
  BY <1>1, <1>2, <1>5 DEF Holders, Holding
<1>10. MarkedFirst'
  BY <1>1, <1>2 DEF MarkedFirst, At
<1>11. OneInstaller'
  BY <1>1 DEF OneInstaller, Installing
<1>12. Planned'
  BY <1>1 DEF Planned, At
<1>13. Written'
  BY <1>1, <1>2 DEF Written, Installing, Required
<1> QED
  BY <1>6, <1>7, <1>8, <1>9, <1>10, <1>11, <1>12, <1>13

\* uninstall() begins.
LEMMA BeginUninstallStep ==
  ASSUME IInv, NEW i \in Invokers, BeginUninstall(i), UNCHANGED regime
  PROVE  IInv'
<1> USE DEF IInv, TypeOK
<1>1. PICK alone \in BOOLEAN : op' = [op EXCEPT ![i] = [step |-> "open", alone |-> alone, todo |-> Deletes]]
  BY RegimesAssumption DEF BeginUninstall
<1>2. /\ ops' = [ops EXCEPT ![i] = @ + 1] /\ ops[i] < regime.max_ops /\ regime.max_ops \in Nat
      /\ UNCHANGED <<record, standalone, handles, service, registry, finished>>
  BY RegimesAssumption DEF BeginUninstall
<1>3. Deletes \in Seq(Entries)
  BY PlansAreSequences
<1>4. \A j \in Invokers : op'[j] = IF j = i THEN [step |-> "open", alone |-> alone, todo |-> Deletes] ELSE op[j]
  BY <1>1
<1>5. op[i].step = "idle"
  BY DEF BeginUninstall, At
<1>6. TypeOK'
  BY <1>1, <1>2, <1>3
<1>7. ParamsBelongToRecord'
  BY <1>2 DEF ParamsBelongToRecord
<1>8. FinishedInstallIsComplete'
  BY <1>2 DEF FinishedInstallIsComplete, Required
<1>9. Holders'
  BY <1>1, <1>2, <1>5 DEF Holders, Holding
<1>10. MarkedFirst'
  BY <1>1, <1>2 DEF MarkedFirst, At
<1>11. OneInstaller'
  BY <1>1 DEF OneInstaller, Installing
<1>12. Planned'
  BY <1>1 DEF Planned, At
<1>13. Written'
  BY <1>1, <1>2 DEF Written, Installing, Required
<1> QED
  BY <1>6, <1>7, <1>8, <1>9, <1>10, <1>11, <1>12, <1>13

\* Who creates the record is its only installer and has everything to write.
LEMMA CreateServiceStep ==
  ASSUME IInv, NEW i \in Invokers, CreateService(i), UNCHANGED regime
  PROVE  IInv'
<1> USE DEF IInv, TypeOK
<1>1. CASE Return(i) /\ UNCHANGED finished
  BY <1>1, ReturnStep
<1>2. CASE record = "absent" /\ record' = "present" /\ standalone' = op[i].alone
          /\ handles' = handles \cup {i}
          /\ finished' = FALSE /\ GoTo(i, "describe") /\ UNCHANGED <<service, registry, ops>>
  <2>1. op' = [op EXCEPT ![i].step = "describe"]
    BY <1>2 DEF GoTo
  <2>2. \A j \in Invokers : op'[j] = IF j = i THEN [op[i] EXCEPT !.step = "describe"] ELSE op[j]
    BY <1>2, <2>1
  <2>3. /\ \A j \in Invokers : op[j].step \notin Holding
        /\ op[i].todo = Writes(op[i].alone)
    BY <1>2 DEF CreateService, Holders, Planned, At
  <2>4. \A e \in Required' : \E k \in 1 .. Len(Writes(op[i].alone)) : Writes(op[i].alone)[k] = e
    BY <1>2, PlansAreSequences DEF Required, Writes, Entries, GroupEntries, ParamEntries
  <2>5. TypeOK'
    BY <1>2, <2>1
  <2>6. ParamsBelongToRecord'
    BY <1>2 DEF ParamsBelongToRecord
  <2>7. FinishedInstallIsComplete'
    BY <1>2 DEF FinishedInstallIsComplete, Required
  <2>8. Holders'
    BY <1>2, <2>2 DEF Holders, Holding
  <2>9. MarkedFirst'
    BY <2>2, <2>3 DEF MarkedFirst, At, Holding
  <2>10. OneInstaller'
    BY <2>2, <2>3 DEF OneInstaller, Installing, Holding
  <2>11. Planned'
    BY <2>2 DEF Planned, At
  <2>12. Written'
    <3> SUFFICES ASSUME NEW j \in Invokers, Installing(j)', NEW e \in Required'
                 PROVE  \E k \in 1 .. Len(op'[j].todo) : op'[j].todo[k] = e
      BY DEF Written
    <3>1. j = i
      BY <2>2, <2>3 DEF Installing, Holding
    <3>2. op'[j].todo = Writes(op[i].alone)
      BY <2>2, <2>3, <3>1
    <3> QED
      BY <2>4, <3>2
  <2> QED
    BY <2>5, <2>6, <2>7, <2>8, <2>9, <2>10, <2>11, <2>12
<1> QED
  BY <1>1, <1>2 DEF CreateService

\* The description is outside the model.
LEMMA SetDescriptionStep ==
  ASSUME IInv, NEW i \in Invokers, SetDescription(i), UNCHANGED regime
  PROVE  IInv'
<1> USE DEF IInv, TypeOK
<1>1. CASE Return(i) /\ UNCHANGED finished
  BY <1>1, ReturnStep
<1>2. CASE At(i, "describe") /\ GoTo(i, "write")
          /\ UNCHANGED <<record, standalone, handles, service, registry, ops, finished>>
  <2>1. op' = [op EXCEPT ![i].step = "write"]
    BY <1>2 DEF GoTo
  <2>2. \A j \in Invokers : op'[j] = IF j = i THEN [op[i] EXCEPT !.step = "write"] ELSE op[j]
    BY <1>2, <2>1
  <2>3. op[i].step = "describe"
    BY <1>2 DEF At
  <2>4. TypeOK'
    BY <1>2, <2>1
  <2>5. ParamsBelongToRecord'
    BY <1>2 DEF ParamsBelongToRecord
  <2>6. FinishedInstallIsComplete'
    BY <1>2 DEF FinishedInstallIsComplete, Required
  <2>7. Holders'
    BY <1>2, <2>2, <2>3 DEF Holders, Holding
  <2>8. MarkedFirst'
    BY <1>2, <2>2 DEF MarkedFirst, At
  <2>9. OneInstaller'
    BY <2>2, <2>3 DEF OneInstaller, Installing
  <2>10. Planned'
    BY <2>2 DEF Planned, At
  <2>11. Written'
    BY <1>2, <2>1, <2>3 DEF Written, Installing, Required
  <2> QED
    BY <2>4, <2>5, <2>6, <2>7, <2>8, <2>9, <2>10, <2>11
<1> QED
  BY <1>1, <1>2 DEF SetDescription

\* One value is written; it was the first of those still to be written.
LEMMA WriteRegistryStep ==
  ASSUME IInv, NEW i \in Invokers, WriteRegistry(i), UNCHANGED regime
  PROVE  IInv'
<1> USE DEF IInv, TypeOK
<1>1. CASE Return(i) /\ UNCHANGED finished
  BY <1>1, ReturnStep
<1>2. CASE /\ At(i, "write") /\ op[i].todo # <<>>
          /\ registry' = registry \cup {Head(op[i].todo)}
          /\ op' = [op EXCEPT ![i].todo = Tail(@)]
          /\ UNCHANGED <<record, standalone, handles, service, ops, finished>>
  <2>1. op' = [op EXCEPT ![i].todo = Tail(op[i].todo)] /\ op[i].step = "write"
    BY <1>2 DEF At
  <2>2. \A j \in Invokers : op'[j] = IF j = i THEN [op[i] EXCEPT !.todo = Tail(op[i].todo)] ELSE op[j]
    BY <1>2, <2>1
  <2>3. record # "absent"
    BY <1>2 DEF At, Holders, Holding
  <2>4. Head(op[i].todo) \in Entries /\ Tail(op[i].todo) \in Seq(Entries)
    <3>1. op[i].todo \in Seq(Entries) /\ op[i].todo # <<>>
      BY <1>2
    <3> QED
      BY <3>1, HeadAndTail
  <2>5. TypeOK'
    <3>1. [op[i] EXCEPT !.todo = Tail(op[i].todo)] \in [step : {"idle", "create", "describe", "write",
            "open", "stop", "delete", "unregister"}, alone : BOOLEAN, todo : Seq(Entries)]
      BY <2>4
    <3>2. registry' \subseteq Entries
      BY <1>2, <2>4
    <3> QED
      BY <1>2, <2>1, <2>3, <3>1, <3>2
  <2>6. ParamsBelongToRecord'
    BY <1>2, <2>3 DEF ParamsBelongToRecord
  <2>7. FinishedInstallIsComplete'
    BY <1>2 DEF FinishedInstallIsComplete, Required
  <2>8. Holders'
    BY <1>2 DEF Holders, Holding
  <2>9. MarkedFirst'
    BY <1>2 DEF MarkedFirst, At
  <2>10. OneInstaller'
    BY <2>1 DEF OneInstaller, Installing
  <2>11. Planned'
    BY <2>1 DEF Planned, At
  <2>12. Written'
    <3> SUFFICES ASSUME record' = "present", NEW j \in Invokers, Installing(j)', NEW e \in Required'
                 PROVE  e \in registry' \/ \E k \in 1 .. Len(op'[j].todo) : op'[j].todo[k] = e
      BY DEF Written
    <3>1. record = "present" /\ Installing(j) /\ e \in Required
      BY <1>2, <2>1, <2>2 DEF Installing, Required
    <3>2. e \in registry \/ \E k \in 1 .. Len(op[j].todo) : op[j].todo[k] = e
      BY <3>1 DEF Written
    <3>3. CASE j = i
      <4>1. op'[j].todo = Tail(op[i].todo)
        BY <2>2, <3>3
      <4>2. (\E k \in 1 .. Len(op[i].todo) : op[i].todo[k] = e) =>
              e = Head(op[i].todo) \/ \E k \in 1 .. Len(Tail(op[i].todo)) : Tail(op[i].todo)[k] = e
        <5>1. op[i].todo \in Seq(Entries) /\ op[i].todo # <<>>
          BY <1>2
        <5> HIDE DEF IInv, TypeOK
        <5> QED
          BY <5>1, HeadAndTail
      <4>3. Head(op[i].todo) \in registry' /\ registry \subseteq registry'
        BY <1>2
      <4>4. e \in registry' \/ \E k \in 1 .. Len(Tail(op[i].todo)) : Tail(op[i].todo)[k] = e
        <5> HIDE DEF IInv, TypeOK
        <5> QED
          BY <3>2, <3>3, <4>2, <4>3
      <4> QED
        BY <4>1, <4>4, Zenon
    <3>4. CASE j # i
      <4>1. op'[j] = op[j]
        BY <2>2, <3>4
      <4>2. registry \subseteq registry'
        BY <1>2
      <4> QED
        BY <3>2, <4>1, <4>2
    <3> QED
      BY <3>3, <3>4
  <2> QED
    BY <2>5, <2>6, <2>7, <2>8, <2>9, <2>10, <2>11, <2>12
<1> QED
  BY <1>1, <1>2 DEF WriteRegistry

\* install() returns normally.
LEMMA FinishInstallStep ==
  ASSUME IInv, NEW i \in Invokers, FinishInstall(i), UNCHANGED regime
  PROVE  IInv'
BY ReturnStep DEF FinishInstall

\* uninstall() takes hold of the record.
LEMMA OpenServiceStep ==
  ASSUME IInv, NEW i \in Invokers, OpenService(i), UNCHANGED regime
  PROVE  IInv'
<1> USE DEF IInv, TypeOK
<1>1. CASE Return(i) /\ UNCHANGED finished
  BY <1>1, ReturnStep
<1>2. CASE /\ At(i, "open") /\ record # "absent" /\ handles' = handles \cup {i} /\ GoTo(i, "stop")
          /\ UNCHANGED <<record, standalone, service, registry, ops, finished>>
  <2>1. op' = [op EXCEPT ![i].step = "stop"]
    BY <1>2 DEF GoTo
  <2>2. \A j \in Invokers : op'[j] = IF j = i THEN [op[i] EXCEPT !.step = "stop"] ELSE op[j]
    BY <1>2, <2>1
  <2>3. op[i].step = "open"
    BY <1>2 DEF At
  <2>4. TypeOK'
    BY <1>2, <2>1
  <2>5. ParamsBelongToRecord'
    BY <1>2 DEF ParamsBelongToRecord
  <2>6. FinishedInstallIsComplete'
    BY <1>2 DEF FinishedInstallIsComplete, Required
  <2>7. Holders'
    BY <1>2, <2>2 DEF Holders, Holding
  <2>8. MarkedFirst'
    BY <1>2, <2>2 DEF MarkedFirst, At
  <2>9. OneInstaller'
    BY <2>2 DEF OneInstaller, Installing
  <2>10. Planned'
    BY <2>2 DEF Planned, At
  <2>11. Written'
    BY <1>2, <2>1 DEF Written, Installing, Required
  <2> QED
    BY <2>4, <2>5, <2>6, <2>7, <2>8, <2>9, <2>10, <2>11
<1> QED
  BY <1>1, <1>2 DEF OpenService

\* A stop changes the service, not its record.
LEMMA ControlStopStep ==
  ASSUME IInv, NEW i \in Invokers, ControlStop(i), UNCHANGED regime
  PROVE  IInv'
<1> USE DEF IInv, TypeOK
<1>1. CASE Return(i) /\ UNCHANGED finished
  BY <1>1, ReturnStep
<1>2. CASE /\ At(i, "stop") /\ service \in {"running", "stopped"}
          /\ service' = (IF service = "running" THEN "stop_pending" ELSE service)
          /\ GoTo(i, "delete") /\ UNCHANGED <<record, standalone, handles, registry, ops, finished>>
  <2>1. op' = [op EXCEPT ![i].step = "delete"]
    BY <1>2 DEF GoTo
  <2>2. \A j \in Invokers : op'[j] = IF j = i THEN [op[i] EXCEPT !.step = "delete"] ELSE op[j]
    BY <1>2, <2>1
  <2>3. op[i].step = "stop"
    BY <1>2 DEF At
  <2>4. TypeOK'
    BY <1>2, <2>1
  <2>5. ParamsBelongToRecord'
    BY <1>2 DEF ParamsBelongToRecord
  <2>6. FinishedInstallIsComplete'
    BY <1>2 DEF FinishedInstallIsComplete, Required
  <2>7. Holders'
    BY <1>2, <2>2, <2>3 DEF Holders, Holding
  <2>8. MarkedFirst'
    BY <1>2, <2>2 DEF MarkedFirst, At
  <2>9. OneInstaller'
    BY <2>2 DEF OneInstaller, Installing
  <2>10. Planned'
    BY <2>2 DEF Planned, At
  <2>11. Written'
    BY <1>2, <2>1 DEF Written, Installing, Required
  <2> QED
    BY <2>4, <2>5, <2>6, <2>7, <2>8, <2>9, <2>10, <2>11
<1> QED
  BY <1>1, <1>2 DEF ControlStop

\* The record is marked, by somebody who holds it.
LEMMA DeleteServiceStep ==
  ASSUME IInv, NEW i \in Invokers, DeleteService(i), UNCHANGED regime
  PROVE  IInv'
<1> USE DEF IInv, TypeOK
<1>1. CASE Return(i) /\ UNCHANGED finished
  BY <1>1, ReturnStep
<1>2. CASE /\ At(i, "delete") /\ record = "present" /\ record' = "marked" /\ GoTo(i, "unregister")
          /\ UNCHANGED <<standalone, handles, service, registry, ops, finished>>
  <2>1. op' = [op EXCEPT ![i].step = "unregister"]
    BY <1>2 DEF GoTo
  <2>2. \A j \in Invokers : op'[j] = IF j = i THEN [op[i] EXCEPT !.step = "unregister"] ELSE op[j]
    BY <1>2, <2>1
  <2>3. op[i].step = "delete"
    BY <1>2 DEF At
  <2>4. TypeOK'
    BY <1>2, <2>1
  <2>5. ParamsBelongToRecord'
    BY <1>2 DEF ParamsBelongToRecord
  <2>6. FinishedInstallIsComplete'
    BY <1>2 DEF FinishedInstallIsComplete, Required
  <2>7. Holders'
    BY <1>2, <2>2, <2>3 DEF Holders, Holding
  <2>8. MarkedFirst'
    BY <1>2 DEF MarkedFirst, At
  <2>9. OneInstaller'
    BY <2>2 DEF OneInstaller, Installing
  <2>10. Planned'
    BY <2>2 DEF Planned, At
  <2>11. Written'
    BY <1>2 DEF Written, Installing, Required
  <2> QED
    BY <2>4, <2>5, <2>6, <2>7, <2>8, <2>9, <2>10, <2>11
<1> QED
  BY <1>1, <1>2 DEF DeleteService

\* The group goes while the marked record is still held: no installation is complete then.
LEMMA UnregisterStep ==
  ASSUME IInv, NEW i \in Invokers, Unregister(i), UNCHANGED regime
  PROVE  IInv'
<1> USE DEF IInv, TypeOK
<1>1. record = "marked" /\ op[i].step = "unregister" /\ op[i].todo # <<>>
  BY DEF Unregister, MarkedFirst, At
<1>2. Tail(op[i].todo) \in Seq(Entries) /\ <<>> \in Seq(Entries)
  BY <1>1, HeadAndTail
<1>3. PICK rest \in Seq(Entries) : op' = [op EXCEPT ![i].todo = rest]
  BY <1>2 DEF Unregister
<1>4. \A j \in Invokers : op'[j] = IF j = i THEN [op[i] EXCEPT !.todo = rest] ELSE op[j]
  BY <1>3
<1>5. registry' \subseteq registry /\ UNCHANGED <<record, standalone, handles, service, ops, finished>>
  BY DEF Unregister
<1>6. TypeOK'
  BY <1>3, <1>5
<1>7. ParamsBelongToRecord'
  BY <1>5 DEF ParamsBelongToRecord
<1>8. FinishedInstallIsComplete'
  BY <1>1, <1>5 DEF FinishedInstallIsComplete, Required
<1>9. Holders'
  BY <1>4, <1>5 DEF Holders, Holding
<1>10. MarkedFirst'
  BY <1>4, <1>5 DEF MarkedFirst, At
<1>11. OneInstaller'
  BY <1>4 DEF OneInstaller, Installing
<1>12. Planned'
  BY <1>1, <1>4 DEF Planned, At
<1>13. Written'
  BY <1>1, <1>5 DEF Written, Installing, Required
<1> QED
  BY <1>6, <1>7, <1>8, <1>9, <1>10, <1>11, <1>12, <1>13

\* uninstall() returns normally, or a process is killed.
LEMMA EndStep ==
  ASSUME IInv, NEW i \in Invokers, FinishUninstall(i) \/ Kill(i), UNCHANGED regime
  PROVE  IInv'
BY ReturnStep DEF FinishUninstall, Kill

\* The SCM starts the service, and the service ends; a marked record may go with it.
LEMMA ScmStep ==
  ASSUME IInv, StartService \/ StartEnds \/ ServiceStops, UNCHANGED regime
  PROVE  IInv'
<1> USE DEF IInv, TypeOK
<1>1. UNCHANGED <<standalone, handles, op, ops, finished>>
  BY DEF StartService, StartEnds, ServiceStops
<1>2. \/ /\ UNCHANGED <<record, registry>> /\ record # "absent"
         /\ service' \in {"stopped", "start_pending", "running"}
      \/ /\ record = "marked" /\ record' = "absent" /\ handles = {}
         /\ registry' = registry \ ParamEntries /\ service' = "stopped"
  BY DEF StartService, StartEnds, ServiceStops, Settle
<1>3. TypeOK'
  BY <1>1, <1>2
<1>4. ParamsBelongToRecord'
  BY <1>2 DEF ParamsBelongToRecord
<1>5. FinishedInstallIsComplete'
  BY <1>1, <1>2 DEF FinishedInstallIsComplete, Required
<1>6. Holders'
  BY <1>1 DEF Holders, Holding
<1>7. MarkedFirst'
  BY <1>1, <1>2 DEF MarkedFirst, At, Holders, Holding
<1>8. OneInstaller'
  BY <1>1 DEF OneInstaller, Installing
<1>9. Planned'
  BY <1>1 DEF Planned, At
<1>10. Written'
  BY <1>1, <1>2 DEF Written, Installing, Required, Holders, Holding
<1> QED
  BY <1>3, <1>4, <1>5, <1>6, <1>7, <1>8, <1>9, <1>10

\* A step of anybody keeps the invariant.
LEMMA NextStep ==
  ASSUME IInv, [Next]_vars
  PROVE  IInv'
<1>1. CASE UNCHANGED vars
  BY <1>1 DEF vars, IInv, TypeOK, ParamsBelongToRecord, FinishedInstallIsComplete, Required, Holders,
     MarkedFirst, OneInstaller, Installing, Planned, Written, At
<1>2. CASE Next
  <2>1. ASSUME NEW i \in Invokers, Invoke(i), UNCHANGED regime
        PROVE  IInv'
    BY <2>1, BeginInstallStep, BeginUninstallStep, EndStep DEF Invoke
  <2>2. ASSUME NEW i \in Invokers, Proceed(i), UNCHANGED regime
        PROVE  IInv'
    BY <2>2, CreateServiceStep, SetDescriptionStep, WriteRegistryStep, FinishInstallStep, OpenServiceStep,
       ControlStopStep, DeleteServiceStep, UnregisterStep, EndStep DEF Proceed
  <2>3. regime.invokers \subseteq Invokers
    BY RegimesAssumption DEF IInv, TypeOK
  <2> QED
    BY <1>2, <2>1, <2>2, <2>3, ScmStep DEF Next
<1> QED
  BY <1>1, <1>2

\* It holds at first.
LEMMA InitStep == Init => IInv
<1> SUFFICES ASSUME Init PROVE IInv
  OBVIOUS
<1>1. Idle \in [step : {"idle", "create", "describe", "write", "open", "stop",
                    "delete", "unregister"}, alone : BOOLEAN, todo : Seq(Entries)]
  BY DEF Idle
<1>2. /\ record = "absent" /\ handles = {} /\ registry = {} /\ finished = FALSE
      /\ \A i \in Invokers : op[i].step = "idle"
  BY DEF Init, Idle
<1>3. regime \in Regimes /\ 0 \in 0 .. regime.max_ops
  BY RegimesAssumption DEF Init
<1>4. TypeOK
  BY <1>1, <1>3 DEF Init, TypeOK
<1>5. ParamsBelongToRecord /\ FinishedInstallIsComplete /\ Written
  BY <1>2 DEF ParamsBelongToRecord, FinishedInstallIsComplete, Written
<1>6. Holders /\ MarkedFirst /\ OneInstaller /\ Planned
  BY <1>2 DEF Holders, Holding, MarkedFirst, OneInstaller, Installing, Planned, At
<1> QED
  BY <1>4, <1>5, <1>6 DEF IInv

\* The inductive invariant holds.
LEMMA Invariance == Spec => []IInv
BY InitStep, NextStep, PTL DEF Spec

-----------------------------------------------------------------------------
(* The theorems. *)

\* The variables have their types, and a service that is not installed has no
\* handles and does not run (service_manager.cpp).
THEOREM TypeCorrect == Spec => []TypeOK
<1>1. IInv => TypeOK
  BY DEF IInv
<1> QED
  BY <1>1, Invariance, PTL

\* What an install() that returned normally has set up stays until the record is
\* deleted, whoever overlaps with it.
THEOREM InstallStaysComplete == Spec => []FinishedInstallIsComplete
<1>1. IInv => FinishedInstallIsComplete
  BY DEF IInv
<1> QED
  BY <1>1, Invariance, PTL

\* No Parameters value is ever left without the record of the service, also when an
\* uninstall() deletes the record in the middle of an install().
THEOREM ParamsGoWithRecord == Spec => []ParamsBelongToRecord
<1>1. IInv => ParamsBelongToRecord
  BY DEF IInv
<1> QED
  BY <1>1, Invariance, PTL

\* The four things that can happen to the record and its values, and what each is
\* to the installed service.
LEMMA MappedStep ==
  ASSUME IInv, IInv',
         \/ UNCHANGED <<record, standalone>> /\ (record = "present" => registry \subseteq registry')
         \/ record = "absent" /\ record' = "present" /\ UNCHANGED registry
         \/ record = "present" /\ record' = "marked"
         \/ record = "marked" /\ record' = "absent"
  PROVE  [Installation!Next]_InstallationState
<1> USE DEF Installation!Next, Installation!Create, Installation!Complete, Installation!Delete,
        Installation!Remove
<1>1. CASE UNCHANGED <<record, standalone>> /\ (record = "present" => registry \subseteq registry')
  <2>1. UNCHANGED Required
    BY <1>1 DEF Required
  <2>2. CASE record = "present"
    BY <1>1, <2>1, <2>2 DEF InstallationState
  <2>3. CASE record # "present"
    BY <1>1, <2>3 DEF InstallationState, IInv, TypeOK
  <2> QED
    BY <2>2, <2>3
<1>2. CASE record = "absent" /\ record' = "present" /\ UNCHANGED registry
  <2>1. "startup_configuration" \notin registry'
    BY <1>2 DEF IInv, ParamsBelongToRecord, ParamEntries
  <2>2. ~(Required' \subseteq registry')
    BY <2>1 DEF Required, Entries, ParamEntries
  <2> QED
    BY <1>2, <2>2 DEF InstallationState
<1>3. CASE record = "present" /\ record' = "marked"
  BY <1>3 DEF InstallationState
<1>4. CASE record = "marked" /\ record' = "absent"
  BY <1>4 DEF InstallationState
<1> QED
  BY <1>1, <1>2, <1>3, <1>4

\* Every step is one of the four.
LEMMA RefinedStep ==
  ASSUME IInv, IInv', [Next]_vars
  PROVE  [Installation!Next]_InstallationState
<1> DEFINE Grows == UNCHANGED <<record, standalone>> /\ (record = "present" => registry \subseteq registry')
           Created == record = "absent" /\ record' = "present" /\ UNCHANGED registry
           Marked == record = "present" /\ record' = "marked"
           Removed == record = "marked" /\ record' = "absent"
<1>1. ASSUME NEW i, Return(i)
      PROVE  Grows \/ Removed
  BY <1>1 DEF Return, Settle
<1>2. ASSUME NEW i, Invoke(i)
      PROVE  Grows \/ Removed
  BY <1>1, <1>2 DEF Invoke, BeginInstall, BeginUninstall, Kill
<1>3. ASSUME NEW i \in Invokers, Proceed(i)
      PROVE  Grows \/ Created \/ Marked \/ Removed
  <2>1. CASE CreateService(i)
    BY <1>1, <2>1 DEF CreateService
  <2>2. CASE SetDescription(i) \/ WriteRegistry(i) \/ FinishInstall(i)
    BY <1>1, <2>2 DEF SetDescription, WriteRegistry, FinishInstall
  <2>3. CASE OpenService(i) \/ ControlStop(i) \/ FinishUninstall(i)
    BY <1>1, <2>3 DEF OpenService, ControlStop, FinishUninstall
  <2>4. CASE DeleteService(i)
    BY <1>1, <2>4 DEF DeleteService
  <2>5. CASE Unregister(i)
    <3>1. record = "marked"
      BY <2>5 DEF Unregister, IInv, MarkedFirst
    <3> QED
      BY <2>5, <3>1 DEF Unregister
  <2> QED
    BY <1>3, <2>1, <2>2, <2>3, <2>4, <2>5 DEF Proceed
<1>4. ASSUME StartService \/ StartEnds \/ ServiceStops
      PROVE  Grows \/ Removed
  BY <1>4 DEF StartService, StartEnds, ServiceStops, Settle
<1>5. UNCHANGED vars => Grows
  BY DEF vars
<1>6. Grows \/ Created \/ Marked \/ Removed
  BY <1>2, <1>3, <1>4, <1>5 DEF Next
<1> QED
  BY <1>6, MappedStep

\* However invocations overlap, fail and are killed, a service gains its values only
\* after it was created and loses none before it is deleted (service_manager.cpp).
THEOREM InstallationRefined == Spec => RefinesInstallation
<1>1. Init => Installation!Init
  BY DEF Init, Installation!Init, InstallationState
<1>2. IInv /\ IInv' /\ [Next]_vars => [Installation!Next]_InstallationState
  BY RefinedStep
<1> QED
  BY <1>1, <1>2, Invariance, PTL DEF Spec, RefinesInstallation, Installation!Spec

-----------------------------------------------------------------------------
(* Uninstalling cleans up, for any number of undisturbed invocations one   *)
(* after the other, with the SCM starting and stopping the service in      *)
(* between.  IInv knows which values are there; here one has to know which *)
(* are not: Clean says what there is of the group's values at each step of *)
(* install() and uninstall().                                              *)

Active(i) == ~At(i, "idle")

Group == registry \cap GroupEntries

\* Only one invocation is active, and it and the record are of the same kind.
OneKind ==
  /\ \A i \in Invokers : Active(i) => i \in regime.invokers /\ op[i].alone \in regime.modes
  /\ record # "absent" => standalone \in regime.modes

\* Nobody marks a record that is being installed.
InstallsPresent == \A i \in Invokers : Installing(i) => record = "present"

\* A standalone service has only its configuration to write.
AlonePlan ==
  \A i \in Invokers : (At(i, "create") \/ Installing(i)) /\ op[i].alone =>
    op[i].todo \in {<<"startup_configuration">>, <<>>}

DeletePlan ==
  \A i \in Invokers : At(i, "open") \/ At(i, "stop") \/ At(i, "delete") => op[i].todo = Deletes

\* What unregister_svchost still has to delete is what is left of the group.
Unregistering(i) ==
  /\ At(i, "unregister")
  /\ \/ op[i].todo = Deletes /\ Group = GroupEntries
     \/ op[i].todo = <<"group_value">> /\ Group = {"group_value"}
     \/ op[i].todo = <<>> /\ Group = {}

GroupOfRecord ==
  /\ record # "absent" /\ standalone => Group = {}
  /\ record = "absent" => registry = {}
  /\ record = "present" /\ ~standalone =>
       Group = GroupEntries \/ \E i \in Invokers : Installing(i)
  /\ record = "marked" /\ ~standalone =>
       IF \E i \in Invokers : At(i, "unregister") THEN \E i \in Invokers : Unregistering(i)
       ELSE Group = {}

Clean ==
  /\ OneKind
  /\ InstallsPresent
  /\ AlonePlan
  /\ DeletePlan
  /\ GroupOfRecord

CleanInv == Undisturbed => Clean

-----------------------------------------------------------------------------
(* The steps, when nothing disturbs them. *)

\* Whoever is active is alone, and of the kind of the record.
LEMMA OneActive ==
  ASSUME IInv, Undisturbed, Clean, NEW i \in Invokers, Active(i)
  PROVE  /\ \A j \in Invokers : Active(j) => j = i
         /\ record # "absent" => op[i].alone = standalone
BY DEF Undisturbed, Clean, OneKind

\* Only a return or a removal makes a record go, and takes what is left with it.
LEMMA SettledStep ==
  ASSUME IInv, Undisturbed, Clean, NEW mark, NEW holders, NEW state,
         mark = record, UNCHANGED standalone, Settle(mark, holders, state),
         record = "present" /\ ~standalone => Group = GroupEntries,
         record = "marked" => Group = {}
  PROVE  /\ record' \in {record, "absent"}
         /\ record' = "absent" => registry' = {}
         /\ record' = "present" /\ ~standalone => Group' = GroupEntries
         /\ record' = "marked" => Group' = {}
         /\ record' # "absent" => UNCHANGED registry
<1>1. CASE record' = mark /\ UNCHANGED registry
  BY <1>1 DEF Clean, GroupOfRecord, Group
<1>2. CASE mark = "marked" /\ record' = "absent" /\ registry' = registry \ ParamEntries
  BY <1>2 DEF IInv, TypeOK, Entries, Group
<1> QED
  BY <1>1, <1>2 DEF Settle

\* An invocation that has done all it had to do returns.
LEMMA ReturnKeepsClean ==
  ASSUME IInv, Undisturbed, Clean, UNCHANGED regime, NEW i \in Invokers, Active(i), Return(i),
         Installing(i) => op[i].todo = <<>>,
         At(i, "unregister") => op[i].alone \/ op[i].todo = <<>>
  PROVE  Clean'
<1>1. \A j \in Invokers : op'[j].step = "idle"
  <2>1. op' = [op EXCEPT ![i] = Idle]
    BY DEF Return
  <2> QED
    BY <2>1, OneActive DEF Idle, Active, At, IInv, TypeOK
<1>2. record = "present" /\ ~standalone => Group = GroupEntries
  <2>1. CASE Installing(i)
    <3>1. record = "present" => Required \subseteq registry
      BY <2>1 DEF IInv, Written
    <3> QED
      BY <3>1 DEF Required, Entries, Group
  <2>2. CASE ~Installing(i)
    BY <2>2, OneActive DEF Active, At, Installing, Clean, GroupOfRecord
  <2> QED
    BY <2>1, <2>2
<1>3. record = "marked" => Group = {}
  <2>1. CASE At(i, "unregister") /\ ~standalone
    BY <2>1, OneActive DEF Clean, GroupOfRecord, Unregistering, Deletes, Active, At
  <2>2. CASE ~At(i, "unregister") \/ standalone
    BY <2>2, OneActive DEF Clean, GroupOfRecord, Active, At
  <2> QED
    BY <2>1, <2>2
<1>4. Settle(record, handles \ {i}, service) /\ UNCHANGED standalone
  BY DEF Return
<1>5. /\ record' \in {record, "absent"}
      /\ record' = "absent" => registry' = {}
      /\ record' = "present" /\ ~standalone => Group' = GroupEntries
      /\ record' = "marked" => Group' = {}
      /\ record' # "absent" => UNCHANGED registry
  BY <1>2, <1>3, <1>4, SettledStep
<1>6. GroupOfRecord'
  BY <1>1, <1>4, <1>5 DEF GroupOfRecord, At, Clean, Group
<1> QED
  BY <1>1, <1>4, <1>5, <1>6
  DEF Clean, OneKind, InstallsPresent, AlonePlan, DeletePlan, Active, Installing, At

\* An invocation begins when no other is active.
LEMMA BeginKeepsClean ==
  ASSUME IInv, Undisturbed, Clean, UNCHANGED regime, NEW i \in Invokers, i \in regime.invokers,
         BeginInstall(i) \/ BeginUninstall(i)
  PROVE  Clean'
<1>1. \A j \in Invokers : op[j].step = "idle"
  BY DEF BeginInstall, BeginUninstall, Undisturbed, Clean, OneKind, Active, At
<1>2. PICK step \in {"create", "open"}, alone \in regime.modes :
        op' = [op EXCEPT ![i] = [step |-> step, alone |-> alone,
                                 todo |-> IF step = "open" THEN Deletes ELSE Writes(alone)]]
  BY DEF BeginInstall, BeginUninstall
<1>3. /\ op'[i].step = step /\ op'[i].alone = alone
      /\ op'[i].todo = IF step = "open" THEN Deletes ELSE Writes(alone)
      /\ \A j \in Invokers : j # i => op'[j] = op[j]
  BY <1>2 DEF IInv, TypeOK
<1>4. UNCHANGED <<record, standalone, registry>>
  BY DEF BeginInstall, BeginUninstall
<1>5. OneKind'
  BY <1>1, <1>3, <1>4 DEF Clean, OneKind, Active, At
<1>6. InstallsPresent' /\ AlonePlan' /\ DeletePlan'
  BY <1>1, <1>3 DEF InstallsPresent, AlonePlan, DeletePlan, Installing, At, Writes
<1>7. GroupOfRecord'
  BY <1>1, <1>3, <1>4 DEF Clean, GroupOfRecord, Group, Installing, At
<1> QED
  BY <1>5, <1>6, <1>7 DEF Clean

\* An invocation goes from one step to the next and leaves the rest alone.
Moves(i, from, to) ==
  /\ At(i, from)
  /\ op' = [op EXCEPT ![i].step = to]

\* What that says of each invoker and step.
LEMMA MovesExplained ==
  ASSUME IInv, NEW i \in Invokers, NEW from, NEW to, Moves(i, from, to)
  PROVE  /\ op'[i].step = to /\ op'[i].alone = op[i].alone /\ op'[i].todo = op[i].todo
         /\ \A j \in Invokers : j # i => op'[j] = op[j]
         /\ op[i].step = from
BY DEF Moves, At, IInv, TypeOK

\* The record is created where nothing was left.
LEMMA CreateKeepsClean ==
  ASSUME IInv, Undisturbed, Clean, UNCHANGED regime, NEW i \in Invokers,
         Moves(i, "create", "describe"), record = "absent", record' = "present",
         standalone' = op[i].alone, UNCHANGED registry
  PROVE  Clean'
<1>1. Active(i)
  BY DEF Moves, Active, At
<1>2. \A j \in Invokers : j # i => op'[j].step = "idle"
  BY <1>1, MovesExplained, OneActive DEF Active, At
<1>3. registry' = {}
  BY DEF Clean, GroupOfRecord
<1>4. GroupOfRecord'
  BY <1>3, MovesExplained DEF GroupOfRecord, Group, Installing
<1>5. OneKind'
  BY <1>1, <1>2, MovesExplained DEF Clean, OneKind, Active, At
<1>6. InstallsPresent' /\ AlonePlan' /\ DeletePlan'
  BY <1>2, MovesExplained DEF Clean, InstallsPresent, AlonePlan, DeletePlan, Installing, At
<1> QED
  BY <1>4, <1>5, <1>6 DEF Clean

\* Steps that neither touch the record nor the registry.
LEMMA MoveKeepsClean ==
  ASSUME IInv, Undisturbed, Clean, UNCHANGED <<regime, record, standalone, registry>>,
         NEW i \in Invokers,
         \/ Moves(i, "describe", "write")
         \/ Moves(i, "open", "stop")
         \/ Moves(i, "stop", "delete")
  PROVE  Clean'
<1>1. PICK from \in {"describe", "open", "stop"}, to \in {"write", "stop", "delete"} :
        Moves(i, from, to) /\ (from = "describe" <=> to = "write")
  OBVIOUS
<1>2. Active(i)
  BY <1>1 DEF Moves, Active, At
<1>3. \A j \in Invokers : j # i => op'[j].step = "idle" /\ op[j].step = "idle"
  BY <1>1, <1>2, MovesExplained, OneActive DEF Active, At
<1>4. OneKind'
  BY <1>1, <1>2, <1>3, MovesExplained DEF Clean, OneKind, Active, At
<1>5. InstallsPresent' /\ AlonePlan' /\ DeletePlan'
  BY <1>1, <1>3, MovesExplained DEF Clean, InstallsPresent, AlonePlan, DeletePlan, Installing, At
<1>6. GroupOfRecord'
  BY <1>1, <1>3, MovesExplained DEF Clean, GroupOfRecord, Group, Installing, At
<1> QED
  BY <1>4, <1>5, <1>6 DEF Clean

\* A standalone service has no value of the group to write.
LEMMA WriteKeepsClean ==
  ASSUME IInv, Undisturbed, Clean, UNCHANGED <<regime, record, standalone>>,
         NEW i \in Invokers, At(i, "write"), op[i].todo # <<>>,
         registry' = registry \cup {Head(op[i].todo)},
         op' = [op EXCEPT ![i].todo = Tail(op[i].todo)]
  PROVE  Clean'
<1>1. Active(i) /\ Installing(i) /\ record = "present"
  BY DEF Active, At, Installing, Clean, InstallsPresent
<1>2. /\ op'[i].step = "write" /\ op'[i].alone = op[i].alone /\ op'[i].todo = Tail(op[i].todo)
      /\ \A j \in Invokers : j # i => op'[j] = op[j] /\ op[j].step = "idle"
  BY <1>1, OneActive DEF IInv, TypeOK, Active, At
<1>3. op[i].alone => op[i].todo = <<"startup_configuration">>
  BY <1>1 DEF Clean, AlonePlan
<1>4. op[i].alone => op'[i].todo = <<>> /\ Group' = Group
  <2> SUFFICES ASSUME op[i].alone
               PROVE  op'[i].todo = <<>> /\ Group' = Group
    OBVIOUS
  <2>1. Head(op[i].todo) = "startup_configuration" /\ Tail(op[i].todo) = <<>>
    <3>1. \A e : Head(<<e>>) = e /\ Tail(<<e>>) = <<>>
      OBVIOUS
    <3> QED
      BY <1>3, <3>1, Zenon
  <2>2. registry' = registry \cup {"startup_configuration"}
    BY <2>1
  <2>3. Group' = Group
    BY <2>2 DEF Group, GroupEntries
  <2> QED
    BY <1>2, <2>1, <2>3
<1>5. op[i].alone = standalone
  BY <1>1, OneActive
<1>6. GroupOfRecord'
  BY <1>1, <1>2, <1>4, <1>5 DEF Clean, GroupOfRecord, Installing
<1>7. OneKind'
  BY <1>1, <1>2 DEF Clean, OneKind, Active, At
<1>8. InstallsPresent' /\ AlonePlan' /\ DeletePlan'
  BY <1>1, <1>2, <1>4 DEF InstallsPresent, AlonePlan, DeletePlan, Installing, At
<1> QED
  BY <1>6, <1>7, <1>8 DEF Clean

\* A record that is marked leaves the whole group to be deleted.
LEMMA DeleteKeepsClean ==
  ASSUME IInv, Undisturbed, Clean, UNCHANGED <<regime, standalone, registry>>,
         NEW i \in Invokers, Moves(i, "delete", "unregister"),
         record = "present", record' = "marked"
  PROVE  Clean'
<1>1. Active(i)
  BY DEF Moves, Active, At
<1>2. \A j \in Invokers : j # i => op'[j].step = "idle" /\ op[j].step = "idle"
  BY <1>1, MovesExplained, OneActive DEF Active, At
<1>3. op'[i].todo = Deletes
  BY MovesExplained DEF Clean, DeletePlan, At
<1>4. ~standalone => Group = GroupEntries
  BY <1>2, MovesExplained DEF Clean, GroupOfRecord, Installing
<1>5. GroupOfRecord'
  BY <1>2, <1>3, <1>4, MovesExplained DEF Clean, GroupOfRecord, Unregistering, Group, At
<1>6. OneKind'
  BY <1>1, <1>2, MovesExplained DEF Clean, OneKind, Active, At
<1>7. InstallsPresent' /\ AlonePlan' /\ DeletePlan'
  BY <1>2, MovesExplained DEF InstallsPresent, AlonePlan, DeletePlan, Installing, At
<1> QED
  BY <1>5, <1>6, <1>7 DEF Clean

\* The values of the group are found, and go one after the other.
LEMMA UnregisterKeepsClean ==
  ASSUME IInv, Undisturbed, Clean, UNCHANGED regime, NEW i \in Invokers, Unregister(i)
  PROVE  Clean'
<1>1. At(i, "unregister") /\ ~op[i].alone /\ op[i].todo # <<>>
      /\ UNCHANGED <<record, standalone>>
  BY DEF Unregister
<1>2. Active(i) /\ record = "marked" /\ ~standalone
  BY <1>1, OneActive DEF Active, At, IInv, MarkedFirst
<1>3. \A j \in Invokers : j # i => op[j].step = "idle"
  BY <1>2, OneActive DEF Active, At
<1>4. Unregistering(i)
  BY <1>1, <1>2, <1>3 DEF Clean, GroupOfRecord, Unregistering, At
<1>5. Head(op[i].todo) \in registry
  BY <1>1, <1>4 DEF Unregistering, Deletes, Group, GroupEntries
<1>6. registry' = registry \ {Head(op[i].todo)} /\ op' = [op EXCEPT ![i].todo = Tail(op[i].todo)]
  BY <1>5 DEF Unregister, Undisturbed
<1>7. /\ op'[i].step = "unregister" /\ op'[i].alone = op[i].alone
      /\ op'[i].todo = Tail(op[i].todo)
      /\ \A j \in Invokers : j # i => op'[j].step = "idle"
  BY <1>1, <1>3, <1>6 DEF IInv, TypeOK, At
<1>8. Unregistering(i)'
  <2>1. CASE op[i].todo = Deletes /\ Group = GroupEntries
    <3>1. Head(op[i].todo) = "group_key" /\ Tail(op[i].todo) = <<"group_value">>
      BY <2>1 DEF Deletes
    <3> QED
      BY <1>6, <1>7, <2>1, <3>1 DEF Unregistering, Group, GroupEntries, At
  <2>2. CASE op[i].todo = <<"group_value">> /\ Group = {"group_value"}
    <3>1. Head(op[i].todo) = "group_value" /\ Tail(op[i].todo) = <<>>
      BY <2>2
    <3> QED
      BY <1>6, <1>7, <2>2, <3>1 DEF Unregistering, Group, GroupEntries, At
  <2> QED
    BY <1>1, <1>4, <2>1, <2>2 DEF Unregistering
<1>9. GroupOfRecord'
  BY <1>1, <1>2, <1>8 DEF GroupOfRecord, Unregistering
<1>10. OneKind'
  BY <1>1, <1>2, <1>7 DEF Clean, OneKind, Active, At
<1>11. InstallsPresent' /\ AlonePlan' /\ DeletePlan'
  BY <1>7 DEF InstallsPresent, AlonePlan, DeletePlan, Installing, At
<1> QED
  BY <1>9, <1>10, <1>11 DEF Clean

\* The SCM removes a marked record only when nobody unregisters any more.
LEMMA ScmKeepsClean ==
  ASSUME IInv, Undisturbed, Clean, UNCHANGED regime, StartService \/ StartEnds \/ ServiceStops
  PROVE  Clean'
<1>1. UNCHANGED <<standalone, op>>
  BY DEF StartService, StartEnds, ServiceStops
<1>2. CASE UNCHANGED <<record, registry>>
  BY <1>1, <1>2 DEF Clean, OneKind, InstallsPresent, AlonePlan, DeletePlan, GroupOfRecord,
                    Unregistering, Group, Active, Installing, At
<1>3. CASE record = "marked" /\ handles = {} /\ record' = "absent" /\ registry' = registry \ ParamEntries
  <2>1. \A i \in Invokers : ~At(i, "unregister") /\ ~Installing(i)
    BY <1>3 DEF IInv, Holders, Holding, At, Installing
  <2>2. Group = {}
    BY <1>3, <2>1 DEF Clean, GroupOfRecord
  <2>3. registry' = {}
    BY <1>3, <2>2 DEF IInv, TypeOK, Entries, Group
  <2> QED
    BY <1>1, <1>3, <2>1, <2>3
    DEF Clean, OneKind, InstallsPresent, AlonePlan, DeletePlan, GroupOfRecord, Active,
        Installing, At
<1> QED
  BY <1>2, <1>3 DEF StartService, StartEnds, ServiceStops, Settle

\* A step of an invocation that nothing disturbs: no call fails, so what returns
\* early has found no record, a marked one, or a service it cannot stop.
LEMMA ProceedKeepsClean ==
  ASSUME IInv, Undisturbed, Clean, UNCHANGED regime, NEW i \in Invokers, Proceed(i)
  PROVE  Clean'
<1>1. ~regime.may_fail
  BY DEF Undisturbed
<1>2. Active(i)
  BY DEF Proceed, CreateService, SetDescription, WriteRegistry, FinishInstall, OpenService,
         ControlStop, DeleteService, Unregister, FinishUninstall, Active, At
<1>3. CASE CreateService(i)
  BY <1>2, <1>3, CreateKeepsClean, ReturnKeepsClean DEF CreateService, Moves, GoTo, At, Installing
<1>4. CASE SetDescription(i)
  <2>1. record = "present"
    BY <1>4 DEF SetDescription, At, Installing, Clean, InstallsPresent
  <2> QED
    BY <1>1, <1>4, <2>1, MoveKeepsClean DEF SetDescription, Moves, GoTo
<1>5. CASE WriteRegistry(i)
  BY <1>1, <1>5, WriteKeepsClean DEF WriteRegistry
<1>6. CASE FinishInstall(i)
  BY <1>2, <1>6, ReturnKeepsClean DEF FinishInstall, At
<1>7. CASE OpenService(i)
  BY <1>2, <1>7, MoveKeepsClean, ReturnKeepsClean DEF OpenService, Moves, GoTo, At, Installing
<1>8. CASE ControlStop(i)
  BY <1>2, <1>8, MoveKeepsClean, ReturnKeepsClean DEF ControlStop, Moves, GoTo, At, Installing
<1>9. CASE DeleteService(i)
  BY <1>2, <1>9, DeleteKeepsClean, ReturnKeepsClean DEF DeleteService, Moves, GoTo, At, Installing
<1>10. CASE Unregister(i)
  BY <1>10, UnregisterKeepsClean
<1>11. CASE FinishUninstall(i)
  BY <1>2, <1>11, ReturnKeepsClean DEF FinishUninstall, At, Installing
<1> QED
  BY <1>3, <1>4, <1>5, <1>6, <1>7, <1>8, <1>9, <1>10, <1>11 DEF Proceed

\* Every step keeps the registry clean where nothing disturbs.
LEMMA CleanStep ==
  ASSUME IInv, CleanInv, [Next]_vars
  PROVE  CleanInv'
<1>1. CASE UNCHANGED vars
  BY <1>1 DEF vars, CleanInv, Undisturbed, Clean, OneKind, InstallsPresent, AlonePlan, DeletePlan,
              GroupOfRecord, Unregistering, Group, Active, Installing, At
<1>2. CASE Next
  <2> SUFFICES ASSUME Undisturbed'
               PROVE  Clean'
    BY DEF CleanInv
  <2>1. UNCHANGED regime
    BY <1>2 DEF Next
  <2>2. Undisturbed /\ Clean
    BY <2>1 DEF Undisturbed, CleanInv
  <2>3. regime.invokers \subseteq Invokers
    BY RegimesAssumption DEF IInv, TypeOK
  <2>4. ASSUME NEW i \in regime.invokers, Invoke(i)
        PROVE  Clean'
    BY <2>1, <2>2, <2>3, <2>4, BeginKeepsClean DEF Invoke, Kill, Undisturbed
  <2> QED
    BY <1>2, <2>1, <2>2, <2>4, ProceedKeepsClean, ScmKeepsClean DEF Next
<1> QED
  BY <1>1, <1>2

-----------------------------------------------------------------------------
(* The theorem. *)

\* However often a service is installed and uninstalled, when it is gone nothing of
\* it is left in the registry: neither in its own key nor in the group's.
THEOREM UninstallLeavesNothing == Spec => []UninstallCleans
<1>1. Init => CleanInv
  <2> SUFFICES ASSUME Init
               PROVE  CleanInv
    OBVIOUS
  <2>1. \A i \in Invokers : op[i].step = "idle"
    <3>1. \A i \in Invokers : op[i] = Idle
      BY DEF Init
    <3>2. Idle.step = "idle"
      BY DEF Idle
    <3> QED
      BY <3>1, <3>2
  <2>2. record = "absent" /\ registry = {}
    BY DEF Init
  <2> QED
    BY <2>1, <2>2 DEF CleanInv, Clean, OneKind, InstallsPresent, AlonePlan, DeletePlan,
                GroupOfRecord, Group, Active, Installing, At
<1>2. IInv /\ CleanInv /\ [Next]_vars => CleanInv'
  BY CleanStep
<1>3. CleanInv => UninstallCleans
  BY DEF CleanInv, Clean, GroupOfRecord, UninstallCleans
<1> QED
  BY <1>1, <1>2, <1>3, Invariance, PTL DEF Spec

=============================================================================
