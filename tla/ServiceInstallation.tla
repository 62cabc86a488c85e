------------------------- MODULE ServiceInstallation -------------------------
(***************************************************************************)
(* What installing and uninstalling promise of one service, whoever        *)
(* invokes them, however they overlap and wherever they fail: it becomes   *)
(* complete after it was created, and what is complete stays complete      *)
(* until it is deleted.                                                    *)
(***************************************************************************)

VARIABLE service

States == {"absent", "incomplete", "complete", "deleted"}

Init == service = "absent"

Create == service = "absent" /\ service' = "incomplete"

Complete == service = "incomplete" /\ service' = "complete"

Delete == service \in {"incomplete", "complete"} /\ service' = "deleted"

Remove == service = "deleted" /\ service' = "absent"

Next ==
  \/ Create
  \/ Complete
  \/ Delete
  \/ Remove

Spec == Init /\ [][Next]_service

=============================================================================
