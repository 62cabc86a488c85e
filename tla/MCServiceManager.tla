-------------------------- MODULE MCServiceManager --------------------------
(***************************************************************************)
(* Instances of ServiceManager for TLC.                                    *)
(***************************************************************************)
EXTENDS ServiceManager

CONSTANTS i1, i2

TwoInvokers == {i1, i2}

Regime(invokers, max_ops, modes, may_fail) ==
  [invokers |-> invokers, max_ops |-> max_ops, modes |-> modes, may_fail |-> may_fail]

\* Everything at once; and undisturbed, as either kind of service.
MixedAndUndisturbed ==
  {Regime({i1, i2}, 2, BOOLEAN, TRUE)}
    \cup {Regime({i1}, 4, {alone}, FALSE) : alone \in BOOLEAN}

=============================================================================
