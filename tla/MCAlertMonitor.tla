---------------------------- MODULE MCAlertMonitor ----------------------------
(***************************************************************************)
(* Instances of AlertMonitor for TLC.                                      *)
(***************************************************************************)
EXTENDS AlertMonitor, TLC

\* No property names a run.
Symmetry == Permutations(Runs)

\* The services and certificates pass: each is a check like that of the gauge.
MCCertSets == {{"valid"}}
MCServiceSets == {{}}
MCIncrease == [g \in Gauges |-> 30]
MCMinimum == [g \in Gauges |-> 70]
=============================================================================
