------------------------------ MODULE MCAlerts ------------------------------
(* Model values for TLC.                                                   *)
EXTENDS Alerts, TLC

CONSTANTS k1, k2, t1

KeySet == {k1, k2}
ThreadSet == {t1}
=============================================================================
