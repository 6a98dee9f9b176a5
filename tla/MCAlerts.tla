------------------------------ MODULE MCAlerts ------------------------------
(* A small instance of Alerts.                                             *)
EXTENDS Alerts

CONSTANTS w1, w2
=============================================================================
