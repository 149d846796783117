--------------------------- MODULE MCAlertManager ---------------------------
(* Model checking of AlertManager.                                         *)
EXTENDS AlertManager
=============================================================================
