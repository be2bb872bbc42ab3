---------------------------- MODULE MCAlertSetup ----------------------------
(* Instances of AlertSetup: two batches for two pairs.                     *)
EXTENDS AlertSetup

CONSTANTS b1, b2, p1, p2
=============================================================================
