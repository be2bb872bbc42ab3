--------------------------- MODULE MCSignalQueue ---------------------------
(* Instances of SignalQueue: an entry, its exit, and two messages that did *)
(* not come through the webhook.                                           *)
EXTENDS SignalQueue

CONSTANTS entry, exit, garbage, noschema, c1, c2

EntryAndExit == [m \in Messages |-> IF m = exit THEN entry ELSE m]
=============================================================================
