---------------------------- MODULE MCLoggerTask ----------------------------
(* Small instances of LoggerTask. *)
EXTENDS LoggerTask

CONSTANTS a1, a2

TwoAddresses == {a1, a2}
=============================================================================
