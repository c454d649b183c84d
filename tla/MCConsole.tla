------------------------------ MODULE MCConsole -----------------------------
(* Three error statuses tell the outer line of a nested report from the inner *)
(* ones; a stack for four frames nests three reports for one line.            *)
EXTENDS Console

MCErrors == {NOT_FOUND, DEVICE_ERROR, "TIMEOUT"}
=============================================================================
