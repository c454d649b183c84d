------------------------------- MODULE MCUart -------------------------------
(* Four characters against queues of two places, so that they can overflow.   *)
EXTENDS Uart

MCMessage == <<75, 101, 114, 10>>
MCInput == {97, 98}
=============================================================================
