------------------------------ MODULE MCScreen ------------------------------
(* Screens whose sizes are and are not multiples of the tiles', with and       *)
(* without padding, the largest a counter of sixteen values can pass, and none.*)
EXTENDS Screen, Bitwise

MCExclusiveOr(a, b) == a ^^ b
Size(w, h, pit) == [width |-> w, height |-> h, pitch |-> pit]
MCScreens == {Size(0, 0, 0), Size(8, 6, 8), Size(9, 7, 11), Size(15, 4, 16), Size(3, 15, 3)}
=============================================================================
