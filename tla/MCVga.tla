------------------------------- MODULE MCVga --------------------------------
(* A screen of three columns and two rows, and a string with a character above  *)
(* 127, which is negative as a char.                                           *)
EXTENDS Vga

MCStrings == {<<65, -17>>}
MCColours == {31}   \* white on blue
=============================================================================
