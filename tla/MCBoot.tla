------------------------------- MODULE MCBoot -------------------------------
(* Modes that differ from the target in one field or in all of them, and two    *)
(* that have the target's size and format with different lines.                 *)
EXTENDS Boot

Mode(width, height, format, pitch) ==
  [width |-> width, height |-> height, format |-> format, pitch |-> pitch, framebuffer |-> "vram"]

MCTarget == [width |-> 1024, height |-> 768, format |-> "BGR"]
MCNoVideo == [width |-> 0, height |-> 0, format |-> "none", pitch |-> 0, framebuffer |-> NULL]
MCModes == {Mode(1024, 768, "BGR", 1024), Mode(1024, 768, "BGR", 1152), Mode(1024, 768, "RGB", 1024),
            Mode(1024, 600, "BGR", 1024), Mode(640, 480, "RGB", 640)}
=============================================================================
