------------------------------- MODULE Screen -------------------------------
(* What both programs draw: the bootloader's checkerboard (draw_test_screen    *)
(* and draw_rect of its graphics.c), then the kernel's texture (draw_test_     *)
(* screen of kernel.c, draw_pixel of its graphics.c), pixel by pixel into the  *)
(* same framebuffer, through 16-bit counters.                                  *)
EXTENDS Integers

CONSTANTS
  Screens,     \* the video modes: visible width and height, pixels per scanline
  UINT16,      \* how many values a 16-bit variable has
  Columns, Rows,   \* TEST_SCREEN_COL_NUM, TEST_SCREEN_ROW_NUM
  Primary, Secondary, Black,   \* the tiles' colours, and the screen before
  ExclusiveOr(_, _)

\* The bootloader sets 1024 by 768 or hands over a resolution of zero, so that
\* 16-bit counters can pass the resolution.
ASSUME ScreensAssumption ==
  \A s \in Screens :
    /\ s.width \in 0 .. UINT16 - 1 /\ s.height \in 0 .. UINT16 - 1
    /\ s.pitch \in Nat /\ s.width <= s.pitch

\* Eight bits each of red, green and blue; the reserved byte is zero.
White == 16777215
Colours == 0 .. White

ASSUME TilesAssumption ==
  /\ UINT16 \in Nat \ {0} /\ Columns \in Nat \ {0} /\ Rows \in Nat \ {0}
  /\ {Primary, Secondary, Black} \subseteq Colours
  /\ \A x, y \in 0 .. UINT16 - 1 : ExclusiveOr(x, y) \in Nat

VARIABLES
  video_mode_info,  \* the video mode both programs draw on
  framebuffer,
  pc,
  p,         \* the bootloader's tile
  row, col,  \* of draw_rect
  x, y       \* of the kernel's draw_test_screen

vars == <<video_mode_info, framebuffer, pc, p, row, col, x, y>>

width  == video_mode_info.width
height == video_mode_info.height
pitch  == video_mode_info.pitch

Offsets == 0 .. height * pitch - 1

Init ==
  /\ video_mode_info \in Screens
  /\ framebuffer = [a \in Offsets |-> Black]
  /\ pc = IF width > 0 THEN "tile" ELSE "y"
  /\ p = 0 /\ row = 0 /\ col = 0 /\ x = 0 /\ y = 0

-----------------------------------------------------------------------------
(* The bootloader                                                            *)

tile_width  == (width \div Columns) % UINT16
tile_height == (height \div Rows) % UINT16

\* Mutant: the tiles are counted down the screen by the number of rows.
TileXByRows == p % Rows

tileX == p % Columns
tileY == p \div Columns

TileColour == IF ((tileY % 2) + tileX) % 2 = 0 THEN Primary ELSE Secondary

\* Mutant: a line is taken to be as long as it is visible.
RectByWidth ==
  ((tile_width * tileX) % UINT16) + col + (((tile_height * tileY) % UINT16) + row) * width

\* Where draw_rect puts the pixel of this row and column of the tile.
RectAt ==
  ((tile_width * tileX) % UINT16) + col + (((tile_height * tileY) % UINT16) + row) * pitch

NextTile ==
  /\ pc = "tile"
  /\ IF p < Columns * Rows THEN pc' = "row" /\ row' = 0 ELSE pc' = "y" /\ UNCHANGED row
  /\ UNCHANGED <<video_mode_info, framebuffer, p, col, x, y>>

NextRow ==
  /\ pc = "row"
  /\ IF row < tile_height THEN pc' = "col" /\ col' = 0 /\ UNCHANGED p
                          ELSE pc' = "tile" /\ p' = p + 1 /\ UNCHANGED col
  /\ UNCHANGED <<video_mode_info, framebuffer, row, x, y>>

draw_rect ==
  /\ pc = "col"
  /\ IF col < tile_width
     THEN /\ framebuffer' = [framebuffer EXCEPT ![RectAt] = TileColour]
          /\ col' = (col + 1) % UINT16 /\ UNCHANGED <<pc, row>>
     ELSE /\ pc' = "row" /\ row' = (row + 1) % UINT16
          /\ UNCHANGED <<framebuffer, col>>
  /\ UNCHANGED <<video_mode_info, p, x, y>>

-----------------------------------------------------------------------------
(* The kernel                                                                *)

\* Mutant: red is shifted out of its byte.
TextureShiftedFar(px, py) ==
  LET c == ExclusiveOr(px, py) % 256 IN (255 - (c % 128)) * 131072 + c * 256 + (c % 128)

convert_rgb_to_32bit_colour(r, g, b) == r * 65536 + g * 256 + b

TextureColour(px, py) ==
  LET c == ExclusiveOr(px, py) % 256 IN convert_rgb_to_32bit_colour(255 - (c % 128), c, c % 128)

PixelAt(px, py) == px + py * pitch

\* Mutant: the last pixel of a line is left out.
DrawPixelShort ==
  /\ pc = "x"
  /\ IF x + 1 < width
     THEN /\ framebuffer' = [framebuffer EXCEPT ![PixelAt(x, y)] = TextureColour(x, y)]
          /\ x' = (x + 1) % UINT16 /\ UNCHANGED <<pc, y>>
     ELSE /\ pc' = "y" /\ y' = (y + 1) % UINT16
          /\ UNCHANGED <<framebuffer, x>>
  /\ UNCHANGED <<video_mode_info, p, row, col>>

\* Mutant: the counter of the kernel's inner loop has half the values.
DrawPixelNarrow ==
  /\ pc = "x"
  /\ IF x < width
     THEN /\ framebuffer' = [framebuffer EXCEPT ![PixelAt(x, y)] = TextureColour(x, y)]
          /\ x' = (x + 1) % (UINT16 \div 2) /\ UNCHANGED <<pc, y>>
     ELSE /\ pc' = "y" /\ y' = (y + 1) % UINT16
          /\ UNCHANGED <<framebuffer, x>>
  /\ UNCHANGED <<video_mode_info, p, row, col>>

NextLine ==
  /\ pc = "y"
  /\ IF y < height THEN pc' = "x" /\ x' = 0 ELSE pc' = "done" /\ UNCHANGED x
  /\ UNCHANGED <<video_mode_info, framebuffer, p, row, col, y>>

draw_pixel ==
  /\ pc = "x"
  /\ IF x < width
     THEN /\ framebuffer' = [framebuffer EXCEPT ![PixelAt(x, y)] = TextureColour(x, y)]
          /\ x' = (x + 1) % UINT16 /\ UNCHANGED <<pc, y>>
     ELSE /\ pc' = "y" /\ y' = (y + 1) % UINT16
          /\ UNCHANGED <<framebuffer, x>>
  /\ UNCHANGED <<video_mode_info, p, row, col>>

-----------------------------------------------------------------------------

Bootloader == NextTile \/ NextRow \/ draw_rect
Kernel == NextLine \/ draw_pixel

Next == Bootloader \/ Kernel

Spec == Init /\ [][Next]_vars
FairSpec == Spec /\ WF_vars(Next)

-----------------------------------------------------------------------------
(* What the drawing promises.                                                *)

\* The variables have their types: the counters never pass the limits of their
\* loops, and no colour reaches into the pixel's reserved byte.
TypeOK ==
  /\ video_mode_info \in Screens
  /\ framebuffer \in [Offsets -> Colours]
  /\ pc \in {"tile", "row", "col", "y", "x", "done"}
  /\ p \in 0 .. Columns * Rows
  /\ row \in 0 .. tile_height /\ col \in 0 .. tile_width
  /\ x \in 0 .. width /\ y \in 0 .. height

\* No pixel is put outside the framebuffer or in the padding at the end of its
\* lines, whatever the line length and the remainders of the tiles' sizes.
PixelsInside ==
  /\ pc = "col" /\ col < tile_width => RectAt \in Offsets /\ RectAt % pitch < width
  /\ pc = "x" /\ x < width => PixelAt(x, y) \in Offsets /\ PixelAt(x, y) % pitch < width

\* The tiles do not overlap: the bootloader paints no pixel twice.
TilesApart == [][pc = "col" /\ col < tile_width => framebuffer[RectAt] = Black]_vars

\* When the kernel is done, every visible pixel has its own colour of the
\* texture, and nothing is left of the tiles.
TextureCovers ==
  pc = "done" =>
    \A px \in 0 .. width - 1, py \in 0 .. height - 1 :
      framebuffer[py * pitch + px] = TextureColour(px, py)

\* Both programs' loops end, although 16-bit counters are compared with 32-bit
\* resolutions.
Terminates == <>(pc = "done")

=============================================================================
