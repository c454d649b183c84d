-------------------------------- MODULE Vga --------------------------------
(* The kernel's VGA text console (vga.c): a cursor that runs over the text     *)
(* buffer row by row and starts over at its end, and entries that hold a       *)
(* character in their low byte and its colour in their high one.               *)
(*                                                                             *)
(* Nothing in the repository calls it: it is modelled for a caller that        *)
(* initialises it and then prints and sets colours as it likes.                *)
EXTENDS Integers, Sequences

CONSTANTS
  VGA_WIDTH, VGA_HEIGHT,
  Strings,      \* what the caller prints: sequences of chars, which are signed
  Colours,      \* the colours it sets: eight bits
  MaxAsked      \* bound: the characters it prints

ASSUME VgaAssumption ==
  /\ VGA_WIDTH \in Nat \ {0} /\ VGA_HEIGHT \in Nat \ {0}
  /\ Strings \subseteq Seq((-128 .. 127) \ {0})
  /\ Colours \subseteq 0 .. 255

VGA_COLOR_BLACK == 0
VGA_COLOR_LIGHT_GREY == 7
Space == 32

VARIABLES
  vga_row, vga_column, vga_color,
  vga_buffer,   \* the text buffer, entry by entry
  text, i,      \* of vga_puts: the string it prints, and its index
  asked         \* history: what the caller has asked to print since vga_initialize

cursor == <<vga_row, vga_column>>
vars == <<cursor, vga_color, vga_buffer, text, i, asked>>

-----------------------------------------------------------------------------

create_vga_color_entry(fg, bg) == (fg + (bg * 16)) % 256

\* Mutant: the character is widened with its sign.
EntrySignExtended(c, color) == (c + (color * 256)) % 65536

\* A char is made an unsigned char on the way in.
create_vga_entry(c, color) == (c % 256) + (color * 256)

Cells == 0 .. (VGA_WIDTH * VGA_HEIGHT) - 1

DefaultColour == create_vga_color_entry(VGA_COLOR_LIGHT_GREY, VGA_COLOR_BLACK)

Blank == [c \in Cells |-> create_vga_entry(Space, DefaultColour)]

\* The state that vga_initialize leaves.
Init ==
  /\ vga_row = 0 /\ vga_column = 0 /\ vga_color = DefaultColour /\ vga_buffer = Blank
  /\ asked = << >> /\ text = << >> /\ i = 0

vga_initialize ==
  /\ text = << >>
  /\ vga_row' = 0 /\ vga_column' = 0
  /\ vga_color' = DefaultColour /\ vga_buffer' = Blank /\ asked' = << >>
  /\ UNCHANGED <<text, i>>

vga_set_color(color) ==
  /\ text = << >>
  /\ vga_color' = color
  /\ UNCHANGED <<cursor, vga_buffer, text, i, asked>>

\* Mutant: the row is not reset at the bottom.
AdvanceOffScreen ==
  IF vga_column + 1 = VGA_WIDTH
  THEN vga_column' = 0 /\ vga_row' = vga_row + 1
  ELSE vga_column' = vga_column + 1 /\ UNCHANGED vga_row

Advance ==
  IF vga_column + 1 = VGA_WIDTH
  THEN vga_column' = 0 /\ vga_row' = (IF vga_row + 1 = VGA_HEIGHT THEN 0 ELSE vga_row + 1)
  ELSE vga_column' = vga_column + 1 /\ UNCHANGED vga_row

vga_putchar(c) ==
  /\ vga_buffer' = [vga_buffer EXCEPT ![vga_row * VGA_WIDTH + vga_column] =
                      create_vga_entry(c, vga_color)]
  /\ Advance
  /\ UNCHANGED vga_color

InColour(s) == [k \in DOMAIN s |-> [char |-> s[k], colour |-> vga_color]]

\* The caller's own call of vga_putchar.
Putchar(c) ==
  /\ text = << >> /\ Len(asked) < MaxAsked
  /\ vga_putchar(c) /\ asked' = asked \o InColour(<<c>>)
  /\ UNCHANGED <<text, i>>

vga_puts(s) ==
  /\ text = << >> /\ Len(asked) + Len(s) <= MaxAsked
  /\ text' = s /\ i' = 0 /\ asked' = asked \o InColour(s)
  /\ UNCHANGED <<cursor, vga_color, vga_buffer>>

PutsNext ==
  /\ text # << >> /\ i < Len(text)
  /\ vga_putchar(text[i + 1])
  /\ i' = i + 1 /\ UNCHANGED <<text, asked>>

PutsDone ==
  /\ text # << >> /\ i >= Len(text)
  /\ text' = << >> /\ i' = 0
  /\ UNCHANGED <<cursor, vga_color, vga_buffer, asked>>

Chars == UNION {{s[k] : k \in 1 .. Len(s)} : s \in Strings}

Caller ==
  \/ vga_initialize
  \/ \E color \in Colours : vga_set_color(color)
  \/ \E c \in Chars : Putchar(c)
  \/ \E s \in Strings : vga_puts(s)

Puts == PutsNext \/ PutsDone

Next == Caller \/ Puts

Spec == Init /\ [][Next]_vars

-----------------------------------------------------------------------------
(* What the console promises.                                                *)

\* The cursor stays on the screen and the entries in their sixteen bits.
TypeOK ==
  /\ vga_row \in 0 .. VGA_HEIGHT - 1 /\ vga_column \in 0 .. VGA_WIDTH - 1
  /\ vga_color \in 0 .. 255
  /\ vga_buffer \in [Cells -> Nat] /\ \A c \in Cells : vga_buffer[c] \div 256 \in 0 .. 255
  /\ i \in 0 .. Len(text) /\ text \in Strings \cup {<< >>}

\* The screen shows the latest characters the caller has asked for, each with the
\* colour that was set then: the last screenful stands where a ring as large as the
\* screen puts it, whether it came as single characters or in strings that run over
\* the end of the screen, and what has not been printed on is blank.  In the middle
\* of a string the part that vga_puts has not reached is missing, and nothing else.
ScreenShowsLatest ==
  LET cells == VGA_WIDTH * VGA_HEIGHT
      done  == Len(asked) - (Len(text) - i)
  IN /\ \A k \in 1 .. done : k + cells > done =>
          LET shown == vga_buffer[(k - 1) % cells]
          IN /\ shown \div 256 = asked[k].colour
             /\ asked[k].char \in {shown % 256, (shown % 256) - 256}
     /\ \A c \in Cells : c >= done =>
          vga_buffer[c] \div 256 = VGA_COLOR_LIGHT_GREY /\ vga_buffer[c] % 256 = Space

=============================================================================
