------------------------------ MODULE VgaProofs -----------------------------
(* Proofs of the properties of Vga, for a screen of any size, any strings and  *)
(* any colours.                                                               *)
EXTENDS Vga, SequenceTheorems, TLAPS

-----------------------------------------------------------------------------
(* The screen as a ring of cells.                                            *)

Size == VGA_WIDTH * VGA_HEIGHT

\* Between two multiples of a number there is none.
LEMMA MultiplesApart ==
  ASSUME NEW N \in Nat \ {0}, NEW q \in Nat, NEW t \in Nat, q < t
  PROVE  N * q + N <= N * t /\ N * q \in Nat /\ N * t \in Nat
<1>1. N * (q + 1) = N * q + N
  BY SMT
<1>2. N * (q + 1) <= N * t
  BY SMT
<1> QED
  BY <1>1, <1>2, SMT

\* A remainder is what is left of some multiple.
LEMMA RemainderIs ==
  ASSUME NEW N \in Nat \ {0}, NEW b \in Nat, NEW q \in Nat, NEW r \in 0 .. N - 1, b = N * q + r
  PROVE  b % N = r
<1> DEFINE t == b \div N
           u == b % N
<1>1. t \in Nat /\ u \in 0 .. N - 1 /\ b = N * t + u
  BY SMT
<1> HIDE DEF t, u
<1>2. ~(q < t)
  BY <1>1, MultiplesApart
<1>3. ~(t < q)
  BY <1>1, MultiplesApart
<1>4. q = t
  BY <1>1, <1>2, <1>3
<1>5. u = r
  <2> DEFINE m == N * q
  <2>1. m \in Int /\ b = m + r /\ b = m + u
    BY <1>1, <1>4, SMT
  <2> HIDE DEF m
  <2> QED
    BY <1>1, <2>1
<1> QED
  BY <1>5 DEF u

\* The next number's remainder is the next one, or zero after the last.
LEMMA NextRemainder ==
  ASSUME NEW N \in Nat \ {0}, NEW a \in Nat
  PROVE  /\ a % N \in 0 .. N - 1
         /\ (a + 1) % N = IF a % N = N - 1 THEN 0 ELSE (a % N) + 1
         /\ a < N => a % N = a
<1> DEFINE q == a \div N
           r == a % N
<1>1. q \in Nat /\ r \in 0 .. N - 1 /\ a = N * q + r
  BY SMT
<1>2. a < N => a % N = a
  BY SMT
<1> HIDE DEF q
<1>3. CASE r = N - 1
  <2>1. a + 1 = N * (q + 1) + 0
    <3>1. N * (q + 1) = N * q + N
      BY <1>1, SMT
    <3> QED
      BY <1>1, <1>3, <3>1
  <2>2. a + 1 \in Nat /\ q + 1 \in Nat /\ 0 \in 0 .. N - 1
    BY <1>1
  <2>3. (a + 1) % N = 0
    BY <2>1, <2>2, RemainderIs, Zenon
  <2> QED
    BY <1>1, <1>2, <1>3, <2>3
<1>4. CASE r # N - 1
  <2>1. a + 1 = N * q + (r + 1) /\ r + 1 \in 0 .. N - 1
    BY <1>1, <1>4
  <2>2. (a + 1) % N = r + 1
    BY <1>1, <2>1, RemainderIs
  <2> QED
    BY <1>1, <1>2, <1>4, <2>2
<1> QED
  BY <1>3, <1>4

\* Numbers less than a turn of the ring apart fall on different cells.
LEMMA ApartOnRing ==
  ASSUME NEW N \in Nat \ {0}, NEW a \in Nat, NEW b \in Nat, a < b, b < a + N
  PROVE  a % N # b % N
<1> SUFFICES ASSUME a % N = b % N PROVE FALSE
  OBVIOUS
<1> DEFINE q == a \div N
           t == b \div N
           r == a % N
<1>1. q \in Nat /\ t \in Nat /\ r \in 0 .. N - 1 /\ a = N * q + r
  BY SMT
<1>2. b = N * t + (b % N)
  BY SMT
<1>3. b = N * t + r
  BY <1>2
<1> HIDE DEF q, t, r
<1>4. N * q \in Nat /\ N * t \in Nat /\ N * q < N * t /\ N * t < N * q + N
  BY <1>1, <1>3, SMT
<1>5. N * (q + 1) = N * q + N
  BY <1>1, SMT
<1>6. q < t
  BY <1>1, <1>4, SMT
<1>7. t < q + 1
  BY <1>1, <1>4, <1>5, SMT
<1> QED
  BY <1>1, <1>6, <1>7

\* A row and a column make a cell of the screen.
LEMMA CellOfCursor ==
  ASSUME NEW r \in 0 .. VGA_HEIGHT - 1, NEW c \in 0 .. VGA_WIDTH - 1
  PROVE  /\ Size \in Nat \ {0}
         /\ r * VGA_WIDTH + c \in 0 .. Size - 1
         /\ (r + 1) * VGA_WIDTH = r * VGA_WIDTH + VGA_WIDTH
         /\ r * VGA_WIDTH + c = Size - 1 <=> r = VGA_HEIGHT - 1 /\ c = VGA_WIDTH - 1
<1> DEFINE W == VGA_WIDTH
           H == VGA_HEIGHT
<1>1. W \in Nat /\ W > 0 /\ H \in Nat /\ H > 0 /\ r \in Nat /\ c \in Nat /\ r < H /\ c < W
  BY VgaAssumption
<1>2. Size = W * H
  BY DEF Size
<1> HIDE DEF W, H
<1>3. W * H \in Nat /\ W * H > 0 /\ r * W \in Nat
  BY <1>1, SMT
<1>4. (r + 1) * W = r * W + W
  BY <1>1, SMT
<1>5. (r + 1) * W <= W * H
  BY <1>1, SMT
<1>6. r + 1 = H => (r + 1) * W = W * H
  BY <1>1, SMT
<1>7. r + 1 # H => (r + 2) * W <= W * H
  BY <1>1, SMT
<1>8. (r + 2) * W = r * W + W + W
  BY <1>1, SMT
<1>9. r * W + c \in 0 .. Size - 1
  BY <1>1, <1>2, <1>3, <1>4, <1>5
<1>10. r * W + c = Size - 1 <=> r = H - 1 /\ c = W - 1
  <2>1. CASE r + 1 = H
    BY <1>1, <1>2, <1>3, <1>4, <1>6, <2>1
  <2>2. CASE r + 1 # H
    BY <1>1, <1>2, <1>3, <1>7, <1>8, <2>2
  <2> QED
    BY <2>1, <2>2
<1> QED
  BY <1>2, <1>3, <1>4, <1>9, <1>10 DEF W, H

-----------------------------------------------------------------------------
(* The invariant.                                                            *)

Entry == [char: -128 .. 127, colour: 0 .. 255]

\* How many characters have been put on the screen.
Shown == Len(asked) - (Len(text) - i)

\* The cursor is at the cell of the ring that comes next.
CursorNext == vga_row * VGA_WIDTH + vga_column = Shown % Size

\* The string that is being printed is the end of what was asked for, in the
\* colour that is set.
Backlog ==
  /\ asked \in Seq(Entry)
  /\ Len(text) <= Len(asked)
  /\ \A k \in 1 .. Len(text) :
       asked[Len(asked) - Len(text) + k] = [char |-> text[k], colour |-> vga_color]

\* The invariant the proofs carry through every call.
IInv == TypeOK /\ CursorNext /\ Backlog /\ ScreenShowsLatest

\* An entry gives back its character, or the char that it is unsigned of, and its
\* colour, and has sixteen bits.
LEMMA EntryParts ==
  ASSUME NEW c \in -128 .. 127, NEW color \in 0 .. 255
  PROVE  /\ create_vga_entry(c, color) \in Nat
         /\ create_vga_entry(c, color) \div 256 = color
         /\ c \in {create_vga_entry(c, color) % 256, (create_vga_entry(c, color) % 256) - 256}
BY DEF create_vga_entry

\* The blank screen is grey spaces.
LEMMA BlankParts ==
  /\ DefaultColour = 7
  /\ create_vga_entry(Space, DefaultColour) = 1824
BY DEF DefaultColour, create_vga_color_entry, create_vga_entry, VGA_COLOR_LIGHT_GREY, VGA_COLOR_BLACK,
       Space

\* What the numbers are that the proofs below reckon with.
LEMMA Sizes ==
  ASSUME IInv
  PROVE  /\ Size \in Nat \ {0} /\ Cells = 0 .. Size - 1
         /\ Len(asked) \in Nat /\ Len(text) \in Nat /\ i \in 0 .. Len(text)
         /\ Shown \in 0 .. Len(asked)
         /\ text \in Seq((-128 .. 127) \ {0})
<1>1. vga_row \in 0 .. VGA_HEIGHT - 1 /\ vga_column \in 0 .. VGA_WIDTH - 1
  BY DEF IInv, TypeOK
<1>2. text \in Seq((-128 .. 127) \ {0}) /\ asked \in Seq(Entry)
  <2>1. text \in Strings \/ text = << >>
    BY Zenon DEF IInv, TypeOK
  <2>2. \A s \in Strings : s \in Seq((-128 .. 127) \ {0})
    BY VgaAssumption, Zenon
  <2>3. << >> \in Seq((-128 .. 127) \ {0})
    BY EmptySeq
  <2> QED
    BY <2>1, <2>2, <2>3, Zenon DEF IInv, Backlog
<1>3. Len(text) \in Nat /\ Len(asked) \in Nat /\ Len(text) <= Len(asked) /\ i \in 0 .. Len(text)
  BY <1>2, LenProperties DEF IInv, TypeOK, Backlog
<1> QED
  BY <1>1, <1>2, <1>3, CellOfCursor DEF Cells, Size, Shown

\* The cursor stays on the screen and goes on to the next cell of the ring.
LEMMA CursorAdvances ==
  ASSUME IInv, Advance, Shown' = Shown + 1
  PROVE  /\ vga_row' \in 0 .. VGA_HEIGHT - 1 /\ vga_column' \in 0 .. VGA_WIDTH - 1
         /\ vga_row' * VGA_WIDTH + vga_column' = (Shown + 1) % Size
<1>1. /\ vga_row \in 0 .. VGA_HEIGHT - 1 /\ vga_column \in 0 .. VGA_WIDTH - 1
      /\ VGA_WIDTH \in Nat /\ VGA_WIDTH > 0 /\ VGA_HEIGHT \in Nat /\ VGA_HEIGHT > 0
      /\ vga_row \in Nat /\ vga_column \in Nat
  BY VgaAssumption DEF IInv, TypeOK
<1>2. Shown \in Nat /\ Size \in Nat \ {0}
  BY Sizes
<1> DEFINE cell == vga_row * VGA_WIDTH + vga_column
<1>3. cell = Shown % Size
  BY DEF IInv, CursorNext
<1>4. /\ cell \in 0 .. Size - 1
      /\ (vga_row + 1) * VGA_WIDTH = vga_row * VGA_WIDTH + VGA_WIDTH
      /\ cell = Size - 1 <=> vga_row = VGA_HEIGHT - 1 /\ vga_column = VGA_WIDTH - 1
  BY <1>1, CellOfCursor
<1>5. (Shown + 1) % Size = IF cell = Size - 1 THEN 0 ELSE cell + 1
  BY <1>2, <1>3, NextRemainder
<1>6. vga_row * VGA_WIDTH \in Nat /\ 0 * VGA_WIDTH = 0
  BY <1>1, SMT
<1>7. CASE vga_column + 1 = VGA_WIDTH /\ vga_row + 1 = VGA_HEIGHT
  BY <1>1, <1>4, <1>5, <1>6, <1>7 DEF Advance
<1>8. CASE vga_column + 1 = VGA_WIDTH /\ vga_row + 1 # VGA_HEIGHT
  <2>1. vga_row' = vga_row + 1 /\ vga_column' = 0
    BY <1>8 DEF Advance
  <2>2. vga_row' * VGA_WIDTH + vga_column' = cell + 1
    BY <1>1, <1>4, <1>6, <1>8, <2>1
  <2>3. cell # Size - 1
    BY <1>1, <1>4, <1>8
  <2> QED
    BY <1>1, <1>5, <1>8, <2>1, <2>2, <2>3
<1>9. CASE vga_column + 1 # VGA_WIDTH
  <2>1. vga_row' = vga_row /\ vga_column' = vga_column + 1
    BY <1>9 DEF Advance
  <2>2. cell # Size - 1
    BY <1>1, <1>4, <1>9
  <2> QED
    BY <1>1, <1>5, <1>6, <1>9, <2>1, <2>2
<1> QED
  BY <1>7, <1>8, <1>9

\* vga_putchar puts the character that is next of those asked for where the ring
\* has its place, and overwrites only what is a screenful old.
LEMMA PutcharShows ==
  ASSUME IInv, NEW c \in -128 .. 127, vga_putchar(c), Shown' = Shown + 1, asked' \in Seq(Entry),
         Shown + 1 <= Len(asked'),
         \A k \in 1 .. Shown : asked'[k] = asked[k],
         asked'[Shown + 1] = [char |-> c, colour |-> vga_color]
  PROVE  /\ vga_row' \in 0 .. VGA_HEIGHT - 1 /\ vga_column' \in 0 .. VGA_WIDTH - 1
         /\ vga_color' \in 0 .. 255 /\ vga_buffer' \in [Cells -> Nat]
         /\ \A b \in Cells : vga_buffer'[b] \div 256 \in 0 .. 255
         /\ CursorNext' /\ ScreenShowsLatest'
<1>1. /\ Size \in Nat \ {0} /\ Cells = 0 .. Size - 1 /\ Shown \in Nat
      /\ vga_color \in 0 .. 255 /\ vga_buffer \in [Cells -> Nat] /\ vga_color' = vga_color
  BY Sizes DEF IInv, TypeOK, vga_putchar
<1>2. /\ vga_row' \in 0 .. VGA_HEIGHT - 1 /\ vga_column' \in 0 .. VGA_WIDTH - 1
      /\ CursorNext'
  BY CursorAdvances DEF vga_putchar, CursorNext, Size
<1> DEFINE cell == Shown % Size
           entry == create_vga_entry(c, vga_color)
<1>3. /\ cell \in Cells /\ vga_buffer' = [vga_buffer EXCEPT ![cell] = entry]
      /\ Shown < Size => cell = Shown
  BY <1>1, NextRemainder DEF vga_putchar, IInv, CursorNext
<1> HIDE DEF entry, cell
<1>4. /\ entry \in Nat /\ entry \div 256 = vga_color
      /\ c \in {entry % 256, (entry % 256) - 256}
  <2>1. c \in -128 .. 127 /\ vga_color \in 0 .. 255
    BY <1>1
  <2>2. /\ create_vga_entry(c, vga_color) \in Nat
        /\ create_vga_entry(c, vga_color) \div 256 = vga_color
        /\ c \in {create_vga_entry(c, vga_color) % 256, (create_vga_entry(c, vga_color) % 256) - 256}
    BY <2>1, EntryParts
  <2> QED
    BY <2>2, Zenon DEF entry
<1>5. vga_buffer' \in [Cells -> Nat] /\ \A b \in Cells : vga_buffer'[b] \div 256 \in 0 .. 255
  <2>1. vga_buffer' \in [Cells -> Nat]
    BY <1>1, <1>3, <1>4
  <2>2. \A b \in Cells : vga_buffer'[b] \in {entry, vga_buffer[b]}
    BY <1>1, <1>3
  <2>3. \A b \in Cells : vga_buffer[b] \div 256 \in 0 .. 255
    BY DEF IInv, TypeOK
  <2> QED
    BY <1>1, <1>4, <2>1, <2>2, <2>3
<1>6. ASSUME NEW k \in 1 .. Shown + 1, k + Size > Shown + 1
      PROVE  LET shown == vga_buffer'[(k - 1) % Size]
             IN  /\ shown \div 256 = asked'[k].colour
                 /\ asked'[k].char \in {shown % 256, (shown % 256) - 256}
  <2>1. CASE k = Shown + 1
    <3>1. k - 1 = Shown /\ vga_buffer'[cell] = entry
      BY <1>1, <1>3, <2>1
    <3>2. (k - 1) % Size = cell
      BY <3>1 DEF cell
    <3> QED
      BY <1>4, <2>1, <3>1, <3>2
  <2>2. CASE k # Shown + 1
    <3>1. k \in 1 .. Shown /\ k - 1 \in Nat /\ k - 1 < Shown /\ Shown < (k - 1) + Size
          /\ k + Size > Shown
      BY <1>1, <1>6, <2>2
    <3>2. (k - 1) % Size # cell
      BY <1>1, <3>1, ApartOnRing DEF cell
    <3>3. (k - 1) % Size \in Cells
      BY <1>1, <3>1, NextRemainder
    <3>4. vga_buffer'[(k - 1) % Size] = vga_buffer[(k - 1) % Size]
      BY <1>1, <1>3, <3>2, <3>3
    <3>5. LET shown == vga_buffer[(k - 1) % Size]
          IN  /\ shown \div 256 = asked[k].colour
              /\ asked[k].char \in {shown % 256, (shown % 256) - 256}
      BY <3>1 DEF IInv, ScreenShowsLatest, Shown, Size
    <3> QED
      BY <3>1, <3>4, <3>5
  <2> QED
    BY <2>1, <2>2
<1>7. ASSUME NEW b \in Cells, b >= Shown + 1
      PROVE  vga_buffer'[b] \div 256 = VGA_COLOR_LIGHT_GREY /\ vga_buffer'[b] % 256 = Space
  <2>1. b # cell /\ b >= Shown
    BY <1>1, <1>3, <1>7
  <2>2. vga_buffer'[b] = vga_buffer[b]
    BY <1>1, <1>3, <2>1
  <2>3. vga_buffer[b] \div 256 = VGA_COLOR_LIGHT_GREY /\ vga_buffer[b] % 256 = Space
    BY <2>1 DEF IInv, ScreenShowsLatest, Shown
  <2> QED
    BY <2>2, <2>3
<1>8. ScreenShowsLatest'
  <2>1. Len(asked') - (Len(text') - i') = Shown + 1
    BY DEF Shown
  <2> QED
    BY <1>6, <1>7, <2>1 DEF ScreenShowsLatest, Size
<1> QED
  BY <1>1, <1>2, <1>5, <1>8

-----------------------------------------------------------------------------
(* The steps.                                                                *)

\* The invariant holds of the state that vga_initialize leaves.
LEMMA InitIInv == Init => IInv
<1> SUFFICES ASSUME Init PROVE IInv
  OBVIOUS
<1>1. /\ vga_row = 0 /\ vga_column = 0 /\ vga_color = 7
      /\ vga_buffer = [c \in Cells |-> 1824] /\ asked = << >> /\ text = << >> /\ i = 0
  BY BlankParts DEF Init, Blank
<1>2. 1824 \in Nat /\ 1824 \div 256 = 7 /\ 1824 % 256 = 32
  OBVIOUS
<1>3. TypeOK
  BY <1>1, <1>2, VgaAssumption DEF TypeOK
<1>4. 0 \in 0 .. VGA_HEIGHT - 1 /\ 0 \in 0 .. VGA_WIDTH - 1 /\ 0 * VGA_WIDTH = 0
  BY VgaAssumption
<1>5. Size \in Nat \ {0} /\ 0 % Size = 0
  BY <1>4, CellOfCursor, NextRemainder
<1>6. Shown = 0 /\ CursorNext
  BY <1>1, <1>4, <1>5 DEF Shown, CursorNext
<1>7. Backlog
  BY <1>1, EmptySeq DEF Backlog
<1>8. ScreenShowsLatest
  BY <1>1, <1>2 DEF ScreenShowsLatest, VGA_COLOR_LIGHT_GREY, Space
<1> QED
  BY <1>3, <1>6, <1>7, <1>8 DEF IInv

\* vga_initialize starts over.
LEMMA InitializeStep ==
  ASSUME IInv, vga_initialize
  PROVE  IInv'
<1>1. /\ vga_row' = 0 /\ vga_column' = 0 /\ vga_color' = 7
      /\ vga_buffer' = [c \in Cells |-> 1824] /\ asked' = << >> /\ text' = << >> /\ i' = 0
  BY BlankParts DEF vga_initialize, Blank, IInv, TypeOK
<1>2. 1824 \in Nat /\ 1824 \div 256 = 7 /\ 1824 % 256 = 32
  OBVIOUS
<1>3. TypeOK'
  BY <1>1, <1>2, VgaAssumption DEF TypeOK
<1>4. 0 \in 0 .. VGA_HEIGHT - 1 /\ 0 \in 0 .. VGA_WIDTH - 1 /\ 0 * VGA_WIDTH = 0
  BY VgaAssumption
<1>5. Size \in Nat \ {0} /\ 0 % Size = 0
  BY <1>4, CellOfCursor, NextRemainder
<1>6. Shown' = 0 /\ CursorNext'
  BY <1>1, <1>4, <1>5 DEF Shown, CursorNext, Size
<1>7. Backlog'
  BY <1>1, EmptySeq DEF Backlog
<1>8. ScreenShowsLatest'
  BY <1>1, <1>2 DEF ScreenShowsLatest, VGA_COLOR_LIGHT_GREY, Space
<1> QED
  BY <1>3, <1>6, <1>7, <1>8 DEF IInv

\* Setting a colour changes nothing that is on the screen.
LEMMA SetColorStep ==
  ASSUME IInv, NEW color \in Colours, vga_set_color(color)
  PROVE  IInv'
<1>1. /\ text = << >> /\ vga_color' = color /\ color \in 0 .. 255
      /\ UNCHANGED <<vga_row, vga_column, vga_buffer, text, i, asked>>
  BY VgaAssumption DEF vga_set_color, cursor
<1>2. TypeOK'
  BY <1>1 DEF IInv, TypeOK
<1>3. CursorNext'
  BY <1>1 DEF IInv, CursorNext, Shown, Size
<1>4. Backlog'
  BY <1>1 DEF IInv, Backlog
<1>5. ScreenShowsLatest'
  BY <1>1 DEF IInv, ScreenShowsLatest
<1> QED
  BY <1>2, <1>3, <1>4, <1>5 DEF IInv

\* What vga_puts is asked to print has its types.
LEMMA ColouredEntries ==
  ASSUME IInv, NEW s \in Seq((-128 .. 127) \ {0})
  PROVE  /\ InColour(s) \in Seq(Entry) /\ Len(InColour(s)) = Len(s) /\ Len(s) \in Nat
         /\ \A k \in 1 .. Len(s) : InColour(s)[k] = [char |-> s[k], colour |-> vga_color]
<1>1. Len(s) \in Nat /\ DOMAIN s = 1 .. Len(s) /\ s \in [1 .. Len(s) -> (-128 .. 127) \ {0}]
  BY LenProperties
<1>2. vga_color \in 0 .. 255
  BY DEF IInv, TypeOK
<1> DEFINE t == InColour(s)
<1>3. /\ DOMAIN t = 1 .. Len(s)
      /\ \A k \in 1 .. Len(s) : t[k] = [char |-> s[k], colour |-> vga_color]
      /\ t = [k \in 1 .. Len(s) |-> t[k]]
  BY <1>1 DEF InColour
<1> HIDE DEF t
<1>4. \A k \in 1 .. Len(s) : t[k] \in Entry
  BY <1>1, <1>2, <1>3 DEF Entry
<1>5. t \in [1 .. Len(s) -> Entry]
  BY <1>3, <1>4
<1>6. t \in Seq(Entry)
  BY <1>1, <1>5, SeqDef
<1>7. Len(t) = Len(s)
  BY <1>1, <1>3, <1>6, LenProperties
<1> QED
  BY <1>1, <1>3, <1>6, <1>7 DEF t

\* A string that is asked for is at the end of what was asked for.
LEMMA PutsStep ==
  ASSUME IInv, NEW s \in Strings, vga_puts(s)
  PROVE  IInv'
<1>1. s \in Seq((-128 .. 127) \ {0})
  BY VgaAssumption
<1>2. /\ text = << >> /\ text' = s /\ i' = 0 /\ asked' = asked \o InColour(s)
      /\ UNCHANGED <<vga_row, vga_column, vga_color, vga_buffer>>
  BY DEF vga_puts, cursor
<1>3. /\ InColour(s) \in Seq(Entry) /\ Len(InColour(s)) = Len(s) /\ Len(s) \in Nat
      /\ \A k \in 1 .. Len(s) : InColour(s)[k] = [char |-> s[k], colour |-> vga_color]
  BY <1>1, ColouredEntries
<1>4. asked \in Seq(Entry) /\ Len(asked) \in Nat
  BY LenProperties DEF IInv, Backlog
<1>5. /\ asked' \in Seq(Entry) /\ Len(asked') = Len(asked) + Len(s)
      /\ \A k \in 1 .. Len(asked) : asked'[k] = asked[k]
      /\ \A k \in 1 .. Len(s) : asked'[Len(asked) + k] = InColour(s)[k]
  <2> DEFINE t == InColour(s)
  <2> HIDE DEF t
  <2>1. t \in Seq(Entry) /\ Len(t) = Len(s) /\ asked' = asked \o t
    BY <1>2, <1>3 DEF t
  <2>2. /\ asked' \in Seq(Entry) /\ Len(asked') = Len(asked) + Len(t)
        /\ \A k \in 1 .. Len(asked) + Len(t) :
             asked'[k] = IF k <= Len(asked) THEN asked[k] ELSE t[k - Len(asked)]
    BY <1>4, <2>1, ConcatProperties
  <2>3. \A k \in 1 .. Len(s) : asked'[Len(asked) + k] = t[k]
    <3> SUFFICES ASSUME NEW k \in 1 .. Len(s) PROVE asked'[Len(asked) + k] = t[k]
      OBVIOUS
    <3>1. Len(asked) + k \in 1 .. Len(asked) + Len(t) /\ ~(Len(asked) + k <= Len(asked))
          /\ (Len(asked) + k) - Len(asked) = k
      BY <1>3, <1>4, <2>1
    <3> QED
      BY <2>2, <3>1
  <2>4. \A k \in 1 .. Len(asked) : asked'[k] = asked[k]
    BY <1>3, <1>4, <2>1, <2>2
  <2> QED
    BY <2>1, <2>2, <2>3, <2>4 DEF t
<1>6. Shown' = Len(asked) /\ Shown = Len(asked)
  <2>1. Len(text) = 0 /\ i = 0
    BY <1>2 DEF IInv, TypeOK
  <2> QED
    BY <1>2, <1>3, <1>4, <1>5, <2>1 DEF Shown
<1>7. TypeOK'
  BY <1>2, <1>3 DEF IInv, TypeOK
<1>8. CursorNext'
  BY <1>2, <1>6 DEF IInv, CursorNext, Size
<1>9. Backlog'
  BY <1>2, <1>3, <1>4, <1>5 DEF Backlog
<1>10. ScreenShowsLatest'
  <2>1. \A k \in 1 .. Len(asked) : asked'[k] = asked[k]
    BY <1>5
  <2>2. Len(asked') - (Len(text') - i') = Len(asked) /\ Len(asked) - (Len(text) - i) = Len(asked)
    BY <1>6 DEF Shown
  <2> QED
    BY <1>2, <2>1, <2>2 DEF IInv, ScreenShowsLatest
<1> QED
  BY <1>7, <1>8, <1>9, <1>10 DEF IInv

\* One character more of the string is on the screen.
LEMMA PutsNextStep ==
  ASSUME IInv, PutsNext
  PROVE  IInv'
<1>1. /\ i < Len(text) /\ vga_putchar(text[i + 1]) /\ i' = i + 1 /\ UNCHANGED <<text, asked>>
  BY DEF PutsNext
<1>2. /\ Len(asked) \in Nat /\ Len(text) \in Nat /\ i \in 0 .. Len(text)
      /\ text \in Seq((-128 .. 127) \ {0})
      /\ asked \in Seq(Entry) /\ Len(text) <= Len(asked)
  BY Sizes DEF IInv, Backlog
<1>3. i + 1 \in 1 .. Len(text) /\ text[i + 1] \in -128 .. 127
  <2>1. i + 1 \in 1 .. Len(text)
    BY <1>1, <1>2
  <2>2. text[i + 1] \in (-128 .. 127) \ {0}
    BY <1>2, <2>1, ElementOfSeq
  <2> QED
    BY <2>1, <2>2
<1>4. Shown' = Shown + 1 /\ Shown + 1 = Len(asked) - Len(text) + (i + 1) /\ Shown + 1 <= Len(asked')
  BY <1>1, <1>2 DEF Shown
<1>5. asked'[Shown + 1] = [char |-> text[i + 1], colour |-> vga_color]
  BY <1>1, <1>3, <1>4 DEF IInv, Backlog
<1>6. /\ vga_row' \in 0 .. VGA_HEIGHT - 1 /\ vga_column' \in 0 .. VGA_WIDTH - 1
      /\ vga_color' \in 0 .. 255 /\ vga_buffer' \in [Cells -> Nat]
      /\ \A b \in Cells : vga_buffer'[b] \div 256 \in 0 .. 255
      /\ CursorNext' /\ ScreenShowsLatest'
  <2>0. PICK c \in -128 .. 127 : c = text[i + 1]
    BY <1>3
  <2>1. c \in -128 .. 127 /\ vga_putchar(c) /\ asked'[Shown + 1] = [char |-> c, colour |-> vga_color]
    BY <1>1, <1>5, <2>0 DEF vga_putchar
  <2>2. asked' \in Seq(Entry) /\ \A k \in 1 .. Shown : asked'[k] = asked[k]
    BY <1>1, <1>2
  <2> QED
    BY <1>4, <2>1, <2>2, PutcharShows, Zenon
<1>7. TypeOK'
  <2>1. i' \in 0 .. Len(text') /\ text' \in Strings \cup {<< >>}
    <3>1. i' \in 0 .. Len(text')
      BY <1>1, <1>2
    <3>2. text \in Strings \cup {<< >>}
      BY Zenon DEF IInv, TypeOK
    <3> QED
      BY <1>1, <3>1, <3>2, Zenon
  <2> QED
    BY <1>6, <2>1, Zenon DEF TypeOK, Cells
<1>8. Backlog'
  BY <1>1 DEF IInv, Backlog, vga_putchar
<1> QED
  BY <1>6, <1>7, <1>8 DEF IInv

\* The end of a string changes nothing on the screen.
LEMMA PutsDoneStep ==
  ASSUME IInv, PutsDone
  PROVE  IInv'
<1>1. /\ i >= Len(text) /\ text' = << >> /\ i' = 0
      /\ UNCHANGED <<vga_row, vga_column, vga_color, vga_buffer, asked>>
  BY DEF PutsDone, cursor
<1>2. Len(asked) \in Nat /\ Len(text) \in Nat /\ i \in 0 .. Len(text) /\ Len(<< >>) = 0
  BY Sizes
<1>3. Shown' = Shown /\ Len(asked') - (Len(text') - i') = Len(asked) - (Len(text) - i)
  BY <1>1, <1>2 DEF Shown
<1>4. TypeOK'
  BY <1>1 DEF IInv, TypeOK
<1>5. CursorNext'
  BY <1>1, <1>3 DEF IInv, CursorNext, Size
<1>6. Backlog'
  BY <1>1, <1>2 DEF IInv, Backlog
<1>7. ScreenShowsLatest'
  BY <1>1, <1>3 DEF IInv, ScreenShowsLatest
<1> QED
  BY <1>4, <1>5, <1>6, <1>7 DEF IInv

\* A character that the caller prints itself.
LEMMA PutcharStep ==
  ASSUME IInv, NEW c \in Chars, Putchar(c)
  PROVE  IInv'
<1>1. c \in (-128 .. 127) \ {0}
  <2>1. PICK s \in Strings : c \in {s[k] : k \in 1 .. Len(s)}
    BY DEF Chars
  <2>2. s \in Seq((-128 .. 127) \ {0})
    BY VgaAssumption
  <2> QED
    BY <2>1, <2>2, ElementOfSeq
<1>2. text = << >> /\ vga_putchar(c) /\ asked' = asked \o InColour(<<c>>) /\ UNCHANGED <<text, i>>
  BY DEF Putchar
<1>3. asked \in Seq(Entry) /\ Len(asked) \in Nat /\ Len(text) = 0 /\ i = 0
  BY <1>2, LenProperties DEF IInv, Backlog, TypeOK
<1> DEFINE t == InColour(<<c>>)
<1>4. t \in Seq(Entry) /\ Len(t) = 1 /\ t[1] = [char |-> c, colour |-> vga_color]
  <2>1. <<c>> \in Seq((-128 .. 127) \ {0}) /\ Len(<<c>>) = 1 /\ <<c>>[1] = c
    BY <1>1
  <2> DEFINE s == <<c>>
  <2>2. 1 \in 1 .. Len(s) /\ s \in Seq((-128 .. 127) \ {0}) /\ Len(s) = 1 /\ s[1] = c
    BY <2>1
  <2> HIDE DEF s
  <2>3. /\ InColour(s) \in Seq(Entry) /\ Len(InColour(s)) = 1
        /\ InColour(s)[1] = [char |-> c, colour |-> vga_color]
    <3>1. /\ InColour(s) \in Seq(Entry) /\ Len(InColour(s)) = Len(s)
          /\ \A k \in 1 .. Len(s) : InColour(s)[k] = [char |-> s[k], colour |-> vga_color]
      BY <2>2, ColouredEntries, Zenon
    <3> QED
      BY <2>2, <3>1, Zenon
  <2> QED
    BY <2>3, Zenon DEF s
<1> HIDE DEF t
<1>5. /\ asked' \in Seq(Entry) /\ Len(asked') = Len(asked) + 1
      /\ \A k \in 1 .. Len(asked) : asked'[k] = asked[k]
      /\ asked'[Len(asked) + 1] = [char |-> c, colour |-> vga_color]
  <2>1. asked' = asked \o t
    BY <1>2 DEF t
  <2>2. /\ asked' \in Seq(Entry) /\ Len(asked') = Len(asked) + 1
        /\ \A k \in 1 .. Len(asked) + 1 :
             asked'[k] = IF k <= Len(asked) THEN asked[k] ELSE t[k - Len(asked)]
    <3>1. /\ asked' \in Seq(Entry) /\ Len(asked') = Len(asked) + Len(t)
          /\ \A k \in 1 .. Len(asked) + Len(t) :
               asked'[k] = IF k <= Len(asked) THEN asked[k] ELSE t[k - Len(asked)]
      BY <1>3, <1>4, <2>1, ConcatProperties
    <3> QED
      BY <1>4, <3>1, Zenon
  <2>3. Len(asked) + 1 \in 1 .. Len(asked) + 1 /\ (Len(asked) + 1) - Len(asked) = 1
        /\ ~(Len(asked) + 1 <= Len(asked))
    BY <1>3
  <2>4. asked'[Len(asked) + 1] = t[1]
    BY <2>2, <2>3
  <2> QED
    BY <1>3, <1>4, <2>2, <2>4
<1>6. Shown = Len(asked) /\ Shown' = Shown + 1
  BY <1>2, <1>3, <1>5 DEF Shown
<1>7. /\ vga_row' \in 0 .. VGA_HEIGHT - 1 /\ vga_column' \in 0 .. VGA_WIDTH - 1
      /\ vga_color' \in 0 .. 255 /\ vga_buffer' \in [Cells -> Nat]
      /\ \A b \in Cells : vga_buffer'[b] \div 256 \in 0 .. 255
      /\ CursorNext' /\ ScreenShowsLatest'
  <2>1. \A k \in 1 .. Shown : asked'[k] = asked[k]
    BY <1>5, <1>6, Zenon
  <2>2. Shown + 1 <= Len(asked') /\ asked'[Shown + 1] = [char |-> c, colour |-> vga_color]
    BY <1>3, <1>5, <1>6
  <2>3. c \in -128 .. 127
    BY <1>1
  <2> QED
    BY <1>2, <1>5, <1>6, <2>1, <2>2, <2>3, PutcharShows, Zenon
<1>8. TypeOK'
  BY <1>2, <1>7 DEF IInv, TypeOK
<1>9. Backlog'
  BY <1>2, <1>3, <1>5 DEF Backlog
<1> QED
  BY <1>7, <1>8, <1>9 DEF IInv

-----------------------------------------------------------------------------
(* The theorems.                                                             *)

\* The invariant holds whatever the caller does.
THEOREM Invariance == Spec => []IInv
<1>1. IInv /\ [Next]_vars => IInv'
  <2> SUFFICES ASSUME IInv, [Next]_vars PROVE IInv'
    OBVIOUS
  <2>1. CASE Caller
    BY <2>1, InitializeStep, SetColorStep, PutcharStep, PutsStep DEF Caller
  <2>2. CASE Puts
    BY <2>2, PutsNextStep, PutsDoneStep DEF Puts
  <2>3. CASE UNCHANGED vars
    <3>1. UNCHANGED <<vga_row, vga_column, vga_color, vga_buffer, text, i, asked>>
      BY <2>3 DEF vars, cursor
    <3>2. TypeOK'
      BY <3>1 DEF IInv, TypeOK
    <3>3. CursorNext'
      BY <3>1 DEF IInv, CursorNext, Shown, Size
    <3>4. Backlog'
      BY <3>1 DEF IInv, Backlog
    <3>5. ScreenShowsLatest'
      BY <3>1 DEF IInv, ScreenShowsLatest
    <3> QED
      BY <3>2, <3>3, <3>4, <3>5 DEF IInv
  <2> QED
    BY <2>1, <2>2, <2>3 DEF Next
<1> QED
  BY <1>1, InitIInv, PTL DEF Spec

\* TypeOK is an invariant: the cursor never leaves a screen of any size.
THEOREM TypeCorrect == Spec => []TypeOK
BY Invariance, PTL DEF IInv

\* The screen shows the latest screenful of what was asked for, each character in
\* the colour of its time.
THEOREM ShowsLatest == Spec => []ScreenShowsLatest
BY Invariance, PTL DEF IInv

=============================================================================
