---------------------------- MODULE ScreenProofs ----------------------------
(* Proofs of the safety properties of Screen, for any set of video modes, any  *)
(* tiling and counters of any width.                                          *)
EXTENDS Screen, TLAPS

-----------------------------------------------------------------------------
(* The invariant.                                                            *)

\* Where draw_rect puts the pixel of row r and column c of tile q.
At(q, r, c) ==
  tile_width * (q % Columns) + c + (tile_height * (q \div Columns) + r) * pitch

\* The bootloader has not come to this pixel yet.
Ahead(q, r, c) ==
  \/ q > p
  \/ q = p /\ (pc = "tile" \/ r > row \/ (r = row /\ (pc = "row" \/ c >= col)))

\* What the tiles that are still to come will cover is black.
BlackAhead ==
  pc \in {"tile", "row", "col"} =>
    \A q \in 0 .. Columns * Rows - 1, r \in 0 .. tile_height - 1, c \in 0 .. tile_width - 1 :
      Ahead(q, r, c) => framebuffer[At(q, r, c)] = Black

\* The kernel has been at this pixel.
Passed(px, py) == py < y \/ (pc = "x" /\ py = y /\ px < x)

\* What the kernel has passed shows its texture.
TextureBehind ==
  pc \in {"y", "x", "done"} =>
    \A px \in 0 .. width - 1, py \in 0 .. height - 1 :
      Passed(px, py) => framebuffer[PixelAt(px, py)] = TextureColour(px, py)

\* The loops are entered under their conditions, the kernel's after the bootloader's.
InLoops ==
  /\ pc \in {"row", "col"} => p < Columns * Rows
  /\ pc = "col" => row < tile_height
  /\ pc = "x" => y < height
  /\ pc = "done" => y = height
  /\ pc \in {"tile", "row", "col"} => y = 0

\* The invariant the proofs carry through every step.
IInv == TypeOK /\ InLoops /\ BlackAhead /\ TextureBehind

-----------------------------------------------------------------------------
(* Rows and columns.                                                         *)

\* Between two multiples of a number there is none.
LEMMA MultiplesApart ==
  ASSUME NEW N \in Nat, NEW q \in Nat, NEW t \in Nat, q < t
  PROVE  N * q + N <= N * t /\ N * q \in Nat /\ N * t \in Nat
<1>1. N * (q + 1) = N * q + N
  BY SMT
<1>2. N * (q + 1) <= N * t
  BY SMT
<1> QED
  BY <1>1, <1>2, SMT

\* A place is in one row and one column.
LEMMA OnePlace ==
  ASSUME NEW N \in Nat, NEW a \in 0 .. N - 1, NEW b \in Nat, NEW c \in 0 .. N - 1, NEW d \in Nat,
         N * b + a = N * d + c
  PROVE  a = c /\ b = d
<1>1. N * b \in Nat /\ N * d \in Nat
  BY SMT
<1>2. ~(b < d)
  BY <1>1, MultiplesApart
<1>3. ~(d < b)
  BY <1>1, MultiplesApart
<1>4. b = d
  BY <1>2, <1>3
<1> QED
  BY <1>1, <1>4

\* A visible pixel has its place in the framebuffer, and no other pixel has it.
LEMMA PixelPlace ==
  ASSUME NEW P \in Nat, NEW H \in Nat, NEW a \in 0 .. P - 1, NEW b \in 0 .. H - 1
  PROVE  /\ a + b * P \in 0 .. H * P - 1
         /\ (a + b * P) % P = a
         /\ a + b * P = P * b + a
<1> DEFINE place == a + b * P
<1>1. P \in Nat \ {0} /\ a \in Nat /\ b \in Nat /\ b < H
  OBVIOUS
<1>2. place = P * b + a /\ P * b \in Nat
  BY <1>1, SMT
<1>3. P * b + P <= P * H /\ P * H = H * P
  BY <1>1, MultiplesApart, SMT
<1>4. place \in 0 .. H * P - 1
  BY <1>1, <1>2, <1>3
<1> HIDE DEF place
<1>5. place % P = a
  <2> DEFINE q == place \div P
             r == place % P
  <2>1. q \in Nat /\ r \in 0 .. P - 1 /\ place = P * q + r
    BY <1>1, <1>2, SMT
  <2> HIDE DEF q, r
  <2>2. P * q + r = P * b + a
    BY <1>2, <2>1
  <2>3. r = a
    BY <1>1, <2>1, <2>2, OnePlace
  <2> QED
    BY <2>3 DEF r
<1> QED
  BY <1>2, <1>4, <1>5 DEF place

\* As many parts as fit do not pass the whole.
LEMMA PartsFit ==
  ASSUME NEW whole \in Nat, NEW parts \in Nat \ {0}, NEW U \in Nat, whole < U
  PROVE  /\ whole \div parts \in Nat /\ (whole \div parts) % U = whole \div parts
         /\ (whole \div parts) * parts <= whole
<1> DEFINE part == whole \div parts
<1>1. part \in Nat /\ parts * part <= whole
  BY SMT
<1> HIDE DEF part
<1>2. parts * part = part * parts
  BY <1>1, SMT
<1>3. part <= parts * part
  BY <1>1, SMT
<1>4. part < U
  BY <1>1, <1>2, <1>3
<1>5. part % U = part
  BY <1>1, <1>4, SMT
<1> QED
  BY <1>1, <1>2, <1>5 DEF part

\* A place in one of the parts is a place in the whole, in no other part.
LEMMA InPart ==
  ASSUME NEW part \in Nat, NEW parts \in Nat, NEW whole \in Nat, NEW U \in Nat,
         part * parts <= whole, whole < U,
         NEW n \in 0 .. parts - 1, NEW k \in 0 .. part - 1
  PROVE  /\ part * n + k \in 0 .. whole - 1
         /\ (part * n) % U = part * n
<1>1. n \in Nat /\ k \in Nat /\ k < part /\ n < parts
  OBVIOUS
<1>2. part * n + part <= part * parts /\ part * n \in Nat
  BY <1>1, MultiplesApart
<1>3. part * n < U /\ part * n + k < whole
  BY <1>1, <1>2
<1>4. (part * n) % U = part * n
  BY <1>2, <1>3, SMT
<1> QED
  BY <1>1, <1>2, <1>3, <1>4

\* A tile has its place in the rows and columns of tiles.
LEMMA TilePlace ==
  ASSUME NEW C \in Nat \ {0}, NEW R \in Nat, NEW q \in 0 .. C * R - 1
  PROVE  q % C \in 0 .. C - 1 /\ q \div C \in 0 .. R - 1 /\ q = C * (q \div C) + (q % C)
<1> DEFINE n == q % C
           m == q \div C
<1>1. C * R \in Nat
  BY SMT
<1>2. q \in Nat /\ q < C * R
  BY <1>1
<1>3. m \in Nat /\ n \in 0 .. C - 1 /\ q = C * m + n
  BY <1>2, SMT
<1> HIDE DEF n, m
<1>4. m < R
  <2> SUFFICES ASSUME m >= R PROVE FALSE
    BY <1>3
  <2>1. m = R \/ R < m
    BY <1>3
  <2>2. C * R <= C * m /\ C * m \in Nat
    BY <1>1, <1>3, <2>1, MultiplesApart
  <2> QED
    BY <1>1, <1>2, <1>3, <2>2
<1> QED
  BY <1>3, <1>4 DEF n, m

-----------------------------------------------------------------------------
(* The screen and its tiles.                                                 *)

\* What a video mode and its tiles measure.
LEMMA Sizes ==
  ASSUME video_mode_info \in Screens
  PROVE  /\ width \in Nat /\ width < UINT16 /\ height \in Nat /\ height < UINT16
         /\ pitch \in Nat /\ width <= pitch /\ UINT16 \in Nat
         /\ Columns \in Nat \ {0} /\ Rows \in Nat \ {0}
         /\ tile_width \in Nat /\ tile_width * Columns <= width
         /\ tile_height \in Nat /\ tile_height * Rows <= height
<1>1. /\ width \in Nat /\ width < UINT16 /\ height \in Nat /\ height < UINT16
      /\ pitch \in Nat /\ width <= pitch /\ UINT16 \in Nat
      /\ Columns \in Nat \ {0} /\ Rows \in Nat \ {0}
  BY ScreensAssumption, TilesAssumption DEF width, height, pitch
<1>2. tile_width \in Nat /\ tile_width * Columns <= width
  BY <1>1, PartsFit DEF tile_width
<1>3. tile_height \in Nat /\ tile_height * Rows <= height
  BY <1>1, PartsFit DEF tile_height
<1> QED
  BY <1>1, <1>2, <1>3

\* No step changes the video mode, and with it nothing that it determines.
LEMMA SameScreen ==
  ASSUME UNCHANGED video_mode_info
  PROVE  /\ width' = width /\ height' = height /\ pitch' = pitch /\ Offsets' = Offsets
         /\ tile_width' = tile_width /\ tile_height' = tile_height
BY DEF width, height, pitch, Offsets, tile_width, tile_height

\* A tile's pixel is a visible one.
LEMMA TilePixel ==
  ASSUME video_mode_info \in Screens,
         NEW q \in 0 .. Columns * Rows - 1, NEW r \in 0 .. tile_height - 1, NEW c \in 0 .. tile_width - 1
  PROVE  LET a == tile_width * (q % Columns) + c
             b == tile_height * (q \div Columns) + r
         IN  /\ a \in 0 .. width - 1 /\ b \in 0 .. height - 1
             /\ At(q, r, c) = a + b * pitch
             /\ At(q, r, c) \in Offsets /\ At(q, r, c) % pitch = a
             /\ (tile_width * (q % Columns)) % UINT16 = tile_width * (q % Columns)
             /\ (tile_height * (q \div Columns)) % UINT16 = tile_height * (q \div Columns)
<1> DEFINE n == q % Columns
           m == q \div Columns
           a == tile_width * n + c
           b == tile_height * m + r
<1>1. n \in 0 .. Columns - 1 /\ m \in 0 .. Rows - 1
  BY Sizes, TilePlace
<1>2. At(q, r, c) = a + b * pitch
  BY DEF At
<1> HIDE DEF n, m
<1>3. a \in 0 .. width - 1 /\ (tile_width * n) % UINT16 = tile_width * n
  BY <1>1, Sizes, InPart
<1>4. b \in 0 .. height - 1 /\ (tile_height * m) % UINT16 = tile_height * m
  BY <1>1, Sizes, InPart
<1> HIDE DEF a, b
<1>5. a \in 0 .. pitch - 1
  BY <1>3, Sizes
<1>6. a + b * pitch \in Offsets /\ (a + b * pitch) % pitch = a
  <2>1. pitch \in Nat /\ height \in Nat
    BY Sizes
  <2>2. a + b * pitch \in 0 .. height * pitch - 1 /\ (a + b * pitch) % pitch = a
    BY <1>4, <1>5, <2>1, PixelPlace
  <2> QED
    BY <2>2, Zenon DEF Offsets
<1> QED
  BY <1>2, <1>3, <1>4, <1>6 DEF a, b, n, m

\* Two pixels of tiles that have the same place are the same pixel of the same tile.
LEMMA TilesAreApart ==
  ASSUME video_mode_info \in Screens,
         NEW q \in 0 .. Columns * Rows - 1, NEW r \in 0 .. tile_height - 1, NEW c \in 0 .. tile_width - 1,
         NEW t \in 0 .. Columns * Rows - 1, NEW v \in 0 .. tile_height - 1, NEW d \in 0 .. tile_width - 1,
         At(q, r, c) = At(t, v, d)
  PROVE  q = t /\ r = v /\ c = d
<1> DEFINE n == q % Columns
           m == q \div Columns
           k == t % Columns
           l == t \div Columns
           a == tile_width * n + c
           b == tile_height * m + r
           e == tile_width * k + d
           f == tile_height * l + v
<1>1. /\ n \in 0 .. Columns - 1 /\ m \in 0 .. Rows - 1 /\ q = Columns * m + n
      /\ k \in 0 .. Columns - 1 /\ l \in 0 .. Rows - 1 /\ t = Columns * l + k
  BY Sizes, TilePlace
<1>2. /\ a \in 0 .. width - 1 /\ b \in 0 .. height - 1 /\ At(q, r, c) = a + b * pitch
      /\ e \in 0 .. width - 1 /\ f \in 0 .. height - 1 /\ At(t, v, d) = e + f * pitch
  BY TilePixel
<1> HIDE DEF n, m, k, l
<1>3. a = e /\ b = f
  <2> HIDE DEF a, b, e, f
  <2>1. a \in 0 .. pitch - 1 /\ e \in 0 .. pitch - 1 /\ b \in Nat /\ f \in Nat /\ pitch \in Nat
    BY <1>2, Sizes
  <2>2. a + b * pitch = pitch * b + a /\ e + f * pitch = pitch * f + e
    BY <2>1, SMT
  <2> QED
    <3>1. pitch * b + a = pitch * f + e
      BY <1>2, <2>2, Zenon
    <3> QED
      BY <2>1, <3>1, OnePlace
<1>4. n = k /\ c = d
  <2>1. c \in 0 .. tile_width - 1 /\ d \in 0 .. tile_width - 1 /\ n \in Nat /\ k \in Nat /\ tile_width \in Nat
    BY <1>1, Sizes
  <2> QED
    BY <1>3, <2>1, OnePlace
<1>5. m = l /\ r = v
  <2>1. r \in 0 .. tile_height - 1 /\ v \in 0 .. tile_height - 1 /\ m \in Nat /\ l \in Nat
        /\ tile_height \in Nat
    BY <1>1, Sizes
  <2> QED
    BY <1>3, <2>1, OnePlace
<1> QED
  BY <1>1, <1>4, <1>5

\* The pixel that draw_rect puts next is that of its tile, row and column.
LEMMA NextOfTile ==
  ASSUME IInv, pc = "col", col < tile_width
  PROVE  /\ p \in 0 .. Columns * Rows - 1 /\ row \in 0 .. tile_height - 1
         /\ col \in 0 .. tile_width - 1
         /\ RectAt = At(p, row, col) /\ RectAt \in Offsets /\ RectAt % pitch < width
<1>1. video_mode_info \in Screens /\ p \in 0 .. Columns * Rows /\ row \in 0 .. tile_height
      /\ col \in 0 .. tile_width /\ p < Columns * Rows /\ row < tile_height
  BY DEF IInv, TypeOK, InLoops
<1>2. Columns * Rows \in Nat /\ tile_width \in Nat /\ tile_height \in Nat /\ width \in Nat
  BY <1>1, Sizes, SMT
<1>3. /\ p \in 0 .. Columns * Rows - 1 /\ row \in 0 .. tile_height - 1
      /\ col \in 0 .. tile_width - 1
  BY <1>1, <1>2
<1> DEFINE a == tile_width * (p % Columns) + col
<1>4. /\ a \in 0 .. width - 1 /\ At(p, row, col) \in Offsets /\ At(p, row, col) % pitch = a
      /\ (tile_width * (p % Columns)) % UINT16 = tile_width * (p % Columns)
      /\ (tile_height * (p \div Columns)) % UINT16 = tile_height * (p \div Columns)
  BY <1>1, <1>3, TilePixel
<1>5. RectAt = At(p, row, col)
  BY <1>4, Zenon DEF RectAt, At, tileX, tileY
<1> HIDE DEF a
<1> QED
  BY <1>2, <1>3, <1>4, <1>5

\* The pixel that draw_pixel puts is visible and has a colour.
LEMMA NextOfLine ==
  ASSUME video_mode_info \in Screens, NEW px \in 0 .. width - 1, NEW py \in 0 .. height - 1
  PROVE  /\ PixelAt(px, py) \in Offsets /\ PixelAt(px, py) % pitch = px
         /\ TextureColour(px, py) \in Colours
<1>1. px \in 0 .. pitch - 1 /\ px \in 0 .. UINT16 - 1 /\ py \in 0 .. UINT16 - 1
  BY Sizes
<1>2. PixelAt(px, py) \in Offsets /\ PixelAt(px, py) % pitch = px
  <2>1. pitch \in Nat /\ height \in Nat
    BY Sizes
  <2>2. px + py * pitch \in 0 .. height * pitch - 1 /\ (px + py * pitch) % pitch = px
    BY <1>1, <2>1, PixelPlace
  <2> QED
    BY <2>2, Zenon DEF Offsets, PixelAt
<1>3. TextureColour(px, py) \in Colours
  <2> DEFINE c == ExclusiveOr(px, py) % 256
             b == c % 128
  <2>1. ExclusiveOr(px, py) \in Nat
    BY <1>1, TilesAssumption
  <2>2. c \in 0 .. 255
    BY <2>1
  <2> HIDE DEF c
  <2>3. b \in 0 .. 127
    BY <2>2
  <2> HIDE DEF b
  <2>4. (255 - b) * 65536 + c * 256 + b >= 0 /\ (255 - b) * 65536 + c * 256 + b <= 16777215
        /\ (255 - b) * 65536 + c * 256 + b \in Int
    BY <2>2, <2>3, SMT
  <2> DEFINE colour == convert_rgb_to_32bit_colour(255 - b, c, b)
  <2>5. White \in Int /\ colour \in Int /\ colour >= 0 /\ colour <= White
    BY <2>4, SMT DEF White, convert_rgb_to_32bit_colour
  <2>6. TextureColour(px, py) = colour
    BY Zenon DEF TextureColour, c, b
  <2> HIDE DEF colour
  <2> QED
    BY <2>5, <2>6, SMT DEF Colours
<1> QED
  BY <1>2, <1>3

-----------------------------------------------------------------------------
(* The steps of the bootloader.                                              *)

LEMMA SamePlaces ==
  ASSUME UNCHANGED video_mode_info
  PROVE  /\ \A q, r, c : At(q, r, c)' = At(q, r, c)
         /\ \A px, py : PixelAt(px, py)' = PixelAt(px, py)
BY SameScreen DEF At, PixelAt

\* What is ahead stays black while nothing is drawn and the bootloader goes on.
LEMMA StillBlack ==
  ASSUME IInv, UNCHANGED <<video_mode_info, framebuffer>>, pc \in {"tile", "row", "col"},
         \A q \in 0 .. Columns * Rows - 1, r \in 0 .. tile_height - 1, c \in 0 .. tile_width - 1 :
           Ahead(q, r, c)' => Ahead(q, r, c)
  PROVE  BlackAhead'
BY SameScreen, SamePlaces DEF IInv, BlackAhead

LEMMA NextTileStep ==
  ASSUME IInv, NextTile
  PROVE  IInv'
<1>1. /\ pc = "tile" /\ UNCHANGED <<video_mode_info, framebuffer, p, col, x, y>>
      /\ \/ p < Columns * Rows /\ pc' = "row" /\ row' = 0
         \/ ~(p < Columns * Rows) /\ pc' = "y" /\ row' = row
  BY DEF NextTile
<1>2. /\ width' = width /\ height' = height /\ Offsets' = Offsets
      /\ tile_width' = tile_width /\ tile_height' = tile_height
  BY <1>1, SameScreen
<1>3. video_mode_info \in Screens /\ y = 0
  BY <1>1 DEF IInv, TypeOK, InLoops
<1>4. tile_height \in Nat
  BY <1>3, Sizes
<1>5. row' \in 0 .. tile_height
  BY <1>1, <1>4 DEF IInv, TypeOK
<1>6. TypeOK'
  BY <1>1, <1>2, <1>5 DEF IInv, TypeOK
<1>7. InLoops'
  BY <1>1, <1>3 DEF InLoops
<1>8. BlackAhead'
  <2>1. CASE pc' = "row"
    <3>1. \A q \in 0 .. Columns * Rows - 1, r \in 0 .. tile_height - 1, c \in 0 .. tile_width - 1 :
            Ahead(q, r, c)' => Ahead(q, r, c)
      BY <1>1, <2>1 DEF Ahead
    <3> QED
      BY <1>1, <3>1, StillBlack
  <2>2. CASE pc' = "y"
    BY <2>2 DEF BlackAhead
  <2> QED
    BY <1>1, <2>1, <2>2
<1>9. TextureBehind'
  BY <1>1, <1>2, <1>3 DEF TextureBehind, Passed
<1> QED
  BY <1>6, <1>7, <1>8, <1>9 DEF IInv

LEMMA NextRowStep ==
  ASSUME IInv, NextRow
  PROVE  IInv'
<1>1. /\ pc = "row" /\ UNCHANGED <<video_mode_info, framebuffer, row, x, y>>
      /\ \/ row < tile_height /\ pc' = "col" /\ col' = 0 /\ p' = p
         \/ ~(row < tile_height) /\ pc' = "tile" /\ p' = p + 1 /\ col' = col
  BY DEF NextRow
<1>2. /\ width' = width /\ height' = height /\ Offsets' = Offsets
      /\ tile_width' = tile_width /\ tile_height' = tile_height
  BY <1>1, SameScreen
<1>3. /\ video_mode_info \in Screens /\ y = 0 /\ p < Columns * Rows
      /\ p \in 0 .. Columns * Rows /\ row \in 0 .. tile_height /\ col \in 0 .. tile_width
  BY <1>1 DEF IInv, TypeOK, InLoops
<1>4. tile_height \in Nat /\ tile_width \in Nat /\ Columns * Rows \in Nat
  BY <1>3, Sizes, SMT
<1>5. p' \in 0 .. Columns * Rows /\ col' \in 0 .. tile_width
  <2> DEFINE tiles == Columns * Rows
  <2>1. tiles \in Nat /\ p \in 0 .. tiles /\ p < tiles
    BY <1>3, <1>4
  <2> HIDE DEF tiles
  <2>2. p' \in 0 .. tiles
    BY <1>1, <2>1
  <2> QED
    BY <1>1, <1>3, <1>4, <2>2 DEF tiles
<1>6. TypeOK'
  BY <1>1, <1>2, <1>5 DEF IInv, TypeOK
<1>7. InLoops'
  BY <1>1, <1>2, <1>3 DEF InLoops
<1>8. BlackAhead'
  <2>1. ASSUME NEW q \in 0 .. Columns * Rows - 1, NEW r \in 0 .. tile_height - 1,
               NEW c \in 0 .. tile_width - 1, Ahead(q, r, c)'
        PROVE  Ahead(q, r, c)
    <3>1. q \in Int /\ r \in Int /\ c \in Int /\ p \in Int /\ row \in Int /\ r >= 0 /\ c >= 0
      BY <1>3, <1>4
    <3> QED
      BY <1>1, <2>1, <3>1 DEF Ahead
  <2> QED
    BY <1>1, <2>1, StillBlack
<1>9. TextureBehind'
  BY <1>1 DEF TextureBehind
<1> QED
  BY <1>6, <1>7, <1>8, <1>9 DEF IInv

LEMMA DrawRectStep ==
  ASSUME IInv, draw_rect
  PROVE  IInv'
<1>1. /\ pc = "col" /\ UNCHANGED <<video_mode_info, p, x, y>>
      /\ \/ /\ col < tile_width /\ pc' = pc /\ row' = row /\ col' = (col + 1) % UINT16
            /\ framebuffer' = [framebuffer EXCEPT ![RectAt] = TileColour]
         \/ /\ ~(col < tile_width) /\ pc' = "row" /\ row' = (row + 1) % UINT16
            /\ framebuffer' = framebuffer /\ col' = col
  BY DEF draw_rect
<1>2. /\ width' = width /\ height' = height /\ Offsets' = Offsets
      /\ tile_width' = tile_width /\ tile_height' = tile_height
  BY <1>1, SameScreen
<1>3. /\ video_mode_info \in Screens /\ y = 0 /\ p < Columns * Rows /\ row < tile_height
      /\ p \in 0 .. Columns * Rows /\ row \in 0 .. tile_height /\ col \in 0 .. tile_width
      /\ framebuffer \in [Offsets -> Colours]
  BY <1>1 DEF IInv, TypeOK, InLoops
<1>4. /\ tile_height \in Nat /\ tile_width \in Nat /\ UINT16 \in Nat
      /\ tile_height < UINT16 /\ tile_width < UINT16
  <2>1. /\ tile_height \in Nat /\ tile_width \in Nat /\ UINT16 \in Nat
        /\ Columns \in Nat \ {0} /\ Rows \in Nat \ {0} /\ UINT16 > 0
    BY <1>3, Sizes
  <2>2. tile_height < UINT16 /\ tile_width < UINT16
    BY <1>3, <2>1, Sizes, SMT DEF tile_height, tile_width
  <2> QED
    BY <2>1, <2>2
<1>5. col < tile_width => (col + 1) % UINT16 = col + 1
  BY <1>3, <1>4
<1>6. (row + 1) % UINT16 = row + 1
  BY <1>3, <1>4
<1>7. InLoops'
  BY <1>1, <1>2, <1>3 DEF InLoops
<1>8. TextureBehind'
  BY <1>1 DEF TextureBehind
<1>9. CASE col < tile_width
  <2>1. /\ pc' = "col" /\ row' = row /\ col' = col + 1
        /\ framebuffer' = [framebuffer EXCEPT ![RectAt] = TileColour]
    BY <1>1, <1>5, <1>9
  <2>2. /\ p \in 0 .. Columns * Rows - 1 /\ row \in 0 .. tile_height - 1
        /\ col \in 0 .. tile_width - 1 /\ RectAt = At(p, row, col) /\ RectAt \in Offsets
    BY <1>1, <1>9, NextOfTile
  <2>3. TypeOK'
    <3>1. TileColour \in Colours
      BY TilesAssumption DEF TileColour
    <3>2. framebuffer' \in [Offsets -> Colours]
      BY <1>3, <2>1, <3>1
    <3>3. col' \in 0 .. tile_width
      BY <1>3, <1>4, <1>9, <2>1
    <3> QED
      BY <1>1, <1>2, <2>1, <3>2, <3>3 DEF IInv, TypeOK
  <2>4. BlackAhead'
    <3> SUFFICES ASSUME NEW q \in 0 .. Columns * Rows - 1, NEW r \in 0 .. tile_height - 1,
                        NEW c \in 0 .. tile_width - 1, Ahead(q, r, c)'
                 PROVE  framebuffer'[At(q, r, c)] = Black
      BY <1>1, <1>2, SamePlaces DEF BlackAhead
    <3>1. q \in Int /\ r \in Int /\ c \in Int /\ p \in Int /\ row \in Int /\ col \in Int
      BY <1>3, <1>4
    <3>2. Ahead(q, r, c) /\ ~(q = p /\ r = row /\ c = col)
      BY <1>1, <2>1, <3>1 DEF Ahead
    <3>3. At(q, r, c) # RectAt
      BY <1>3, <2>2, <3>2, TilesAreApart
    <3>4. At(q, r, c) \in Offsets
      BY <1>3, TilePixel
    <3>5. framebuffer[At(q, r, c)] = Black
      BY <1>1, <3>2 DEF IInv, BlackAhead
    <3> QED
      BY <1>3, <2>1, <3>3, <3>4, <3>5
  <2> QED
    BY <1>7, <1>8, <2>3, <2>4 DEF IInv
<1>10. CASE ~(col < tile_width)
  <2>1. pc' = "row" /\ row' = row + 1 /\ framebuffer' = framebuffer /\ col' = col
    BY <1>1, <1>6, <1>10
  <2>2. TypeOK'
    <3>1. row' \in 0 .. tile_height
      BY <1>3, <1>4, <2>1
    <3> QED
      BY <1>1, <1>2, <2>1, <3>1 DEF IInv, TypeOK
  <2>3. BlackAhead'
    <3>1. ASSUME NEW q \in 0 .. Columns * Rows - 1, NEW r \in 0 .. tile_height - 1,
                 NEW c \in 0 .. tile_width - 1, Ahead(q, r, c)'
          PROVE  Ahead(q, r, c)
      <4>1. q \in Int /\ r \in Int /\ c \in Int /\ p \in Int /\ row \in Int
        BY <1>3, <1>4
      <4> QED
        BY <1>1, <2>1, <3>1, <4>1 DEF Ahead
    <3> QED
      BY <1>1, <2>1, <3>1, StillBlack
  <2> QED
    BY <1>7, <1>8, <2>2, <2>3 DEF IInv
<1> QED
  BY <1>9, <1>10

-----------------------------------------------------------------------------
(* The steps of the kernel.                                                  *)

LEMMA NextLineStep ==
  ASSUME IInv, NextLine
  PROVE  IInv'
<1>1. /\ pc = "y" /\ UNCHANGED <<video_mode_info, framebuffer, p, row, col, y>>
      /\ \/ y < height /\ pc' = "x" /\ x' = 0
         \/ ~(y < height) /\ pc' = "done" /\ x' = x
  BY DEF NextLine
<1>2. /\ width' = width /\ height' = height /\ Offsets' = Offsets
      /\ tile_width' = tile_width /\ tile_height' = tile_height
  BY <1>1, SameScreen
<1>3. video_mode_info \in Screens /\ x \in 0 .. width /\ y \in 0 .. height
  BY DEF IInv, TypeOK
<1>4. width \in Nat /\ height \in Nat
  BY <1>3, Sizes
<1>5. TypeOK'
  <2>1. x' \in 0 .. width
    BY <1>1, <1>3, <1>4
  <2> QED
    BY <1>1, <1>2, <2>1 DEF IInv, TypeOK
<1>6. InLoops'
  BY <1>1, <1>2, <1>3, <1>4 DEF InLoops
<1>7. BlackAhead'
  BY <1>1 DEF BlackAhead
<1>8. TextureBehind'
  <2> SUFFICES ASSUME NEW px \in 0 .. width - 1, NEW py \in 0 .. height - 1, Passed(px, py)'
               PROVE  framebuffer[PixelAt(px, py)] = TextureColour(px, py)
    BY <1>1, <1>2, SamePlaces DEF TextureBehind
  <2>1. Passed(px, py)
    BY <1>1, <1>4 DEF Passed
  <2> QED
    BY <1>1, <2>1 DEF IInv, TextureBehind
<1> QED
  BY <1>5, <1>6, <1>7, <1>8 DEF IInv

LEMMA DrawPixelStep ==
  ASSUME IInv, draw_pixel
  PROVE  IInv'
<1>1. /\ pc = "x" /\ UNCHANGED <<video_mode_info, p, row, col>>
      /\ \/ /\ x < width /\ pc' = pc /\ y' = y /\ x' = (x + 1) % UINT16
            /\ framebuffer' = [framebuffer EXCEPT ![PixelAt(x, y)] = TextureColour(x, y)]
         \/ /\ ~(x < width) /\ pc' = "y" /\ y' = (y + 1) % UINT16
            /\ framebuffer' = framebuffer /\ x' = x
  BY DEF draw_pixel
<1>2. /\ width' = width /\ height' = height /\ Offsets' = Offsets
      /\ tile_width' = tile_width /\ tile_height' = tile_height
  BY <1>1, SameScreen
<1>3. /\ video_mode_info \in Screens /\ x \in 0 .. width /\ y \in 0 .. height /\ y < height
      /\ framebuffer \in [Offsets -> Colours]
  BY <1>1 DEF IInv, TypeOK, InLoops
<1>4. width \in Nat /\ height \in Nat /\ UINT16 \in Nat /\ width < UINT16 /\ height < UINT16
      /\ pitch \in Nat /\ width <= pitch
  BY <1>3, Sizes
<1>5. (y + 1) % UINT16 = y + 1 /\ (x < width => (x + 1) % UINT16 = x + 1)
  BY <1>3, <1>4
<1>6. InLoops'
  BY <1>1, <1>2, <1>3 DEF InLoops
<1>7. BlackAhead'
  BY <1>1 DEF BlackAhead
<1>8. CASE x < width
  <2>1. PICK px \in 0 .. width - 1, py \in 0 .. height - 1 : px = x /\ py = y
    BY <1>3, <1>4, <1>8
  <2>2. /\ pc' = "x" /\ y' = y /\ x' = x + 1
        /\ framebuffer' = [framebuffer EXCEPT ![PixelAt(px, py)] = TextureColour(px, py)]
    BY <1>1, <1>5, <1>8, <2>1
  <2>3. PixelAt(px, py) \in Offsets /\ TextureColour(px, py) \in Colours
    BY <1>3, NextOfLine
  <2>4. TypeOK'
    <3>1. framebuffer' \in [Offsets -> Colours]
      BY <1>3, <2>2, <2>3
    <3>2. x' \in 0 .. width
      BY <1>3, <1>4, <1>8, <2>2
    <3> QED
      BY <1>1, <1>2, <2>2, <3>1, <3>2 DEF IInv, TypeOK
  <2>5. TextureBehind'
    <3> SUFFICES ASSUME NEW qx \in 0 .. width - 1, NEW qy \in 0 .. height - 1, Passed(qx, qy)'
                 PROVE  framebuffer'[PixelAt(qx, qy)] = TextureColour(qx, qy)
      BY <1>1, <1>2, SamePlaces DEF TextureBehind
    <3>1. PixelAt(qx, qy) \in Offsets
      BY <1>3, NextOfLine
    <3>2. CASE qx = px /\ qy = py
      BY <1>3, <2>2, <2>3, <3>2
    <3>3. CASE ~(qx = px /\ qy = py)
      <4>1. Passed(qx, qy)
        BY <1>1, <1>3, <1>4, <2>1, <2>2, <3>3 DEF Passed
      <4>2. framebuffer[PixelAt(qx, qy)] = TextureColour(qx, qy)
        BY <1>1, <4>1 DEF IInv, TextureBehind
      <4>3. PixelAt(qx, qy) # PixelAt(px, py)
        <5>1. /\ qx \in 0 .. pitch - 1 /\ px \in 0 .. pitch - 1 /\ qy \in Nat /\ py \in Nat
          BY <1>4
        <5>2. PixelAt(qx, qy) = pitch * qy + qx /\ PixelAt(px, py) = pitch * py + px
          BY <1>4, <5>1, SMT DEF PixelAt
        <5> QED
          BY <1>4, <3>3, <5>1, <5>2, OnePlace
      <4> QED
        BY <1>3, <2>2, <2>3, <3>1, <4>2, <4>3
    <3> QED
      BY <3>2, <3>3
  <2> QED
    BY <1>6, <1>7, <2>4, <2>5 DEF IInv
<1>9. CASE ~(x < width)
  <2>1. pc' = "y" /\ y' = y + 1 /\ framebuffer' = framebuffer /\ x' = x
    BY <1>1, <1>5, <1>9
  <2>2. TypeOK'
    <3>1. y' \in 0 .. height
      BY <1>3, <1>4, <2>1
    <3> QED
      BY <1>1, <1>2, <2>1, <3>1 DEF IInv, TypeOK
  <2>3. TextureBehind'
    <3> SUFFICES ASSUME NEW px \in 0 .. width - 1, NEW py \in 0 .. height - 1, Passed(px, py)'
                 PROVE  framebuffer[PixelAt(px, py)] = TextureColour(px, py)
      BY <1>2, <2>1, <1>1, SamePlaces DEF TextureBehind
    <3>1. Passed(px, py)
      BY <1>1, <1>3, <1>4, <1>9, <2>1 DEF Passed
    <3> QED
      BY <1>1, <3>1 DEF IInv, TextureBehind
  <2> QED
    BY <1>6, <1>7, <2>2, <2>3 DEF IInv
<1> QED
  BY <1>8, <1>9

-----------------------------------------------------------------------------
(* The theorems.                                                             *)

LEMMA InitIInv == Init => IInv
<1> SUFFICES ASSUME Init PROVE IInv
  OBVIOUS
<1>1. /\ video_mode_info \in Screens /\ framebuffer = [a \in Offsets |-> Black]
      /\ pc \in {"tile", "y"} /\ p = 0 /\ row = 0 /\ col = 0 /\ x = 0 /\ y = 0
  BY DEF Init
<1>2. /\ width \in Nat /\ height \in Nat /\ tile_width \in Nat /\ tile_height \in Nat
      /\ Columns * Rows \in Nat
  BY <1>1, Sizes, SMT
<1>3. framebuffer \in [Offsets -> Colours]
  BY <1>1, TilesAssumption
<1>4. p \in 0 .. Columns * Rows
  <2> DEFINE tiles == Columns * Rows
  <2> HIDE DEF tiles
  <2>1. p = 0 /\ tiles \in Nat
    BY <1>1, <1>2 DEF tiles
  <2>2. p \in 0 .. tiles
    BY <2>1
  <2> QED
    BY <2>2 DEF tiles
<1>5. TypeOK
  BY <1>1, <1>2, <1>3, <1>4 DEF TypeOK
<1>6. InLoops
  BY <1>1 DEF InLoops
<1>7. BlackAhead
  BY <1>1, TilePixel DEF BlackAhead
<1>8. TextureBehind
  BY <1>1, <1>2 DEF TextureBehind, Passed
<1> QED
  BY <1>5, <1>6, <1>7, <1>8 DEF IInv

\* The invariant holds from the first tile to the last pixel.
THEOREM Invariance == Spec => []IInv
<1>1. IInv /\ [Next]_vars => IInv'
  <2> SUFFICES ASSUME IInv, [Next]_vars PROVE IInv'
    OBVIOUS
  <2>1. CASE Bootloader
    BY <2>1, NextTileStep, NextRowStep, DrawRectStep DEF Bootloader
  <2>2. CASE Kernel
    BY <2>2, NextLineStep, DrawPixelStep DEF Kernel
  <2>3. CASE UNCHANGED vars
    <3>1. UNCHANGED <<video_mode_info, framebuffer, pc, p, row, col, x, y>>
      BY <2>3 DEF vars
    <3>2. TypeOK'
      BY <3>1, SameScreen DEF IInv, TypeOK
    <3>3. InLoops'
      BY <3>1, SameScreen DEF IInv, InLoops
    <3>4. BlackAhead'
      BY <3>1, SameScreen, SamePlaces DEF IInv, BlackAhead, Ahead
    <3>5. TextureBehind'
      BY <3>1, SameScreen, SamePlaces DEF IInv, TextureBehind, Passed
    <3> QED
      BY <3>2, <3>3, <3>4, <3>5 DEF IInv
  <2> QED
    BY <2>1, <2>2, <2>3 DEF Next
<1> QED
  BY <1>1, InitIInv, PTL DEF Spec

\* TypeOK is an invariant: the 16-bit counters never pass the limits of their loops.
THEOREM TypeCorrect == Spec => []TypeOK
BY Invariance, PTL DEF IInv

\* Neither program draws outside the visible part of the framebuffer.
THEOREM DrawsInside == Spec => []PixelsInside
<1>1. IInv => PixelsInside
  <2> SUFFICES ASSUME IInv PROVE PixelsInside
    OBVIOUS
  <2>1. video_mode_info \in Screens /\ x \in 0 .. width /\ y \in 0 .. height
        /\ (pc = "x" => y < height)
    BY DEF IInv, TypeOK, InLoops
  <2>2. width \in Nat /\ height \in Nat
    BY <2>1, Sizes
  <2>3. ASSUME pc = "x", x < width
        PROVE  PixelAt(x, y) \in Offsets /\ PixelAt(x, y) % pitch < width
    <3>1. x \in 0 .. width - 1 /\ y \in 0 .. height - 1
      BY <2>1, <2>2, <2>3
    <3>2. PixelAt(x, y) \in Offsets /\ PixelAt(x, y) % pitch = x
      BY <2>1, <3>1, NextOfLine
    <3> QED
      BY <2>3, <3>2
  <2> QED
    BY <2>3, NextOfTile DEF PixelsInside
<1> QED
  BY <1>1, Invariance, PTL

\* The bootloader paints no pixel twice.
THEOREM TilesDoNotOverlap == Spec => TilesApart
<1>1. IInv => (pc = "col" /\ col < tile_width => framebuffer[RectAt] = Black)
  <2> SUFFICES ASSUME IInv, pc = "col", col < tile_width PROVE framebuffer[RectAt] = Black
    OBVIOUS
  <2>1. /\ p \in 0 .. Columns * Rows - 1 /\ row \in 0 .. tile_height - 1
        /\ col \in 0 .. tile_width - 1 /\ RectAt = At(p, row, col)
    BY NextOfTile
  <2>2. Ahead(p, row, col)
    <3>1. col \in Int
      BY <2>1
    <3> QED
      BY <3>1 DEF Ahead
  <2> QED
    BY <2>1, <2>2 DEF IInv, BlackAhead
<1> QED
  BY <1>1, Invariance, PTL DEF TilesApart

\* At the end the texture covers the whole screen.
THEOREM TextureAtLast == Spec => []TextureCovers
<1>1. IInv => TextureCovers
  <2> SUFFICES ASSUME IInv, pc = "done", NEW px \in 0 .. width - 1, NEW py \in 0 .. height - 1
               PROVE  framebuffer[py * pitch + px] = TextureColour(px, py)
    BY DEF TextureCovers
  <2>1. video_mode_info \in Screens /\ y = height
    BY DEF IInv, TypeOK, InLoops
  <2>2. width \in Nat /\ height \in Nat /\ pitch \in Nat
    BY <2>1, Sizes
  <2>3. Passed(px, py)
    BY <2>1, <2>2 DEF Passed
  <2>4. framebuffer[PixelAt(px, py)] = TextureColour(px, py)
    BY <2>3 DEF IInv, TextureBehind
  <2>5. PixelAt(px, py) = py * pitch + px
    BY <2>2, SMT DEF PixelAt
  <2> QED
    BY <2>4, <2>5
<1> QED
  BY <1>1, Invariance, PTL

=============================================================================
