-------------------------------- MODULE Vga ---------------------------------
(***************************************************************************)
(* The graphics card (iodev/vga.cc): its memory and registers, which tiles *)
(* of the screen are drawn again, and what of them is in the framebuffer.  *)
(*                                                                         *)
(* Of a byte one bit is followed.  A register holds what it means: a       *)
(* length in pixels, rows or bytes; palettes are versions of themselves.   *)
(* Left out are the cursor, character sets and panning, which the          *)
(* framebuffer does not show, reads of registers, doublewords, the odd and *)
(* even planes, text characters of nine pixels, and what panics.           *)
(***************************************************************************)
EXTENDS Integers, FiniteSets

CONSTANTS
  Y_TILESIZE,      \* rows of a tile; it has 16 pixels a row, as in the code
  Width, Height,   \* the larger of two resolutions: 640 pixels and 480 rows
  CgaLine, CgaBank,  \* 320/4 and 0x2000: bytes of a CGA line and bank
  TextCols,        \* 80: characters of a line of text
  FontRows,        \* 16: rows of a character as the framebuffer shows it
  Window,          \* 64K: bytes of the window at A0000
  VbeMemory,       \* bytes of the VBE memory
  Offsets,         \* offsets of the window that the guest accesses
  MaxWrites        \* bound: writes and reads of the guest

ConstantsOK ==
  /\ {Y_TILESIZE, Width \div 16, Height \div Y_TILESIZE, CgaLine, CgaBank, TextCols, FontRows, Window} \subseteq Nat \ {0}
  /\ VbeMemory \in Nat /\ Offsets \subseteq 0 .. Window - 1 /\ MaxWrites \in Nat

VARIABLES
  k,               \* the card, what the framebuffer shows, and history
  writes

vars == <<k, writes>>

X_TILESIZE == 16
Tiles == (0 .. (2 * Width) \div X_TILESIZE - 1) \X (0 .. Height \div Y_TILESIZE - 1)
Planes == 0 .. 3
Depths == {4, 8, 16}

TypeOK ==
  /\ k.tiles \subseteq Tiles /\ k.silent \subseteq Tiles /\ DOMAIN k.shown = Tiles
  /\ k.mem \subseteq Planes \X Nat /\ k.latch \subseteq Planes /\ k.vmem \subseteq 0 .. VbeMemory - 1
  /\ {k.updated, k.running, k.enabled, k.alpha, k.chain, k.div2, k.dbl, k.vbe, k.lfb, k.flip, k.spilled} \subseteq BOOLEAN
  /\ k.map \in 0 .. 3 /\ k.shift \in 0 .. 2 /\ k.bpp \in Depths /\ k.cycle \in 0 .. 2
  /\ writes \in 0 .. MaxWrites

-----------------------------------------------------------------------------
(* The screen. *)

Vbe(s) == s.vbe /\ s.bpp # 4
Multiplier(bpp) == IF bpp = 16 THEN 2 ELSE 1
Graphics(s) == s.alpha \/ Vbe(s)

determine_screen_dimensions(s) ==
  LET h == IF s.div2 THEN 2 * s.h ELSE s.h
      large == s.h >= Width /\ s.v >= Height
  IN  CASE s.shift = 0 /\ s.bf -> <<h, s.v>>
        [] s.shift = 0 /\ ~s.bf -> IF large THEN <<s.h, s.v>> ELSE <<Width, Height>>
        [] s.shift = 1 -> <<h, s.v>>
        [] s.shift = 2 -> <<s.h, s.v>>

Size(s) == IF Vbe(s) THEN <<s.xres, s.yres>> ELSE determine_screen_dimensions(s)

OnScreen(s) == {t \in Tiles : X_TILESIZE * t[1] < Size(s)[1] /\ Y_TILESIZE * t[2] < Size(s)[2]}

Halved(n, half) == IF half THEN n \div 2 ELSE n

\* The planes, or the bytes of VBE, that are lit at a pixel.
VbePixel(s, x, y) ==
  LET offset == s.vstart + (y * s.vwidth + x) * Multiplier(s.bpp)
  IN  {b \in 0 .. Multiplier(s.bpp) - 1 : offset + b \in s.vmem}

CgaPixel(s, x, y) ==
  LET column == IF s.shift = 0 THEN x \div 8 ELSE Halved(x, s.div2) \div 4
      row == Halved(y, s.dbl)
      offset == s.start + (row % 2) * CgaBank + CgaLine * (row \div 2) + column
  IN  {p \in {0} : <<p, offset>> \in s.mem}

PlanarPixel(s, x, y) ==
  LET column == Halved(x, s.div2) \div 8
      row == Halved(y, s.dbl)
      compare == Halved(s.compare, s.dbl)
      offset == column + IF row > compare THEN (row - compare - 1) * s.line ELSE s.start + row * s.line
  IN  {p \in s.planes : <<p, offset>> \in s.mem}

\* Of a byte in four planes: chained, each byte is where it was written; in mode
\* X the planes are addressed as they are.
ByteOf(s, x, y) ==
  LET pixel == x \div 2
      column == IF s.chain THEN 4 * (pixel \div 4) ELSE pixel \div 4
  IN  <<pixel % 4, s.start + Halved(y, s.dbl) * s.line + column>>
BytePixel(s, x, y) == {p \in {0} : ByteOf(s, x, y) \in s.mem}

Pixel(s, x, y) ==
  CASE Vbe(s) -> VbePixel(s, x, y)
    [] ~Vbe(s) /\ s.shift = 2 -> BytePixel(s, x, y)
    [] ~Vbe(s) /\ (s.shift = 1 \/ (s.shift = 0 /\ s.map = 3)) -> CgaPixel(s, x, y)
    [] OTHER -> PlanarPixel(s, x, y)

Lit(s, t) ==
  {lit \in (0 .. X_TILESIZE - 1) \X (0 .. Y_TILESIZE - 1) \X Planes :
     lit[3] \in Pixel(s, X_TILESIZE * t[1] + lit[1], Y_TILESIZE * t[2] + lit[2])}

\* The registers a colour goes through.
Colours(s) ==
  CASE Vbe(s) -> IF s.bpp = 8 THEN <<s.dac>> ELSE <<>>
    [] ~Vbe(s) /\ s.shift = 2 -> <<s.dac>>
    [] ~Vbe(s) /\ s.shift # 2 -> <<s.pal, s.blink, s.dac>>

\* A tile in a framebuffer of this size, taken to be of this depth.
Drawn(s, t, size, depth) == [lit |-> Lit(s, t), colours |-> Colours(s), size |-> size, depth |-> depth]
Wanted(s, t) == Drawn(s, t, Size(s), IF Vbe(s) THEN s.bpp ELSE 8)

\* All the text there is, by the same measure.
Text(s) ==
  LET short == s.map \in {0, 1}
      start == IF short THEN 0 ELSE 2 * s.start
      rows == IF short THEN Height \div FontRows ELSE (s.vde + 1) \div (s.msl + 1)
  IN  [rows |-> rows, lit |-> {o \in 0 .. 2 * TextCols * rows - 1 : <<0, start + o>> \in s.mem}]

Lost == [t \in Tiles |-> [lost |-> TRUE]]

-----------------------------------------------------------------------------
(* What is drawn, and when. *)

SET_TILE_UPDATED(s, x, y) == [s EXCEPT !.tiles = IF <<x, y>> \in Tiles THEN @ \union {<<x, y>>} ELSE @]

needs_update(s) ==
  [s EXCEPT !.updated = TRUE, !.tiles = IF s.alpha \/ s.vbe THEN Tiles ELSE @]

\* History: the picture changes, and nothing is drawn again for it.
Silently(s) == [s EXCEPT !.silent = Tiles]

dimension_update(s, size, depth) ==
  [s EXCEPT !.size = size, !.depth = depth, !.shown = IF size = s.size THEN @ ELSE Lost]

Resized(s) ==
  IF Size(s) = s.old THEN s
  ELSE [dimension_update(s, Size(s), 8) EXCEPT !.old = Size(s), !.left = FALSE]

DrawTiles(s) ==
  LET drawn == s.tiles \intersect OnScreen(s)
  IN  [s EXCEPT !.updated = FALSE, !.tiles = @ \ drawn, !.silent = @ \ drawn,
         !.shown = [t \in Tiles |-> IF t \in drawn THEN Drawn(s, t, s.size, s.depth) ELSE @[t]]]

text_update(s) ==
  LET old == <<s.h, s.vde + 1>>
      t == IF old = s.old THEN s ELSE [dimension_update(s, old, 8) EXCEPT !.old = old, !.left = FALSE]
  IN  [t EXCEPT !.updated = FALSE, !.silent = {}, !.size = <<Width, FontRows * Text(s).rows>>,
         !.shown = [x \in Tiles |-> Text(s)]]

update(s) ==
  CASE ~(s.updated /\ s.running /\ s.enabled) -> s
    [] s.updated /\ s.running /\ s.enabled /\ Vbe(s) -> [DrawTiles(s) EXCEPT !.old = Size(s)]
    [] s.updated /\ s.running /\ s.enabled /\ ~Vbe(s) /\ s.alpha -> DrawTiles(Resized(s))
    [] OTHER -> IF s.map \in {2, 3} /\ s.msl = 0 THEN s ELSE text_update(s)

-----------------------------------------------------------------------------
(* The guest writes memory. *)

Set(cells, cell, lit) == IF lit THEN cells \union {cell} ELSE cells \ {cell}

\* Writes that mark a tile by another measure than update draws by: shift register
\* and mapping (or chain) do not belong together; a CGA line of 640 halved
\* pixels; a split screen of doubled lines at an even one, or below the last
\* line; and lines that overlap.
Unmatched(s) == IF s.map = 3 THEN s.shift = 2 ELSE s.shift = 1 \/ (s.chain /\ s.shift = 0)
CgaHalved(s) == s.map = 3 /\ s.shift = 0 /\ s.div2
SplitMoved(s) == s.shift = 0 /\ s.map = 1 /\ s.compare < Height /\ (s.compare >= s.vde \/ (s.dbl /\ s.compare % 2 = 0))
BytesOfLine(s) ==
  CASE s.shift = 0 -> Size(s)[1] \div (IF s.div2 THEN 16 ELSE 8)
    [] s.shift = 1 -> Size(s)[1] \div (IF s.div2 THEN 8 ELSE 4)
    [] s.shift = 2 -> Size(s)[1] \div (IF s.chain THEN 2 ELSE 8)
LinesOverlap(s) == BytesOfLine(s) > IF s.map = 3 THEN CgaLine ELSE s.line

Overlooked(s) ==
  ~Vbe(s) /\ s.alpha /\ (Unmatched(s) \/ CgaHalved(s) \/ SplitMoved(s) \/ LinesOverlap(s))

vbe_mem_write(s, through, o, lit) ==
  LET linear == through = "lfb"
      offset == IF linear THEN o ELSE s.bank * Window + o
      seen == offset - s.vstart
      pixel == seen \div Multiplier(s.bpp)
      t == [s EXCEPT !.vmem = IF offset < VbeMemory THEN Set(@, offset, lit) ELSE @]
  IN  IF s.lfb # linear THEN s
      ELSE IF seen < 0 \/ seen >= s.visible THEN t
      ELSE [SET_TILE_UPDATED(t, (pixel % s.vwidth) \div X_TILESIZE, (pixel \div s.vwidth) \div Y_TILESIZE)
              EXCEPT !.updated = TRUE]

\* Two banks of lines in one plane.  The last pixel of a byte may be in the next tile.
CgaWrite(s, o, lit) ==
  LET offset == o - s.start
      odd == offset >= CgaBank
      inBank == IF odd THEN offset - CgaBank ELSE offset
      first == 4 * (inBank % CgaLine)
      width == IF s.div2 THEN X_TILESIZE \div 2 ELSE X_TILESIZE
      x == (IF s.shift = 0 THEN 2 * first ELSE first) \div width
      x2 == (first + IF s.shift = 0 THEN 7 ELSE 3) \div width
      y == (2 * (inBank \div CgaLine) + IF odd THEN 1 ELSE 0) \div (IF s.dbl THEN Y_TILESIZE \div 2 ELSE Y_TILESIZE)
      t == [s EXCEPT !.mem = Set(@, <<0, o>>, lit), !.updated = TRUE]
  IN  IF offset < 0 THEN t ELSE SET_TILE_UPDATED(SET_TILE_UPDATED(t, x, y), x2, y)

RowTile(s, row) == row \div (IF s.dbl THEN Y_TILESIZE \div 2 ELSE Y_TILESIZE)

ChainedWrite(s, o, lit) ==
  LET offset == o - s.start
      t == [s EXCEPT !.mem = Set(@, <<o % 4, o - (o % 4)>>, lit), !.updated = TRUE]
  IN  IF offset < 0 THEN t
      ELSE SET_TILE_UPDATED(t, (offset % s.line) \div (X_TILESIZE \div 2), RowTile(s, offset \div s.line))

\* The bit that each plane gets.  The data are a bit of the byte, the same bit of it
\* rotated, and for write mode 2 the planes it names; a raster operation
\* combines the data with the latch.
Combined(rop, data, latch) ==
  CASE rop = "replace" -> data
    [] rop = "and" -> data /\ latch
    [] rop = "or" -> data \/ latch
    [] rop = "xor" -> data # latch

NewBit(s, p, value, rotated) ==
  LET gc == s.gc
      latch == p \in s.latch
      data == CASE gc.mode = 0 -> IF p \in gc.enable THEN p \in gc.set_reset ELSE rotated
                [] gc.mode = 2 -> p \in value
                [] gc.mode = 3 -> p \in gc.set_reset /\ rotated
                [] OTHER -> latch
      mask == gc.mask /\ (gc.mode = 3 => 0 \in value)
  IN  CASE gc.mode = 1 -> latch
        [] OTHER -> IF mask THEN Combined(gc.rop, data, latch) ELSE latch

\* History: a plane that is not written, or a bit that is not, changes though it
\* has just been read.
Spills(s, t, o) ==
  /\ s.latched = o
  /\ \E p \in Planes :
       /\ (<<p, o>> \in s.mem) # (<<p, o>> \in t.mem)
       /\ p \notin s.gc.map_mask \/ ~s.gc.mask \/ s.gc.mode = 1

\* Two tiles: below a split, and where the screen starts.
PlanarMarks(s, o) ==
  LET bytes == IF s.div2 THEN X_TILESIZE \div 16 ELSE X_TILESIZE \div 8
      lines == (o \div s.line) * (IF s.dbl THEN 2 ELSE 1)
      split == SET_TILE_UPDATED(s, (o % s.line) \div bytes, (lines + s.compare + 1) \div Y_TILESIZE)
      t == IF s.compare < s.vde THEN split ELSE s
      offset == o - s.start
  IN  IF offset < 0 THEN t ELSE SET_TILE_UPDATED(t, (offset % s.line) \div bytes, RowTile(s, offset \div s.line))

ModeXMarks(s, o) ==
  LET offset == o - s.start
  IN  IF offset < 0 THEN s
      ELSE SET_TILE_UPDATED(s, ((offset % s.line) * 4) \div (X_TILESIZE \div 2), RowTile(s, offset \div s.line))

LatchedWrite(s, o, value, rotated) ==
  LET kept == {c \in s.mem : c[2] # o \/ c[1] \notin s.gc.map_mask}
      t == [s EXCEPT !.mem = kept \union {<<p, o>> : p \in {q \in s.gc.map_mask : NewBit(s, q, value, rotated)}},
                     !.updated = TRUE]
      u == [t EXCEPT !.spilled = @ \/ Spills(s, t, o)]
  IN  IF s.gc.map_mask = {} THEN s
      ELSE IF s.shift = 2 THEN ModeXMarks(u, o) ELSE PlanarMarks(u, o)

mem_write(s, through, o, value, rotated) ==
  CASE Vbe(s) -> vbe_mem_write(s, through, o, 0 \in value)
    [] ~Vbe(s) /\ s.alpha /\ s.map = 3 -> CgaWrite(s, o, 0 \in value)
    [] ~Vbe(s) /\ s.alpha /\ s.map # 3 /\ s.chain -> ChainedWrite(s, o, 0 \in value)
    [] OTHER -> LatchedWrite(s, o, value, rotated)

Writes ==
  \E o \in Offsets, value \in {{}, {0}, {1, 2}}, rotated \in BOOLEAN, through \in {"window", "lfb"} :
    /\ Vbe(k) \/ through = "window"
    /\ rotated = (0 \in value) \/ k.gc.rotates
    /\ LET t == [mem_write(k, through, o, value, rotated) EXCEPT !.latched = -1]
       IN  k' = IF Overlooked(k) THEN Silently(t) ELSE t

\* A read loads the latches, unless it is chained or goes to plane 0 as it is.
mem_read(s, o) ==
  IF Vbe(s) \/ s.map # 1 \/ s.chain THEN s
  ELSE [s EXCEPT !.latch = {p \in Planes : <<p, o>> \in s.mem}, !.latched = o]

Reads == \E o \in Offsets : k' = mem_read(k, o)

-----------------------------------------------------------------------------
(* The guest writes registers. *)

clear_screen(s) == [s EXCEPT !.shown = Lost]

\* The address phase of port 3C0 switches the screen too; a read of 3DA starts it.
AttributeAddress(s, address, on) ==
  LET t == [s EXCEPT !.address = address, !.enabled = on, !.flip = TRUE]
  IN  IF ~on THEN clear_screen(t) ELSE IF ~s.enabled THEN needs_update(t) ELSE t

AttributeData(s) ==
  LET t == [s EXCEPT !.flip = FALSE]
  IN  CASE s.address = "palette" -> needs_update([t EXCEPT !.pal = 1 - @])
        [] s.address = "blink" -> Silently([t EXCEPT !.blink = ~@])
        [] s.address = "planes" -> needs_update([t EXCEPT !.planes = IF @ = Planes THEN {1} ELSE Planes])
        [] s.address = "select" -> needs_update([t EXCEPT !.pal = 1 - @])
        [] s.address = "panning" -> needs_update(t)

InputStatus(s) == [s EXCEPT !.flip = FALSE]

Attributes(s) ==
  IF s.flip THEN {AttributeData(s), InputStatus(s)}
  ELSE {AttributeAddress(s, a, on) : a \in {"palette", "blink", "planes", "select", "panning"}, on \in BOOLEAN}

\* The third write of a colour makes it known.
PEL(s) ==
  LET t == [s EXCEPT !.cycle = (@ + 1) % 3]
  IN  IF s.cycle = 2 THEN needs_update([t EXCEPT !.dac = 1 - @]) ELSE t

Sequencer(s) ==
  { [s EXCEPT !.running = ~@, !.updated = @ \/ s.running],
    Silently([s EXCEPT !.div2 = ~@]),
    Silently([s EXCEPT !.chain = ~@]),
    IF s.msl > 0 THEN [s EXCEPT !.updated = TRUE] ELSE s }

\* The picture's memory or kind changes.
Miscellaneous(s, alpha, map) ==
  LET t == [s EXCEPT !.alpha = alpha, !.map = map]
  IN  CASE alpha # s.alpha -> needs_update([t EXCEPT !.old[2] = 0])
        [] alpha = s.alpha /\ map # s.map -> needs_update(t)
        [] OTHER -> t

Graphic(s) ==
  {Silently([s EXCEPT !.shift = shift]) : shift \in 0 .. 2}
    \union {Miscellaneous(s, alpha, map) : alpha \in BOOLEAN, map \in {1, 3}}

\* A register that holds this value already is left alone, whatever follows from it.
CRTC(s) ==
  LET Known(r) == [s EXCEPT !.behind = @ \ {r}]
  IN  {Silently([s EXCEPT !.h = h]) : h \in {Width \div 2, Width} \ {s.h}}
        \union {Silently([s EXCEPT !.bf = ~@])}
        \union {IF overflow THEN needs_update([Known("vde") EXCEPT !.v = v, !.vde = v - 1])
                ELSE Silently([Known("vde") EXCEPT !.v = v, !.vde = v - 1]) :
                  v \in {Height \div 2, Height} \ {s.v}, overflow \in BOOLEAN}
        \union {needs_update([Known("doublescan") EXCEPT !.msl = msl, !.dbl = msl > 0]) : msl \in {0, 1, FontRows - 1} \ {s.msl}}
        \union {[s EXCEPT !.updated = TRUE]}
        \union {IF s.alpha THEN needs_update([s EXCEPT !.start = a]) ELSE [s EXCEPT !.start = a, !.updated = TRUE] :
                  a \in {0, 2} \ {s.start}}
        \union {needs_update([Known("line") EXCEPT !.offset = n, !.line = n]) :
                  n \in {Width \div 8, Width \div 2} \ {s.offset}}
        \union {needs_update([s EXCEPT !.compare = n]) : n \in {0, 1, 2 * Height} \ {s.compare}}

-----------------------------------------------------------------------------
(* The registers of VBE. *)

VbeMode(s) ==
  IF s.vbe THEN {}
  ELSE {[s EXCEPT !.xres = x, !.yres = y, !.bpp = bpp] :
          x \in {Width \div 2, Width}, y \in {Height \div 2, Height}, bpp \in Depths}

VbeBank(s) == IF s.lfb THEN {} ELSE {[s EXCEPT !.bank = 1 - @]}

\* A mode of more than four bits sets registers of the CRTC, not what follows from them.
VbeEnable(s, lfb, clears) ==
  LET visible == s.xres * s.yres * Multiplier(s.bpp)
      t == [s EXCEPT !.vbe = TRUE, !.vwidth = s.xres, !.offx = 0, !.offy = 0, !.vstart = 0,
                     !.bytes = s.xres * Multiplier(s.bpp), !.visible = visible]
      u == [t EXCEPT !.lfb = lfb, !.vmem = IF clears THEN {o \in @ : o >= visible} ELSE @,
                     !.msl = 0, !.map = 1, !.h = s.xres, !.offset = s.xres \div 2, !.v = s.yres,
                     !.behind = {"vde", "doublescan", "line"}, !.left = TRUE]
  IN  IF s.bpp = 4 THEN t ELSE dimension_update(u, <<s.xres, s.yres>>, s.bpp)

VbeDisable(s) == [s EXCEPT !.vbe = FALSE, !.lfb = FALSE]

AllTiles(s) == [s EXCEPT !.tiles = Tiles, !.updated = TRUE]

VbeOffset(s, x, y) ==
  AllTiles([s EXCEPT !.offx = x, !.offy = y, !.vstart = y * s.bytes + x * Multiplier(s.bpp)])

\* The line's length in bytes stays, so that a later offset is one of the lines before.
VbeVirtualWidth(s, width) ==
  LET height == (VbeMemory \div Multiplier(s.bpp)) \div width
      w == IF height >= s.yres THEN width ELSE (VbeMemory \div Multiplier(s.bpp)) \div s.yres
  IN  [s EXCEPT !.vwidth = w, !.visible = w * s.yres * Multiplier(s.bpp), !.narrow = TRUE]

VbeWrites(s) ==
  VbeMode(s) \union VbeBank(s)
    \union {Silently([VbeEnable(s, lfb, clears) EXCEPT !.narrow = FALSE]) : lfb \in BOOLEAN, clears \in BOOLEAN}
    \union {Silently(VbeDisable(s))}
    \union (IF ~Vbe(s) THEN {} ELSE
              {VbeOffset(s, s.offx, 1 - s.offy), VbeOffset(s, 8 - s.offx, s.offy),
               Silently(VbeVirtualWidth(s, s.xres + 8))})

-----------------------------------------------------------------------------
(* The states that a video BIOS sets, drawn and with nothing pending. *)

Plain == [mode |-> 0, rop |-> "replace", mask |-> TRUE, set_reset |-> {}, enable |-> {}, map_mask |-> Planes, rotates |-> FALSE]

Text25 ==
  [alpha |-> FALSE, shift |-> 0, map |-> 3, chain |-> FALSE, div2 |-> FALSE, dbl |-> TRUE, msl |-> FontRows - 1, bf |-> FALSE,
   h |-> Width, v |-> Height, vde |-> Height - 1, start |-> 0, offset |-> Width \div 8, line |-> Width \div 8,
   compare |-> 2 * Height, enabled |-> TRUE, running |-> TRUE, planes |-> Planes, pal |-> 0, blink |-> FALSE,
   dac |-> 0, cycle |-> 2, address |-> "blink", flip |-> FALSE, gc |-> Plain, latch |-> {}, mem |-> {<<0, 1>>, <<1, 4>>},
   vbe |-> FALSE, xres |-> Width, yres |-> Height, bpp |-> 8, bank |-> 0, lfb |-> FALSE, vwidth |-> Width,
   vstart |-> 0, bytes |-> Width, visible |-> 0, offx |-> 0, offy |-> 0, vmem |-> {},
   updated |-> FALSE, tiles |-> {}, old |-> <<0, 0>>, size |-> <<0, 0>>, depth |-> 8, shown |-> Lost,
   silent |-> {}, behind |-> {}, left |-> FALSE, narrow |-> FALSE, latched |-> -1, spilled |-> FALSE]

Cga4 == [Text25 EXCEPT !.alpha = TRUE, !.msl = 1, !.shift = 1, !.h = Width \div 2, !.div2 = TRUE]
Cga2 == [Text25 EXCEPT !.alpha = TRUE, !.msl = 1]
Text50 == [Text25 EXCEPT !.msl = 1]
Planar == [Text25 EXCEPT !.alpha = TRUE, !.map = 1, !.dbl = FALSE, !.msl = 0]
Split == [Planar EXCEPT !.compare = 1, !.start = 2]
Low == [Planar EXCEPT !.h = Width \div 2, !.div2 = TRUE, !.bf = TRUE, !.dbl = TRUE, !.msl = 1, !.compare = 1,
                      !.offset = Width \div 16, !.line = Width \div 16]
Chained == [Planar EXCEPT !.shift = 2, !.chain = TRUE, !.offset = Width \div 2, !.line = Width \div 2, !.dbl = TRUE, !.msl = 1]
ModeX == [Planar EXCEPT !.shift = 2]
Banked == VbeEnable(Planar, FALSE, TRUE)
Deep == VbeEnable([Planar EXCEPT !.bpp = 16], TRUE, TRUE)

Modes == {Text25, Text50, Cga4, Cga2, Planar, Split, Low, Chained, ModeX, Banked, Deep}

\* The write modes that a driver of a planar mode uses.
Drivers ==
  {[Plain EXCEPT !.mode = mode, !.rop = rop, !.mask = mask, !.set_reset = {0, 1}, !.enable = {1, 3},
                 !.map_mask = {0, 1, 2}, !.rotates = TRUE] :
     mode \in 0 .. 3, rop \in {"replace", "and", "or", "xor"}, mask \in BOOLEAN}

Ready(s) == update(AllTiles(s))

Init ==
  /\ k \in {Ready(s) : s \in Modes} \union {[clear_screen(Ready(Planar)) EXCEPT !.enabled = FALSE]}
         \union {[Ready(Planar) EXCEPT !.gc = gc] : gc \in Drivers}
  /\ writes = 0

timer == k' = update(k) /\ UNCHANGED writes

\* A driver of the write modes only accesses memory.
Registers ==
  /\ ~k.gc.rotates
  /\ k' \in Attributes(k) \union {PEL(k)} \union Sequencer(k) \union Graphic(k) \union CRTC(k) \union VbeWrites(k)

Next ==
  \/ timer
  \/ writes < MaxWrites /\ writes' = writes + 1 /\ (Registers \/ Writes \/ Reads)

Spec == Init /\ [][Next]_vars

-----------------------------------------------------------------------------
(* What must hold. *)

Quiet == ~k.updated /\ k.enabled /\ k.running

\* The depth or size of the framebuffer is still that of a VBE mode which has been
\* left for a picture of the size that was there before.
LeftFromVbe == ~Vbe(k) /\ k.left

\* What the framebuffer shows is what the memory and the registers say, tile by
\* tile, once nothing is to be drawn: but where the code draws nothing again.
PictureIsCurrent ==
  Quiet /\ Graphics(k) =>
    \A t \in OnScreen(k) : k.shown[t] = Wanted(k, t) \/ t \in k.silent \/ LeftFromVbe
TextIsCurrent ==
  Quiet /\ ~Graphics(k) => \A t \in Tiles : k.shown[t] = Text(k) \/ t \in k.silent

\* A tile to be drawn is not forgotten.
NothingUndrawn == Quiet /\ Graphics(k) => k.tiles \intersect OnScreen(k) \subseteq k.silent

\* What is kept beside a register follows from it, until VBE sets the register.
DerivedAgree ==
  /\ k.dbl = (k.msl > 0) \/ "doublescan" \in k.behind
  /\ k.vde = k.v - 1 \/ "vde" \in k.behind
  /\ k.line = k.offset \/ "line" \in k.behind

\* An offset is one of whole lines, unless their length was changed after the mode was set.
OffsetsAreLines == Vbe(k) => k.vstart = (k.offy * k.vwidth + k.offx) * Multiplier(k.bpp) \/ k.narrow

\* Of what has been read, a write leaves what the masks keep.
MasksKeep == ~k.spilled

VgaIsRight == PictureIsCurrent /\ TextIsCurrent /\ NothingUndrawn /\ DerivedAgree /\ OffsetsAreLines /\ MasksKeep
=============================================================================
