---------------------------- MODULE RectEncodings ----------------------------
(***************************************************************************)
(* What libvncserver makes of a rectangle of the screen: the encoders raw, *)
(* RRE, CoRRE, hextile, zlib, Ultra and ZRLE.  A rectangle that is sent is *)
(* a record [enc, x, y, w, h, body, length]: length is the number of bytes *)
(* after its header, of what was compressed for zlib, Ultra and ZRLE (zlib *)
(* and LZO are external and give back what they were given).               *)
(***************************************************************************)
EXTENDS SraRegion

CONSTANTS
  HextileSize,   \* 16, the width and height of a tile
  ZRLETile,      \* rfbZRLETileWidth, rfbZRLETileHeight: 64
  CoRREMax,      \* correMaxWidth, correMaxHeight: 48
  ZlibMaxSize,   \* ZLIB_MAX_RECT_SIZE, ULTRA_MAX_RECT_SIZE: 128 * 256
  ZlibMinSize,   \* VNC_ENCODE_ZLIB_MIN_COMP_SIZE: 17
  PaletteMax,    \* ZRLE_PALETTE_MAX_SIZE: 127
  MaxByte        \* 255

ASSUME EncodingsAssumption ==
  {HextileSize, ZRLETile, CoRREMax, ZlibMaxSize, ZlibMinSize, PaletteMax, MaxByte}
    \subseteq Nat \ {0}

\* A rectangle's pixels, line by line, as the client's format has them: with one byte
\* there are fewer colours.
Translate(colour, bytes) == IF bytes = 1 THEN colour \div 2 ELSE colour
PointAt(r, i) == <<r.x + ((i - 1) % r.w), r.y + ((i - 1) \div r.w)>>
Data(screen, r, bytes) ==
  [i \in 1..(r.w * r.h) |-> Translate(screen[PointAt(r, i)], bytes)]

\* The size of the screen's own pixels, serverFormat.bitsPerPixel / 8.
ServerBytes == 4

Sent(enc, r, body, length) ==
  [enc |-> enc, x |-> r.x, y |-> r.y, w |-> r.w, h |-> r.h, body |-> body, length |-> length]

Rect(x, y, w, h) == [x |-> x, y |-> y, w |-> w, h |-> h]

\* The tiles of a rectangle, row by row.
Tiles(r, size) ==
  LET across == (r.w + size - 1) \div size
  IN [i \in 1..(across * ((r.h + size - 1) \div size)) |->
        LET dx == ((i - 1) % across) * size
            dy == ((i - 1) \div across) * size
        IN Rect(r.x + dx, r.y + dy, Min({size, r.w - dx}), Min({size, r.h - dy}))]

-----------------------------------------------------------------------------
Raw(screen, r, bytes) ==
  <<Sent("Raw", r, Data(screen, r, bytes), r.w * r.h * bytes)>>

(***************************************************************************)
(* subrectEncode: what differs from the background, as rectangles of one   *)
(* colour.  From each pixel in turn the larger of two is taken: as wide as *)
(* its first line, or as high as its first column.                         *)
(***************************************************************************)

Subrect(data, w, h, i) ==
  LET x == (i - 1) % w
      y == (i - 1) \div w
      Same(col, row) == data[row * w + col + 1] = data[i]
      Run(row) == Max({n \in 0..(w - x) : \A k \in 0..(n - 1) : Same(x + k, row)})
      vh == Max({n \in 1..(h - y) : \A k \in 0..(n - 1) : Same(x, y + k)})
      vw == Min({Run(y + k) : k \in 0..(vh - 1)})
      hw == Run(y)
      hh == Max({n \in 1..vh : \A k \in 0..(n - 1) : Run(y + k) >= hw})
  IN IF hw * hh > vw * vh THEN Rect(x, y, hw, hh) ELSE Rect(x, y, vw, vh)

Covers(s, w, i) == PointAt(Rect(0, 0, w, 1), i) \in PointsOfRect(s)

Subrects(data, w, h, bg) ==
  LET Step(done, i) ==
        IF done.data[i] = bg THEN done
        ELSE LET s == Subrect(done.data, w, h, i)
             IN [data |-> [k \in DOMAIN data |-> IF Covers(s, w, k) THEN bg ELSE done.data[k]],
                 subs |-> Append(done.subs, [rect |-> s, pixel |-> done.data[i]])]
  IN FoldLeft(Step, [data |-> data, subs |-> << >>], [i \in DOMAIN data |-> i]).subs

\* getBgColour: the most frequent byte, the first to be counted so often; of wider pixels
\* simply the first.
BgColour(data, bytes) ==
  LET Count(n) == Cardinality({k \in 1..n : data[k] = data[n]})
      most == Max({Count(n) : n \in DOMAIN data})
  IN IF bytes = 1 THEN data[Min({n \in DOMAIN data : Count(n) = most})] ELSE data[1]

\* RRE or CoRRE; per is the size of a subrectangle without its pixel.
Subencoded(enc, screen, r, bytes, per) ==
  LET data == Data(screen, r, bytes)
      bg == BgColour(data, bytes)
      subs == Subrects(data, r.w, r.h, bg)
      len == bytes + Len(subs) * (bytes + per)
  IN IF subs # << >> /\ len > r.w * r.h * bytes
     THEN Raw(screen, r, bytes)
     ELSE <<Sent(enc, r, [bg |-> bg, subs |-> subs], 4 + len)>>

RRE(screen, r, bytes) == Subencoded("RRE", screen, r, bytes, 8)

RECURSIVE CoRRE(_, _, _)
CoRRE(screen, r, bytes) ==
  IF r.h > CoRREMax
  THEN CoRRE(screen, [r EXCEPT !.h = CoRREMax], bytes)
       \o CoRRE(screen, [r EXCEPT !.y = @ + CoRREMax, !.h = @ - CoRREMax], bytes)
  ELSE IF r.w > CoRREMax
  THEN CoRRE(screen, [r EXCEPT !.w = CoRREMax], bytes)
       \o CoRRE(screen, [r EXCEPT !.x = @ + CoRREMax, !.w = @ - CoRREMax], bytes)
  ELSE Subencoded("CoRRE", screen, r, bytes, 4)

-----------------------------------------------------------------------------
(***************************************************************************)
(* Hextile.  bg and fg are what the client has from the tiles before, or   *)
(* Unset, when the next tile has to bring its own.                         *)
(***************************************************************************)
Unset == -1

TestColours(data) ==
  LET c1 == data[1]
      others == {i \in DOMAIN data : data[i] # c1}
      c2 == IF others = {} THEN 0 ELSE data[Min(others)]
      third == {i \in others : data[i] # c2}
      seen == 1..(IF third = {} THEN Len(data) ELSE Min(third) - 1)
      n1 == Cardinality({i \in seen : data[i] = c1})
      n2 == Cardinality({i \in seen : i \in others})
  IN [solid |-> others = {}, mono |-> third = {},
      bg |-> IF n1 > n2 THEN c1 ELSE c2, fg |-> IF n1 > n2 THEN c2 ELSE c1]

Tile(mask, bg, fg, subs, data) ==
  [mask |-> mask, bg |-> bg, fg |-> fg, subs |-> subs, data |-> data]

\* What the client knows after a tile.
KnownAfter(t, known) ==
  IF "Raw" \in t.mask THEN [bg |-> Unset, fg |-> Unset]
  ELSE [bg |-> IF "Background" \in t.mask THEN t.bg ELSE known.bg,
        fg |-> IF "Coloured" \in t.mask THEN Unset
               ELSE IF "Foreground" \in t.mask THEN t.fg ELSE known.fg]

HextileTile(data, w, h, bytes, known) ==
  LET c == TestColours(data)
      subs == Subrects(data, w, h, c.bg)
      per == IF c.mono THEN 2 ELSE bytes + 2
      mask == (IF c.bg # known.bg THEN {"Background"} ELSE {})
              \cup (IF c.solid THEN {} ELSE {"Subrects"})
              \cup (IF c.mono THEN IF c.solid \/ c.fg = known.fg THEN {} ELSE {"Foreground"}
                    ELSE {"Coloured"})
  IN IF ~c.solid /\ 1 + Len(subs) * per > w * h * bytes
     THEN Tile({"Raw"}, Unset, Unset, << >>, data)
     ELSE Tile(mask, c.bg, c.fg, subs, << >>)

TileLength(t, bytes) ==
  IF "Raw" \in t.mask THEN 1 + Len(t.data) * bytes
  ELSE 1 + bytes * Cardinality(t.mask \cap {"Background", "Foreground"})
       + IF "Subrects" \in t.mask
         THEN 1 + Len(t.subs) * (2 + IF "Coloured" \in t.mask THEN bytes ELSE 0)
         ELSE 0

TilesLength(tiles, bytes) == FoldLeft(LAMBDA n, t : n + TileLength(t, bytes), 0, tiles)

Hextile(screen, r, bytes) ==
  LET Step(done, tile) ==
        LET t == HextileTile(Data(screen, tile, bytes), tile.w, tile.h, bytes, done.known)
        IN [known |-> KnownAfter(t, done.known), tiles |-> Append(done.tiles, t)]
      tiles == FoldLeft(Step, [known |-> [bg |-> Unset, fg |-> Unset], tiles |-> << >>],
                        Tiles(r, HextileSize)).tiles
  IN <<Sent("Hextile", r, tiles, TilesLength(tiles, bytes))>>

-----------------------------------------------------------------------------
\* Zlib and Ultra: as many lines to a rectangle as ZLIB_MAX_SIZE, ULTRA_MAX_SIZE allow.
ZlibLines(w) == Max({2 * w, ZlibMaxSize}) \div w

OneZlib(screen, r, bytes) ==
  IF r.w * r.h * ServerBytes < ZlibMinSize THEN Raw(screen, r, bytes)
  ELSE <<Sent("Zlib", r, Data(screen, r, bytes), r.w * r.h * bytes)>>

RECURSIVE Zlib(_, _, _)
Zlib(screen, r, bytes) ==
  LET lines == ZlibLines(r.w)
  IN IF r.h <= lines THEN OneZlib(screen, r, bytes)
     ELSE OneZlib(screen, [r EXCEPT !.h = lines], bytes)
          \o Zlib(screen, [r EXCEPT !.y = @ + lines, !.h = @ - lines], bytes)

OneUltra(screen, r, bytes) ==
  <<Sent("Ultra", r, Data(screen, r, bytes), r.w * r.h * bytes)>>

RECURSIVE Ultra(_, _, _)
Ultra(screen, r, bytes) ==
  LET lines == ZlibLines(r.w)
  IN IF r.h <= lines THEN OneUltra(screen, r, bytes)
     ELSE OneUltra(screen, [r EXCEPT !.h = lines], bytes)
          \o Ultra(screen, [r EXCEPT !.y = @ + lines, !.h = @ - lines], bytes)

-----------------------------------------------------------------------------
(***************************************************************************)
(* ZRLE.  The runs of a tile make the palette; the cheapest of the ways to *)
(* send the tile is taken.                                                 *)
(***************************************************************************)
Runs(data) ==
  LET Step(runs, pixel) ==
        IF runs # << >> /\ Last(runs).pixel = pixel
        THEN [runs EXCEPT ![Len(runs)].len = @ + 1]
        ELSE Append(runs, [pixel |-> pixel, len |-> 1])
  IN FoldLeft(Step, << >>, data)

\* zrlePaletteHelperInsert, for every run: past its limit the palette counts whatever comes.
Palette(runs) ==
  LET Insert(p, run) ==
        IF p.size >= PaletteMax THEN [p EXCEPT !.size = @ + 1]
        ELSE IF Contains(p.colours, run.pixel) THEN p
        ELSE [size |-> p.size + 1, colours |-> Append(p.colours, run.pixel)]
  IN FoldLeft(Insert, [size |-> 0, colours |-> << >>], runs)

\* bitsPerPackedPixel[size - 1]
PackedBits(size) == IF size <= 1 THEN 0 ELSE IF size = 2 THEN 1 ELSE IF size <= 4 THEN 2 ELSE 4

\* CPIXEL: three of the four bytes.
CPixel(bytes) == IF bytes = 4 THEN 3 ELSE bytes

Way(cost, rle, palette) == [cost |-> cost, rle |-> rle, palette |-> palette]

\* The ways in the order the code tries them; a later one has to be cheaper.
WaysOf(n, runs, size, bytes) ==
  LET long == Len(SelectSeq(runs, LAMBDA run : run.len > 1))
      single == Len(runs) - long
      pixel == CPixel(bytes)
  IN <<Way(n * pixel, FALSE, FALSE), Way((pixel + 1) * (long + single), TRUE, FALSE)>>
     \o (IF size <= PaletteMax THEN <<Way(pixel * size + 2 * long + single, TRUE, TRUE)>>
         ELSE << >>)
     \o (IF size <= PaletteMax /\ size < 17
         THEN <<Way(pixel * size + (n * PackedBits(size)) \div 8, FALSE, TRUE)>> ELSE << >>)

Cheapest(ways) ==
  FoldLeft(LAMBDA best, way : IF way.cost < best.cost THEN way ELSE best, Head(ways), ways)

\* The bytes of a run's length, one less than it: a byte MaxByte says that there are more.
LengthBytes(n) == [i \in 1..(n \div MaxByte) |-> MaxByte] \o <<n % MaxByte>>

\* A run in the stream: the pixel or its index, and its length unless the index says one.
Long(value, len) == [value |-> value, long |-> TRUE, bytes |-> LengthBytes(len - 1)]
Short(value) == [value |-> value, long |-> FALSE, bytes |-> << >>]

IndexOf(colours, pixel) == (CHOOSE i \in DOMAIN colours : colours[i] = pixel) - 1

RunsBody(runs, colours, palette) ==
  FlattenSeq([i \in DOMAIN runs |->
    IF ~palette THEN <<Long(runs[i].pixel, runs[i].len)>>
    ELSE LET index == IndexOf(colours, runs[i].pixel)
         IN IF runs[i].len <= 2 THEN [k \in 1..runs[i].len |-> Short(index)]
            ELSE <<Long(index, runs[i].len)>>])

\* Each line is filled up to whole bytes.
PackedBody(data, w, colours, size) ==
  [row \in 1..(Len(data) \div w) |->
     [bits |-> PackedBits(size),
      indices |-> [k \in 1..w |-> IndexOf(colours, data[(row - 1) * w + k])]]]

ZRLETileOf(data, w, bytes) ==
  LET runs == Runs(data)
      p == Palette(runs)
      way == Cheapest(WaysOf(Len(data), runs, p.size, bytes))
      colours == IF way.palette THEN p.colours ELSE << >>
  IN IF p.size = 1 THEN [rle |-> FALSE, palette |-> p.colours, body |-> << >>]
     ELSE [rle |-> way.rle, palette |-> colours,
           body |-> IF way.rle THEN RunsBody(runs, colours, way.palette)
                    ELSE IF way.palette THEN PackedBody(data, w, colours, p.size) ELSE data]

ZRLE(screen, r, bytes) ==
  LET tiles == Tiles(r, ZRLETile)
  IN <<Sent("ZRLE", r,
            [i \in DOMAIN tiles |-> ZRLETileOf(Data(screen, tiles[i], bytes), tiles[i].w, bytes)],
            0)>>

-----------------------------------------------------------------------------
\* The switch of rfbSendFramebufferUpdate on preferredEncoding.
Encode(enc, screen, r, bytes) ==
  CASE enc = "Raw" -> Raw(screen, r, bytes)
    [] enc = "RRE" -> RRE(screen, r, bytes)
    [] enc = "CoRRE" -> CoRRE(screen, r, bytes)
    [] enc = "Hextile" -> Hextile(screen, r, bytes)
    [] enc = "Zlib" -> Zlib(screen, r, bytes)
    [] enc = "Ultra" -> Ultra(screen, r, bytes)
    [] enc = "ZRLE" -> ZRLE(screen, r, bytes)
=============================================================================
