---------------------------- MODULE ViewerDrawing ----------------------------
(***************************************************************************)
(* What a client makes of a rectangle that RectEncodings has made: the     *)
(* handlers of VncCanvas ("viewer") and of libvncclient ("library").       *)
(* A handler gives the picture it has drawn and the number of bytes it has *)
(* read: the rectangle behind is found only if it is the number sent.      *)
(***************************************************************************)
EXTENDS RectEncodings

Drawn(picture, read) == [picture |-> picture, read |-> read]

\* colorPalette: the colour of a byte, of which there are fewer.
ColorPalette(byte) == 2 * byte
Colour(c, pixel) == IF c.decoder = "viewer" /\ c.bytes = 1 THEN ColorPalette(pixel) ELSE pixel
Colours(c, data) == [i \in DOMAIN data |-> Colour(c, data[i])]

\* drawRect, FillRectangle.
Fill(picture, r, colour) ==
  [p \in DOMAIN picture |-> IF p \in PointsOfRect(r) THEN colour ELSE picture[p]]

\* The copy of lines into the bitmap: arraycopy, CopyRectangle.
Put(picture, r, data) ==
  [p \in DOMAIN picture |->
     IF p \in PointsOfRect(r) THEN data[(p[2] - r.y) * r.w + p[1] - r.x + 1] ELSE picture[p]]

HandleRaw(c, picture, s) ==
  Drawn(Put(picture, s, Colours(c, s.body)), s.w * s.h * c.bytes)

\* Subrectangles of a rectangle or tile r.
FillSubrects(c, picture, r, subs) ==
  FoldLeft(LAMBDA pic, sub :
             Fill(pic, [sub.rect EXCEPT !.x = @ + r.x, !.y = @ + r.y], Colour(c, sub.pixel)),
           picture, subs)

HandleSubrects(c, picture, s, per) ==
  Drawn(FillSubrects(c, Fill(picture, s, Colour(c, s.body.bg)), s, s.body.subs),
        4 + c.bytes + Len(s.body.subs) * (c.bytes + per))

HandleRRE(c, picture, s) == HandleSubrects(c, picture, s, 8)

\* The viewer reads as many bytes for a subrectangle as with RRE.
HandleCoRRE(c, picture, s) ==
  HandleSubrects(c, picture, s, IF c.decoder = "viewer" THEN 8 ELSE 4)

(***************************************************************************)
(* Hextile: background and foreground are kept from tile to tile.          *)
(***************************************************************************)
KeptBg(t, bg) == IF "Background" \in t.mask THEN t.bg ELSE bg

ReadTile(c, known, tile, t) ==
  IF "Raw" \in t.mask
  THEN [known EXCEPT !.picture = Put(@, tile, Colours(c, t.data)),
                     !.read = @ + 1 + tile.w * tile.h * c.bytes]
  ELSE LET bg == KeptBg(t, known.bg)
           fg == IF "Foreground" \in t.mask THEN t.fg ELSE known.fg
           coloured == "Coloured" \in t.mask
           subs == [i \in DOMAIN t.subs |->
                      IF coloured THEN t.subs[i] ELSE [t.subs[i] EXCEPT !.pixel = fg]]
       IN [picture |-> FillSubrects(c, Fill(known.picture, tile, Colour(c, bg)), tile, subs),
           bg |-> bg,
           fg |-> IF coloured /\ subs # << >> THEN Last(subs).pixel ELSE fg,
           read |-> known.read + 1
                    + c.bytes * Cardinality(t.mask \cap {"Background", "Foreground"})
                    + (IF "Subrects" \in t.mask THEN 1 + 2 * Len(subs) ELSE 0)
                    + (IF coloured THEN c.bytes * Len(subs) ELSE 0)]

HandleHextile(c, picture, s) ==
  LET tiles == Tiles(s, HextileSize)
      all == FoldLeft(LAMBDA known, i : ReadTile(c, known, tiles[i], s.body[i]),
                      [picture |-> picture, bg |-> 0, fg |-> 0, read |-> 0],
                      [i \in DOMAIN tiles |-> i])
  IN Drawn(all.picture, all.read)

\* Line by line out of the inflater.
HandleZlib(c, picture, s) ==
  Drawn(Put(picture, s, Colours(c, s.body)), s.w * s.h * c.bytes)

\* All that was announced is read and decompressed at once.
HandleUltra(c, picture, s) == Drawn(Put(picture, s, s.body), s.length)

(***************************************************************************)
(* ZRLE.  A tile is inflated to pixels and these are copied.  The length   *)
(* of what was compressed is not sent; a tile that was not understood      *)
(* draws nothing.                                                          *)
(***************************************************************************)
\* bppp of readZrlePackedPixels, bpp of HandleZRLETile.
BitsRead(size) == IF size > 16 THEN 8 ELSE IF size > 4 THEN 4 ELSE IF size > 2 THEN 2 ELSE 1

\* One and the bytes up to the first that is not MaxByte.
RunLength(run) ==
  IF ~run.long THEN 1
  ELSE LET end == {i \in DOMAIN run.bytes : run.bytes[i] # MaxByte}
       IN IF end = {} THEN 0
          ELSE 1 + FoldLeft(LAMBDA a, b : a + b, 0, SubSeq(run.bytes, 1, Min(end)))

Pixel(t, value) == IF t.palette = << >> THEN value ELSE t.palette[value + 1]

RunPixels(c, t) ==
  FlattenSeq([i \in DOMAIN t.body |->
                [k \in 1..RunLength(t.body[i]) |-> Colour(c, Pixel(t, t.body[i].value))]])

PackedPixels(c, t) ==
  FlattenSeq([row \in DOMAIN t.body |->
    [k \in DOMAIN t.body[row].indices |->
       IF t.body[row].bits = BitsRead(Len(t.palette))
       THEN Colour(c, Pixel(t, t.body[row].indices[k])) ELSE Unset]])

\* readZrleRawPixels leaves the bytes as they are; GotBitmap and the loop of the library too.
TilePixels(c, t) ==
  IF t.rle THEN RunPixels(c, t)
  ELSE IF t.palette # << >> THEN PackedPixels(c, t) ELSE t.body

DrawTile(c, picture, tile, t) ==
  IF Len(t.palette) = 1 THEN Fill(picture, tile, Colour(c, t.palette[1]))
  ELSE LET pixels == TilePixels(c, t)
       IN IF Len(pixels) = tile.w * tile.h THEN Put(picture, tile, pixels) ELSE picture

HandleZRLE(c, picture, s) ==
  LET tiles == Tiles(s, ZRLETile)
  IN Drawn(FoldLeft(LAMBDA pic, i : DrawTile(c, pic, tiles[i], s.body[i]), picture,
                    [i \in DOMAIN tiles |-> i]),
           0)

\* CopyRectangleFromRectangle: in the order that lets nothing be overwritten before it
\* was copied.  The viewer does not announce that it takes copies: useCopyRect.
HandleCopyRect(c, picture, s) ==
  Drawn([p \in DOMAIN picture |->
           IF p \in PointsOfRect(s)
           THEN picture[<<p[1] - s.x + s.body.x, p[2] - s.y + s.body.y>>] ELSE picture[p]],
        4)

Handle(c, picture, s) ==
  CASE s.enc = "Raw" -> HandleRaw(c, picture, s)
    [] s.enc = "CopyRect" -> HandleCopyRect(c, picture, s)
    [] s.enc = "RRE" -> HandleRRE(c, picture, s)
    [] s.enc = "CoRRE" -> HandleCoRRE(c, picture, s)
    [] s.enc = "Hextile" -> HandleHextile(c, picture, s)
    [] s.enc = "Zlib" -> HandleZlib(c, picture, s)
    [] s.enc = "Ultra" -> HandleUltra(c, picture, s)
    [] s.enc = "ZRLE" -> HandleZRLE(c, picture, s)
=============================================================================
