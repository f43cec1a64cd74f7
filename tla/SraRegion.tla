----------------------------- MODULE SraRegion -----------------------------
(***************************************************************************)
(* rfbregion.c: a region of the screen is a list of bands, a band spans    *)
(* [start, end) of y and holds in sub the list of its spans of x.  The     *)
(* doubly linked lists are sequences here; a span of x has the empty list  *)
(* for the code's null subspan.  The loops of the code are kept: they walk *)
(* a destination list, which they change, along a source list.             *)
(***************************************************************************)
EXTENDS Integers, Sequences, SequencesExt, FiniteSetsExt

Span(start, end, sub) == [start |-> start, end |-> end, sub |-> sub]

EmptyRegion == << >>

\* A place in a list, as MergePrevious moves it.
Place(list, at) == [list |-> list, at |-> at]

RECURSIVE MergePrevious(_, _), MergeNext(_, _)

MergePrevious(list, at) ==
  IF at > 1 /\ list[at - 1].end = list[at].start /\ list[at - 1].sub = list[at].sub
  THEN MergePrevious(RemoveAt([list EXCEPT ![at].start = list[at - 1].start], at - 1), at - 1)
  ELSE Place(list, at)

MergeNext(list, at) ==
  IF at < Len(list) /\ list[at + 1].start = list[at].end /\ list[at + 1].sub = list[at].sub
  THEN MergeNext(RemoveAt([list EXCEPT ![at].end = list[at + 1].end], at + 1), at)
  ELSE Place(list, at)

Merged(place) == LET p == MergePrevious(place.list, place.at) IN MergeNext(p.list, p.at)

\* Mutant: the part before the source is lost.
LoseBefore(p, y) == IF y > p.list[p.at].start THEN [p EXCEPT !.list[p.at].start = y] ELSE p

\* Cuts the span at a place to the part before or after y; the rest stays a
\* span of its own next to it.
SplitAfter(p, y) ==
  IF y < p.list[p.at].end
  THEN LET s == p.list[p.at]
       IN Place(InsertAt([p.list EXCEPT ![p.at].end = y], p.at + 1, Span(y, s.end, s.sub)), p.at)
  ELSE p

SplitBefore(p, y) ==
  IF y > p.list[p.at].start
  THEN LET s == p.list[p.at]
       IN Place(InsertAt([p.list EXCEPT ![p.at].start = y], p.at, Span(s.start, y, s.sub)), p.at + 1)
  ELSE p

----------------------------------------------------------------------------
(***************************************************************************)
(* sraSpanListOr.  from is the part of the source span still to be added.  *)
(***************************************************************************)
RECURSIVE OrFrom(_, _, _, _, _), Or(_, _)

NextStart(src, s) == IF s < Len(src) THEN src[s + 1].start ELSE 0

OrFrom(dest, d, src, s, from) ==
  IF s > Len(src) THEN dest
  ELSE LET new == src[s]
       IN IF d > Len(dest) \/ dest[d].start >= new.end
          THEN LET added == InsertAt(dest, d, Span(from, new.end, new.sub))
                   p == IF d <= Len(dest) THEN MergePrevious(added, d + 1) ELSE Place(added, d + 1)
               IN OrFrom(p.list, p.at, src, s + 1, NextStart(src, s))
          ELSE IF from < dest[d].end /\ new.end > dest[d].start
          THEN LET p == IF from < dest[d].start
                        THEN MergePrevious(InsertAt(dest, d, Span(from, dest[d].start, new.sub)), d + 1)
                        ELSE Place(dest, d)
                   cut == SplitBefore(SplitAfter(p, new.end), from)
                   both == [cut.list EXCEPT ![cut.at].sub = Or(@, new.sub)]
                   m == Merged(Place(both, cut.at))
               IN IF new.end > m.list[m.at].end
                  THEN OrFrom(m.list, m.at + 1, src, s, m.list[m.at].end)
                  ELSE OrFrom(m.list, m.at, src, s + 1, NextStart(src, s))
          ELSE OrFrom(dest, d + 1, src, s, from)

Or(dest, src) == IF src = << >> THEN dest ELSE OrFrom(dest, 1, src, 1, src[1].start)

(***************************************************************************)
(* sraSpanListAnd.  What is left of dest beyond the source is removed.     *)
(***************************************************************************)
RECURSIVE AndFrom(_, _, _, _), And(_, _)

AndFrom(dest, d, src, s) ==
  IF d > Len(dest) THEN dest
  ELSE IF s > Len(src) THEN SubSeq(dest, 1, d - 1)
  ELSE IF dest[d].start >= src[s].end THEN AndFrom(dest, d, src, s + 1)
  ELSE IF dest[d].end <= src[s].start THEN AndFrom(RemoveAt(dest, d), d, src, s)
  ELSE LET top == [dest EXCEPT ![d].start = Max({src[s].start, @})]
           cut == SplitAfter(Place(top, d), src[s].end).list
           both == And(cut[d].sub, src[s].sub)
       IN IF cut[d].sub # << >> /\ both = << >>
          THEN AndFrom(RemoveAt(cut, d), d, src, s)
          ELSE LET m == MergePrevious([cut EXCEPT ![d].sub = both], d)
                   end == m.list[m.at].end
               IN AndFrom(m.list, IF src[s].end >= end THEN m.at + 1 ELSE m.at,
                          src, IF src[s].end <= end THEN s + 1 ELSE s)

And(dest, src) == AndFrom(dest, 1, src, 1)

(***************************************************************************)
(* sraSpanListSubtract.                                                    *)
(***************************************************************************)
RECURSIVE SubtractFrom(_, _, _, _), Subtract(_, _)

SubtractFrom(dest, d, src, s) ==
  IF s > Len(src) \/ d > Len(dest) THEN dest
  ELSE IF dest[d].start >= src[s].end THEN SubtractFrom(dest, d, src, s + 1)
  ELSE IF dest[d].end <= src[s].start THEN SubtractFrom(dest, d + 1, src, s)
  ELSE LET cut == SplitAfter(SplitBefore(Place(dest, d), src[s].start), src[s].end)
           rest == Subtract(cut.list[cut.at].sub, src[s].sub)
       IN IF rest = << >>
          THEN SubtractFrom(RemoveAt(cut.list, cut.at), cut.at, src, s)
          ELSE LET m == Merged(Place([cut.list EXCEPT ![cut.at].sub = rest], cut.at))
               IN IF src[s].end > m.list[m.at].end
                  THEN SubtractFrom(m.list, m.at + 1, src, s)
                  ELSE SubtractFrom(m.list, m.at, src, s + 1)

Subtract(dest, src) == SubtractFrom(dest, 1, src, 1)

----------------------------------------------------------------------------
\* sraRgnCreateRect, of a rectangle [x, x + w) x [y, y + h).
RectRegion(r) == << Span(r.y, r.y + r.h, << Span(r.x, r.x + r.w, << >>) >>) >>

\* sraRgnOffset.
Offset(region, d) ==
  [i \in DOMAIN region |->
     Span(region[i].start + d[2], region[i].end + d[2],
          [j \in DOMAIN region[i].sub |->
             Span(region[i].sub[j].start + d[1], region[i].sub[j].end + d[1], << >>)])]

(***************************************************************************)
(* sraRgnGetReverseIterator: the rectangles of a region, band by band, from*)
(* bottom to top if reverseY, from right to left in a band if reverseX.    *)
(***************************************************************************)
BandRects(band, reverseX) ==
  LET rects == [j \in DOMAIN band.sub |->
                  [x |-> band.sub[j].start, y |-> band.start,
                   w |-> band.sub[j].end - band.sub[j].start, h |-> band.end - band.start]]
  IN IF reverseX THEN Reverse(rects) ELSE rects

RectsOf(region, reverseX, reverseY) ==
  LET bands == IF reverseY THEN Reverse(region) ELSE region
  IN FlattenSeq([i \in DOMAIN bands |-> BandRects(bands[i], reverseX)])

Rects(region) == RectsOf(region, FALSE, FALSE)

CountRects(region) == Len(Rects(region))

\* sraRgnBBox.
BBox(region) ==
  IF region = << >> THEN << >>
  ELSE LET rects == Range(Rects(region))
           left == Min({r.x : r \in rects})
           top == Min({r.y : r \in rects})
       IN RectRegion([x |-> left, y |-> top,
                      w |-> Max({r.x + r.w : r \in rects}) - left,
                      h |-> Max({r.y + r.h : r \in rects}) - top])

----------------------------------------------------------------------------
(***************************************************************************)
(* What a region stands for: the set of its points.                        *)
(***************************************************************************)
PointsOfRect(r) == (r.x .. (r.x + r.w - 1)) \X (r.y .. (r.y + r.h - 1))

PointsOf(region) == UNION {PointsOfRect(r) : r \in Range(Rects(region))}

\* Lists are in order, spans are not empty and do not overlap.
InOrder(list) ==
  /\ \A i \in DOMAIN list : list[i].start < list[i].end
  /\ \A i \in DOMAIN list : i < Len(list) => list[i].end <= list[i + 1].start

NormalForm(region) ==
  /\ InOrder(region)
  /\ \A i \in DOMAIN region : region[i].sub # << >> /\ InOrder(region[i].sub)
=============================================================================
