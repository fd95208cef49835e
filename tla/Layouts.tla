------------------------------- MODULE Layouts -------------------------------
(***************************************************************************)
(* The layouts of src/src/dwm/dwm.c as functions from a monitor's settings *)
(* to the places of its n tiled windows, and the commands that change the  *)
(* settings.  A place is the rectangle a window covers, border included;   *)
(* fits tells whether the layout found room for it.  Fractions are in      *)
(* percent.  The window area starts at (0, 0).                             *)
(***************************************************************************)
EXTENDS Integers, Sequences

CONSTANTS
    Width, Heights,        \* of the monitor
    bh, bw,                \* height of the bar, border
    gappx, maxgappx,       \* gap at the start, largest gap
    vertgappx, mincellw, mincellh,
    MaxWindows, nmaxmaster,
    GapStep,               \* the keys widen and narrow the gaps by this much
    Facts, PointerFacts,   \* of mfact, dmfact, zmfact: what the keys and the pointer set
    SFacts                 \* of smfact

ASSUME SizesAssumption ==
    /\ Width \in Nat /\ Heights \subseteq Nat
    /\ {bh, bw, gappx, maxgappx, vertgappx, mincellw, mincellh, MaxWindows,
        nmaxmaster, GapStep} \subseteq Nat
    /\ gappx <= maxgappx
ASSUME FactsAssumption ==
    Facts \subseteq Int /\ PointerFacts \subseteq Int /\ SFacts \subseteq Int

VARIABLE mon     \* n, layout, nmaster, fact, smfact, drawwithgaps, gappx, mh, showbar
vars == <<mon>>

Smaller(a, b) == IF a < b THEN a ELSE b
Larger(a, b) == IF a > b THEN a ELSE b
Percent(a, f) == (a * f) \div 100
minwsz == 2 * bh + 2 * vertgappx                \* minwfact is 2
Gap(m) == IF m.drawwithgaps THEN m.gappx ELSE 0
wh(m) == m.mh - (IF m.showbar THEN bh ELSE 0)   \* updatebarpos

\* resize with the size hints off: w and h without the border, at least bh.
\* applysizehints pulls a place that lies wholly outside back to the edge, by
\* the size the window had: fits is FALSE for the places this can happen to.
Place(x, y, w, h, fits) ==
    [x |-> x, y |-> y, w |-> Larger(bh, w) + 2 * bw, h |-> Larger(bh, h) + 2 * bw,
     fits |-> fits]
Transposed(p) == [p EXCEPT !.x = p.y, !.y = p.x, !.w = p.h, !.h = p.w]

-----------------------------------------------------------------------------
(* tile: masters in one column, the others in a second one; full is the    *)
(* size of the monitor along the columns.  A window for which there is     *)
(* less room than minwsz, or none at all, is put where the last master is. *)
(* Each step of the loop leaves my, ty and the place ms of the last        *)
(* master; low is the least of the unsigned differences on the way.  Below *)
(* 0 one of them has wrapped round to a height of millions of pixels, and  *)
(* the places from there on are not those of the code.                     *)

FaultTileNext(s, h, smh, last, g) ==            \* h for HEIGHT(c)
    s.ty + h - 2 * bw + (IF last THEN smh ELSE 0) + g
TileNext(s, h, smh, last, g) ==
    s.ty + Larger(bh, h - 2 * bw) + 2 * bw + (IF last THEN smh ELSE 0) + g

TileStep(m, w, h, full, s, i) ==
    LET g == Gap(m)
        maxn == (h - g) \div (g + minwsz) + m.nmaster
        mw == IF m.n > m.nmaster THEN (IF m.nmaster = 0 THEN 0 ELSE Percent(w, m.fact))
              ELSE w - g
        last == i = m.n - 1
        smh == Percent(full, m.smfact)
        mine == (h - s.my) \div (Smaller(m.n, m.nmaster) - i) - g
        master == Place(g, s.my, mw - 2 * bw - g, mine - 2 * bw, TRUE)
        room == h - s.ty - (IF last THEN 0 ELSE smh)
        part == room \div (Smaller(m.n, maxn) - i) - g
    IN  IF i < m.nmaster
        THEN [s EXCEPT !.ms = master, !.places = Append(@, master),
                       !.my = IF m.drawwithgaps /\ @ + master.h + g >= h THEN @
                              ELSE @ + master.h + g]
        ELSE IF i >= maxn
        THEN [s EXCEPT !.places = Append(@, [s.ms EXCEPT !.fits = FALSE])]
        ELSE IF part < minwsz \/ part < 2 * bw
        THEN [s EXCEPT !.places = Append(@, [s.ms EXCEPT !.fits = FALSE]),
                       !.low = Smaller(@, room)]
        ELSE [s EXCEPT !.places = Append(@, Place(mw + g, s.ty, w - mw - 2 * bw - 2 * g,
                                                  part - 2 * bw, TRUE)),
                       !.ty = TileNext(s, part, smh, last, g),
                       !.low = Smaller(@, room)]

Tile(m, w, h, full) ==
    LET start == [my |-> Gap(m), ty |-> Gap(m), ms |-> Place(0, 0, 0, 0, FALSE),
                  places |-> << >>, low |-> 0]
        loop[i \in 0..m.n] ==
            IF i = 0 THEN start ELSE TileStep(m, w, h, full, loop[i - 1], i - 1)
    IN  loop[m.n]

\* bstack with gaps is tile with the axes exchanged.
BstackGaps(m) == Tile(m, wh(m), Width, Width)

\* Without gaps the others share the width evenly.
BstackPlain(m) ==
    LET mh == IF m.n > m.nmaster
              THEN (IF m.nmaster = 0 THEN 0 ELSE Percent(wh(m), m.fact)) ELSE wh(m)
        tw == IF m.n > m.nmaster THEN Width \div (m.n - m.nmaster) ELSE Width
        mx[i \in 0..Smaller(m.n, m.nmaster)] ==
            IF i = 0 THEN 0
            ELSE mx[i - 1] + Larger(bh, (Width - mx[i - 1]) \div
                     (Smaller(m.n, m.nmaster) - (i - 1)) - 2 * bw) + 2 * bw
        tx(i) == IF tw = Width THEN 0
                 ELSE (i - m.nmaster) * (Larger(bh, tw - 2 * bw) + 2 * bw)
    IN  [k \in 1..m.n |->
            IF k - 1 < m.nmaster
            THEN Place(mx[k - 1], 0, (Width - mx[k - 1]) \div
                           (Smaller(m.n, m.nmaster) - (k - 1)) - 2 * bw, mh - 2 * bw, TRUE)
            ELSE Place(tx(k - 1), mh, tw - 2 * bw, wh(m) - mh - 2 * bw, TRUE)]

-----------------------------------------------------------------------------
(* doubledeck and zetadeck: the masters on one pile, the others on another. *)
Deck(m, w, h) ==
    LET g == Gap(m)
        mw == IF m.n > m.nmaster THEN (IF m.nmaster = 0 THEN 0 ELSE Percent(w, m.fact))
              ELSE w - g
    IN  [k \in 1..m.n |->
            IF k - 1 < m.nmaster
            THEN Place(g, g, mw - 2 * bw - g, h - 2 * bw - 2 * g, TRUE)
            ELSE Place(mw + g, g, w - mw - 2 * bw - 2 * g, h - 2 * bw - 2 * g, TRUE)]

-----------------------------------------------------------------------------
(* grid                                                                    *)
GridRows(n) ==
    IF \E r \in 0..(n \div 2) : r * r >= n
    THEN CHOOSE r \in 0..(n \div 2) : r * r >= n /\ \A q \in 0..(r - 1) : q * q < n
    ELSE n \div 2 + 1
FaultGridCols(n) == LET r == GridRows(n) IN IF r # 0 /\ r * r > n THEN r - 1 ELSE r
GridCols(n) == LET r == GridRows(n) IN IF r # 0 /\ (r - 1) * r >= n THEN r - 1 ELSE r

rows(m) == Smaller(GridRows(m.n), (wh(m) - Gap(m)) \div (mincellh + Gap(m)))
cols(m) == Smaller(GridCols(m.n), (Width - Gap(m)) \div (mincellw + Gap(m)))

\* Where cell number k of count begins and how long it is: with gaps the
\* first cells take the rest, without gaps the last one does.
FaultCell(m, size, count, k) ==                 \* no room for the outer gaps
    LET g == Gap(m)
        net == size - g * (count - 1)
        len == net \div count
    IN  [at |-> g + k * (len + g), len |-> len]
Cell(m, size, count, k) ==
    LET g == Gap(m)
        net == size - 2 * g - g * (count - 1)
        len == net \div count
        rest == net - len * count
    IN  IF m.drawwithgaps
        THEN [at |-> g + k * (len + g) + Smaller(k, rest),
              len |-> len + (IF k < rest THEN 1 ELSE 0)]
        ELSE [at |-> k * len, len |-> len + (IF k = count - 1 THEN rest ELSE 0)]

\* Where rows or cols is limited there may be more windows than cells; the
\* others are put to the right of the area.
Grid(m) ==
    [k \in 1..m.n |->
        LET across == Cell(m, Width, cols(m), (k - 1) \div rows(m))
            down == Cell(m, wh(m), rows(m), (k - 1) % rows(m))
        IN  Place(across.at, down.at, across.len - 2 * bw, down.len - 2 * bw,
                  k <= rows(m) * cols(m))]

-----------------------------------------------------------------------------
Layout == {"tile", "grid", "doubledeck", "zetadeck", "bstack"}

Mirror(q) == [k \in DOMAIN q |-> Transposed(q[k])]

\* arrangemon
Arranged(m) ==
    CASE m.layout = "tile" -> Tile(m, Width, wh(m), m.mh).places
      [] m.layout = "grid" -> Grid(m)
      [] m.layout = "doubledeck" -> Deck(m, Width, wh(m))
      [] m.layout = "zetadeck" -> Mirror(Deck(m, wh(m), Width))
      [] m.layout = "bstack" -> IF m.drawwithgaps THEN Mirror(BstackGaps(m).places)
                                ELSE BstackPlain(m)

DefaultFact(l) == IF l \in {"doubledeck", "zetadeck"} THEN 50 ELSE 55

Init ==
    \E h \in Heights :
        mon = [n |-> 0, layout |-> "tile", nmaster |-> 1, fact |-> DefaultFact("tile"), smfact |-> 0,
               drawwithgaps |-> TRUE, gappx |-> gappx, mh |-> h, showbar |-> FALSE]

manage == mon.n < MaxWindows /\ mon' = [mon EXCEPT !.n = @ + 1]
unmanage == mon.n > 0 /\ mon' = [mon EXCEPT !.n = @ - 1]
\* Each layout has its factor: what any command has made of it.
setlayout(l) == \E f \in Facts \cup PointerFacts \cup {DefaultFact(l)} :
    mon' = [mon EXCEPT !.layout = l, !.fact = f]
incnmaster(d) == mon' = [mon EXCEPT !.nmaster = Smaller(Larger(@ + d, 0), nmaxmaster)]
\* For zetadeck the code is in setsmfact.
setmfact(f) == f >= 5 /\ f <= 95 /\ mon' = [mon EXCEPT !.fact = f]
setsmfact(f) == f >= 0 /\ f <= 90 /\ mon' = [mon EXCEPT !.smfact = f]
resetmfact ==
    mon' = [mon EXCEPT !.fact = DefaultFact(mon.layout),
                       !.smfact = IF mon.layout \in {"doubledeck", "zetadeck"} THEN @ ELSE 0]
\* The factor is where the pointer was, with no limit; the window may then
\* be on another monitor, and goes there.
resizemouse(f) ==
    /\ mon.n > 0
    /\ \E n \in {mon.n, mon.n - 1} : mon' = [mon EXCEPT !.fact = f, !.n = n]
setgaps ==
    \/ mon' = [mon EXCEPT !.drawwithgaps = ~@]
    \/ mon' = [mon EXCEPT !.gappx = gappx]
    \/ \E d \in {-GapStep, GapStep} :
          mon' = [mon EXCEPT !.gappx = Larger(0, Smaller(@ + d, maxgappx))]
togglebar == mon' = [mon EXCEPT !.showbar = ~@]

Next ==
    \/ manage \/ unmanage \/ setgaps \/ togglebar \/ resetmfact
    \/ \E l \in Layout : setlayout(l)
    \/ \E d \in {-1, 1} : incnmaster(d)
    \/ \E f \in Facts : setmfact(f)
    \/ \E f \in PointerFacts : resizemouse(f)
    \/ \E f \in SFacts : setsmfact(f)

Spec == Init /\ [][Next]_vars
-----------------------------------------------------------------------------
(* Properties.                                                             *)

Inside(p, m) == p.x >= 0 /\ p.y >= 0 /\ p.x + p.w <= Width /\ p.y + p.h <= wh(m)
Disjoint(p, q) == \/ p.x + p.w <= q.x \/ q.x + q.w <= p.x
                  \/ p.y + p.h <= q.y \/ q.y + q.h <= p.y
Same(p, q) == p.x = q.x /\ p.y = q.y /\ p.w = q.w /\ p.h = q.h

\* The least a window takes, its border included.
least == bh + 2 * bw

\* The pointer puts the border of a split anywhere, and the largest gap and
\* factors leave less than a window on a low screen: either part of a split
\* along a side of length l holds a window.
RoomToSplit(m, l) ==
    m.n > m.nmaster /\ m.nmaster > 0 =>
        LET p == Percent(l, m.fact) IN least <= p /\ p + Gap(m) + least <= l

\* What smfact reserves of the monitor leaves the first gap along the side.
RoomBehind(m, l, full) == Gap(m) + Percent(full, m.smfact) <= l

HasRoom(m) ==
    CASE m.layout = "tile" -> RoomToSplit(m, Width) /\ RoomBehind(m, wh(m), m.mh)
      [] m.layout = "bstack" -> RoomToSplit(m, wh(m)) /\ RoomBehind(m, Width, Width)
      [] m.layout = "doubledeck" -> RoomToSplit(m, Width)
      [] m.layout = "zetadeck" -> RoomToSplit(m, wh(m))
      [] m.layout = "grid" -> TRUE

\* A layout that has room for the parts of its split puts no window outside
\* the window area that it has a place for, whatever the gaps and the number of
\* masters and windows: rounding and the minimal sizes do not add up to more
\* than there is.
InArea ==
    HasRoom(mon) => LET a == Arranged(mon)
                    IN  \A k \in 1..mon.n : a[k].fits => Inside(a[k], mon)

\* Two windows such a layout has places for do not overlap; the decks pile
\* them up exactly.
NoOverlap ==
    HasRoom(mon) =>
        LET a == Arranged(mon)
        IN  \A j, k \in 1..mon.n : j < k /\ a[j].fits /\ a[k].fits =>
                \/ Disjoint(a[j], a[k])
                \/ mon.layout \in {"doubledeck", "zetadeck"} /\ Same(a[j], a[k])

\* The unsigned subtractions of tile and bstack do not wrap round at a later
\* window if they do not at the first one; grid has rows and columns to divide
\* by, and is short of cells only on a screen too small for a row or a column
\* it wants.
NoWrap ==
    /\ mon.layout = "tile" /\ RoomBehind(mon, wh(mon), mon.mh) =>
           Tile(mon, Width, wh(mon), mon.mh).low >= 0
    /\ mon.layout = "bstack" /\ mon.drawwithgaps /\ RoomBehind(mon, Width, Width) =>
           BstackGaps(mon).low >= 0
    /\ mon.layout = "grid" /\ mon.n > 0 =>
           /\ rows(mon) > 0 /\ cols(mon) > 0
           /\ \/ rows(mon) * cols(mon) >= mon.n
              \/ rows(mon) < GridRows(mon.n)
              \/ cols(mon) < GridCols(mon.n)
=============================================================================
