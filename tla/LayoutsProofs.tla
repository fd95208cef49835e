---------------------------- MODULE LayoutsProofs ----------------------------
(***************************************************************************)
(* The layouts keep what they promise on every screen that is large enough *)
(* with any number of windows and masters, any gaps and any factors that   *)
(* leave room (HasRoom): Roomy says how large the screen is.               *)
(***************************************************************************)
EXTENDS Layouts, ClientListsProofs

\* The most masters there are.
Most == Larger(nmaxmaster, 1)

(***************************************************************************)
(* The screen is large enough with the largest gap: along each side of the *)
(* window area for the masters of tile and bstack, for MaxWindows windows  *)
(* side by side, and for one cell of grid.                                 *)
(***************************************************************************)
Side == {Width} \cup Heights \cup {h - bh : h \in Heights}
Roomy ==
    /\ bh > 0 /\ bh + 2 * vertgappx >= 2 * bw
    /\ mincellw >= least /\ mincellh >= least
    /\ MaxWindows * least <= Width
    /\ \A l \in Side : Most * (least + maxgappx) + maxgappx <= l
    /\ mincellw + 2 * maxgappx <= Width
    /\ \A h \in Heights : mincellh + 2 * maxgappx <= h - bh

-----------------------------------------------------------------------------
(* The settings.                                                           *)

Settings ==
    [ n : 0..MaxWindows, layout : Layout, nmaster : 0..Most, fact : Int,
      smfact : 0..90, drawwithgaps : BOOLEAN, gappx : 0..maxgappx, mh : Heights,
      showbar : BOOLEAN ]

\* The constants, one by one.
LEMMA Sizes ==
    /\ Width \in Nat /\ bh \in Nat /\ bw \in Nat /\ gappx \in Nat /\ vertgappx \in Nat
    /\ mincellw \in Nat /\ mincellh \in Nat /\ MaxWindows \in Nat /\ nmaxmaster \in Nat
    /\ maxgappx \in Nat /\ GapStep \in Nat /\ gappx <= maxgappx
    /\ \A h \in Heights : h \in Nat
    /\ least \in Nat /\ Most \in Nat /\ Most >= 1 /\ nmaxmaster <= Most
<1>1. /\ Width \in Nat /\ bh \in Nat /\ bw \in Nat /\ gappx \in Nat /\ vertgappx \in Nat
      /\ mincellw \in Nat /\ mincellh \in Nat /\ MaxWindows \in Nat /\ nmaxmaster \in Nat
      /\ maxgappx \in Nat /\ GapStep \in Nat /\ gappx <= maxgappx
      /\ \A h \in Heights : h \in Nat
  BY SizesAssumption
<1>2. least \in Nat /\ Most \in Nat /\ Most >= 1 /\ nmaxmaster <= Most
  BY <1>1 DEF least, Most, Larger
<1> QED  BY <1>1, <1>2

\* A new factor and a new number of windows.
LEMMA NewFact ==
    ASSUME mon \in Settings, NEW f \in Int, NEW n \in 0..MaxWindows, NEW l \in Layout,
           NEW s \in 0..90
    PROVE  /\ [mon EXCEPT !.fact = f] \in Settings
           /\ [mon EXCEPT !.fact = f, !.n = n] \in Settings
           /\ [mon EXCEPT !.layout = l, !.fact = f] \in Settings
           /\ [mon EXCEPT !.fact = f, !.smfact = s] \in Settings
           /\ [mon EXCEPT !.n = n] \in Settings
           /\ [mon EXCEPT !.smfact = s] \in Settings
BY DEF Settings

LEMMA DefaultIs ==
    ASSUME NEW l
    PROVE  DefaultFact(l) \in Int
BY DEF DefaultFact

\* The commands leave the settings in their ranges.
LEMMA SettingsStep ==
    ASSUME mon \in Settings, [Next]_vars
    PROVE  mon' \in Settings
<1>0. /\ mon.n \in 0..MaxWindows /\ mon.nmaster \in 0..Most /\ mon.gappx \in 0..maxgappx
      /\ mon.smfact \in 0..90 /\ mon.fact \in Int /\ mon.layout \in Layout
  BY DEF Settings
<1>1. CASE UNCHANGED vars
  BY <1>1 DEF vars
<1>2. CASE manage \/ unmanage
  <2>1. PICK n \in 0..MaxWindows : mon' = [mon EXCEPT !.n = n]
    <3>1. CASE manage
      <4>1. mon.n + 1 \in 0..MaxWindows
        BY <1>0, <3>1, Sizes DEF manage
      <4> QED  BY <3>1, <4>1 DEF manage
    <3>2. CASE unmanage
      <4>1. mon.n - 1 \in 0..MaxWindows
        BY <1>0, <3>2, Sizes DEF unmanage
      <4> QED  BY <3>2, <4>1 DEF unmanage
    <3> QED  BY <1>2, <3>1, <3>2
  <2> QED  BY <2>1 DEF Settings
<1>3. CASE togglebar
  <2> DEFINE bar == ~mon.showbar
  <2>1. bar \in BOOLEAN /\ mon' = [mon EXCEPT !.showbar = bar]
    BY <1>3 DEF togglebar
  <2> HIDE DEF bar
  <2> QED  BY <2>1 DEF Settings
<1>4. CASE setgaps
  <2>1. CASE mon' = [mon EXCEPT !.drawwithgaps = ~@]
    <3> DEFINE gaps == ~mon.drawwithgaps
    <3>1. gaps \in BOOLEAN /\ mon' = [mon EXCEPT !.drawwithgaps = gaps]
      BY <2>1
    <3> HIDE DEF gaps
    <3> QED  BY <3>1 DEF Settings
  <2>2. ASSUME NEW g \in 0..maxgappx, mon' = [mon EXCEPT !.gappx = g]
        PROVE  mon' \in Settings
    BY <2>2 DEF Settings
  <2>3. CASE mon' = [mon EXCEPT !.gappx = gappx]
    <3>1. gappx \in 0..maxgappx
      BY Sizes
    <3> QED  BY <2>2, <2>3, <3>1
  <2>4. ASSUME NEW d \in {-GapStep, GapStep},
               mon' = [mon EXCEPT !.gappx = Larger(0, Smaller(@ + d, maxgappx))]
        PROVE  mon' \in Settings
    <3> DEFINE g == Larger(0, Smaller(mon.gappx + d, maxgappx))
    <3>1. mon' = [mon EXCEPT !.gappx = g]
      BY <2>4
    <3>2. g \in 0..maxgappx
      <4>1. d \in Int
        BY Sizes
      <4> QED  BY <1>0, <4>1, Sizes DEF Larger, Smaller
    <3> HIDE DEF g
    <3> QED  BY <2>2, <3>1, <3>2
  <2> QED  BY <1>4, <2>1, <2>3, <2>4 DEF setgaps
<1>5. ASSUME NEW l \in Layout, setlayout(l)
      PROVE  mon' \in Settings
  <2>1. PICK f \in Facts \cup PointerFacts \cup {DefaultFact(l)} :
            mon' = [mon EXCEPT !.layout = l, !.fact = f]
    BY <1>5 DEF setlayout
  <2>2. f \in Int
    BY FactsAssumption, DefaultIs
  <2> QED  BY <1>0, <2>1, <2>2, NewFact
<1>6. ASSUME NEW d \in {-1, 1}, incnmaster(d)
      PROVE  mon' \in Settings
  <2> DEFINE k == Smaller(Larger(mon.nmaster + d, 0), nmaxmaster)
  <2>1. k \in 0..Most
    BY Sizes DEF Settings, Smaller, Larger
  <2>2. mon' = [mon EXCEPT !.nmaster = k]
    BY <1>6 DEF incnmaster
  <2> HIDE DEF k
  <2> QED  BY <2>1, <2>2 DEF Settings
<1>7. ASSUME NEW f \in Facts, setmfact(f)
      PROVE  mon' \in Settings
  <2>1. f \in Int /\ mon' = [mon EXCEPT !.fact = f]
    BY <1>7, FactsAssumption DEF setmfact
  <2> QED  BY <1>0, <2>1, NewFact
<1>8. ASSUME NEW f \in SFacts, setsmfact(f)
      PROVE  mon' \in Settings
  <2>1. f \in 0..90 /\ mon' = [mon EXCEPT !.smfact = f]
    BY <1>8, FactsAssumption DEF setsmfact
  <2> QED  BY <1>0, <2>1, NewFact
<1>9. ASSUME NEW f \in PointerFacts, resizemouse(f)
      PROVE  mon' \in Settings
  <2>1. PICK n \in {mon.n, mon.n - 1} : mon' = [mon EXCEPT !.fact = f, !.n = n]
    BY <1>9 DEF resizemouse
  <2>2. f \in Int /\ n \in 0..MaxWindows
    BY <1>0, <1>9, FactsAssumption, Sizes DEF resizemouse
  <2> QED  BY <1>0, <2>1, <2>2, NewFact
<1>10. CASE resetmfact
  <2> DEFINE e == DefaultFact(mon.layout)
             s == IF mon.layout \in {"doubledeck", "zetadeck"} THEN mon.smfact ELSE 0
  <2>1. mon' = [mon EXCEPT !.fact = e, !.smfact = s]
    BY <1>10 DEF resetmfact
  <2>2. e \in Int /\ s \in 0..90
    BY <1>0, DefaultIs
  <2> HIDE DEF e, s
  <2> QED  BY <1>0, <2>1, <2>2, NewFact
<1> QED  BY <1>1, <1>2, <1>3, <1>4, <1>5, <1>6, <1>7, <1>8, <1>9, <1>10 DEF Next

\* setlayout, incnmaster, setmfact, setsmfact, resizemouse, setgaps, togglebar,
\* manage and unmanage: the settings of a monitor stay in their ranges; the
\* factor has none.
LEMMA SettingsTyped == Spec => [](mon \in Settings)
<1>1. Init => mon \in Settings
  <2>1. 0 \in 0..MaxWindows /\ 1 \in 0..Most /\ gappx \in 0..maxgappx
    BY Sizes
  <2>2. DefaultFact("tile") \in Int
    BY DefaultIs
  <2> QED  BY <2>1, <2>2 DEF Init, Settings, Layout
<1>2. mon \in Settings /\ [Next]_vars => (mon \in Settings)'
  BY SettingsStep
<1> QED  BY <1>1, <1>2, PTL DEF Spec

-----------------------------------------------------------------------------
(* Places.                                                                 *)

Rect == [x : Int, y : Int, w : Int, h : Int, fits : BOOLEAN]

\* Inside an area of w by h.
Within(p, w, h) == p.x >= 0 /\ p.y >= 0 /\ p.x + p.w <= w /\ p.y + p.h <= h

\* resize: a place is as large as asked, but for the least there is.
Covers(p, x, y, w, h) ==
    /\ p \in Rect /\ p.x = x /\ p.y = y
    /\ p.w = Larger(least, w) /\ p.h = Larger(least, h)
    /\ p.w \in Nat /\ p.h \in Nat

LEMMA PlaceIs ==
    ASSUME NEW x \in Int, NEW y \in Int, NEW w \in Int, NEW h \in Int
    PROVE  /\ Covers(Place(x, y, w - 2 * bw, h - 2 * bw, TRUE), x, y, w, h)
           /\ Place(x, y, w - 2 * bw, h - 2 * bw, TRUE).fits = TRUE
<1> DEFINE pw == Larger(bh, w - 2 * bw) + 2 * bw
           ph == Larger(bh, h - 2 * bw) + 2 * bw
           p == Place(x, y, w - 2 * bw, h - 2 * bw, TRUE)
<1>1. p = [x |-> x, y |-> y, w |-> pw, h |-> ph, fits |-> TRUE]
  BY DEF Place
<1>2. pw \in Nat /\ pw = Larger(least, w) /\ ph \in Nat /\ ph = Larger(least, h)
  BY Sizes DEF least, Larger
<1> HIDE DEF pw, ph, p
<1>3. p \in Rect
  BY <1>1, <1>2 DEF Rect
<1>4. Covers(p, x, y, w, h)
  BY <1>1, <1>2, <1>3 DEF Covers
<1>5. p.fits = TRUE
  BY <1>1
<1> QED  BY <1>4, <1>5 DEF p

\* The larger of the two.
LEMMA LargerIs ==
    ASSUME NEW a \in Int, NEW b \in Int
    PROVE  /\ Larger(a, b) \in Int /\ Larger(a, b) >= a /\ Larger(a, b) >= b
           /\ b >= a => Larger(a, b) = b
BY DEF Larger

\* An area is left to the others when a share of it is taken: a is divided
\* among k, each of whom needs c.
LEMMA Share ==
    ASSUME NEW a \in Int, NEW c \in Nat, NEW k \in Nat, k > 0, a >= k * c
    PROVE  /\ a \div k \in Nat /\ a \div k >= c /\ a \div k <= a
           /\ a - a \div k >= (k - 1) * c
           /\ k = 1 => a \div k = a
<1> DEFINE d == a \div k
<1>1. d \in Int /\ k * d <= a /\ a < k * d + k
  OBVIOUS
<1> HIDE DEF d
<1>2. d >= c
  <2> SUFFICES ASSUME d + 1 <= c
               PROVE  FALSE
    BY <1>1
  <2>1. k * (d + 1) <= k * c
    BY <1>1
  <2>2. k * (d + 1) = k * d + k
    BY <1>1
  <2> QED  BY <1>1, <2>1, <2>2
<1>3. d \in Nat
  BY <1>1, <1>2
<1>4. (k - 1) * d >= (k - 1) * c
  BY <1>1, <1>2
<1>5. (k - 1) * d = k * d - d /\ (k - 1) * d >= 0
  BY <1>3
<1>6. (k - 1) * d \in Int /\ (k - 1) * c \in Int /\ k * d \in Int
  BY <1>1
<1>7. k = 1 => d = a
  BY <1>1
<1> QED  BY <1>1, <1>2, <1>3, <1>4, <1>5, <1>6, <1>7 DEF d

-----------------------------------------------------------------------------
(* The room there is.                                                      *)

\* Along a side of length l, for the masters and between the gaps.
RoomFor(m, l) ==
    /\ l \in Nat /\ m.nmaster * (least + Gap(m)) + Gap(m) <= l /\ least + 2 * Gap(m) <= l
    /\ Percent(l, m.fact) \in Int

LEMMA Measures ==
    ASSUME Roomy, NEW m \in Settings
    PROVE  /\ m.n \in 0..MaxWindows /\ m.n \in Nat /\ m.nmaster \in Nat
           /\ Gap(m) \in Nat /\ Gap(m) <= maxgappx /\ (~m.drawwithgaps => Gap(m) = 0)
           /\ RoomFor(m, Width) /\ RoomFor(m, wh(m)) /\ wh(m) >= m.mh - bh
           /\ Percent(Width, m.smfact) \in Nat /\ Percent(m.mh, m.smfact) \in Nat
<1>1. /\ m.n \in 0..MaxWindows /\ m.nmaster \in 0..Most /\ m.fact \in Int
      /\ m.smfact \in 0..90 /\ m.drawwithgaps \in BOOLEAN /\ m.mh \in Heights
      /\ m.gappx \in 0..maxgappx
  BY DEF Settings
<1>2. Gap(m) \in Nat /\ Gap(m) <= maxgappx /\ (~m.drawwithgaps => Gap(m) = 0)
  BY <1>1, Sizes DEF Gap
<1>3. /\ wh(m) \in Side /\ Width \in Side
      /\ wh(m) \in Int /\ wh(m) >= m.mh - bh
  <2>1. m.mh \in Side /\ m.mh - bh \in Side /\ Width \in Side
    BY <1>1 DEF Side
  <2>2. wh(m) = IF m.showbar THEN m.mh - bh ELSE m.mh
    BY <1>1, Sizes DEF wh
  <2> QED  BY <1>1, <2>1, <2>2, Sizes
<1>4. ASSUME NEW l \in Side, l \in Int
      PROVE  RoomFor(m, l)
  <2> DEFINE g == Gap(m)
             k == m.nmaster
  <2>1. Most * (least + maxgappx) + maxgappx <= l
    BY <1>4 DEF Roomy
  <2>2. Percent(l, m.fact) \in Int
    BY <1>1, <1>4 DEF Percent
  <2>3. g \in Nat /\ g <= maxgappx /\ k \in Nat /\ k <= Most
    BY <1>1, <1>2, Sizes
  <2> HIDE DEF g, k
  <2>4. k * (least + g) <= Most * (least + maxgappx) /\ least + maxgappx <= Most * (least + maxgappx)
    <3>1. k * (least + g) <= k * (least + maxgappx)
      BY <2>3, Sizes
    <3>2. k * (least + maxgappx) <= Most * (least + maxgappx)
      BY <2>3, Sizes
    <3>3. 1 * (least + maxgappx) <= Most * (least + maxgappx)
      BY Sizes
    <3>4. /\ k * (least + g) \in Int /\ k * (least + maxgappx) \in Int
          /\ Most * (least + maxgappx) \in Int
      BY <2>3, Sizes
    <3> QED  BY <3>1, <3>2, <3>3, <3>4, Sizes
  <2>5. k * (least + g) \in Nat /\ Most * (least + maxgappx) \in Int
    BY <2>3, Sizes
  <2>6. l \in Nat /\ k * (least + g) + g <= l /\ least + 2 * g <= l
    BY <1>4, <2>1, <2>3, <2>4, <2>5, Sizes
  <2> QED  BY <2>2, <2>6 DEF RoomFor, g, k
<1>5. RoomFor(m, Width) /\ RoomFor(m, wh(m))
  BY <1>3, <1>4, Sizes
<1>6. ASSUME NEW a \in Nat
      PROVE  Percent(a, m.smfact) \in Nat
  <2>1. m.smfact \in Nat
    BY <1>1
  <2> QED  BY <2>1 DEF Percent
<1>7. Percent(Width, m.smfact) \in Nat /\ Percent(m.mh, m.smfact) \in Nat
  BY <1>1, <1>6, Sizes
<1> QED  BY <1>1, <1>2, <1>3, <1>5, <1>7, Sizes

-----------------------------------------------------------------------------
(* doubledeck and zetadeck.                                                *)

\* Two windows are apart, or piled up exactly where the layout does that.
Apart(p, q, piles) ==
    \/ Disjoint(p, q)
    \/ piles /\ Same(p, q)

\* The n places of q are inside an area of w by h and apart.
LaidOut(q, n, w, h, piles) ==
    /\ DOMAIN q = 1..n /\ \A k \in 1..n : q[k] \in Rect
    /\ \A k \in 1..n : q[k].fits => Within(q[k], w, h)
    /\ \A j, k \in 1..n : j < k /\ q[j].fits /\ q[k].fits => Apart(q[j], q[k], piles)

\* Exchanging the axes exchanges the sides of the area.
LEMMA MirrorIs ==
    ASSUME NEW q, NEW n \in Nat, NEW w, NEW h, NEW piles, LaidOut(q, n, w, h, piles)
    PROVE  LaidOut(Mirror(q), n, h, w, piles)
<1> DEFINE r == Mirror(q)
<1>1. DOMAIN r = 1..n /\ \A k \in 1..n : r[k] = Transposed(q[k])
  BY DEF LaidOut, Mirror
<1> HIDE DEF r
<1>2. ASSUME NEW k \in 1..n
      PROVE  /\ r[k] \in Rect /\ r[k].fits = q[k].fits
             /\ r[k].x = q[k].y /\ r[k].y = q[k].x /\ r[k].w = q[k].h /\ r[k].h = q[k].w
  <2>1. q[k] \in Rect /\ r[k] = Transposed(q[k])
    BY <1>1 DEF LaidOut
  <2> QED  BY <2>1 DEF Transposed, Rect
<1>3. \A k \in 1..n : r[k].fits => Within(r[k], h, w)
  BY <1>2 DEF LaidOut, Within
<1>4. ASSUME NEW j \in 1..n, NEW k \in 1..n, j < k, r[j].fits, r[k].fits
      PROVE  Apart(r[j], r[k], piles)
  <2>1. Apart(q[j], q[k], piles)
    BY <1>2, <1>4 DEF LaidOut
  <2> QED  BY <1>2, <2>1 DEF Apart, Disjoint, Same
<1>5. LaidOut(r, n, h, w, piles)
  BY <1>1, <1>2, <1>3, <1>4 DEF LaidOut
<1> QED  BY <1>5 DEF r

\* Where the masters end when there are others, and where they end when there
\* are not.
Split(m, w) ==
    IF m.n > m.nmaster THEN (IF m.nmaster = 0 THEN 0 ELSE Percent(w, m.fact)) ELSE w - Gap(m)

LEMMA SplitIs ==
    ASSUME NEW m \in Settings, NEW w, RoomFor(m, w), RoomToSplit(m, w), Gap(m) \in Nat,
           m.n \in Nat, m.nmaster \in Nat, NEW mw, mw = Split(m, w), NEW g, g = Gap(m)
    PROVE  /\ mw \in Int /\ w \in Nat /\ g \in Nat /\ mw + g <= w /\ least + 2 * g <= w
           /\ m.nmaster > 0 /\ m.n > 0 => mw >= least
           /\ m.n > m.nmaster => mw + g + least <= w /\ mw >= 0
<1> DEFINE p == Percent(w, m.fact)
<1>1. /\ w \in Nat /\ least + 2 * g <= w /\ p \in Int
      /\ m.n > m.nmaster /\ m.nmaster > 0 => least <= p /\ p + g + least <= w
      /\ g \in Nat /\ least \in Nat
  BY Sizes DEF RoomFor, RoomToSplit
<1>2. mw = IF m.n > m.nmaster THEN (IF m.nmaster = 0 THEN 0 ELSE p) ELSE w - g
  BY DEF Split
<1> HIDE DEF p
<1>3. CASE m.n > m.nmaster /\ m.nmaster = 0
  BY <1>1, <1>2, <1>3
<1>4. CASE m.n > m.nmaster /\ m.nmaster # 0
  BY <1>1, <1>2, <1>4
<1>5. CASE ~(m.n > m.nmaster)
  BY <1>1, <1>2, <1>5
<1> QED  BY <1>3, <1>4, <1>5

\* The two columns of tile, bstack and the decks: where the masters' ends and
\* the others' begins.
LEMMA Columns ==
    ASSUME NEW w \in Nat, NEW g \in Nat, NEW mw \in Int, mw + g <= w, least + 2 * g <= w
    PROVE  /\ mw >= least => g + Larger(least, mw - g) <= mw + g
           /\ g + Larger(least, w - g - g) <= w
           /\ mw + g + least <= w => mw + g + Larger(least, w - mw - 2 * g) <= w
BY Sizes DEF Larger

LEMMA DeckLaidOut ==
    ASSUME NEW m \in Settings, NEW w, NEW h, RoomFor(m, w), RoomFor(m, h),
           RoomToSplit(m, w), Gap(m) \in Nat, m.n \in Nat, m.nmaster \in Nat
    PROVE  LaidOut(Deck(m, w, h), m.n, w, h, TRUE)
<1> DEFINE g == Gap(m)
           n == m.n
           mw == Split(m, w)
           a == mw - g
           b == h - 2 * g
           c == w - mw - 2 * g
           x == mw + g
           master == Place(g, g, mw - 2 * bw - g, h - 2 * bw - 2 * g, TRUE)
           other == Place(mw + g, g, w - mw - 2 * bw - 2 * g, h - 2 * bw - 2 * g, TRUE)
           q == Deck(m, w, h)
<1>1. DOMAIN q = 1..n /\ \A k \in 1..n : q[k] = IF k - 1 < m.nmaster THEN master ELSE other
  BY DEF Deck, Split
<1>2. /\ mw \in Int /\ w \in Nat /\ g \in Nat /\ mw + g <= w /\ least + 2 * g <= w
      /\ m.nmaster > 0 /\ n > 0 => mw >= least
      /\ n > m.nmaster => mw + g + least <= w /\ mw >= 0
  <2> HIDE DEF mw, g
  <2> QED  BY SplitIs DEF mw, g
<1>3. h \in Nat /\ least + 2 * g <= h /\ n \in Nat
  BY DEF RoomFor
<1> HIDE DEF g, mw, q, n
<1>4. master = Place(g, g, a - 2 * bw, b - 2 * bw, TRUE)
  <2>1. mw - 2 * bw - g = a - 2 * bw /\ h - 2 * bw - 2 * g = b - 2 * bw
    BY <1>2, <1>3, Sizes
  <2> QED  BY <2>1
<1>a. other = Place(x, g, c - 2 * bw, b - 2 * bw, TRUE)
  <2>1. /\ mw - 2 * bw - g = a - 2 * bw
        /\ h - 2 * bw - 2 * g = b - 2 * bw
        /\ w - mw - 2 * bw - 2 * g = c - 2 * bw
    BY <1>2, <1>3, Sizes
  <2> QED  BY <2>1
<1>5. a \in Int /\ b \in Int /\ c \in Int /\ x \in Int /\ g \in Int /\ b >= least
  BY <1>2, <1>3, Sizes
<1>6. /\ n > m.nmaster => x + Larger(least, c) <= w
      /\ m.nmaster > 0 /\ n > 0 => g + Larger(least, a) <= x
      /\ g + b <= h /\ x <= w /\ (n > m.nmaster => x >= 0)
  <2>1. n > m.nmaster => x + Larger(least, c) <= w
    BY <1>2, Columns
  <2>2. m.nmaster > 0 /\ n > 0 => g + Larger(least, a) <= x
    BY <1>2, Columns
  <2>3. g + b <= h /\ x <= w /\ (n > m.nmaster => x >= 0)
    BY <1>2, <1>3, Sizes
  <2> QED  BY <2>1, <2>2, <2>3
<1> HIDE DEF a, b, c, x, master, other
<1>b. b = Larger(least, b)
  BY <1>5, Sizes, LargerIs
<1>7. /\ master \in Rect /\ master.x = g /\ master.y = g
      /\ master.w = Larger(least, a) /\ master.h = b
  <2>1. Covers(master, g, g, a, b)
    BY <1>4, <1>5, PlaceIs
  <2> QED  BY <1>b, <2>1 DEF Covers
<1>8. /\ other \in Rect /\ other.x = x /\ other.y = g
      /\ other.w = Larger(least, c) /\ other.h = b
  <2>1. Covers(other, x, g, c, b)
    BY <1>a, <1>5, PlaceIs
  <2> QED  BY <1>b, <2>1 DEF Covers
<1>9. ASSUME NEW k \in 1..n, k - 1 < m.nmaster
      PROVE  q[k] = master /\ Within(master, w, h) /\ m.nmaster > 0 /\ n > 0
  <2>1. m.nmaster > 0 /\ n > 0 /\ q[k] = master
    BY <1>1, <1>3, <1>9
  <2>2. master.x + master.w \in Int /\ master.x + master.w <= x
    BY <1>6, <1>7, <2>1 DEF Rect
  <2>3. master.x + master.w <= w /\ master.y + master.h <= h
    BY <1>2, <1>5, <1>6, <1>7, <2>2
  <2> QED  BY <1>2, <1>7, <2>1, <2>3 DEF Within
<1>10. ASSUME NEW k \in 1..n, ~(k - 1 < m.nmaster)
       PROVE  q[k] = other /\ Within(other, w, h) /\ n > m.nmaster
  <2>1. n > m.nmaster /\ q[k] = other
    BY <1>1, <1>3, <1>10
  <2> QED  BY <1>2, <1>6, <1>8, <2>1 DEF Within
<1>11. ASSUME NEW j \in 1..n, NEW k \in 1..n, j < k
       PROVE  Apart(q[j], q[k], TRUE)
  <2>1. CASE k - 1 < m.nmaster \/ ~(j - 1 < m.nmaster)
    <3>1. q[j] = q[k]
      BY <1>1, <1>11, <2>1
    <3> QED  BY <3>1 DEF Apart, Same
  <2>2. CASE j - 1 < m.nmaster /\ ~(k - 1 < m.nmaster)
    <3>1. q[j] = master /\ q[k] = other /\ m.nmaster > 0 /\ n > 0
      BY <1>9, <1>10, <2>2
    <3>2. master.x + master.w <= other.x
      BY <1>6, <1>7, <1>8, <3>1
    <3> QED  BY <3>1, <3>2 DEF Apart, Disjoint
  <2> QED  BY <2>1, <2>2
<1>12. \A k \in 1..n : q[k] \in Rect /\ Within(q[k], w, h)
  BY <1>7, <1>8, <1>9, <1>10
<1>13. LaidOut(q, n, w, h, TRUE)
  BY <1>1, <1>11, <1>12 DEF LaidOut
<1> QED  BY <1>13 DEF q, n

-----------------------------------------------------------------------------
(* tile, and bstack with gaps.                                             *)

\* What r windows and the gaps behind them need.
Need(r, g) == r * (least + g)

TileState == [my : Int, ty : Int, ms : Rect, places : Seq(Rect), low : Int]

\* The first i of n windows are placed, k of the n are masters: those in the
\* column that ends at x, one below the other, the rest behind x.  There is
\* room for the masters to come, and below the others for smh.
Tiling(s, i, w, h, g, n, k, x, smh) ==
    /\ s \in TileState /\ Len(s.places) = i /\ s.low >= 0
    /\ i < k => s.my >= 0 /\ h - s.my >= Need(k - i, g)
    /\ i < n => s.ty >= 0 /\ h - s.ty >= smh
    /\ \A j \in 1..i : LET p == s.places[j] IN
           p.fits => /\ Within(p, w, h)
                     /\ j <= k => (n > k => p.x + p.w <= x) /\ (i < k => p.y + p.h <= s.my)
                     /\ j > k => p.x >= x /\ (i < n => p.y + p.h <= s.ty)
    /\ \A j, l \in 1..i : LET p == s.places[j] q == s.places[l] IN
           j < l /\ (l <= k \/ j > k) /\ p.fits /\ q.fits => p.y + p.h <= q.y

LEMMA RectIs ==
    ASSUME NEW p \in Rect
    PROVE  /\ p.x \in Int /\ p.y \in Int /\ p.w \in Int /\ p.h \in Int /\ p.fits \in BOOLEAN
           /\ p.x + p.w \in Int /\ p.y + p.h \in Int
<1>1. p.x \in Int /\ p.y \in Int /\ p.w \in Int /\ p.h \in Int /\ p.fits \in BOOLEAN
  BY DEF Rect
<1> QED  BY <1>1

LEMMA AppendIs ==
    ASSUME NEW S, NEW a \in Seq(S), NEW e \in S, NEW b, b = Append(a, e)
    PROVE  /\ b \in Seq(S) /\ Len(b) = Len(a) + 1 /\ b[Len(a) + 1] = e
           /\ \A j \in 1..Len(a) : b[j] = a[j] /\ a[j] \in S
OBVIOUS

\* A place more.
LEMMA AddPlace ==
    ASSUME NEW s, NEW t, NEW i \in Nat, NEW w \in Int, NEW h \in Int, NEW g \in Int,
           NEW n \in Nat, NEW k \in Nat, NEW x \in Int, NEW smh \in Int, i < n,
           Tiling(s, i, w, h, g, n, k, x, smh), t \in TileState, t.low >= 0,
           NEW p \in Rect, t.places = Append(s.places, p),
           i + 1 < k => t.my >= s.my /\ h - t.my >= Need(k - (i + 1), g),
           i + 1 < n => t.ty >= s.ty /\ h - t.ty >= smh,
           p.fits => Within(p, w, h),
           p.fits /\ i < k => /\ p.y >= s.my /\ (n > k => p.x + p.w <= x)
                              /\ i + 1 < k => p.y + p.h <= t.my,
           p.fits /\ i >= k => /\ p.y >= s.ty /\ p.x >= x
                               /\ i + 1 < n => p.y + p.h <= t.ty
    PROVE  Tiling(t, i + 1, w, h, g, n, k, x, smh)
<1> DEFINE a == s.places
           b == t.places
<1>1. /\ a \in Seq(Rect) /\ Len(a) = i /\ s.my \in Int /\ s.ty \in Int
      /\ t.my \in Int /\ t.ty \in Int
  BY DEF Tiling, TileState
<1>2. Len(b) = i + 1 /\ b[i + 1] = p /\ \A j \in 1..i : b[j] = a[j]
  <2>1. b = Append(a, p)
    OBVIOUS
  <2> HIDE DEF a, b
  <2>2. /\ Len(b) = Len(a) + 1 /\ b[Len(a) + 1] = p
        /\ \A j \in 1..Len(a) : b[j] = a[j] /\ a[j] \in Rect
    BY SMTT(30), <1>1, <2>1, AppendIs
  <2> QED  BY <1>1, <2>2
<1>3. \A j \in 1..(i + 1) : j \in 1..i \/ j = i + 1
  OBVIOUS
<1>4. \A j \in 1..i : a[j] \in Rect
  BY <1>1
<1> HIDE DEF a, b
<1>5. /\ i + 1 < k => t.my >= 0
      /\ i + 1 < n => t.ty >= 0
  BY SMTT(30), <1>1 DEF Tiling
<1>6. ASSUME NEW j \in 1..i, a[j].fits
      PROVE  /\ Within(a[j], w, h)
             /\ j <= k => (n > k => a[j].x + a[j].w <= x) /\ (i < k => a[j].y + a[j].h <= s.my)
             /\ j > k => a[j].x >= x /\ a[j].y + a[j].h <= s.ty
             /\ a[j].y + a[j].h \in Int
  <2>1. a[j].y + a[j].h \in Int
    BY <1>4, RectIs
  <2>2. /\ i < n
        /\ \A y \in 1..i : LET q == a[y] IN
           q.fits => /\ Within(q, w, h)
                     /\ y <= k => (n > k => q.x + q.w <= x) /\ (i < k => q.y + q.h <= s.my)
                     /\ y > k => q.x >= x /\ (i < n => q.y + q.h <= s.ty)
    BY DEF Tiling, a
  <2> QED  BY <1>6, <2>1, <2>2
<1>7. ASSUME NEW j \in 1..(i + 1), b[j].fits
      PROVE  /\ Within(b[j], w, h)
             /\ j <= k => /\ n > k => b[j].x + b[j].w <= x
                          /\ i + 1 < k => b[j].y + b[j].h <= t.my
             /\ j > k => /\ b[j].x >= x
                         /\ i + 1 < n => b[j].y + b[j].h <= t.ty
  <2>1. CASE j \in 1..i
    <3>1. b[j] = a[j]
      BY <1>2, <2>1
    <3> DEFINE e == a[j].y + a[j].h
    <3>2. /\ a[j].fits /\ Within(a[j], w, h)
          /\ j <= k => (n > k => a[j].x + a[j].w <= x) /\ (i < k => e <= s.my)
          /\ j > k => a[j].x >= x /\ e <= s.ty
          /\ e \in Int
      BY <1>6, <1>7, <2>1, <3>1
    <3> HIDE DEF e
    <3>3. i + 1 < k => t.my >= s.my /\ i < k
      OBVIOUS
    <3>4. j <= k /\ i + 1 < k => e <= t.my
      BY SMTT(30), <1>1, <3>2, <3>3
    <3>5. j > k /\ i + 1 < n => e <= t.ty
      BY <1>1, <3>2
    <3> QED  BY <3>1, <3>2, <3>4, <3>5 DEF e
  <2>2. CASE j = i + 1
    BY <1>2, <1>7, <2>2
  <2> QED  BY <1>3, <2>1, <2>2
<1>8. ASSUME NEW j \in 1..(i + 1), NEW l \in 1..(i + 1), j < l, l <= k \/ j > k,
             b[j].fits, b[l].fits
      PROVE  b[j].y + b[j].h <= b[l].y
  <2>1. j \in 1..i /\ b[j] = a[j]
    BY <1>2, <1>3, <1>8
  <2>2. CASE l \in 1..i
    <3>1. b[l] = a[l]
      BY <1>2, <2>2
    <3> QED  BY <1>8, <2>1, <2>2, <3>1 DEF Tiling, a
  <2>3. CASE l = i + 1
    <3>1. b[l] = p /\ p.y \in Int /\ p.fits
      BY <1>2, <1>8, <2>3, RectIs
    <3> DEFINE e == a[j].y + a[j].h
    <3>2. /\ j <= k /\ i < k => e <= s.my
          /\ j > k => e <= s.ty
          /\ e \in Int
      BY <1>6, <1>8, <2>1
    <3> HIDE DEF e
    <3>3. CASE i < k
      <4>1. p.y >= s.my /\ j <= k
        BY <2>1, <3>1, <3>3
      <4>2. e <= p.y
        BY <1>1, <3>1, <3>2, <3>3, <4>1
      <4> QED  BY <2>1, <3>1, <4>2 DEF e
    <3>4. CASE i >= k
      <4>1. p.y >= s.ty /\ j > k
        BY <1>8, <2>3, <3>1, <3>4
      <4>2. e <= p.y
        BY <1>1, <3>1, <3>2, <4>1
      <4> QED  BY <2>1, <3>1, <4>2 DEF e
    <3> QED  BY <3>3, <3>4
  <2> QED  BY <1>3, <2>2, <2>3
<1> QED  BY <1>2, <1>5, <1>7, <1>8 DEF Tiling, b

\* The height of a master: at least what a window needs, and as much remains
\* for each of the others.
LEMMA MasterShare ==
    ASSUME NEW h \in Int, NEW my \in Int, NEW k \in Nat, k > 0, NEW g \in Nat,
           bh > 0, h - my >= Need(k, g)
    PROVE  LET mine == (h - my) \div k - g
           IN  /\ mine \in Int /\ mine >= least /\ my + mine + g <= h
               /\ k > 1 => my + mine + g < h /\ h - (my + mine + g) >= Need(k - 1, g)
<1> DEFINE a == h - my
           d == a \div k
           c == least + g
<1>1. a \in Int /\ c \in Nat /\ c > 0 /\ a >= k * c
  BY Sizes DEF least, Need
<1> HIDE DEF a, c
<1>2. d \in Nat /\ d >= c /\ d <= a /\ a - d >= (k - 1) * c
  BY <1>1, Share
<1>3. k > 1 => (k - 1) * c > 0
  BY <1>1
<1>4. (k - 1) * c \in Int
  BY <1>1
<1> HIDE DEF d
<1>5. /\ d - g \in Int /\ d - g >= least /\ my + (d - g) + g = my + d
  BY <1>2, Sizes DEF c
<1>6. my + d <= h /\ h - (my + d) = a - d
  BY <1>1, <1>2 DEF a
<1>7. k > 1 => my + d < h
  BY <1>1, <1>2, <1>3, <1>4, <1>6
<1> QED  BY <1>2, <1>5, <1>6, <1>7 DEF a, d, c, Need

\* The height of another window: what remains below it is enough for smh.
LEMMA OtherShare ==
    ASSUME NEW room \in Nat, NEW r \in Nat, r > 0, NEW g \in Nat, NEW part,
           part = room \div r - g
    PROVE  part \in Int /\ part + g <= room
<1> DEFINE d == room \div r
<1>1. room >= r * 0
  OBVIOUS
<1>2. d \in Nat /\ d <= room
  BY <1>1, Share
<1> HIDE DEF d
<1>3. d - g \in Int /\ (d - g) + g <= room
  BY <1>2
<1> QED  BY <1>3 DEF d

LEMMA Minimum ==
    ASSUME Roomy
    PROVE  minwsz \in Nat /\ minwsz >= least /\ minwsz > 0 /\ bh > 0
<1>1. bh > 0 /\ bh + 2 * vertgappx >= 2 * bw
  BY DEF Roomy
<1>2. bh \in Nat /\ bw \in Nat /\ vertgappx \in Nat
  BY Sizes
<1> QED  BY <1>1, <1>2 DEF minwsz, least

\* The state after a step.
StepTo(s, t, p, ms, my, ty, low) ==
    t = [s EXCEPT !.ms = ms, !.places = Append(s.places, p), !.my = my,
                  !.ty = ty, !.low = low]

Stepped(s, t, p, ms, my, ty, low) ==
    /\ t \in TileState /\ t.places = Append(s.places, p) /\ t.ms = ms
    /\ t.my = my /\ t.ty = ty /\ t.low = low

LEMMA StepFields ==
    ASSUME NEW s \in TileState, NEW p \in Rect, NEW ms \in Rect, NEW my \in Int,
           NEW ty \in Int, NEW low \in Int, NEW t, StepTo(s, t, p, ms, my, ty, low)
    PROVE  Stepped(s, t, p, ms, my, ty, low)
<1> DEFINE q == Append(s.places, p)
<1>1. q \in Seq(Rect)
  BY DEF TileState
<1>2. t = [s EXCEPT !.ms = ms, !.places = q, !.my = my, !.ty = ty, !.low = low]
  BY DEF StepTo
<1> HIDE DEF q
<1>3. t \in TileState /\ t.places = q /\ t.ms = ms /\ t.my = my /\ t.ty = ty /\ t.low = low
  BY <1>1, <1>2 DEF TileState
<1> QED  BY <1>3 DEF q, Stepped

\* A window in the first column, of which r are to be placed, and where the
\* next one begins.
Below(p, y, a, g, w, h, my, z, r) ==
    /\ p \in Rect /\ p.y = y /\ Within(p, w, h) /\ my \in Int
    /\ p.x + p.w = g + Larger(least, a)
    /\ r > 1 => my >= y /\ h - my >= z /\ p.y + p.h <= my

LEMMA MasterColumn ==
    ASSUME NEW y \in Int, NEW a \in Int, NEW mine \in Int, NEW g \in Nat, NEW h \in Int,
           NEW w \in Int, NEW z \in Int, NEW r \in Nat,
           y >= 0, mine >= least, y + mine + g <= h, g + Larger(least, a) <= w,
           r > 1 => y + mine + g < h /\ h - (y + mine + g) >= z,
           NEW p, Covers(p, g, y, a, mine),
           NEW gaps, NEW my, my = IF gaps /\ y + p.h + g >= h THEN y ELSE y + p.h + g
    PROVE  Below(p, y, a, g, w, h, my, z, r)
<1>1. mine = Larger(least, mine) /\ least \in Nat
  BY Sizes, LargerIs
<1>2. p \in Rect /\ p.x = g /\ p.y = y /\ p.h = mine /\ p.w = Larger(least, a)
  BY <1>1 DEF Covers
<1> DEFINE v == Larger(least, a)
<1>3. v \in Int
  BY <1>1, LargerIs
<1> HIDE DEF v
<1>4. Within(p, w, h) /\ p.x + p.w = g + v
  BY <1>2, <1>3 DEF Within, v
<1>5. my = IF gaps /\ y + mine + g >= h THEN y ELSE y + mine + g
  BY <1>2
<1>6. my \in Int
  BY <1>5
<1>7. r > 1 => my = y + mine + g
  BY <1>5
<1>8. r > 1 => my >= y /\ h - my >= z /\ p.y + p.h <= my
  BY <1>1, <1>2, <1>7
<1> QED  BY <1>2, <1>4, <1>6, <1>8 DEF v, Below

\* What a window adds to the first column.
Mine(s, i, h, g, k) == (h - s.my) \div (k - i) - g

LEMMA TileMaster ==
    ASSUME NEW s, NEW t, NEW i \in Nat, NEW w \in Nat, NEW h \in Nat, NEW g \in Nat,
           NEW n \in Nat, NEW k \in Nat, NEW x \in Int, NEW smh \in Nat, i < k, k <= n,
           Tiling(s, i, w, h, g, n, k, x, smh), bh > 0, NEW a \in Int,
           g + Larger(least, a) <= w, n > k => g + Larger(least, a) <= x,
           NEW p, p = Place(g, s.my, a - 2 * bw, Mine(s, i, h, g, k) - 2 * bw, TRUE),
           NEW gaps, NEW my,
           my = IF gaps /\ s.my + p.h + g >= h THEN s.my ELSE s.my + p.h + g,
           StepTo(s, t, p, p, my, s.ty, s.low)
    PROVE  Tiling(t, i + 1, w, h, g, n, k, x, smh)
<1> DEFINE y == s.my
           r == k - i
           z == Need(r - 1, g)
           mine == Mine(s, i, h, g, k)
<1>1. /\ s \in TileState /\ s.ms \in Rect /\ y \in Int /\ s.ty \in Int /\ s.low \in Int
      /\ s.low >= 0
  BY DEF Tiling, TileState
<1>2. r \in Nat /\ r > 0 /\ i < n /\ r - 1 = k - (i + 1) /\ (i + 1 < k => r > 1)
  OBVIOUS
<1>t. w \in Int /\ h \in Int /\ g \in Int /\ smh \in Int
  OBVIOUS
<1>3. y >= 0 /\ h - y >= Need(r, g) /\ s.ty >= 0 /\ h - s.ty >= smh
  BY <1>2 DEF Tiling
<1>a. z \in Int
  BY <1>2, Sizes DEF Need
<1>b. mine = (h - y) \div r - g
  BY DEF Mine
<1>c. Place(g, y, a - 2 * bw, mine - 2 * bw, TRUE) = p
  OBVIOUS
<1>d. my = IF gaps /\ y + p.h + g >= h THEN y ELSE y + p.h + g
  OBVIOUS
<1>f. z = Need(k - (i + 1), g)
  BY <1>2
<1> HIDE DEF y, r, mine
<1>4. /\ mine \in Int /\ mine >= least /\ y + mine + g <= h
      /\ r > 1 => y + mine + g < h /\ h - (y + mine + g) >= z
  BY <1>1, <1>2, <1>3, <1>b, <1>t, MasterShare
<1> HIDE DEF z
<1>5. Covers(p, g, y, a, mine)
  <2>1. Covers(Place(g, y, a - 2 * bw, mine - 2 * bw, TRUE), g, y, a, mine)
    BY <1>1, <1>4, <1>t, PlaceIs
  <2> QED  BY <2>1, <1>c
<1>6. /\ p \in Rect /\ p.y = y /\ Within(p, w, h) /\ my \in Int
      /\ p.x + p.w = g + Larger(least, a)
      /\ r > 1 => my >= y /\ h - my >= z /\ p.y + p.h <= my
  <2>1. Below(p, y, a, g, w, h, my, z, r)
    BY <1>1, <1>2, <1>3, <1>4, <1>5, <1>a, <1>d, <1>t, MasterColumn
  <2> QED  BY <2>1 DEF Below
<1>7. n > k => p.x + p.w <= x
  BY <1>6
<1>14. /\ t \in TileState /\ t.places = Append(s.places, p) /\ t.my = my
       /\ t.ty = s.ty /\ t.low = s.low
  <2>1. p \in Rect /\ my \in Int /\ s.ty \in Int /\ s.low \in Int /\ s \in TileState
    BY <1>1, <1>6
  <2>2. Stepped(s, t, p, p, my, s.ty, s.low)
    BY <2>1, StepFields
  <2> QED  BY <2>2 DEF Stepped
<1>15. i + 1 < k => t.my >= s.my /\ h - t.my >= Need(k - (i + 1), g)
  BY <1>2, <1>6, <1>14, <1>f DEF y
<1>16. i + 1 < k => p.y + p.h <= t.my
  BY <1>2, <1>6, <1>14
<1>17. i + 1 < n => t.ty >= s.ty /\ h - t.ty >= smh
  BY <1>1, <1>3, <1>14
<1>18. p.y >= s.my /\ ~(i >= k)
  <2>1. ~(i >= k)
    OBVIOUS
  <2>2. p.y = y
    BY <1>6
  <2>3. y >= y
    BY <1>1
  <2> QED  BY <2>1, <2>2, <2>3 DEF y
<1>19. t.low >= 0
  <2>1. s.low >= 0 /\ t.low = s.low
    BY <1>1, <1>14
  <2> QED  BY <2>1
<1>20. t.places = Append(s.places, p) /\ t \in TileState /\ p \in Rect
  BY <1>6, <1>14
<1> QED  BY <1>2, <1>6, <1>7, <1>15, <1>16, <1>17, <1>18, <1>19, <1>20, <1>t, AddPlace

\* A window for which there is no room adds nothing to check.
LEMMA TileNone ==
    ASSUME NEW s, NEW t, NEW i \in Nat, NEW w \in Int, NEW h \in Int, NEW g \in Int,
           NEW n \in Nat, NEW k \in Nat, NEW x \in Int, NEW smh \in Int, i < n, k <= i,
           Tiling(s, i, w, h, g, n, k, x, smh), NEW low \in Int, low >= 0,
           NEW p, p = [s.ms EXCEPT !.fits = FALSE],
           StepTo(s, t, p, s.ms, s.my, s.ty, low)
    PROVE  Tiling(t, i + 1, w, h, g, n, k, x, smh)
<1>1. s \in TileState /\ s.ms \in Rect /\ s.my \in Int /\ s.ty \in Int
  BY DEF Tiling, TileState
<1>2. p \in Rect /\ p.fits = FALSE
  BY <1>1 DEF Rect
<1>3. Stepped(s, t, p, s.ms, s.my, s.ty, low)
  BY <1>1, <1>2, StepFields
<1>4. t \in TileState /\ t.places = Append(s.places, p) /\ t.ty = s.ty /\ t.low = low
  BY <1>3 DEF Stepped
<1>5. t.low >= 0
  BY <1>4
<1>6. ~(i + 1 < k)
  OBVIOUS
<1>7. i + 1 < n => t.ty >= s.ty /\ h - t.ty >= smh
  <2>1. h - s.ty >= smh
    BY DEF Tiling
  <2> QED  BY <1>1, <1>4, <2>1
<1> QED  BY <1>2, <1>4, <1>5, <1>6, <1>7, AddPlace

\* The room there is for a window in the second column, and where the next one
\* begins.
Roomed(s, y, h, g, smh, last, room, part) ==
    /\ room \in Nat /\ part \in Int /\ y + part + g <= h
    /\ ~last => h - (y + part + g) >= smh
    /\ part >= minwsz => /\ part >= least /\ TileNext(s, part, smh, last, g) \in Int
                         /\ ~last => TileNext(s, part, smh, last, g) = y + part + g

LEMMA OtherRoom ==
    ASSUME Roomy, NEW s, NEW y \in Int, s.ty = y, NEW h \in Int, NEW g \in Nat,
           NEW smh \in Nat, h - y >= smh, NEW r \in Nat, r > 0, NEW last, NEW room,
           room = h - y - (IF last THEN 0 ELSE smh), NEW part, part = room \div r - g
    PROVE  Roomed(s, y, h, g, smh, last, room, part)
<1>1. room \in Nat /\ room <= h - y /\ (~last => room = h - y - smh)
  OBVIOUS
<1>2. part \in Int /\ part + g <= room
  BY <1>1, OtherShare
<1>3. y + part + g <= h /\ (~last => h - (y + part + g) >= smh)
  BY <1>1, <1>2
<1>4. ASSUME part >= minwsz
      PROVE  /\ part >= least /\ TileNext(s, part, smh, last, g) \in Int
             /\ ~last => TileNext(s, part, smh, last, g) = y + part + g
  <2> DEFINE d == Larger(bh, part - 2 * bw)
             e == IF last THEN smh ELSE 0
  <2>1. part >= least
    BY <1>2, <1>4, Minimum, Sizes
  <2>2. d \in Int /\ d + 2 * bw = part
    BY <1>2, <2>1, Sizes DEF least, Larger
  <2>3. TileNext(s, part, smh, last, g) = y + d + 2 * bw + e + g
    BY DEF TileNext
  <2>4. e \in Int /\ (~last => e = 0)
    OBVIOUS
  <2> HIDE DEF d, e
  <2>5. y + d + 2 * bw + e + g = y + part + e + g
    BY <1>2, <2>2, <2>4, Sizes
  <2> QED  BY <1>2, <2>1, <2>3, <2>4, <2>5
<1> QED  BY <1>1, <1>2, <1>3, <1>4 DEF Roomed

LEMMA TileOther ==
    ASSUME NEW s, NEW t, NEW i \in Nat, NEW w \in Int, NEW h \in Int, NEW g \in Nat,
           NEW n \in Nat, NEW k \in Nat, NEW x \in Int, NEW smh \in Int, i < n, k <= i,
           Tiling(s, i, w, h, g, n, k, x, smh), x >= 0, NEW a \in Int,
           x + Larger(least, a) <= w, NEW part \in Int, part >= least,
           s.ty + part + g <= h, NEW p, Covers(p, x, s.ty, a, part),
           NEW ty \in Int,
           i + 1 < n => ty = s.ty + part + g /\ h - (s.ty + part + g) >= smh,
           NEW low \in Int, low >= 0, StepTo(s, t, p, s.ms, s.my, ty, low)
    PROVE  Tiling(t, i + 1, w, h, g, n, k, x, smh)
<1> DEFINE y == s.ty
<1>1. /\ s \in TileState /\ s.ms \in Rect /\ s.my \in Int /\ y \in Int /\ y >= 0
  BY DEF Tiling, TileState
<1>2. g \in Int /\ ~(i + 1 < k) /\ ~(i < k) /\ i >= k
  OBVIOUS
<1>a. y + part + g <= h /\ Covers(p, x, y, a, part)
  OBVIOUS
<1>b. i + 1 < n => ty = y + part + g /\ h - ty >= smh
  OBVIOUS
<1> HIDE DEF y
<1>3. part = Larger(least, part) /\ least \in Nat
  BY Sizes, LargerIs
<1>4. p \in Rect /\ p.x = x /\ p.y = y /\ p.h = part /\ p.w = Larger(least, a)
  BY <1>3, <1>a DEF Covers
<1>5. Within(p, w, h)
  <2>1. y + part <= h
    BY <1>1, <1>a
  <2> QED  BY <1>1, <1>4, <2>1 DEF Within
<1>9. Stepped(s, t, p, s.ms, s.my, ty, low)
  BY <1>1, <1>4, StepFields
<1>10. t \in TileState /\ t.places = Append(s.places, p) /\ t.ty = ty /\ t.low = low
  BY <1>9 DEF Stepped
<1>11. t.low >= 0
  BY <1>10
<1>12. i + 1 < n => t.ty >= s.ty /\ h - t.ty >= smh
  <2>1. i + 1 < n => ty >= y /\ h - ty >= smh
    BY <1>1, <1>3, <1>b
  <2> QED  BY <1>10, <2>1 DEF y
<1>13. p.y >= s.ty /\ p.x >= x
  <2>1. p.y >= y /\ p.x >= x
    BY <1>1, <1>4
  <2> QED  BY <2>1 DEF y
<1>14. i + 1 < n => p.y + p.h <= t.ty
  BY <1>1, <1>4, <1>10, <1>b
<1> QED  BY <1>2, <1>4, <1>5, <1>10, <1>11, <1>12, <1>13, <1>14, AddPlace

\* The loop of tile as it is called for the settings m.
Tiles(m, w, h, full, s, i) ==
    Tiling(s, i, w, h, Gap(m), m.n, Smaller(m.n, m.nmaster), Split(m, w) + Gap(m),
           Percent(full, m.smfact))
RoomToTile(m, w, h, full) ==
    /\ RoomFor(m, w) /\ RoomFor(m, h) /\ RoomToSplit(m, w) /\ RoomBehind(m, h, full)
    /\ Gap(m) \in Nat /\ m.n \in Nat /\ m.nmaster \in Nat
    /\ Percent(full, m.smfact) \in Nat

LEMMA TileStepIs ==
    ASSUME Roomy, NEW m \in Settings, NEW w, NEW h, NEW full, RoomToTile(m, w, h, full),
           NEW s, NEW i \in Nat, i < m.n, Tiles(m, w, h, full, s, i)
    PROVE  Tiles(m, w, h, full, TileStep(m, w, h, full, s, i), i + 1)
<1> DEFINE g == Gap(m)
           n == m.n
           k == Smaller(m.n, m.nmaster)
           mw == Split(m, w)
           x == mw + g
           smh == Percent(full, m.smfact)
           t == TileStep(m, w, h, full, s, i)
           maxn == (h - g) \div (g + minwsz) + m.nmaster
           last == (i = m.n - 1)
           room == h - s.ty - (IF last THEN 0 ELSE smh)
           r == Smaller(m.n, maxn) - i
           part == room \div (Smaller(m.n, maxn) - i) - g
           mine == (h - s.my) \div (Smaller(m.n, m.nmaster) - i) - g
           master == Place(g, s.my, mw - 2 * bw - g, mine - 2 * bw, TRUE)
           other == Place(mw + g, s.ty, w - mw - 2 * bw - 2 * g, part - 2 * bw, TRUE)
           none == [s.ms EXCEPT !.fits = FALSE]
           a == mw - g
           b == w - mw - 2 * g
           my == IF m.drawwithgaps /\ s.my + master.h + g >= h THEN s.my
                 ELSE s.my + master.h + g
           ty == TileNext(s, part, smh, last, g)
           low == Smaller(s.low, room)
           A == [s EXCEPT !.ms = master, !.places = Append(@, master), !.my = my]
           B == [s EXCEPT !.places = Append(@, none)]
           C == [s EXCEPT !.places = Append(@, none), !.low = Smaller(@, room)]
           D == [s EXCEPT !.places = Append(@, other), !.ty = ty, !.low = Smaller(@, room)]
<1>1. t = IF i < m.nmaster THEN A ELSE IF i >= maxn THEN B
          ELSE IF part < minwsz \/ part < 2 * bw THEN C ELSE D
  BY DEF TileStep, Split
<1>2. /\ s \in TileState /\ s.low \in Int /\ s.low >= 0
      /\ s = [my |-> s.my, ty |-> s.ty, ms |-> s.ms, places |-> s.places, low |-> s.low]
  BY DEF Tiles, Tiling, TileState
<1>3. low = Smaller(s.low, room)
  OBVIOUS
<1>4. Tiling(s, i, w, h, g, n, k, x, smh) /\ n \in Nat /\ i < n
  BY DEF Tiles, RoomToTile
<1>5. /\ g \in Nat /\ smh \in Nat /\ RoomFor(m, w) /\ h \in Nat /\ m.nmaster \in Nat
      /\ maxn = (h - g) \div (g + minwsz) + m.nmaster
      /\ r = Smaller(n, maxn) - i /\ k = Smaller(n, m.nmaster)
  BY DEF RoomToTile, RoomFor, RoomBehind
<1>6. /\ mw \in Int /\ w \in Nat /\ mw + g <= w /\ least + 2 * g <= w
      /\ m.nmaster > 0 /\ n > 0 => mw >= least
      /\ n > m.nmaster => mw + g + least <= w /\ mw >= 0
      /\ ~(n > m.nmaster) => mw = w - g
  <2>1. m.n \in Nat /\ m.nmaster \in Nat /\ Gap(m) \in Nat /\ RoomFor(m, w)
        /\ RoomToSplit(m, w)
    BY DEF RoomToTile
  <2>2. ~(n > m.nmaster) => mw = w - g
    BY DEF Split
  <2> HIDE DEF mw, g
  <2> QED  BY <2>1, <2>2, SplitIs DEF mw, g
<1>7. room = h - s.ty - (IF last THEN 0 ELSE smh) /\ part = room \div r - g
      /\ (last <=> i = n - 1)
  OBVIOUS
<1>8. /\ Place(g, s.my, a - 2 * bw, Mine(s, i, h, g, k) - 2 * bw, TRUE) = master
      /\ Place(x, s.ty, b - 2 * bw, part - 2 * bw, TRUE) = other
  <2>1. mw - 2 * bw - g = a - 2 * bw /\ w - mw - 2 * bw - 2 * g = b - 2 * bw
    BY <1>5, <1>6, Sizes
  <2> QED  BY <2>1 DEF Mine
<1>9. none = [s.ms EXCEPT !.fits = FALSE]
  OBVIOUS
<1>10. my = IF m.drawwithgaps /\ s.my + master.h + g >= h THEN s.my
            ELSE s.my + master.h + g
  OBVIOUS
<1>11. ty = TileNext(s, part, smh, last, g)
  OBVIOUS
<1>12. a \in Int /\ b \in Int /\ a = mw - g /\ b = w - mw - 2 * g /\ x = mw + g
  BY <1>5, <1>6
<1>13. Tiling(t, i + 1, w, h, g, n, k, x, smh) =>
           Tiles(m, w, h, full, TileStep(m, w, h, full, s, i), i + 1)
  BY DEF Tiles
<1> HIDE DEF g, n, k, mw, x, smh, maxn, last, room, r, part, mine, master, other, none,
             a, b, my, ty, low, t
<1>14. /\ StepTo(s, A, master, master, my, s.ty, s.low)
       /\ StepTo(s, B, none, s.ms, s.my, s.ty, s.low)
       /\ StepTo(s, C, none, s.ms, s.my, s.ty, low)
       /\ StepTo(s, D, other, s.ms, s.my, ty, low)
  BY <1>2, <1>3 DEF StepTo
<1> HIDE DEF A, B, C, D
<1>15. /\ k \in Nat /\ k <= n /\ x \in Int /\ x <= w /\ (n > k <=> n > m.nmaster)
       /\ i < m.nmaster => i < k /\ m.nmaster > 0 /\ n > 0
       /\ ~(i < m.nmaster) => k <= i /\ n > m.nmaster /\ x >= 0
  BY <1>4, <1>5, <1>6, <1>12 DEF Smaller
<1>16. w \in Int /\ h \in Int /\ g \in Int /\ smh \in Int /\ bh > 0
  BY <1>5, <1>6, Minimum
<1>17. CASE i < m.nmaster
  <2>1. t = A
    BY <1>1, <1>17
  <2>2. StepTo(s, t, master, master, my, s.ty, s.low)
    BY <1>14, <2>1
  <2>3. g + Larger(least, a) <= w /\ (n > k => g + Larger(least, a) <= x)
    <3>1. CASE n > m.nmaster
      <4>1. mw >= least
        BY <1>6, <1>15, <1>17
      <4>2. g + Larger(least, a) <= x
        BY <1>5, <1>6, <1>12, <4>1, Columns
      <4>3. Larger(least, a) \in Int
        BY <1>12, Sizes, LargerIs
      <4> QED  BY <1>5, <1>6, <1>15, <4>2, <4>3
    <3>2. CASE ~(n > m.nmaster)
      <4>1. a = w - g - g
        BY <1>6, <1>12, <3>2
      <4>2. g + Larger(least, w - g - g) <= w
        BY <1>5, <1>6, Columns
      <4> QED  BY <1>15, <3>2, <4>1, <4>2
    <3> QED  BY <3>1, <3>2
  <2>4. i < k
    BY <1>15, <1>17
  <2>5. Tiling(t, i + 1, w, h, g, n, k, x, smh)
    BY <1>4, <1>5, <1>6, <1>8, <1>10, <1>12, <1>15, <1>16, <2>2, <2>3, <2>4, TileMaster
  <2> QED  BY <1>13, <2>5
<1>18. CASE ~(i < m.nmaster) /\ i >= maxn
  <2>1. StepTo(s, t, none, s.ms, s.my, s.ty, s.low)
    BY <1>1, <1>14, <1>18
  <2>2. k <= i
    BY <1>15, <1>18
  <2>3. Tiling(t, i + 1, w, h, g, n, k, x, smh)
    BY <1>2, <1>4, <1>9, <1>15, <1>16, <2>1, <2>2, TileNone
  <2> QED  BY <1>13, <2>3
<1>19. CASE ~(i < m.nmaster) /\ ~(i >= maxn)
  <2>1. k <= i /\ n > m.nmaster /\ x >= 0
    BY <1>15, <1>19
  <2>2. r \in Nat /\ r > 0
    <3>1. g + minwsz \in Nat /\ g + minwsz > 0
      BY <1>5, Minimum
    <3>2. (h - g) \div (g + minwsz) \in Int
      <4> DEFINE d == g + minwsz
      <4> HIDE DEF d
      <4>1. d \in Nat /\ d > 0
        BY <3>1 DEF d
      <4>2. (h - g) \div d \in Int
        BY <1>5, <4>1
      <4> QED  BY <4>2 DEF d
    <3>3. maxn \in Int
      BY <1>5, <3>2
    <3> QED  BY <1>4, <1>5, <1>19, <3>3 DEF Smaller
  <2>3. s.ty \in Int /\ h - s.ty >= smh
    BY <1>4 DEF Tiling, TileState
  <2>4. /\ room \in Nat /\ part \in Int /\ s.ty + part + g <= h
        /\ ~last => h - (s.ty + part + g) >= smh
        /\ part >= minwsz => /\ part >= least /\ TileNext(s, part, smh, last, g) \in Int
                             /\ ~last => TileNext(s, part, smh, last, g) = s.ty + part + g
    <3>1. room = h - s.ty - (IF last THEN 0 ELSE smh) /\ part = room \div r - g
      BY <1>7
    <3>2. Roomed(s, s.ty, h, g, smh, last, room, part)
      BY <1>5, <1>16, <2>2, <2>3, <3>1, OtherRoom
    <3> QED  BY <3>2 DEF Roomed
  <2>5. low \in Int /\ low >= 0
    BY <1>2, <1>3, <2>4 DEF Smaller
  <2>6. CASE part < minwsz \/ part < 2 * bw
    <3>1. StepTo(s, t, none, s.ms, s.my, s.ty, low)
      BY <1>1, <1>14, <1>19, <2>6
    <3>2. Tiling(t, i + 1, w, h, g, n, k, x, smh)
      BY <1>4, <1>9, <1>15, <1>16, <2>1, <2>5, <3>1, TileNone
    <3> QED  BY <1>13, <3>2
  <2>7. CASE ~(part < minwsz \/ part < 2 * bw)
    <3>1. StepTo(s, t, other, s.ms, s.my, ty, low)
      BY <1>1, <1>14, <1>19, <2>7
    <3>2. part >= minwsz
      BY <2>4, <2>7, Minimum
    <3>3. ty \in Int /\ part >= least /\ (i + 1 < n => ty = s.ty + part + g)
      BY <1>4, <1>7, <1>11, <2>4, <3>2
    <3>4. i + 1 < n => h - (s.ty + part + g) >= smh
      BY <1>4, <1>7, <2>4
    <3>5. x + Larger(least, b) <= w
      BY <1>5, <1>6, <1>12, <2>1, Columns
    <3>6. Covers(other, x, s.ty, b, part)
      <4>1. Covers(Place(x, s.ty, b - 2 * bw, part - 2 * bw, TRUE), x, s.ty, b, part)
        BY <1>12, <1>15, <2>3, <2>4, PlaceIs
      <4> QED  BY <1>8, <4>1
    <3>7. Tiling(t, i + 1, w, h, g, n, k, x, smh)
      BY <1>4, <1>5, <1>12, <1>15, <1>16, <2>1, <2>4, <2>5, <3>1, <3>3, <3>4, <3>5, <3>6,
         TileOther
    <3> QED  BY <1>13, <3>7
  <2> QED  BY <2>6, <2>7
<1> QED  BY <1>17, <1>18, <1>19

TileStart(m) ==
    [my |-> Gap(m), ty |-> Gap(m), ms |-> Place(0, 0, 0, 0, FALSE),
     places |-> << >>, low |-> 0]

LEMMA TileStartIs ==
    ASSUME NEW m \in Settings, NEW w, NEW h, NEW full, RoomToTile(m, w, h, full)
    PROVE  Tiles(m, w, h, full, TileStart(m), 0)
<1> DEFINE s == TileStart(m)
           g == Gap(m)
           n == m.n
           k == Smaller(m.n, m.nmaster)
           smh == Percent(full, m.smfact)
           ms == Place(0, 0, 0, 0, FALSE)
<1>1. /\ g \in Nat /\ n \in Nat /\ m.nmaster \in Nat /\ h \in Nat /\ smh \in Nat
      /\ m.nmaster * (least + g) + g <= h /\ g + smh <= h
  BY DEF RoomToTile, RoomFor, RoomBehind
<1>2. k \in Nat /\ k <= m.nmaster
  BY <1>1 DEF Smaller
<1>3. ms \in Rect
  <2>1. ms = [x |-> 0, y |-> 0, w |-> Larger(bh, 0) + 2 * bw, h |-> Larger(bh, 0) + 2 * bw,
              fits |-> FALSE]
    BY DEF Place
  <2> DEFINE d == Larger(bh, 0) + 2 * bw
  <2>2. d \in Int
    BY Sizes DEF Larger
  <2> HIDE DEF ms, d
  <2>3. ms = [x |-> 0, y |-> 0, w |-> d, h |-> d, fits |-> FALSE]
    BY <2>1 DEF d
  <2> QED  BY <2>2, <2>3 DEF Rect
<1>4. s = [my |-> g, ty |-> g, ms |-> ms, places |-> << >>, low |-> 0]
  BY DEF TileStart
<1> HIDE DEF s, g, n, k, smh, ms
<1>5. /\ s \in TileState /\ s.my = g /\ s.ty = g /\ s.low = 0 /\ s.places = << >>
  BY <1>1, <1>3, <1>4 DEF TileState
<1>6. Len(s.places) = 0
  BY <1>5
<1>7. h - g >= Need(k - 0, g)
  <2>1. k * (least + g) <= m.nmaster * (least + g)
    BY <1>1, <1>2, Sizes
  <2>2. k * (least + g) \in Int /\ m.nmaster * (least + g) \in Int /\ k - 0 = k
    BY <1>1, <1>2, Sizes
  <2> QED  BY <1>1, <2>1, <2>2 DEF Need
<1>8. h - g >= smh /\ g >= 0
  BY <1>1
<1>9. ASSUME NEW x
      PROVE  Tiling(s, 0, w, h, g, n, k, x, smh)
  <2>1. 1..0 = {}
    OBVIOUS
  <2> QED  BY <1>5, <1>6, <1>7, <1>8, <2>1 DEF Tiling
<1> QED  BY <1>9 DEF Tiles, s, g, n, k, smh

\* The loop of tile as a function of the number of steps: it exists.
LEMMA TileDefined ==
    ASSUME NEW m, NEW w, NEW h, NEW full, NEW s, NEW n \in Nat, NEW f,
           f = CHOOSE e : e = [i \in 0..n |->
                   IF i = 0 THEN s ELSE TileStep(m, w, h, full, e[i - 1], i - 1)]
    PROVE  f = [i \in 0..n |-> IF i = 0 THEN s ELSE TileStep(m, w, h, full, f[i - 1], i - 1)]
<1> DEFINE Next1(v, i) == TileStep(m, w, h, full, v, i)
           Def(e, k) == e = [i \in 0..k |-> IF i = 0 THEN s ELSE Next1(e[i - 1], i - 1)]
           Bad == {k \in Nat : \A e : ~Def(e, k)}
<1>0. f = CHOOSE e : e = [i \in 0..n |-> IF i = 0 THEN s ELSE Next1(e[i - 1], i - 1)]
  OBVIOUS
<1> SUFFICES f = [i \in 0..n |-> IF i = 0 THEN s ELSE Next1(f[i - 1], i - 1)]
  OBVIOUS
<1> HIDE DEF Next1
<1>1. Bad = {}
  <2> SUFFICES ASSUME Bad # {}
               PROVE  FALSE
    OBVIOUS
  <2>1. PICK k \in Bad : \A y \in Bad : k <= y
    <3>1. Bad \subseteq Nat
      OBVIOUS
    <3> HIDE DEF Bad
    <3> QED  BY <3>1, LeastNatural
  <2>2. k \in Nat /\ \A e : ~Def(e, k)
    BY <2>1
  <2>3. CASE k = 0
    <3> DEFINE e == [i \in 0..0 |-> s]
    <3>1. Def(e, 0)
      OBVIOUS
    <3> HIDE DEF e
    <3> QED  BY <2>2, <2>3, <3>1
  <2>4. CASE k # 0
    <3> DEFINE l == k - 1
    <3>1. l \in Nat /\ l \notin Bad
      <4> HIDE DEF Bad
      <4>1. l \in Nat /\ ~(k <= l)
        BY <2>2, <2>4
      <4> QED  BY <2>1, <4>1
    <3>2. PICK e : Def(e, l)
      BY <3>1
    <3> DEFINE d == [i \in 0..k |-> IF i = k THEN Next1(e[k - 1], k - 1) ELSE e[i]]
    <3>3. ASSUME NEW i \in 0..k
          PROVE  d[i] = IF i = 0 THEN s ELSE Next1(d[i - 1], i - 1)
      <4>1. CASE i = k
        <5>1. k - 1 \in 0..k /\ k - 1 # k /\ k # 0
          BY <2>2, <2>4
        <5> QED  BY <4>1, <5>1
      <4>2. CASE i # k
        <5>1. i \in 0..l /\ (i # 0 => i - 1 \in 0..k /\ i - 1 # k)
          BY <2>2, <4>2
        <5>2. e[i] = IF i = 0 THEN s ELSE Next1(e[i - 1], i - 1)
          <6> DEFINE u(x) == IF x = 0 THEN s ELSE Next1(e[x - 1], x - 1)
          <6>1. e = [x \in 0..l |-> u(x)]
            BY <3>2
          <6> HIDE DEF u, l
          <6>2. e[i] = u(i)
            BY <5>1, <6>1
          <6> QED  BY <6>2 DEF u
        <5>3. d[i] = e[i] /\ (i # 0 => d[i - 1] = e[i - 1])
          BY <4>2, <5>1
        <5> QED  BY <5>2, <5>3
      <4> QED  BY <4>1, <4>2
    <3>4. d = [i \in 0..k |-> d[i]]
      OBVIOUS
    <3> HIDE DEF d
    <3>5. Def(d, k)
      BY <3>3, <3>4
    <3> QED  BY <2>2, <3>5
  <2> QED  BY <2>3, <2>4
<1> HIDE DEF Def
<1>2. \E e : Def(e, n)
  BY <1>1
<1> QED  BY <1>0, <1>2 DEF Def

\* The whole loop.
LEMMA TileIs ==
    ASSUME Roomy, NEW m \in Settings, NEW w, NEW h, NEW full, RoomToTile(m, w, h, full)
    PROVE  Tiles(m, w, h, full, Tile(m, w, h, full), m.n)
<1> DEFINE n == m.n
           s == TileStart(m)
           f == CHOOSE e : e = [i \in 0..n |->
                    IF i = 0 THEN s ELSE TileStep(m, w, h, full, e[i - 1], i - 1)]
           Good(i) == Tiles(m, w, h, full, f[i], i)
           Bad == {i \in 0..n : ~Good(i)}
<1>1. Tile(m, w, h, full) = f[n]
  BY DEF Tile, TileStart
<1>2. n \in Nat
  BY DEF RoomToTile
<1>3. Tiles(m, w, h, full, s, 0)
  BY TileStartIs
<1> HIDE DEF n, s
<1>4. f = [i \in 0..n |-> IF i = 0 THEN s ELSE TileStep(m, w, h, full, f[i - 1], i - 1)]
  BY <1>2, TileDefined
<1> HIDE DEF f
<1>5. f[0] = s /\ \A i \in 1..n : f[i] = TileStep(m, w, h, full, f[i - 1], i - 1)
  <2> DEFINE u(x) == IF x = 0 THEN s ELSE TileStep(m, w, h, full, f[x - 1], x - 1)
  <2>1. f = [i \in 0..n |-> u(i)]
    BY <1>4
  <2>2. 0 \in 0..n /\ \A i \in 1..n : i \in 0..n /\ i # 0
    BY <1>2
  <2> HIDE DEF u
  <2>3. f[0] = u(0) /\ \A i \in 1..n : f[i] = u(i)
    BY <2>1, <2>2
  <2> QED  BY <2>2, <2>3 DEF u
<1>6. Bad = {}
  <2> SUFFICES ASSUME Bad # {}
               PROVE  FALSE
    OBVIOUS
  <2>1. PICK k \in Bad : \A y \in Bad : k <= y
    <3>1. Bad \subseteq Nat
      OBVIOUS
    <3> HIDE DEF Bad
    <3> QED  BY <3>1, LeastNatural
  <2>2. k \in 0..n /\ ~Good(k)
    BY <2>1
  <2>3. k # 0
    BY <1>3, <1>5, <2>2
  <2> DEFINE l == k - 1
  <2>4. l \in Nat /\ l < m.n /\ l \in 0..n /\ l + 1 = k /\ ~(k <= l) /\ k \in 1..n
    BY <1>2, <2>2, <2>3 DEF n
  <2>5. l \notin Bad
    <3> HIDE DEF Bad, l
    <3> QED  BY <2>1, <2>4
  <2>6. Tiles(m, w, h, full, f[l], l)
    BY <2>4, <2>5
  <2>7. f[k] = TileStep(m, w, h, full, f[l], l)
    BY <1>5, <2>4
  <2> HIDE DEF l
  <2>8. Tiles(m, w, h, full, TileStep(m, w, h, full, f[l], l), l + 1)
    BY <2>4, <2>6, TileStepIs
  <2> QED  BY <2>2, <2>4, <2>7, <2>8
<1>7. n \in 0..n
  BY <1>2
<1>8. Tiles(m, w, h, full, f[n], n)
  BY <1>6, <1>7
<1> QED  BY <1>1, <1>8 DEF n

\* tile: the windows are inside the area and apart, and no unsigned difference
\* wraps round.
LEMMA TileLaidOut ==
    ASSUME Roomy, NEW m \in Settings, NEW w, NEW h, NEW full, RoomToTile(m, w, h, full)
    PROVE  /\ LaidOut(Tile(m, w, h, full).places, m.n, w, h, FALSE)
           /\ Tile(m, w, h, full).low >= 0
<1> DEFINE s == Tile(m, w, h, full)
           q == s.places
           n == m.n
           k == Smaller(m.n, m.nmaster)
           x == Split(m, w) + Gap(m)
<1>1. Tiling(s, n, w, h, Gap(m), n, k, x, Percent(full, m.smfact))
  BY TileIs DEF Tiles
<1>2. n \in Nat /\ m.nmaster \in Nat /\ k \in Int /\ x \in Int
  <2>1. /\ m.n \in Nat /\ m.nmaster \in Nat /\ Gap(m) \in Nat /\ RoomFor(m, w)
        /\ RoomToSplit(m, w) /\ k \in Int
    BY DEF RoomToTile, Smaller
  <2> DEFINE mw == Split(m, w)
             g == Gap(m)
  <2> HIDE DEF mw, g, k
  <2>2. mw \in Int /\ g \in Nat
    BY <2>1, SplitIs DEF mw, g
  <2>3. mw + g \in Int
    BY <2>2
  <2> QED  BY <2>1, <2>3 DEF mw, g
<1> HIDE DEF s, k, x, n
<1>3. q \in Seq(Rect) /\ Len(q) = n /\ s.low >= 0
  BY <1>1 DEF Tiling, TileState
<1>4. DOMAIN q = 1..n /\ \A j \in 1..n : q[j] \in Rect
  BY <1>3
<1>5. ASSUME NEW j \in 1..n, q[j].fits
      PROVE  /\ Within(q[j], w, h)
             /\ j <= k => (n > k => q[j].x + q[j].w <= x)
             /\ j > k => q[j].x >= x
  BY <1>1, <1>5 DEF Tiling
<1>6. ASSUME NEW j \in 1..n, NEW l \in 1..n, j < l, q[j].fits, q[l].fits
      PROVE  Disjoint(q[j], q[l])
  <2>1. CASE l <= k \/ j > k
    <3>1. q[j].y + q[j].h <= q[l].y
      BY <1>1, <1>6, <2>1 DEF Tiling
    <3> QED  BY <3>1 DEF Disjoint
  <2>2. CASE ~(l <= k) /\ ~(j > k)
    <3>1. q[j].x + q[j].w <= x /\ q[l].x >= x
      BY <1>2, <1>5, <1>6, <2>2
    <3>2. q[j].x + q[j].w \in Int /\ q[l].x \in Int
      BY <1>4, RectIs
    <3>3. q[j].x + q[j].w <= q[l].x
      BY <1>2, <3>1, <3>2
    <3> QED  BY <3>3 DEF Disjoint
  <2> QED  BY <2>1, <2>2
<1>7. LaidOut(q, n, w, h, FALSE)
  BY <1>4, <1>5, <1>6 DEF LaidOut, Apart
<1> QED  BY <1>3, <1>7 DEF s, n

(***************************************************************************)
(* The unsigned differences do not depend on the split.                    *)
(***************************************************************************)
TileFields == {"my", "ty", "ms", "places", "low"}

\* What the loop keeps of them after i windows.
Falling(s, i, n, h, smh) ==
    /\ DOMAIN s = TileFields /\ s.ty \in Int /\ s.low \in Int /\ s.low >= 0
    /\ i < n => h - s.ty >= smh

LEMMA FallingStep ==
    ASSUME Roomy, NEW m, NEW w, NEW h \in Nat, NEW full, Gap(m) \in Nat,
           m.n \in Nat, m.nmaster \in Nat, Percent(full, m.smfact) \in Nat,
           NEW s, NEW i \in Nat, i < m.n, Falling(s, i, m.n, h, Percent(full, m.smfact))
    PROVE  Falling(TileStep(m, w, h, full, s, i), i + 1, m.n, h, Percent(full, m.smfact))
<1> DEFINE g == Gap(m)
           n == m.n
           mw == IF n > m.nmaster THEN (IF m.nmaster = 0 THEN 0 ELSE Percent(w, m.fact))
                 ELSE w - g
           smh == Percent(full, m.smfact)
           t == TileStep(m, w, h, full, s, i)
           maxn == (h - g) \div (g + minwsz) + m.nmaster
           last == i = n - 1
           room == h - s.ty - (IF last THEN 0 ELSE smh)
           r == Smaller(n, maxn) - i
           part == room \div r - g
           mine == (h - s.my) \div (Smaller(n, m.nmaster) - i) - g
           master == Place(g, s.my, mw - 2 * bw - g, mine - 2 * bw, TRUE)
           other == Place(mw + g, s.ty, w - mw - 2 * bw - 2 * g, part - 2 * bw, TRUE)
           none == [s.ms EXCEPT !.fits = FALSE]
           my == IF m.drawwithgaps /\ s.my + master.h + g >= h THEN s.my
                 ELSE s.my + master.h + g
           ty == TileNext(s, part, smh, last, g)
           low == Smaller(s.low, room)
           A == [s EXCEPT !.ms = master, !.places = Append(@, master), !.my = my]
           B == [s EXCEPT !.places = Append(@, none)]
           C == [s EXCEPT !.places = Append(@, none), !.low = low]
           D == [s EXCEPT !.places = Append(@, other), !.ty = ty, !.low = low]
<1>1. t = IF i < m.nmaster THEN A ELSE IF i >= maxn THEN B
          ELSE IF part < minwsz \/ part < 2 * bw THEN C ELSE D
  BY DEF TileStep
<1>2. /\ DOMAIN s = TileFields /\ s.ty \in Int /\ s.low \in Int /\ s.low >= 0
      /\ h - s.ty >= smh /\ smh \in Nat /\ g \in Nat /\ n \in Nat /\ i < n
  BY DEF Falling
<1>3. room = h - s.ty - (IF last THEN 0 ELSE smh) /\ part = room \div r - g
      /\ (i + 1 < n => ~last) /\ (last <=> i = n - 1)
  BY <1>2
<1>4. low = Smaller(s.low, room) /\ ty = TileNext(s, part, smh, last, g) /\ r = Smaller(n, maxn) - i
  OBVIOUS
<1>5. Falling(t, i + 1, n, h, smh) =>
          Falling(TileStep(m, w, h, full, s, i), i + 1, m.n, h, Percent(full, m.smfact))
  OBVIOUS
<1>6. maxn = (h - g) \div (g + minwsz) + m.nmaster
  OBVIOUS
<1> HIDE DEF g, n, mw, smh, t, maxn, last, room, r, part, mine, master, other, none, my, ty, low
<1>7. CASE t = A \/ t = B
  <2>1. DOMAIN t = TileFields /\ t.ty = s.ty /\ t.low = s.low
    BY <1>2, <1>7 DEF TileFields
  <2> QED  BY <1>2, <1>5, <2>1 DEF Falling
<1>8. CASE ~(i < m.nmaster) /\ ~(i >= maxn)
  <2>1. r \in Nat /\ r > 0
    <3>1. g + minwsz \in Nat /\ g + minwsz > 0
      BY <1>2, Minimum
    <3>2. (h - g) \div (g + minwsz) \in Int
      <4> DEFINE d == g + minwsz
      <4> HIDE DEF d
      <4>1. d \in Nat /\ d > 0
        BY <3>1 DEF d
      <4>2. (h - g) \div d \in Int
        BY <1>2, <4>1
      <4> QED  BY <4>2 DEF d
    <3>3. maxn \in Int
      BY <1>6, <3>2
    <3> QED  BY <1>2, <1>4, <1>8, <3>3 DEF Smaller
  <2>2. Roomed(s, s.ty, h, g, smh, last, room, part)
    <3>1. room = h - s.ty - (IF last THEN 0 ELSE smh) /\ part = room \div r - g
      BY <1>3
    <3>2. g \in Nat /\ smh \in Nat /\ h \in Int /\ s.ty \in Int /\ h - s.ty >= smh
      BY <1>2
    <3> QED  BY <2>1, <3>1, <3>2, OtherRoom
  <2>3. /\ room \in Nat /\ part \in Int
        /\ ~last => h - (s.ty + part + g) >= smh
        /\ part >= minwsz => ty \in Int /\ (~last => ty = s.ty + part + g)
    BY <1>4, <2>2 DEF Roomed
  <2>4. low \in Int /\ low >= 0
    BY <1>2, <1>4, <2>3 DEF Smaller
  <2>5. CASE part < minwsz \/ part < 2 * bw
    <3>1. t = C
      BY <1>1, <1>8, <2>5
    <3>2. DOMAIN t = TileFields /\ t.ty = s.ty /\ t.low = low
      BY <1>2, <3>1 DEF TileFields
    <3> QED  BY <1>2, <1>5, <2>4, <3>2 DEF Falling
  <2>6. CASE ~(part < minwsz \/ part < 2 * bw)
    <3>1. t = D
      BY <1>1, <1>8, <2>6
    <3>2. DOMAIN t = TileFields /\ t.ty = ty /\ t.low = low
      BY <1>2, <3>1 DEF TileFields
    <3>3. part >= minwsz
      BY <2>3, <2>6, Minimum
    <3>4. ty \in Int /\ (i + 1 < n => h - ty >= smh)
      BY <1>3, <2>3, <3>3
    <3> QED  BY <1>5, <2>4, <3>2, <3>4 DEF Falling
  <2> QED  BY <2>5, <2>6
<1> QED  BY <1>1, <1>7, <1>8

LEMMA TileLow ==
    ASSUME Roomy, NEW m, NEW w, NEW h \in Nat, NEW full, Gap(m) \in Nat,
           m.n \in Nat, m.nmaster \in Nat, Percent(full, m.smfact) \in Nat,
           RoomBehind(m, h, full)
    PROVE  Tile(m, w, h, full).low >= 0
<1> DEFINE n == m.n
           s == TileStart(m)
           f == CHOOSE e : e = [i \in 0..n |->
                    IF i = 0 THEN s ELSE TileStep(m, w, h, full, e[i - 1], i - 1)]
           Good(i) == Falling(f[i], i, n, h, Percent(full, m.smfact))
           Bad == {i \in 0..n : ~Good(i)}
<1>1. Tile(m, w, h, full) = f[n]
  BY DEF Tile, TileStart
<1>2. n \in Nat
  OBVIOUS
<1>3. Falling(s, 0, n, h, Percent(full, m.smfact))
  <2>1. h - Gap(m) >= Percent(full, m.smfact)
    BY DEF RoomBehind
  <2>2. DOMAIN s = TileFields /\ s.ty = Gap(m) /\ s.low = 0
    BY DEF TileStart, TileFields
  <2> QED  BY <2>1, <2>2 DEF Falling
<1> HIDE DEF n, s
<1>4. f = [i \in 0..n |-> IF i = 0 THEN s ELSE TileStep(m, w, h, full, f[i - 1], i - 1)]
  BY <1>2, TileDefined
<1> HIDE DEF f
<1>5. f[0] = s /\ \A i \in 1..n : f[i] = TileStep(m, w, h, full, f[i - 1], i - 1)
  <2> DEFINE u(x) == IF x = 0 THEN s ELSE TileStep(m, w, h, full, f[x - 1], x - 1)
  <2>1. f = [i \in 0..n |-> u(i)]
    BY <1>4
  <2>2. 0 \in 0..n /\ \A i \in 1..n : i \in 0..n /\ i # 0
    BY <1>2
  <2> HIDE DEF u
  <2>3. f[0] = u(0) /\ \A i \in 1..n : f[i] = u(i)
    BY <2>1, <2>2
  <2> QED  BY <2>2, <2>3 DEF u
<1>6. Bad = {}
  <2> SUFFICES ASSUME Bad # {}
               PROVE  FALSE
    OBVIOUS
  <2>1. PICK k \in Bad : \A y \in Bad : k <= y
    <3>1. Bad \subseteq Nat
      OBVIOUS
    <3> HIDE DEF Bad
    <3> QED  BY <3>1, LeastNatural
  <2>2. k \in 0..n /\ ~Good(k)
    BY <2>1
  <2>3. k # 0
    BY <1>3, <1>5, <2>2
  <2> DEFINE l == k - 1
  <2>4. l \in Nat /\ l < m.n /\ l \in 0..n /\ l + 1 = k /\ ~(k <= l) /\ k \in 1..n
    BY <1>2, <2>2, <2>3 DEF n
  <2>5. l \notin Bad
    <3> HIDE DEF Bad, l
    <3> QED  BY <2>1, <2>4
  <2>6. Falling(f[l], l, m.n, h, Percent(full, m.smfact))
    BY <2>4, <2>5 DEF n
  <2>7. f[k] = TileStep(m, w, h, full, f[l], l)
    BY <1>5, <2>4
  <2> HIDE DEF l
  <2>8. Falling(TileStep(m, w, h, full, f[l], l), l + 1, m.n, h, Percent(full, m.smfact))
    BY <2>4, <2>6, FallingStep
  <2> QED  BY <2>2, <2>4, <2>7, <2>8 DEF n
<1>7. n \in 0..n
  BY <1>2
<1>8. Falling(f[n], n, n, h, Percent(full, m.smfact))
  BY <1>6, <1>7
<1> QED  BY <1>1, <1>8 DEF Falling

-----------------------------------------------------------------------------
(* bstack without gaps.                                                    *)

\* Where the next master begins.
NextX(x, r) == x + Larger(bh, (Width - x) \div r - 2 * bw) + 2 * bw

LEMMA RowDefined ==
    ASSUME NEW n \in Nat, NEW f,
           f = CHOOSE e : e = [i \in 0..n |-> IF i = 0 THEN 0 ELSE NextX(e[i - 1], n - (i - 1))]
    PROVE  f = [i \in 0..n |-> IF i = 0 THEN 0 ELSE NextX(f[i - 1], n - (i - 1))]
<1> DEFINE Next1(v, i) == NextX(v, n - i)
           Def(e, k) == e = [i \in 0..k |-> IF i = 0 THEN 0 ELSE Next1(e[i - 1], i - 1)]
           Bad == {k \in Nat : \A e : ~Def(e, k)}
<1>0. f = CHOOSE e : e = [i \in 0..n |-> IF i = 0 THEN 0 ELSE Next1(e[i - 1], i - 1)]
  OBVIOUS
<1> SUFFICES f = [i \in 0..n |-> IF i = 0 THEN 0 ELSE Next1(f[i - 1], i - 1)]
  OBVIOUS
<1> HIDE DEF Next1
<1>1. Bad = {}
  <2> SUFFICES ASSUME Bad # {}
               PROVE  FALSE
    OBVIOUS
  <2>1. PICK k \in Bad : \A y \in Bad : k <= y
    <3>1. Bad \subseteq Nat
      OBVIOUS
    <3> HIDE DEF Bad
    <3> QED  BY <3>1, LeastNatural
  <2>2. k \in Nat /\ \A e : ~Def(e, k)
    BY <2>1
  <2>3. CASE k = 0
    <3> DEFINE e == [i \in 0..0 |-> 0]
    <3>1. Def(e, 0)
      OBVIOUS
    <3> HIDE DEF e
    <3> QED  BY <2>2, <2>3, <3>1
  <2>4. CASE k # 0
    <3> DEFINE l == k - 1
    <3>1. l \in Nat /\ l \notin Bad
      <4> HIDE DEF Bad
      <4>1. l \in Nat /\ ~(k <= l)
        BY <2>2, <2>4
      <4> QED  BY <2>1, <4>1
    <3>2. PICK e : Def(e, l)
      BY <3>1
    <3> DEFINE d == [i \in 0..k |-> IF i = k THEN Next1(e[k - 1], k - 1) ELSE e[i]]
    <3>3. ASSUME NEW i \in 0..k
          PROVE  d[i] = IF i = 0 THEN 0 ELSE Next1(d[i - 1], i - 1)
      <4>1. CASE i = k
        <5>1. k - 1 \in 0..k /\ k - 1 # k /\ k # 0
          BY <2>2, <2>4
        <5> QED  BY <4>1, <5>1
      <4>2. CASE i # k
        <5>1. i \in 0..l /\ (i # 0 => i - 1 \in 0..k /\ i - 1 # k)
          BY <2>2, <4>2
        <5>2. e[i] = IF i = 0 THEN 0 ELSE Next1(e[i - 1], i - 1)
          <6> DEFINE u(x) == IF x = 0 THEN 0 ELSE Next1(e[x - 1], x - 1)
          <6>1. e = [x \in 0..l |-> u(x)]
            BY <3>2
          <6> HIDE DEF u, l
          <6>2. e[i] = u(i)
            BY <5>1, <6>1
          <6> QED  BY <6>2 DEF u
        <5>3. d[i] = e[i] /\ (i # 0 => d[i - 1] = e[i - 1])
          BY <4>2, <5>1
        <5> QED  BY <5>2, <5>3
      <4> QED  BY <4>1, <4>2
    <3>4. d = [i \in 0..k |-> d[i]]
      OBVIOUS
    <3> HIDE DEF d
    <3>5. Def(d, k)
      BY <3>3, <3>4
    <3> QED  BY <2>2, <3>5
  <2> QED  BY <2>3, <2>4
<1> HIDE DEF Def
<1>2. \E e : Def(e, n)
  BY <1>1
<1> QED  BY <1>0, <1>2 DEF Def

\* The masters side by side: each begins where the one before ends.
Row(f, n) ==
    /\ \A i \in 0..n : f[i] \in Nat /\ f[i] <= Width
    /\ \A i \in 0..(n - 1) : LET d == (Width - f[i]) \div (n - i)
                             IN  d \in Nat /\ d >= least /\ f[i] + d = f[i + 1]
    /\ \A i, j \in 0..n : i <= j => f[i] <= f[j]

LEMMA RowIs ==
    ASSUME Roomy, NEW n \in Nat, Need(n, 0) <= Width, NEW f,
           f = [i \in 0..n |-> IF i = 0 THEN 0 ELSE NextX(f[i - 1], n - (i - 1))]
    PROVE  Row(f, n)
<1> DEFINE d(i) == (Width - f[i]) \div (n - i)
           Before(i) == \A j \in 0..i : f[j] \in Nat /\ f[j] <= f[i]
           Good(i) == /\ f[i] \in Nat /\ f[i] <= Width
                      /\ i < n => Width - f[i] >= Need(n - i, 0)
                      /\ Before(i)
           Placed(i) == d(i) \in Nat /\ d(i) >= least /\ f[i] + d(i) = f[i + 1]
           Bad == {i \in 0..n : ~Good(i)}
<1>1. f[0] = 0 /\ \A i \in 1..n : f[i] = NextX(f[i - 1], n - (i - 1))
  <2> DEFINE u(x) == IF x = 0 THEN 0 ELSE NextX(f[x - 1], n - (x - 1))
  <2>1. f = [i \in 0..n |-> u(i)]
    OBVIOUS
  <2>2. 0 \in 0..n /\ \A i \in 1..n : i \in 0..n /\ i # 0
    OBVIOUS
  <2> HIDE DEF u
  <2>3. f[0] = u(0) /\ \A i \in 1..n : f[i] = u(i)
    BY <2>1, <2>2
  <2> QED  BY <2>2, <2>3 DEF u
<1>2. ASSUME NEW i \in 0..(n - 1), Good(i)
      PROVE  Placed(i) /\ Good(i + 1)
  <2> DEFINE y == f[i]
             e == d(i)
             k == n - i
             z == f[i + 1]
             mine == (Width - y) \div k - 0
  <2>1. /\ y \in Int /\ y >= 0 /\ y <= Width
        /\ k \in Nat /\ k > 0 /\ k = n - i /\ Before(i)
        /\ i + 1 \in 1..n /\ (i + 1) - 1 = i
        /\ i + 1 < n => k > 1 /\ k - 1 = n - (i + 1)
    <3>1. f[i] \in Nat /\ f[i] <= Width /\ Before(i)
      BY <1>2
    <3> HIDE DEF Before, Good
    <3> QED  BY <3>1
  <2>2. Width \in Int /\ bh > 0 /\ bh \in Int /\ bw \in Int /\ least \in Nat
        /\ least = bh + 2 * bw
    BY Sizes, Minimum DEF least
  <2>3. Width - y >= Need(k, 0)
    BY <1>2, <2>1
  <2>4. z = NextX(y, k)
    <3>1. f[i + 1] = NextX(f[(i + 1) - 1], n - ((i + 1) - 1))
      BY <1>1, <2>1
    <3> QED  BY <2>1, <3>1
  <2>5. e = (Width - y) \div k
    OBVIOUS
  <2>6. \A j \in 0..i : f[j] \in Nat /\ f[j] <= y
    BY <2>1
  <2> HIDE DEF y, k, e, z, Before, Good
  <2>7. z = y + Larger(bh, e - 2 * bw) + 2 * bw
    BY <2>4, <2>5 DEF NextX
  <2>8. /\ mine \in Int /\ mine >= least /\ y + mine + 0 <= Width
        /\ k > 1 => y + mine + 0 < Width /\ Width - (y + mine + 0) >= Need(k - 1, 0)
    BY <2>1, <2>2, <2>3, MasterShare
  <2>9. mine = e
    <3>1. (Width - y) \div k \in Int
      BY <2>1, <2>2
    <3> QED  BY <2>5, <3>1
  <2> HIDE DEF mine
  <2>10. /\ e \in Nat /\ e >= least /\ y + e <= Width /\ y + e \in Nat
         /\ k > 1 => Width - (y + e) >= Need(k - 1, 0)
    <3>1. e \in Int /\ e >= least /\ y + e + 0 = y + e
      BY <2>1, <2>8, <2>9
    <3>2. y + e <= Width /\ (k > 1 => Width - (y + e) >= Need(k - 1, 0))
      BY <2>8, <2>9, <3>1
    <3> QED  BY <2>1, <2>2, <3>1, <3>2
  <2>11. z = y + e
    <3>1. Larger(bh, e - 2 * bw) = e - 2 * bw
      BY <2>2, <2>10 DEF Larger
    <3>2. y + (e - 2 * bw) + 2 * bw = y + e
      BY <2>1, <2>2, <2>10
    <3> QED  BY <2>7, <3>1, <3>2
  <2>12. Before(i + 1)
    <3> SUFFICES ASSUME NEW j \in 0..(i + 1)
                 PROVE  f[j] \in Nat /\ f[j] <= z
      BY DEF Before, z
    <3>1. CASE j = i + 1
      <4>1. f[j] = z
        BY <3>1 DEF z
      <4>2. z \in Nat
        BY <2>10, <2>11
      <4> QED  BY <4>1, <4>2
    <3>2. CASE j # i + 1
      <4>1. j \in 0..i
        BY <3>2
      <4>2. f[j] \in Nat /\ f[j] <= y
        BY <2>6, <4>1
      <4> QED  BY <2>1, <2>10, <2>11, <4>2
    <3> QED  BY <3>1, <3>2
  <2>13. i + 1 < n => Width - z >= Need(n - (i + 1), 0)
    BY <2>1, <2>10, <2>11
  <2>14. Good(i + 1)
    <3>1. z \in Nat /\ z <= Width
      BY <2>10, <2>11
    <3> QED  BY <2>12, <2>13, <3>1 DEF Good, z
  <2>15. Placed(i)
    BY <2>10, <2>11 DEF y, e, z
  <2> QED  BY <2>14, <2>15
<1>3. Good(0)
  <2>1. \A j \in 0..0 : j = 0
    OBVIOUS
  <2>2. Before(0)
    BY <1>1, <2>1
  <2>3. Width - 0 = Width /\ n - 0 = n /\ 0 <= Width /\ 0 \in Nat
    BY Sizes
  <2> HIDE DEF Before
  <2> QED  BY <1>1, <2>2, <2>3
<1> HIDE DEF Good, Placed
<1>4. \A i \in 0..n : Good(i)
  <2> SUFFICES ASSUME Bad # {}
               PROVE  FALSE
    OBVIOUS
  <2>1. Bad \subseteq Nat
    OBVIOUS
  <2>2. PICK i \in Bad : \A j \in Bad : i <= j
    <3> HIDE DEF Bad
    <3> QED  BY <2>1, LeastNatural
  <2>3. i \in 0..n /\ ~Good(i)
    BY <2>2
  <2>4. i # 0
    BY <1>3, <2>3
  <2>5. i - 1 \in 0..(n - 1) /\ i - 1 \in 0..n /\ (i - 1) + 1 = i /\ ~(i <= i - 1)
    BY <2>3, <2>4
  <2>6. Good(i - 1)
    BY <2>2, <2>5
  <2>7. Good((i - 1) + 1)
    BY <1>2, <2>5, <2>6
  <2> QED  BY <2>3, <2>5, <2>7
<1>5. \A i \in 0..n : f[i] \in Nat /\ f[i] <= Width /\ Before(i)
  BY <1>4 DEF Good
<1>6. \A i \in 0..(n - 1) : Placed(i)
  <2>1. \A i \in 0..(n - 1) : i \in 0..n
    OBVIOUS
  <2> QED  BY <1>2, <1>4, <2>1
<1>7. ASSUME NEW i \in 0..n, NEW j \in 0..n, i <= j
      PROVE  f[i] <= f[j]
  <2>1. i \in 0..j
    BY <1>7
  <2> QED  BY <1>5, <2>1
<1> QED  BY <1>5, <1>6, <1>7 DEF Row, Placed

\* The others side by side, all of the same width.
LEMMA OthersRow ==
    ASSUME Roomy, NEW d \in Nat, d > 0, Need(d, 0) <= Width, NEW tw, tw = Width \div d
    PROVE  /\ tw \in Nat /\ tw >= least /\ (tw = Width => d = 1)
           /\ \A e \in 0..(d - 1) : e * tw \in Nat /\ e * tw + tw <= Width
           /\ \A e, f \in 0..(d - 1) : e < f => e * tw + tw <= f * tw
<1>1. Width \in Nat /\ least \in Nat /\ least > 0 /\ Width >= d * least
  <2>1. d * (least + 0) <= Width
    BY DEF Need
  <2> QED  BY <2>1, Sizes, Minimum DEF least
<1>2. tw \in Nat /\ tw >= least /\ d * tw <= Width
  <2>1. Width \div d \in Nat /\ Width \div d >= least
    BY <1>1, Share
  <2>2. d * (Width \div d) <= Width
    BY <1>1
  <2> QED  BY <2>1, <2>2
<1>3. ASSUME NEW e \in Nat, NEW f \in Nat, e < f
      PROVE  e * tw \in Nat /\ f * tw \in Nat /\ e * tw + tw <= f * tw
  <2>1. e * tw \in Nat /\ f * tw \in Nat
    BY <1>2
  <2>2. (e + 1) * tw <= f * tw
    BY <1>2, <1>3
  <2>3. (e + 1) * tw = e * tw + tw
    BY <1>2
  <2> QED  BY <2>1, <2>2, <2>3
<1>4. ASSUME NEW e \in 0..(d - 1)
      PROVE  e * tw \in Nat /\ e * tw + tw <= Width
  <2>1. e \in Nat /\ e < d
    OBVIOUS
  <2>2. e * tw \in Nat /\ d * tw \in Nat /\ e * tw + tw <= d * tw
    BY <1>3, <2>1
  <2> QED  BY <1>1, <1>2, <2>2
<1>5. tw = Width => d = 1
  <2> SUFFICES ASSUME tw = Width, d > 1
               PROVE  FALSE
    OBVIOUS
  <2>1. 1 * tw + tw <= d * tw /\ 1 * tw = tw /\ d * tw \in Nat
    BY <1>2, <1>3
  <2> QED  BY <1>1, <1>2, <2>1
<1> QED  BY <1>2, <1>3, <1>4, <1>5

\* A place that is large enough is as large as asked.
Exactly(p, x, y, w, h) == p \in Rect /\ p.x = x /\ p.y = y /\ p.w = w /\ p.h = h

LEMMA PlaceExactly ==
    ASSUME NEW x \in Int, NEW y \in Int, NEW w \in Int, NEW h \in Int,
           w >= least, h >= least
    PROVE  Exactly(Place(x, y, w - 2 * bw, h - 2 * bw, TRUE), x, y, w, h)
<1> DEFINE p == Place(x, y, w - 2 * bw, h - 2 * bw, TRUE)
<1>1. Covers(p, x, y, w, h)
  BY PlaceIs
<1>2. Larger(least, w) = w /\ Larger(least, h) = h
  BY Sizes, LargerIs
<1> HIDE DEF p
<1>3. Exactly(p, x, y, w, h)
  BY <1>1, <1>2 DEF Covers, Exactly
<1> QED  BY <1>3 DEF p

LEMMA BstackPlainLaidOut ==
    ASSUME Roomy, NEW m \in Settings, ~m.drawwithgaps, RoomToSplit(m, wh(m))
    PROVE  LaidOut(BstackPlain(m), m.n, Width, wh(m), FALSE)
<1> DEFINE n == m.n
           k == m.nmaster
           l == Smaller(n, k)
           h == wh(m)
           mh == IF n > k THEN (IF k = 0 THEN 0 ELSE Percent(h, m.fact)) ELSE h
           tw == IF n > k THEN Width \div (n - k) ELSE Width
           mx == CHOOSE e : e = [i \in 0..l |-> IF i = 0 THEN 0 ELSE NextX(e[i - 1], l - (i - 1))]
           d(i) == (Width - mx[i]) \div (l - i)
           tx(i) == IF tw = Width THEN 0 ELSE (i - k) * (Larger(bh, tw - 2 * bw) + 2 * bw)
           q == BstackPlain(m)
           master(j) == Place(mx[j - 1], 0, d(j - 1) - 2 * bw, mh - 2 * bw, TRUE)
           other(j) == Place(tx(j - 1), mh, tw - 2 * bw, h - mh - 2 * bw, TRUE)
<1>1. /\ n \in 0..MaxWindows /\ n \in Nat /\ k \in Nat /\ Gap(m) = 0
      /\ RoomFor(m, Width) /\ RoomFor(m, h) /\ RoomToSplit(m, h)
  BY Measures
<1>2. mh = Split(m, h)
  <2>1. h - 0 = h
    BY <1>1 DEF RoomFor
  <2> HIDE DEF h
  <2> QED  BY <1>1, <2>1 DEF Split, h
<1>3. DOMAIN q = 1..n /\ \A j \in 1..n : q[j] = IF j - 1 < k THEN master(j) ELSE other(j)
  <2> DEFINE u(j) == IF j - 1 < k THEN master(j) ELSE other(j)
  <2>1. q = [j \in 1..n |-> u(j)]
    BY DEF BstackPlain, NextX
  <2> HIDE DEF u, q
  <2>2. DOMAIN q = 1..n /\ \A j \in 1..n : q[j] = u(j)
    BY <2>1
  <2> QED  BY <2>2 DEF u
<1> HIDE DEF q
<1>4. /\ l \in Nat /\ l <= n /\ l <= k /\ (n > k => l = k) /\ (~(n > k) => l = n)
      /\ Need(l, 0) <= Width
  <2>1. /\ l \in Nat /\ l <= n /\ l <= k /\ (n > k => l = k) /\ (~(n > k) => l = n)
    <3> HIDE DEF n, k
    <3> QED  BY <1>1 DEF Smaller
  <2>2. k * (least + 0) + 0 <= Width
    BY <1>1 DEF RoomFor
  <2> HIDE DEF l, n, k
  <2>3. l * (least + 0) <= k * (least + 0)
    BY <1>1, <2>1, Sizes
  <2>4. l * (least + 0) \in Int /\ k * (least + 0) \in Int
    BY <1>1, <2>1, Sizes
  <2> QED  BY <2>1, <2>2, <2>3, <2>4, Sizes DEF Need
<1>5. Row(mx, l)
  <2> HIDE DEF l, mx
  <2>1. mx = [i \in 0..l |-> IF i = 0 THEN 0 ELSE NextX(mx[i - 1], l - (i - 1))]
    BY <1>4, RowDefined DEF mx
  <2> QED  BY <1>4, <2>1, RowIs
<1>6. /\ mh \in Int /\ h \in Nat /\ mh <= h /\ (k > 0 /\ n > 0 => mh >= least)
      /\ n > k => h - mh >= least /\ mh >= 0
  <2> HIDE DEF mh, h, n, k
  <2>1. /\ mh \in Int /\ h \in Nat /\ mh + Gap(m) <= h /\ (k > 0 /\ n > 0 => mh >= least)
        /\ n > k => mh + Gap(m) + least <= h /\ mh >= 0
    BY <1>1, <1>2, SplitIs DEF n, k
  <2> QED  BY <1>1, <2>1, Sizes
<1>7. ASSUME n > k
      PROVE  /\ n - k \in Nat /\ tw \in Nat /\ tw >= least
             /\ \A e \in 0..(n - k - 1) : e * tw \in Nat /\ e * tw + tw <= Width
             /\ \A e, f \in 0..(n - k - 1) : e < f => e * tw + tw <= f * tw
             /\ \A i \in k..(n - 1) : tx(i) = (i - k) * tw
  <2> DEFINE c == n - k
  <2>1. c \in Nat /\ c > 0 /\ c <= MaxWindows
    <3> HIDE DEF n, k
    <3> QED  BY <1>1, <1>7, Sizes
  <2>2. Need(c, 0) <= Width
    <3>1. MaxWindows * least <= Width
      BY DEF Roomy
    <3> HIDE DEF c
    <3>2. c * (least + 0) <= MaxWindows * least
      BY <2>1, Sizes
    <3>3. c * (least + 0) \in Int /\ MaxWindows * least \in Int
      BY <2>1, Sizes
    <3> QED  BY <3>1, <3>2, <3>3, Sizes DEF Need
  <2>3. tw = Width \div c
    BY <1>7
  <2> HIDE DEF tw, c
  <2>4. /\ tw \in Nat /\ tw >= least /\ (tw = Width => c = 1)
        /\ \A e \in 0..(c - 1) : e * tw \in Nat /\ e * tw + tw <= Width
        /\ \A e, f \in 0..(c - 1) : e < f => e * tw + tw <= f * tw
    BY <2>1, <2>2, <2>3, OthersRow
  <2>5. ASSUME NEW i \in k..(n - 1)
        PROVE  tx(i) = (i - k) * tw
    <3>1. Larger(bh, tw - 2 * bw) + 2 * bw = tw
      <4>1. tw \in Int /\ tw >= least
        BY <2>4
      <4> QED  BY <4>1, Sizes DEF least, Larger
    <3>2. tw = Width => i - k = 0 /\ 0 * tw = 0
      <4>1. tw \in Nat /\ (tw = Width => c = 1)
        BY <2>4
      <4> QED  BY <1>1, <4>1 DEF c
    <3> QED  BY <3>1, <3>2
  <2> HIDE DEF tx
  <2> QED  BY <2>1, <2>4, <2>5 DEF c
<1> HIDE DEF mh, tw, mx, tx, l, n, k, h
<1>8. ASSUME NEW j \in 1..n, j - 1 < k
      PROVE  /\ j - 1 \in 0..l /\ j \in 0..l /\ k > 0 /\ n > 0
             /\ Exactly(q[j], mx[j - 1], 0, d(j - 1), mh)
             /\ mx[j - 1] \in Nat /\ mx[j] \in Nat /\ mx[j] <= Width
             /\ mx[j - 1] + d(j - 1) = mx[j]
  <2>1. j - 1 \in 0..(l - 1) /\ j - 1 \in 0..l /\ j \in 0..l /\ k > 0 /\ n > 0 /\ (j - 1) + 1 = j
    BY <1>1, <1>4, <1>8
  <2>2. /\ d(j - 1) \in Nat /\ d(j - 1) >= least /\ mx[j - 1] + d(j - 1) = mx[j]
        /\ mx[j - 1] \in Nat /\ mx[j] \in Nat /\ mx[j] <= Width
    BY <1>5, <2>1 DEF Row
  <2>3. q[j] = master(j)
    BY <1>3, <1>8
  <2> HIDE DEF d
  <2>4. Exactly(master(j), mx[j - 1], 0, d(j - 1), mh)
    <3> DEFINE x == mx[j - 1]
               v == d(j - 1)
    <3>1. x \in Int /\ 0 \in Int /\ v \in Int /\ mh \in Int /\ v >= least /\ mh >= least
      BY <1>6, <2>1, <2>2
    <3> HIDE DEF x, v
    <3>2. Exactly(Place(x, 0, v - 2 * bw, mh - 2 * bw, TRUE), x, 0, v, mh)
      BY <3>1, PlaceExactly
    <3> QED  BY <3>2 DEF x, v
  <2> QED  BY <2>1, <2>2, <2>3, <2>4
<1>9. ASSUME NEW j \in 1..n, ~(j - 1 < k)
      PROVE  /\ n > k /\ j - 1 - k \in 0..(n - k - 1)
             /\ Exactly(q[j], (j - 1 - k) * tw, mh, tw, h - mh)
             /\ (j - 1 - k) * tw \in Nat /\ (j - 1 - k) * tw + tw <= Width
  <2>1. n > k /\ j - 1 - k \in 0..(n - k - 1) /\ j - 1 \in k..(n - 1)
    BY <1>1, <1>9
  <2>2. /\ tw \in Nat /\ tw >= least /\ tx(j - 1) = (j - 1 - k) * tw
        /\ (j - 1 - k) * tw \in Nat /\ (j - 1 - k) * tw + tw <= Width
    BY <1>7, <2>1
  <2>3. q[j] = other(j)
    BY <1>3, <1>9
  <2> DEFINE x == (j - 1 - k) * tw
             v == h - mh
  <2>4. x \in Int /\ mh \in Int /\ tw \in Int /\ v \in Int /\ v >= least
    BY <1>6, <2>1, <2>2
  <2>5. other(j) = Place(x, mh, tw - 2 * bw, v - 2 * bw, TRUE)
    BY <2>2
  <2> HIDE DEF x, v, other
  <2>6. Exactly(other(j), x, mh, tw, v)
    BY <2>2, <2>4, <2>5, PlaceExactly
  <2> QED  BY <2>1, <2>2, <2>3, <2>6 DEF x, v
<1>10. ASSUME NEW j \in 1..n
       PROVE  q[j] \in Rect /\ Within(q[j], Width, h)
  <2>1. CASE j - 1 < k
    <3>1. /\ q[j] \in Rect /\ q[j].x = mx[j - 1] /\ q[j].y = 0 /\ q[j].w = d(j - 1) /\ q[j].h = mh
      BY <1>8, <2>1 DEF Exactly
    <3>2. mx[j - 1] \in Nat /\ mx[j - 1] + d(j - 1) <= Width
      BY <1>8, <2>1
    <3> HIDE DEF d
    <3>3. 0 + mh <= h /\ 0 >= 0
      BY <1>6
    <3> QED  BY <3>1, <3>2, <3>3 DEF Within
  <2>2. CASE ~(j - 1 < k)
    <3> DEFINE x == (j - 1 - k) * tw
    <3>1. /\ q[j] \in Rect /\ q[j].x = x /\ q[j].y = mh /\ q[j].w = tw /\ q[j].h = h - mh
      BY <1>9, <2>2 DEF Exactly
    <3>2. x \in Nat /\ x + tw <= Width /\ n > k
      BY <1>9, <2>2
    <3> HIDE DEF x
    <3>3. mh + (h - mh) <= h /\ mh >= 0
      BY <1>6, <3>2
    <3> QED  BY <3>1, <3>2, <3>3 DEF Within
  <2> QED  BY <2>1, <2>2
<1>11. ASSUME NEW i \in 1..n, NEW j \in 1..n, i < j
       PROVE  Disjoint(q[i], q[j])
  <2>1. CASE j - 1 < k
    <3>1. i - 1 < k /\ i <= j - 1
      BY <1>1, <1>11, <2>1
    <3>2. q[i].x = mx[i - 1] /\ q[i].w = d(i - 1) /\ mx[i - 1] + d(i - 1) = mx[i] /\ i \in 0..l
      BY <1>8, <3>1 DEF Exactly
    <3>3. q[j].x = mx[j - 1] /\ j - 1 \in 0..l
      BY <1>8, <2>1 DEF Exactly
    <3>4. mx[i] <= mx[j - 1]
      BY <1>5, <3>1, <3>2, <3>3 DEF Row
    <3> HIDE DEF d
    <3> QED  BY <3>2, <3>3, <3>4 DEF Disjoint
  <2>2. CASE i - 1 < k /\ ~(j - 1 < k)
    <3>1. q[i].y = 0 /\ q[i].h = mh
      BY <1>8, <2>2 DEF Exactly
    <3>2. q[j].y = mh
      BY <1>9, <2>2 DEF Exactly
    <3>3. 0 + mh <= mh
      BY <1>6
    <3> QED  BY <3>1, <3>2, <3>3 DEF Disjoint
  <2>3. CASE ~(i - 1 < k)
    <3>1. ~(j - 1 < k) /\ i - 1 - k < j - 1 - k
      BY <1>1, <1>11, <2>3
    <3> DEFINE e == i - 1 - k
               f == j - 1 - k
    <3>2. q[i].x = e * tw /\ q[i].w = tw /\ e \in 0..(n - k - 1) /\ n > k
      BY <1>9, <2>3 DEF Exactly
    <3>3. q[j].x = f * tw /\ f \in 0..(n - k - 1)
      BY <1>9, <3>1 DEF Exactly
    <3>4. e < f
      BY <3>1
    <3> HIDE DEF e, f
    <3>5. e * tw + tw <= f * tw
      BY <1>7, <3>2, <3>3, <3>4
    <3> QED  BY <3>2, <3>3, <3>5 DEF Disjoint
  <2> QED  BY <2>1, <2>2, <2>3
<1>12. LaidOut(q, n, Width, h, FALSE)
  BY <1>3, <1>10, <1>11 DEF LaidOut, Apart
<1> QED  BY <1>12 DEF q, n, h

-----------------------------------------------------------------------------
(* grid.                                                                   *)

\* There are enough cells.
LEMMA GridIs ==
    ASSUME NEW n \in Nat
    PROVE  /\ GridRows(n) \in Nat /\ GridCols(n) \in Nat /\ GridRows(n) * GridCols(n) >= n
           /\ n > 0 => GridRows(n) > 0 /\ GridCols(n) > 0
           /\ n = 0 => GridRows(n) = 0 /\ GridCols(n) = 0
<1> DEFINE r == GridRows(n)
           c == GridCols(n)
           half == n \div 2
           Enough(x) == x * x >= n
           Least(x) == x \in 0..half /\ Enough(x) /\ \A q \in 0..(x - 1) : q * q < n
<1>1. half \in Nat /\ 2 * half <= n /\ n <= 2 * half + 1
  OBVIOUS
<1>2. r \in Nat /\ r * r >= n /\ (n = 0 => r = 0)
  <2>1. CASE \E x \in 0..half : Enough(x)
    <3> DEFINE S == {x \in 0..half : Enough(x)}
    <3>1. S \subseteq Nat /\ S # {}
      <4> HIDE DEF Enough, half
      <4> QED  BY <1>1, <2>1
    <3>2. PICK x \in S : \A y \in S : x <= y
      <4> HIDE DEF S
      <4> QED  BY <3>1, LeastNatural
    <3>3. ASSUME NEW q \in 0..(x - 1)
          PROVE  q * q < n
      <4>1. x \in 0..half
        BY <3>2
      <4>2. q \in Nat /\ q \in 0..half /\ ~(x <= q)
        BY <1>1, <4>1
      <4>3. ~Enough(q)
        BY <3>2, <4>2
      <4>4. q * q \in Int
        BY <4>2
      <4> QED  BY <4>3, <4>4
    <3>4. Least(x)
      <4> HIDE DEF Enough
      <4> QED  BY <3>2, <3>3
    <3>5. r = CHOOSE y : Least(y)
      <4>1. \E y \in 0..(n \div 2) : y * y >= n
        BY <2>1
      <4>2. r = CHOOSE y \in 0..(n \div 2) : y * y >= n /\ \A q \in 0..(y - 1) : q * q < n
        BY <4>1 DEF GridRows
      <4> QED  BY <4>2
    <3> HIDE DEF Least
    <3>6. Least(r)
      BY <3>4, <3>5
    <3>7. r \in Nat /\ r \in 0..half /\ Enough(r)
      BY <1>1, <3>6 DEF Least
    <3>8. n = 0 => r = 0
      BY <1>1, <3>7
    <3> QED  BY <3>7, <3>8
  <2>2. CASE ~\E x \in 0..half : Enough(x)
    <3>1. r = half + 1
      BY <2>2 DEF GridRows
    <3>2. (half + 1) * (half + 1) >= 2 * half + 1
      <4>1. (half + 1) * (half + 1) = half * half + 2 * half + 1
        BY <1>1
      <4>2. half * half >= 0
        BY <1>1
      <4>3. half * half \in Int
        BY <1>1
      <4> QED  BY <1>1, <4>1, <4>2, <4>3
    <3>3. n # 0
      <4>1. 0 \in 0..half /\ 0 * 0 = 0
        BY <1>1
      <4>2. ~Enough(0)
        BY <2>2, <4>1
      <4> QED  BY <4>1, <4>2
    <3>4. (half + 1) * (half + 1) \in Int
      BY <1>1
    <3> HIDE DEF half
    <3> QED  BY <1>1, <3>1, <3>2, <3>3, <3>4
  <2> QED  BY <2>1, <2>2
<1>3. c = IF r # 0 /\ (r - 1) * r >= n THEN r - 1 ELSE r
  BY DEF GridCols
<1> HIDE DEF r, c
<1>4. CASE r # 0 /\ (r - 1) * r >= n
  <2>1. c = r - 1 /\ r - 1 \in Nat /\ r > 0
    BY <1>2, <1>3, <1>4
  <2>2. r * c = (r - 1) * r
    BY <1>2, <2>1
  <2>3. n > 0 => c > 0
    <3>1. c = 0 => r * c = 0
      BY <1>2, <2>1
    <3>2. r * c >= n
      BY <1>4, <2>2
    <3>3. c \in Nat
      BY <2>1
    <3> QED  BY <3>1, <3>2, <3>3
  <2> QED  BY <1>2, <1>4, <2>1, <2>2, <2>3 DEF r, c
<1>5. CASE ~(r # 0 /\ (r - 1) * r >= n)
  <2>1. c = r
    BY <1>3, <1>5
  <2>2. r = 0 => r * r = 0
    BY <1>2
  <2>3. n > 0 => r > 0
    BY <1>2, <2>2
  <2> QED  BY <1>2, <2>1, <2>3 DEF r, c
<1> QED  BY <1>4, <1>5

\* A side of length l has room for count cells, each with its gap.
CellsFit(m, l, count) == count \in Nat /\ l \in Nat /\ count * (least + Gap(m)) + Gap(m) <= l

\* The rows, or the columns: as many as are wanted, or as many cells of size c
\* as there is room for.
LEMMA LimitIs ==
    ASSUME NEW l \in Nat, NEW g \in Nat, NEW c \in Nat, NEW k \in Nat,
           c >= least, c > 0, c + 2 * g <= l, NEW r, r = Smaller(k, (l - g) \div (c + g))
    PROVE  /\ r \in Nat /\ r <= k /\ (k > 0 => r > 0)
           /\ r * (least + g) + g <= l
<1> DEFINE b == c + g
           a == l - g
           d == a \div b
<1>1. b \in Nat /\ b > 0 /\ b >= least + g /\ a \in Nat /\ a >= b * 1 /\ least \in Nat
  BY Sizes
<1>2. r = Smaller(k, d)
  OBVIOUS
<1> HIDE DEF a, b
<1>3. d \in Nat /\ d >= 1
  BY <1>1, Share
<1>4. b * d <= a
  <2>1. b * (a \div b) <= a
    BY <1>1
  <2> QED  BY <2>1
<1> HIDE DEF d
<1>5. r \in Nat /\ r <= k /\ r <= d /\ (k > 0 => r > 0)
  BY <1>2, <1>3 DEF Smaller
<1>6. r * (least + g) <= a
  <2>1. r * (least + g) <= r * b
    BY <1>1, <1>5
  <2>2. b * r <= b * d /\ b * r = r * b
    BY <1>1, <1>3, <1>5
  <2>3. r * (least + g) \in Int /\ r * b \in Int /\ b * d \in Int
    BY <1>1, <1>3, <1>5
  <2> QED  BY <1>1, <1>4, <2>1, <2>2, <2>3
<1>7. r * (least + g) \in Int
  BY <1>1, <1>5
<1>8. r * (least + g) + g <= l
  BY <1>6, <1>7 DEF a
<1> QED  BY <1>5, <1>8

LEMMA RowsCols ==
    ASSUME Roomy, NEW m \in Settings
    PROVE  /\ rows(m) \in Nat /\ cols(m) \in Nat
           /\ rows(m) <= GridRows(m.n) /\ cols(m) <= GridCols(m.n)
           /\ m.n > 0 => rows(m) > 0 /\ cols(m) > 0
           /\ CellsFit(m, wh(m), rows(m)) /\ CellsFit(m, Width, cols(m))
<1> DEFINE n == m.n
           g == Gap(m)
           h == wh(m)
           r == GridRows(n)
           c == GridCols(n)
<1>1. /\ n \in Nat /\ g \in Nat /\ g <= maxgappx /\ h >= m.mh - bh
      /\ h \in Nat /\ m.mh \in Heights /\ m.mh \in Nat
  <2>1. /\ RoomFor(m, Width) /\ RoomFor(m, h)
        /\ n \in Nat /\ g \in Nat /\ g <= maxgappx /\ h >= m.mh - bh
    BY Measures
  <2>2. m.mh \in Heights
    BY DEF Settings
  <2> QED  BY <2>1, <2>2, Sizes DEF RoomFor
<1>2. r \in Nat /\ c \in Nat /\ (n > 0 => r > 0 /\ c > 0)
  BY <1>1, GridIs
<1>3. /\ rows(m) = Smaller(r, (h - g) \div (mincellh + g))
      /\ cols(m) = Smaller(c, (Width - g) \div (mincellw + g))
  BY DEF rows, cols
<1>4. /\ mincellw \in Nat /\ mincellh \in Nat /\ mincellw >= least /\ mincellh >= least
      /\ mincellw > 0 /\ mincellh > 0 /\ Width \in Nat /\ maxgappx \in Nat /\ bh \in Nat
  BY Sizes, Minimum DEF Roomy, least
<1>5. mincellw + 2 * g <= Width /\ mincellh + 2 * g <= h
  <2>1. mincellw + 2 * maxgappx <= Width /\ mincellh + 2 * maxgappx <= m.mh - bh
    BY <1>1 DEF Roomy
  <2> HIDE DEF g, h
  <2> QED  BY <1>1, <1>4, <2>1
<1> HIDE DEF n, g, h, r, c
<1>6. /\ rows(m) \in Nat /\ rows(m) <= r /\ (r > 0 => rows(m) > 0)
      /\ rows(m) * (least + g) + g <= h
  BY ZenonT(40), <1>1, <1>2, <1>3, <1>4, <1>5, LimitIs
<1>7. /\ cols(m) \in Nat /\ cols(m) <= c /\ (c > 0 => cols(m) > 0)
      /\ cols(m) * (least + g) + g <= Width
  BY ZenonT(40), <1>1, <1>2, <1>3, <1>4, <1>5, LimitIs
<1>8. CellsFit(m, h, rows(m)) /\ CellsFit(m, Width, cols(m))
  BY <1>1, <1>4, <1>6, <1>7 DEF CellsFit, g
<1> QED  BY <1>2, <1>6, <1>7, <1>8 DEF n, r, c, h

\* The cells of a side are inside it, large enough and one behind the other.
Cells(m, size, count) ==
    /\ \A k \in 0..(count - 1) : LET c == Cell(m, size, count, k) IN
           c.at \in Nat /\ c.len \in Nat /\ c.len >= least /\ c.at + c.len <= size
    /\ \A j, k \in 0..(count - 1) : LET c == Cell(m, size, count, j) IN
           j < k => c.at + c.len <= Cell(m, size, count, k).at

\* What is divided among the cells, and what is left over.
Net(size, g, count, net, len, rest) ==
    /\ net = size - 2 * g - g * (count - 1)
    /\ len = net \div count /\ rest = net - len * count
Divided(size, g, count, len, rest) ==
    /\ len \in Nat /\ len >= least /\ rest \in Nat
    /\ count * len + count * g + rest + g = size

LEMMA NetIs ==
    ASSUME NEW size \in Nat, NEW g \in Nat, NEW count \in Nat, count > 0,
           count * (least + g) + g <= size,
           NEW net, NEW len, NEW rest, Net(size, g, count, net, len, rest)
    PROVE  Divided(size, g, count, len, rest)
<1>0. /\ net = size - 2 * g - g * (count - 1)
      /\ len = net \div count /\ rest = net - len * count
  BY DEF Net
<1>1. /\ count * (least + g) = count * least + count * g
      /\ g * (count - 1) = count * g - g
      /\ count * least \in Int /\ count * g \in Int
  BY Sizes
<1>2. net = size - g - count * g
  BY <1>0, <1>1
<1> DEFINE u == count * g
<1>3. net \in Int /\ net >= count * least
  <2> DEFINE v == count * least
  <2>1. u \in Int /\ v \in Int /\ net = size - g - u /\ v + u + g <= size
    BY <1>1, <1>2
  <2> HIDE DEF u, v
  <2>2. net \in Int /\ net >= v
    BY <2>1
  <2> QED  BY <2>2 DEF v
<1>4. len \in Nat /\ len >= least
  BY <1>0, <1>3, Sizes, Share
<1>5. count * len <= net /\ len * count = count * len /\ count * len \in Int
  <2>1. count * (net \div count) <= net
    BY <1>3
  <2>2. len * count = count * len /\ count * len \in Int
    BY <1>4
  <2> QED  BY <1>0, <2>1, <2>2
<1> DEFINE z == count * len
<1>6. z <= net /\ rest = net - z /\ z \in Int /\ u \in Int /\ net = size - g - u
  BY <1>0, <1>1, <1>2, <1>5
<1> HIDE DEF z, u
<1>7. rest \in Nat /\ z + u + rest + g = size
  BY <1>3, <1>6
<1> QED  BY <1>4, <1>7 DEF z, u, Divided

\* So many cells take so much.
LEMMA Steps ==
    ASSUME NEW len \in Nat, NEW j \in Nat, NEW k \in Nat, j < k
    PROVE  j * len \in Nat /\ k * len \in Nat /\ j * len + len <= k * len
<1>1. j * len \in Nat /\ k * len \in Nat
  OBVIOUS
<1>2. (j + 1) * len <= k * len
  OBVIOUS
<1>3. (j + 1) * len = j * len + len
  OBVIOUS
<1> QED  BY <1>1, <1>2, <1>3

LEMMA CellsAre ==
    ASSUME NEW m \in Settings, NEW size, NEW count, CellsFit(m, size, count), count > 0,
           Gap(m) \in Nat, ~m.drawwithgaps => Gap(m) = 0
    PROVE  Cells(m, size, count)
<1> DEFINE g == Gap(m)
           net == size - 2 * g - g * (count - 1)
           len == net \div count
           rest == net - len * count
           at(k) == Cell(m, size, count, k).at
           ln(k) == Cell(m, size, count, k).len
<1>1. /\ size \in Nat /\ count \in Nat /\ g \in Nat /\ least \in Nat
      /\ count * (least + g) + g <= size
  BY Sizes DEF CellsFit
<1>2. /\ len \in Nat /\ len >= least /\ rest \in Nat
      /\ count * len + count * g + rest + g = size
  <2>1. Net(size, g, count, net, len, rest)
    BY DEF Net
  <2> HIDE DEF g, net, len, rest
  <2>2. Divided(size, g, count, len, rest)
    BY <1>1, <2>1, NetIs
  <2> QED  BY <2>2 DEF Divided
<1>3. ASSUME NEW k
      PROVE  IF m.drawwithgaps
             THEN /\ at(k) = g + k * (len + g) + Smaller(k, rest)
                  /\ ln(k) = len + (IF k < rest THEN 1 ELSE 0)
             ELSE at(k) = k * len /\ ln(k) = len + (IF k = count - 1 THEN rest ELSE 0)
  BY DEF Cell
<1> HIDE DEF g, net, len, rest, at, ln
<1>4. CASE m.drawwithgaps
  <2> DEFINE b == len + g
             e(k) == k * b
  <2>1. /\ b \in Nat /\ e(count) \in Nat /\ e(count) + rest + g = size
    <3>1. b \in Nat /\ e(count) = count * len + count * g
      BY <1>1, <1>2
    <3>2. e(count) \in Nat
      BY <1>1, <3>1
    <3> QED  BY <1>2, <3>1, <3>2
  <2>2. ASSUME NEW j \in Nat, NEW k \in Nat, j < k
        PROVE  e(j) \in Nat /\ e(k) \in Nat /\ e(j) + b <= e(k)
    <3> HIDE DEF b
    <3> QED  BY <2>1, <2>2, Steps
  <2>3. ASSUME NEW k \in 0..(count - 1)
        PROVE  /\ e(k) \in Nat /\ e(k) + b <= e(count) /\ k \in Nat
               /\ at(k) = g + e(k) + Smaller(k, rest)
               /\ ln(k) = len + (IF k < rest THEN 1 ELSE 0)
    <3>1. k \in Nat /\ k < count
      BY <1>1
    <3>2. at(k) = g + e(k) + Smaller(k, rest) /\ ln(k) = len + (IF k < rest THEN 1 ELSE 0)
      BY <1>3, <1>4
    <3> HIDE DEF e, b
    <3> QED  BY <1>1, <2>2, <3>1, <3>2
  <2>4. b = len + g
    OBVIOUS
  <2> HIDE DEF b, e
  <2>5. ASSUME NEW k \in 0..(count - 1)
        PROVE  at(k) \in Nat /\ ln(k) \in Nat /\ ln(k) >= least /\ at(k) + ln(k) <= size
    <3> DEFINE s == Smaller(k, rest)
               r == IF k < rest THEN 1 ELSE 0
    <3>1. s \in Nat /\ r \in {0, 1} /\ s + r <= rest
      BY <1>2, <2>3 DEF Smaller
    <3>2. at(k) = g + e(k) + s /\ ln(k) = len + r /\ e(k) \in Nat /\ e(k) + b <= e(count)
      BY <2>3
    <3> HIDE DEF s, r
    <3> QED  BY <1>1, <1>2, <2>1, <2>4, <3>1, <3>2
  <2>6. ASSUME NEW j \in 0..(count - 1), NEW k \in 0..(count - 1), j < k
        PROVE  at(j) + ln(j) <= at(k)
    <3> DEFINE s == Smaller(j, rest)
               r == IF j < rest THEN 1 ELSE 0
               t == Smaller(k, rest)
    <3>1. s \in Nat /\ r \in {0, 1} /\ t \in Nat /\ s + r <= t
      BY <1>2, <2>3, <2>6 DEF Smaller
    <3>2. at(j) = g + e(j) + s /\ ln(j) = len + r /\ e(j) \in Nat
      BY <2>3
    <3>3. at(k) = g + e(k) + t /\ e(k) \in Nat
      BY <2>3
    <3>4. e(j) + b <= e(k)
      BY <2>2, <2>3, <2>6
    <3> HIDE DEF s, r, t
    <3> QED  BY <1>1, <1>2, <2>1, <2>4, <3>1, <3>2, <3>3, <3>4
  <2> QED  BY <2>5, <2>6 DEF Cells, at, ln
<1>5. CASE ~m.drawwithgaps
  <2> DEFINE e(k) == k * len
  <2>1. e(count) \in Nat /\ e(count) + rest = size
    <3>1. g = 0 /\ count * g = 0
      BY <1>1, <1>5 DEF g
    <3>2. e(count) \in Nat
      BY <1>1, <1>2
    <3> QED  BY <1>2, <3>1, <3>2
  <2>2. ASSUME NEW j \in Nat, NEW k \in Nat, j < k
        PROVE  e(j) \in Nat /\ e(k) \in Nat /\ e(j) + len <= e(k)
    BY <1>2, <2>2, Steps
  <2>3. ASSUME NEW k \in 0..(count - 1)
        PROVE  /\ e(k) \in Nat /\ e(k) + len <= e(count) /\ k \in Nat
               /\ at(k) = e(k) /\ ln(k) = len + (IF k = count - 1 THEN rest ELSE 0)
    <3>1. k \in Nat /\ k < count
      BY <1>1
    <3>2. at(k) = e(k) /\ ln(k) = len + (IF k = count - 1 THEN rest ELSE 0)
      BY <1>3, <1>5
    <3> HIDE DEF e
    <3> QED  BY <1>1, <2>2, <3>1, <3>2
  <2> HIDE DEF e
  <2>4. ASSUME NEW k \in 0..(count - 1)
        PROVE  at(k) \in Nat /\ ln(k) \in Nat /\ ln(k) >= least /\ at(k) + ln(k) <= size
    <3> DEFINE r == IF k = count - 1 THEN rest ELSE 0
    <3>1. r \in Nat /\ r <= rest
      BY <1>2
    <3>2. at(k) = e(k) /\ ln(k) = len + r /\ e(k) \in Nat /\ e(k) + len <= e(count)
      BY <2>3
    <3> HIDE DEF r
    <3> QED  BY <1>1, <1>2, <2>1, <3>1, <3>2
  <2>5. ASSUME NEW j \in 0..(count - 1), NEW k \in 0..(count - 1), j < k
        PROVE  at(j) + ln(j) <= at(k)
    <3>1. j # count - 1
      BY <1>1, <2>5
    <3>2. at(j) = e(j) /\ ln(j) = len /\ at(k) = e(k)
      BY <1>2, <2>3, <3>1
    <3>3. e(j) + len <= e(k)
      BY <2>2, <2>3, <2>5
    <3> QED  BY <3>2, <3>3
  <2> QED  BY <2>4, <2>5 DEF Cells, at, ln
<1> QED  BY <1>4, <1>5

\* The cell of a window: one column after the other, from the top.
LEMMA CellOf ==
    ASSUME NEW r \in Nat, r > 0, NEW x \in Nat
    PROVE  /\ x \div r \in Nat /\ x % r \in 0..(r - 1) /\ x = r * (x \div r) + (x % r)
<1>1. x \div r \in Nat
  <2>1. x >= r * 0
    OBVIOUS
  <2> QED  BY <2>1, Share
<1>2. x % r \in 0..(r - 1) /\ x = r * (x \div r) + (x % r)
  OBVIOUS
<1> QED  BY <1>1, <1>2

LEMMA CellsDiffer ==
    ASSUME NEW r \in Nat, r > 0, NEW x \in Nat, NEW y \in Nat, x < y
    PROVE  x \div r < y \div r \/ (x \div r = y \div r /\ x % r < y % r)
<1> DEFINE a == x \div r
           b == y \div r
           c == x % r
           d == y % r
<1>1. /\ a \in Nat /\ b \in Nat /\ c \in 0..(r - 1) /\ d \in 0..(r - 1)
      /\ x = r * a + c /\ y = r * b + d
  BY CellOf
<1> HIDE DEF a, b, c, d
<1>2. CASE a < b
  BY <1>2 DEF a, b
<1>3. CASE a = b
  <2>1. r * a = r * b /\ r * a \in Int
    BY <1>1, <1>3
  <2>2. c < d
    BY <1>1, <2>1
  <2> QED  BY <1>3, <2>2 DEF a, b, c, d
<1>4. CASE b < a
  <2>1. r * b + r <= r * a
    <3>1. r * (b + 1) <= r * a
      BY <1>1, <1>4
    <3>2. r * (b + 1) = r * b + r
      BY <1>1
    <3> QED  BY <3>1, <3>2
  <2>2. r * a \in Int /\ r * b \in Int
    BY <1>1
  <2> QED  BY <1>1, <2>1, <2>2
<1> QED  BY <1>1, <1>2, <1>3, <1>4

LEMMA CellsSuffice ==
    ASSUME NEW r \in Nat, r > 0, NEW c \in Nat, NEW x \in Nat, x < r * c
    PROVE  x \div r \in 0..(c - 1)
<1> DEFINE a == x \div r
<1>1. a \in Nat /\ x >= r * a
  <2>1. x % r \in 0..(r - 1) /\ x = r * (x \div r) + (x % r) /\ a \in Nat
    BY CellOf
  <2> DEFINE u == r * a
             v == x % r
  <2>2. u \in Int /\ v >= 0 /\ v \in Int /\ x = u + v
    BY <2>1
  <2> HIDE DEF u, v
  <2>3. x >= u
    BY <2>2
  <2> QED  BY <2>1, <2>3 DEF u
<1> HIDE DEF a
<1>2. ASSUME a >= c
      PROVE  FALSE
  <2>1. r * a >= r * c /\ r * a \in Int /\ r * c \in Int
    BY <1>1, <1>2
  <2> QED  BY <1>1, <2>1
<1>3. a \in 0..(c - 1)
  BY <1>1, <1>2
<1> QED  BY <1>3 DEF a

\* Whatever cell a window is given, its place has a position and a size.
LEMMA PlaceRect ==
    ASSUME NEW x \in Int, NEW y \in Int, NEW w \in Int, NEW h \in Int, NEW b \in BOOLEAN,
           NEW p, p = Place(x, y, w - 2 * bw, h - 2 * bw, b)
    PROVE  p \in Rect /\ p.fits = b
<1> DEFINE pw == Larger(bh, w - 2 * bw) + 2 * bw
           ph == Larger(bh, h - 2 * bw) + 2 * bw
<1>1. p = [x |-> x, y |-> y, w |-> pw, h |-> ph, fits |-> b]
  BY DEF Place
<1>2. pw \in Int /\ ph \in Int
  BY Sizes DEF Larger
<1> HIDE DEF pw, ph
<1> QED  BY <1>1, <1>2 DEF Rect

LEMMA CellInts ==
    ASSUME NEW m, Gap(m) \in Nat, NEW size \in Nat, NEW count \in Nat, count > 0,
           NEW k \in Nat
    PROVE  Cell(m, size, count, k).at \in Int /\ Cell(m, size, count, k).len \in Int
<1> DEFINE g == Gap(m)
           net == size - 2 * g - g * (count - 1)
           len == net \div count
           rest == net - len * count
<1>1. net \in Int
  OBVIOUS
<1> HIDE DEF net
<1>2. len \in Int
  BY <1>1
<1> HIDE DEF len
<1>3. rest \in Int
  BY <1>1, <1>2
<1>4. Cell(m, size, count, k) =
          IF m.drawwithgaps
          THEN [at |-> g + k * (len + g) + Smaller(k, rest),
                len |-> len + (IF k < rest THEN 1 ELSE 0)]
          ELSE [at |-> k * len, len |-> len + (IF k = count - 1 THEN rest ELSE 0)]
  BY DEF Cell, rest, len, net
<1> HIDE DEF rest, g
<1>5. Smaller(k, rest) \in Int /\ k * (len + g) \in Int /\ k * len \in Int /\ g \in Nat
  BY <1>2, <1>3 DEF Smaller, g
<1> QED  BY <1>2, <1>3, <1>4, <1>5

LEMMA GridLaidOut ==
    ASSUME Roomy, NEW m \in Settings
    PROVE  LaidOut(Grid(m), m.n, Width, wh(m), FALSE)
<1> DEFINE n == m.n
           h == wh(m)
           r == rows(m)
           c == cols(m)
           col(k) == (k - 1) \div r
           row(k) == (k - 1) % r
           fit(k) == k <= r * c
           across(i) == Cell(m, Width, c, i)
           down(i) == Cell(m, h, r, i)
           q == Grid(m)
<1>1. DOMAIN q = 1..n /\ \A k \in 1..n : q[k] =
          Place(across(col(k)).at, down(row(k)).at, across(col(k)).len - 2 * bw,
                down(row(k)).len - 2 * bw, fit(k))
  <2> DEFINE u(k) == Place(across(col(k)).at, down(row(k)).at, across(col(k)).len - 2 * bw,
                           down(row(k)).len - 2 * bw, fit(k))
  <2>1. q = [k \in 1..n |-> u(k)]
    BY DEF Grid
  <2> HIDE DEF u, q
  <2>2. DOMAIN q = 1..n /\ \A k \in 1..n : q[k] = u(k)
    BY <2>1
  <2> QED  BY <2>2 DEF u
<1>2. n \in Nat /\ Gap(m) \in Nat /\ (~m.drawwithgaps => Gap(m) = 0) /\ h \in Nat /\ Width \in Nat
  BY Measures DEF RoomFor
<1>3. /\ r \in Nat /\ c \in Nat
      /\ n > 0 => r > 0 /\ c > 0 /\ CellsFit(m, h, r) /\ CellsFit(m, Width, c)
  BY RowsCols
<1> HIDE DEF q, n, h, r, c
<1>4. ASSUME n > 0
      PROVE  Cells(m, Width, c) /\ Cells(m, h, r)
  BY <1>2, <1>3, <1>4, CellsAre
<1>a. ASSUME NEW k \in 1..n
      PROVE  q[k] \in Rect /\ (q[k].fits <=> fit(k))
  <2>1. n > 0 /\ k - 1 \in Nat
    BY <1>2
  <2> DEFINE i == col(k)
             j == row(k)
  <2>2. i \in Nat /\ j \in Nat
    BY <1>3, <2>1, CellOf
  <2> DEFINE x == across(i).at
             w == across(i).len
             y == down(j).at
             v == down(j).len
  <2> HIDE DEF i, j, fit
  <2>3. x \in Int /\ w \in Int /\ y \in Int /\ v \in Int
    BY <1>2, <1>3, <2>1, <2>2, CellInts
  <2>4. q[k] = Place(x, y, w - 2 * bw, v - 2 * bw, fit(k))
    BY <1>1 DEF i, j
  <2> HIDE DEF x, y, w, v
  <2>5. fit(k) \in BOOLEAN
    BY DEF fit
  <2> QED  BY <2>3, <2>4, <2>5, PlaceRect
<1>5. ASSUME NEW k \in 1..n, q[k].fits
      PROVE  /\ n > 0 /\ r > 0 /\ col(k) \in 0..(c - 1) /\ row(k) \in 0..(r - 1) /\ k - 1 \in Nat
             /\ Exactly(q[k], across(col(k)).at, down(row(k)).at,
                        across(col(k)).len, down(row(k)).len)
             /\ across(col(k)).at \in Nat /\ across(col(k)).len \in Nat
             /\ down(row(k)).at \in Nat /\ down(row(k)).len \in Nat
             /\ across(col(k)).at + across(col(k)).len <= Width
             /\ down(row(k)).at + down(row(k)).len <= h
  <2>0. fit(k)
    BY <1>5, <1>a
  <2>1. n > 0 /\ r > 0 /\ k - 1 \in Nat /\ k - 1 < r * c
    <3> DEFINE u == r * c
    <3>1. u \in Int /\ k <= u
      BY <1>3, <2>0
    <3>2. n > 0
      BY <1>2
    <3> HIDE DEF u
    <3>3. k - 1 \in Nat /\ k - 1 < u
      BY <1>2, <3>1
    <3> QED  BY <1>3, <3>2, <3>3 DEF u
  <2>2. col(k) \in 0..(c - 1)
    BY <1>3, <2>1, CellsSuffice
  <2>3. row(k) \in 0..(r - 1)
    BY <1>3, <2>1, CellOf
  <2> DEFINE x == across(col(k)).at
             w == across(col(k)).len
             y == down(row(k)).at
             v == down(row(k)).len
  <2> HIDE DEF col, row
  <2>4. x \in Nat /\ w \in Nat /\ w >= least /\ x + w <= Width
    BY <1>4, <2>1, <2>2 DEF Cells
  <2>5. y \in Nat /\ v \in Nat /\ v >= least /\ y + v <= h
    BY <1>4, <2>1, <2>3 DEF Cells
  <2>6. q[k] = Place(x, y, w - 2 * bw, v - 2 * bw, TRUE)
    <3>1. q[k] = Place(x, y, w - 2 * bw, v - 2 * bw, fit(k))
      BY <1>1 DEF col, row
    <3>2. fit(k) = TRUE
      BY <2>0
    <3> HIDE DEF fit, x, y, w, v
    <3> QED  BY <3>1, <3>2
  <2> HIDE DEF x, y, w, v
  <2>7. x \in Int /\ y \in Int /\ w \in Int /\ v \in Int
    BY <2>4, <2>5
  <2>8. Exactly(q[k], x, y, w, v)
    BY <2>4, <2>5, <2>6, <2>7, PlaceExactly
  <2> QED  BY <2>1, <2>2, <2>3, <2>4, <2>5, <2>8 DEF x, y, w, v
<1>6. ASSUME NEW k \in 1..n, q[k].fits
      PROVE  Within(q[k], Width, h)
  <2> DEFINE x == across(col(k)).at
             w == across(col(k)).len
             y == down(row(k)).at
             v == down(row(k)).len
  <2>1. /\ Exactly(q[k], x, y, w, v) /\ x \in Nat /\ y \in Nat
        /\ x + w <= Width /\ y + v <= h
    BY <1>5, <1>6
  <2> HIDE DEF x, y, w, v
  <2> QED  BY <2>1 DEF Exactly, Within
<1>7. ASSUME NEW j \in 1..n, NEW k \in 1..n, j < k, q[j].fits, q[k].fits
      PROVE  Disjoint(q[j], q[k])
  <2>1. /\ r > 0 /\ j - 1 \in Nat /\ k - 1 \in Nat /\ j - 1 < k - 1 /\ n > 0
        /\ col(j) \in 0..(c - 1) /\ col(k) \in 0..(c - 1)
        /\ row(j) \in 0..(r - 1) /\ row(k) \in 0..(r - 1)
    <3>1. j - 1 < k - 1
      BY <1>2, <1>7
    <3> HIDE DEF col, row
    <3> QED  BY <1>5, <1>7, <3>1
  <2>2. col(j) < col(k) \/ (col(j) = col(k) /\ row(j) < row(k))
    BY <1>3, <2>1, CellsDiffer
  <2>3. /\ q[j].x = across(col(j)).at /\ q[j].w = across(col(j)).len
        /\ q[j].y = down(row(j)).at /\ q[j].h = down(row(j)).len
    BY <1>5, <1>7 DEF Exactly
  <2>4. q[k].x = across(col(k)).at /\ q[k].y = down(row(k)).at
    BY <1>5, <1>7 DEF Exactly
  <2> HIDE DEF col, row
  <2>5. CASE col(j) < col(k)
    <3>1. across(col(j)).at + across(col(j)).len <= across(col(k)).at
      BY <1>4, <2>1, <2>5 DEF Cells
    <3> QED  BY <2>3, <2>4, <3>1 DEF Disjoint
  <2>6. CASE row(j) < row(k)
    <3>1. down(row(j)).at + down(row(j)).len <= down(row(k)).at
      BY <1>4, <2>1, <2>6 DEF Cells
    <3> QED  BY <2>3, <2>4, <3>1 DEF Disjoint
  <2> QED  BY <2>2, <2>5, <2>6
<1>8. LaidOut(q, n, Width, h, FALSE)
  BY <1>1, <1>a, <1>6, <1>7 DEF LaidOut, Apart
<1> QED  BY <1>8 DEF q, n, h

-----------------------------------------------------------------------------
(* arrangemon.                                                             *)

Piled(m) == m.layout \in {"doubledeck", "zetadeck"}

\* Where no pile is allowed there is none.
LEMMA NoPile ==
    ASSUME NEW q, NEW n, NEW w, NEW h, NEW piles, LaidOut(q, n, w, h, FALSE)
    PROVE  LaidOut(q, n, w, h, piles)
BY DEF LaidOut, Apart

LEMMA RoomToTileIs ==
    ASSUME Roomy, NEW m \in Settings
    PROVE  /\ RoomToSplit(m, Width) /\ RoomBehind(m, wh(m), m.mh) =>
                  RoomToTile(m, Width, wh(m), m.mh)
           /\ RoomToSplit(m, wh(m)) /\ RoomBehind(m, Width, Width) =>
                  RoomToTile(m, wh(m), Width, Width)
BY Measures DEF RoomToTile

LEMMA ArrangedLaidOut ==
    ASSUME Roomy, NEW m \in Settings, HasRoom(m)
    PROVE  LaidOut(Arranged(m), m.n, Width, wh(m), Piled(m))
<1>1. m.layout \in Layout /\ m.n \in Nat /\ m.drawwithgaps \in BOOLEAN
  BY Measures DEF Settings
<1>2. CASE m.layout = "tile"
  <2>1. Arranged(m) = Tile(m, Width, wh(m), m.mh).places
    BY <1>2 DEF Arranged
  <2>2. LaidOut(Tile(m, Width, wh(m), m.mh).places, m.n, Width, wh(m), FALSE)
    BY <1>2, RoomToTileIs, TileLaidOut DEF HasRoom
  <2> QED  BY <2>1, <2>2, NoPile
<1>3. CASE m.layout = "grid"
  <2>1. Arranged(m) = Grid(m)
    BY <1>3 DEF Arranged
  <2>2. LaidOut(Grid(m), m.n, Width, wh(m), FALSE)
    BY GridLaidOut
  <2> QED  BY <2>1, <2>2, NoPile
<1>4. CASE m.layout = "doubledeck"
  <2>1. Arranged(m) = Deck(m, Width, wh(m))
    BY <1>4 DEF Arranged
  <2>2. LaidOut(Deck(m, Width, wh(m)), m.n, Width, wh(m), TRUE)
    BY <1>4, Measures, DeckLaidOut DEF HasRoom
  <2> QED  BY <1>4, <2>1, <2>2 DEF Piled
<1>5. CASE m.layout = "zetadeck"
  <2>1. Arranged(m) = Mirror(Deck(m, wh(m), Width))
    BY <1>5 DEF Arranged
  <2>2. LaidOut(Deck(m, wh(m), Width), m.n, wh(m), Width, TRUE)
    BY <1>5, Measures, DeckLaidOut DEF HasRoom
  <2>3. LaidOut(Mirror(Deck(m, wh(m), Width)), m.n, Width, wh(m), TRUE)
    BY <1>1, <2>2, MirrorIs
  <2> QED  BY <1>5, <2>1, <2>3 DEF Piled
<1>6. CASE m.layout = "bstack" /\ m.drawwithgaps
  <2>1. Arranged(m) = Mirror(Tile(m, wh(m), Width, Width).places)
    BY <1>6 DEF Arranged, BstackGaps
  <2>2. LaidOut(Tile(m, wh(m), Width, Width).places, m.n, wh(m), Width, FALSE)
    BY <1>6, RoomToTileIs, TileLaidOut DEF HasRoom
  <2>3. LaidOut(Mirror(Tile(m, wh(m), Width, Width).places), m.n, Width, wh(m), FALSE)
    BY <1>1, <2>2, MirrorIs
  <2> QED  BY <2>1, <2>3, NoPile
<1>7. CASE m.layout = "bstack" /\ ~m.drawwithgaps
  <2>1. Arranged(m) = BstackPlain(m)
    BY <1>7 DEF Arranged
  <2>2. LaidOut(BstackPlain(m), m.n, Width, wh(m), FALSE)
    BY <1>7, BstackPlainLaidOut DEF HasRoom
  <2> QED  BY <2>1, <2>2, NoPile
<1> QED  BY <1>1, <1>2, <1>3, <1>4, <1>5, <1>6, <1>7 DEF Layout

\* tile, bstack, doubledeck, zetadeck, grid and applysizehints: on a screen
\* that is large enough, a layout whose split leaves room puts no window it has
\* a place for outside the window area, whatever the gaps and the number of
\* masters and windows, and wherever the pointer left the factor.
THEOREM WindowsStayInArea == Roomy => (Spec => []InArea)
<1> SUFFICES ASSUME Roomy
             PROVE  Spec => []InArea
  OBVIOUS
<1>1. mon \in Settings => InArea
  <2> SUFFICES ASSUME mon \in Settings, HasRoom(mon)
               PROVE  \A k \in 1..mon.n : Arranged(mon)[k].fits => Inside(Arranged(mon)[k], mon)
    BY DEF InArea
  <2>1. LaidOut(Arranged(mon), mon.n, Width, wh(mon), Piled(mon))
    BY ArrangedLaidOut
  <2> QED  BY <2>1 DEF LaidOut, Within, Inside
<1> QED  BY <1>1, SettingsTyped, PTL

\* The same of the overlap of two windows: there is none, and the decks pile
\* them up exactly.
THEOREM WindowsNeverOverlap == Roomy => (Spec => []NoOverlap)
<1> SUFFICES ASSUME Roomy
             PROVE  Spec => []NoOverlap
  OBVIOUS
<1>1. mon \in Settings => NoOverlap
  <2> SUFFICES ASSUME mon \in Settings, HasRoom(mon),
                      NEW j \in 1..mon.n, NEW k \in 1..mon.n, j < k,
                      Arranged(mon)[j].fits, Arranged(mon)[k].fits
               PROVE  \/ Disjoint(Arranged(mon)[j], Arranged(mon)[k])
                      \/ /\ mon.layout \in {"doubledeck", "zetadeck"}
                         /\ Same(Arranged(mon)[j], Arranged(mon)[k])
    BY DEF NoOverlap
  <2>1. LaidOut(Arranged(mon), mon.n, Width, wh(mon), Piled(mon))
    BY ArrangedLaidOut
  <2> QED  BY <2>1 DEF LaidOut, Apart, Piled
<1> QED  BY <1>1, SettingsTyped, PTL

\* tile, bstack and grid: where what smfact reserves leaves the first gap, no
\* unsigned difference wraps round at any window, whatever the factor of the
\* split; grid never divides by 0, and is short of cells only where the screen
\* limits its rows or columns.
THEOREM NothingWraps == Roomy => (Spec => []NoWrap)
<1> SUFFICES ASSUME Roomy
             PROVE  Spec => []NoWrap
  OBVIOUS
<1>1. mon \in Settings => NoWrap
  <2> SUFFICES ASSUME mon \in Settings
               PROVE  NoWrap
    OBVIOUS
  <2>1. RoomBehind(mon, wh(mon), mon.mh) => Tile(mon, Width, wh(mon), mon.mh).low >= 0
    BY Measures, TileLow DEF RoomFor
  <2>2. RoomBehind(mon, Width, Width) => BstackGaps(mon).low >= 0
    BY Measures, Sizes, TileLow DEF BstackGaps
  <2>3. mon.n > 0 => rows(mon) > 0 /\ cols(mon) > 0
    BY RowsCols
  <2>4. \/ rows(mon) * cols(mon) >= mon.n
        \/ rows(mon) < GridRows(mon.n)
        \/ cols(mon) < GridCols(mon.n)
    <3> DEFINE r == rows(mon)
               c == cols(mon)
               k == GridRows(mon.n)
               l == GridCols(mon.n)
    <3>1. /\ r \in Nat /\ c \in Nat /\ r <= k /\ c <= l
          /\ k \in Nat /\ l \in Nat /\ k * l >= mon.n
      BY Measures, RowsCols, GridIs
    <3> HIDE DEF r, c, k, l
    <3>2. r * c >= mon.n \/ r < k \/ c < l
      <4> SUFFICES ASSUME ~(r < k), ~(c < l)
                   PROVE  r * c >= mon.n
        OBVIOUS
      <4>1. r = k /\ c = l
        BY <3>1
      <4> QED  BY <3>1, <4>1
    <3> QED  BY <3>2 DEF r, c, k, l
  <2> QED  BY <2>1, <2>2, <2>3, <2>4 DEF NoWrap
<1> QED  BY <1>1, SettingsTyped, PTL
=============================================================================
