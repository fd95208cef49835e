------------------------------- MODULE Pertag -------------------------------
(***************************************************************************)
(* The settings dwm keeps for each tag (struct Pertag in dwm.c): number of *)
(* masters and layouts.  A monitor shows a set of tags but has the         *)
(* settings of one, curtag; 0 stands for the view of everything.  The four *)
(* factors are written like nmaster in incnmaster and are left out.        *)
(***************************************************************************)
EXTENDS Integers

CONSTANTS
    NTags,       \* LENGTH(tags)
    NLayouts,    \* LENGTH(layouts) - 1: the last entry ends the array
    nmaxmaster,
    taglayouts   \* the layout each tag starts with

ASSUME TagsAssumption == NTags \in Nat /\ NTags >= 2
ASSUME LayoutsAssumption == NLayouts \in Nat /\ NLayouts >= 2
ASSUME MasterAssumption == nmaxmaster \in Nat \ {0}
ASSUME DefaultsAssumption == taglayouts \in [0..(NTags - 1) -> 0..(NLayouts - 1)]

VARIABLES
    mon,
    boot         \* how far setdeflayouts has come; NTags + 1: the event loop runs
vars == <<mon, boot>>

Tag == 0..(NTags - 1)
Layout == 0..(NLayouts - 1)
Settings == [nmaster : 0..nmaxmaster, sellt : 0..1, lt : [0..1 -> Layout]]
Monitor == [tagset : [0..1 -> (SUBSET Tag) \ {{}}], seltags : 0..1,
            curtag : 0..NTags, prevtag : 0..NTags,
            now : Settings,                  \* nmaster, sellt, lt of the monitor
            kept : [0..NTags -> Settings]]   \* those of each tag

Shown(m) == m.tagset[m.seltags]
Low(t) == CHOOSE b \in t : \A d \in t : b <= d

\* createmon
Fresh ==
    LET s == [nmaster |-> 1, sellt |-> 0, lt |-> [i \in 0..1 |-> i]]
    IN  [tagset |-> [i \in 0..1 |-> {0}], seltags |-> 0, curtag |-> 1, prevtag |-> 1,
         now |-> s, kept |-> [t \in 0..NTags |-> s]]

\* "apply settings for this view"
Apply(m) == [m EXCEPT !.now = m.kept[m.curtag]]

FaultView(m, t) ==                              \* prevtag is not kept up
    IF t = Shown(m) THEN m
    ELSE LET m1 == [m EXCEPT !.seltags = 1 - @]
         IN  Apply(IF t # {}
                   THEN [m1 EXCEPT !.tagset[m1.seltags] = t,
                                   !.curtag = IF t = Tag THEN 0 ELSE Low(t) + 1]
                   ELSE [m1 EXCEPT !.prevtag = m.curtag, !.curtag = m.prevtag])
\* view; Tag is the argument ~0, {} goes back to the previous view.
View(m, t) ==
    IF t = Shown(m) THEN m
    ELSE LET m1 == [m EXCEPT !.seltags = 1 - @, !.prevtag = m.curtag]
         IN  Apply(IF t # {}
                   THEN [m1 EXCEPT !.tagset[m1.seltags] = t,
                                   !.curtag = IF t = Tag THEN 0 ELSE Low(t) + 1]
                   ELSE [m1 EXCEPT !.curtag = m.prevtag])

\* The settings s with layout i selected, and with v in its place.
Selected(s, i) == [s EXCEPT !.sellt = i]
Chosen(s, i, v) == [s EXCEPT !.sellt = i, !.lt[i] = v]

\* setlayout, which writes the monitor and the tag: a layout that is not the
\* selected one takes the place of the other one, which becomes selected.
SetLayout(m, v) ==
    LET i == IF v = m.now.lt[m.now.sellt] THEN m.now.sellt ELSE 1 - m.kept[m.curtag].sellt
    IN  [m EXCEPT !.now = Chosen(@, i, v), !.kept[m.curtag] = Chosen(@, i, v)]
\* setlayout without an argument.
OtherLayout(m) ==
    LET i == 1 - m.kept[m.curtag].sellt
    IN  [m EXCEPT !.now = Selected(@, i), !.kept[m.curtag] = Selected(@, i)]

Init == mon = Fresh /\ boot = 0

\* setdeflayouts, before the first event: each tag with an entry other than
\* 0 is viewed and given its layout.  Then the default tag is viewed.
setdeflayout ==
    /\ boot < NTags /\ boot' = boot + 1
    /\ mon' = IF taglayouts[boot] = 0 THEN mon
              ELSE SetLayout(View(mon, {boot}), taglayouts[boot])
viewdeftag == boot = NTags /\ boot' = boot + 1 /\ mon' = View(mon, {0})
-----------------------------------------------------------------------------
\* view, and tag with viewontag.
view(t) == mon' = View(mon, t)

\* The view with its tags shifted round, by k places.
Shifted(t, k) == {(b + k) % NTags : b \in t}

\* shiftviewclients: as many places as it takes to see a client.
shiftviewclients(k) == mon' = View(mon, Shifted(Shown(mon), k))

\* rotatetags and swaptag leave pertag alone.
rotatetags(k) == mon' = [mon EXCEPT !.tagset[mon.seltags] = Shifted(@, k)]
swaptag(t) ==
    /\ \E b \in Tag : Shown(mon) = {b}
    /\ mon' = [mon EXCEPT !.tagset[mon.seltags] = {t}]

FaultToggledTo(m, set, c) ==                   \* the settings are not applied
    [m EXCEPT !.tagset[m.seltags] = set,
              !.prevtag = IF c # m.curtag THEN m.curtag ELSE @, !.curtag = c]
\* The view gets the tags of set, and the settings of tag c.
ToggledTo(m, set, c) ==
    Apply([m EXCEPT !.tagset[m.seltags] = set,
                    !.prevtag = IF c # m.curtag THEN m.curtag ELSE @, !.curtag = c])
\* toggleview: curtag stays when it is in the new view.  With curtag 0 the
\* test shifts by -1, which C leaves undefined: it may come out either way.
\* (The test for ~0U never holds: the set is masked.)
toggleview(b) ==
    LET set == IF b \in Shown(mon) THEN Shown(mon) \ {b} ELSE Shown(mon) \cup {b}
        stay == mon.curtag - 1 \in set
    IN  /\ set # {}
        /\ \/ (stay \/ mon.curtag = 0) /\ mon' = ToggledTo(mon, set, mon.curtag)
           \/ ~stay /\ mon' = ToggledTo(mon, set, Low(set) + 1)

setlayout(v) == mon' = SetLayout(mon, v)
otherlayout == mon' = OtherLayout(mon)
\* cyclelayout goes round the array, up or down.
cyclelayout(d) == mon' = SetLayout(mon, (mon.now.lt[mon.now.sellt] + d) % NLayouts)

\* incnmaster, when a tiled client is selected (nminmaster is 0).
incnmaster(d) ==
    LET n == mon.now.nmaster + d
    IN  /\ n \in 0..nmaxmaster
        /\ mon' = [mon EXCEPT !.now.nmaster = n, !.kept[mon.curtag].nmaster = n]
\* resetnmaster does not store the number.
resetnmaster(n) == mon' = [mon EXCEPT !.now.nmaster = n]

Event ==
    \/ \E t \in {{b} : b \in Tag} \cup {Tag, {}} : view(t)
    \/ \E k \in 1..(NTags - 1) : shiftviewclients(k) \/ rotatetags(k)
    \/ \E b \in Tag : swaptag(b) \/ toggleview(b)
    \/ \E v \in Layout : setlayout(v)
    \/ \E d \in {-1, 1} : cyclelayout(d) \/ incnmaster(d)
    \/ \E n \in {0, nmaxmaster} : resetnmaster(n)
    \/ otherlayout
Next == setdeflayout \/ viewdeftag \/ (boot = NTags + 1 /\ Event /\ UNCHANGED boot)

Spec == Init /\ [][Next]_vars
-----------------------------------------------------------------------------
(* Properties.                                                             *)

\* Every field has its type: curtag and prevtag index the arrays of Pertag,
\* and no view is empty.
PertagTypeOK == mon \in Monitor /\ boot \in 0..(NTags + 1)

\* The layouts in effect are those kept for curtag, however the view came
\* about: what view, toggleview and setlayout write in two places agrees.
LayoutsOfCurtag(m) ==
    /\ m.now.sellt = m.kept[m.curtag].sellt
    /\ m.now.lt = m.kept[m.curtag].lt
LayoutApplied == LayoutsOfCurtag(mon)

\* There and back: looking at other tags and returning with view({0}) gives
\* the same view with the same layouts, also after rotatetags, swaptag and
\* toggleview have left curtag out of the view.  (nmaster is not promised:
\* resetnmaster does not store it.)
ThereAndBack ==
    \A t \in {{b} : b \in Tag} \cup {Tag} : t # Shown(mon) =>
        LET back == View(View(mon, t), {})
        IN  /\ Shown(back) = Shown(mon) /\ back.curtag = mon.curtag
            /\ back.now.sellt = mon.now.sellt /\ back.now.lt = mon.now.lt
=============================================================================
