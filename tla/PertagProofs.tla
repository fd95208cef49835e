---------------------------- MODULE PertagProofs ----------------------------
(***************************************************************************)
(* That the settings in effect are those kept for curtag, and that view    *)
(* and back is no change, for any number of tags and layouts.              *)
(***************************************************************************)
EXTENDS Pertag, ClientListsProofs

\* What every step of dwm keeps.
Sound(m) == m \in Monitor /\ LayoutsOfCurtag(m)
PertagInv == boot \in 0..(NTags + 1) /\ Sound(mon)

\* The lowest tag of a view is one of its tags.
LEMMA LowIn ==
    ASSUME NEW t \in SUBSET Tag, t # {}
    PROVE  Low(t) \in Tag /\ Low(t) \in t
<1>1. t \subseteq Nat
  BY TagsAssumption DEF Tag
<1>2. \E b \in t : \A d \in t : b <= d
  BY <1>1, LeastNatural
<1> QED  BY <1>2 DEF Low

\* The parts of a monitor.
LEMMA MonitorFields ==
    ASSUME NEW m \in Monitor
    PROVE  /\ m.tagset \in [0..1 -> (SUBSET Tag) \ {{}}] /\ m.seltags \in 0..1
           /\ m.curtag \in 0..NTags /\ m.prevtag \in 0..NTags
           /\ m.now \in Settings /\ m.kept \in [0..NTags -> Settings]
           /\ Shown(m) \in (SUBSET Tag) \ {{}}
           /\ m = [tagset |-> m.tagset, seltags |-> m.seltags, curtag |-> m.curtag,
                   prevtag |-> m.prevtag, now |-> m.now, kept |-> m.kept]
BY DEF Monitor, Shown

\* Two fields of a monitor replaced at a time.
LEMMA ReplaceTags ==
    ASSUME NEW m \in Monitor, NEW g, NEW h
    PROVE  [m EXCEPT !.seltags = g, !.prevtag = h] =
           [tagset |-> m.tagset, seltags |-> g, curtag |-> m.curtag,
            prevtag |-> h, now |-> m.now, kept |-> m.kept]
<1>1. PICK r : r = [m EXCEPT !.seltags = g]
  OBVIOUS
<1>2. r = [tagset |-> m.tagset, seltags |-> g, curtag |-> m.curtag,
           prevtag |-> m.prevtag, now |-> m.now, kept |-> m.kept]
  BY <1>1, MonitorFields
<1>3. [r EXCEPT !.prevtag = h] =
          [tagset |-> m.tagset, seltags |-> g, curtag |-> m.curtag,
           prevtag |-> h, now |-> m.now, kept |-> m.kept]
  BY <1>2
<1>4. [m EXCEPT !.seltags = g, !.prevtag = h] = [r EXCEPT !.prevtag = h]
  BY <1>1 DEF Monitor
<1> QED  BY <1>3, <1>4

\* Two fields written at once.
LEMMA ReplaceSettings ==
    ASSUME NEW m \in Monitor, NEW a, NEW b
    PROVE  [m EXCEPT !.now = a, !.kept[m.curtag] = b] =
           [tagset |-> m.tagset, seltags |-> m.seltags, curtag |-> m.curtag,
            prevtag |-> m.prevtag, now |-> a, kept |-> [m.kept EXCEPT ![m.curtag] = b]]
<1>1. PICK r : r = [m EXCEPT !.now = a]
  OBVIOUS
<1>2. r = [tagset |-> m.tagset, seltags |-> m.seltags, curtag |-> m.curtag,
           prevtag |-> m.prevtag, now |-> a, kept |-> m.kept]
  BY <1>1, MonitorFields
<1>3. [r EXCEPT !.kept[m.curtag] = b] =
          [tagset |-> m.tagset, seltags |-> m.seltags, curtag |-> m.curtag,
           prevtag |-> m.prevtag, now |-> a, kept |-> [m.kept EXCEPT ![m.curtag] = b]]
  BY <1>2
<1>4. [m EXCEPT !.now = a, !.kept[m.curtag] = b] = [r EXCEPT !.kept[m.curtag] = b]
  BY <1>1 DEF Monitor
<1> QED  BY <1>3, <1>4

\* Applying the settings of curtag makes a monitor sound.
LEMMA ApplySound ==
    ASSUME NEW m \in Monitor
    PROVE  /\ Sound(Apply(m))
           /\ Apply(m).tagset = m.tagset /\ Apply(m).seltags = m.seltags
           /\ Apply(m).curtag = m.curtag /\ Apply(m).prevtag = m.prevtag
           /\ Apply(m).now = m.kept[m.curtag] /\ Apply(m).kept = m.kept
<1>1. Apply(m) = [tagset |-> m.tagset, seltags |-> m.seltags, curtag |-> m.curtag,
                  prevtag |-> m.prevtag, now |-> m.kept[m.curtag], kept |-> m.kept]
  BY MonitorFields DEF Apply
<1>2. m.kept[m.curtag] \in Settings
  BY MonitorFields
<1>3. Apply(m) \in Monitor
  BY <1>1, <1>2, MonitorFields DEF Monitor
<1> QED  BY <1>1, <1>3 DEF Sound, LayoutsOfCurtag

\* The view that view(t) leaves, before its settings are applied.
Turned(m, t) ==
    LET m1 == [m EXCEPT !.seltags = 1 - @, !.prevtag = m.curtag]
    IN  IF t # {} THEN [m1 EXCEPT !.tagset[m1.seltags] = t,
                                  !.curtag = IF t = Tag THEN 0 ELSE Low(t) + 1]
        ELSE [m1 EXCEPT !.curtag = m.prevtag]

\* What view does before it applies the settings.
LEMMA TurnedIs ==
    ASSUME NEW m \in Monitor, NEW t \in SUBSET Tag
    PROVE  /\ Turned(m, t) \in Monitor
           /\ Turned(m, t).seltags = 1 - m.seltags
           /\ Turned(m, t).prevtag = m.curtag
           /\ Turned(m, t).now = m.now /\ Turned(m, t).kept = m.kept
           /\ t = {} => /\ Turned(m, t).curtag = m.prevtag
                        /\ Turned(m, t).tagset = m.tagset
           /\ t # {} => Turned(m, t).tagset = [m.tagset EXCEPT ![1 - m.seltags] = t]
<1> DEFINE c == IF t = Tag THEN 0 ELSE Low(t) + 1
           m1 == [m EXCEPT !.seltags = 1 - @, !.prevtag = m.curtag]
<1>a. m1 = [tagset |-> m.tagset, seltags |-> 1 - m.seltags, curtag |-> m.curtag,
            prevtag |-> m.curtag, now |-> m.now, kept |-> m.kept]
  <2>1. PICK g : g = 1 - m.seltags
    OBVIOUS
  <2>2. m1 = [m EXCEPT !.seltags = g, !.prevtag = m.curtag]
    BY <2>1
  <2> HIDE DEF m1
  <2> QED  BY <2>1, <2>2, ReplaceTags
<1>b. Turned(m, t) = IF t # {} THEN [m1 EXCEPT !.tagset[m1.seltags] = t, !.curtag = c]
                     ELSE [m1 EXCEPT !.curtag = m.prevtag]
  BY DEF Turned
<1> HIDE DEF m1
<1>0. t # {} => c \in 0..NTags
  BY LowIn, TagsAssumption DEF Tag
<1>1. t = {} => Turned(m, t) =
          [tagset |-> m.tagset, seltags |-> 1 - m.seltags, curtag |-> m.prevtag,
           prevtag |-> m.curtag, now |-> m.now, kept |-> m.kept]
  BY <1>a, <1>b
<1>2. t # {} => Turned(m, t) =
          [tagset |-> [m.tagset EXCEPT ![1 - m.seltags] = t], seltags |-> 1 - m.seltags,
           curtag |-> c, prevtag |-> m.curtag, now |-> m.now, kept |-> m.kept]
  BY <1>a, <1>b
<1>3. 1 - m.seltags \in 0..1
  BY MonitorFields
<1>4. t # {} => [m.tagset EXCEPT ![1 - m.seltags] = t] \in [0..1 -> (SUBSET Tag) \ {{}}]
  BY <1>3, MonitorFields
<1> HIDE DEF c
<1>5. CASE t = {}
  BY <1>1, <1>3, <1>5, MonitorFields DEF Monitor
<1>6. CASE t # {}
  BY <1>0, <1>2, <1>3, <1>4, <1>6, MonitorFields DEF Monitor
<1> QED  BY <1>5, <1>6

\* dwm.c, view: what is shown afterwards has the settings kept for it.
LEMMA ViewSound ==
    ASSUME NEW m, Sound(m), NEW t \in SUBSET Tag
    PROVE  /\ Sound(View(m, t))
           /\ t # Shown(m) => View(m, t) = Apply(Turned(m, t))
<1>1. View(m, t) = IF t = Shown(m) THEN m ELSE Apply(Turned(m, t))
  BY DEF View, Turned
<1>2. Turned(m, t) \in Monitor
  BY TurnedIs DEF Sound
<1> QED  BY <1>1, <1>2, ApplySound

\* The view with its tags shifted round is a view.
LEMMA ShiftedIn ==
    ASSUME NEW t \in (SUBSET Tag) \ {{}}, NEW k \in Int
    PROVE  Shifted(t, k) \in (SUBSET Tag) \ {{}}
<1>1. ASSUME NEW b \in Tag
      PROVE  (b + k) % NTags \in Tag
  BY TagsAssumption DEF Tag
<1>2. Shifted(t, k) # {}
  BY DEF Shifted
<1> QED  BY <1>1, <1>2 DEF Shifted

\* Another set of tags in view.
LEMMA TagsetSound ==
    ASSUME NEW m, Sound(m), NEW t \in (SUBSET Tag) \ {{}}
    PROVE  Sound([m EXCEPT !.tagset[m.seltags] = t])
<1>1. PICK r : r = [m EXCEPT !.tagset[m.seltags] = t]
  OBVIOUS
<1>2. r = [tagset |-> [m.tagset EXCEPT ![m.seltags] = t], seltags |-> m.seltags,
           curtag |-> m.curtag, prevtag |-> m.prevtag, now |-> m.now, kept |-> m.kept]
  BY <1>1, MonitorFields DEF Sound
<1>3. [m.tagset EXCEPT ![m.seltags] = t] \in [0..1 -> (SUBSET Tag) \ {{}}]
  BY MonitorFields DEF Sound
<1>4. r \in Monitor
  BY <1>2, <1>3, MonitorFields DEF Sound, Monitor
<1> QED  BY <1>1, <1>2, <1>4 DEF Sound, LayoutsOfCurtag

\* Settings for the monitor and for the tag that agree on the layouts.
LEMMA StoredSound ==
    ASSUME NEW m, Sound(m), NEW a \in Settings, NEW b \in Settings,
           a.sellt = b.sellt, a.lt = b.lt,
           NEW r, r = [m EXCEPT !.now = a, !.kept[m.curtag] = b]
    PROVE  Sound(r)
<1>2. r = [tagset |-> m.tagset, seltags |-> m.seltags, curtag |-> m.curtag,
           prevtag |-> m.prevtag, now |-> a, kept |-> [m.kept EXCEPT ![m.curtag] = b]]
  BY ReplaceSettings DEF Sound
<1>3. [m.kept EXCEPT ![m.curtag] = b] \in [0..NTags -> Settings]
  BY MonitorFields DEF Sound
<1>4. r \in Monitor
  BY <1>2, <1>3, MonitorFields DEF Sound, Monitor
<1>5. r.kept[r.curtag] = b
  <2>1. r.kept = [m.kept EXCEPT ![m.curtag] = b] /\ r.curtag = m.curtag
    BY <1>2
  <2>2. m.curtag \in DOMAIN m.kept
    BY MonitorFields DEF Sound
  <2> QED  BY <2>1, <2>2
<1> QED  BY <1>2, <1>4, <1>5 DEF Sound, LayoutsOfCurtag

\* The settings that setlayout writes.
LEMMA SelectedIn ==
    ASSUME NEW s \in Settings, NEW i \in 0..1
    PROVE  /\ Selected(s, i) \in Settings
           /\ Selected(s, i).sellt = i /\ Selected(s, i).lt = s.lt
BY DEF Selected, Settings

\* Settings with a layout chosen.
LEMMA ChosenIn ==
    ASSUME NEW s \in Settings, NEW i \in 0..1, NEW v \in Layout
    PROVE  /\ Chosen(s, i, v) \in Settings
           /\ Chosen(s, i, v).sellt = i /\ Chosen(s, i, v).lt = [s.lt EXCEPT ![i] = v]
<1>1. PICK r : r = Selected(s, i)
  OBVIOUS
<1>2. r = [nmaster |-> s.nmaster, sellt |-> i, lt |-> s.lt] /\ r \in Settings
  BY <1>1, SelectedIn DEF Selected, Settings
<1>3. [r EXCEPT !.lt[i] = v] =
          [nmaster |-> s.nmaster, sellt |-> i, lt |-> [s.lt EXCEPT ![i] = v]]
  BY <1>2
<1>4. Chosen(s, i, v) = [r EXCEPT !.lt[i] = v]
  BY <1>1 DEF Chosen, Selected, Settings
<1>5. [s.lt EXCEPT ![i] = v] \in [0..1 -> Layout] /\ s.nmaster \in 0..nmaxmaster
  BY DEF Settings
<1> QED  BY <1>3, <1>4, <1>5 DEF Settings

\* The settings of the monitor and those of its tag.
LEMMA SettingsOf ==
    ASSUME NEW m, Sound(m)
    PROVE  /\ m.now \in Settings /\ m.kept[m.curtag] \in Settings
           /\ m.now.sellt \in 0..1 /\ m.now.lt \in [0..1 -> Layout]
           /\ m.now.nmaster \in 0..nmaxmaster
           /\ m.kept[m.curtag].sellt = m.now.sellt /\ m.kept[m.curtag].lt = m.now.lt
<1>1. m.now \in Settings /\ m.kept[m.curtag] \in Settings
  BY MonitorFields DEF Sound
<1> QED  BY <1>1 DEF Sound, LayoutsOfCurtag, Settings

\* setlayout with a layout,
LEMMA SetLayoutSound ==
    ASSUME NEW m, Sound(m), NEW v \in Layout
    PROVE  Sound(SetLayout(m, v))
<1>1. PICK i : i = IF v = m.now.lt[m.now.sellt] THEN m.now.sellt
                   ELSE 1 - m.kept[m.curtag].sellt
  OBVIOUS
<1>2. i \in 0..1
  BY <1>1, SettingsOf
<1>3. PICK a : a = Chosen(m.now, i, v)
  OBVIOUS
<1>4. PICK b : b = Chosen(m.kept[m.curtag], i, v)
  OBVIOUS
<1>5. SetLayout(m, v) = [m EXCEPT !.now = a, !.kept[m.curtag] = b]
  BY <1>1, <1>3, <1>4 DEF SetLayout, Sound, Monitor
<1>6. a \in Settings /\ a.sellt = i /\ a.lt = [m.now.lt EXCEPT ![i] = v]
  BY <1>2, <1>3, SettingsOf, ChosenIn
<1>7. /\ b \in Settings /\ b.sellt = i
      /\ b.lt = [m.kept[m.curtag].lt EXCEPT ![i] = v]
  BY <1>2, <1>4, SettingsOf, ChosenIn
<1>8. m.kept[m.curtag].lt = m.now.lt
  BY SettingsOf
<1>9. a.sellt = b.sellt /\ a.lt = b.lt
  BY <1>6, <1>7, <1>8
<1>10. a \in Settings /\ b \in Settings
  BY <1>6, <1>7
<1> QED  BY <1>5, <1>9, <1>10, StoredSound

\* and without one, keeps both copies in step.
LEMMA OtherLayoutSound ==
    ASSUME NEW m, Sound(m)
    PROVE  Sound(OtherLayout(m))
<1>1. PICK i : i = 1 - m.kept[m.curtag].sellt
  OBVIOUS
<1>2. i \in 0..1
  BY <1>1, SettingsOf
<1>3. PICK a : a = Selected(m.now, i)
  OBVIOUS
<1>4. PICK b : b = Selected(m.kept[m.curtag], i)
  OBVIOUS
<1>5. OtherLayout(m) = [m EXCEPT !.now = a, !.kept[m.curtag] = b]
  BY <1>1, <1>3, <1>4 DEF OtherLayout, Sound, Monitor
<1>6. a \in Settings /\ b \in Settings /\ a.sellt = b.sellt /\ a.lt = b.lt
  BY <1>2, <1>3, <1>4, SettingsOf, SelectedIn
<1> QED  BY <1>5, <1>6, StoredSound

\* toggleview: the view changes, and with it perhaps curtag.
LEMMA ToggledToSound ==
    ASSUME NEW m, Sound(m), NEW set \in (SUBSET Tag) \ {{}}, NEW c \in 0..NTags
    PROVE  Sound(ToggledTo(m, set, c))
<1> DEFINE p == IF c # m.curtag THEN m.curtag ELSE m.prevtag
           q == [m.tagset EXCEPT ![m.seltags] = set]
<1>1. PICK r : r = [m EXCEPT !.tagset[m.seltags] = set]
  OBVIOUS
<1>2. r = [tagset |-> q, seltags |-> m.seltags, curtag |-> m.curtag,
           prevtag |-> m.prevtag, now |-> m.now, kept |-> m.kept]
  BY <1>1, MonitorFields DEF Sound
<1>3. PICK u : u = [r EXCEPT !.prevtag = p]
  OBVIOUS
<1>4. u = [tagset |-> q, seltags |-> m.seltags, curtag |-> m.curtag,
           prevtag |-> p, now |-> m.now, kept |-> m.kept]
  BY <1>2, <1>3
<1>5. PICK w : w = [u EXCEPT !.curtag = c]
  OBVIOUS
<1>6. w = [tagset |-> q, seltags |-> m.seltags, curtag |-> c,
           prevtag |-> p, now |-> m.now, kept |-> m.kept]
  BY <1>4, <1>5
<1>7. ToggledTo(m, set, c) = Apply(w)
  BY <1>1, <1>3, <1>5 DEF ToggledTo, Sound, Monitor
<1>8. q \in [0..1 -> (SUBSET Tag) \ {{}}] /\ p \in 0..NTags
  BY MonitorFields DEF Sound
<1>9. w \in Monitor
  BY <1>6, <1>8, MonitorFields DEF Sound, Monitor
<1> QED  BY <1>7, <1>9, ApplySound

\* Another number of masters, stored (incnmaster) or not (resetnmaster).
LEMMA NmasterSound ==
    ASSUME NEW m, Sound(m), NEW n \in 0..nmaxmaster
    PROVE  /\ Sound([m EXCEPT !.now.nmaster = n, !.kept[m.curtag].nmaster = n])
           /\ Sound([m EXCEPT !.now.nmaster = n])
<1>1. PICK a : a = [m.now EXCEPT !.nmaster = n]
  OBVIOUS
<1>2. PICK b : b = [m.kept[m.curtag] EXCEPT !.nmaster = n]
  OBVIOUS
<1>3. a \in Settings /\ a.sellt = m.now.sellt /\ a.lt = m.now.lt
  BY <1>1, SettingsOf DEF Settings
<1>4. b \in Settings /\ b.sellt = m.now.sellt /\ b.lt = m.now.lt
  BY <1>2, SettingsOf DEF Settings
<1>5. PICK r : r = [m EXCEPT !.now.nmaster = n, !.kept[m.curtag].nmaster = n]
  OBVIOUS
<1>6. r = [m EXCEPT !.now = a, !.kept[m.curtag] = b]
  BY <1>1, <1>2, <1>5 DEF Sound, Monitor
<1>7. Sound(r)
  BY <1>3, <1>4, <1>6, StoredSound
<1>8. PICK u : u = [m EXCEPT !.now.nmaster = n]
  OBVIOUS
<1>9. u = [tagset |-> m.tagset, seltags |-> m.seltags, curtag |-> m.curtag,
           prevtag |-> m.prevtag, now |-> a, kept |-> m.kept]
  BY <1>1, <1>8, MonitorFields DEF Sound
<1>10. u \in Monitor
  BY <1>3, <1>9, MonitorFields DEF Sound, Monitor
<1>11. u.now = a /\ u.kept[u.curtag] = m.kept[m.curtag]
  BY <1>9
<1>12. Sound(u)
  BY <1>3, <1>10, <1>11, SettingsOf DEF Sound, LayoutsOfCurtag
<1> QED  BY <1>5, <1>7, <1>8, <1>12

\* createmon: a new monitor is sound.
LEMMA FreshSound == Sound(Fresh)
<1>1. PICK s : s = [nmaster |-> 1, sellt |-> 0, lt |-> [i \in 0..1 |-> i]]
  OBVIOUS
<1>2. s \in Settings
  BY <1>1, LayoutsAssumption, MasterAssumption DEF Settings, Layout
<1>3. Fresh = [tagset |-> [i \in 0..1 |-> {0}], seltags |-> 0, curtag |-> 1, prevtag |-> 1,
               now |-> s, kept |-> [t \in 0..NTags |-> s]]
  BY <1>1 DEF Fresh
<1>4. [i \in 0..1 |-> {0}] \in [0..1 -> (SUBSET Tag) \ {{}}] /\ 1 \in 0..NTags
  BY TagsAssumption DEF Tag
<1>5. Fresh \in Monitor
  BY <1>2, <1>3, <1>4 DEF Monitor
<1>6. Fresh.now = s /\ Fresh.kept[Fresh.curtag] = s
  BY <1>3, <1>4
<1> QED  BY <1>5, <1>6 DEF Sound, LayoutsOfCurtag

\* Every event keeps a monitor sound.
LEMMA EventSound ==
    ASSUME Sound(mon), Event
    PROVE  Sound(mon')
<1>1. ASSUME NEW t \in SUBSET Tag, view(t) PROVE Sound(mon')
  BY <1>1, ViewSound DEF view
<1>2. Shown(mon) \in (SUBSET Tag) \ {{}} /\ mon \in Monitor
  BY MonitorFields DEF Sound
<1>3. ASSUME NEW k \in 1..(NTags - 1), shiftviewclients(k) PROVE Sound(mon')
  <2>1. Shifted(Shown(mon), k) \in SUBSET Tag
    BY <1>2, ShiftedIn
  <2> QED  BY <1>3, <2>1, ViewSound DEF shiftviewclients
<1>4. ASSUME NEW k \in 1..(NTags - 1), rotatetags(k) PROVE Sound(mon')
  <2>1. Shifted(Shown(mon), k) \in (SUBSET Tag) \ {{}}
    BY <1>2, ShiftedIn
  <2>2. mon' = [mon EXCEPT !.tagset[mon.seltags] = Shifted(Shown(mon), k)]
    BY <1>2, <1>4 DEF rotatetags, Shown, Monitor
  <2> QED  BY <2>1, <2>2, TagsetSound
<1>5. ASSUME NEW b \in Tag, swaptag(b) PROVE Sound(mon')
  <2>1. {b} \in (SUBSET Tag) \ {{}}
    OBVIOUS
  <2> QED  BY <1>5, <2>1, TagsetSound DEF swaptag
<1>6. ASSUME NEW b \in Tag, toggleview(b) PROVE Sound(mon')
  <2> DEFINE set == IF b \in Shown(mon) THEN Shown(mon) \ {b} ELSE Shown(mon) \cup {b}
  <2>1. set \in (SUBSET Tag) \ {{}}
    BY <1>2, <1>6 DEF toggleview
  <2>2. mon' = ToggledTo(mon, set, mon.curtag) \/ mon' = ToggledTo(mon, set, Low(set) + 1)
    BY <1>6 DEF toggleview
  <2> HIDE DEF set
  <2>3. Low(set) + 1 \in 0..NTags /\ mon.curtag \in 0..NTags
    BY <1>2, <2>1, LowIn, MonitorFields, TagsAssumption DEF Tag
  <2> QED  BY <2>1, <2>2, <2>3, ToggledToSound
<1>7. ASSUME NEW v \in Layout, setlayout(v) PROVE Sound(mon')
  BY <1>7, SetLayoutSound DEF setlayout
<1>8. ASSUME NEW d \in {-1, 1}, cyclelayout(d) PROVE Sound(mon')
  <2>1. mon.now.lt[mon.now.sellt] \in Layout
    BY SettingsOf
  <2>2. (mon.now.lt[mon.now.sellt] + d) % NLayouts \in Layout
    BY <2>1, LayoutsAssumption DEF Layout
  <2> QED  BY <1>8, <2>2, SetLayoutSound DEF cyclelayout
<1>9. ASSUME NEW d \in {-1, 1}, incnmaster(d) PROVE Sound(mon')
  <2>1. mon.now.nmaster + d \in 0..nmaxmaster
    BY <1>9 DEF incnmaster
  <2> QED  BY <1>9, <2>1, NmasterSound DEF incnmaster
<1>10. ASSUME NEW n \in {0, nmaxmaster}, resetnmaster(n) PROVE Sound(mon')
  <2>1. n \in 0..nmaxmaster
    BY MasterAssumption
  <2> QED  BY <1>10, <2>1, NmasterSound DEF resetnmaster
<1>11. CASE otherlayout
  BY <1>11, OtherLayoutSound DEF otherlayout
<1>12. \A t \in {{b} : b \in Tag} \cup {Tag, {}} : t \in SUBSET Tag
  OBVIOUS
<1> QED
  BY <1>1, <1>3, <1>4, <1>5, <1>6, <1>7, <1>8, <1>9, <1>10, <1>11, <1>12 DEF Event

\* Startup and every event keep it.
THEOREM PertagInvariant == Spec => []PertagInv
<1>1. Init => PertagInv
  BY FreshSound, TagsAssumption DEF Init, PertagInv
<1>2. PertagInv /\ [Next]_vars => PertagInv'
  <2> SUFFICES ASSUME PertagInv, [Next]_vars PROVE PertagInv'
    OBVIOUS
  <2>1. CASE UNCHANGED vars
    BY <2>1 DEF vars, PertagInv, Sound, LayoutsOfCurtag
  <2>2. CASE setdeflayout
    <3>1. boot \in Tag /\ boot' \in 0..(NTags + 1)
      BY <2>2, TagsAssumption DEF setdeflayout, PertagInv, Tag
    <3>2. taglayouts[boot] \in Layout
      BY <3>1, DefaultsAssumption DEF Tag, Layout
    <3>3. Sound(View(mon, {boot}))
      BY <3>1, ViewSound DEF PertagInv
    <3>4. Sound(SetLayout(View(mon, {boot}), taglayouts[boot]))
      BY <3>2, <3>3, SetLayoutSound
    <3> QED  BY <2>2, <3>1, <3>4 DEF setdeflayout, PertagInv
  <2>3. CASE viewdeftag
    <3>1. {0} \in SUBSET Tag
      BY TagsAssumption DEF Tag
    <3>2. Sound(mon') /\ boot' \in 0..(NTags + 1)
      BY <2>3, <3>1, ViewSound, TagsAssumption DEF viewdeftag, PertagInv
    <3> QED  BY <3>2 DEF PertagInv
  <2>4. CASE Event /\ UNCHANGED boot
    BY <2>4, EventSound DEF PertagInv
  <2> QED  BY <2>1, <2>2, <2>3, <2>4 DEF Next
<1> QED  BY <1>1, <1>2, PTL DEF Spec

\* dwm.c, struct Pertag: curtag and prevtag stay within its arrays and no
\* view is ever empty, for any number of tags and layouts.
THEOREM PertagTypes == Spec => []PertagTypeOK
<1>1. PertagInv => PertagTypeOK
  BY DEF PertagInv, PertagTypeOK, Sound
<1> QED  BY <1>1, PertagInvariant, PTL

\* dwm.c, view, toggleview and setlayout: the layouts in effect are those
\* kept for curtag.
THEOREM PertagLayouts == Spec => []LayoutApplied
<1>1. PertagInv => LayoutApplied
  BY DEF PertagInv, LayoutApplied, Sound
<1> QED  BY <1>1, PertagInvariant, PTL

\* dwm.c, view: to another view and back with view(0) is no change of the
\* view, of curtag and of the layouts.
THEOREM PertagThereAndBack == Spec => []ThereAndBack
<1>1. ASSUME Sound(mon) PROVE ThereAndBack
  <2> SUFFICES ASSUME NEW t \in {{b} : b \in Tag} \cup {Tag}, t # Shown(mon)
               PROVE  LET back == View(View(mon, t), {})
                      IN  /\ Shown(back) = Shown(mon) /\ back.curtag = mon.curtag
                          /\ back.now.sellt = mon.now.sellt /\ back.now.lt = mon.now.lt
    BY DEF ThereAndBack
  <2>1. t \in SUBSET Tag /\ t # {}
    <3>1. 0 \in Tag
      BY TagsAssumption DEF Tag
    <3> QED  BY <3>1
  <2>2. PICK there : there = View(mon, t)
    OBVIOUS
  <2>3. PICK u : u = Turned(mon, t)
    OBVIOUS
  <2>4. there = Apply(u) /\ Sound(there) /\ u \in Monitor
    BY <1>1, <2>1, <2>2, <2>3, ViewSound, TurnedIs DEF Sound
  <2>5. /\ there.seltags = 1 - mon.seltags /\ there.prevtag = mon.curtag
        /\ there.tagset = [mon.tagset EXCEPT ![1 - mon.seltags] = t]
        /\ there.kept = mon.kept
    BY <1>1, <2>1, <2>3, <2>4, ApplySound, TurnedIs DEF Sound
  <2>6. mon.seltags \in 0..1 /\ mon.tagset \in [0..1 -> (SUBSET Tag) \ {{}}]
    BY <1>1, MonitorFields DEF Sound
  <2>7. Shown(there) # {}
    BY <2>1, <2>5, <2>6 DEF Shown
  <2>8. PICK back : back = View(there, {})
    OBVIOUS
  <2>9. PICK w : w = Turned(there, {})
    OBVIOUS
  <2>10. back = Apply(w) /\ w \in Monitor
    BY <2>4, <2>7, <2>8, <2>9, ViewSound, TurnedIs DEF Sound
  <2>11. /\ back.seltags = 1 - there.seltags /\ back.curtag = there.prevtag
         /\ back.tagset = there.tagset /\ back.now = there.kept[there.prevtag]
    <3>1. /\ w.seltags = 1 - there.seltags /\ w.curtag = there.prevtag
          /\ w.tagset = there.tagset /\ w.kept = there.kept
      BY <2>4, <2>9, TurnedIs DEF Sound
    <3> QED  BY <2>10, <3>1, ApplySound
  <2>12. back.seltags = mon.seltags /\ back.curtag = mon.curtag
         /\ back.now = mon.kept[mon.curtag]
    BY <2>5, <2>6, <2>11
  <2>13. Shown(back) = Shown(mon)
    BY <2>5, <2>6, <2>11, <2>12 DEF Shown
  <2>14. back.now.sellt = mon.now.sellt /\ back.now.lt = mon.now.lt
    BY <1>1, <2>12 DEF Sound, LayoutsOfCurtag
  <2> QED  BY <2>2, <2>8, <2>12, <2>13, <2>14
<1>2. PertagInv => ThereAndBack
  BY <1>1 DEF PertagInv
<1> QED  BY <1>2, PertagInvariant, PTL
=============================================================================
