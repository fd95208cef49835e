-------------------------------- MODULE Dwm --------------------------------
(***************************************************************************)
(* dwm as the main loop of src/src/dwm/dwm.c runs it: one event, one       *)
(* handler, run to its end.  The two exceptions are the mouse functions,   *)
(* whose own event loops dispatch MapRequest until the button is released. *)
(*                                                                         *)
(* A handler is an operator from the state before to the state after; the  *)
(* action of the same name adds the event and its argument.  Key bindings  *)
(* and client messages may come at any time and in any order.              *)
(***************************************************************************)
EXTENDS DwmState

CONSTANTS
    Bound,       \* the handlers and key bindings that this instance has
    HeadCounts,  \* the numbers of heads Xinerama may report
    RuleTags,    \* the tags of the entries of rules[] that have some
    Hints,       \* the properties a new window may carry
    NMaster      \* the values nmaster may have

ASSUME HeadsAssumption == HeadCounts # {} /\ HeadCounts \subseteq Mon
ASSUME RuleAssumption == RuleTags \subseteq (SUBSET Tag) \ {{}}
ASSUME HintsAssumption == Hints \subseteq {"float", "full", "sticky", "noinput"}
ASSUME NMasterAssumption == NMaster \subseteq Nat

VARIABLE wm
vars == <<wm>>

Dir == {-1, 1}
\* The arguments in TAGKEYS and in the tag bar, and the two of their own.
OneTag == {{b} : b \in Tag}
ViewArg == OneTag \cup {Tag, {}}
TagArg == OneTag \cup {Tag}
Heads == 1..wm.nmons
Loop(h) == wm.ok /\ h \in Bound                \* also inside a mouse function
Main(h) == Loop(h) /\ wm.grab = "none"         \* the main loop only

Init == \E n \in HeadCounts : wm = InitState(n)
-----------------------------------------------------------------------------
(* Windows come and go.                                                    *)

\* manage, from the point where monitor and tags are known.  setfullscreen
\* in updatewindowtype comes before the dialog and transient hints.
Manage(s, c, m, t, hints, k) ==
    LET s1 == [s EXCEPT !.live = @ \cup {c}, !.lit = @ \ {c},
                        !.mon[c] = m, !.tags[c] = t,
                        !.floating = IF "float" \in hints THEN @ \cup {c} ELSE @,
                        !.neverfocus = IF "noinput" \in hints THEN @ \cup {c} ELSE @]
        s2 == SetSticky(SetFullscreen(s1, c, "full" \in hints), c, "sticky" \in hints)
        s3 == Link(s2, c, k)
        s4 == IF m = s.selmon THEN Unfocus(s3, Sel(s3), FALSE) ELSE s3
    IN  Focus([s4 EXCEPT !.sel[m] = c], NULL)

\* applyrules: the tags of the rules that match, or those in view; a
\* transient window takes monitor and tags of its parent and floats.
\* (No entry of rules[] names a monitor.)
maprequest(c) ==
    /\ Loop("maprequest") /\ c \notin wm.live
    /\ \E k \in NMaster, hints \in SUBSET Hints :
        \/ \E t \in RuleTags \cup {TagSet(wm, wm.selmon)} :
               wm' = Manage(wm, c, wm.selmon, t, hints, k)
        \/ \E p \in Listed(wm) :
               wm' = Manage(wm, c, wm.mon[p], wm.tags[p],
                            IF "full" \in hints THEN hints \ {"float"}
                            ELSE hints \cup {"float"}, k)

\* The freed fields get one value: nothing reads them while c is free.  When
\* its window goes, the server gives the focus back to the root.
Free(s, c) ==
    [s EXCEPT !.live = @ \ {c}, !.lit = @ \ {c}, !.mon[c] = 1, !.tags[c] = {},
              !.sticky = @ \ {c}, !.floating = @ \ {c},
              !.full = @ \ {c}, !.oldstate = @ \ {c},
              !.neverfocus = @ \ {c}, !.focusins = @ \ {c},
              !.xfocus = IF @ = c THEN NULL ELSE @]
FaultUnmanage(s, c) == Free(Unlink(s, c), c)    \* no new focus
Unmanage(s, c) == Focus(Free(Unlink(s, c), c), NULL)

FaultDestroynotify(c) ==                        \* served in a mouse loop too
    /\ Loop("destroynotify") /\ c \in Listed(wm)
    /\ wm' = Unmanage(wm, c)
\* Both handlers; a window that no list clients holds is not found.
destroynotify(c) ==
    /\ Main("destroynotify") /\ c \in Listed(wm)
    /\ wm' = Unmanage(wm, c)

\* A program gives the input focus to a window, without asking dwm.
stealfocus(c) ==
    /\ Loop("stealfocus") /\ c \in Listed(wm)
    /\ wm' = [wm EXCEPT !.xfocus = c, !.focusins = @ \cup {c}]
FaultFocusin(c) ==                              \* the test turned round
    /\ Main("focusin") /\ c \in wm.focusins
    /\ wm' = [wm EXCEPT !.focusins = @ \ {c},
                        !.xfocus = IF c = Sel(wm) THEN Keyboard(wm, c) ELSE @]
\* dwm hears of it.
focusin(c) ==
    /\ Main("focusin") /\ c \in wm.focusins
    /\ wm' = [wm EXCEPT !.focusins = @ \ {c},
                        !.xfocus = IF Sel(wm) # NULL /\ c # Sel(wm)
                                   THEN Keyboard(wm, Sel(wm)) ELSE @]
-----------------------------------------------------------------------------
(* Moving the focus.                                                       *)

FaultFocusMon(s, dir) ==                        \* no unfocus
    IF s.nmons = 1 THEN s
    ELSE Focus([s EXCEPT !.selmon = DirToMon(s, dir)], NULL)
FocusMon(s, dir) ==
    IF s.nmons = 1 THEN s
    ELSE Focus([Unfocus(s, Sel(s), FALSE) EXCEPT !.selmon = DirToMon(s, dir)], NULL)
focusmon(dir) == Main("focusmon") /\ wm' = FocusMon(wm, dir)

FaultFocusStack(s, dir) ==                      \* forwards, no wrap to the head
    LET q == s.clients[s.selmon]
        sel == Sel(s)
        next == IF dir > 0 THEN FirstOr(Behind(q, sel), Visible(s), NULL)
                ELSE LastOr(Cons(sel, Behind(q, sel)) \o InFront(q, sel), Visible(s), NULL)
    IN  IF sel = NULL \/ sel \in s.full \/ next = NULL THEN s ELSE Focus(s, next)
\* lockfullscreen is set: no leaving a fullscreen client from the keyboard.
\* Backwards, the loop compares with sel up to the end of the list.
FocusStack(s, dir) ==
    LET q == s.clients[s.selmon]
        sel == Sel(s)
        next == IF dir > 0 THEN FirstOr(Behind(q, sel) \o q, Visible(s), NULL)
                ELSE LastOr(Cons(sel, Behind(q, sel)) \o InFront(q, sel), Visible(s), NULL)
    IN  IF sel = NULL \/ sel \in s.full THEN s
        ELSE IF dir < 0 /\ sel \notin Range(q) THEN Crash(s)
        ELSE IF next = NULL THEN s ELSE Focus(s, next)
focusstack(dir) == Main("focusstack") /\ wm' = FocusStack(wm, dir)

\* From a client to the master, and from the master back to the client
\* marked when it was left.  (With nmaster > 1 the key does nothing.)
FocusMaster(s) ==
    LET sel == Sel(s)
        master == FirstTiled(s, s.clients[s.selmon])
        mark == s.tagmarked[s.selmon][MarkIndex(s)]
    IN  IF sel = NULL \/ sel \in s.full \/ master = NULL THEN s
        ELSE IF sel # master
        THEN Focus([s EXCEPT !.tagmarked[s.selmon][MarkIndex(s)] = sel], master)
        ELSE IF mark = NULL THEN s
        ELSE IF mark \notin s.live THEN Crash(s)
        ELSE IF mark \in Visible(s) THEN Focus(s, mark) ELSE s
focusmaster == Main("focusmaster") /\ wm' = FocusMaster(wm)

\* swapfocus only compares prevclient, which may have been freed, with the
\* clients of the list.
SwapFocus(s) ==
    IF s.prevclient = NULL \/ Sel(s) = NULL THEN s
    ELSE IF Sel(s) = s.prevclient THEN FocusStack(s, -1)
    ELSE IF s.prevclient \in Range(s.clients[s.selmon]) THEN Focus(s, s.prevclient)
    ELSE s
swapfocus == Main("swapfocus") /\ wm' = SwapFocus(wm)

\* The first SameMax clients of the class of sel that the tags in view show, in
\* a ring; what focussame has no room for it does not see.
SameMax == 32
\* The next one in the ring, or the one before;
\* from outside the ring to an end of it, which an empty one does not have.
FocusSame(s, class, dir) ==
    LET all == Keep(s.clients[s.selmon],
                    {c \in class : s.tags[c] \cap TagSet(s, s.selmon) # {}})
        n == IF Len(all) < SameMax THEN Len(all) ELSE SameMax
        ring == SubSeq(all, 1, n)
        i == Index(ring, Sel(s)) - 1
    IN  IF n = 0 THEN Crash(s)
        ELSE IF Sel(s) \in Range(ring) THEN Focus(s, ring[((i + dir + n) % n) + 1])
        ELSE Focus(s, IF dir > 0 THEN ring[1] ELSE ring[n])
focussame(dir) ==
    /\ Main("focussame") /\ Sel(wm) # NULL
    /\ \E class \in SUBSET Client : Sel(wm) \in class /\ wm' = FocusSame(wm, class, dir)

\* buttonpress in a client's window, in the bar or in the root window.  A
\* press in a client reaches dwm through the grab of an unfocused client, or
\* with the modifier, before the mouse functions.
ToMon(s, m) ==
    IF m = s.selmon THEN s
    ELSE Focus([Unfocus(s, Sel(s), TRUE) EXCEPT !.selmon = m], NULL)
Click(s, c) == Focus(ToMon(s, s.mon[c]), c)
clickmon(m) == Main("buttonpress") /\ wm' = ToMon(wm, m)
clickclient(c) ==
    /\ Main("buttonpress") /\ c \in Listed(wm) \cap Visible(wm) /\ c \notin wm.lit
    /\ wm' = Click(wm, c)
-----------------------------------------------------------------------------
(* Tags.  t is the argument & TAGMASK.                                     *)

view(t) == Main("view") /\ wm' = View(wm, t)

ToggleSet(a, b) == (a \ b) \cup (b \ a)

FaultToggleView(s, t) ==                        \* arrange without focus(NULL)
    LET new == ToggleSet(TagSet(s, s.selmon), t)
    IN  IF new = {} THEN s
        ELSE [s EXCEPT !.tagset[s.selmon][s.seltags[s.selmon]] = new]
ToggleView(s, t) ==
    LET new == ToggleSet(TagSet(s, s.selmon), t)
    IN  IF new = {} THEN s
        ELSE Focus([s EXCEPT !.tagset[s.selmon][s.seltags[s.selmon]] = new], NULL)
toggleview(t) == Main("toggleview") /\ wm' = ToggleView(wm, t)

FaultTagSel(s, t) ==                            \* the view does not follow
    LET s1 == Focus([s EXCEPT !.tags[Sel(s)] = t], NULL)
    IN  IF Sel(s) = NULL \/ t = {} THEN s
        ELSE IF Sel(s1) = NULL THEN Crash(s1) ELSE s1
\* With viewontag the view follows; updateclientdesktop then reads sel.
TagSel(s, t) ==
    LET s1 == Focus([s EXCEPT !.tags[Sel(s)] = t], NULL)
        s2 == IF ViewOnTag /\ t # Tag THEN View(s1, t) ELSE s1
    IN  IF Sel(s) = NULL \/ t = {} THEN s
        ELSE IF Sel(s2) = NULL THEN Crash(s2) ELSE s2
tag(t) == Main("tag") /\ wm' = TagSel(wm, t)

FaultToggleTag(s, t) ==                         \* the last tag may go
    IF Sel(s) = NULL THEN s
    ELSE Focus([s EXCEPT !.tags[Sel(s)] = ToggleSet(@, t)], NULL)
ToggleTag(s, t) ==
    LET new == ToggleSet(s.tags[Sel(s)], t)
    IN  IF Sel(s) = NULL \/ new = {} THEN s
        ELSE Focus([s EXCEPT !.tags[Sel(s)] = new], NULL)
toggletag(t) == Main("toggletag") /\ wm' = ToggleTag(wm, t)

FaultSwapTag(s, t) ==                           \* one way only
    LET cur == TagSet(s, s.selmon)
    IN  IF t = cur \/ Cardinality(cur) # 1 THEN s
        ELSE Focus([s EXCEPT
                 !.tags = [c \in Client |->
                     IF c \in Range(s.clients[s.selmon]) /\ cur \subseteq @[c]
                     THEN (@[c] \ cur) \cup t ELSE @[c]],
                 !.tagset[s.selmon][s.seltags[s.selmon]] = t], NULL)
\* Exchange the tag in view, if it is one alone, with another.
SwapTag(s, t) ==
    LET cur == TagSet(s, s.selmon)
        Swapped(old) ==
            IF old \cap (t \cup cur) = {} THEN (IF old = {} THEN t ELSE old)
            ELSE LET new == ToggleSet(old, ToggleSet(cur, t))
                 IN  IF new = {} THEN t ELSE new
    IN  IF t = cur \/ Cardinality(cur) # 1 THEN s
        ELSE Focus([s EXCEPT
                 !.tags = [c \in Client |-> IF c \in Range(s.clients[s.selmon])
                                            THEN Swapped(@[c]) ELSE @[c]],
                 !.tagset[s.selmon][s.seltags[s.selmon]] = t], NULL)
swaptag(t) == Main("swaptag") /\ wm' = SwapTag(wm, t)

FaultRotated(t, n) == {b \in Bit : \E d \in t : b = d + n}    \* no wrap
\* A circular shift of the tags by n places.
Rotated(t, n) == {b \in Tag : \E d \in t : b = (d + n) % NTags}

RotateTags(s, dir) ==
    Focus([s EXCEPT !.tagset[s.selmon][s.seltags[s.selmon]] = Rotated(@, dir)], NULL)
rotatetags(dir) == Main("rotatetags") /\ wm' = RotateTags(wm, dir)

FaultShiftviewclients(dir) ==                   \* one step, clients or not
    /\ Main("shiftviewclients")
    /\ wm' = View(wm, Rotated(TagSet(wm, wm.selmon), dir))
\* On to the next view that shows a client of the list; a client tagged
\* outside TAGMASK may end the search anywhere.
shiftviewclients(dir) ==
    LET mask == UNION {wm.tags[c] : c \in Range(wm.clients[wm.selmon])}
        cur == TagSet(wm, wm.selmon)
        Stops(n) == mask = {} \/ Rotated(cur, dir * n) \cap mask # {}
    IN  /\ Main("shiftviewclients")
        /\ \E n \in 1..NTags :
            /\ Stops(n) \/ NTags \in mask
            /\ \A i \in 1..(n - 1) : ~Stops(i)
            /\ wm' = View(wm, Rotated(cur, dir * n))
-----------------------------------------------------------------------------
(* Order and monitor.                                                      *)

\* pop, for a client of the selected monitor
Pop(s, c) ==
    LET s1 == [s EXCEPT !.tagmarked[s.mon[c]][MarkIndex(s)] =
                            FirstTiled(s, s.clients[s.mon[c]])]
    IN  Focus(Attach(Detach(s1, c), c), c)
Zoom(s, tiling) ==
    LET q == s.clients[s.selmon]
        sel == Sel(s)
        master == FirstTiled(s, q)
        second == FirstTiled(s, Behind(q, master))
        s1 == [s EXCEPT !.prevclient = master]
        s2 == [s EXCEPT !.prevclient = second]
    IN  IF ~tiling \/ sel = NULL \/ sel \in s.floating THEN s1
        ELSE IF sel # master THEN Pop(s1, sel)
        ELSE IF second = NULL THEN s2 ELSE Pop(s2, second)
zoom == Main("zoom") /\ \E tiling \in BOOLEAN : wm' = Zoom(wm, tiling)

FaultRotateNoFocus(s, dir) ==                   \* the focus is not given back
    LET q == s.clients[s.selmon]
        c == IF dir > 0 THEN LastOr(q, Tiled(s), NULL) ELSE FirstTiled(s, q)
    IN  IF Sel(s) = NULL \/ c = NULL THEN s
        ELSE IF dir > 0 THEN Raise(Attach(Detach(s, c), c), c)
        ELSE EnqueueStack(DetachStack(Enqueue(Detach(s, c), c), c), c)
\* The last tiled client to the front of both lists, or the first one to
\* their ends; then the focus goes back to the client that had it.
RotateStack(s, dir) ==
    LET q == s.clients[s.selmon]
        c == IF dir > 0 THEN LastOr(q, Tiled(s), NULL) ELSE FirstTiled(s, q)
        s1 == IF dir > 0 THEN Raise(Attach(Detach(s, c), c), c)
              ELSE EnqueueStack(DetachStack(Enqueue(Detach(s, c), c), c), c)
    IN  IF Sel(s) = NULL \/ c = NULL THEN s ELSE Focus(s1, Sel(s))
rotatestack(dir) == Main("rotatestack") /\ wm' = RotateStack(wm, dir)

tagmon(dir) ==
    /\ Main("tagmon") /\ wm.nmons > 1 /\ Sel(wm) # NULL
    /\ \E k \in NMaster : wm' = SendMon(wm, Sel(wm), DirToMon(wm, dir), k)

\* tagswapmon: the visible clients of two monitors change places, in order.
TagSwapMon(s, m) ==
    LET a == s.selmon
        A == Keep(s.clients[a], Visible(s))
        B == Keep(s.clients[m], Visible(s))
        Gone(x) == IF x = a THEN Range(A) ELSE IF x = m THEN Range(B) ELSE {}
        Came(x) == IF x = a THEN B ELSE IF x = m THEN A ELSE << >>
        moved == Range(A) \cup Range(B)
        Stay(q, x) == Keep(q, Client \ Gone(x))
    IN  Focus([s EXCEPT
            !.clients = [x \in Mon |-> Came(x) \o Stay(@[x], x)],
            !.stack = [x \in Mon |-> Came(x) \o Stay(@[x], x)],
            !.sel = [x \in Mon |-> IF @[x] \in Gone(x)
                                   THEN FirstOr(Stay(s.stack[x], x), Visible(s), NULL)
                                   ELSE @[x]],
            !.tagmarked = [x \in Mon |-> [i \in 1..NTags |->
                              IF i < NTags /\ @[x][i] \in Gone(x) THEN NULL ELSE @[x][i]]],
            !.mon = [c \in Client |-> IF c \in Range(A) THEN m
                                      ELSE IF c \in Range(B) THEN a ELSE @[c]],
            !.tags = [c \in Client |-> IF c \in Range(A) THEN TagSet(s, m)
                                       ELSE IF c \in Range(B) THEN TagSet(s, a) ELSE @[c]],
            !.lit = @ \ moved,
            !.prevclient = IF moved = {} THEN @ ELSE Last(A \o B),
            !.xfocus = IF moved = {} THEN @ ELSE NULL], NULL)
tagswapmon(dir) ==
    /\ Main("tagswapmon") /\ wm.nmons > 1
    /\ wm' = TagSwapMon(wm, DirToMon(wm, dir))
-----------------------------------------------------------------------------
(* Flags of the selected client.                                           *)

togglefloating ==
    Main("togglefloating") /\ \E fixed \in BOOLEAN : wm' = ToggleFloating(wm, fixed)

togglefullscr ==
    /\ Main("togglefullscr") /\ Sel(wm) # NULL
    /\ wm' = SetFullscreen(wm, Sel(wm), Sel(wm) \notin wm.full)

togglesticky ==
    /\ Main("togglesticky") /\ Sel(wm) # NULL
    /\ wm' = SetSticky(wm, Sel(wm), Sel(wm) \notin wm.sticky)

\* The keys that read selmon->sel without looking at it first: incnmaster,
\* setmfact, setsmfact, setwfact and sethfact when the layout tiles; fsnap
\* and the one-sided fmaximize always.  What they change is geometry; only
\* fmaximize makes a tiled client float, and back.
layoutkey ==
    /\ Main("layoutkey")
    /\ wm' = IF Sel(wm) = NULL THEN Crash(wm) ELSE ToggleFloating(wm, FALSE)
-----------------------------------------------------------------------------
(* Requests of the clients.                                                *)

netwmfullscreen(c) ==
    /\ Main("netwmfullscreen") /\ c \in Listed(wm)
    /\ \E on \in BOOLEAN : wm' = SetFullscreen(wm, c, on)

netwmsticky(c) ==
    /\ Main("netwmsticky") /\ c \in Listed(wm)
    /\ \E on \in BOOLEAN : wm' = SetSticky(wm, c, on)

\* _NET_ACTIVE_WINDOW: selmon changes here without an unfocus.
ActiveWindow(s, c) ==
    IF s.tags[c] \cap Tag = {} THEN s
    ELSE Focus(View([s EXCEPT !.selmon = s.mon[c]], {LowBit(s.tags[c])}), c)
netactivewindow(c) ==
    /\ Main("netactivewindow") /\ c \in Listed(wm)
    /\ wm' = ActiveWindow(wm, c)

\* _NET_WM_DESKTOP: the number l itself becomes the bit set.  A pager asks
\* for one of the NTags desktops dwm announces, or for all of them, -1.
Desktop == -1..(NTags - 1)
Bits(l) == IF l = -1 THEN Bit ELSE {b \in Tag : (l \div 2^b) % 2 = 1}
netwmdesktop(c, l) ==
    /\ Main("netwmdesktop") /\ c \in Listed(wm)
    /\ wm' = [wm EXCEPT !.tags[c] = Bits(l)]

\* propertynotify for WM_TRANSIENT_FOR and a dialog's window type; the
\* other window types go the ways of the two messages above.
propertynotify(c) ==
    /\ Main("propertynotify") /\ c \in Listed(wm)
    /\ wm' = [wm EXCEPT !.floating = @ \cup {c}]

\* The same for WM_HINTS, updatewmhints: the client begins or ceases to decline
\* the input focus.  Nothing is done about the focus it has or lacks.
wmhints(c) ==
    /\ Main("wmhints") /\ c \in Listed(wm)
    /\ wm' = [wm EXCEPT !.neverfocus = ToggleSet(@, {c})]
-----------------------------------------------------------------------------
(* Heads come and go: updategeom in configurenotify.                       *)

FaultDropList(s) ==                             \* attach is forgotten
    LET m == s.nmons
        moved == Reverse(s.clients[m])
    IN  [s EXCEPT !.nmons = m - 1, !.selmon = IF @ = m THEN 1 ELSE @,
                  !.clients[m] = << >>,
                  !.stack[1] = moved \o @, !.stack[m] = << >>,
                  !.mon = [c \in Client |-> IF c \in Range(moved) THEN 1 ELSE @[c]],
                  !.sel[m] = NULL]
FaultDropSelmon(s) ==                           \* selmon may be the one dropped
    LET m == s.nmons
        moved == Reverse(s.clients[m])
    IN  [s EXCEPT !.nmons = m - 1,
                  !.clients[1] = moved \o @, !.clients[m] = << >>,
                  !.stack[1] = moved \o @, !.stack[m] = << >>,
                  !.mon = [c \in Client |-> IF c \in Range(moved) THEN 1 ELSE @[c]],
                  !.sel[m] = NULL]
\* The last monitor of the list goes; its clients are pushed one by one on
\* the lists of the first.  Neither detach nor unfocus is called.
DropLast(s) ==
    LET m == s.nmons
        moved == Reverse(s.clients[m])
        new == InitState(1)
    IN  [s EXCEPT
            !.nmons = m - 1, !.selmon = IF @ = m THEN 1 ELSE @,
            !.clients = [s.clients EXCEPT ![1] = moved \o @, ![m] = << >>],
            !.stack = [s.stack EXCEPT ![1] = moved \o @, ![m] = << >>],
            !.mon = [c \in Client |-> IF c \in Range(moved) THEN 1 ELSE @[c]],
            !.sel[m] = NULL, !.seltags[m] = 0, !.tagset[m] = new.tagset[m],
            !.tagmarked[m] = new.tagmarked[m]]

Unplug(s, n) ==
    LET f[i \in n..s.nmons] == IF i = s.nmons THEN s ELSE DropLast(f[i + 1])
    IN  f[n]

FaultConfigurenotify(n) ==                      \* no focus on the new monitor
    /\ Main("configurenotify")
    /\ LET s == IF n < wm.nmons THEN Unplug(wm, n) ELSE [wm EXCEPT !.nmons = n]
       IN  \E p \in 1..n : wm' = [s EXCEPT !.selmon = p]
\* A ConfigureNotify of the root window comes when the screen has changed
\* its size.  Only a change among the monitors makes selmon the monitor of
\* the pointer (wintomon(root)).
configurenotify(n) ==
    /\ Main("configurenotify")
    /\ LET s == IF n < wm.nmons THEN Unplug(wm, n) ELSE [wm EXCEPT !.nmons = n]
           changed == n > wm.nmons \/ \E m \in n + 1..wm.nmons : wm.clients[m] # << >>
       IN  \/ ~changed /\ wm' = Focus(s, NULL)
           \/ \E p \in 1..n : wm' = Focus([s EXCEPT !.selmon = p], NULL)
-----------------------------------------------------------------------------
(* The mouse functions.  Each begins with the press that focuses c, and    *)
(* has its own event loop until the release; there only motion, MapRequest *)
(* and requests for geometry are served.                                   *)

Grab(s, c, how) ==
    LET s1 == Click(s, c)
    IN  IF c \in s1.full THEN s1 ELSE [s1 EXCEPT !.grab = how, !.held = c]

\* moveorplace: placemouse when the layout tiles and c does not float.
mousepress(c, how) ==
    /\ Main("mouse") /\ c \in Listed(wm) \cap Visible(wm)
    /\ how = "place" => c \notin wm.floating
    /\ wm' = Grab(wm, c, how)

\* placemouse moves c next to r, the tiled client under the pointer, and to
\* its monitor; r becomes the selected client there.
PlaceNextTo(s, c, r, above) ==
    LET m == s.mon[r]
        s1 == Unlink(s, c)
        s2 == IF s.mon[c] = m THEN s1 ELSE Rehome(s1, c, m)
        s3 == [s2 EXCEPT !.sel[m] = r]
    IN  AttachStack(LinkAt(s3, Index(s3.clients[m], r) + (IF above THEN 0 ELSE 1), c), c)

\* The monitor under the pointer is selected at once, without a focus().
\* prevr, which keeps a motion over the same half of the same client from
\* placing c again, depends on geometry: here any motion may place.
placemotion(m) ==
    LET s == [wm EXCEPT !.selmon = m]
    IN  /\ Loop("mouse") /\ wm.grab = "place"
        /\ \/ wm' = s
           \/ \E r \in (Range(s.clients[m]) \cap Tiled(s)) \ {s.held}, above \in BOOLEAN :
                  wm' = PlaceNextTo(s, s.held, r, above)

Released(s) == [s EXCEPT !.grab = "none", !.held = NULL]

FaultPlace(s, c, m) ==                          \* no focus at the end
    IF m = s.mon[c] THEN s
    ELSE [LinkHead(Rehome(Unlink(s, c), c, m), c) EXCEPT !.selmon = m]
\* The end of movemouse and resizemouse, c being over monitor m.
Drop(s, c, m, k) ==
    IF m = s.selmon THEN s
    ELSE Focus([SendMon(s, c, m, k) EXCEPT !.selmon = m], NULL)
\* The end of placemouse, the pointer being over monitor m.
Place(s, c, m) ==
    Focus(IF m = s.mon[c] THEN s
          ELSE [LinkHead(Rehome(Unlink(s, c), c, m), c) EXCEPT !.selmon = m], c)

mouserelease(m) ==
    /\ Loop("mouse") /\ wm.grab # "none"
    /\ IF wm.grab = "place" THEN wm' = Released(Place(wm, wm.held, m))
       ELSE \E k \in NMaster : wm' = Released(Drop(wm, wm.held, m, k))
-----------------------------------------------------------------------------
Next ==
    \/ \E c \in Client :
        \/ maprequest(c) \/ destroynotify(c) \/ stealfocus(c) \/ focusin(c)
        \/ clickclient(c) \/ netactivewindow(c) \/ propertynotify(c) \/ wmhints(c)
        \/ netwmfullscreen(c) \/ netwmsticky(c)
        \/ \E l \in Desktop : netwmdesktop(c, l)
        \/ \E how \in {"move", "place", "resize"} : mousepress(c, how)
    \/ \E t \in ViewArg : view(t)
    \/ \E t \in TagArg : tag(t)
    \/ \E t \in OneTag : toggleview(t) \/ toggletag(t) \/ swaptag(t)
    \/ \E dir \in Dir :
        \/ focusmon(dir) \/ focusstack(dir) \/ focussame(dir)
        \/ rotatetags(dir) \/ shiftviewclients(dir) \/ rotatestack(dir)
        \/ tagmon(dir) \/ tagswapmon(dir)
    \/ \E m \in Heads : clickmon(m) \/ placemotion(m) \/ mouserelease(m)
    \/ \E n \in HeadCounts : configurenotify(n)
    \/ focusmaster \/ swapfocus \/ zoom \/ layoutkey
    \/ togglefloating \/ togglefullscr \/ togglesticky

Spec == Init /\ [][Next]_vars

\* The main loop takes every event off the queue: the FocusIn that follows a
\* stolen focus is handled.
FairSpec == Spec /\ \A c \in Client : WF_vars(focusin(c))
=============================================================================
