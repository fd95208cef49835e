--------------------------- MODULE DwmProperties ---------------------------
(***************************************************************************)
(* What dwm's bookkeeping is for, stated over the states and steps of Dwm. *)
(***************************************************************************)
EXTENDS Dwm

\* Every field of the record has its type.
TypeOK == wm \in State

(***************************************************************************)
(* The lists.  dwm.c: "Clients are organized in a linked client list on    *)
(* each monitor, the focus history is remembered through a stack list on   *)
(* each monitor."  Each handler unlinks and links the two separately, and  *)
(* changes c->mon between.                                                 *)
(***************************************************************************)

\* No client is twice in a list: each list ends.
NoCycle(s) ==
    \A m \in Mon : IsInjective(s.clients[m]) /\ IsInjective(s.stack[m])
\* A client of a monitor's list is in the monitor's stack.
ListInStack(s) ==
    \A m \in Mon : Range(s.clients[m]) \subseteq Range(s.stack[m])
\* A client in a monitor's stack is allocated and belongs to that monitor.
StackOwned(s) ==
    \A m \in Mon : \A c \in Range(s.stack[m]) : c \in s.live /\ s.mon[c] = m
\* The selected client of a monitor is in its stack.
SelInStack(s) ==
    \A m \in Mon : s.sel[m] # NULL => s.sel[m] \in Range(s.stack[m])
ListsWF(s) == NoCycle(s) /\ ListInStack(s) /\ StackOwned(s) /\ SelInStack(s)

\* Whatever comes and goes, in whatever order, the lists stay well formed:
\* no walk along them loops, leaves its monitor or meets freed memory.
WellFormed == ListsWF(wm)

\* And each window has its place in both lists at once: what dwm can focus
\* it can also find by its window, tile, and unmanage.
ListsAgree == \A m \in Mon : Range(wm.clients[m]) = Range(wm.stack[m])

\* Monitors that are gone hold nothing and are not selected.
MonitorsExist ==
    /\ wm.selmon \in Heads
    /\ \A m \in Mon \ Heads : wm.stack[m] = << >> /\ wm.clients[m] = << >>

(***************************************************************************)
(* The focus.                                                              *)
(***************************************************************************)
Idle == wm.ok /\ wm.grab = "none"

\* The selected client is the most recently focused one that is visible.
FocusIsTop ==
    Idle => Sel(wm) = FirstOr(wm.stack[wm.selmon], Visible(wm), NULL)

\* "dwm draws a small border around windows to indicate the focus state":
\* that border, and the button grabs that go with it, are on the selected
\* client and on no other.
LitIsFocus == Idle => wm.lit = {Sel(wm)} \ {NULL}

\* The keyboard goes to the selected client, to the root if there is none,
\* unless that client declines it: as long as no other program moves it and no
\* client changes its mind, it does not stay with a client that was left, after
\* any sequence of maps, moves, views and new heads.
XFocusIsSel == Idle => wm.xfocus = Sel(wm) \/ Sel(wm) \in wm.neverfocus

\* A window that was given the keyboard by somebody else does not keep it from
\* a selected client that wants it.
FocusRegained ==
    (/\ Sel(wm) # NULL /\ Sel(wm) \notin wm.neverfocus
     /\ wm.xfocus # Sel(wm) /\ wm.xfocus \in wm.focusins)
        ~> (Sel(wm) = NULL \/ Sel(wm) \in wm.neverfocus \/ wm.xfocus = Sel(wm))

\* The focus history is kept by every step that does not mean to reorder
\* it: among the clients of a monitor that dwm shows and hides together --
\* the same tags, sticky or not -- only the selected one moves.
Reorders == \/ \E dir \in Dir : rotatestack(dir) \/ tagswapmon(dir)
            \/ \E n \in HeadCounts : configurenotify(n)
            \/ \E m \in Heads : placemotion(m)
Alike(m, c) == {d \in Client : /\ wm.mon[d] = m /\ wm'.mon[d] = m
                               /\ wm.tags[d] = wm.tags[c]
                               /\ d \in wm.sticky <=> c \in wm.sticky
                               /\ d # wm'.sel[m]}
HistoryStep ==
    \/ \A m \in Mon : \A c \in Range(wm.stack[m]) :
           SameOrder(wm.stack[m], wm'.stack[m], Alike(m, c))
    \/ Reorders
HistoryKept == [][HistoryStep]_vars

\* focusstack goes round: "Focus next window" reaches every visible client of
\* the monitor, and "Focus previous window" undoes it.  (A fullscreen client
\* on the way stops it: lockfullscreen.)
FocusCycle ==
    LET shown == Range(wm.clients[wm.selmon]) \cap Visible(wm)
        after[i \in 0..Cardinality(shown)] ==
            IF i = 0 THEN wm ELSE FocusStack(after[i - 1], 1)
    IN  Idle /\ Sel(wm) \in shown /\ wm.full = {} =>
            /\ {Sel(after[i]) : i \in 1..Cardinality(shown)} = shown
            /\ Sel(FocusStack(FocusStack(wm, 1), -1)) = Sel(wm)

(***************************************************************************)
(* Tags.                                                                   *)
(***************************************************************************)

\* No view is empty -- the loops over its bits stop -- and no client has
\* lost all its tags: there is a view that shows it.
NothingUnreachable ==
    /\ \A m \in Heads : TagSet(wm, m) # {}
    /\ \A c \in Listed(wm) : wm.tags[c] \cap Tag # {}

\* shiftviewclients does not stop at a view without clients while there is a
\* client to show.
ShiftStep ==
    LET q == Range(wm.clients[wm.selmon])
    IN  \/ q = {} \/ q \cap Visible(wm') # {}
        \/ ~ \E dir \in Dir : shiftviewclients(dir)
ShiftShows == [][ShiftStep]_vars

\* swaptag renames the tag in view: the same clients stay in view, but for
\* those that carry both tags and a third one, which lose both.
SwapStep ==
    \A t \in OneTag : swaptag(t) =>
        LET cur == TagSet(wm, wm.selmon)
            q == {c \in Range(wm.clients[wm.selmon]) :
                     cur \cup t \subseteq wm.tags[c] => wm.tags[c] = cur \cup t}
        IN  q \cap Visible(wm') = q \cap Visible(wm)
SwapKeepsView == [][SwapStep]_vars

\* "aside": with nmaster clients tiled, a new window does not become the
\* master.
AsideStep ==
    \A c \in Client : maprequest(c) =>
        LET q == wm.clients[wm.selmon]
        IN  (\A k \in NMaster : k \in 1..Len(Keep(q, Tiled(wm)))) =>
                FirstTiled(wm', wm'.clients[wm.selmon]) = FirstTiled(wm, q)
AsideKeepsMaster == [][AsideStep]_vars

(***************************************************************************)
(* Pointers.                                                               *)
(***************************************************************************)

\* No null, freed or uninitialised pointer is followed.
NoCrash == wm.ok

\* A mark points to a client of the monitor it is kept for.  (The mark of
\* the last tag does not: detach clears 1..LENGTH(tags)-1 only.)
MarksLive ==
    \A m \in Mon, i \in 1..(NTags - 1) :
        wm.tagmarked[m][i] # NULL => wm.tagmarked[m][i] \in Range(wm.stack[m])

\* The client a mouse function holds across its event loop stays managed.
HeldLive == wm.grab # "none" => wm.held \in Listed(wm)

\* A fullscreen client floats: no layout resizes it.
FullFloats == wm.full \subseteq wm.floating
=============================================================================
