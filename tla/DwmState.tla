------------------------------ MODULE DwmState ------------------------------
(***************************************************************************)
(* The memory of dwm (src/src/dwm/dwm.c) that decides which client is on   *)
(* which monitor, in which lists, under which tags and with the focus, and *)
(* its internal functions as operators from a state to a state.  A handler *)
(* of Dwm is a composition of them, in the order the C code calls them.    *)
(*                                                                         *)
(* A client is the heap address of its Client structure, so an address is  *)
(* used again once freed.  The i-th monitor of the list mons is i.         *)
(*                                                                         *)
(* Left out, because nothing here is read back from it: geometry, stacking *)
(* order, the bar, pointer warps and the layout algorithms -- so arrange,  *)
(* restack, warp, drawbar and resize do not appear.  Whether the selected  *)
(* layout tiles, and nmaster, are chosen freely where they are read.       *)
(***************************************************************************)
EXTENDS ClientLists

CONSTANTS
    Client,      \* the addresses ecalloc may return for a Client
    NULL,        \* the null pointer
    MaxMon,      \* the most monitors there ever are
    NTags,       \* LENGTH(tags)
    AttachMode,  \* attachmode of config.h
    ViewOnTag    \* viewontag of config.h

ASSUME NullAssumption == NULL \notin Client
ASSUME MaxMonAssumption == MaxMon \in Nat \ {0}
ASSUME NTagsAssumption == NTags \in Nat \ {0}
ASSUME AttachModeAssumption == AttachMode \in 0..4
ASSUME ViewOnTagAssumption == ViewOnTag \in BOOLEAN

Mon == 1..MaxMon
Tag == 0..(NTags - 1)        \* the bits of TAGMASK
Bit == 0..NTags              \* NTags stands for every bit outside TAGMASK
ClientOrNull == Client \cup {NULL}

(***************************************************************************)
(* One record for the whole: the globals mons (its length), selmon and     *)
(* prevclient; clients, stack, sel, seltags, tagset and tagmarked of each  *)
(* Monitor; mon, tags and the flags of each Client (the sets of clients    *)
(* that have them).  oldstate is kept while the client is fullscreen, the  *)
(* only time it is read.                                                   *)
(*                                                                         *)
(* live: the addresses allocated.  lit: the clients that have the border   *)
(* of the selected window and the button grabs of the focused one          *)
(* (grabbuttons(c, 1)).  neverfocus: the clients whose WM_HINTS decline    *)
(* the input focus.  xfocus: the window that has it, NULL for the root.    *)
(* focusins: the windows another program has given it to, of which dwm has *)
(* not yet been told; a FocusIn that answers dwm's own XSetInputFocus is   *)
(* left out, for it finds the keyboard where it is to be.  ok: FALSE once  *)
(* the code has followed a null, a freed or an uninitialised pointer,      *)
(* after which nothing is known of it.  grab and held: the mouse function  *)
(* whose own event loop runs, and its c.                                   *)
(***************************************************************************)
State ==
    [ nmons : Mon, selmon : Mon, prevclient : ClientOrNull,
      clients : [Mon -> Seq(Client)], stack : [Mon -> Seq(Client)],
      sel : [Mon -> ClientOrNull],
      seltags : [Mon -> 0..1], tagset : [Mon -> [0..1 -> SUBSET Tag]],
      tagmarked : [Mon -> [1..NTags -> ClientOrNull]],
      mon : [Client -> Mon], tags : [Client -> SUBSET Bit],
      sticky : SUBSET Client, floating : SUBSET Client,
      full : SUBSET Client, oldstate : SUBSET Client,
      live : SUBSET Client, lit : SUBSET Client,
      neverfocus : SUBSET Client, xfocus : ClientOrNull, focusins : SUBSET Client,
      ok : BOOLEAN, grab : {"none", "move", "place", "resize"},
      held : ClientOrNull ]

\* createmon: a monitor starts with no clients and shows the first tag.
\* setup ends in focus(NULL): no client has the focus.
InitState(n) ==
    [ nmons |-> n, selmon |-> 1, prevclient |-> NULL,
      clients |-> [m \in Mon |-> << >>], stack |-> [m \in Mon |-> << >>],
      sel |-> [m \in Mon |-> NULL],
      seltags |-> [m \in Mon |-> 0], tagset |-> [m \in Mon |-> [i \in 0..1 |-> {0}]],
      tagmarked |-> [m \in Mon |-> [i \in 1..NTags |-> NULL]],
      mon |-> [c \in Client |-> 1], tags |-> [c \in Client |-> {}],
      sticky |-> {}, floating |-> {}, full |-> {}, oldstate |-> {},
      live |-> {}, lit |-> {}, neverfocus |-> {}, xfocus |-> NULL, focusins |-> {},
      ok |-> TRUE, grab |-> "none", held |-> NULL ]

Crash(s) == [s EXCEPT !.ok = FALSE]
-----------------------------------------------------------------------------
(* What the functions look up.                                             *)

Sel(s) == s.sel[s.selmon]
TagSet(s, m) == s.tagset[m][s.seltags[m]]

\* ISVISIBLE and the test of nexttiled
IsVisible(s, c) == s.tags[c] \cap TagSet(s, s.mon[c]) # {} \/ c \in s.sticky
Visible(s) == {c \in Client : IsVisible(s, c)}
Tiled(s) == Visible(s) \ s.floating

FirstTiled(s, q) == FirstOr(q, Tiled(s), NULL)

\* wintoclient searches the lists clients, not the stacks
Listed(s) == UNION {Range(s.clients[m]) : m \in 1..s.nmons}

DirToMon(s, dir) ==
    IF dir > 0 THEN IF s.selmon < s.nmons THEN s.selmon + 1 ELSE 1
               ELSE IF s.selmon = 1 THEN s.nmons ELSE s.selmon - 1

\* The lowest bit set: for (i = 0; !(t & 1 << i); i++);
LowBit(t) == CHOOSE b \in t : \A d \in t : b <= d

\* tagmarked is indexed with the lowest tag viewed, counted from 1.
MarkIndex(s) == LowBit(TagSet(s, s.selmon)) + 1
-----------------------------------------------------------------------------
(* The lists.                                                              *)

(***************************************************************************)
(* The operators whose names begin with Fault are not part of the model:   *)
(* each is the definition that follows it with a plausible mistake, which  *)
(* the runs must be able to tell from the code.                            *)
(***************************************************************************)
FaultDetachMarks(s, c) ==                       \* the marks are not cleared
    [s EXCEPT !.clients[s.mon[c]] = Without(@, c)]
\* detach: its first loop clears the marks 1..LENGTH(tags)-1
Detach(s, c) ==
    [s EXCEPT !.clients[s.mon[c]] = Without(@, c),
              !.tagmarked[s.mon[c]] =
                  [i \in 1..NTags |-> IF i < NTags /\ @[i] = c THEN NULL ELSE @[i]]]

DetachStack(s, c) ==
    LET q == Without(s.stack[s.mon[c]], c)
    IN  [s EXCEPT !.stack[s.mon[c]] = q,
                  !.sel[s.mon[c]] = IF @ = c THEN FirstOr(q, Visible(s), NULL) ELSE @]

Attach(s, c) == [s EXCEPT !.clients[s.mon[c]] = Cons(c, @)]
AttachStack(s, c) == [s EXCEPT !.stack[s.mon[c]] = Cons(c, @)]
FaultRaiseNot(s, c) == s                        \* focus leaves the stack alone
FaultRaiseSwap(s, c) ==                         \* c trades places with the top
    LET q == s.stack[s.mon[c]]
    IN  [s EXCEPT !.stack[s.mon[c]] =
            IF c \notin Range(q) THEN Cons(c, q)
            ELSE [i \in DOMAIN q |-> IF i = 1 THEN c
                                     ELSE IF q[i] = c THEN q[1] ELSE q[i]]]
Raise(s, c) == AttachStack(DetachStack(s, c), c)

\* enqueue and enqueuestack append to a list that has a last element
Enqueue(s, c) ==
    [s EXCEPT !.clients[s.mon[c]] = IF @ = << >> THEN @ ELSE Append(@, c)]
EnqueueStack(s, c) ==
    [s EXCEPT !.stack[s.mon[c]] = IF @ = << >> THEN @ ELSE Append(@, c)]

LinkAt(s, i, c) == [s EXCEPT !.clients[s.mon[c]] = InsertAt(@, i, c)]

FaultAttachX(s, c, k) == Attach(s, c)           \* always as the master
(***************************************************************************)
(* attachx.  k is nmaster.  Modes 1 and 3 link c next to the selected      *)
(* client: when that one is not in the list, mode 1 runs off its end and   *)
(* mode 3 hangs c behind a client that no list reaches.                    *)
(***************************************************************************)
AttachX(s, c, k) ==
    LET q == s.clients[s.mon[c]]
        sel == s.sel[s.mon[c]]
        T == {i \in DOMAIN q : /\ q[i] \notin s.floating
                               /\ \/ s.tags[q[i]] \cap s.tags[c] # {}
                                  \/ q[i] \in s.sticky}
        Default ==
            \/ AttachMode = 0
            \/ AttachMode = 1 /\ (sel = NULL \/ sel \in s.floating)
            \/ AttachMode = 1 /\ q # << >> /\ q[1] = sel
            \/ AttachMode = 2 /\ (k = 0 \/ \A i \in T : Rank(T, i) # k)
            \/ AttachMode = 3 /\ (sel = NULL \/ sel \in s.floating)
            \/ AttachMode = 4 /\ q = << >>
    IN  IF Default THEN Attach(s, c)
        ELSE IF AttachMode = 2 THEN LinkAt(s, (CHOOSE i \in T : Rank(T, i) = k) + 1, c)
        ELSE IF AttachMode = 4 THEN LinkAt(s, Len(q) + 1, c)
        ELSE IF sel \notin Range(q) THEN Crash(s)
        ELSE LinkAt(s, Index(q, sel) + (IF AttachMode = 1 THEN 0 ELSE 1), c)

FaultUnlink(s, c) == Detach(s, c)               \* detachstack is forgotten
FaultLink(s, c, k) == AttachStack(s, c)         \* attachx is forgotten
\* The two calls that follow one another wherever a client changes lists.
Unlink(s, c) == DetachStack(Detach(s, c), c)
Link(s, c, k) == AttachStack(AttachX(s, c, k), c)
LinkHead(s, c) == AttachStack(Attach(s, c), c)
\* c->mon = m; c->tags = m->tagset[m->seltags];
Rehome(s, c, m) == [s EXCEPT !.mon[c] = m, !.tags[c] = TagSet(s, m)]
-----------------------------------------------------------------------------
(* The focus.                                                              *)

Unfocus(s, c, toRoot) ==
    IF c = NULL THEN s
    ELSE [s EXCEPT !.prevclient = c, !.lit = @ \ {c},
                   !.xfocus = IF toRoot THEN NULL ELSE @]

\* focus(a): a itself when it is visible, else the most recently focused
\* client that is visible on the selected monitor.
FocusChoice(s, a) ==
    IF a # NULL /\ a \in Visible(s) THEN a
    ELSE FirstOr(s.stack[s.selmon], Visible(s), NULL)
\* setfocus: XSetInputFocus, except to a client that declines it; then the
\* keyboard stays where it is.
Keyboard(s, c) == IF c \in s.neverfocus THEN s.xfocus ELSE c
\* The rest of focus, once the client is chosen.
SetSel(s, c) ==
    IF c = NULL THEN [s EXCEPT !.sel[s.selmon] = NULL, !.xfocus = NULL]
    ELSE [Raise(s, c) EXCEPT !.selmon = s.mon[c], !.sel[s.mon[c]] = c,
                             !.lit = @ \cup {c}, !.xfocus = Keyboard(s, c)]
Focus(s, a) ==
    LET c == FocusChoice(s, a)
    IN  SetSel(IF Sel(s) # c THEN Unfocus(s, Sel(s), FALSE) ELSE s, c)

\* view(&arg) with t = arg.ui & TAGMASK; t = {} asks for the previous tags.
View(s, t) ==
    LET m == s.selmon
        other == 1 - s.seltags[m]
    IN  IF t = TagSet(s, m) THEN s
        ELSE Focus([s EXCEPT !.seltags[m] = other,
                             !.tagset[m][other] = IF t # {} THEN t ELSE @], NULL)

SendMon(s, c, m, k) ==
    IF s.mon[c] = m THEN s
    ELSE Focus(Link(Rehome(Unlink(Unfocus(s, c, TRUE), c), c, m), c, k), NULL)
-----------------------------------------------------------------------------
(* The flags of a client.                                                  *)

SetFullscreen(s, c, on) ==
    IF on /\ c \notin s.full
    THEN [s EXCEPT !.full = @ \cup {c}, !.floating = @ \cup {c},
                   !.oldstate = IF c \in s.floating THEN @ \cup {c} ELSE @ \ {c}]
    ELSE IF ~on /\ c \in s.full
    THEN [s EXCEPT !.full = @ \ {c}, !.oldstate = @ \ {c},
                   !.floating = IF c \in s.oldstate THEN @ \cup {c} ELSE @ \ {c}]
    ELSE s

SetSticky(s, c, on) ==
    [s EXCEPT !.sticky = IF on THEN @ \cup {c} ELSE @ \ {c}]

FaultToggleFloating(s, isfixed) ==              \* fullscreen clients as well
    LET c == Sel(s)
    IN  IF c = NULL THEN s
        ELSE [s EXCEPT !.floating =
                 IF c \notin @ \/ isfixed THEN @ \cup {c} ELSE @ \ {c}]
\* togglefloating; isfixed follows the size hints the client may change
ToggleFloating(s, isfixed) ==
    LET c == Sel(s)
    IN  IF c = NULL \/ c \in s.full THEN s
        ELSE [s EXCEPT !.floating =
                 IF c \notin @ \/ isfixed THEN @ \cup {c} ELSE @ \ {c}]
=============================================================================
