------------------------------ MODULE DwmProofs ------------------------------
(***************************************************************************)
(* Every handler of dwm leaves the state sound, for any number of windows, *)
(* monitors and tags: one lemma per handler, then the invariant of the     *)
(* specification, then the theorems, one for each property that follows    *)
(* from it.                                                                *)
(*                                                                         *)
(* A theorem that needs a dwm without some key or request says so in a     *)
(* hypothesis on Bound; the others hold whatever the configuration.        *)
(***************************************************************************)
EXTENDS DwmStateProofs

-----------------------------------------------------------------------------
(* What the handlers pick their clients from.                              *)

\* Every client of a monitor's stack is allocated.
LEMMA StackLive ==
    ASSUME NEW s, ListsSound(s), NEW m \in Mon, NEW c \in Range(s.stack[m])
    PROVE  c \in Client /\ c \in s.live /\ s.mon[c] = m
BY SoundLists

\* Every client of a list of clients is allocated and in the stack.
LEMMA ClientsLive ==
    ASSUME NEW s, ListsSound(s), NEW m \in Mon, NEW c \in Range(s.clients[m])
    PROVE  /\ c \in Client /\ c \in s.live /\ s.mon[c] = m /\ c \in Range(s.stack[m])
           /\ m <= s.nmons => Placed(s, c)
BY SoundLists DEF Placed

\* selmon->sel, when there is one.
LEMMA SelLive ==
    ASSUME NEW s, ListsSound(s)
    PROVE  /\ s \in State /\ s.selmon \in Mon /\ Sel(s) \in ClientOrNull
           /\ s.clients[s.selmon] \in Seq(Client)
           /\ Sel(s) # NULL =>
                 /\ Sel(s) \in Client /\ Sel(s) \in s.live
                 /\ s.mon[Sel(s)] = s.selmon /\ Sel(s) \in Range(s.stack[s.selmon])
<1>1. s \in State /\ s.selmon \in Mon
  BY StateFields DEF ListsSound
<1>2. Sel(s) \in ClientOrNull /\ s.clients[s.selmon] \in Seq(Client)
  BY <1>1, StateFields DEF Sel
<1>3. Sel(s) # NULL => Sel(s) \in Range(s.stack[s.selmon])
  BY <1>1, SoundLists DEF Sel
<1> QED  BY <1>1, <1>2, <1>3, StackLive

\* wintoclient finds clients that are allocated and have their place.
LEMMA ListedLive ==
    ASSUME NEW s, ListsSound(s), NEW c \in Listed(s)
    PROVE  /\ c \in Client /\ c \in s.live /\ c \in Range(s.stack[s.mon[c]])
           /\ s.mon[c] \in Mon /\ s.mon[c] <= s.nmons /\ Placed(s, c)
<1>1. PICK m \in 1..s.nmons : c \in Range(s.clients[m])
  BY DEF Listed
<1>2. m \in Mon /\ m <= s.nmons
  BY StateFields, MaxMonAssumption DEF ListsSound, Mon
<1> QED  BY <1>1, <1>2, ClientsLive

\* The converse.
LEMMA PlacedListed ==
    ASSUME NEW s \in State, NEW c \in Client, Placed(s, c)
    PROVE  c \in Listed(s)
<1>1. s.mon[c] \in 1..s.nmons
  BY StateFields, MaxMonAssumption DEF Placed, Mon
<1> QED  BY <1>1 DEF Placed, Listed

\* dirtomon stays among the monitors, and with more than one it moves.
LEMMA DirToMonIn ==
    ASSUME NEW s, Sound(s), NEW dir \in Dir
    PROVE  /\ DirToMon(s, dir) \in Mon /\ (s.nmons > 1 => DirToMon(s, dir) # s.selmon)
           /\ Present(s, DirToMon(s, dir))
<1>1. s.selmon \in Mon /\ s.nmons \in Mon
  BY StateFields DEF Sound, ListsSound
<1>2. Present(s, s.selmon)
  BY DEF Sound, Home, Rooted
<1> QED  BY <1>1, <1>2, MaxMonAssumption DEF DirToMon, Mon, Dir, Present

\* A handler that goes on where another would have ended.
LEMMA HandlesTransitive ==
    ASSUME NEW s, NEW r, NEW t, Handles(s, r), Handles(r, t)
    PROVE  Handles(s, t)
BY KeepsTransitive DEF Handles

\* A handler that only calls focus.
LEMMA FocusAlone ==
    ASSUME NEW s, Sound(s), NEW a, a # NULL => a \in s.live /\ Present(s, s.mon[a]),
           NEW t, t = Focus(s, a)
    PROVE  Handles(s, t) /\ OrderKept(s, t)
BY KeepsItself, FocusHandles

\* tagmarked is given clients of its monitor, or none.
LEMMA MarkKeeps ==
    ASSUME NEW s, Sound(s), NEW m \in Mon, NEW i, NEW x,
           x # NULL => x \in Range(s.stack[m]),
           NEW t, t = [s EXCEPT !.tagmarked[m][i] = x]
    PROVE  /\ Keeps(s, t) /\ Stays(s, t)
           /\ t.clients = s.clients /\ t.stack = s.stack /\ t.sel = s.sel
<1> DEFINE marks == [s.tagmarked[m] EXCEPT ![i] = x]
           tagmarked == [s.tagmarked EXCEPT ![m] = marks]
<1>1. s \in State /\ ListsSound(s) /\ s.tagmarked \in [Mon -> [1..NTags -> ClientOrNull]]
  BY DEF Sound, ListsSound, State
<1>2. marks \in [1..NTags -> ClientOrNull]
  BY <1>1, SoundLists DEF ClientOrNull
<1>3. t = [s EXCEPT !.tagmarked = tagmarked]
  BY <1>1 DEF State
<1>4. \A j \in 1..(NTags - 1) : marks[j] = x \/ marks[j] = s.tagmarked[m][j]
  BY <1>1, NTagsAssumption
<1> HIDE DEF marks
<1>5. /\ tagmarked \in [Mon -> [1..NTags -> ClientOrNull]]
      /\ \A n \in Mon : tagmarked[n] = IF n = m THEN marks ELSE s.tagmarked[n]
  BY <1>1, <1>2
<1> HIDE DEF tagmarked
<1>6. /\ Stays(s, t) /\ t.clients = s.clients /\ t.stack = s.stack /\ t.sel = s.sel
      /\ t.tagmarked = tagmarked /\ t.ok = s.ok /\ t.selmon = s.selmon
  BY ZenonT(40), <1>1, <1>3, <1>5 DEF State, Stays, SameTags, SameFocus
<1>7. t \in State /\ t.mon = s.mon /\ t.live = s.live /\ t.nmons = s.nmons
  BY <1>6 DEF Stays
<1>8. \A n \in Mon : MonSound(t, n)
  <2> SUFFICES ASSUME NEW n \in Mon
               PROVE  MonSound(t, n)
    OBVIOUS
  <2>1. MarksIn(t, n)
    BY <1>1, <1>4, <1>5, <1>6, SoundLists DEF MarksIn
  <2>2. /\ s.clients[n] \in Distinct(Client) /\ s.stack[n] \in Distinct(Client)
        /\ Range(s.clients[n]) \subseteq Range(s.stack[n])
        /\ \A c \in Range(s.stack[n]) : c \in s.live /\ s.mon[c] = n
        /\ s.sel[n] # NULL => s.sel[n] \in Range(s.stack[n])
    BY ZenonT(40), <1>1, SoundLists
  <2> QED  BY <1>6, <1>7, <2>1, <2>2 DEF MonSound
<1>9. ListsSound(t)
  BY <1>7, <1>8, ListsAreSound
<1>10. Sel(t) = Sel(s) /\ \A d \in Client : Placed(s, d) => Placed(t, d)
  BY <1>6, <1>7 DEF Sel, Placed
<1> QED  BY <1>6, <1>9, <1>10, StaysKeeps

\* prevclient holds any client or none.
LEMMA PrevclientHandles ==
    ASSUME NEW s, Sound(s), NEW x \in ClientOrNull,
           NEW t, t = [s EXCEPT !.prevclient = x]
    PROVE  Handles(s, t) /\ OrderKept(s, t)
<1>1. s \in State /\ s.full \subseteq s.floating \cap s.live
  BY DEF Sound, ListsSound, Flagged
<1>2. /\ t \in State /\ SameLists(s, t) /\ SameTags(s, t) /\ SameFocus(s, t)
      /\ t.full = s.full /\ t.floating = s.floating
  BY <1>1 DEF State, SameLists, SameTags, SameFocus
<1>3. t.full \subseteq t.floating \cap t.live
  BY <1>1, <1>2 DEF SameLists
<1> QED  BY <1>2, <1>3, SameHandles

\* What the loops for the next and the previous visible client return.
LEMMA FoundIn ==
    ASSUME NEW q \in Seq(Client), NEW S
    PROVE  /\ FirstOr(q, S, NULL) \in Range(q) \cup {NULL}
           /\ LastOr(q, S, NULL) \in Range(q) \cup {NULL}
BY FirstOrIn, LastOrIn

-----------------------------------------------------------------------------
(* Moving the focus.                                                       *)

\* focusmon selects another monitor and its client.
LEMMA FocusMonHandles ==
    ASSUME NEW s, Sound(s), NEW dir \in Dir, NEW t, t = FocusMon(s, dir)
    PROVE  Handles(s, t) /\ OrderKept(s, t)
<1>1. CASE s.nmons = 1
  BY <1>1, KeepsItself DEF FocusMon
<1>2. CASE s.nmons # 1
  <2> DEFINE no == FALSE
             m == DirToMon(s, dir)
             s1 == Unfocus(s, Sel(s), no)
             s2 == [s1 EXCEPT !.selmon = m]
  <2>1. t = Focus(s2, NULL)
    BY <1>2 DEF FocusMon
  <2>2. m \in Mon /\ Present(s, m)
    BY DirToMonIn
  <2>3. Sel(s) \in ClientOrNull
    BY SelLive DEF Sound
  <2> HIDE DEF no, m
  <2>4. Keeps(s, s1) /\ SameLists(s, s1) /\ (Leaps \/ s1.lit = {})
    BY <2>3, UnfocusKeeps
  <2> HIDE DEF s1
  <2>5. Sound(s1) /\ Present(s1, m)
    BY <2>2, <2>4 DEF Keeps, SameLists, Present
  <2>6. Keeps(s1, s2) /\ s2.stack = s1.stack
    BY <2>2, <2>4, <2>5, SelmonKeeps
  <2> HIDE DEF s2
  <2>7. Keeps(s, s2) /\ s2.stack = s.stack
    BY <2>4, <2>6, KeepsTransitive DEF SameLists
  <2> QED  BY <2>1, <2>7, FocusHandles
<1> QED  BY <1>1, <1>2

\* focusstack gives the focus to a client its loops have found.  Backwards
\* they need the selected client to be in the list: it is, in its place.
LEMMA FocusStackHandles ==
    ASSUME NEW s, Sound(s), NEW dir \in Dir, NEW t, t = FocusStack(s, dir)
    PROVE  Handles(s, t) /\ OrderKept(s, t)
<1> DEFINE q == s.clients[s.selmon]
           sel == Sel(s)
           fwd == FirstOr(Behind(q, sel) \o q, Visible(s), NULL)
           back == LastOr(Cons(sel, Behind(q, sel)) \o InFront(q, sel), Visible(s), NULL)
           next == IF dir > 0 THEN fwd ELSE back
<1>0. ListsSound(s)
  BY DEF Sound
<1>1. CASE sel = NULL \/ sel \in s.full
  BY <1>1, KeepsItself DEF FocusStack
<1>2. CASE ~(sel = NULL \/ sel \in s.full)
  <2>1. /\ q \in Seq(Client) /\ sel \in Client /\ sel \in s.live /\ s.mon[sel] = s.selmon
        /\ \A c \in Range(q) : c \in s.live /\ s.mon[c] = s.selmon
    BY <1>0, <1>2, SelLive, ClientsLive
  <2>2. sel \in Range(q) \/ ~Sure
    <3>1. s.mon[sel] = s.selmon
      BY <1>0, <1>2, SelLive
    <3> QED  BY <2>1, <3>1 DEF Sound, Home, Placed, Sure
  <2> HIDE DEF q, sel
  <2>3. /\ Behind(q, sel) \in Seq(Client) /\ Range(Behind(q, sel)) \subseteq Range(q)
        /\ InFront(q, sel) \in Seq(Client) /\ Range(InFront(q, sel)) \subseteq Range(q)
    BY <2>1, AroundIn
  <2>4. fwd # NULL => fwd \in s.live /\ s.mon[fwd] = s.selmon
    <3>1. /\ Behind(q, sel) \o q \in Seq(Client)
          /\ Range(Behind(q, sel) \o q) = Range(Behind(q, sel)) \cup Range(q)
      BY <2>1, <2>3, ConcatProperties, RangeConcatenation
    <3> QED  BY <2>1, <2>3, <3>1, FoundIn
  <2>5. back # NULL => back \in s.live /\ s.mon[back] = s.selmon
    <3> DEFINE r == Cons(sel, Behind(q, sel))
    <3>1. <<sel>> \in Seq(Client) /\ Range(<<sel>>) = {sel}
      BY <2>1, SingletonDistinct DEF Distinct
    <3>2. r \in Seq(Client) /\ Range(r) = {sel} \cup Range(Behind(q, sel))
      <4> DEFINE one == <<sel>>
                 behind == Behind(q, sel)
      <4>1. r = one \o behind
        BY DEF Cons
      <4>2. one \in Seq(Client) /\ behind \in Seq(Client) /\ Range(one) = {sel}
        BY <2>3, <3>1
      <4> HIDE DEF one, behind, r
      <4>3. r \in Seq(Client) /\ Range(r) = Range(one) \cup Range(behind)
        BY <4>1, <4>2, ConcatProperties, RangeConcatenation
      <4> QED  BY <4>2, <4>3 DEF behind
    <3> HIDE DEF r
    <3>3. /\ r \o InFront(q, sel) \in Seq(Client)
          /\ Range(r \o InFront(q, sel)) = Range(r) \cup Range(InFront(q, sel))
      BY <2>3, <3>2, ConcatProperties, RangeConcatenation
    <3>4. LastOr(r \o InFront(q, sel), Visible(s), NULL) \in Range(r \o InFront(q, sel)) \cup {NULL}
      BY <3>3, FoundIn
    <3> QED  BY <2>1, <2>3, <3>2, <3>3, <3>4 DEF r
  <2>6. \/ t = Crash(s) /\ sel \notin Range(q)
        \/ t = s
        \/ next # NULL /\ t = Focus(s, next)
    BY DEF FocusStack, q, sel
  <2>7. next # NULL => next \in s.live /\ s.mon[next] = s.selmon
    BY <2>4, <2>5
  <2> HIDE DEF next
  <2>8. CASE t = Crash(s) /\ sel \notin Range(q)
    BY <2>2, <2>8, CrashKeeps
  <2>9. CASE t = s
    BY <2>9, KeepsItself
  <2>10. CASE next # NULL /\ t = Focus(s, next)
    BY <2>7, <2>10, FocusAlone, SelHome
  <2> QED  BY <2>6, <2>8, <2>9, <2>10
<1> QED  BY <1>1, <1>2

\* focusmaster goes to the master or to a mark that is still allocated: the
\* mark of the last tag need not be.
LEMMA FocusMasterHandles ==
    ASSUME NEW s, Sound(s), "focusmaster" \in Bound, NEW t, t = FocusMaster(s)
    PROVE  Handles(s, t) /\ OrderKept(s, t)
<1> DEFINE sel == Sel(s)
           master == FirstTiled(s, s.clients[s.selmon])
           mark == s.tagmarked[s.selmon][MarkIndex(s)]
           r == [s EXCEPT !.tagmarked[s.selmon][MarkIndex(s)] = sel]
<1>1. \/ t = s \/ t = Crash(s)
      \/ sel # NULL /\ master # NULL /\ t = Focus(r, master)
      \/ mark \in s.live /\ t = Focus(s, mark)
  BY DEF FocusMaster
<1>2. ListsSound(s) /\ s.selmon \in Mon /\ (sel # NULL => sel \in Range(s.stack[s.selmon]))
  BY SelLive DEF Sound
<1>3. master # NULL => master \in s.live /\ s.mon[master] = s.selmon
  <2>1. s.clients[s.selmon] \in Seq(Client)
    BY <1>2, SelLive
  <2>2. FirstTiled(s, s.clients[s.selmon]) \in Range(s.clients[s.selmon]) \cup {NULL}
    BY <2>1, FoundIn DEF FirstTiled
  <2> QED  BY <1>2, <2>2, ClientsLive
<1>4. CASE t = s
  BY <1>4, KeepsItself
<1>5. CASE t = Crash(s)
  <2>1. ~Sure
    BY DEF Sure
  <2> QED  BY <1>5, <2>1, CrashKeeps
<1>6. CASE sel # NULL /\ master # NULL /\ t = Focus(r, master)
  <2>1. Keeps(s, r) /\ Stays(s, r) /\ r.stack = s.stack
    BY <1>2, <1>6, MarkKeeps
  <2> HIDE DEF r, master
  <2>2. Present(r, r.mon[master])
    BY <1>3, <1>6, <2>1, SelHome DEF Stays, Present
  <2> QED  BY <1>3, <1>6, <2>1, <2>2, FocusHandles
<1>7. CASE mark \in s.live /\ t = Focus(s, mark)
  <2> HIDE DEF mark
  <2>1. Strays \/ Placed(s, mark)
    BY <1>7 DEF Strays, Sound, Home
  <2> QED  BY <1>7, <2>1, FocusAlone DEF Placed, Present
<1> QED  BY <1>1, <1>4, <1>5, <1>6, <1>7

\* swapfocus goes to prevclient only when the list has it.
LEMMA SwapFocusHandles ==
    ASSUME NEW s, Sound(s), NEW t, t = SwapFocus(s)
    PROVE  Handles(s, t) /\ OrderKept(s, t)
<1>1. \/ t = s \/ t = FocusStack(s, -1)
      \/ s.prevclient \in Range(s.clients[s.selmon]) /\ t = Focus(s, s.prevclient)
  BY DEF SwapFocus
<1>2. CASE t = s
  BY <1>2, KeepsItself
<1>3. CASE t = FocusStack(s, -1)
  BY <1>3, FocusStackHandles DEF Dir
<1>4. CASE s.prevclient \in Range(s.clients[s.selmon]) /\ t = Focus(s, s.prevclient)
  <2>1. s.prevclient \in s.live /\ s.mon[s.prevclient] = s.selmon
    BY <1>4, SelLive, ClientsLive DEF Sound
  <2> QED  BY <1>4, <2>1, FocusAlone, SelHome
<1> QED  BY <1>1, <1>2, <1>3, <1>4

\* focussame takes a client of its ring, the index stays inside -- unless
\* the ring is empty.
LEMMA FocusSameHandles ==
    ASSUME NEW s, Sound(s), "focussame" \in Bound, NEW class, NEW dir \in Dir,
           NEW t, t = FocusSame(s, class, dir)
    PROVE  Handles(s, t) /\ OrderKept(s, t)
<1> DEFINE all == Keep(s.clients[s.selmon],
                       {c \in class : s.tags[c] \cap TagSet(s, s.selmon) # {}})
           n == IF Len(all) < SameMax THEN Len(all) ELSE SameMax
           ring == SubSeq(all, 1, n)
           i == Index(ring, Sel(s)) - 1
           at == ((i + dir + n) % n) + 1
<1>0. ListsSound(s)
  BY DEF Sound
<1>1. s.clients[s.selmon] \in Distinct(Client)
  BY <1>0, SelLive, SoundLists
<1>2. /\ ring \in Seq(Client) /\ Range(ring) \subseteq Range(s.clients[s.selmon])
      /\ n \in Nat /\ Len(ring) = n
  <2>1. all \in Distinct(Client) /\ Range(all) \subseteq Range(s.clients[s.selmon])
    BY SMTT(30), <1>1, KeepDistinct
  <2>2. all \in Seq(Client) /\ Len(all) \in Nat /\ \A j \in 1..Len(all) : all[j] \in Range(all)
    BY <2>1, RangeIs DEF Distinct
  <2> HIDE DEF all
  <2>3. n \in Nat /\ n <= Len(all)
    BY <2>2 DEF SameMax
  <2> HIDE DEF n
  <2>4. ring \in Seq(Client) /\ Len(ring) = n /\ \A j \in 1..n : ring[j] = all[j]
    BY <2>2, <2>3
  <2> HIDE DEF ring
  <2>5. \A j \in 1..n : ring[j] \in Range(s.clients[s.selmon])
    BY <2>1, <2>2, <2>3, <2>4
  <2> QED  BY <2>3, <2>4, <2>5, RangeIs
<1>3. \/ t = Crash(s)
      \/ n # 0 /\ Sel(s) \in Range(ring) /\ t = Focus(s, ring[at])
      \/ n # 0 /\ t = Focus(s, ring[1])
      \/ n # 0 /\ t = Focus(s, ring[n])
  BY DEF FocusSame
<1> HIDE DEF ring, n
<1>4. n \in Nat /\ \A j \in 1..n : ring[j] \in Range(ring)
  BY <1>2, RangeIs
<1>5. \A j \in 1..n : ring[j] \in s.live /\ s.mon[ring[j]] = s.selmon
  BY <1>0, <1>2, <1>4, SelLive, ClientsLive
<1>6. n # 0 /\ Sel(s) \in Range(ring) => at \in 1..n
  <2> SUFFICES ASSUME n # 0, Sel(s) \in Range(ring)
               PROVE  at \in 1..n
    OBVIOUS
  <2>1. i \in 0..(n - 1)
    <3>1. Index(ring, Sel(s)) \in 1..n
      BY <1>2, IndexIn
    <3> QED  BY <1>4, <3>1
  <2> DEFINE x == i + dir + n
  <2> HIDE DEF i
  <2>2. x \in Int /\ n \in Nat \ {0}
    BY <1>4, <2>1 DEF Dir
  <2> HIDE DEF x
  <2>3. x % n \in 0..(n - 1)
    BY <2>2
  <2>4. at = (x % n) + 1
    BY DEF x
  <2> HIDE DEF at
  <2> QED  BY <2>2, <2>3, <2>4
<1> HIDE DEF at
<1>7. n # 0 => 1 \in 1..n /\ n \in 1..n
  BY <1>4
<1>8. CASE t = Crash(s)
  <2>1. ~Sure
    BY DEF Sure
  <2> QED  BY <1>8, <2>1, CrashKeeps
<1>9. CASE \E j \in 1..n : t = Focus(s, ring[j])
  <2>1. PICK j \in 1..n : t = Focus(s, ring[j])
    BY <1>9
  <2>2. ring[j] \in s.live /\ Present(s, s.mon[ring[j]])
    BY <1>5, SelHome
  <2> QED  BY <2>1, <2>2, FocusAlone
<1> QED  BY <1>3, <1>6, <1>7, <1>8, <1>9

\* buttonpress on another monitor selects it.
LEMMA ToMonHandles ==
    ASSUME NEW s, Sound(s), NEW m \in Mon, Present(s, m),
           NEW t, t = ToMon(s, m)
    PROVE  /\ Handles(s, t) /\ OrderKept(s, t) /\ FirstToTop(s, t) /\ (t = s \/ Top(t))
           /\ t.clients = s.clients /\ t.mon = s.mon /\ t.nmons = s.nmons
           /\ t.tags = s.tags /\ t.sticky = s.sticky
<1>1. CASE m = s.selmon
  BY <1>1, KeepsItself, NothingMoves DEF ToMon
<1>2. CASE m # s.selmon
  <2> DEFINE yes == TRUE
             s1 == Unfocus(s, Sel(s), yes)
             s2 == [s1 EXCEPT !.selmon = m]
  <2>1. t = Focus(s2, NULL)
    BY <1>2 DEF ToMon
  <2>2. Sel(s) \in ClientOrNull
    BY SelLive DEF Sound
  <2> HIDE DEF yes
  <2>3. /\ Keeps(s, s1) /\ SameLists(s, s1) /\ SameTags(s, s1)
        /\ Leaps \/ s1.lit = {}
    BY <2>2, UnfocusKeeps
  <2> HIDE DEF s1
  <2>4. /\ Sound(s1) /\ s1.nmons = s.nmons /\ s1.clients = s.clients /\ s1.mon = s.mon
        /\ s1.stack = s.stack
    BY <2>3 DEF Keeps, SameLists
  <2>5. /\ Keeps(s1, s2) /\ SameTags(s1, s2)
        /\ s2.nmons = s1.nmons /\ s2.clients = s1.clients /\ s2.mon = s1.mon
        /\ s2.stack = s1.stack
    <3>1. Present(s1, m)
      BY <2>4 DEF Present
    <3> QED  BY <2>3, <2>4, <3>1, SelmonKeeps
  <2> HIDE DEF s2
  <2>6. Keeps(s, s2) /\ s2.stack = s.stack
    BY <2>3, <2>4, <2>5, KeepsTransitive
  <2>7. Handles(s, t) /\ Refocuses(s2, t) /\ Top(t) /\ OrderKept(s, t)
    BY <2>1, <2>6, FocusHandles
  <2>8. FirstToTop(s, t)
    <3>1. ListsSound(s2)
      BY <2>6 DEF Keeps, Sound
    <3> QED  BY <2>1, <2>6, <3>1, FocusMoves, SameStackMoves
  <2> QED  BY <2>3, <2>4, <2>5, <2>7, <2>8 DEF Refocuses, SameTags
<1> QED  BY <1>1, <1>2

\* buttonpress in a client selects its monitor, then the client.
LEMMA ClickHandles ==
    ASSUME NEW s, Sound(s), NEW c \in Client, c \in s.live, Placed(s, c),
           NEW t, t = Click(s, c)
    PROVE  Handles(s, t) /\ OrderKept(s, t) /\ Placed(t, c)
<1>1. s.mon[c] \in Mon /\ Present(s, s.mon[c])
  BY StateFields DEF Sound, ListsSound, Placed, Present
<1> DEFINE r == ToMon(s, s.mon[c])
<1>2. /\ Handles(s, r) /\ FirstToTop(s, r) /\ (r = s \/ Top(r))
      /\ r.clients = s.clients /\ r.mon = s.mon /\ r.nmons = s.nmons
      /\ r.tags = s.tags /\ r.sticky = s.sticky
  BY <1>1, ToMonHandles
<1>3. t = Focus(r, c)
  BY DEF Click
<1> HIDE DEF r
<1>4. Handles(s, t) /\ Refocuses(r, t) /\ OnlyTop(r, t)
  BY <1>1, <1>2, <1>3, FocusHandles DEF Handles, Present
<1>5. OrderKept(s, t)
  <2>1. CASE r = s
    BY <1>4, <2>1, OneMove
  <2>2. CASE Top(r)
    <3>1. ListsSound(r)
      BY <1>2 DEF Handles, Keeps, Sound
    <3> QED  BY <1>2, <1>4, <2>2, <3>1, TopVisible, TwoMoves
  <2> QED  BY <1>2, <2>1, <2>2
<1> QED  BY <1>2, <1>4, <1>5 DEF Placed, Refocuses

-----------------------------------------------------------------------------
(* Tags.                                                                   *)

\* The tags are among the bits of an unsigned int.
LEMMA TagInBit ==
    /\ Tag \subseteq Bit /\ NTags \in Nat \ {0} /\ NTags - 1 \in Nat
    /\ Tag # {}
BY NTagsAssumption DEF Tag, Bit

\* The arguments of the key bindings are masked with TAGMASK.
LEMMA ArgsIn ==
    /\ \A t \in OneTag : t \in SUBSET Tag /\ t # {}
    /\ \A t \in TagArg : t \in SUBSET Tag
    /\ \A t \in ViewArg : t \in SUBSET Tag
BY DEF OneTag, TagArg, ViewArg

\* Exclusive or makes no new bits.
LEMMA ToggleSetIn ==
    ASSUME NEW S, NEW a \in SUBSET S, NEW b \in SUBSET S
    PROVE  ToggleSet(a, b) \in SUBSET S
BY DEF ToggleSet

\* A monitor shows other tags, but some.
LEMMA TagsetKeeps ==
    ASSUME NEW s, Sound(s), NEW m \in Mon, NEW x \in SUBSET Tag, x # {},
           NEW t, t = [s EXCEPT !.tagset[m][s.seltags[m]] = x]
    PROVE  /\ Keeps(s, t) /\ SameLists(s, t) /\ TagSet(t, m) = x
           /\ t.tags = s.tags /\ t.sticky = s.sticky
<1> DEFINE i == s.seltags[m]
           sets == [s.tagset[m] EXCEPT ![i] = x]
           tagset == [s.tagset EXCEPT ![m] = sets]
<1>1. /\ s \in State /\ s.tagset \in [Mon -> [0..1 -> SUBSET Tag]] /\ i \in 0..1
      /\ \A n \in Mon, j \in 0..1 : s.tagset[n][j] # {}
  BY DEF Sound, ListsSound, State, Flagged
<1>2. sets \in [0..1 -> SUBSET Tag] /\ sets[i] = x /\ \A j \in 0..1 : sets[j] # {}
  BY <1>1
<1>3. t = [s EXCEPT !.tagset = tagset]
  BY <1>1 DEF State
<1> HIDE DEF sets
<1>4. /\ tagset \in [Mon -> [0..1 -> SUBSET Tag]] /\ tagset[m] = sets
      /\ \A n \in Mon, j \in 0..1 : tagset[n][j] # {}
  BY <1>1, <1>2
<1> HIDE DEF tagset
<1>5. /\ t \in State /\ SameLists(s, t) /\ t.lit = s.lit
      /\ t.full = s.full /\ t.floating = s.floating /\ t.live = s.live
      /\ t.tags = s.tags /\ t.tagset = tagset /\ t.seltags = s.seltags
      /\ t.sticky = s.sticky
  BY ZenonT(40), <1>1, <1>3, <1>4 DEF State, SameLists
<1>6. Flagged(t)
  BY <1>4, <1>5 DEF Sound, Flagged
<1>7. TagSet(t, m) = x
  BY <1>2, <1>4, <1>5 DEF TagSet
<1> QED  BY <1>5, <1>6, <1>7, SameKeeps

\* Clients get other tags, and keep some -- but for _NET_WM_DESKTOP.
LEMMA TagsKeeps ==
    ASSUME NEW s, Sound(s), NEW f \in [Client -> SUBSET Bit],
           "netwmdesktop" \in Bound \/ \A c \in s.live : f[c] # {} /\ f[c] \subseteq Tag,
           NEW t, t = [s EXCEPT !.tags = f]
    PROVE  /\ Keeps(s, t) /\ SameLists(s, t) /\ SameFocus(s, t) /\ t.tags = f
           /\ t.tagset = s.tagset /\ t.seltags = s.seltags /\ t.sticky = s.sticky
<1>1. s \in State
  BY DEF Sound, ListsSound
<1>2. /\ t \in State /\ SameLists(s, t) /\ SameFocus(s, t) /\ t.tags = f
      /\ t.tagset = s.tagset /\ t.seltags = s.seltags /\ t.sticky = s.sticky
      /\ t.full = s.full /\ t.floating = s.floating /\ t.live = s.live /\ t.lit = s.lit
  BY <1>1 DEF State, SameLists, SameFocus
<1>3. Flagged(t)
  BY <1>2 DEF Sound, Flagged
<1> QED  BY <1>2, <1>3, SameKeeps

\* One client gets other tags.
LEMMA TagOneKeeps ==
    ASSUME NEW s, Sound(s), NEW c, NEW x \in SUBSET Bit,
           "netwmdesktop" \in Bound \/ (x # {} /\ x \subseteq Tag),
           NEW t, t = [s EXCEPT !.tags[c] = x]
    PROVE  /\ Keeps(s, t) /\ SameLists(s, t) /\ SameFocus(s, t)
           /\ c \in Client => t.tags[c] = x
<1> DEFINE f == [s.tags EXCEPT ![c] = x]
<1>1. s \in State /\ s.tags \in [Client -> SUBSET Bit] /\ s.live \subseteq Client
  BY DEF Sound, ListsSound, State
<1>2. /\ f \in [Client -> SUBSET Bit] /\ (c \in Client => f[c] = x)
      /\ \A d \in Client : f[d] = x \/ f[d] = s.tags[d]
  BY <1>1
<1>3. t = [s EXCEPT !.tags = f]
  BY <1>1 DEF State
<1> HIDE DEF f
<1>4. "netwmdesktop" \in Bound \/ \A d \in s.live : f[d] # {} /\ f[d] \subseteq Tag
  BY <1>1, <1>2 DEF Sound, Flagged
<1>5. Keeps(s, t) /\ SameLists(s, t) /\ SameFocus(s, t)
  BY <1>2, <1>3, <1>4, TagsKeeps
<1>6. t.tags = f
  BY <1>1, <1>3 DEF Sound, ListsSound, State
<1> QED  BY <1>2, <1>5, <1>6

\* toggleview changes what is in view.
LEMMA ToggleViewHandles ==
    ASSUME NEW s, Sound(s), NEW g \in SUBSET Tag, NEW t, t = ToggleView(s, g)
    PROVE  Handles(s, t) /\ OrderKept(s, t)
<1> DEFINE m == s.selmon
           new == ToggleSet(TagSet(s, m), g)
           r == [s EXCEPT !.tagset[m][s.seltags[m]] = new]
<1>1. s \in State /\ m \in Mon
  BY SelLive DEF Sound
<1>2. new \in SUBSET Tag
  BY <1>1, TagSetIs, ToggleSetIn
<1>3. t = s \/ (new # {} /\ t = Focus(r, NULL))
  BY DEF ToggleView
<1>4. CASE t = s
  BY <1>4, KeepsItself
<1>5. CASE new # {} /\ t = Focus(r, NULL)
  <2> HIDE DEF new, m
  <2>1. Keeps(s, r) /\ r.stack = s.stack
    BY <1>1, <1>2, <1>5, TagsetKeeps DEF SameLists
  <2> HIDE DEF r
  <2> QED  BY <1>5, <2>1, FocusHandles
<1> QED  BY <1>3, <1>4, <1>5

\* With a visible client in its stack the selected monitor has a selected
\* client.
LEMMA SelThere ==
    ASSUME NEW s, ListsSound(s), Top(s), NEW c \in Range(s.stack[s.selmon]), c \in Visible(s)
    PROVE  Sel(s) # NULL
<1>1. s.selmon \in Mon /\ s.stack[s.selmon] \in Seq(Client)
  BY StateFields DEF ListsSound
<1>2. FirstOr(s.stack[s.selmon], Visible(s), NULL) \in Range(s.stack[s.selmon]) \cap Visible(s)
  BY <1>1, FirstOrSome
<1> QED  BY <1>2, NullAssumption DEF Top, Visible

\* tag moves the selected client out of view; when the view follows, it is
\* there to be selected again, so that updateclientdesktop has a client to
\* read.
LEMMA TagSelHandles ==
    ASSUME NEW s, Sound(s), NEW g \in SUBSET Tag, NEW t, t = TagSel(s, g)
    PROVE  Handles(s, t) /\ (AtHead(s) => OrderKept(s, t))
<1> DEFINE c == Sel(s)
           m == s.selmon
           s0 == [s EXCEPT !.tags[c] = g]
           s1 == Focus(s0, NULL)
           s2 == IF ViewOnTag /\ g # Tag THEN View(s1, g) ELSE s1
<1>1. \/ t = s
      \/ c # NULL /\ g # {} /\ (t = s2 \/ (Sel(s2) = NULL /\ t = Crash(s2)))
  BY DEF TagSel
<1>2. CASE t = s
  BY <1>2, KeepsItself
<1>3. CASE c # NULL /\ g # {} /\ (t = s2 \/ (Sel(s2) = NULL /\ t = Crash(s2)))
  <2>1. c \in Client /\ c \in Range(s.stack[m]) /\ s.mon[c] = m /\ m \in Mon
    BY <1>3, SelLive DEF Sound
  <2>0. g # {} /\ g \in SUBSET Bit
    BY <1>3, TagInBit
  <2> HIDE DEF c
  <2>2. /\ Keeps(s, s0) /\ SameLists(s, s0) /\ s0.tags[c] = g /\ s0.sticky = s.sticky
        /\ \A d \in Client \ {c} : s0.tags[d] = s.tags[d]
    <3>1. /\ s0.tags[c] = g /\ s0.sticky = s.sticky
          /\ \A d \in Client \ {c} : s0.tags[d] = s.tags[d]
      BY <2>1 DEF Sound, ListsSound, State
    <3> QED  BY <2>0, <2>1, <3>1, TagOneKeeps
  <2> HIDE DEF s0
  <2>3. /\ Handles(s, s1) /\ Top(s1) /\ Refocuses(s0, s1) /\ s1.selmon = s0.selmon
        /\ OrderKept(s, s1) /\ FirstToTop(s, s1)
    <3>1. s0.stack = s.stack /\ ListsSound(s0)
      BY <2>2 DEF SameLists, Keeps, Sound
    <3> QED  BY <2>2, <3>1, FocusHandles, FocusMoves, SameStackMoves
  <2> HIDE DEF s1
  <2>4. /\ s1.selmon = m /\ s1.mon[c] = m /\ s1.tags[c] = g
        /\ c \in Range(s1.stack[m]) /\ ListsSound(s1) /\ Sound(s1)
        /\ s1.mon = s.mon /\ s1.sticky = s.sticky
        /\ \A d \in Client \ {c} : s1.tags[d] = s.tags[d]
    <3>1. s0.selmon = m /\ s0.mon = s.mon /\ s0.stack = s.stack
      BY <2>2 DEF SameLists
    <3>2. /\ s1.mon = s0.mon /\ s1.tags = s0.tags /\ s1.sticky = s0.sticky
          /\ Range(s0.stack[m]) \subseteq Range(s1.stack[m])
      BY <2>1, <2>3 DEF Refocuses, SameTags
    <3> QED  BY <2>1, <2>2, <2>3, <3>1, <3>2 DEF Handles, Keeps, Sound
  <2>5. CASE s2 = View(s1, g)
    <3> HIDE DEF s2
    <3>1. Handles(s1, s2) /\ Top(s2)
      BY <2>3, <2>4, <2>5, ViewSound
    <3>2. /\ s2.mon = s1.mon /\ s2.tags = s1.tags /\ s2.selmon = m
          /\ c \in Range(s2.stack[m]) /\ TagSet(s2, m) = g
      BY <1>3, <2>1, <2>4, <2>5, ViewSound
    <3>3. c \in Visible(s2)
      BY <1>3, <2>1, <2>4, <3>2 DEF Visible, IsVisible
    <3>4. Sel(s2) # NULL
      BY <3>1, <3>2, <3>3, SelThere DEF Handles, Keeps, Sound
    <3>5. AtHead(s) => OrderKept(s, s2)
      <4>1. ListsSound(s) /\ ListsSound(s2) /\ FirstToTop(s1, s2)
        BY <2>4, <2>5, <3>1, ViewSound DEF Sound, Handles, Keeps
      <4> QED  BY <2>1, <2>3, <2>4, <3>1, <3>2, <3>3, <4>1, RetagMoves DEF c
    <3> QED  BY <1>3, <2>3, <3>1, <3>4, <3>5, HandlesTransitive
  <2>6. CASE s2 = s1
    <3>1. ASSUME Sure, Sel(s1) = NULL
          PROVE  FALSE
      <4>1. CASE g = Tag
        <5>1. TagSet(s1, m) \in SUBSET Tag /\ TagSet(s1, m) # {}
          BY <2>1, <2>4, TagSetIs DEF Sound, ListsSound, Flagged, TagSet
        <5>2. c \in Visible(s1)
          BY <2>1, <2>4, <4>1, <5>1 DEF Visible, IsVisible
        <5> QED  BY <2>3, <2>4, <3>1, <5>2, SelThere
      <4>2. CASE g # Tag
        <5>1. s1 = View(s1, g)
          BY <2>6, <3>1, <4>2 DEF Sure
        <5>2. s1.mon = s1.mon /\ TagSet(s1, m) = g
          BY <1>3, <2>4, <5>1, ViewSound
        <5>3. c \in Visible(s1)
          BY <1>3, <2>1, <2>4, <5>2 DEF Visible, IsVisible
        <5> QED  BY <2>3, <2>4, <3>1, <5>3, SelThere
      <4> QED  BY <4>1, <4>2
    <3>2. CASE t = s2
      BY <2>3, <2>6, <3>2
    <3>3. CASE Sel(s2) = NULL /\ t = Crash(s2)
      <4>1. ~Sure /\ t = Crash(s1)
        BY <2>6, <3>1, <3>3
      <4>2. Handles(s1, t) /\ t.stack = s1.stack /\ t.sel = s1.sel /\ t.selmon = s1.selmon
        BY <2>4, <4>1, CrashKeeps
      <4>3. OrderKept(s, t)
        <5>1. OnlyTop(s, t)
          BY <2>3, <4>2 DEF FirstToTop, OnlyTop, Sel
        <5> QED  BY <5>1, OneMove
      <4> QED  BY <2>3, <4>2, <4>3, HandlesTransitive
    <3> QED  BY <1>3, <3>2, <3>3
  <2> QED  BY <2>5, <2>6
<1> QED  BY <1>1, <1>2, <1>3

\* toggletag changes the tags of the selected client, but not its last one.
LEMMA ToggleTagHandles ==
    ASSUME NEW s, Sound(s), NEW g \in SUBSET Tag, NEW t, t = ToggleTag(s, g)
    PROVE  Handles(s, t) /\ OrderKept(s, t)
<1> DEFINE c == Sel(s)
           new == ToggleSet(s.tags[c], g)
           r == [s EXCEPT !.tags[c] = new]
<1>1. t = s \/ (c # NULL /\ new # {} /\ t = Focus(r, NULL))
  BY DEF ToggleTag
<1>2. CASE t = s
  BY <1>2, KeepsItself
<1>3. CASE c # NULL /\ new # {} /\ t = Focus(r, NULL)
  <2>1. s.tags \in [Client -> SUBSET Bit] /\ c \in Client /\ c \in s.live
    BY <1>3, SelLive DEF Sound, State
  <2> HIDE DEF c
  <2>2. /\ s.tags[c] \in SUBSET Bit /\ g \in SUBSET Bit
        /\ "netwmdesktop" \in Bound \/ s.tags[c] \in SUBSET Tag
    BY <2>1, TagInBit DEF Sound, Flagged
  <2>3. new \in SUBSET Bit /\ ("netwmdesktop" \in Bound \/ new \in SUBSET Tag)
    BY <2>2, ToggleSetIn
  <2> HIDE DEF new
  <2>4. Keeps(s, r) /\ r.stack = s.stack
    BY <1>3, <2>3, TagOneKeeps DEF SameLists
  <2> HIDE DEF r
  <2> QED  BY <1>3, <2>4, FocusHandles
<1> QED  BY <1>1, <1>2, <1>3

\* What swaptag makes of the tags of a client.
Swapped(cur, g, old) ==
    IF old \cap (g \cup cur) = {} THEN (IF old = {} THEN g ELSE old)
    ELSE LET new == ToggleSet(old, ToggleSet(cur, g))
         IN  IF new = {} THEN g ELSE new

\* swaptag changes tags of clients and of the monitor at once, and gives
\* its argument to those that would have no tag left.
SwapsTag(s, g, r) ==
    /\ Keeps(s, r) /\ SameLists(s, r) /\ r.sticky = s.sticky
    /\ g # TagSet(s, s.selmon) /\ Cardinality(TagSet(s, s.selmon)) = 1
    /\ TagSet(r, s.selmon) = g
    /\ \A c \in Range(s.clients[s.selmon]) :
           r.tags[c] = Swapped(TagSet(s, s.selmon), g, s.tags[c])

LEMMA SwapTagDoes ==
    ASSUME NEW s, Sound(s), NEW g \in SUBSET Tag, g # {}, NEW t, t = SwapTag(s, g)
    PROVE  t = s \/ \E r : SwapsTag(s, g, r) /\ t = Focus(r, NULL)
<1> DEFINE m == s.selmon
           cur == TagSet(s, m)
           f == [c \in Client |-> IF c \in Range(s.clients[m])
                                  THEN Swapped(cur, g, s.tags[c]) ELSE s.tags[c]]
           r0 == [s EXCEPT !.tags = f]
           r == [r0 EXCEPT !.tagset[m][r0.seltags[m]] = g]
<1>1. /\ s \in State /\ m \in Mon /\ s.tags \in [Client -> SUBSET Bit]
      /\ s.live \subseteq Client
      /\ \A c \in Range(s.clients[m]) : c \in Client
  BY SelLive, ClientsLive DEF Sound, State
<1>2. t = s \/ (g # cur /\ Cardinality(cur) = 1 /\ t = Focus(r, NULL))
  <2>1. t = s \/ /\ g # cur /\ Cardinality(cur) = 1
                 /\ t = Focus([s EXCEPT !.tags = f, !.tagset[m][s.seltags[m]] = g], NULL)
    BY <1>1 DEF SwapTag, Swapped, State
  <2> HIDE DEF f, m
  <2>2. r = [s EXCEPT !.tags = f, !.tagset[m][s.seltags[m]] = g]
    BY <1>1 DEF State
  <2> QED  BY <2>1, <2>2
<1>3. /\ f \in [Client -> SUBSET Bit]
      /\ "netwmdesktop" \in Bound \/ \A c \in s.live : f[c] # {} /\ f[c] \subseteq Tag
      /\ \A c \in Range(s.clients[m]) : f[c] = Swapped(cur, g, s.tags[c])
  <2>1. cur \in SUBSET Bit /\ g \in SUBSET Bit /\ cur \in SUBSET Tag
    BY <1>1, TagSetIs, TagInBit
  <2> HIDE DEF cur
  <2>2. \A old \in SUBSET Bit : Swapped(cur, g, old) \in SUBSET Bit
    BY <2>1, ToggleSetIn DEF Swapped
  <2>3. \A old \in SUBSET Tag : Swapped(cur, g, old) \in SUBSET Tag
    BY <2>1, ToggleSetIn DEF Swapped
  <2>4. \A old : Swapped(cur, g, old) # {}
    BY DEF Swapped
  <2>5. "netwmdesktop" \in Bound \/ \A c \in s.live : s.tags[c] # {} /\ s.tags[c] \subseteq Tag
    BY DEF Sound, Flagged
  <2> QED  BY <1>1, <2>2, <2>3, <2>4, <2>5
<1> HIDE DEF f
<1>4. /\ Keeps(s, r0) /\ SameLists(s, r0) /\ r0.tags = f /\ r0.sticky = s.sticky
  BY <1>3, TagsKeeps
<1> HIDE DEF r0, m
<1>5. /\ Keeps(r0, r) /\ SameLists(r0, r) /\ TagSet(r, m) = g
      /\ r.tags = r0.tags /\ r.sticky = r0.sticky
  BY <1>1, <1>4, TagsetKeeps DEF Keeps
<1> HIDE DEF r
<1>6. Keeps(s, r)
  BY <1>4, <1>5, KeepsTransitive
<1>7. SameLists(s, r)
  BY <1>4, <1>5 DEF SameLists
<1>8. CASE t = s
  BY <1>8
<1>9. CASE g # cur /\ Cardinality(cur) = 1 /\ t = Focus(r, NULL)
  BY <1>3, <1>4, <1>5, <1>6, <1>7, <1>9 DEF SwapsTag, m
<1> QED  BY <1>2, <1>8, <1>9

LEMMA SwapTagHandles ==
    ASSUME NEW s, Sound(s), NEW g \in SUBSET Tag, g # {}, NEW t, t = SwapTag(s, g)
    PROVE  Handles(s, t) /\ OrderKept(s, t)
<1>1. t = s \/ \E r : SwapsTag(s, g, r) /\ t = Focus(r, NULL)
  BY SwapTagDoes
<1>2. CASE t = s
  BY <1>2, KeepsItself
<1>3. CASE \E r : SwapsTag(s, g, r) /\ t = Focus(r, NULL)
  BY <1>3, FocusHandles DEF SwapsTag, SameLists
<1> QED  BY <1>1, <1>2, <1>3

\* Bits shifted out on one side come back on the other.
LEMMA RotatedIn ==
    ASSUME NEW g, NEW n
    PROVE  Rotated(g, n) \in SUBSET Tag
BY DEF Rotated

LEMMA RotatedSome ==
    ASSUME NEW g \in SUBSET Tag, g # {}, NEW n \in Int
    PROVE  Rotated(g, n) # {}
<1>1. PICK d \in Tag : d \in g
  OBVIOUS
<1>2. (d + n) % NTags \in 0..(NTags - 1)
  <2>1. d + n \in Int
    BY DEF Tag
  <2> QED  BY <2>1, NTagsAssumption
<1> QED  BY <1>1, <1>2 DEF Rotated, Tag

\* rotatetags changes what is in view.
LEMMA RotateTagsHandles ==
    ASSUME NEW s, Sound(s), NEW dir \in Dir, NEW t, t = RotateTags(s, dir)
    PROVE  Handles(s, t) /\ OrderKept(s, t)
<1> DEFINE m == s.selmon
           new == Rotated(s.tagset[m][s.seltags[m]], dir)
           r == [s EXCEPT !.tagset[m][s.seltags[m]] = new]
<1>1. s \in State /\ m \in Mon /\ s.seltags[m] \in 0..1
  BY SelLive, TagSetIs DEF Sound
<1>2. t = Focus(r, NULL)
  BY <1>1 DEF RotateTags, State
<1>3. new \in SUBSET Tag /\ new # {}
  <2>1. s.tagset[m][s.seltags[m]] \in SUBSET Tag /\ s.tagset[m][s.seltags[m]] # {}
    BY <1>1, TagSetIs DEF TagSet, Sound, Flagged
  <2> QED  BY <2>1, RotatedIn, RotatedSome DEF Dir
<1> HIDE DEF new, m
<1>4. Keeps(s, r) /\ r.stack = s.stack
  BY <1>1, <1>3, TagsetKeeps DEF SameLists
<1> HIDE DEF r
<1> QED  BY <1>2, <1>4, FocusHandles

\* _NET_ACTIVE_WINDOW views the lowest tag of the client, which is one of
\* those that a view may show.
LEMMA LowBitIn ==
    ASSUME NEW g \in SUBSET Bit, g \cap Tag # {}
    PROVE  LowBit(g) \in Tag
<1>1. g \subseteq Nat /\ g # {}
  BY TagInBit DEF Bit
<1>2. \E b \in g : \A d \in g : b <= d
  BY <1>1, LeastNatural
<1>3. LowBit(g) \in g /\ \A d \in g : LowBit(g) <= d
  BY <1>2 DEF LowBit
<1>4. PICK d \in g : d \in Tag
  OBVIOUS
<1>5. d \in 0..(NTags - 1) /\ LowBit(g) \in Nat /\ LowBit(g) <= d /\ NTags - 1 \in Nat
  BY <1>1, <1>3, <1>4, TagInBit DEF Tag
<1>6. LowBit(g) \in 0..(NTags - 1)
  BY <1>5
<1> QED  BY <1>6 DEF Tag

\* The request to become the active window: selmon, a view, a focus.
LEMMA ActiveWindowHandles ==
    ASSUME NEW s, Sound(s), "netactivewindow" \in Bound,
           NEW c \in Client, c \in s.live, s.mon[c] <= s.nmons,
           NEW t, t = ActiveWindow(s, c)
    PROVE  Handles(s, t) /\ OrderKept(s, t)
<1> DEFINE n == s.mon[c]
           g == {LowBit(s.tags[c])}
           s1 == [s EXCEPT !.selmon = n]
           s2 == View(s1, g)
<1>1. s.tags[c] \in SUBSET Bit /\ n \in Mon
  BY SelLive, StateFields DEF Sound, State
<1>2. CASE s.tags[c] \cap Tag = {}
  BY <1>2, KeepsItself DEF ActiveWindow
<1>3. CASE s.tags[c] \cap Tag # {}
  <2>1. t = Focus(s2, c)
    BY <1>3 DEF ActiveWindow
  <2>2. g \in SUBSET Tag
    BY <1>1, <1>3, LowBitIn
  <2>3. Leaps
    BY DEF Leaps
  <2> HIDE DEF g
  <2>4. /\ Keeps(s, s1) /\ SameTags(s, s1) /\ s1.mon = s.mon /\ s1.stack = s.stack
        /\ s1.nmons = s.nmons
    <3> HIDE DEF n
    <3>1. Present(s, n)
      BY DEF n, Present
    <3> QED  BY <1>1, <2>3, <3>1, SelmonKeeps
  <2> HIDE DEF s1
  <2>5. /\ Keeps(s1, s2) /\ FirstToTop(s1, s2) /\ (s2 = s1 \/ Top(s2))
        /\ s2.mon = s1.mon /\ s2.tags = s1.tags /\ s2.sticky = s1.sticky
        /\ s2.nmons = s1.nmons
    BY <2>2, <2>4, ViewSound DEF Keeps, Handles
  <2> HIDE DEF s2
  <2>6. Keeps(s, s2)
    BY <2>4, <2>5, KeepsTransitive
  <2>7. Handles(s, t) /\ OnlyTop(s2, t)
    <3>1. Present(s2, s2.mon[c])
      BY <2>4, <2>5 DEF Present
    <3> QED  BY <2>1, <2>6, <3>1, FocusHandles
  <2>8. OrderKept(s, t)
    <3>1. CASE s2 = s1
      <4>1. OnlyTop(s, t)
        BY <2>4, <2>7, <3>1, SameStackMoves
      <4> QED  BY <4>1, OneMove
    <3>2. CASE Top(s2)
      <4>1. ListsSound(s2) /\ FirstToTop(s, s2)
        BY <2>4, <2>5, SameStackMoves DEF Keeps, Sound
      <4>2. s2.mon = s.mon /\ s2.tags = s.tags /\ s2.sticky = s.sticky
        BY <2>4, <2>5 DEF SameTags
      <4> QED  BY <2>7, <3>2, <4>1, <4>2, TopVisible, TwoMoves
    <3> QED  BY <2>5, <3>1, <3>2
  <2> QED  BY <2>7, <2>8
<1> QED  BY <1>2, <1>3

-----------------------------------------------------------------------------
(* Order and monitor.                                                      *)

\* pop puts a client at the head of its list and focuses it.
LEMMA PopHandles ==
    ASSUME NEW s, Sound(s), NEW c \in Client, c \in s.live,
           c \in Range(s.stack[s.mon[c]]), NEW t, t = Pop(s, c)
    PROVE  Handles(s, t) /\ OrderKept(s, t)
<1> DEFINE n == s.mon[c]
           i == MarkIndex(s)
           x == FirstTiled(s, s.clients[n])
           s1 == [s EXCEPT !.tagmarked[n][i] = x]
           s2 == Attach(Detach(s1, c), c)
<1>1. n \in Mon /\ s.clients[n] \in Seq(Client) /\ ListsSound(s)
  BY StateFields DEF Sound, ListsSound
<1>2. x # NULL => x \in Range(s.stack[n])
  <2>1. x \in Range(s.clients[n]) \cup {NULL}
    BY <1>1, FoundIn DEF FirstTiled
  <2> QED  BY <1>1, <2>1, SoundLists
<1>3. t = Focus(s2, c)
  BY DEF Pop
<1> HIDE DEF x, i
<1>4. Keeps(s, s1) /\ s1.mon = s.mon /\ s1.stack = s.stack
  <2> HIDE DEF n
  <2>1. Keeps(s, s1)
    BY <1>1, <1>2, MarkKeeps
  <2>2. s1.mon = s.mon /\ s1.stack = s.stack
    BY <1>1 DEF ListsSound, State
  <2> QED  BY <2>1, <2>2
<1> HIDE DEF s1
<1>5. c \in Range(s1.stack[s1.mon[c]]) /\ Sound(s1) /\ ListsSound(s1)
  BY <1>4 DEF Keeps, Sound
<1>6. Keeps(s1, s2) /\ s2.stack = s1.stack /\ s2.mon = s1.mon
  <2>1. /\ Stays(s1, s2) /\ ListsSound(s2) /\ s2.sel = s1.sel /\ s2.ok = s1.ok
        /\ s2.stack = s1.stack
        /\ \A d \in Client : Placed(s1, d) => Placed(s2, d)
    BY <1>5, ToHeadSound
  <2> HIDE DEF s2
  <2>2. Sel(s2) = Sel(s1)
    BY <2>1 DEF Sel, Stays
  <2> QED  BY <1>5, <2>1, <2>2, StaysKeeps DEF Stays
<1> HIDE DEF s2
<1>7. Keeps(s, s2) /\ s2.stack = s.stack
  BY <1>4, <1>6, KeepsTransitive
<1>8. Present(s2, s2.mon[c])
  <2>1. Sound(s2) /\ c \in Range(s2.stack[n]) /\ s2.mon[c] = n
    BY <1>4, <1>6, <1>7 DEF Keeps
  <2> QED  BY <1>1, <2>1, StackHome
<1> QED  BY <1>3, <1>7, <1>8, FocusHandles

\* zoom pops the selected client or the second tiled one.
LEMMA ZoomHandles ==
    ASSUME NEW s, Sound(s), NEW tiling, NEW t, t = Zoom(s, tiling)
    PROVE  Handles(s, t) /\ OrderKept(s, t)
<1> DEFINE q == s.clients[s.selmon]
           sel == Sel(s)
           master == FirstTiled(s, q)
           second == FirstTiled(s, Behind(q, master))
           s1 == [s EXCEPT !.prevclient = master]
           s2 == [s EXCEPT !.prevclient = second]
<1>0. ListsSound(s)
  BY DEF Sound
<1>1. q \in Seq(Client) /\ s.selmon \in Mon /\ s \in State
  BY <1>0, SelLive
<1>2. master \in Range(q) \cup {NULL}
  BY <1>1, FoundIn DEF FirstTiled
<1>3. second \in Range(q) \cup {NULL}
  <2>1. Behind(q, master) \in Seq(Client) /\ Range(Behind(q, master)) \subseteq Range(q)
    BY <1>1, AroundIn
  <2> QED  BY <2>1, FoundIn DEF FirstTiled
<1>4. \/ t = s1 \/ t = s2
      \/ sel # NULL /\ t = Pop(s1, sel)
      \/ second # NULL /\ t = Pop(s2, second)
  BY DEF Zoom
<1>5. /\ sel # NULL => sel \in Client /\ sel \in s.live /\ sel \in Range(s.stack[s.mon[sel]])
      /\ second # NULL =>
            second \in Client /\ second \in s.live /\ second \in Range(s.stack[s.mon[second]])
  BY <1>0, <1>1, <1>3, SelLive, ClientsLive
<1>6. master \in ClientOrNull /\ second \in ClientOrNull
  BY <1>1, <1>2, <1>3, RangeIs DEF ClientOrNull
<1> HIDE DEF master, second, sel
<1>7. /\ Handles(s, s1) /\ s1.mon = s.mon /\ s1.stack = s.stack
      /\ s1.tags = s.tags /\ s1.sticky = s.sticky /\ OrderKept(s, s1)
  <2>1. Handles(s, s1) /\ OrderKept(s, s1)
    BY <1>6, PrevclientHandles
  <2> QED  BY <1>1, <2>1 DEF State
<1>8. /\ Handles(s, s2) /\ s2.mon = s.mon /\ s2.stack = s.stack
      /\ s2.tags = s.tags /\ s2.sticky = s.sticky /\ OrderKept(s, s2)
  <2>1. Handles(s, s2) /\ OrderKept(s, s2)
    BY <1>6, PrevclientHandles
  <2> QED  BY <1>1, <2>1 DEF State
<1> HIDE DEF s1, s2
<1>9. CASE t = s1 \/ t = s2
  BY <1>7, <1>8, <1>9
<1>10. CASE sel # NULL /\ t = Pop(s1, sel)
  <2>1. sel \in s1.live /\ sel \in Range(s1.stack[s1.mon[sel]]) /\ Sound(s1)
    BY <1>5, <1>7, <1>10 DEF Handles, Keeps
  <2>2. Handles(s1, t) /\ OrderKept(s1, t)
    BY <1>5, <1>10, <2>1, PopHandles
  <2> QED  BY <1>7, <2>2, HandlesTransitive, SameOrderKept
<1>11. CASE second # NULL /\ t = Pop(s2, second)
  <2>1. second \in s2.live /\ second \in Range(s2.stack[s2.mon[second]]) /\ Sound(s2)
    BY <1>5, <1>8, <1>11 DEF Handles, Keeps
  <2>2. Handles(s2, t) /\ OrderKept(s2, t)
    BY <1>5, <1>11, <2>1, PopHandles
  <2> QED  BY <1>8, <2>2, HandlesTransitive, SameOrderKept
<1> QED  BY <1>4, <1>9, <1>10, <1>11

\* The end of rotatestack: the focus goes back to the client that had it,
\* also when the rotation has put another one in its place.
LEMMA RefocusHandles ==
    ASSUME NEW s, Sound(s), "rotatestack" \in Bound,
           NEW r, Stays(s, r), ListsSound(r), Rooted(r), r.ok = s.ok,
           Sel(r) = Sel(s) \/ Sel(s) \in Visible(s),
           NEW t, t = Focus(r, Sel(s))
    PROVE  Handles(s, t)
<1> DEFINE c == Sel(s)
<1>1. c # NULL => c \in r.live
  BY SelLive DEF Sound, Stays
<1>2. Visible(r) = Visible(s) /\ r.lit = s.lit
  <2>1. SameTags(s, r) /\ r.mon = s.mon /\ r.lit = s.lit
    BY DEF Stays, SameFocus
  <2> QED  BY <2>1, VisibleSame
<1>3. NULL \notin Visible(s)
  BY NullAssumption DEF Visible
<1> HIDE DEF c
<1>4. /\ Refocuses(r, t) /\ Top(t)
      /\ r.lit \subseteq {Sel(r), Sel(t)} => t.lit \subseteq {Sel(t)}
      /\ c # NULL /\ c \in Visible(r) => Sel(t) = c
  BY <1>1, FocusSound DEF c
<1>5. LitOnly(t)
  <2>1. Sel(r) = c \/ Sel(t) = c
    BY <1>2, <1>3, <1>4 DEF c
  <2>2. Leaps \/ s.lit \subseteq {c}
    BY DEF Sound, LitOnly, c
  <2> QED  BY <1>2, <1>4, <2>1, <2>2 DEF LitOnly
<1>6. Flagged(t)
  <2>1. Flagged(s) /\ t.full \subseteq t.floating \cap t.live /\ t.live = s.live
    BY <1>4 DEF Sound, Flagged, Refocuses, Stays
  <2>2. SameTags(s, t)
    BY <1>4 DEF Refocuses, Stays, SameTags
  <2> QED  BY <2>1, <2>2, SameFlagged
<1>7. Home(t) /\ Unhurt(t)
  <2>1. c # NULL => Present(r, r.mon[c])
    BY SelHome DEF c, Stays, Present
  <2>2. Rooted(t)
    BY <1>1, <2>1, FocusRooted DEF c
  <2> QED  BY <2>2 DEF Home, Unhurt, Sure
<1>8. t.live = s.live /\ t.grab = s.grab /\ t.held = s.held /\ ListsSound(t)
  BY <1>4 DEF Refocuses, Stays
<1>9. Settled(t)
  BY <1>4, TopSettles
<1> QED  BY <1>5, <1>6, <1>7, <1>8, <1>9 DEF Handles, Keeps, Sound

\* rotatestack moves a client to the front or to the end of both lists, or
\* out of the list of clients: a place for every client is not what it keeps.
LEMMA RotateStackHandles ==
    ASSUME NEW s, Sound(s), "rotatestack" \in Bound, NEW dir \in Dir,
           NEW t, t = RotateStack(s, dir)
    PROVE  Handles(s, t)
<1> DEFINE q == s.clients[s.selmon]
           c == IF dir > 0 THEN LastOr(q, Tiled(s), NULL) ELSE FirstTiled(s, q)
           front == Raise(Attach(Detach(s, c), c), c)
           rear == EnqueueStack(DetachStack(Enqueue(Detach(s, c), c), c), c)
<1>1. q \in Seq(Client) /\ s.selmon \in Mon /\ ListsSound(s)
  BY SelLive DEF Sound
<1>2. c \in (Range(q) \cap Tiled(s)) \cup {NULL}
  BY <1>1, FirstOrIn, LastOrIn DEF FirstTiled
<1>3. t = s \/ (c # NULL /\ t \in {Focus(front, Sel(s)), Focus(rear, Sel(s))})
  BY DEF RotateStack
<1>4. c # NULL => /\ c \in Client /\ c \in s.live /\ c \in Range(s.stack[s.mon[c]])
                  /\ c \in Visible(s)
  BY <1>1, <1>2, ClientsLive DEF Tiled
<1>5. c # NULL => s.mon[c] = s.selmon /\ Present(s, s.mon[c])
  BY <1>1, <1>2, ClientsLive, SelHome
<1>6. Rooted(s)
  BY DEF Sound, Home
<1> HIDE DEF c, q
<1>7. CASE t = s
  BY <1>7, KeepsItself
<1>8. CASE c # NULL /\ t = Focus(front, Sel(s))
  <2> DEFINE r == Attach(Detach(s, c), c)
  <2>1. Stays(s, r) /\ ListsSound(r) /\ r.stack = s.stack /\ r.sel = s.sel /\ r.ok = s.ok
    BY <1>1, <1>4, <1>8, ToHeadSound
  <2>2. front = Raise(r, c)
    OBVIOUS
  <2> HIDE DEF r, front
  <2>3. c \in r.live
    BY <1>4, <1>8, <2>1 DEF Stays
  <2>4. /\ Stays(r, front) /\ ListsSound(front) /\ front.ok = r.ok
        /\ \A m \in Mon : r.sel[m] # c => front.sel[m] = r.sel[m]
    BY <1>4, <1>8, <2>1, <2>2, <2>3, RaiseSound
  <2>5. Stays(s, front)
    BY <2>1, <2>4, StaysTransitive
  <2>6. Sel(front) = Sel(s) \/ Sel(s) = c
    BY <1>1, <2>1, <2>4, <2>5 DEF Sel, Stays
  <2>7. Rooted(front)
    <3>1. \A m \in Mon \ {s.mon[c]} : front.stack[m] = s.stack[m]
      BY <1>4, <1>8, <2>1, <2>2, RaiseIs DEF Raised, Stays
    <3>2. front.nmons = s.nmons /\ front.selmon = s.selmon
      BY <2>5 DEF Stays
    <3> QED  BY <1>5, <1>6, <1>8, <3>1, <3>2, RootedElsewhere
  <2> QED  BY <1>4, <1>8, <2>1, <2>4, <2>5, <2>6, <2>7, RefocusHandles
<1>9. CASE c # NULL /\ t = Focus(rear, Sel(s))
  <2>1. /\ Stays(s, rear) /\ ListsSound(rear) /\ rear.ok = s.ok
        /\ \A m \in Mon : s.sel[m] # c => rear.sel[m] = s.sel[m]
        /\ \A m \in Mon \ {s.mon[c]} : rear.stack[m] = s.stack[m]
    BY <1>1, <1>4, <1>9, ToRearSound
  <2> HIDE DEF rear
  <2>2. Sel(rear) = Sel(s) \/ Sel(s) = c
    BY <1>1, <2>1 DEF Sel, Stays
  <2>3. Rooted(rear)
    <3>1. rear.nmons = s.nmons /\ rear.selmon = s.selmon
      BY <2>1 DEF Stays
    <3> QED  BY <1>5, <1>6, <1>9, <2>1, <3>1, RootedElsewhere
  <2> QED  BY <1>4, <1>9, <2>1, <2>2, <2>3, RefocusHandles
<1> QED  BY <1>3, <1>7, <1>8, <1>9

\* The visible clients of a monitor, taken out of its lists as tagswapmon
\* does, and those of the other put in front of them.
LEMMA SwappedList ==
    ASSUME NEW q \in Distinct(Client), NEW came \in Distinct(Client), NEW gone,
           Range(came) \cap Range(q) = {}
    PROVE  /\ came \o Keep(q, Client \ gone) \in Distinct(Client)
           /\ Range(came \o Keep(q, Client \ gone)) = Range(came) \cup (Range(q) \ gone)
<1> DEFINE k == Keep(q, Client \ gone)
<1>1. Range(q) \subseteq Client
  BY RangeIs DEF Distinct
<1>2. k \in Distinct(Client) /\ Range(k) = Range(q) \ gone
  BY <1>1, KeepDistinct
<1> HIDE DEF k
<1>3. Range(came) \cap Range(k) = {}
  BY <1>2
<1>4. came \o k \in Distinct(Client) /\ Range(came \o k) = Range(came) \cup Range(k)
  BY <1>2, <1>3, ConcatDistinct
<1> QED  BY <1>2, <1>4 DEF k

\* The lists of a new monitor.
LEMMA EmptyDistinct ==
    ASSUME NEW S
    PROVE  << >> \in Distinct(S) /\ Range(<< >>) = {}
BY EmptySeq DEF Distinct, IsInjective, Range

\* tagswapmon: each of the two monitors gets the visible clients of the
\* other, in both lists, and a selected client that it still has.
LEMMA TagSwapMonHandles ==
    ASSUME NEW s, Sound(s), NEW m \in Mon, m # s.selmon,
           Present(s, m), NEW t, t = TagSwapMon(s, m)
    PROVE  Handles(s, t)
<1> DEFINE a == s.selmon
           A == Keep(s.clients[a], Visible(s))
           B == Keep(s.clients[m], Visible(s))
           Gone(x) == IF x = a THEN Range(A) ELSE IF x = m THEN Range(B) ELSE {}
           Came(x) == IF x = a THEN B ELSE IF x = m THEN A ELSE << >>
           moved == Range(A) \cup Range(B)
           Stay(q, x) == Keep(q, Client \ Gone(x))
           clients == [x \in Mon |-> Came(x) \o Stay(s.clients[x], x)]
           stack == [x \in Mon |-> Came(x) \o Stay(s.stack[x], x)]
           sel == [x \in Mon |-> IF s.sel[x] \in Gone(x)
                                 THEN FirstOr(Stay(s.stack[x], x), Visible(s), NULL)
                                 ELSE s.sel[x]]
           marks == [x \in Mon |-> [i \in 1..NTags |->
                        IF i < NTags /\ s.tagmarked[x][i] \in Gone(x) THEN NULL
                        ELSE s.tagmarked[x][i]]]
           mon == [c \in Client |-> IF c \in Range(A) THEN m
                                    ELSE IF c \in Range(B) THEN a ELSE s.mon[c]]
           tags == [c \in Client |-> IF c \in Range(A) THEN TagSet(s, m)
                                     ELSE IF c \in Range(B) THEN TagSet(s, a) ELSE s.tags[c]]
           prev == IF moved = {} THEN s.prevclient ELSE Last(A \o B)
           xf == IF moved = {} THEN s.xfocus ELSE NULL
           lit == s.lit \ moved
           r == [s EXCEPT !.clients = clients, !.stack = stack, !.sel = sel,
                          !.tagmarked = marks, !.mon = mon, !.tags = tags,
                          !.lit = lit, !.prevclient = prev, !.xfocus = xf]
<1>1. s \in State /\ a \in Mon /\ ListsSound(s)
  BY SelLive DEF Sound
<1>2. t = Focus(r, NULL)
  BY <1>1 DEF TagSwapMon, State
<1>3. /\ A \in Distinct(Client) /\ Range(A) \subseteq Range(s.clients[a])
      /\ B \in Distinct(Client) /\ Range(B) \subseteq Range(s.clients[m])
  <2>1. s.clients[a] \in Distinct(Client) /\ s.clients[m] \in Distinct(Client)
    BY <1>1, SoundLists
  <2> QED  BY <2>1, KeepDistinct
<1> HIDE DEF A, B
<1>4. \A c \in Range(A) : c \in Client /\ c \in s.live /\ s.mon[c] = a
  BY <1>1, <1>3, ClientsLive
<1>5. \A c \in Range(B) : c \in Client /\ c \in s.live /\ s.mon[c] = m
  BY <1>1, <1>3, ClientsLive
<1>6. a # m /\ Range(A) \cap Range(B) = {}
  BY <1>4, <1>5
<1>7. \A x \in Mon : Came(x) \in Distinct(Client)
  BY <1>3, EmptyDistinct
<1>8. \A x \in Mon : Range(Came(x)) = IF x = a THEN Range(B) ELSE IF x = m THEN Range(A) ELSE {}
  BY EmptyDistinct
<1>9. \A x \in Mon : Range(Came(x)) \cap Range(s.stack[x]) = {}
  BY <1>1, <1>4, <1>5, <1>6, <1>8, StackLive
<1> HIDE DEF Came, Gone, a
<1>10. ASSUME NEW x \in Mon
       PROVE  /\ stack[x] \in Distinct(Client)
              /\ Range(stack[x]) = Range(Came(x)) \cup (Range(s.stack[x]) \ Gone(x))
              /\ clients[x] \in Distinct(Client)
              /\ Range(clients[x]) = Range(Came(x)) \cup (Range(s.clients[x]) \ Gone(x))
  <2>1. /\ s.stack[x] \in Distinct(Client) /\ s.clients[x] \in Distinct(Client)
        /\ Range(s.clients[x]) \subseteq Range(s.stack[x])
    BY <1>1, SoundLists
  <2>2. Range(Came(x)) \cap Range(s.clients[x]) = {}
    BY <1>9, <2>1
  <2>3. /\ Came(x) \o Keep(s.stack[x], Client \ Gone(x)) \in Distinct(Client)
        /\ Range(Came(x) \o Keep(s.stack[x], Client \ Gone(x)))
              = Range(Came(x)) \cup (Range(s.stack[x]) \ Gone(x))
    BY <1>7, <1>9, <2>1, SwappedList
  <2>4. /\ Came(x) \o Keep(s.clients[x], Client \ Gone(x)) \in Distinct(Client)
        /\ Range(Came(x) \o Keep(s.clients[x], Client \ Gone(x)))
              = Range(Came(x)) \cup (Range(s.clients[x]) \ Gone(x))
    BY <1>7, <2>1, <2>2, SwappedList
  <2> QED  BY <2>3, <2>4
<1>11. ASSUME NEW x \in Mon
       PROVE  /\ sel[x] \in ClientOrNull
              /\ sel[x] # NULL => sel[x] \in Range(s.stack[x]) \ Gone(x)
              /\ s.sel[x] \notin Gone(x) => sel[x] = s.sel[x]
  <2> DEFINE k == Keep(s.stack[x], Client \ Gone(x))
             y == FirstOr(k, Visible(s), NULL)
  <2>1. s.stack[x] \in Distinct(Client) /\ Range(s.stack[x]) \subseteq Client
    BY <1>1, SoundLists
  <2>2. k \in Seq(Client) /\ Range(k) \subseteq Range(s.stack[x]) \ Gone(x)
    BY <2>1, KeepDistinct DEF Distinct
  <2> HIDE DEF k
  <2>3. y \in Range(k) \cup {NULL}
    BY <2>2, FirstOrIn
  <2> HIDE DEF y
  <2>4. s.sel[x] \in ClientOrNull /\ (s.sel[x] # NULL => s.sel[x] \in Range(s.stack[x]))
    BY <1>1, StateFields, SoundLists
  <2>5. sel[x] = IF s.sel[x] \in Gone(x) THEN y ELSE s.sel[x]
    BY DEF y, k
  <2> HIDE DEF sel
  <2> QED  BY <2>1, <2>2, <2>3, <2>4, <2>5 DEF ClientOrNull
<1>12. /\ marks \in [Mon -> [1..NTags -> ClientOrNull]]
       /\ \A x \in Mon, i \in 1..(NTags - 1) :
             marks[x][i] # NULL => marks[x][i] \in Range(s.stack[x]) \ Gone(x)
  <2>1. s.tagmarked \in [Mon -> [1..NTags -> ClientOrNull]]
    BY <1>1 DEF State
  <2>2. ASSUME NEW x \in Mon, NEW i \in 1..(NTags - 1), marks[x][i] # NULL
        PROVE  marks[x][i] \in Range(s.stack[x]) \ Gone(x)
    <3>1. i \in 1..NTags /\ i < NTags
      BY NTagsAssumption
    <3>2. s.tagmarked[x][i] # NULL => s.tagmarked[x][i] \in Range(s.stack[x])
      BY <1>1, SoundLists DEF MarksIn
    <3> QED  BY <2>2, <3>1, <3>2
  <2>3. marks \in [Mon -> [1..NTags -> ClientOrNull]]
    BY <2>1 DEF ClientOrNull
  <2> QED  BY <2>2, <2>3
<1>13. mon \in [Client -> Mon]
  BY <1>1, StateFields DEF a
<1>14. /\ tags \in [Client -> SUBSET Bit]
       /\ "netwmdesktop" \in Bound \/ \A c \in s.live : tags[c] # {} /\ tags[c] \subseteq Tag
  <2>1. s.tags \in [Client -> SUBSET Bit]
    BY <1>1 DEF State
  <2>2. TagSet(s, m) \in SUBSET Bit /\ TagSet(s, a) \in SUBSET Bit
    BY <1>1, TagSetIs, TagInBit DEF a
  <2>3. /\ TagSet(s, m) \in SUBSET Tag /\ TagSet(s, m) # {}
        /\ TagSet(s, a) \in SUBSET Tag /\ TagSet(s, a) # {}
    BY <1>1, TagSetIs DEF TagSet, Sound, Flagged, a
  <2>4. s.live \subseteq Client
    BY <1>1, StateFields
  <2> HIDE DEF a
  <2> QED  BY <2>1, <2>2, <2>3, <2>4 DEF Sound, Flagged
<1>15. prev \in ClientOrNull /\ xf \in ClientOrNull /\ lit \in SUBSET Client
  <2>1. s.prevclient \in ClientOrNull /\ s.xfocus \in ClientOrNull /\ s.lit \in SUBSET Client
    BY <1>1 DEF State
  <2> DEFINE u == A \o B
  <2>2. u \in Seq(Client) /\ Range(u) = moved
    BY <1>3, <1>6, ConcatDistinct DEF Distinct
  <2> HIDE DEF u
  <2>3. moved # {} => Last(u) \in Client
    <3>1. Len(u) \in Nat /\ \A i \in 1..Len(u) : u[i] \in Client
      BY <2>2, RangeIs, ElementOfSeq
    <3>2. moved # {} => Len(u) # 0
      BY <2>2, <3>1, RangeIs
    <3> QED  BY <3>1, <3>2 DEF Last
  <2> HIDE DEF moved
  <2>4. prev \in ClientOrNull
    BY <2>1, <2>3 DEF ClientOrNull, u
  <2>5. xf \in ClientOrNull /\ lit \in SUBSET Client
    BY <2>1 DEF ClientOrNull
  <2> QED  BY <2>4, <2>5
<1>16. ASSUME NEW x \in Mon, NEW c \in Range(stack[x])
       PROVE  c \in s.live /\ mon[c] = x
  <2>1. c \in Range(Came(x)) \/ (c \in Range(s.stack[x]) /\ c \notin Gone(x))
    BY <1>10, <1>16
  <2>2. CASE c \in Range(Came(x))
    BY <1>4, <1>5, <1>6, <1>8, <2>2 DEF a
  <2>3. CASE c \in Range(s.stack[x]) /\ c \notin Gone(x)
    BY <1>1, <1>4, <1>5, <2>3, StackLive DEF Gone, a
  <2> QED  BY <2>1, <2>2, <2>3
<1>17. ASSUME NEW x \in Mon
       PROVE  Range(clients[x]) \subseteq Range(stack[x])
  <2>1. Range(s.clients[x]) \subseteq Range(s.stack[x])
    BY <1>1, SoundLists
  <2> HIDE DEF clients, stack
  <2> QED  BY <1>10, <2>1
<1>18. clients \in [Mon -> Seq(Client)] /\ stack \in [Mon -> Seq(Client)]
  <2>1. \A x \in Mon : clients[x] \in Seq(Client) /\ stack[x] \in Seq(Client)
    BY <1>10 DEF Distinct
  <2> QED  BY <2>1
<1>19. sel \in [Mon -> ClientOrNull]
  BY <1>11
<1>20. ASSUME NEW c \in s.live, "rotatestack" \notin Bound
       PROVE  mon[c] <= s.nmons /\ c \in Range(clients[mon[c]])
  <2>1. Placed(s, c) /\ a <= s.nmons /\ m <= s.nmons /\ c \in Client /\ s.mon[c] \in Mon
    <3>1. ~Strays
      BY <1>20 DEF Strays
    <3> QED  BY <1>1, <1>20, <3>1, StateFields DEF Sound, Home, Rooted, Present, a
  <2>2. mon[c] = m \/ mon[c] = a \/ mon[c] = s.mon[c]
    BY <2>1
  <2>3. mon[c] \in Mon /\ mon[c] <= s.nmons
    BY <1>1, <2>1, <2>2 DEF Placed, a
  <2>4. c \in Range(Came(mon[c])) \/ (c \in Range(s.clients[mon[c]]) /\ c \notin Gone(mon[c]))
    <3>1. CASE c \in Range(A)
      BY <1>1, <1>6, <1>8, <2>1, <3>1
    <3>2. CASE c \in Range(B)
      BY <1>1, <1>6, <1>8, <2>1, <3>2 DEF a
    <3>3. CASE c \notin Range(A) /\ c \notin Range(B)
      BY <2>1, <3>3 DEF Gone, Placed
    <3> QED  BY <3>1, <3>2, <3>3
  <2> HIDE DEF mon, clients
  <2> QED  BY <1>10, <2>3, <2>4
<1>21. Leaps \/ lit \subseteq {sel[a]}
  <2>1. Leaps \/ s.lit \subseteq {s.sel[a]}
    BY DEF Sound, LitOnly, Sel, a
  <2>2. Gone(a) \subseteq moved
    BY DEF Gone
  <2> HIDE DEF moved, sel
  <2> QED  BY <1>1, <1>11, <2>1, <2>2 DEF a
<1> HIDE DEF clients, stack, sel, marks, mon, tags, prev, xf, lit
<1>22. /\ r.clients = clients /\ r.stack = stack /\ r.sel = sel /\ r.mon = mon
       /\ r.tagmarked = marks /\ r.lit = lit /\ r.tags = tags
       /\ r.live = s.live /\ r.grab = s.grab /\ r.held = s.held
       /\ r.tagset = s.tagset /\ r.full = s.full /\ r.floating = s.floating
       /\ r.ok = s.ok /\ r.nmons = s.nmons /\ r.selmon = s.selmon
  BY <1>1 DEF State
<1>23. r \in State
  BY <1>1, <1>12, <1>13, <1>14, <1>15, <1>18, <1>19 DEF State
<1> HIDE DEF r
<1>24. ListsSound(r)
  <2> SUFFICES ASSUME NEW x \in Mon
               PROVE  MonSound(r, x)
    BY <1>23, ListsAreSound
  <2>1. /\ clients[x] \in Distinct(Client) /\ stack[x] \in Distinct(Client)
        /\ Range(s.stack[x]) \ Gone(x) \subseteq Range(stack[x])
    BY <1>10
  <2>2. sel[x] # NULL => sel[x] \in Range(stack[x])
    BY <1>11, <2>1
  <2>3. MarksIn(r, x)
    BY <1>12, <1>22, <2>1 DEF MarksIn
  <2> QED  BY <1>16, <1>17, <1>22, <2>1, <2>2, <2>3 DEF MonSound
<1>25. Flagged(r)
  BY <1>14, <1>22 DEF Sound, Flagged
<1>26. Home(r)
  <2>1. ASSUME NEW x \in Mon, NEW c \in Range(stack[x])
        PROVE  Present(s, x)
    <3>1. CASE c \in Range(Came(x))
      <4>1. x = a \/ x = m
        BY <3>1, EmptyDistinct DEF Came
      <4> QED  BY <4>1 DEF Sound, Home, Rooted, a
    <3>2. CASE c \in Range(s.stack[x])
      BY <3>2 DEF Sound, Home, Rooted
    <3> QED  BY <1>10, <2>1, <3>1, <3>2
  <2>2. Present(s, s.selmon)
    BY DEF Sound, Home, Rooted
  <2>3. Rooted(r)
    BY <1>22, <2>1, <2>2 DEF Rooted, Present
  <2> QED  BY <1>20, <1>22, <2>3 DEF Sound, Home, Placed
<1>27. LitOnly(r) /\ Unhurt(r)
  BY <1>21, <1>22 DEF Sound, LitOnly, Unhurt, Sel, a
<1>28. Keeps(s, r)
  BY <1>22, <1>24, <1>25, <1>26, <1>27 DEF Keeps, Sound
<1> QED  BY <1>2, <1>28, FocusHandles

\* m->sel becomes a client of the stack of m.
LEMMA SelSound ==
    ASSUME NEW s, ListsSound(s), NEW m \in Mon, NEW c \in Range(s.stack[m]),
           NEW t, t = [s EXCEPT !.sel[m] = c]
    PROVE  /\ ListsSound(t) /\ Stays(s, t) /\ t.sel[m] = c
           /\ t.clients = s.clients /\ t.stack = s.stack /\ t.ok = s.ok
           /\ \A x \in Mon : x # m => t.sel[x] = s.sel[x]
<1> DEFINE sel == [s.sel EXCEPT ![m] = c]
<1>1. s \in State /\ c \in ClientOrNull
  BY StackLive DEF ListsSound, ClientOrNull
<1>2. /\ sel \in [Mon -> ClientOrNull]
      /\ \A x \in Mon : sel[x] = IF x = m THEN c ELSE s.sel[x]
  BY <1>1, StateFields
<1>3. t = [s EXCEPT !.sel = sel]
  BY <1>1 DEF State
<1> HIDE DEF sel
<1>4. /\ Stays(s, t) /\ t.clients = s.clients /\ t.stack = s.stack /\ t.sel = sel
      /\ t.tagmarked = s.tagmarked /\ t.ok = s.ok
  BY ZenonT(40), <1>1, <1>2, <1>3 DEF State, Stays, SameTags, SameFocus
<1>5. /\ t \in State /\ t.mon = s.mon /\ t.live = s.live /\ t.nmons = s.nmons
      /\ t.selmon = s.selmon /\ t.lit = s.lit /\ SameTags(s, t)
      /\ t.full = s.full /\ t.floating = s.floating
      /\ t.grab = s.grab /\ t.held = s.held
  BY <1>4 DEF Stays, SameFocus
<1>6. \A x \in Mon : MonSound(t, x)
  <2> SUFFICES ASSUME NEW x \in Mon
               PROVE  MonSound(t, x)
    OBVIOUS
  <2>1. MarksIn(t, x)
    BY <1>4, SoundLists DEF MarksIn
  <2>2. /\ s.clients[x] \in Distinct(Client) /\ s.stack[x] \in Distinct(Client)
        /\ Range(s.clients[x]) \subseteq Range(s.stack[x])
        /\ \A d \in Range(s.stack[x]) : d \in s.live /\ s.mon[d] = x
        /\ s.sel[x] # NULL => s.sel[x] \in Range(s.stack[x])
    BY SoundLists
  <2>3. t.sel[x] # NULL => t.sel[x] \in Range(t.stack[x])
    BY <1>2, <1>4, <2>2
  <2> QED  BY <1>4, <1>5, <2>1, <2>2, <2>3 DEF MonSound
<1>7. ListsSound(t)
  BY <1>5, <1>6, ListsAreSound
<1> QED  BY <1>2, <1>4, <1>7

\* The same while nothing is lit or m is not the selected monitor.
LEMMA SelKeeps ==
    ASSUME NEW s, Sound(s), NEW m \in Mon, NEW c \in Range(s.stack[m]),
           Leaps \/ s.lit = {} \/ m # s.selmon,
           NEW t, t = [s EXCEPT !.sel[m] = c]
    PROVE  /\ Keeps(s, t) /\ Stays(s, t)
           /\ t.clients = s.clients /\ t.stack = s.stack
<1>1. ListsSound(s) /\ s.selmon \in Mon
  BY StateFields DEF Sound, ListsSound
<1>2. /\ ListsSound(t) /\ Stays(s, t) /\ t.clients = s.clients /\ t.stack = s.stack
      /\ t.ok = s.ok /\ \A x \in Mon : x # m => t.sel[x] = s.sel[x]
  BY <1>1, SelSound
<1>3. /\ t.nmons = s.nmons /\ t.mon = s.mon /\ t.live = s.live /\ t.selmon = s.selmon
      /\ t.lit = s.lit /\ SameTags(s, t) /\ t.full = s.full /\ t.floating = s.floating
      /\ t.grab = s.grab /\ t.held = s.held
  BY <1>2 DEF Stays, SameFocus
<1>4. Flagged(t)
  <2>1. Flagged(s) /\ t.full \subseteq t.floating \cap t.live
    BY <1>3 DEF Sound, Flagged
  <2> QED  BY <1>3, <2>1, SameFlagged
<1>5. Home(t) /\ Unhurt(t)
  BY <1>2, <1>3 DEF Sound, Home, Rooted, Present, Placed, Unhurt
<1>6. LitOnly(t)
  BY <1>1, <1>2, <1>3 DEF LitOnly, Sound, Sel
<1> QED  BY <1>2, <1>3, <1>4, <1>5, <1>6 DEF Keeps, Sound

-----------------------------------------------------------------------------
(* Windows come and go.                                                    *)

\* What manage leaves behind: c is allocated, and whoever had a place in
\* the lists keeps it.
Manages(s, t, c) ==
    /\ Sound(t) /\ Settled(t) /\ t.live = s.live \cup {c}
    /\ t.grab = s.grab /\ t.held = s.held
    /\ \A d \in Client : Placed(s, d) => Placed(t, d)
    /\ OrderKept(s, t)
\* How attachx finds c, in u: with the tags g and floating if a hint says so,
\* on the monitor m, and the others as they were.
Enters(s, u, c, m, g, hints) ==
    /\ ListsSound(u) /\ Unlisted(u, c) /\ c \in u.live
    /\ u.clients = s.clients /\ u.mon[c] = m /\ u.tags[c] = g
    /\ u.tagset = s.tagset /\ u.seltags = s.seltags
    /\ \A d \in Client \ {c} :
          /\ u.mon[d] = s.mon[d] /\ u.tags[d] = s.tags[d]
          /\ d \in u.floating <=> d \in s.floating
          /\ d \in u.sticky <=> d \in s.sticky
    /\ hints \cap {"float", "full"} # {} => c \in u.floating
\* What it links c into is what manage leaves behind.
Entered(u, t, c, k) ==
    /\ SameTags(u, t) /\ t.mon = u.mon /\ t.floating = u.floating
    /\ t.clients = AttachX(u, c, k).clients

\* manage: the Client is allocated, enters the lists of its monitor, becomes
\* the selected client there, and then focus looks for the right one.
LEMMA ManageSound ==
    ASSUME NEW s, Sound(s), NEW c \in Client, c \notin s.live,
           NEW m \in Mon, Present(s, m),
           NEW g \in SUBSET Bit, "netwmdesktop" \in Bound \/ (g # {} /\ g \subseteq Tag),
           NEW hints, NEW k \in Nat,
           NEW t, t = Manage(s, c, m, g, hints, k)
    PROVE  /\ Manages(s, t, c)
           /\ \E u : Enters(s, u, c, m, g, hints) /\ Entered(u, t, c, k)
<1> DEFINE live == s.live \cup {c}
           lit == s.lit \ {c}
           mon == [s.mon EXCEPT ![c] = m]
           tags == [s.tags EXCEPT ![c] = g]
           floating == IF "float" \in hints THEN s.floating \cup {c} ELSE s.floating
           never == IF "noinput" \in hints THEN s.neverfocus \cup {c} ELSE s.neverfocus
           s1 == [s EXCEPT !.live = live, !.lit = lit, !.mon = mon, !.tags = tags,
                           !.floating = floating, !.neverfocus = never]
           on == "full" \in hints
           stick == "sticky" \in hints
           no == FALSE
           s1f == SetFullscreen(s1, c, on)
           s2 == SetSticky(s1f, c, stick)
           s3 == Link(s2, c, k)
           s4 == IF m = s.selmon THEN Unfocus(s3, Sel(s3), no) ELSE s3
           s5 == [s4 EXCEPT !.sel[m] = c]
<1>1. s \in State /\ ListsSound(s) /\ s.live \subseteq Client
  BY StateFields DEF Sound, ListsSound
<1>2. t = Focus(s5, NULL)
  BY <1>1 DEF Manage, State
<1>3. \A x \in Mon : c \notin Range(s.stack[x])
  BY <1>1, StackLive
<1>4. /\ live \in SUBSET Client /\ lit \in SUBSET Client /\ floating \in SUBSET Client
      /\ s.floating \subseteq floating
      /\ mon \in [Client -> Mon] /\ tags \in [Client -> SUBSET Bit]
      /\ mon[c] = m /\ \A d \in Client : d # c => mon[d] = s.mon[d]
      /\ tags[c] = g /\ \A d \in Client : d # c => tags[d] = s.tags[d]
      /\ "float" \in hints => c \in floating
      /\ \A d \in Client \ {c} : d \in floating <=> d \in s.floating
      /\ never \in SUBSET Client
  BY ZenonT(40), <1>1 DEF State
<1> HIDE DEF mon, tags, floating, never, on, stick, no
<1>5. /\ s1 \in State /\ s1.live = live /\ s1.mon = mon /\ s1.tags = tags /\ s1.lit = lit
      /\ s1.tagset = s.tagset /\ s1.full = s.full /\ s1.floating = floating
      /\ s1.clients = s.clients /\ s1.stack = s.stack /\ s1.sel = s.sel
      /\ s1.tagmarked = s.tagmarked /\ s1.selmon = s.selmon /\ s1.nmons = s.nmons
      /\ s1.grab = s.grab /\ s1.held = s.held /\ s1.ok = s.ok
      /\ s1.sticky = s.sticky /\ s1.seltags = s.seltags
  <2> HIDE DEF live, lit
  <2> QED  BY <1>1, <1>4 DEF State
<1> HIDE DEF s1
<1>6. ListsSound(s1) /\ Unlisted(s1, c)
  <2> SUFFICES ASSUME NEW x \in Mon
               PROVE  MonSound(s1, x) /\ c \notin Range(s1.stack[x])
    BY <1>5, ListsAreSound DEF Unlisted
  <2>1. MarksIn(s1, x)
    BY <1>1, <1>5, SoundLists DEF MarksIn
  <2>2. /\ s.clients[x] \in Distinct(Client) /\ s.stack[x] \in Distinct(Client)
        /\ Range(s.clients[x]) \subseteq Range(s.stack[x])
        /\ \A d \in Range(s.stack[x]) : d \in Client /\ d \in s.live /\ s.mon[d] = x
        /\ s.sel[x] # NULL => s.sel[x] \in Range(s.stack[x])
    BY <1>1, SoundLists
  <2> QED  BY <1>3, <1>4, <1>5, <2>1, <2>2 DEF MonSound
<1>7. Flagged(s1)
  <2>1. /\ s.full \subseteq floating \cap live
        /\ \A n \in Mon, i \in 0..1 : s.tagset[n][i] # {}
    BY <1>4 DEF Sound, Flagged
  <2>2. "netwmdesktop" \in Bound \/ \A d \in s.live : s.tags[d] # {} /\ s.tags[d] \subseteq Tag
    BY DEF Sound, Flagged
  <2> QED  BY <1>1, <1>4, <1>5, <2>1, <2>2 DEF Flagged
<1>8. /\ s1f \in State /\ SameLists(s1, s1f) /\ SameTags(s1, s1f) /\ SameFocus(s1, s1f)
      /\ s1f.full \subseteq s1f.floating \cap s1f.live
      /\ \A d \in Client \ {c} : d \in s1f.floating <=> d \in s1.floating
      /\ on \/ c \in s1.floating => c \in s1f.floating
  <2>1. s1.full \subseteq s1.floating \cap s1.live /\ c \in s1.live
    BY <1>5, <1>7 DEF Flagged
  <2>2. c \notin s1.full
    BY <1>5 DEF Sound, Flagged
  <2> QED  BY <1>5, <2>1, <2>2, SetFullscreenSound
<1> HIDE DEF s1f
<1>9. /\ s2 \in State /\ SameLists(s1f, s2) /\ SameFocus(s1f, s2)
      /\ s2.full = s1f.full /\ s2.floating = s1f.floating
      /\ s2.tags = s1f.tags /\ s2.tagset = s1f.tagset /\ s2.seltags = s1f.seltags
      /\ \A d \in Client \ {c} : d \in s2.sticky <=> d \in s1f.sticky
  BY <1>8, SetStickySound
<1> HIDE DEF s2
<1>10. /\ s2.clients = s1.clients /\ s2.stack = s1.stack /\ s2.mon = mon /\ s2.sel = s.sel
       /\ s2.live = live /\ s2.tagmarked = s1.tagmarked /\ s2.lit = lit /\ s2.ok = s.ok
       /\ s2.selmon = s.selmon /\ s2.nmons = s.nmons /\ s2.grab = s.grab /\ s2.held = s.held
       /\ s2.tags = s1.tags /\ s2.tagset = s1.tagset
  BY <1>5, <1>8, <1>9 DEF SameLists, SameTags, SameFocus
<1>11. ListsSound(s2) /\ Unlisted(s2, c) /\ Flagged(s2)
  <2>1. ListsSound(s2)
    BY ZenonT(40), <1>5, <1>6, <1>9, <1>10, SameListsSound
  <2>2. s2.full \subseteq s2.floating \cap s2.live
    BY <1>8, <1>9 DEF SameLists
  <2>3. Flagged(s2)
    BY <1>5, <1>7, <1>10, <2>2 DEF Flagged
  <2> QED  BY <1>6, <1>10, <2>1, <2>3 DEF Unlisted
<1>12. \A d \in Client : Placed(s, d) => Placed(s2, d) /\ d # c
  <2> SUFFICES ASSUME NEW d \in Client, Placed(s, d)
               PROVE  Placed(s2, d) /\ d # c
    OBVIOUS
  <2>1. d \in s.live
    BY <1>1, StateFields, ClientsLive DEF Placed
  <2> QED  BY <1>4, <1>5, <1>10, <2>1 DEF Placed
<1>13. /\ Stays(s2, s3) /\ ListsSound(s3) /\ s3.sel = s2.sel
       /\ c \in Range(s3.stack[m])
       /\ \A d \in Client : Placed(s2, d) => Placed(s3, d)
       /\ (\A d \in s2.live : d # c => Placed(s2, d))
              => s3.ok = s2.ok /\ (m <= s2.nmons => Placed(s3, c))
       /\ StacksKept(s, s3) /\ s3.clients = AttachX(s2, c, k).clients
       /\ \A x \in Mon \ {m} : s3.stack[x] = s2.stack[x]
  <2>1. c \in s2.live /\ s2.mon[c] = m
    BY <1>4, <1>10
  <2>2. StacksKept(s2, s3) /\ \A x \in Mon \ {m} : s3.stack[x] = s2.stack[x]
    BY <1>11, <2>1, LinkOrder
  <2>3. StacksKept(s, s3)
    BY <1>5, <1>10, <2>2 DEF StacksKept
  <2> QED  BY <1>11, <2>1, <2>2, <2>3, LinkSound
<1> HIDE DEF s3
<1>14. /\ s3.live = live /\ s3.nmons = s.nmons /\ s3.selmon = s.selmon /\ s3.lit = lit
       /\ s3.grab = s.grab /\ s3.held = s.held
  BY <1>10, <1>13 DEF Stays, SameFocus
<1>15. Sound(s3)
  <2>1. Flagged(s3)
    <3>1. s3.full \subseteq s3.floating \cap s3.live
      BY <1>11, <1>13 DEF Flagged, Stays
    <3> QED  BY <1>11, <1>13, <3>1, SameFlagged DEF Stays
  <2>2. ASSUME "rotatestack" \notin Bound
        PROVE  s3.ok = s.ok /\ \A d \in live : Placed(s3, d)
    <3>1. \A d \in s.live : Placed(s, d)
      BY <2>2 DEF Sound, Home
    <3>2. \A d \in s2.live : d # c => Placed(s2, d)
      BY <1>1, <1>10, <1>12, <3>1
    <3>3. m <= s.nmons
      BY <2>2 DEF Present, Strays
    <3>4. s3.ok = s.ok /\ Placed(s3, c)
      BY <1>10, <1>13, <3>2, <3>3
    <3> QED  BY <1>1, <1>12, <1>13, <3>1, <3>4
  <2>3. Home(s3)
    <3>1. Rooted(s)
      BY DEF Sound, Home
    <3>2. Present(s, s3.selmon) /\ s3.nmons = s.nmons
      BY <1>14, <3>1 DEF Rooted
    <3>3. \A x \in Mon \ {m} : s3.stack[x] = s.stack[x]
      BY <1>5, <1>10, <1>13
    <3>4. Rooted(s3)
      BY <3>1, <3>2, <3>3, RootedElsewhere
    <3> QED  BY <1>14, <2>2, <3>4 DEF Home
  <2>4. LitOnly(s3)
    BY <1>10, <1>13, <1>14 DEF LitOnly, Sound, Sel
  <2>5. Unhurt(s3)
    BY <2>2 DEF Unhurt, Sure, Sound
  <2> QED  BY <1>13, <2>1, <2>3, <2>4, <2>5 DEF Sound
<1>16. /\ Keeps(s3, s4) /\ s4.stack = s3.stack /\ s4.clients = s3.clients
       /\ s4.mon = s3.mon /\ s4.nmons = s3.nmons
       /\ SameTags(s3, s4) /\ s4.floating = s3.floating
       /\ Leaps \/ s4.lit = {} \/ m # s4.selmon
  <2>1. CASE m = s.selmon
    <3>1. Sel(s3) \in ClientOrNull /\ s4 = Unfocus(s3, Sel(s3), no)
      BY <1>13, <2>1, SelLive
    <3> HIDE DEF s4
    <3>2. /\ Keeps(s3, s4) /\ SameLists(s3, s4) /\ (Leaps \/ s4.lit = {})
          /\ SameTags(s3, s4) /\ s4.floating = s3.floating
      BY <1>15, <3>1, UnfocusKeeps
    <3> QED  BY <3>2 DEF SameLists
  <2>2. CASE m # s.selmon
    <3>1. s4 = s3
      BY <2>2
    <3> QED  BY <1>14, <1>15, <2>2, <3>1, KeepsItself DEF SameTags
  <2> QED  BY <2>1, <2>2
<1> HIDE DEF s4
<1>17. /\ Keeps(s4, s5) /\ s5.clients = s4.clients /\ s5.mon = s4.mon
       /\ s5.nmons = s4.nmons /\ s5.stack = s4.stack
       /\ SameTags(s4, s5) /\ s5.floating = s4.floating
  <2>1. Sound(s4) /\ c \in Range(s4.stack[m])
    BY <1>13, <1>16 DEF Keeps
  <2>2. /\ Keeps(s4, s5) /\ s5.stack = s4.stack
        /\ SameTags(s4, s5) /\ s5.floating = s4.floating
    BY <1>16, <2>1, SelKeeps DEF Stays
  <2>3. s5.clients = s4.clients /\ s5.mon = s4.mon /\ s5.nmons = s4.nmons
    BY <2>1 DEF Sound, ListsSound, State
  <2> QED  BY <2>2, <2>3
<1> HIDE DEF s5
<1>18. Keeps(s3, s5)
  BY <1>16, <1>17, KeepsTransitive
<1>19. Handles(s3, t) /\ Top(t) /\ Refocuses(s5, t) /\ OnlyTop(s5, t)
  BY <1>2, <1>18, FocusHandles
<1>20. \A d \in Client : Placed(s3, d) => Placed(t, d)
  BY <1>16, <1>17, <1>19 DEF Placed, Refocuses
<1>21. Sound(t) /\ t.live = live /\ t.grab = s.grab /\ t.held = s.held
  BY <1>14, <1>19 DEF Handles, Keeps
<1>22. \A d \in Client : Placed(s, d) => Placed(t, d)
  BY <1>12, <1>13, <1>20
<1>23. OrderKept(s, t)
  <2>1. OnlyTop(s3, t)
    BY <1>16, <1>17, <1>19, SameStackMoves
  <2> QED  BY <1>13, <2>1, LinkedMove
<1>24. Enters(s, s2, c, m, g, hints)
  <2>1. /\ s2.clients = s.clients /\ s2.mon[c] = m /\ s2.tags[c] = g /\ c \in s2.live
        /\ s2.tagset = s.tagset /\ s2.seltags = s.seltags
    BY <1>4, <1>5, <1>8, <1>9, <1>10 DEF SameTags
  <2>2. \A d \in Client \ {c} :
          /\ s2.mon[d] = s.mon[d] /\ s2.tags[d] = s.tags[d]
          /\ d \in s2.floating <=> d \in s.floating
          /\ d \in s2.sticky <=> d \in s.sticky
    BY <1>4, <1>5, <1>8, <1>9, <1>10 DEF SameTags
  <2>3. hints \cap {"float", "full"} # {} => c \in s2.floating
    BY <1>4, <1>5, <1>8, <1>9 DEF on
  <2> QED  BY <1>11, <2>1, <2>2, <2>3 DEF Enters
<1>25. Entered(s2, t, c, k)
  <2>1. SameTags(s2, s3) /\ s3.mon = s2.mon /\ s3.floating = s2.floating
    BY <1>13 DEF Stays
  <2>2. SameTags(s2, t)
    BY <1>16, <1>17, <1>19, <2>1 DEF SameTags, Refocuses
  <2> QED  BY <1>13, <1>16, <1>17, <1>19, <2>1, <2>2 DEF Entered, Refocuses
<1>26. \E u : Enters(s, u, c, m, g, hints) /\ Entered(u, t, c, k)
  BY <1>24, <1>25
<1> QED  BY <1>19, <1>21, <1>22, <1>23, <1>26, TopSettles DEF Manages

\* free: no list holds the client any more.
LEMMA FreeSound ==
    ASSUME NEW s, ListsSound(s), Flagged(s), NEW c \in Client, Unlisted(s, c),
           NEW t, t = Free(s, c)
    PROVE  /\ ListsSound(t) /\ Flagged(t) /\ t.live = s.live \ {c} /\ t.lit = s.lit \ {c}
           /\ t.clients = s.clients /\ t.sel = s.sel /\ t.selmon = s.selmon
           /\ t.nmons = s.nmons /\ t.ok = s.ok /\ t.stack = s.stack
           /\ t.grab = s.grab /\ t.held = s.held
           /\ \A d \in Client : d # c => t.mon[d] = s.mon[d]
<1> DEFINE live == s.live \ {c}
           lit == s.lit \ {c}
           mon == [s.mon EXCEPT ![c] = 1]
           tags == [s.tags EXCEPT ![c] = {}]
           sticky == s.sticky \ {c}
           floating == s.floating \ {c}
           full == s.full \ {c}
           oldstate == s.oldstate \ {c}
           never == s.neverfocus \ {c}
           heard == s.focusins \ {c}
           xf == IF s.xfocus = c THEN NULL ELSE s.xfocus
<1>1. s \in State /\ 1 \in Mon /\ s.live \subseteq Client
  BY MaxMonAssumption, StateFields DEF ListsSound, Mon
<1>2. t = [s EXCEPT !.live = live, !.lit = lit, !.mon = mon, !.tags = tags,
                    !.sticky = sticky, !.floating = floating, !.full = full,
                    !.oldstate = oldstate, !.neverfocus = never, !.focusins = heard,
                    !.xfocus = xf]
  BY <1>1 DEF Free, State
<1>3. /\ live \in SUBSET Client /\ lit \in SUBSET Client
      /\ sticky \in SUBSET Client /\ floating \in SUBSET Client
      /\ full \in SUBSET Client /\ oldstate \in SUBSET Client
      /\ never \in SUBSET Client /\ heard \in SUBSET Client
  BY <1>1 DEF State
<1>4. /\ mon \in [Client -> Mon] /\ tags \in [Client -> SUBSET Bit] /\ xf \in ClientOrNull
      /\ \A d \in Client : d # c => mon[d] = s.mon[d] /\ tags[d] = s.tags[d]
  BY <1>1 DEF State, ClientOrNull
<1> HIDE DEF live, lit, mon, tags, sticky, floating, full, oldstate, never, heard, xf
<1>5. /\ t.live = live /\ t.mon = mon /\ t.lit = lit /\ t.tags = tags
      /\ t.full = full /\ t.floating = floating /\ t.tagset = s.tagset
      /\ t.clients = s.clients /\ t.stack = s.stack /\ t.sel = s.sel
      /\ t.tagmarked = s.tagmarked /\ t.selmon = s.selmon
      /\ t.nmons = s.nmons /\ t.ok = s.ok
      /\ t.grab = s.grab /\ t.held = s.held
  BY <1>1, <1>2 DEF State
<1>6. t \in State
  <2> DEFINE u == [s EXCEPT !.live = live, !.lit = lit, !.mon = mon, !.tags = tags]
  <2>1. u \in State
    BY <1>1, <1>3, <1>4 DEF State
  <2> DEFINE v == [u EXCEPT !.sticky = sticky, !.floating = floating, !.full = full]
  <2>2. t = [v EXCEPT !.oldstate = oldstate, !.neverfocus = never, !.focusins = heard,
                      !.xfocus = xf]
    BY <1>1, <1>2 DEF State
  <2> HIDE DEF u
  <2>3. v \in State
    BY <1>3, <2>1 DEF State
  <2> HIDE DEF v
  <2> QED  BY ZenonT(40), <1>3, <1>4, <2>2, <2>3 DEF State
<1>7. ListsSound(t)
  <2> SUFFICES ASSUME NEW x \in Mon
               PROVE  MonSound(t, x)
    BY <1>6, ListsAreSound
  <2>1. MarksIn(t, x)
    BY <1>5, SoundLists DEF MarksIn
  <2>2. /\ s.clients[x] \in Distinct(Client) /\ s.stack[x] \in Distinct(Client)
        /\ Range(s.clients[x]) \subseteq Range(s.stack[x])
        /\ \A d \in Range(s.stack[x]) : d \in Client /\ d \in s.live /\ s.mon[d] = x
        /\ s.sel[x] # NULL => s.sel[x] \in Range(s.stack[x])
    BY SoundLists
  <2> QED  BY <1>4, <1>5, <2>1, <2>2 DEF MonSound, Unlisted, live
<1>8. Flagged(t)
  <2>1. full \subseteq floating \cap live
    BY DEF Flagged, full, floating, live
  <2>2. "netwmdesktop" \in Bound \/ \A d \in live : tags[d] # {} /\ tags[d] \subseteq Tag
    BY <1>1, <1>4 DEF Flagged, live
  <2> QED  BY <1>5, <2>1, <2>2 DEF Flagged
<1> QED  BY <1>4, <1>5, <1>7, <1>8 DEF live, lit

\* unmanage takes the client out of the lists before it is freed.
LEMMA UnmanageSound ==
    ASSUME NEW s, Sound(s), NEW c \in Client, NEW t, t = Unmanage(s, c)
    PROVE  /\ Sound(t) /\ Settled(t) /\ t.live = s.live \ {c}
           /\ t.grab = s.grab /\ t.held = s.held /\ OrderKept(s, t)
<1> DEFINE s1 == Unlink(s, c)
           s2 == Free(s1, c)
<1>1. t = Focus(s2, NULL)
  BY DEF Unmanage
<1>2. /\ ListsSound(s1) /\ Unlisted(s1, c) /\ Stays(s, s1) /\ s1.ok = s.ok
      /\ \A m \in Mon : s.sel[m] # c => s1.sel[m] = s.sel[m]
      /\ \A d \in Client : d # c /\ Placed(s, d) => Placed(s1, d)
      /\ StacksKept(s, s1) /\ \A m \in Mon : Range(s1.stack[m]) = Range(s.stack[m]) \ {c}
  <2>1. ListsSound(s)
    BY DEF Sound
  <2>2. /\ ListsSound(s1) /\ Unlisted(s1, c) /\ Stays(s, s1) /\ s1.ok = s.ok
        /\ \A m \in Mon : s.sel[m] # c => s1.sel[m] = s.sel[m]
        /\ \A d \in Client : d # c /\ Placed(s, d) => Placed(s1, d)
    BY <2>1, UnlinkSound
  <2>3. StacksKept(s, s1) /\ \A m \in Mon : Range(s1.stack[m]) = Range(s.stack[m]) \ {c}
    BY <2>1, UnlinkOrder
  <2> QED  BY <2>2, <2>3
<1> HIDE DEF s1
<1>3. Flagged(s1)
  <2>1. Flagged(s) /\ s1.full \subseteq s1.floating \cap s1.live
    BY <1>2 DEF Sound, Flagged, Stays
  <2> QED  BY <1>2, <2>1, SameFlagged DEF Stays
<1>4. /\ ListsSound(s2) /\ Flagged(s2) /\ s2.live = s1.live \ {c} /\ s2.lit = s1.lit \ {c}
      /\ s2.clients = s1.clients /\ s2.sel = s1.sel /\ s2.selmon = s1.selmon
      /\ s2.nmons = s1.nmons /\ s2.ok = s1.ok /\ s2.stack = s1.stack
      /\ s2.grab = s1.grab /\ s2.held = s1.held
      /\ \A d \in Client : d # c => s2.mon[d] = s1.mon[d]
  BY <1>2, <1>3, FreeSound
<1> HIDE DEF s2
<1>5. /\ s1.live = s.live /\ s1.lit = s.lit /\ s1.selmon = s.selmon /\ s1.nmons = s.nmons
      /\ s1.grab = s.grab /\ s1.held = s.held
  BY <1>2 DEF Stays, SameFocus
<1>6. s.live \subseteq Client /\ s.selmon \in Mon
  BY StateFields DEF Sound, ListsSound
<1>7. Home(s2)
  <2>1. \A m \in Mon : Range(s2.stack[m]) \subseteq Range(s.stack[m])
    BY <1>2, <1>4
  <2>2. Rooted(s) /\ s2.nmons = s.nmons /\ s2.selmon = s.selmon
    BY <1>4, <1>5 DEF Sound, Home
  <2>3. Rooted(s2)
    BY <2>1, <2>2, RootedElsewhere DEF Rooted
  <2> QED  BY <1>2, <1>4, <1>5, <1>6, <2>3 DEF Sound, Home, Placed
<1>8. LitOnly(s2)
  <2>1. Leaps \/ s.lit \subseteq {Sel(s)}
    BY DEF Sound, LitOnly
  <2>2. Sel(s) = c \/ Sel(s2) = Sel(s)
    BY <1>2, <1>4, <1>5, <1>6 DEF Sel
  <2> QED  BY <1>4, <1>5, <2>1, <2>2 DEF LitOnly
<1>9. Unhurt(s2)
  BY <1>2, <1>4 DEF Sound, Unhurt
<1>10. Sound(s2)
  BY <1>4, <1>7, <1>8, <1>9 DEF Sound
<1>11. Handles(s2, t) /\ Top(t) /\ OnlyTop(s2, t)
  BY <1>1, <1>10, KeepsItself, FocusHandles
<1>12. OrderKept(s, t)
  <2>1. OnlyTop(s1, t)
    BY <1>4, <1>11, SameStackMoves
  <2> QED  BY <1>2, <2>1, LinkedMove
<1> QED  BY <1>4, <1>5, <1>11, <1>12, TopSettles DEF Handles, Keeps

-----------------------------------------------------------------------------
(* Heads come and go.                                                      *)

\* updategeom: the clients of the last monitor go to the first.
LEMMA DropLastKeeps ==
    ASSUME NEW s, Sound(s), s.nmons > 1, "configurenotify" \in Bound,
           NEW t, t = DropLast(s)
    PROVE  Keeps(s, t) /\ t.nmons = s.nmons - 1
<1> DEFINE m == s.nmons
           moved == Reverse(s.clients[m])
           new == InitState(1)
           selmon == IF s.selmon = m THEN 1 ELSE s.selmon
           clients == [s.clients EXCEPT ![1] = moved \o s.clients[1], ![m] = << >>]
           stack == [s.stack EXCEPT ![1] = moved \o s.stack[1], ![m] = << >>]
           mon == [c \in Client |-> IF c \in Range(moved) THEN 1 ELSE s.mon[c]]
           sel == [s.sel EXCEPT ![m] = NULL]
           seltags == [s.seltags EXCEPT ![m] = 0]
           tagset == [s.tagset EXCEPT ![m] = new.tagset[m]]
           marks == [s.tagmarked EXCEPT ![m] = new.tagmarked[m]]
<1>1. s \in State /\ m \in Mon /\ 1 \in Mon /\ m - 1 \in Mon /\ selmon \in Mon /\ m # 1
  BY StateFields, MaxMonAssumption DEF Sound, ListsSound, Mon
<1>. ListsSound(s)
  BY DEF Sound
<1>2. t = [s EXCEPT !.nmons = m - 1, !.selmon = selmon, !.clients = clients,
                    !.stack = stack, !.mon = mon, !.sel = sel, !.seltags = seltags,
                    !.tagset = tagset, !.tagmarked = marks]
  <2>1. t = [s EXCEPT !.nmons = m - 1, !.selmon = selmon, !.clients = clients,
                      !.stack = stack, !.mon = mon, !.sel[m] = NULL, !.seltags[m] = 0,
                      !.tagset[m] = new.tagset[m], !.tagmarked[m] = new.tagmarked[m]]
    BY <1>1 DEF DropLast, State
  <2> HIDE DEF m, selmon, clients, stack, mon, new
  <2> QED  BY <1>1, <2>1 DEF State
<1>3. /\ moved \in Distinct(Client) /\ Range(moved) = Range(s.clients[m])
      /\ \A c \in Range(moved) : c \in Client /\ c \in s.live /\ s.mon[c] = m
  <2>1. s.clients[m] \in Seq(Client) /\ IsInjective(s.clients[m])
    BY <1>1, SoundLists DEF Distinct
  <2>2. moved \in Distinct(Client) /\ Range(moved) = Range(s.clients[m])
    BY <2>1, ReverseIs DEF Distinct
  <2> HIDE DEF moved, m
  <2> QED  BY <1>1, <2>2, ClientsLive
<1> HIDE DEF moved, selmon, m
<1>4. /\ s.clients[1] \in Distinct(Client) /\ s.stack[1] \in Distinct(Client)
      /\ Range(moved) \cap Range(s.stack[1]) = {}
      /\ Range(moved) \cap Range(s.clients[1]) = {}
  BY <1>1, <1>3, SoundLists
<1>5. /\ moved \o s.clients[1] \in Distinct(Client)
      /\ Range(moved \o s.clients[1]) = Range(moved) \cup Range(s.clients[1])
  BY <1>3, <1>4, ConcatDistinct
<1>6. /\ moved \o s.stack[1] \in Distinct(Client)
      /\ Range(moved \o s.stack[1]) = Range(moved) \cup Range(s.stack[1])
  BY <1>3, <1>4, ConcatDistinct
<1>7. << >> \in Distinct(Client) /\ Range(<< >>) = {}
  BY EmptyDistinct
<1>8. /\ DOMAIN s.clients = Mon /\ DOMAIN s.stack = Mon
      /\ s.sel \in [Mon -> ClientOrNull] /\ s.mon \in [Client -> Mon]
  BY <1>1, StateFields
<1>9. \A x \in Mon : clients[x] = IF x = m THEN << >> ELSE IF x = 1 THEN moved \o s.clients[1]
                                  ELSE s.clients[x]
  BY <1>1, <1>8
<1>10. \A x \in Mon : stack[x] = IF x = m THEN << >> ELSE IF x = 1 THEN moved \o s.stack[1]
                                 ELSE s.stack[x]
  BY <1>1, <1>8
<1>11. \A x \in Mon : clients[x] \in Distinct(Client) /\ stack[x] \in Distinct(Client)
  <2> HIDE DEF clients, stack
  <2> SUFFICES ASSUME NEW x \in Mon
               PROVE  clients[x] \in Distinct(Client) /\ stack[x] \in Distinct(Client)
    OBVIOUS
  <2>1. s.clients[x] \in Distinct(Client) /\ s.stack[x] \in Distinct(Client)
    BY SoundLists
  <2> QED  BY <1>5, <1>6, <1>7, <1>9, <1>10, <2>1
<1>12. clients \in [Mon -> Seq(Client)] /\ stack \in [Mon -> Seq(Client)]
  <2>1. DOMAIN clients = Mon /\ DOMAIN stack = Mon
    BY <1>8
  <2>2. \A x \in Mon : clients[x] \in Seq(Client) /\ stack[x] \in Seq(Client)
    BY <1>11 DEF Distinct
  <2>3. clients = [x \in Mon |-> clients[x]] /\ stack = [x \in Mon |-> stack[x]]
    BY <1>8
  <2> HIDE DEF clients, stack
  <2> QED  BY <2>2, <2>3
<1>13. mon \in [Client -> Mon] /\ sel \in [Mon -> ClientOrNull]
       /\ \A x \in Mon : sel[x] = IF x = m THEN NULL ELSE s.sel[x]
  BY <1>1, <1>8 DEF ClientOrNull
<1>14. seltags \in [Mon -> 0..1]
  BY <1>1 DEF State
<1>15. tagset \in [Mon -> [0..1 -> SUBSET Tag]] /\ marks \in [Mon -> [1..NTags -> ClientOrNull]]
  <2>1. /\ s.tagset \in [Mon -> [0..1 -> SUBSET Tag]]
        /\ s.tagmarked \in [Mon -> [1..NTags -> ClientOrNull]]
    BY <1>1 DEF State
  <2>2. new.tagset[m] = [i \in 0..1 |-> {0}] /\ new.tagmarked[m] = [i \in 1..NTags |-> NULL]
    BY <1>1 DEF InitState
  <2>3. {0} \in SUBSET Tag
    BY TagInBit DEF Tag
  <2>4. new.tagset[m] \in [0..1 -> SUBSET Tag] /\ new.tagmarked[m] \in [1..NTags -> ClientOrNull]
    BY <2>2, <2>3 DEF ClientOrNull
  <2> HIDE DEF new
  <2> QED  BY <1>1, <2>1, <2>4
<1>16. ASSUME NEW x \in Mon, NEW c \in Range(stack[x])
       PROVE  c \in s.live /\ mon[c] = x
  <2>1. x # m
    BY <1>7, <1>10
  <2>2. CASE x = 1 /\ c \in Range(moved)
    BY <1>3, <2>2
  <2>3. CASE c \in Range(s.stack[x]) /\ c \notin Range(moved)
    BY <2>3, StackLive
  <2>4. CASE x # 1 /\ c \in Range(s.stack[x]) /\ c \in Range(moved)
    BY <1>3, <2>1, <2>4, StackLive
  <2>5. \/ x = 1 /\ c \in Range(moved)
        \/ c \in Range(s.stack[x])
    BY <1>6, <1>10, <1>16, <2>1
  <2> QED  BY <2>2, <2>3, <2>4, <2>5
<1>17. ASSUME NEW x \in Mon
       PROVE  /\ Range(clients[x]) \subseteq Range(stack[x])
              /\ sel[x] # NULL => sel[x] \in Range(stack[x])
  <2>1. /\ Range(s.clients[x]) \subseteq Range(s.stack[x])
        /\ s.sel[x] # NULL => s.sel[x] \in Range(s.stack[x])
    BY SoundLists
  <2> HIDE DEF clients, stack, sel
  <2> QED  BY <1>5, <1>6, <1>7, <1>9, <1>10, <1>13, <2>1
<1>18. ASSUME NEW x \in Mon, NEW i \in 1..(NTags - 1), marks[x][i] # NULL
       PROVE  marks[x][i] \in Range(stack[x])
  <2>1. x # m /\ marks[x][i] = s.tagmarked[x][i]
    <3>1. DOMAIN s.tagmarked = Mon /\ new.tagmarked[m] = [j \in 1..NTags |-> NULL]
      BY <1>1 DEF State, InitState
    <3>2. \A y \in Mon : marks[y] = IF y = m THEN [j \in 1..NTags |-> NULL] ELSE s.tagmarked[y]
      BY <1>1, <3>1
    <3>3. i \in 1..NTags
      BY NTagsAssumption
    <3> HIDE DEF marks, m
    <3>4. marks[m][i] = NULL
      BY <1>1, <3>2, <3>3
    <3>5. x # m
      BY <1>18, <3>4
    <3>6. marks[x] = s.tagmarked[x]
      BY <3>2, <3>5
    <3> QED  BY <3>5, <3>6
  <2>2. MarksIn(s, x)
    BY DEF Sound, ListsSound
  <2> HIDE DEF stack, marks
  <2>3. marks[x][i] \in Range(s.stack[x])
    BY <1>18, <2>1, <2>2 DEF MarksIn
  <2> QED  BY <1>6, <1>10, <2>1, <2>3
<1>19. \A x \in Mon, i \in 0..1 : tagset[x][i] # {}
  <2>1. \A x \in Mon, i \in 0..1 : s.tagset[x][i] # {}
    BY DEF Sound, Flagged
  <2>2. \A i \in 0..1 : new.tagset[m][i] = {0}
    BY <1>1 DEF InitState
  <2>3. DOMAIN s.tagset = Mon
    BY <1>1 DEF State
  <2> HIDE DEF new
  <2> QED  BY <1>1, <2>1, <2>2, <2>3
<1> HIDE DEF clients, stack, mon, sel, seltags, tagset, marks
<1>20. /\ t.clients = clients /\ t.stack = stack /\ t.sel = sel /\ t.mon = mon
       /\ t.tagmarked = marks /\ t.tagset = tagset /\ t.selmon = selmon
       /\ t.tags = s.tags /\ t.full = s.full /\ t.floating = s.floating /\ t.ok = s.ok
       /\ t.live = s.live /\ t.grab = s.grab /\ t.held = s.held /\ t.nmons = m - 1
  BY <1>1, <1>2 DEF State
<1>21. t \in State
  <2> DEFINE u == [s EXCEPT !.nmons = m - 1, !.selmon = selmon, !.clients = clients,
                            !.stack = stack, !.mon = mon]
  <2>1. u \in State
    BY ZenonT(40), <1>1, <1>12, <1>13 DEF State
  <2>2. t = [u EXCEPT !.sel = sel, !.seltags = seltags, !.tagset = tagset, !.tagmarked = marks]
    BY <1>1, <1>2 DEF State
  <2> HIDE DEF u
  <2> QED  BY ZenonT(40), <1>13, <1>14, <1>15, <2>1, <2>2 DEF State
<1>22. ListsSound(t)
  <2> SUFFICES ASSUME NEW x \in Mon
               PROVE  MonSound(t, x)
    BY <1>21, ListsAreSound
  <2>1. MarksIn(t, x)
    BY <1>18, <1>20 DEF MarksIn
  <2>2. \A c \in Range(stack[x]) : c \in s.live /\ mon[c] = x
    BY <1>16
  <2> QED  BY <1>11, <1>17, <1>20, <2>1, <2>2 DEF MonSound
<1>23. Flagged(t)
  BY <1>19, <1>20 DEF Flagged, Sound
<1>24. Home(t)
  <2>1. Rooted(t)
    <3>1. ASSUME ~Strays
          PROVE  t.selmon <= t.nmons
      <4>1. s.selmon <= s.nmons
        BY <3>1 DEF Sound, Home, Rooted, Present
      <4> QED  BY <1>1, <1>20, <4>1 DEF selmon, m, Mon
    <3>2. ASSUME ~Strays, NEW x \in Mon, NEW c \in Range(stack[x])
          PROVE  x <= m - 1
      <4>1. x # m
        BY <1>7, <1>10, <3>2
      <4>2. CASE x = 1
        BY <1>1, <4>2, MaxMonAssumption DEF Mon
      <4>3. CASE x # 1
        <5>1. c \in Range(s.stack[x])
          BY <1>6, <1>10, <3>2, <4>1, <4>3
        <5>2. x <= m
          BY <3>2, <5>1 DEF Sound, Home, Rooted, Present, m
        <5> QED  BY <1>1, <4>1, <5>2 DEF Mon
      <4> QED  BY <4>2, <4>3
    <3> QED  BY <1>20, <3>1, <3>2 DEF Rooted, Present
  <2>2. CASE "rotatestack" \notin Bound
    <3>1. \A c \in s.live : Placed(s, c)
      BY <2>2 DEF Sound, Home
    <3>2. ASSUME NEW c \in s.live
          PROVE  Placed(t, c)
      <4>1. c \in Client /\ s.mon[c] \in Mon /\ s.mon[c] <= m /\ c \in Range(s.clients[s.mon[c]])
        BY <1>1, <3>1, StateFields DEF Placed, m
      <4>2. CASE c \in Range(moved)
        <5>1. mon[c] = 1
          BY <4>1, <4>2 DEF mon
        <5> QED  BY <1>1, <1>5, <1>9, <1>20, <4>2, <5>1, MaxMonAssumption DEF Placed, Mon
      <4>3. CASE c \notin Range(moved)
        <5>1. mon[c] = s.mon[c]
          BY <4>1, <4>3 DEF mon
        <5>2. s.mon[c] # m /\ s.mon[c] <= m - 1
          BY <1>1, <1>3, <4>1, <4>3 DEF Mon
        <5>3. c \in Range(clients[s.mon[c]])
          BY <1>5, <1>9, <4>1, <5>2
        <5> QED  BY <1>20, <5>1, <5>2, <5>3 DEF Placed
      <4> QED  BY <4>2, <4>3
    <3> QED  BY <1>20, <2>1, <3>2 DEF Home
  <2> QED  BY <2>1, <2>2 DEF Home
<1>25. LitOnly(t) /\ Unhurt(t)
  BY <1>20 DEF LitOnly, Leaps, Unhurt, Sound
<1> QED  BY <1>20, <1>22, <1>23, <1>24, <1>25 DEF Keeps, Sound, m

\* The loop of updategeom over the monitors that are gone, from the last
\* one down, as a function of the number of monitors left: it exists.
LEMMA UnplugDefined ==
    ASSUME NEW s, NEW n \in Nat, NEW N \in Nat, n <= N,
           NEW f, f = CHOOSE g : g = [i \in n..N |-> IF i = N THEN s ELSE DropLast(g[i + 1])]
    PROVE  f = [i \in n..N |-> IF i = N THEN s ELSE DropLast(f[i + 1])]
<1> DEFINE Def(g, k) == g = [i \in k..N |-> IF i = N THEN s ELSE DropLast(g[i + 1])]
           Bad == {k \in 0..(N - n) : \A g : ~Def(g, N - k)}
<1>1. Bad = {}
  <2> SUFFICES ASSUME Bad # {}
               PROVE  FALSE
    OBVIOUS
  <2>1. PICK k \in Bad : \A y \in Bad : k <= y
    <3>1. Bad \subseteq Nat
      OBVIOUS
    <3> HIDE DEF Bad
    <3> QED  BY <3>1, LeastNatural
  <2>2. k \in 0..(N - n) /\ \A g : ~Def(g, N - k)
    BY <2>1
  <2>3. CASE k = 0
    <3> DEFINE g == [i \in N..N |-> s]
    <3>1. Def(g, N)
      OBVIOUS
    <3> HIDE DEF g
    <3> QED  BY <2>2, <2>3, <3>1
  <2>4. CASE k # 0
    <3>1. k - 1 \in 0..(N - n) /\ k - 1 \notin Bad
      <4> HIDE DEF Bad
      <4>1. k - 1 \in 0..(N - n) /\ ~(k <= k - 1)
        BY <2>2, <2>4
      <4> QED  BY <2>1, <4>1
    <3>2. PICK g : Def(g, N - (k - 1))
      BY <3>1
    <3> DEFINE lo == N - k
               h == [i \in lo..N |-> IF i = lo THEN DropLast(g[lo + 1]) ELSE g[i]]
    <3>3. lo \in Nat /\ lo + 1 = N - (k - 1) /\ lo < N
      BY <2>2, <2>4
    <3>4. g = [i \in lo + 1..N |-> IF i = N THEN s ELSE DropLast(g[i + 1])]
      BY <3>2, <3>3
    <3> HIDE DEF lo
    <3>5. ASSUME NEW i \in lo..N
          PROVE  h[i] = IF i = N THEN s ELSE DropLast(h[i + 1])
      <4>1. CASE i = lo
        BY <3>3, <4>1
      <4>2. CASE i # lo
        <5>1. i \in lo + 1..N /\ (i # N => i + 1 \in lo..N /\ i + 1 # lo)
          BY <3>3, <4>2
        <5>2. g[i] = IF i = N THEN s ELSE DropLast(g[i + 1])
          <6> DEFINE e(j) == IF j = N THEN s ELSE DropLast(g[j + 1])
          <6>1. g = [j \in lo + 1..N |-> e(j)]
            BY <3>4
          <6> HIDE DEF e
          <6>2. g[i] = e(i)
            BY <5>1, <6>1
          <6> QED  BY <6>2 DEF e
        <5>3. h[i] = g[i] /\ (i # N => h[i + 1] = g[i + 1])
          BY <4>2, <5>1
        <5> QED  BY <5>2, <5>3
      <4> QED  BY <4>1, <4>2
    <3>6. h = [i \in lo..N |-> h[i]]
      OBVIOUS
    <3> HIDE DEF h
    <3>7. Def(h, lo)
      BY <3>5, <3>6
    <3> QED  BY <2>2, <3>7 DEF lo
  <2> QED  BY <2>3, <2>4
<1>2. N - n \in 0..(N - n) /\ N - (N - n) = n
  OBVIOUS
<1> HIDE DEF Def
<1>3. \E g : Def(g, N - (N - n))
  BY <1>1, <1>2
<1>4. \E g : Def(g, n)
  BY <1>2, <1>3
<1> QED  BY <1>4 DEF Def

\* updategeom drops the monitors that are gone one by one, from the last.
LEMMA UnplugKeeps ==
    ASSUME NEW s, Sound(s), NEW n \in Mon, n < s.nmons, "configurenotify" \in Bound,
           NEW t, t = Unplug(s, n)
    PROVE  Keeps(s, t) /\ t.nmons = n
<1> DEFINE N == s.nmons
           f == CHOOSE g : g = [i \in n..N |-> IF i = N THEN s ELSE DropLast(g[i + 1])]
           Bad == {k \in 0..(N - n) : ~(Keeps(s, f[N - k]) /\ f[N - k].nmons = N - k)}
<1>1. n \in Nat /\ N \in Nat /\ n <= N /\ n >= 1
  BY StateFields, MaxMonAssumption DEF Sound, ListsSound, Mon
<1>2. t = f[n]
  BY DEF Unplug
<1>3. f = [i \in n..N |-> IF i = N THEN s ELSE DropLast(f[i + 1])]
  BY <1>1, UnplugDefined
<1> HIDE DEF f
<1>4. ASSUME NEW i \in n..N
      PROVE  f[i] = IF i = N THEN s ELSE DropLast(f[i + 1])
  <2> DEFINE e(j) == IF j = N THEN s ELSE DropLast(f[j + 1])
  <2>1. f = [j \in n..N |-> e(j)]
    BY <1>3
  <2> HIDE DEF e
  <2>2. f[i] = e(i)
    BY <2>1
  <2> QED  BY <2>2 DEF e
<1>5. Bad = {}
  <2> SUFFICES ASSUME Bad # {}
               PROVE  FALSE
    OBVIOUS
  <2>1. PICK k \in Bad : \A y \in Bad : k <= y
    <3>1. Bad \subseteq Nat
      BY <1>1
    <3> HIDE DEF Bad
    <3> QED  BY <3>1, LeastNatural
  <2>2. k \in 0..(N - n) /\ ~(Keeps(s, f[N - k]) /\ f[N - k].nmons = N - k)
    BY <2>1
  <2>3. CASE k = 0
    <3>1. f[N] = s /\ N - k = N
      BY <1>1, <1>4, <2>3
    <3> QED  BY <2>2, <3>1 DEF Keeps
  <2>4. CASE k # 0
    <3> DEFINE i == N - k
    <3>1. i \in n..N /\ i # N /\ i + 1 = N - (k - 1) /\ i + 1 > 1 /\ i + 1 - 1 = i
      BY <1>1, <2>2, <2>4
    <3>2. k - 1 \in 0..(N - n) /\ k - 1 \notin Bad
      BY <1>1, <2>1, <2>2, <2>4
    <3>3. Keeps(s, f[i + 1]) /\ f[i + 1].nmons = i + 1
      BY <3>1, <3>2
    <3>4. f[i] = DropLast(f[i + 1])
      BY <1>4, <3>1
    <3> HIDE DEF i
    <3>5. Keeps(f[i + 1], f[i]) /\ f[i].nmons = i
      BY <3>1, <3>3, <3>4, DropLastKeeps DEF Keeps
    <3> QED  BY <2>2, <3>3, <3>5, KeepsTransitive DEF i
  <2> QED  BY <2>3, <2>4
<1>6. N - n \in 0..(N - n) /\ N - (N - n) = n
  BY <1>1
<1> QED  BY <1>2, <1>5, <1>6


-----------------------------------------------------------------------------
(* The invariant.  A mouse function has an event loop of its own: what it  *)
(* holds must still be allocated, and in its list, when the button is      *)
(* released, or the release would link freed memory.  placemouse is the    *)
(* one handler that lets others run while the focus is not settled: it     *)
(* has moved selmon to the monitor of the pointer, and calls focus at its  *)
(* end.                                                                    *)
Inv(s) ==
    /\ Sound(s)
    /\ s.grab # "none" => s.held \in s.live /\ Placed(s, s.held)
    /\ s.grab # "place" => Settled(s)

\* A handler of the main loop keeps it.
LEMMA HandlesInv ==
    ASSUME NEW s, NEW t, Inv(s), s.grab = "none", Handles(s, t)
    PROVE  Inv(t)
BY DEF Inv, Handles, Keeps

-----------------------------------------------------------------------------
(* The mouse functions.                                                    *)

\* A client that follows one event loop to the next.
LEMMA GrabInv ==
    ASSUME NEW s, Inv(s), s.grab = "none",
           NEW c \in Client, c \in s.live, Placed(s, c),
           NEW how \in {"move", "place", "resize"}, NEW t, t = Grab(s, c, how)
    PROVE  Inv(t) /\ OrderKept(s, t)
<1> DEFINE s1 == Click(s, c)
<1>1. Handles(s, s1) /\ OrderKept(s, s1) /\ Placed(s1, c)
  BY ClickHandles DEF Inv
<1>2. t = s1 \/ t = [s1 EXCEPT !.grab = how, !.held = c]
  BY DEF Grab
<1> HIDE DEF s1
<1>3. CASE t = s1
  BY <1>1, <1>3, HandlesInv
<1>4. CASE t = [s1 EXCEPT !.grab = how, !.held = c]
  <2>1. Sound(s1) /\ s1.live = s.live /\ Settled(s1) /\ s1 \in State
    BY <1>1 DEF Handles, Keeps, Inv, Sound, ListsSound
  <2>2. /\ t \in State /\ t.held = c /\ SameTags(s1, t) /\ SameFocus(s1, t)
        /\ t.full = s1.full /\ t.floating = s1.floating
        /\ t.nmons = s1.nmons /\ t.selmon = s1.selmon /\ t.mon = s1.mon
        /\ t.clients = s1.clients /\ t.stack = s1.stack /\ t.sel = s1.sel
        /\ t.tagmarked = s1.tagmarked /\ t.live = s1.live /\ t.ok = s1.ok
    BY ZenonT(40), <1>4, <2>1 DEF State, ClientOrNull, SameTags, SameFocus
  <2>3. ListsSound(t)
    BY <2>1, <2>2, SameListsSound DEF Sound
  <2>4. Flagged(t)
    <3>1. Flagged(s1) /\ t.full \subseteq t.floating \cap t.live
      BY <2>1, <2>2 DEF Sound, Flagged
    <3> QED  BY <2>2, <3>1, SameFlagged
  <2>5. Home(t) /\ LitOnly(t) /\ Unhurt(t)
    BY <2>1, <2>2 DEF Home, Rooted, Present, Placed, LitOnly, Unhurt, Sel, SameFocus, Sound
  <2>6. Visible(t) = Visible(s1)
    BY <2>2, VisibleSame
  <2>7. Settled(t)
    <3>1. Sel(t) = Sel(s1) /\ (AtHead(s1) => AtHead(t))
      BY <2>2, AtHeadSame
    <3> QED  BY <2>1, <2>2, <2>6, <3>1 DEF Settled, HasKeyboard, SameFocus
  <2>8. Placed(t, c)
    BY <1>1, <2>2 DEF Placed
  <2>9. OrderKept(s, t)
    BY <1>1, <2>2, SameEndKept
  <2> QED  BY <2>1, <2>2, <2>3, <2>4, <2>5, <2>7, <2>8, <2>9 DEF Inv, Sound
<1> QED  BY <1>2, <1>3, <1>4

\* A client that is taken out of its list and put into one, by a mouse
\* function: who is lit need not be looked at.
LEMMA MovedKeeps ==
    ASSUME NEW s, Sound(s), Leaps, NEW c, NEW t, ListsSound(t), Flagged(t),
           t.live = s.live, t.nmons = s.nmons, t.selmon = s.selmon, t.ok = s.ok,
           t.grab = s.grab, t.held = s.held,
           \A d \in Client : d # c /\ Placed(s, d) => Placed(t, d), Placed(t, c),
           Rooted(t)
    PROVE  Keeps(s, t)
<1>1. s.live \subseteq Client
  BY StateFields DEF Sound, ListsSound
<1>2. Home(t)
  BY <1>1 DEF Home, Sound
<1>3. LitOnly(t) /\ Unhurt(t)
  BY DEF LitOnly, Unhurt, Sound
<1> QED  BY <1>2, <1>3 DEF Keeps, Sound

\* Its monitor loses nothing else by it.
LEMMA UnlinkOthers ==
    ASSUME NEW s, ListsSound(s), NEW c \in Client, NEW t, t = Unlink(s, c), NEW n \in Mon
    PROVE  Range(t.clients[n]) = Range(s.clients[n]) \ {c}
<1> DEFINE r == Detach(s, c)
<1>1. r = Detach(s, c) /\ t = DetachStack(r, c)
  BY DEF Unlink
<1> HIDE DEF r
<1>2. ListsSound(r) /\ Range(r.clients[n]) = Range(s.clients[n]) \ {c}
  BY <1>1, DetachSound
<1>3. t.clients = r.clients
  BY <1>1, <1>2, DetachStackSound
<1> QED  BY <1>2, <1>3

\* placemouse hangs the held client next to the one under the pointer.
LEMMA PlaceNextToKeeps ==
    ASSUME NEW s, Sound(s), Leaps, NEW c \in Client, c \in s.live,
           NEW n \in Mon, n <= s.nmons, NEW r \in Range(s.clients[n]), r # c,
           NEW above \in BOOLEAN, NEW t, t = PlaceNextTo(s, c, r, above)
    PROVE  Keeps(s, t) /\ Placed(t, c)
<1> DEFINE m == s.mon[r]
           s1 == Unlink(s, c)
           s2 == IF s.mon[c] = m THEN s1 ELSE Rehome(s1, c, m)
           s3 == [s2 EXCEPT !.sel[m] = r]
           at == Index(s3.clients[m], r) + (IF above THEN 0 ELSE 1)
           s4 == LinkAt(s3, at, c)
<1>0. ListsSound(s)
  BY DEF Sound
<1>1. m = n
  BY <1>0, ClientsLive
<1>2. t = AttachStack(s4, c)
  BY DEF PlaceNextTo
<1>3. /\ Stays(s, s1) /\ ListsSound(s1) /\ Unlisted(s1, c) /\ s1.ok = s.ok
      /\ \A d \in Client : d # c /\ Placed(s, d) => Placed(s1, d)
      /\ Range(s1.clients[n]) = Range(s.clients[n]) \ {c}
      /\ \A x \in Mon : Range(s1.stack[x]) = Range(s.stack[x]) \ {c}
  <2>1. Stays(s, s1) /\ ListsSound(s1) /\ Unlisted(s1, c) /\ s1.ok = s.ok
    BY <1>0, UnlinkSound
  <2>2. \A d \in Client : d # c /\ Placed(s, d) => Placed(s1, d)
    BY <1>0, UnlinkSound
  <2>3. Range(s1.clients[n]) = Range(s.clients[n]) \ {c}
    BY <1>0, UnlinkOthers
  <2>4. \A x \in Mon : Range(s1.stack[x]) = Range(s.stack[x]) \ {c}
    BY <1>0, UnlinkOrder
  <2> HIDE DEF s1
  <2> QED  BY <2>1, <2>2, <2>3, <2>4
<1> HIDE DEF s1
<1>4. Flagged(s1)
  BY <1>3, SameFlagged DEF Stays, Sound, Flagged
<1> HIDE DEF m
<1>5. /\ ListsSound(s2) /\ Flagged(s2) /\ Unlisted(s2, c) /\ s2.mon[c] = n
      /\ s2.clients = s1.clients /\ s2.selmon = s1.selmon /\ s2.nmons = s1.nmons
      /\ s2.live = s1.live /\ s2.ok = s1.ok /\ s2.grab = s1.grab /\ s2.held = s1.held
      /\ \A d \in Client : d # c => s2.mon[d] = s1.mon[d]
      /\ s2.stack = s1.stack
  <2>1. CASE s.mon[c] = m
    BY <1>1, <1>3, <1>4, <2>1 DEF Stays
  <2>2. CASE s.mon[c] # m
    <3>1. s2 = Rehome(s1, c, m)
      BY <2>2
    <3> HIDE DEF s2
    <3> QED  BY <1>1, <1>3, <1>4, <3>1, RehomeSound
  <2> QED  BY <2>1, <2>2
<1> HIDE DEF s2
<1>6. r \in Range(s2.clients[n]) /\ r \in Range(s2.stack[n])
  <2>1. r \in Range(s2.clients[n])
    BY <1>3, <1>5
  <2> QED  BY <1>5, <2>1, SoundLists
<1>7. s3 = [s2 EXCEPT !.sel[n] = r]
  BY <1>1
<1> HIDE DEF s3
<1>8. /\ ListsSound(s3) /\ Stays(s2, s3) /\ s3.clients = s2.clients /\ s3.stack = s2.stack
      /\ s3.ok = s2.ok
  BY <1>5, <1>6, <1>7, SelSound
<1>9. /\ s3 \in State /\ s3.mon = s2.mon /\ s3.live = s.live /\ s3.nmons = s.nmons
      /\ s3.selmon = s.selmon /\ s3.grab = s.grab /\ s3.held = s.held /\ s3.ok = s.ok
      /\ s3.mon[c] = n /\ Unlisted(s3, c)
  BY <1>3, <1>5, <1>8 DEF Stays, Unlisted
<1>10. \A x \in Mon : s3.clients[x] \in Distinct(Client) /\ c \notin Range(s3.clients[x])
  BY <1>8, <1>9, SoundLists, UnlistedEntering
<1>11. at \in 1..Len(s3.clients[s3.mon[c]]) + 1
  <2> DEFINE q == s3.clients[n]
  <2>1. q \in Seq(Client) /\ Len(q) \in Nat
    BY <1>10, RangeIs DEF Distinct
  <2>2. r \in Range(q)
    BY <1>6, <1>8
  <2> HIDE DEF q
  <2>3. Index(q, r) \in 1..Len(q)
    BY <2>1, <2>2, IndexIn
  <2>4. at = Index(q, r) \/ at = Index(q, r) + 1
    <3>1. at = Index(q, r) + (IF above THEN 0 ELSE 1)
      BY <1>1 DEF q
    <3> HIDE DEF at
    <3>2. Index(q, r) \in Nat
      BY <2>1, <2>3
    <3> QED  BY <3>1, <3>2
  <2> HIDE DEF at
  <2>5. at \in 1..Len(q) + 1
    BY <2>1, <2>3, <2>4
  <2> QED  BY <1>9, <2>5 DEF q
<1> HIDE DEF at
<1>12. Linked(s3, s4, c) /\ Hung(s3, s4, c)
  BY <1>9, <1>10, <1>11, LinkAtLinked
<1> HIDE DEF s4
<1>13. /\ Stays(s3, t) /\ ListsSound(t) /\ t.clients = s4.clients /\ t.ok = s4.ok
       /\ \A d \in Client : Placed(s3, d) => Placed(t, d)
  BY <1>2, <1>8, <1>9, <1>12, LinkedSound
<1>14. /\ t.live = s.live /\ t.nmons = s.nmons /\ t.selmon = s.selmon
       /\ t.grab = s.grab /\ t.held = s.held /\ t.ok = s.ok /\ t.mon = s3.mon
  BY <1>9, <1>12, <1>13 DEF Stays, Hung
<1>15. Placed(t, c)
  BY <1>9, <1>12, <1>13, <1>14 DEF Hung, Placed
<1>16. ASSUME NEW d \in Client, d # c, Placed(s, d)
       PROVE  Placed(t, d)
  <2>1. Placed(s1, d)
    BY <1>3, <1>16
  <2>2. s3.mon[d] = s1.mon[d] /\ s3.nmons = s1.nmons /\ s3.clients = s1.clients
    BY <1>3, <1>5, <1>8, <1>9, <1>16 DEF Stays
  <2>3. Placed(s3, d)
    BY <2>1, <2>2 DEF Placed
  <2> QED  BY <1>13, <2>3
<1>17. Flagged(t)
  <2>1. SameTags(s2, t) /\ t.live = s2.live /\ t.full = s2.full /\ t.floating = s2.floating
    BY <1>8, <1>13 DEF Stays, SameTags
  <2>2. t.full \subseteq t.floating \cap t.live
    BY <1>5, <2>1 DEF Flagged
  <2> QED  BY <1>5, <2>1, <2>2, SameFlagged
<1>18. Rooted(t)
  <2>1. Rooted(s) /\ Present(s, n) /\ Present(s, t.selmon)
    BY <1>14 DEF Sound, Home, Rooted, Present
  <2>2. \A x \in Mon \ {n} : t.stack[x] = s3.stack[x]
    BY <1>2, <1>8, <1>9, <1>12, LinkedOrder
  <2>3. \A x \in Mon \ {n} : Range(t.stack[x]) \subseteq Range(s.stack[x])
    BY <1>3, <1>5, <1>8, <2>2
  <2> QED  BY <1>14, <2>1, <2>3, RootedElsewhere
<1>19. Keeps(s, t)
  BY <1>13, <1>14, <1>15, <1>16, <1>17, <1>18, MovedKeeps
<1> QED  BY <1>15, <1>19

\* The end of movemouse and of resizemouse.
LEMMA DropHandles ==
    ASSUME NEW s, Sound(s), Leaps, NEW c \in Client, c \in s.live,
           NEW m \in Mon, Present(s, m), NEW k \in Nat,
           NEW t, t = Drop(s, c, m, k)
    PROVE  Handles(s, t) /\ OrderKept(s, t)
<1>1. CASE m = s.selmon
  BY <1>1, KeepsItself DEF Drop
<1>2. CASE m # s.selmon
  <2> DEFINE s1 == SendMon(s, c, m, k)
             s2 == [s1 EXCEPT !.selmon = m]
  <2>1. t = Focus(s2, NULL)
    BY <1>2 DEF Drop
  <2>2. /\ Handles(s, s1) /\ OrderButTop(s, s1)
        /\ s1.nmons = s.nmons /\ s1.selmon = s.selmon
    BY SendMonSound
  <2> HIDE DEF s1
  <2>3. Keeps(s1, s2) /\ s2.selmon = m /\ s2.stack = s1.stack /\ s2.sel = s1.sel
    BY <2>2, SelmonKeeps DEF Handles, Keeps, Present
  <2> HIDE DEF s2
  <2>4. Keeps(s, s2)
    BY <2>2, <2>3, KeepsTransitive DEF Handles
  <2>5. Handles(s, t) /\ OnlyTop(s2, t) /\ t.selmon = m
    BY <2>1, <2>3, <2>4, FocusHandles
  <2>6. \A x \in Mon \ {m} : t.sel[x] = s1.sel[x]
    BY <2>1, <2>3, <2>4, <2>5, FocusRaises DEF Keeps, Sound
  <2>7. ASSUME NEW x \in Mon, NEW d \in Range(s.stack[x])
        PROVE  SameOrder(s.stack[x], s1.stack[x], Alikes(s, t, x, d))
    <3> DEFINE S == Alikes(s, t, x, d)
    <3>1. S \in SUBSET Client /\ t.sel[x] \notin S
      BY DEF Alikes
    <3>2. x = s1.selmon => Sel(s1) \notin S
      BY <1>2, <2>2, <2>6, <3>1 DEF Sel
    <3> HIDE DEF S
    <3>3. SameOrder(s.stack[x], s1.stack[x], S)
      BY <2>2, <3>1, <3>2 DEF OrderButTop
    <3> QED  BY <3>3 DEF S
  <2>8. OrderKept(s, t)
    BY <2>3, <2>5, <2>7, LastMove
  <2> QED  BY <2>5, <2>8
<1> QED  BY <1>1, <1>2

\* The end of placemouse.  It settles the focus whatever it finds.
LEMMA PlaceSettles ==
    ASSUME NEW s, Sound(s), Leaps, NEW c \in Client, c \in s.live,
           Placed(s, c), NEW m \in Mon, Present(s, m), NEW t, t = Place(s, c, m)
    PROVE  Keeps(s, t) /\ Settled(t) /\ OrderKept(s, t)
<1>1. CASE m = s.mon[c]
  <2>1. t = Focus(s, c)
    BY <1>1 DEF Place
  <2>2. Keeps(s, s)
    BY KeepsItself
  <2> QED  BY <2>1, <2>2, FocusHandles, TopSettles DEF Handles, Placed, Present
<1>2. CASE m # s.mon[c]
  <2> DEFINE s1 == Rehome(Unlink(s, c), c, m)
             s2 == LinkHead(s1, c)
             s3 == [s2 EXCEPT !.selmon = m]
  <2>1. t = Focus(s3, c)
    BY <1>2 DEF Place
  <2>2. Keeps(s, s2) /\ s2.nmons = s.nmons /\ s2.mon[c] = m /\ StacksKept(s, s2)
    <3>1. ListsSound(s) /\ Flagged(s)
      BY DEF Sound
    <3>2. /\ ListsSound(Unlink(s, c)) /\ Stays(s, Unlink(s, c)) /\ Unlisted(Unlink(s, c), c)
      BY <3>1, UnlinkSound
    <3>3. /\ StacksKept(s, Unlink(s, c))
          /\ \A x \in Mon : Range(Unlink(s, c).stack[x]) = Range(s.stack[x]) \ {c}
      BY <3>1, UnlinkOrder
    <3>4. Flagged(Unlink(s, c))
      BY <3>1, <3>2, SameFlagged DEF Stays, Flagged
    <3>5. /\ ListsSound(s1) /\ Unlisted(s1, c) /\ s1.live = Unlink(s, c).live
          /\ s1.nmons = Unlink(s, c).nmons /\ s1.stack = Unlink(s, c).stack /\ s1.mon[c] = m
      BY <3>2, <3>4, RehomeSound
    <3>6. c \in s1.live /\ s1.nmons = s.nmons
      BY <3>2, <3>5 DEF Stays
    <3> DEFINE r == s1
    <3>7. r = Rehome(Unlink(s, c), c, m)
      OBVIOUS
    <3>8. /\ StacksKept(s, s1)
          /\ \A x \in Mon : Range(s1.stack[x]) = Range(s.stack[x]) \ {c}
      BY <3>3, <3>5 DEF StacksKept
    <3> HIDE DEF r, s1
    <3>9. /\ Stays(s1, s2) /\ ListsSound(s2) /\ s2.sel = s1.sel /\ s2.ok = s1.ok
          /\ \A d \in Client : Placed(s1, d) => Placed(s2, d)
          /\ s1.mon[c] <= s1.nmons => Placed(s2, c)
      BY <3>5, <3>6, LinkHeadSound
    <3>10. StacksKept(s1, s2) /\ \A x \in Mon \ {m} : s2.stack[x] = s1.stack[x]
      BY <3>5, <3>6, 0 \in Nat, LinkOrder
    <3> HIDE DEF s2
    <3>11. Keeps(s, s2)
      BY <3>7, <3>9, <3>10, RelinkKeeps DEF r
    <3>12. s2.mon[c] # s.mon[c]
      BY <1>2, <3>5, <3>9 DEF Stays
    <3>13. StacksKept(s, s2)
      BY <3>1, <3>8, <3>9, <3>10, <3>12, RelinkOrder
    <3> QED  BY <3>5, <3>6, <3>9, <3>11, <3>13 DEF Stays
  <2> HIDE DEF s2
  <2>3. Keeps(s2, s3) /\ s3.stack = s2.stack /\ Present(s3, s3.mon[c])
    BY <2>2, SelmonKeeps DEF Keeps, Present
  <2> HIDE DEF s3
  <2>4. Keeps(s, s3) /\ StacksKept(s, s3)
    BY <2>2, <2>3, KeepsTransitive DEF StacksKept
  <2> QED  BY <2>1, <2>3, <2>4, FocusHandles, TopSettles DEF Handles
<1> QED  BY <1>1, <1>2

\* The end of a mouse function lets its client go.
LEMMA ReleasedInv ==
    ASSUME NEW s, Sound(s), Settled(s), NEW t, t = Released(s)
    PROVE  /\ Inv(t)
           /\ t.stack = s.stack /\ t.mon = s.mon /\ t.sel = s.sel
<1>1. s \in State
  BY DEF Sound, ListsSound
<1>2. /\ t \in State /\ t.grab = "none" /\ SameTags(s, t) /\ SameFocus(s, t)
      /\ t.full = s.full /\ t.floating = s.floating
      /\ t.nmons = s.nmons /\ t.selmon = s.selmon /\ t.mon = s.mon
      /\ t.clients = s.clients /\ t.stack = s.stack /\ t.sel = s.sel
      /\ t.tagmarked = s.tagmarked /\ t.live = s.live /\ t.ok = s.ok
  BY ZenonT(40), <1>1 DEF Released, State, ClientOrNull, SameTags, SameFocus
<1>3. ListsSound(t)
  BY <1>2, SameListsSound DEF Sound
<1>4. Flagged(t)
  BY ZenonT(40), <1>2, SameFlagged DEF Sound, Flagged
<1>5. Home(t) /\ LitOnly(t) /\ Unhurt(t)
  BY <1>2 DEF Home, Rooted, Present, Placed, LitOnly, Unhurt, Sel, SameFocus, Sound
<1>6. Visible(t) = Visible(s)
  BY <1>2, VisibleSame
<1>7. Settled(t)
  <2>1. Sel(t) = Sel(s) /\ (AtHead(s) => AtHead(t))
    BY <1>2, AtHeadSame
  <2> QED  BY <1>2, <1>6, <2>1 DEF Settled, HasKeyboard, SameFocus
<1> QED  BY <1>2, <1>3, <1>4, <1>5, <1>7 DEF Inv, Sound

-----------------------------------------------------------------------------
(* The flags of a client.                                                  *)

\* setfullscreen never shows a client nor hides one.
LEMMA FullscreenHandles ==
    ASSUME NEW s, Sound(s), NEW c \in Client, c \in s.live, NEW on,
           NEW t, t = SetFullscreen(s, c, on)
    PROVE  Handles(s, t) /\ OrderKept(s, t)
<1>1. s \in State /\ s.full \subseteq s.floating \cap s.live
  BY DEF Sound, ListsSound, Flagged
<1>2. /\ t \in State /\ SameLists(s, t) /\ SameTags(s, t) /\ SameFocus(s, t)
      /\ t.full \subseteq t.floating \cap t.live
  BY <1>1, SetFullscreenSound
<1> QED  BY <1>2, SameHandles

\* setsticky may: a dwm that has it cannot promise that the selected client
\* is the one on top.
LEMMA StickyHandles ==
    ASSUME NEW s, Sound(s), Bound \cap {"togglesticky", "netwmsticky"} # {},
           NEW c \in Client, NEW on, NEW t, t = SetSticky(s, c, on)
    PROVE  Handles(s, t) /\ OrderKept(s, t)
<1>1. s \in State /\ s.full \subseteq s.floating \cap s.live
  BY DEF Sound, ListsSound, Flagged
<1>2. /\ t \in State /\ SameLists(s, t) /\ SameFocus(s, t)
      /\ t.full = s.full /\ t.floating = s.floating
      /\ t.tags = s.tags /\ t.tagset = s.tagset /\ t.seltags = s.seltags
  BY <1>1, SetStickySound
<1>3. Flagged(t)
  BY <1>2 DEF Sound, Flagged, SameLists
<1>4. Keeps(s, t)
  BY <1>2, <1>3, SameKeeps DEF SameFocus
<1>5. Settled(s) => Settled(t)
  <2>1. Sel(t) = Sel(s) /\ (AtHead(s) => AtHead(t))
    BY <1>2, AtHeadSame DEF SameLists
  <2> QED  BY <1>2, <2>1 DEF Settled, HasKeyboard, SameLists, SameFocus
<1>6. OrderKept(s, t)
  BY <1>2, StillOrder DEF SameLists
<1> QED  BY <1>4, <1>5, <1>6 DEF Handles

-----------------------------------------------------------------------------
(* One lemma per kind of event: its actions keep the invariant, and the    *)
(* order of the stacks but for those that mean to change it.               *)

\* createmon and setup.
LEMMA InitInv == Init => Inv(wm)
<1> SUFFICES ASSUME NEW n \in HeadCounts, wm = InitState(n)
             PROVE  Inv(wm)
  BY DEF Init
<1>1. n \in Mon /\ 1 \in Mon
  BY HeadsAssumption, MaxMonAssumption DEF Mon
<1>2. << >> \in Distinct(Client) /\ << >> \in Seq(Client) /\ Range(<< >>) = {}
  BY EmptyDistinct DEF Distinct
<1>3. {0} \in SUBSET Tag
  BY TagInBit DEF Tag
<1>4. InitState(n) \in State
  <2>1. /\ [m \in Mon |-> << >>] \in [Mon -> Seq(Client)]
        /\ [m \in Mon |-> NULL] \in [Mon -> ClientOrNull]
        /\ [m \in Mon |-> 0] \in [Mon -> 0..1]
        /\ [m \in Mon |-> [i \in 0..1 |-> {0}]] \in [Mon -> [0..1 -> SUBSET Tag]]
        /\ [m \in Mon |-> [i \in 1..NTags |-> NULL]] \in [Mon -> [1..NTags -> ClientOrNull]]
        /\ [c \in Client |-> 1] \in [Client -> Mon]
        /\ [c \in Client |-> {}] \in [Client -> SUBSET Bit]
    BY <1>1, <1>2, <1>3 DEF ClientOrNull
  <2> QED  BY <1>1, <2>1 DEF InitState, State, ClientOrNull
<1> DEFINE i == InitState(n)
<1>5. /\ i.grab = "none" /\ i.live = {} /\ i.full = {} /\ i.lit = {} /\ i.ok
      /\ i.selmon = 1 /\ i.nmons = n /\ i.xfocus = NULL
      /\ \A m \in Mon : /\ i.clients[m] = << >> /\ i.stack[m] = << >> /\ i.sel[m] = NULL
                        /\ \A j \in 0..1 : i.tagset[m][j] = {0}
                        /\ \A j \in 1..NTags : i.tagmarked[m][j] = NULL
  BY DEF InitState
<1>6. i \in State
  BY <1>4
<1> HIDE DEF i
<1>7. \A m \in Mon : MarksIn(i, m)
  BY <1>5, NTagsAssumption DEF MarksIn
<1>8. ListsSound(i)
  BY <1>2, <1>5, <1>6, <1>7, ListsAreSound DEF MonSound
<1>9. Flagged(i)
  BY <1>5 DEF Flagged
<1>10. Home(i)
  BY <1>1, <1>5, EmptyDistinct DEF Home, Rooted, Present, Mon
<1>11. Sel(i) = NULL
  BY <1>1, <1>5 DEF Sel
<1>12. LitOnly(i) /\ Unhurt(i)
  BY <1>5 DEF LitOnly, Unhurt
<1>13. Settled(i)
  <2>1. FirstOr(i.stack[i.selmon], Visible(i), NULL) = NULL
    <3>1. i.stack[i.selmon] = << >>
      BY <1>1, <1>5
    <3>2. FirstOr(<< >>, Visible(i), NULL) \in (Range(<< >>) \cap Visible(i)) \cup {NULL}
      BY <1>2, FirstOrIn
    <3> QED  BY <1>2, <3>1, <3>2
  <2> QED  BY <1>5, <1>11, <2>1 DEF Settled, HasKeyboard, AtHead
<1>14. Inv(i)
  BY <1>5, <1>8, <1>9, <1>10, <1>12, <1>13 DEF Inv, Sound
<1> QED  BY <1>14 DEF i

\* A step that changes nothing but who has the keyboard or declines it.
LEMMA KeyboardStep ==
    ASSUME Inv(wm), wm' \in State, SameLists(wm, wm'), SameTags(wm, wm'),
           wm'.lit = wm.lit, wm'.full = wm.full, wm'.floating = wm.floating,
           Bound \cap {"stealfocus", "wmhints"} = {} /\ HasKeyboard(wm) => HasKeyboard(wm')
    PROVE  Inv(wm') /\ OrderKept(wm, wm')
<1>1. Sound(wm)
  BY DEF Inv
<1>2. Flagged(wm')
  <2>1. Flagged(wm) /\ wm'.full \subseteq wm'.floating \cap wm'.live
    BY <1>1 DEF Sound, Flagged, SameLists
  <2> QED  BY <2>1, SameFlagged DEF SameLists
<1>3. Keeps(wm, wm')
  BY <1>1, <1>2, SameKeeps
<1>4. Visible(wm') = Visible(wm)
  BY VisibleSame DEF SameLists
<1>5. Sel(wm') = Sel(wm) /\ (AtHead(wm) => AtHead(wm'))
  BY AtHeadSame DEF SameLists
<1>6. Settled(wm) => Settled(wm')
  BY <1>4, <1>5 DEF Settled, SameLists
<1>7. wm.grab # "none" /\ Placed(wm, wm.held) => Placed(wm', wm'.held)
  BY DEF Placed, SameLists
<1>8. OrderKept(wm, wm')
  BY StillOrder DEF SameLists
<1> QED  BY <1>3, <1>6, <1>7, <1>8 DEF Inv, Keeps

\* Windows that come, go, take the focus, decline it or are clicked.
LEMMA WindowStep ==
    ASSUME Inv(wm), NEW c \in Client,
           \/ maprequest(c) \/ destroynotify(c) \/ clickclient(c)
           \/ stealfocus(c) \/ focusin(c) \/ wmhints(c)
    PROVE  Inv(wm') /\ OrderKept(wm, wm')
<1>1. Sound(wm) /\ ListsSound(wm) /\ wm \in State
  BY DEF Inv, Sound, ListsSound
<1>2. CASE maprequest(c)
  <2>1. PICK k \in NMaster, hints \in SUBSET Hints :
           \/ \E t \in RuleTags \cup {TagSet(wm, wm.selmon)} :
                  wm' = Manage(wm, c, wm.selmon, t, hints, k)
           \/ \E p \in Listed(wm) :
                  wm' = Manage(wm, c, wm.mon[p], wm.tags[p],
                               IF "full" \in hints THEN hints \ {"float"}
                               ELSE hints \cup {"float"}, k)
    BY <1>2 DEF maprequest
  <2>2. k \in Nat /\ c \notin wm.live
    BY <1>2, NMasterAssumption DEF maprequest
  <2>3. ASSUME NEW m \in Mon, Present(wm, m),
               NEW g \in SUBSET Bit, "netwmdesktop" \in Bound \/ (g # {} /\ g \subseteq Tag),
               NEW h, NEW i \in Nat, wm' = Manage(wm, c, m, g, h, i)
        PROVE  Inv(wm') /\ OrderKept(wm, wm')
    <3>1. Sound(wm) /\ c \notin wm.live
      BY <1>1, <2>2
    <3>2. Manages(wm, wm', c)
      BY <2>3, <3>1, ManageSound
    <3>3. wm.grab # "none" => wm.held \in Client
      BY <1>1, StateFields DEF Inv
    <3> QED  BY <3>2, <3>3 DEF Inv, Manages
  <2>4. CASE \E t \in RuleTags \cup {TagSet(wm, wm.selmon)} :
                 wm' = Manage(wm, c, wm.selmon, t, hints, k)
    <3>1. PICK t \in RuleTags \cup {TagSet(wm, wm.selmon)} :
              wm' = Manage(wm, c, wm.selmon, t, hints, k)
      BY <2>4
    <3>2. wm.selmon \in Mon
      BY <1>1, StateFields
    <3>3. TagSet(wm, wm.selmon) \in SUBSET Tag /\ TagSet(wm, wm.selmon) # {}
      BY <1>1, <3>2, TagSetIs DEF Sound, Flagged, TagSet
    <3>4. t \in SUBSET Tag /\ t \in SUBSET Bit /\ t # {}
      BY <3>3, TagInBit, RuleAssumption
    <3>5. Present(wm, wm.selmon)
      BY <1>1 DEF Sound, Home, Rooted
    <3> QED  BY <2>2, <2>3, <3>1, <3>2, <3>4, <3>5
  <2>5. CASE \E p \in Listed(wm) :
                 wm' = Manage(wm, c, wm.mon[p], wm.tags[p],
                              IF "full" \in hints THEN hints \ {"float"}
                              ELSE hints \cup {"float"}, k)
    <3>1. PICK p \in Listed(wm) :
              wm' = Manage(wm, c, wm.mon[p], wm.tags[p],
                           IF "full" \in hints THEN hints \ {"float"}
                           ELSE hints \cup {"float"}, k)
      BY <2>5
    <3>2. p \in Client /\ p \in wm.live /\ wm.mon[p] \in Mon /\ Present(wm, wm.mon[p])
      BY <1>1, ListedLive DEF Present
    <3>3. wm.tags[p] \in SUBSET Bit
      BY <1>1, <3>2 DEF State
    <3>4. "netwmdesktop" \in Bound \/ (wm.tags[p] # {} /\ wm.tags[p] \subseteq Tag)
      BY <1>1, <3>2 DEF Sound, Flagged
    <3> QED  BY <2>2, <2>3, <3>1, <3>2, <3>3, <3>4
  <2> QED  BY <2>1, <2>4, <2>5
<1>3. CASE destroynotify(c)
  <2>1. wm' = Unmanage(wm, c) /\ wm.grab = "none"
    BY <1>3 DEF destroynotify, Main
  <2>2. Sound(wm') /\ Settled(wm') /\ wm'.grab = wm.grab /\ OrderKept(wm, wm')
    BY <1>1, <2>1, UnmanageSound
  <2> QED  BY <2>1, <2>2 DEF Inv
<1>4. CASE stealfocus(c) \/ focusin(c) \/ wmhints(c)
  <2> DEFINE x == IF Sel(wm) # NULL /\ c # Sel(wm) THEN Keyboard(wm, Sel(wm)) ELSE wm.xfocus
             never == ToggleSet(wm.neverfocus, {c})
             hear == wm.focusins \cup {c}
             heard == wm.focusins \ {c}
  <2>1. \/ wm' = [wm EXCEPT !.xfocus = c, !.focusins = hear] /\ "stealfocus" \in Bound
        \/ wm' = [wm EXCEPT !.focusins = heard, !.xfocus = x]
        \/ wm' = [wm EXCEPT !.neverfocus = never] /\ "wmhints" \in Bound
    BY <1>1, <1>4 DEF stealfocus, focusin, wmhints, Main, Loop, State
  <2>2. /\ x \in ClientOrNull /\ c \in ClientOrNull
        /\ never \in SUBSET Client /\ hear \in SUBSET Client /\ heard \in SUBSET Client
    BY <1>1, SelLive DEF Keyboard, ToggleSet, State, ClientOrNull
  <2>3. HasKeyboard(wm) => x = Sel(wm) \/ Sel(wm) \in wm.neverfocus
    BY DEF Keyboard, HasKeyboard
  <2> HIDE DEF x, never, hear, heard
  <2>4. /\ wm' \in State /\ SameLists(wm, wm') /\ SameTags(wm, wm') /\ wm'.lit = wm.lit
        /\ wm'.full = wm.full /\ wm'.floating = wm.floating
    <3>1. CASE wm' = [wm EXCEPT !.xfocus = c, !.focusins = hear]
      BY <1>1, <2>2, <3>1 DEF State, SameLists, SameTags
    <3>2. CASE wm' = [wm EXCEPT !.focusins = heard, !.xfocus = x]
      BY <1>1, <2>2, <3>2 DEF State, SameLists, SameTags
    <3>3. CASE wm' = [wm EXCEPT !.neverfocus = never]
      BY <1>1, <2>2, <3>3 DEF State, SameLists, SameTags
    <3> QED  BY <2>1, <3>1, <3>2, <3>3
  <2>5. \/ Bound \cap {"stealfocus", "wmhints"} # {}
        \/ wm'.xfocus = x /\ wm'.neverfocus = wm.neverfocus
    BY <1>1, <2>1 DEF State
  <2>6. Bound \cap {"stealfocus", "wmhints"} = {} /\ HasKeyboard(wm) => HasKeyboard(wm')
    BY <2>3, <2>4, <2>5, AtHeadSame DEF HasKeyboard, SameLists
  <2> QED  BY <1>1, <2>4, <2>6, KeyboardStep
<1>5. CASE clickclient(c)
  <2>1. wm' = Click(wm, c) /\ c \in wm.live /\ Placed(wm, c) /\ wm.grab = "none"
    BY <1>1, <1>5, ListedLive DEF clickclient, Main
  <2>2. Handles(wm, wm') /\ OrderKept(wm, wm')
    BY <1>1, <2>1, ClickHandles
  <2> QED  BY <2>1, <2>2, HandlesInv
<1> QED  BY <1>2, <1>3, <1>4, <1>5

\* Requests of the clients.
LEMMA RequestStep ==
    ASSUME Inv(wm), NEW c \in Client,
           \/ netactivewindow(c) \/ propertynotify(c)
           \/ netwmfullscreen(c) \/ netwmsticky(c)
           \/ \E l \in Desktop : netwmdesktop(c, l)
    PROVE  Inv(wm') /\ OrderKept(wm, wm')
<1>1. Sound(wm) /\ ListsSound(wm) /\ wm \in State
  BY DEF Inv, Sound, ListsSound
<1>2. wm.grab = "none" /\ c \in Listed(wm)
  BY DEF netactivewindow, propertynotify, netwmfullscreen, netwmsticky, netwmdesktop, Main
<1>3. c \in wm.live /\ wm.mon[c] <= wm.nmons
  BY <1>1, <1>2, ListedLive
<1>4. CASE netactivewindow(c)
  <2>1. wm' = ActiveWindow(wm, c) /\ "netactivewindow" \in Bound
    BY <1>4 DEF netactivewindow, Main, Loop
  <2>2. Handles(wm, wm') /\ OrderKept(wm, wm')
    BY <1>1, <1>3, <2>1, ActiveWindowHandles
  <2> QED  BY <1>2, <2>2, HandlesInv
<1>5. CASE propertynotify(c)
  <2> DEFINE f == wm.floating \cup {c}
  <2>1. wm' = [wm EXCEPT !.floating = f]
    BY <1>1, <1>5 DEF propertynotify, State
  <2>2. f \in SUBSET Client
    BY <1>1 DEF State
  <2>3. wm.full \subseteq f
    BY <1>1 DEF Sound, Flagged
  <2> HIDE DEF f
  <2>4. /\ wm' \in State /\ SameLists(wm, wm') /\ SameTags(wm, wm') /\ SameFocus(wm, wm')
        /\ wm'.full = wm.full /\ wm'.floating = f
    BY <1>1, <2>1, <2>2 DEF State, SameLists, SameTags, SameFocus
  <2>5. wm'.full \subseteq wm'.floating \cap wm'.live
    BY <1>1, <2>3, <2>4 DEF Sound, Flagged, SameLists
  <2>6. Handles(wm, wm') /\ OrderKept(wm, wm')
    BY <1>1, <2>4, <2>5, SameHandles
  <2> QED  BY <1>2, <2>6, HandlesInv
<1>6. CASE netwmfullscreen(c)
  <2>1. PICK on \in BOOLEAN : wm' = SetFullscreen(wm, c, on)
    BY <1>6 DEF netwmfullscreen
  <2>2. Handles(wm, wm') /\ OrderKept(wm, wm')
    BY <1>1, <1>3, <2>1, FullscreenHandles
  <2> QED  BY <1>2, <2>2, HandlesInv
<1>7. CASE netwmsticky(c)
  <2>1. PICK on \in BOOLEAN : wm' = SetSticky(wm, c, on)
    BY <1>7 DEF netwmsticky
  <2>2. "netwmsticky" \in Bound
    BY <1>7 DEF netwmsticky, Main, Loop
  <2>3. Handles(wm, wm') /\ OrderKept(wm, wm')
    BY <1>1, <2>1, <2>2, StickyHandles
  <2> QED  BY <1>2, <2>3, HandlesInv
<1>8. CASE \E l \in Desktop : netwmdesktop(c, l)
  <2>1. PICK l \in Desktop : wm' = [wm EXCEPT !.tags[c] = Bits(l)]
    BY <1>8 DEF netwmdesktop
  <2>2. "netwmdesktop" \in Bound
    BY <1>8 DEF netwmdesktop, Main, Loop
  <2> DEFINE x == Bits(l)
  <2>3. x \in SUBSET Bit
    BY TagInBit DEF Bits
  <2>4. wm' = [wm EXCEPT !.tags[c] = x]
    BY <2>1
  <2> HIDE DEF x
  <2>5. Keeps(wm, wm') /\ SameLists(wm, wm') /\ SameFocus(wm, wm')
    BY <1>1, <2>2, <2>3, <2>4, TagOneKeeps
  <2>6. Sel(wm') = Sel(wm) /\ (AtHead(wm) => AtHead(wm'))
    BY <2>5, AtHeadSame DEF SameLists
  <2>7. Handles(wm, wm')
    BY <2>2, <2>5, <2>6 DEF Handles, Settled, HasKeyboard, SameLists, SameFocus
  <2>8. OrderKept(wm, wm')
    BY <2>5, StillOrder DEF SameLists
  <2> QED  BY <1>2, <2>7, <2>8, HandlesInv
<1> QED  BY <1>4, <1>5, <1>6, <1>7, <1>8

\* Keys that change tags or views.
LEMMA TagStep ==
    ASSUME Inv(wm),
           \/ \E t \in ViewArg : view(t)
           \/ \E t \in TagArg : tag(t)
           \/ \E t \in OneTag : toggleview(t) \/ toggletag(t) \/ swaptag(t)
           \/ \E dir \in Dir : rotatetags(dir) \/ shiftviewclients(dir)
    PROVE  Inv(wm') /\ OrderKept(wm, wm')
<1>1. Sound(wm) /\ AtHead(wm) /\ wm.grab = "none"
  BY DEF Inv, Settled, view, tag, toggleview, toggletag, swaptag, rotatetags,
         shiftviewclients, Main
<1>2. SUFFICES Handles(wm, wm') /\ OrderKept(wm, wm')
  BY <1>1, HandlesInv
<1>3. ASSUME NEW g \in SUBSET Tag,
             \/ wm' = View(wm, g)
             \/ wm' = TagSel(wm, g)
             \/ wm' = ToggleView(wm, g)
             \/ wm' = ToggleTag(wm, g)
             \/ wm' = SwapTag(wm, g) /\ g # {}
      PROVE  Handles(wm, wm') /\ OrderKept(wm, wm')
  <2>1. CASE wm' = View(wm, g)
    BY <1>1, <2>1, ViewSound
  <2>2. CASE wm' = TagSel(wm, g)
    BY <1>1, <2>2, TagSelHandles
  <2>3. CASE wm' = ToggleView(wm, g)
    BY <1>1, <2>3, ToggleViewHandles
  <2>4. CASE wm' = ToggleTag(wm, g)
    BY <1>1, <2>4, ToggleTagHandles
  <2>5. CASE wm' = SwapTag(wm, g) /\ g # {}
    BY <1>1, <2>5, SwapTagHandles
  <2> QED  BY <1>3, <2>1, <2>2, <2>3, <2>4, <2>5
<1>4. CASE \E t \in ViewArg : view(t)
  BY <1>3, <1>4, ArgsIn DEF view
<1>5. CASE \E t \in TagArg : tag(t)
  BY <1>3, <1>5, ArgsIn DEF tag
<1>6. CASE \E t \in OneTag : toggleview(t) \/ toggletag(t) \/ swaptag(t)
  BY <1>3, <1>6, ArgsIn DEF toggleview, toggletag, swaptag
<1>7. CASE \E dir \in Dir : rotatetags(dir)
  <2>1. PICK dir \in Dir : wm' = RotateTags(wm, dir)
    BY <1>7 DEF rotatetags
  <2> QED  BY <1>1, <2>1, RotateTagsHandles
<1>8. CASE \E dir \in Dir : shiftviewclients(dir)
  <2>1. \E dir \in Dir, n \in 1..NTags :
            wm' = View(wm, Rotated(TagSet(wm, wm.selmon), dir * n))
    BY <1>8 DEF shiftviewclients
  <2>2. PICK g \in SUBSET Tag : wm' = View(wm, g)
    BY <2>1, RotatedIn
  <2> QED  BY <1>3, <2>2
<1> QED  BY <1>4, <1>5, <1>6, <1>7, <1>8

\* The other keys.
LEMMA KeyStep ==
    ASSUME Inv(wm),
           \/ \E dir \in Dir :
               \/ focusmon(dir) \/ focusstack(dir) \/ focussame(dir)
               \/ rotatestack(dir) \/ tagmon(dir) \/ tagswapmon(dir)
           \/ focusmaster \/ swapfocus \/ zoom \/ layoutkey
           \/ togglefloating \/ togglefullscr \/ togglesticky
    PROVE  Inv(wm') /\ (Reorders \/ OrderKept(wm, wm'))
<1>1. /\ Sound(wm) /\ ListsSound(wm) /\ wm \in State /\ Settled(wm) /\ wm.grab = "none"
      /\ Sel(wm) \in ClientOrNull
  <2>1. wm.grab = "none"
    BY DEF focusmon, focusstack, focussame, rotatestack, tagmon, tagswapmon,
           focusmaster, swapfocus, zoom, layoutkey, togglefloating, togglefullscr,
           togglesticky, Main
  <2>2. Sound(wm) /\ ListsSound(wm) /\ wm \in State /\ Settled(wm)
    BY <2>1 DEF Inv, Sound, ListsSound
  <2> QED  BY <2>1, <2>2, SelLive
<1>2. SUFFICES Handles(wm, wm') /\ (Reorders \/ OrderKept(wm, wm'))
  BY <1>1, HandlesInv
<1>3. ASSUME NEW dir \in Dir, focusmon(dir)
      PROVE  Handles(wm, wm') /\ OrderKept(wm, wm')
  BY <1>1, <1>3, FocusMonHandles DEF focusmon
<1>4. ASSUME NEW dir \in Dir, focusstack(dir)
      PROVE  Handles(wm, wm') /\ OrderKept(wm, wm')
  BY <1>1, <1>4, FocusStackHandles DEF focusstack
<1>5. ASSUME NEW dir \in Dir, focussame(dir)
      PROVE  Handles(wm, wm') /\ OrderKept(wm, wm')
  <2>1. "focussame" \in Bound
    BY <1>5 DEF focussame, Main, Loop
  <2>2. PICK class \in SUBSET Client : wm' = FocusSame(wm, class, dir)
    BY <1>5 DEF focussame
  <2> QED  BY <1>1, <2>1, <2>2, FocusSameHandles
<1>6. ASSUME NEW dir \in Dir, rotatestack(dir)
      PROVE  Handles(wm, wm') /\ Reorders
  <2>1. "rotatestack" \in Bound /\ wm' = RotateStack(wm, dir)
    BY <1>6 DEF rotatestack, Main, Loop
  <2>2. Handles(wm, wm')
    BY <1>1, <2>1, RotateStackHandles
  <2> QED  BY <1>6, <2>2 DEF Reorders
<1>7. ASSUME NEW dir \in Dir, tagmon(dir)
      PROVE  Handles(wm, wm') /\ OrderKept(wm, wm')
  <2>1. PICK k \in NMaster : wm' = SendMon(wm, Sel(wm), DirToMon(wm, dir), k)
    BY <1>7 DEF tagmon
  <2>2. Sel(wm) \in Client /\ Sel(wm) \in wm.live /\ k \in Nat
    BY <1>1, <1>7, SelLive, NMasterAssumption DEF tagmon
  <2>3. /\ DirToMon(wm, dir) \in Mon
        /\ Present(wm, DirToMon(wm, dir))
    BY <1>1, DirToMonIn
  <2>4. ASSUME NEW i \in Nat, wm' = SendMon(wm, Sel(wm), DirToMon(wm, dir), i)
        PROVE  Handles(wm, wm') /\ OrderKept(wm, wm')
    BY <1>1, <2>2, <2>3, <2>4, SendMonSound
  <2> QED  BY <2>1, <2>2, <2>4
<1>8. ASSUME NEW dir \in Dir, tagswapmon(dir)
      PROVE  Handles(wm, wm') /\ Reorders
  <2>1. wm' = TagSwapMon(wm, DirToMon(wm, dir)) /\ wm.nmons > 1
    BY <1>8 DEF tagswapmon
  <2>2. /\ DirToMon(wm, dir) \in Mon /\ DirToMon(wm, dir) # wm.selmon
        /\ Present(wm, DirToMon(wm, dir))
    BY <1>1, <2>1, DirToMonIn
  <2>3. Handles(wm, wm')
    BY <1>1, <2>1, <2>2, TagSwapMonHandles
  <2> QED  BY <1>8, <2>3 DEF Reorders
<1>10. CASE focusmaster
  <2>1. "focusmaster" \in Bound /\ wm' = FocusMaster(wm)
    BY <1>10 DEF focusmaster, Main, Loop
  <2> QED  BY <1>1, <2>1, FocusMasterHandles
<1>11. CASE swapfocus
  BY <1>1, <1>11, SwapFocusHandles DEF swapfocus
<1>12. CASE zoom
  <2>1. PICK tiling \in BOOLEAN : wm' = Zoom(wm, tiling)
    BY <1>12 DEF zoom
  <2> QED  BY <1>1, <2>1, ZoomHandles
<1>13. CASE layoutkey
  <2> DEFINE no == FALSE
  <2>1. wm' = Crash(wm) \/ wm' = ToggleFloating(wm, no)
    BY <1>13 DEF layoutkey
  <2>2. ~Sure
    BY <1>13 DEF layoutkey, Main, Loop, Sure
  <2> HIDE DEF no
  <2> QED  BY <1>1, <2>1, <2>2, CrashKeeps, ToggleFloatingSound
<1>14. CASE togglefloating
  <2>1. PICK fixed \in BOOLEAN : wm' = ToggleFloating(wm, fixed)
    BY <1>14 DEF togglefloating
  <2> QED  BY <1>1, <2>1, ToggleFloatingSound
<1>15. CASE togglefullscr
  <2> DEFINE on == Sel(wm) \notin wm.full
  <2>1. wm' = SetFullscreen(wm, Sel(wm), on) /\ Sel(wm) \in Client /\ Sel(wm) \in wm.live
    BY <1>1, <1>15, SelLive DEF togglefullscr, ClientOrNull
  <2> HIDE DEF on
  <2> QED  BY <1>1, <2>1, FullscreenHandles
<1>16. CASE togglesticky
  <2> DEFINE on == Sel(wm) \notin wm.sticky
  <2>1. wm' = SetSticky(wm, Sel(wm), on) /\ Sel(wm) \in Client
    BY <1>1, <1>16 DEF togglesticky, ClientOrNull
  <2>2. "togglesticky" \in Bound
    BY <1>16 DEF togglesticky, Main, Loop
  <2> HIDE DEF on
  <2> QED  BY <1>1, <2>1, <2>2, StickyHandles
<1> QED  BY <1>3, <1>4, <1>5, <1>6, <1>7, <1>8, <1>10, <1>11, <1>12, <1>13,
            <1>14, <1>15, <1>16

\* The monitors there are never exceed those there may be.
LEMMA HeadsIn ==
    ASSUME Inv(wm), NEW m \in Heads
    PROVE  m \in Mon /\ m <= wm.nmons
BY StateFields, MaxMonAssumption DEF Heads, Mon, Inv, Sound, ListsSound

\* Button presses, motion and release.
LEMMA MouseStep ==
    ASSUME Inv(wm),
           \/ \E c \in Client, how \in {"move", "place", "resize"} : mousepress(c, how)
           \/ \E m \in Heads : clickmon(m) \/ placemotion(m) \/ mouserelease(m)
    PROVE  Inv(wm') /\ (Reorders \/ OrderKept(wm, wm'))
<1>1. Sound(wm) /\ ListsSound(wm) /\ wm \in State
  BY DEF Inv, Sound, ListsSound
<1>2. ASSUME NEW c \in Client, NEW how \in {"move", "place", "resize"}, mousepress(c, how)
      PROVE  Inv(wm') /\ OrderKept(wm, wm')
  <2>1. wm' = Grab(wm, c, how) /\ c \in Listed(wm) /\ wm.grab = "none"
    BY <1>2 DEF mousepress, Main
  <2>2. c \in wm.live /\ Placed(wm, c)
    BY <1>1, <2>1, ListedLive
  <2> QED  BY <2>1, <2>2, GrabInv
<1>3. ASSUME NEW m \in Heads, clickmon(m)
      PROVE  Inv(wm') /\ OrderKept(wm, wm')
  <2>1. wm' = ToMon(wm, m) /\ wm.grab = "none" /\ m \in Mon /\ Present(wm, m)
    BY <1>3, HeadsIn DEF clickmon, Main, Present
  <2>2. Handles(wm, wm') /\ OrderKept(wm, wm')
    BY <1>1, <2>1, ToMonHandles
  <2> QED  BY <2>1, <2>2, HandlesInv
<1>4. ASSUME wm.grab # "none"
      PROVE  wm.held \in Client /\ wm.held \in wm.live /\ Placed(wm, wm.held)
  BY <1>1, <1>4, StateFields DEF Inv
<1>5. ASSUME NEW m \in Heads, placemotion(m)
      PROVE  Inv(wm') /\ Reorders
  <2> DEFINE s == [wm EXCEPT !.selmon = m]
  <2>1. /\ \/ wm' = s
           \/ \E r \in (Range(s.clients[m]) \cap Tiled(s)) \ {s.held}, above \in BOOLEAN :
                  wm' = PlaceNextTo(s, s.held, r, above)
        /\ wm.grab = "place" /\ Leaps
    BY <1>5 DEF placemotion, Loop, Leaps
  <2>2. m \in Mon /\ m <= wm.nmons
    BY <1>5, HeadsIn
  <2>3. wm.held \in Client /\ wm.held \in wm.live /\ Placed(wm, wm.held)
    BY <1>4, <2>1
  <2>4. Keeps(wm, s) /\ s.mon = wm.mon /\ s.nmons = wm.nmons /\ s.clients = wm.clients
    BY <1>1, <2>1, <2>2, SelmonKeeps DEF Present
  <2> HIDE DEF s
  <2>5. /\ Sound(s) /\ s.held \in Client /\ s.held \in s.live /\ Placed(s, s.held)
        /\ s.grab = "place"
    BY <2>1, <2>3, <2>4 DEF Keeps, Placed
  <2>6. Reorders
    BY <1>5 DEF Reorders
  <2>7. CASE wm' = s
    BY <2>5, <2>7, <2>6 DEF Inv
  <2>8. ASSUME NEW r \in (Range(s.clients[m]) \cap Tiled(s)) \ {s.held}, NEW above \in BOOLEAN,
               wm' = PlaceNextTo(s, s.held, r, above)
        PROVE  Inv(wm')
    <3>1. r \in Range(s.clients[m]) /\ r # s.held /\ m <= s.nmons
      BY <2>2, <2>4, <2>8
    <3>2. Keeps(s, wm') /\ Placed(wm', s.held)
      BY <2>1, <2>2, <2>5, <2>8, <3>1, PlaceNextToKeeps
    <3> QED  BY <2>5, <3>2 DEF Inv, Keeps
  <2> QED  BY <2>1, <2>7, <2>8, <2>6
<1>6. ASSUME NEW m \in Heads, mouserelease(m)
      PROVE  Inv(wm') /\ OrderKept(wm, wm')
  <2>1. Leaps /\ wm.grab # "none"
    BY <1>6 DEF mouserelease, Loop, Leaps
  <2>2. m \in Mon /\ m <= wm.nmons
    BY <1>6, HeadsIn
  <2>3. wm.held \in Client /\ wm.held \in wm.live /\ Placed(wm, wm.held)
    BY <1>4, <2>1
  <2>4. CASE wm.grab = "place"
    <3> DEFINE s == Place(wm, wm.held, m)
    <3>1. wm' = Released(s)
      BY <1>6, <2>4 DEF mouserelease
    <3>2. Keeps(wm, s) /\ Settled(s) /\ OrderKept(wm, s)
      BY <1>1, <2>1, <2>2, <2>3, PlaceSettles DEF Present
    <3> HIDE DEF s
    <3>3. Inv(wm') /\ wm'.stack = s.stack /\ wm'.mon = s.mon /\ wm'.sel = s.sel
      BY <3>1, <3>2, ReleasedInv DEF Keeps
    <3> QED  BY <3>2, <3>3, SameEndKept
  <2>5. CASE wm.grab # "place"
    <3>1. PICK k \in NMaster : wm' = Released(Drop(wm, wm.held, m, k))
      BY <1>6, <2>5 DEF mouserelease
    <3>2. ASSUME NEW k0 \in Nat
          PROVE  /\ Handles(wm, Drop(wm, wm.held, m, k0))
                 /\ OrderKept(wm, Drop(wm, wm.held, m, k0))
      BY <1>1, <2>1, <2>2, <2>3, DropHandles DEF Present
    <3> DEFINE s == Drop(wm, wm.held, m, k)
    <3>3. Handles(wm, s) /\ OrderKept(wm, s) /\ wm' = Released(s)
      BY <3>1, <3>2, NMasterAssumption
    <3> HIDE DEF s
    <3>4. Sound(s) /\ Settled(s)
      BY <2>5, <3>3 DEF Handles, Keeps, Inv
    <3>5. Inv(wm') /\ wm'.stack = s.stack /\ wm'.mon = s.mon /\ wm'.sel = s.sel
      BY <3>3, <3>4, ReleasedInv
    <3> QED  BY <3>3, <3>5, SameEndKept
  <2> QED  BY <2>4, <2>5
<1> QED  BY <1>2, <1>3, <1>5, <1>6

\* A change among the monitors.  The lists of the monitors that are gone
\* move to the first; those of a new one are empty.
LEMMA HeadsStep ==
    ASSUME Inv(wm), NEW n \in HeadCounts, configurenotify(n)
    PROVE  Inv(wm') /\ Reorders
<1> DEFINE s == IF n < wm.nmons THEN Unplug(wm, n) ELSE [wm EXCEPT !.nmons = n]
<1>1. /\ Sound(wm) /\ ListsSound(wm) /\ wm \in State /\ n \in Mon /\ wm.grab = "none"
      /\ "configurenotify" \in Bound /\ wm.nmons \in Mon
  <2>1. Sound(wm) /\ ListsSound(wm) /\ wm \in State
    BY DEF Inv, Sound, ListsSound
  <2>2. n \in Mon /\ wm.grab = "none" /\ "configurenotify" \in Bound
    BY HeadsAssumption DEF configurenotify, Main, Loop
  <2> QED  BY <2>1, <2>2, StateFields
<1>2. \/ wm' = Focus(s, NULL)
      \/ \E p \in 1..n : wm' = Focus([s EXCEPT !.selmon = p], NULL)
  BY DEF configurenotify
<1>3. Keeps(wm, s) /\ s.nmons = n
  <2>1. CASE n < wm.nmons
    BY <1>1, <2>1, UnplugKeeps
  <2>2. CASE ~(n < wm.nmons)
    <3>1. s = [wm EXCEPT !.nmons = n]
      BY <2>2
    <3> HIDE DEF s
    <3>2. /\ s \in State /\ SameTags(wm, s) /\ SameFocus(wm, s)
          /\ s.clients = wm.clients /\ s.stack = wm.stack /\ s.mon = wm.mon
          /\ s.live = wm.live /\ s.sel = wm.sel /\ s.nmons = n /\ s.ok = wm.ok
          /\ s.selmon = wm.selmon /\ s.tagmarked = wm.tagmarked
          /\ s.full = wm.full /\ s.floating = wm.floating
          /\ s.grab = wm.grab /\ s.held = wm.held
      BY <1>1, <3>1 DEF State, SameTags, SameFocus
    <3>3. ListsSound(s)
      BY <1>1, <3>2, SameListsSound
    <3>4. Flagged(s)
      <4>1. Flagged(wm) /\ s.full \subseteq s.floating \cap s.live
        BY <1>1, <3>2 DEF Sound, Flagged
      <4> QED  BY <3>2, <4>1, SameFlagged
    <3>5. Home(s)
      <4>1. \A i \in Mon : i <= wm.nmons => i <= n
        BY <1>1, <2>2, MaxMonAssumption DEF Mon
      <4>2. wm.selmon \in Mon /\ wm.mon \in [Client -> Mon] /\ wm.live \subseteq Client
        BY <1>1, StateFields
      <4>3. Home(wm)
        BY <1>1 DEF Sound
      <4> QED  BY <3>2, <4>1, <4>2, <4>3 DEF Home, Rooted, Present, Placed
    <3>6. LitOnly(s) /\ Unhurt(s)
      BY <1>1, <3>2 DEF LitOnly, Leaps, Unhurt, Sound
    <3> QED  BY <3>2, <3>3, <3>4, <3>5, <3>6 DEF Keeps, Sound
  <2> QED  BY <2>1, <2>2
<1> HIDE DEF s
<1>4. SUFFICES Handles(wm, wm')
  <2>1. Reorders
    BY DEF Reorders
  <2> QED  BY <1>1, <2>1, HandlesInv
<1>5. CASE wm' = Focus(s, NULL)
  BY <1>3, <1>5, FocusHandles
<1>6. ASSUME NEW p \in 1..n, wm' = Focus([s EXCEPT !.selmon = p], NULL)
      PROVE  Handles(wm, wm')
  <2> DEFINE r == [s EXCEPT !.selmon = p]
  <2>1. p \in Mon /\ p <= s.nmons
    BY <1>1, <1>3, MaxMonAssumption DEF Mon
  <2>2. Sound(s) /\ Leaps
    BY <1>1, <1>3 DEF Keeps, Leaps
  <2>3. Keeps(s, r)
    BY <2>1, <2>2, SelmonKeeps DEF Present
  <2>4. wm' = Focus(r, NULL)
    BY <1>6
  <2> HIDE DEF r
  <2>5. Keeps(wm, r)
    BY <1>3, <2>3, KeepsTransitive
  <2> QED  BY <2>4, <2>5, FocusHandles
<1> QED  BY <1>2, <1>5, <1>6

\* Every event, whatever it is, is handled from a sound state to a sound
\* state.
LEMMA NextInv ==
    ASSUME Inv(wm), [Next]_vars
    PROVE  Inv(wm') /\ (Reorders \/ OrderKept(wm, wm'))
<1>1. CASE UNCHANGED vars
  <2>1. wm' = wm
    BY <1>1 DEF vars
  <2>2. OrderKept(wm, wm')
    BY <2>1, StillOrder
  <2> QED  BY <2>1, <2>2
<1>2. CASE Next
  BY <1>2, WindowStep, RequestStep, TagStep, KeyStep, MouseStep, HeadsStep DEF Next
<1> QED  BY <1>1, <1>2

-----------------------------------------------------------------------------
(* The theorems.                                                           *)

\* The invariant holds whatever events come.
THEOREM Invariant == Spec => []Inv(wm)
<1>1. Init => Inv(wm)
  BY InitInv
<1>2. Inv(wm) /\ [Next]_vars => Inv(wm)'
  BY NextInv
<1> QED  BY <1>1, <1>2, PTL DEF Spec

\* The state of dwm keeps its type: no list holds anything but clients, and
\* no index of a monitor or of a tag leaves its range.
THEOREM TypeCorrect == Spec => []TypeOK
<1>1. Inv(wm) => TypeOK
  BY DEF Inv, Sound, ListsSound, TypeOK
<1> QED  BY <1>1, Invariant, PTL

\* No sequence of windows, requests, keys, clicks, drags and hotplugs, for
\* any number of windows, monitors and tags and any attachmode, leaves a
\* list that loops, holds a client of another monitor or freed memory, or a
\* selected client that its monitor's focus history does not hold.
THEOREM ListsWellFormed == Spec => []WellFormed
<1>1. Inv(wm) => WellFormed
  BY DEF Inv, Sound, ListsSound, WellFormed
<1> QED  BY <1>1, Invariant, PTL

\* A dwm without rotatestack, whose enqueue drops a client that was alone in
\* its list, keeps every client in both lists at once, through all that
\* unlinks and links it: manage, zoom, tagmon, tagswapmon, placemouse and
\* the loss of a head.
THEOREM ListsAlwaysAgree == "rotatestack" \notin Bound => (Spec => []ListsAgree)
<1> SUFFICES ASSUME "rotatestack" \notin Bound
             PROVE  Spec => []ListsAgree
  OBVIOUS
<1>1. Inv(wm) => ListsAgree
  <2> SUFFICES ASSUME Inv(wm), NEW m \in Mon
               PROVE  Range(wm.clients[m]) = Range(wm.stack[m])
    BY DEF ListsAgree
  <2>1. ListsSound(wm) /\ \A c \in wm.live : Placed(wm, c)
    BY DEF Inv, Sound, Home
  <2>2. Range(wm.clients[m]) \subseteq Range(wm.stack[m])
    BY <2>1, SoundLists
  <2>3. ASSUME NEW c \in Range(wm.stack[m])
        PROVE  c \in Range(wm.clients[m])
    <3>1. c \in wm.live /\ wm.mon[c] = m
      BY <2>1, StackLive
    <3> QED  BY <2>1, <3>1 DEF Placed
  <2> QED  BY <2>2, <2>3
<1> QED  BY <1>1, Invariant, PTL

\* Nor does it leave a client, or the focus, on a monitor that is gone:
\* dirtomon and the loops of updategeom stay on those there are, and a client
\* that rotatestack lost from its list is reached only through the mark of a
\* tag, which focusmaster alone follows without a look at where it leads.
THEOREM MonitorsAlwaysExist ==
    ~({"rotatestack", "focusmaster"} \subseteq Bound) => (Spec => []MonitorsExist)
<1> SUFFICES ASSUME ~({"rotatestack", "focusmaster"} \subseteq Bound)
             PROVE  Spec => []MonitorsExist
  OBVIOUS
<1>1. Inv(wm) => MonitorsExist
  <2> SUFFICES ASSUME Inv(wm)
               PROVE  MonitorsExist
    OBVIOUS
  <2>1. /\ ListsSound(wm)
        /\ \A m \in Mon : \A c \in Range(wm.stack[m]) : m <= wm.nmons
        /\ wm.selmon <= wm.nmons
    BY DEF Inv, Sound, Home, Rooted, Present, Strays
  <2>2. wm.selmon \in Mon /\ wm.nmons \in Mon
    BY <2>1, StateFields DEF ListsSound
  <2>3. wm.selmon \in Heads
    BY <2>1, <2>2, MaxMonAssumption DEF Heads, Mon
  <2>4. ASSUME NEW m \in Mon \ Heads
        PROVE  wm.stack[m] = << >> /\ wm.clients[m] = << >>
    <3>1. ~(m <= wm.nmons)
      BY <2>2, MaxMonAssumption DEF Heads, Mon
    <3>2. Range(wm.stack[m]) = {}
      BY <2>1, <3>1
    <3>3. Range(wm.clients[m]) = {}
      BY <2>1, <3>2, SoundLists
    <3>4. wm.clients[m] \in Seq(Client) /\ wm.stack[m] \in Seq(Client)
      BY <2>1, StateFields DEF ListsSound
    <3> QED  BY <3>2, <3>3, <3>4, EmptyRange
  <2> QED  BY <2>3, <2>4 DEF MonitorsExist
<1> QED  BY <1>1, Invariant, PTL

\* While a mouse function runs its own event loop, the client it holds is
\* neither freed nor taken from its list: windows may be mapped meanwhile,
\* but only the main loop unmanages.
THEOREM HeldStaysManaged == Spec => []HeldLive
<1>1. Inv(wm) => HeldLive
  <2> SUFFICES ASSUME Inv(wm), wm.grab # "none"
               PROVE  wm.held \in Listed(wm)
    BY DEF HeldLive
  <2>1. wm \in State /\ wm.held \in wm.live /\ Placed(wm, wm.held)
    BY DEF Inv, Sound, ListsSound
  <2>2. wm.held \in Client
    BY <2>1, StateFields
  <2> QED  BY <2>1, <2>2, PlacedListed
<1> QED  BY <1>1, Invariant, PTL

\* Each handler that hides, shows, moves or frees a client gives the focus
\* to the one it should: a dwm in which no client is made sticky or sent to
\* a desktop, the two requests after which no focus() follows, has the most
\* recently focused visible client selected whenever it waits for an event.
THEOREM FocusAlwaysOnTop ==
    Bound \cap {"togglesticky", "netwmsticky", "netwmdesktop"} = {}
        => (Spec => []FocusIsTop)
<1> SUFFICES ASSUME Bound \cap {"togglesticky", "netwmsticky", "netwmdesktop"} = {}
             PROVE  Spec => []FocusIsTop
  OBVIOUS
<1>1. Inv(wm) => FocusIsTop
  BY DEF Inv, Settled, FocusIsTop, Idle
<1> QED  BY <1>1, Invariant, PTL

\* Every change of the selected client dims the border of the one before,
\* also across monitors and through the calls of focus() in the middle of a
\* handler: but for the three places where selmon changes first.
THEOREM BorderFollowsFocus ==
    Bound \cap {"netactivewindow", "mouse", "configurenotify"} = {}
        => (Spec => []LitIsFocus)
<1> SUFFICES ASSUME Bound \cap {"netactivewindow", "mouse", "configurenotify"} = {}
             PROVE  Spec => []LitIsFocus
  OBVIOUS
<1>1. Inv(wm) => LitIsFocus
  <2> SUFFICES ASSUME Inv(wm), Idle
               PROVE  wm.lit = {Sel(wm)} \ {NULL}
    BY DEF LitIsFocus
  <2>1. wm.lit \subseteq {Sel(wm)} /\ (Sel(wm) # NULL => Sel(wm) \in wm.lit)
    BY DEF Inv, Sound, LitOnly, Leaps, Settled, Idle
  <2>2. wm.lit \subseteq Client
    BY DEF Inv, Sound, ListsSound, State
  <2> QED  BY <2>1, <2>2, NullAssumption
<1> QED  BY <1>1, Invariant, PTL

\* As long as no other program takes it and no client changes its mind about
\* it, the keyboard is with the selected client whenever dwm waits for an
\* event, unless that client declines it.
THEOREM KeyboardFollowsFocus ==
    Bound \cap {"stealfocus", "wmhints"} = {} => (Spec => []XFocusIsSel)
<1> SUFFICES ASSUME Bound \cap {"stealfocus", "wmhints"} = {}
             PROVE  Spec => []XFocusIsSel
  OBVIOUS
<1>1. Inv(wm) => XFocusIsSel
  BY DEF Inv, Settled, HasKeyboard, XFocusIsSel, Idle
<1> QED  BY <1>1, Invariant, PTL

\* Unless a pager sends desktop numbers, no view is ever empty and no client
\* is without a tag, whatever toggleview, toggletag, tag, swaptag, rotatetags,
\* shiftviewclients and the moves between monitors make of them.
THEOREM AllReachable == "netwmdesktop" \notin Bound => (Spec => []NothingUnreachable)
<1> SUFFICES ASSUME "netwmdesktop" \notin Bound
             PROVE  Spec => []NothingUnreachable
  OBVIOUS
<1>1. Inv(wm) => NothingUnreachable
  <2> SUFFICES ASSUME Inv(wm)
               PROVE  NothingUnreachable
    OBVIOUS
  <2>1. ListsSound(wm) /\ Flagged(wm) /\ wm \in State
    BY DEF Inv, Sound, ListsSound
  <2>2. ASSUME NEW m \in Heads
        PROVE  TagSet(wm, m) # {}
    <3>1. m \in Mon
      BY HeadsIn
    <3>2. wm.seltags[m] \in 0..1
      BY <2>1, <3>1 DEF State
    <3> QED  BY <2>1, <3>1, <3>2 DEF Flagged, TagSet
  <2>3. ASSUME NEW c \in Listed(wm)
        PROVE  wm.tags[c] \cap Tag # {}
    BY <2>1, ListedLive DEF Flagged
  <2> QED  BY <2>2, <2>3 DEF NothingUnreachable
<1> QED  BY <1>1, Invariant, PTL

\* The mark focusmaster goes back to is never a client that was freed or has
\* left the monitor, except for the last mark, which detach does not clear.
THEOREM MarksStayLive == Spec => []MarksLive
<1>1. Inv(wm) => MarksLive
  BY DEF Inv, Sound, ListsSound, MarksIn, MarksLive
<1> QED  BY <1>1, Invariant, PTL

\* Fullscreen and floating are set, saved and restored in six handlers: no
\* order of them leaves a fullscreen client to the layouts.
THEOREM FullscreenFloats == Spec => []FullFloats
<1>1. Inv(wm) => FullFloats
  BY DEF Inv, Sound, Flagged, FullFloats
<1> QED  BY <1>1, Invariant, PTL

\* With viewontag, and without the keys that read a selected client, a mark
\* or an array that may not be there, dwm follows no bad pointer: in
\* particular focusstack backwards and attachx find the selected client in
\* its list, and tag finds one to update after it.
THEOREM NeverCrashes ==
    ViewOnTag /\ Bound \cap {"rotatestack", "focusmaster", "focussame", "layoutkey"} = {}
        => (Spec => []NoCrash)
<1> SUFFICES ASSUME ViewOnTag,
                    Bound \cap {"rotatestack", "focusmaster", "focussame", "layoutkey"} = {}
             PROVE  Spec => []NoCrash
  OBVIOUS
<1>1. Inv(wm) => NoCrash
  BY DEF Inv, Sound, Unhurt, Sure, NoCrash
<1> QED  BY <1>1, Invariant, PTL

-----------------------------------------------------------------------------
(* Steps.                                                                  *)

\* A set of tags that has one member, which popcount counts.
LEMMA OneMember ==
    ASSUME NEW g \in SUBSET Tag, Cardinality(g) = 1
    PROVE  \E a \in Tag : g = {a}
<1>1. IsFiniteSet(g)
  <2>1. 0 \in Int /\ NTags - 1 \in Int
    BY NTagsAssumption
  <2>2. IsFiniteSet(Tag)
    BY <2>1, FS_Interval DEF Tag
  <2> QED  BY <2>2, FS_Subset
<1>2. PICK a : g = {a}
  BY <1>1, FS_Singleton
<1> QED  BY <1>2

\* A client shows the tag of the new view if it showed the one of the old.
LEMMA SwappedShows ==
    ASSUME NEW a, NEW b, a # b, NEW old, old # {},
           {a, b} \subseteq old => old = {a, b},
           NEW new, new = Swapped({a}, {b}, old)
    PROVE  b \in new <=> a \in old
<1> DEFINE x == ToggleSet(old, ToggleSet({a}, {b}))
<1>1. ToggleSet({a}, {b}) = {a, b}
  BY DEF ToggleSet
<1>2. x = (old \ {a, b}) \cup ({a, b} \ old)
  BY <1>1 DEF ToggleSet
<1> HIDE DEF x
<1>3. new = IF old \cap {a, b} = {} THEN old ELSE IF x = {} THEN {b} ELSE x
  <2>1. {b} \cup {a} = {a, b}
    OBVIOUS
  <2> QED  BY <2>1 DEF Swapped, x
<1>4. CASE a \in old /\ b \in old
  <2>1. x = {}
    BY <1>2, <1>4
  <2> QED  BY <1>3, <1>4, <2>1
<1>5. CASE a \in old /\ b \notin old
  <2>1. b \in x
    BY <1>2, <1>5
  <2> QED  BY <1>3, <1>5, <2>1
<1>6. CASE a \notin old /\ b \in old
  <2>1. a \in x /\ b \notin x
    BY <1>2, <1>6
  <2> QED  BY <1>3, <1>6, <2>1
<1>7. CASE a \notin old /\ b \notin old
  BY <1>3, <1>7
<1> QED  BY <1>4, <1>5, <1>6, <1>7

\* A client of the selected monitor is visible by its tags or as sticky.
LEMMA OwnVisible ==
    ASSUME NEW s, NEW m, NEW c \in Client, s.mon[c] = m
    PROVE  c \in Visible(s) <=> s.tags[c] \cap TagSet(s, m) # {} \/ c \in s.sticky
BY DEF Visible, IsVisible

LEMMA SwapTagShows ==
    ASSUME NEW s, Sound(s), "netwmdesktop" \notin Bound, NEW b \in Tag,
           NEW t, t = SwapTag(s, {b}),
           NEW c \in Range(s.clients[s.selmon]),
           TagSet(s, s.selmon) \cup {b} \subseteq s.tags[c]
               => s.tags[c] = TagSet(s, s.selmon) \cup {b}
    PROVE  c \in Visible(t) <=> c \in Visible(s)
<1> DEFINE m == s.selmon
<1>1. s \in State /\ ListsSound(s) /\ m \in Mon
  BY SelLive DEF Sound
<1>2. c \in Client /\ c \in s.live /\ s.mon[c] = m
  BY <1>1, ClientsLive
<1>3. s.tags[c] # {}
  BY <1>2 DEF Sound, Flagged
<1>4. CASE t = s
  BY <1>4
<1>5. CASE \E r : SwapsTag(s, {b}, r) /\ t = Focus(r, NULL)
  <2>1. PICK r : SwapsTag(s, {b}, r) /\ t = Focus(r, NULL)
    BY <1>5
  <2>2. PICK a \in Tag : TagSet(s, m) = {a}
    <3>1. TagSet(s, m) \in SUBSET Tag
      BY <1>1, TagSetIs
    <3> QED  BY <2>1, <3>1, OneMember DEF SwapsTag
  <2>3. a # b /\ r.tags[c] = Swapped({a}, {b}, s.tags[c])
    BY <2>1, <2>2 DEF SwapsTag
  <2>4. {a, b} \subseteq s.tags[c] => s.tags[c] = {a, b}
    <3>1. TagSet(s, m) \cup {b} = {a, b}
      BY <2>2
    <3> QED  BY <3>1
  <2>5. b \in r.tags[c] <=> a \in s.tags[c]
    <3> DEFINE old == s.tags[c]
               new == r.tags[c]
    <3>1. old # {} /\ ({a, b} \subseteq old => old = {a, b}) /\ new = Swapped({a}, {b}, old)
      BY <1>3, <2>3, <2>4
    <3> HIDE DEF old, new
    <3>2. b \in new <=> a \in old
      BY <2>3, <3>1, SwappedShows
    <3> QED  BY <3>2 DEF old, new
  <2>6. ListsSound(r) /\ r.mon = s.mon /\ r.sticky = s.sticky /\ TagSet(r, m) = {b}
    BY <2>1 DEF SwapsTag, Keeps, Sound, SameLists
  <2>7. SameTags(r, t) /\ t.mon = r.mon
    BY <2>1, <2>6, FocusSound DEF Refocuses
  <2>8. Visible(t) = Visible(r)
    BY <2>7, VisibleSame
  <2>9. c \in Visible(r) <=> b \in r.tags[c] \/ c \in s.sticky
    <3>1. c \in Visible(r) <=> r.tags[c] \cap TagSet(r, m) # {} \/ c \in r.sticky
      BY <1>2, <2>6, OwnVisible
    <3> QED  BY <2>6, <3>1
  <2>10. c \in Visible(s) <=> a \in s.tags[c] \/ c \in s.sticky
    <3>1. c \in Visible(s) <=> s.tags[c] \cap TagSet(s, m) # {} \/ c \in s.sticky
      BY <1>2, OwnVisible
    <3> QED  BY <2>2, <3>1
  <2> QED  BY <2>5, <2>8, <2>9, <2>10
<1>6. {b} \in SUBSET Tag /\ {b} # {}
  OBVIOUS
<1> QED  BY <1>4, <1>5, <1>6, SwapTagDoes

\* swaptag exchanges the tag in view with another one: a dwm whose clients
\* all have a tag keeps the same clients in view, but for those that carry
\* both tags and a third.
THEOREM ViewSwapsWhole == "netwmdesktop" \notin Bound => (Spec => SwapKeepsView)
<1> SUFFICES ASSUME "netwmdesktop" \notin Bound
             PROVE  Spec => SwapKeepsView
  OBVIOUS
<1>1. Inv(wm) => [SwapStep]_vars
  <2> SUFFICES ASSUME Inv(wm), NEW t \in OneTag, swaptag(t)
               PROVE  LET cur == TagSet(wm, wm.selmon)
                          q == {c \in Range(wm.clients[wm.selmon]) :
                                cur \cup t \subseteq wm.tags[c] => wm.tags[c] = cur \cup t}
                      IN  q \cap Visible(wm') = q \cap Visible(wm)
    BY DEF SwapStep
  <2>1. PICK b \in Tag : t = {b}
    BY DEF OneTag
  <2>2. Sound(wm) /\ wm' = SwapTag(wm, {b})
    BY <2>1 DEF Inv, swaptag
  <2> QED  BY <2>1, <2>2, SwapTagShows
<1> QED  BY <1>1, Invariant, PTL DEF SwapKeepsView

\* The next view that shiftviewclients finds shows a client of the list.
LEMMA ViewShows ==
    ASSUME NEW s, Sound(s), NEW g \in SUBSET Tag, NEW t, t = View(s, g),
           NEW c \in Range(s.clients[s.selmon]), s.tags[c] \cap g # {}
    PROVE  c \in Visible(t)
<1> DEFINE m == s.selmon
<1>1. s \in State /\ ListsSound(s) /\ m \in Mon
  BY SelLive DEF Sound
<1>2. c \in Client /\ s.mon[c] = m
  BY <1>1, ClientsLive
<1>3. g # {}
  OBVIOUS
<1>4. t.mon = s.mon /\ t.tags = s.tags /\ TagSet(t, m) = g
  BY <1>3, ViewSound
<1> QED  BY <1>2, <1>4, OwnVisible

\* As long as no pager gives a client tags that are outside TAGMASK, or none,
\* shiftviewclients stops only where it shows a client of the list.
THEOREM ShiftsToClients == "netwmdesktop" \notin Bound => (Spec => ShiftShows)
<1> SUFFICES ASSUME "netwmdesktop" \notin Bound
             PROVE  Spec => ShiftShows
  OBVIOUS
<1>1. Inv(wm) => [ShiftStep]_vars
  <2> DEFINE q == Range(wm.clients[wm.selmon])
             mask == UNION {wm.tags[c] : c \in q}
             cur == TagSet(wm, wm.selmon)
  <2> SUFFICES ASSUME Inv(wm), NEW dir \in Dir, shiftviewclients(dir), q # {}
               PROVE  q \cap Visible(wm') # {}
    BY DEF ShiftStep
  <2>1. Sound(wm) /\ ListsSound(wm) /\ wm.selmon \in Mon
    BY SelLive DEF Inv, Sound
  <2>2. \A c \in q : wm.tags[c] # {} /\ wm.tags[c] \subseteq Tag
    BY <2>1, ClientsLive DEF Sound, Flagged
  <2>3. mask # {} /\ NTags \notin mask
    BY <2>2, NTagsAssumption DEF Tag
  <2>4. PICK n \in 1..NTags :
            /\ (mask = {} \/ Rotated(cur, dir * n) \cap mask # {}) \/ NTags \in mask
            /\ wm' = View(wm, Rotated(cur, dir * n))
    BY DEF shiftviewclients
  <2>5. PICK c \in q : wm.tags[c] \cap Rotated(cur, dir * n) # {}
    BY <2>3, <2>4
  <2>6. Rotated(cur, dir * n) \in SUBSET Tag
    BY RotatedIn
  <2>7. c \in Visible(wm')
    BY <2>1, <2>4, <2>5, <2>6, ViewShows
  <2> QED  BY <2>7
<1> QED  BY <1>1, Invariant, PTL DEF ShiftShows

\* The focus history is kept by every step that does not mean to reorder it:
\* of the clients of a monitor that dwm shows and hides together, none passes
\* another in the stack but the one that is selected in the end.  It takes a
\* handler with two focus in it to break this, such as tag and the view that
\* follows it: what the first one raised would stay above its like.
THEOREM HistoryAlwaysKept == Spec => HistoryKept
<1>1. ASSUME OrderKept(wm, wm')
      PROVE  HistoryStep
  BY <1>1 DEF OrderKept, Alikes, HistoryStep, Alike
<1>2. Inv(wm) /\ [Next]_vars => [HistoryStep]_vars
  BY <1>1, NextInv DEF HistoryStep
<1> QED  BY <1>2, Invariant, PTL DEF HistoryKept, Spec

\* The first tiled client of the selected monitor stays the first when manage
\* hangs c into a list: c floats, or is tiled with the view and comes after
\* the k-th of those that are tiled.
LEMMA ManageAside ==
    ASSUME AttachMode = 2, NEW s, ListsSound(s), NEW c \in Client, NEW k \in Nat,
           NEW m, NEW g, NEW hints, NEW u, NEW t,
           Enters(s, u, c, m, g, hints), Entered(u, t, c, k),
           \/ hints \cap {"float", "full"} # {}
           \/ /\ m = s.selmon /\ g = TagSet(s, s.selmon)
              /\ k \in 1..Len(Keep(s.clients[s.selmon], Tiled(s)))
    PROVE  FirstTiled(t, t.clients[s.selmon]) = FirstTiled(s, s.clients[s.selmon])
<1> DEFINE n == s.selmon
           q == s.clients[n]
           S == Tiled(s)
           R == Tiled(t)
           r == AttachX(u, c, k)
<1>1. /\ s \in State /\ u \in State /\ n \in Mon /\ ListsSound(u) /\ Unlisted(u, c)
      /\ u.clients = s.clients
  BY StateFields DEF ListsSound, Enters
<1>2. ASSUME NEW d \in Range(q)
      PROVE  /\ d \in Client /\ d # c /\ s.mon[d] = n
             /\ d \in s.floating <=> d \in u.floating
             /\ s.tags[d] = u.tags[d]
             /\ d \in s.sticky <=> d \in u.sticky
             /\ d \in R <=> d \in S
  <2>1. d \in Client /\ s.mon[d] = n
    BY <1>1, <1>2, ClientsLive
  <2>2. d # c
    BY <1>1, <1>2, SoundLists DEF Unlisted
  <2>3. /\ u.mon[d] = s.mon[d] /\ u.tags[d] = s.tags[d]
        /\ d \in u.floating <=> d \in s.floating
        /\ d \in u.sticky <=> d \in s.sticky
        /\ u.tagset = s.tagset /\ u.seltags = s.seltags
    BY SMTT(30), <2>1, <2>2 DEF Enters
  <2>4. IsVisible(t, d) <=> IsVisible(s, d)
    BY <2>3 DEF Entered, SameTags, IsVisible, TagSet
  <2>5. d \in R <=> d \in S
    BY <2>1, <2>3, <2>4 DEF Entered, Tiled, Visible
  <2> QED  BY <2>1, <2>2, <2>3, <2>5
<1>3. CASE c \notin R
  <2>1. \A d \in Range(u.clients[n]) : d \in R <=> d \in S
    BY <1>1, <1>2
  <2>2. r = AttachX(u, c, k) /\ u \in State /\ n \in Mon
    BY <1>1
  <2> HIDE DEF R, S, n, r
  <2>3. FirstOr(r.clients[n], R, NULL) = FirstOr(u.clients[n], S, NULL)
    BY <1>3, <2>1, <2>2, AttachXAside
  <2> QED  BY <1>1, <2>3 DEF Entered, FirstTiled, R, S, n, r
<1>4. CASE c \in R
  <2>1. c \notin t.floating
    BY <1>4 DEF Tiled
  <2>2. hints \cap {"float", "full"} = {}
    BY <2>1 DEF Enters, Entered
  <2>3. u.tags[c] = TagSet(s, n) /\ k \in 1..Len(Keep(u.clients[n], S))
    BY <1>1, <2>2 DEF Enters
  <2>4. ASSUME NEW d \in Range(u.clients[n])
        PROVE  d \in S <=> /\ d \notin u.floating
                           /\ \/ u.tags[d] \cap u.tags[c] # {}
                              \/ d \in u.sticky
    <3>1. d \in Range(q)
      BY <1>1
    <3>2. /\ d \in Client /\ s.mon[d] = n /\ (d \in s.floating <=> d \in u.floating)
          /\ s.tags[d] = u.tags[d] /\ (d \in s.sticky <=> d \in u.sticky)
      BY <1>2, <3>1
    <3> QED  BY <2>3, <3>2 DEF Tiled, Visible, IsVisible
  <2>5. \A d \in Range(u.clients[n]) : d \in R <=> d \in S
    BY <1>1, <1>2
  <2>6. r = AttachX(u, c, k) /\ u \in State /\ n \in Mon
    BY <1>1
  <2> HIDE DEF R, S, n, r
  <2>7. \A d \in Range(u.clients[n]) :
            d \in S <=> /\ d \notin u.floating
                        /\ \/ u.tags[d] \cap u.tags[c] # {}
                           \/ d \in u.sticky
    BY <2>4
  <2>8. FirstOr(r.clients[n], R, NULL) = FirstOr(u.clients[n], S, NULL)
    BY <2>3, <2>5, <2>6, <2>7, AttachXAside
  <2> QED  BY <1>1, <2>8 DEF Entered, FirstTiled, R, S, n, r
<1> QED  BY <1>3, <1>4

\* "aside": where no rule gives a window tags of its own, a new window does
\* not become the master of a view that has nmaster clients tiled.  (A rule's
\* tags are counted where the view should be: attachx takes the new client's
\* tags for it.)
THEOREM AsideAlwaysKeepsMaster ==
    AttachMode = 2 /\ RuleTags = {} => (Spec => AsideKeepsMaster)
<1> SUFFICES ASSUME AttachMode = 2, RuleTags = {}
             PROVE  Spec => AsideKeepsMaster
  OBVIOUS
<1>1. ASSUME Inv(wm), NEW c \in Client, maprequest(c),
             \A i \in NMaster : i \in 1..Len(Keep(wm.clients[wm.selmon], Tiled(wm)))
      PROVE  FirstTiled(wm', wm'.clients[wm.selmon])
                 = FirstTiled(wm, wm.clients[wm.selmon])
  <2>1. Sound(wm) /\ ListsSound(wm) /\ wm \in State /\ wm.selmon \in Mon
    BY <1>1, StateFields DEF Inv, Sound, ListsSound
  <2>2. PICK k \in NMaster, hints \in SUBSET Hints :
           \/ wm' = Manage(wm, c, wm.selmon, TagSet(wm, wm.selmon), hints, k)
           \/ \E p \in Listed(wm) :
                  wm' = Manage(wm, c, wm.mon[p], wm.tags[p],
                               IF "full" \in hints THEN hints \ {"float"}
                               ELSE hints \cup {"float"}, k)
    BY <1>1 DEF maprequest
  <2>3. /\ k \in Nat /\ c \notin wm.live
        /\ k \in 1..Len(Keep(wm.clients[wm.selmon], Tiled(wm)))
    BY <1>1, <2>2, NMasterAssumption DEF maprequest
  <2>4. CASE wm' = Manage(wm, c, wm.selmon, TagSet(wm, wm.selmon), hints, k)
    <3> DEFINE g == TagSet(wm, wm.selmon)
    <3>1. g \in SUBSET Tag /\ g # {}
      BY <2>1, TagSetIs DEF Sound, Flagged, TagSet
    <3>2. g \in SUBSET Bit
      BY <3>1, TagInBit
    <3>3. Present(wm, wm.selmon)
      BY <2>1 DEF Sound, Home, Rooted
    <3>4. PICK u : Enters(wm, u, c, wm.selmon, g, hints) /\ Entered(u, wm', c, k)
      <4> HIDE DEF g
      <4>1. wm' = Manage(wm, c, wm.selmon, g, hints, k)
        BY <2>4 DEF g
      <4> QED  BY <2>1, <2>3, <3>1, <3>2, <3>3, <4>1, ManageSound
    <3> QED  BY <2>1, <2>3, <3>4, ManageAside
  <2>5. CASE \E p \in Listed(wm) :
                 wm' = Manage(wm, c, wm.mon[p], wm.tags[p],
                              IF "full" \in hints THEN hints \ {"float"}
                              ELSE hints \cup {"float"}, k)
    <3> DEFINE h == IF "full" \in hints THEN hints \ {"float"} ELSE hints \cup {"float"}
    <3>1. PICK p \in Listed(wm) : wm' = Manage(wm, c, wm.mon[p], wm.tags[p], h, k)
      BY <2>5
    <3>2. p \in Client /\ p \in wm.live /\ wm.mon[p] \in Mon /\ Present(wm, wm.mon[p])
      BY <2>1, ListedLive DEF Present
    <3>3. wm.tags[p] \in SUBSET Bit
      BY <2>1, <3>2 DEF State
    <3>4. "netwmdesktop" \in Bound \/ (wm.tags[p] # {} /\ wm.tags[p] \subseteq Tag)
      BY <2>1, <3>2 DEF Sound, Flagged
    <3>5. h \cap {"float", "full"} # {}
      OBVIOUS
    <3> DEFINE m == wm.mon[p]
               g == wm.tags[p]
    <3> HIDE DEF h, m, g
    <3>6. PICK u : Enters(wm, u, c, m, g, h) /\ Entered(u, wm', c, k)
      BY <2>1, <2>3, <3>1, <3>2, <3>3, <3>4, ManageSound DEF m, g
    <3> QED  BY <2>1, <2>3, <3>5, <3>6, ManageAside
  <2> QED  BY <2>2, <2>4, <2>5
<1>2. ASSUME Inv(wm)
      PROVE  AsideStep
  BY <1>1, <1>2 DEF AsideStep
<1>3. Inv(wm) /\ [Next]_vars => [AsideStep]_vars
  BY <1>2
<1> QED  BY <1>3, Invariant, PTL DEF AsideKeepsMaster, Spec

\* The clients focusstack goes round: those of the list q that are in V.
Turning(s, q, V) ==
    /\ ListsSound(s) /\ s.full = {}
    /\ s.clients[s.selmon] = q /\ Visible(s) = V

\* One turn of the key takes the focus to the next of them, or to the one
\* before, and changes nothing that the next turn depends on.
LEMMA FocusStackTurns ==
    ASSUME NEW q, NEW V, NEW s, Turning(s, q, V), NEW r, r = Keep(q, V),
           NEW k \in 1..Len(r), Sel(s) = r[k], NEW dir \in Dir,
           NEW j, j = IF dir > 0 THEN Following(Len(r), k) ELSE Preceding(Len(r), k)
    PROVE  Turning(FocusStack(s, dir), q, V) /\ Sel(FocusStack(s, dir)) = r[j]
<1> DEFINE sel == Sel(s)
           next == IF dir > 0 THEN FirstOr(Behind(q, sel) \o q, V, NULL)
                   ELSE LastOr(Cons(sel, Behind(q, sel)) \o InFront(q, sel), V, NULL)
           t == FocusStack(s, dir)
<1>1. /\ ListsSound(s) /\ s.full = {} /\ s.selmon \in Mon /\ q = s.clients[s.selmon]
      /\ Visible(s) = V
  BY StateFields DEF Turning, ListsSound
<1>2. q \in Distinct(Client)
  BY <1>1, SoundLists
<1>3. r \in Distinct(Client) /\ Range(r) = Range(q) \cap V
  BY <1>2, KeepDistinct
<1>4. r \in Seq(Client)
  BY <1>3 DEF Distinct
<1>6. j \in 1..Len(r) /\ Len(r) \in Nat
  <2>1. Len(r) \in Nat
    BY <1>4, RangeIs
  <2> QED  BY <2>1, RoundIs
<1>7. next = r[j]
  <2>a. sel = r[k]
    OBVIOUS
  <2> HIDE DEF sel
  <2>1. /\ FirstOr(Behind(q, sel) \o q, V, NULL) = r[Following(Len(r), k)]
        /\ LastOr(Cons(sel, Behind(q, sel)) \o InFront(q, sel), V, NULL)
               = r[Preceding(Len(r), k)]
    BY <1>2, <2>a, RingNext
  <2> QED  BY <2>1
<1>8. /\ next \in Range(q) /\ next \in V /\ next \in Client
      /\ sel \in Range(q) /\ sel \in Client
  <2>1. r[j] \in Range(r) /\ r[k] \in Range(r)
    BY <1>4, <1>6, RangeIs
  <2>2. r[j] \in Client /\ r[k] \in Client
    BY <1>4, <1>6, ElementOfSeq
  <2> HIDE DEF next
  <2> QED  BY <1>3, <1>7, <2>1, <2>2
<1>9. t = Focus(s, next)
  <2>1. /\ t = IF sel = NULL \/ sel \in s.full THEN s
               ELSE IF dir < 0 /\ sel \notin Range(q) THEN Crash(s)
               ELSE IF next = NULL THEN s ELSE Focus(s, next)
    BY <1>1 DEF FocusStack
  <2> HIDE DEF t, next, sel
  <2> QED  BY <1>1, <1>8, <2>1, NullAssumption
<1> HIDE DEF next, t, sel
<1>10. next \in s.live /\ s.mon[next] = s.selmon /\ next # NULL
  <2> DEFINE m == s.selmon
  <2>1. m \in Mon /\ q = s.clients[m]
    BY <1>1
  <2> HIDE DEF m
  <2>2. /\ Range(s.clients[m]) \subseteq Range(s.stack[m])
        /\ \A c \in Range(s.stack[m]) : c \in Client /\ c \in s.live /\ s.mon[c] = m
    BY <1>1, <2>1, SoundLists
  <2> QED  BY <1>8, <2>1, <2>2, NullAssumption DEF m
<1>11. /\ Refocuses(s, t)
       /\ t.selmon = s.selmon \/ (next # NULL /\ t.selmon = s.mon[next])
       /\ next # NULL /\ next \in Visible(s) => Sel(t) = next
  BY <1>1, <1>9, <1>10, FocusSound
<1>12. t.selmon = s.selmon /\ Sel(t) = next
  BY <1>1, <1>8, <1>10, <1>11
<1>13. /\ ListsSound(t) /\ t.full = {} /\ t.clients = s.clients
       /\ SameTags(s, t) /\ t.mon = s.mon
  BY <1>1, <1>11 DEF Refocuses
<1>14. Visible(t) = V
  BY <1>1, <1>13, VisibleSame
<1>15. Turning(t, q, V)
  BY <1>1, <1>12, <1>13, <1>14 DEF Turning
<1> QED  BY <1>7, <1>12, <1>15 DEF t

\* What the state is after so many turns of the key, as a function: it
\* exists.
LEMMA TurnsDefined ==
    ASSUME NEW s, NEW n \in Nat, NEW f,
           f = CHOOSE g : g = [i \in 0..n |-> IF i = 0 THEN s ELSE FocusStack(g[i - 1], 1)]
    PROVE  f = [i \in 0..n |-> IF i = 0 THEN s ELSE FocusStack(f[i - 1], 1)]
<1> DEFINE Def(g, k) == g = [i \in 0..k |-> IF i = 0 THEN s ELSE FocusStack(g[i - 1], 1)]
           Bad == {k \in Nat : \A g : ~Def(g, k)}
<1>1. Bad = {}
  <2> SUFFICES ASSUME Bad # {}
               PROVE  FALSE
    OBVIOUS
  <2>1. PICK k \in Bad : \A y \in Bad : k <= y
    <3>1. Bad \subseteq Nat
      OBVIOUS
    <3> HIDE DEF Bad
    <3> QED  BY <3>1, LeastNatural
  <2>2. k \in Nat /\ \A g : ~Def(g, k)
    BY <2>1
  <2>3. CASE k = 0
    <3> DEFINE g == [i \in 0..0 |-> s]
    <3>1. Def(g, 0)
      OBVIOUS
    <3> HIDE DEF g
    <3> QED  BY <2>2, <2>3, <3>1
  <2>4. CASE k # 0
    <3> DEFINE l == k - 1
    <3>1. l \in Nat /\ l \notin Bad
      <4> HIDE DEF Bad
      <4>1. l \in Nat /\ ~(k <= l)
        BY <2>2, <2>4
      <4> QED  BY <2>1, <4>1
    <3>2. PICK g : Def(g, l)
      BY <3>1
    <3> DEFINE h == [i \in 0..k |-> IF i = k THEN FocusStack(g[k - 1], 1) ELSE g[i]]
    <3>3. ASSUME NEW i \in 0..k
          PROVE  h[i] = IF i = 0 THEN s ELSE FocusStack(h[i - 1], 1)
      <4>1. CASE i = k
        <5>1. k - 1 \in 0..k /\ k - 1 # k /\ k # 0
          BY <2>2, <2>4
        <5> QED  BY <4>1, <5>1
      <4>2. CASE i # k
        <5>1. i \in 0..l /\ (i # 0 => i - 1 \in 0..k /\ i - 1 # k)
          BY <2>2, <4>2
        <5>2. g[i] = IF i = 0 THEN s ELSE FocusStack(g[i - 1], 1)
          <6> DEFINE e(x) == IF x = 0 THEN s ELSE FocusStack(g[x - 1], 1)
          <6>1. g = [x \in 0..l |-> e(x)]
            BY <3>2
          <6> HIDE DEF e, l
          <6>2. g[i] = e(i)
            BY <5>1, <6>1
          <6> QED  BY <6>2 DEF e
        <5>3. h[i] = g[i] /\ (i # 0 => h[i - 1] = g[i - 1])
          BY <4>2, <5>1
        <5> QED  BY <5>2, <5>3
      <4> QED  BY <4>1, <4>2
    <3>4. h = [i \in 0..k |-> h[i]]
      OBVIOUS
    <3> HIDE DEF h
    <3>5. Def(h, k)
      BY <3>3, <3>4
    <3> QED  BY <2>2, <3>5
  <2> QED  BY <2>3, <2>4
<1> HIDE DEF Def
<1>2. \E g : Def(g, n)
  BY <1>1
<1> QED  BY <1>2 DEF Def

\* "Focus next window", pressed as often as there are visible clients, gives
\* the focus to each of them once, whatever the tags, the sticky clients and
\* the order of the list; and "Focus previous window" takes it back.
THEOREM FocusAlwaysCycles == Spec => []FocusCycle
<1>1. ASSUME Inv(wm)
      PROVE  FocusCycle
  <2> DEFINE q == wm.clients[wm.selmon]
             V == Visible(wm)
             r == Keep(q, V)
             shown == Range(q) \cap V
             n == Cardinality(shown)
             after == CHOOSE g : g = [i \in 0..n |->
                                         IF i = 0 THEN wm ELSE FocusStack(g[i - 1], 1)]
  <2> SUFFICES ASSUME Sel(wm) \in shown, wm.full = {}
               PROVE  /\ {Sel(after[i]) : i \in 1..n} = shown
                      /\ Sel(FocusStack(FocusStack(wm, 1), -1)) = Sel(wm)
    BY DEF FocusCycle
  <2>1. ListsSound(wm) /\ wm.selmon \in Mon
    BY <1>1, StateFields DEF Inv, Sound, ListsSound
  <2>2. Turning(wm, q, V)
    BY <2>1 DEF Turning
  <2>3. q \in Distinct(Client)
    BY <2>1, SoundLists
  <2>4. r = Keep(q, V)
    OBVIOUS
  <2>5. Sel(wm) \in shown /\ shown = Range(q) \cap V
    OBVIOUS
  <2> HIDE DEF q, V, r
  <2>6. r \in Distinct(Client) /\ Range(r) = shown
    BY <2>3, <2>4, KeepDistinct
  <2>7. r \in Seq(Client) /\ n = Len(r) /\ n \in Nat
    <3>1. r \in Seq(Client)
      BY <2>6 DEF Distinct
    <3>2. Cardinality(Range(r)) = Len(r) /\ Len(r) \in Nat
      BY <2>6, <3>1, DistinctLength, RangeIs
    <3> QED  BY <2>6, <3>1, <3>2
  <2> HIDE DEF shown, n
  <2>8. \A c : c \in shown <=> \E i \in 1..n : r[i] = c
    BY <2>6, <2>7, RangeIs
  <2>9. PICK k \in 1..n : r[k] = Sel(wm)
    BY <2>5, <2>8
  <2>10. after = [i \in 0..n |-> IF i = 0 THEN wm ELSE FocusStack(after[i - 1], 1)]
    BY <2>7, TurnsDefined
  <2> HIDE DEF after
  <2>11. /\ Round(n, k, 0) = k
         /\ \A i \in 0..n : Round(n, k, i) \in 1..n
         /\ \A i \in 1..n : Following(n, Round(n, k, i - 1)) = Round(n, k, i)
         /\ \A j \in 1..n : \E i \in 1..n : Round(n, k, i) = j
    BY ZenonT(40), <2>7, RoundIs
  <2>12. \A s, i, dir : /\ Turning(s, q, V) /\ i \in 1..n /\ Sel(s) = r[i] /\ dir \in Dir
                        => /\ Turning(FocusStack(s, dir), q, V)
                           /\ Sel(FocusStack(s, dir)) =
                                  r[IF dir > 0 THEN Following(n, i) ELSE Preceding(n, i)]
    BY <2>4, <2>7, FocusStackTurns
  <2> DEFINE Goes(i) == Turning(after[i], q, V) /\ Sel(after[i]) = r[Round(n, k, i)]
             Bad == {i \in 0..n : ~Goes(i)}
  <2>13. after[0] = wm /\ \A i \in 1..n : after[i] = FocusStack(after[i - 1], 1)
    <3> DEFINE e(x) == IF x = 0 THEN wm ELSE FocusStack(after[x - 1], 1)
    <3>1. after = [i \in 0..n |-> e(i)]
      BY <2>10
    <3>2. 0 \in 0..n /\ \A i \in 1..n : i \in 0..n /\ i # 0
      BY <2>7
    <3> HIDE DEF e
    <3>3. after[0] = e(0) /\ \A i \in 1..n : after[i] = e(i)
      BY <3>1, <3>2
    <3> QED  BY <3>2, <3>3 DEF e
  <2>14. Bad = {}
    <3> SUFFICES ASSUME Bad # {}
                 PROVE  FALSE
      OBVIOUS
    <3>1. PICK i \in Bad : \A y \in Bad : i <= y
      <4>1. Bad \subseteq Nat
        OBVIOUS
      <4> HIDE DEF Bad
      <4> QED  BY <4>1, LeastNatural
    <3>2. i \in 0..n /\ ~Goes(i)
      BY <3>1
    <3>3. i # 0
      BY <2>2, <2>9, <2>11, <2>13, <3>2
    <3> DEFINE l == i - 1
    <3>4. i \in 1..n /\ l \in 0..n /\ ~(i <= l)
      BY <2>7, <3>2, <3>3
    <3>5. Goes(l)
      BY <3>1, <3>4
    <3>6. 1 \in Dir /\ 1 > 0
      BY DEF Dir
    <3>7. after[i] = FocusStack(after[l], 1) /\ Round(n, k, l) \in 1..n
          /\ Following(n, Round(n, k, l)) = Round(n, k, i)
      BY <2>11, <2>13, <3>4
    <3> HIDE DEF l, Bad
    <3>8. Goes(i)
      BY <2>12, <3>5, <3>6, <3>7
    <3> QED  BY <3>2, <3>8
  <2>15. \A i \in 1..n : Sel(after[i]) = r[Round(n, k, i)] /\ Round(n, k, i) \in 1..n
    <3>1. \A i \in 1..n : i \in 0..n
      BY <2>7
    <3> QED  BY <2>11, <2>14, <3>1
  <2>16. {Sel(after[i]) : i \in 1..n} = shown
    <3>1. ASSUME NEW i \in 1..n
          PROVE  Sel(after[i]) \in shown
      BY <2>8, <2>15
    <3>2. ASSUME NEW c \in shown
          PROVE  \E i \in 1..n : Sel(after[i]) = c
      <4>1. PICK j \in 1..n : r[j] = c
        BY <2>8
      <4>2. PICK i \in 1..n : Round(n, k, i) = j
        BY <2>11
      <4> QED  BY <2>15, <4>1, <4>2
    <3> QED  BY <3>1, <3>2
  <2>17. Sel(FocusStack(FocusStack(wm, 1), -1)) = Sel(wm)
    <3> DEFINE s1 == FocusStack(wm, 1)
               back == -1
               j == Following(n, k)
    <3>1. 1 \in Dir /\ 1 > 0 /\ back \in Dir /\ ~(back > 0)
      BY DEF Dir
    <3>2. j \in 1..n /\ Preceding(n, j) = k
      BY <2>7, RoundIs
    <3>3. Turning(s1, q, V) /\ Sel(s1) = r[j]
      BY <2>2, <2>9, <2>12, <3>1
    <3> HIDE DEF s1, back, j
    <3>4. Sel(FocusStack(s1, back)) = r[Preceding(n, j)]
      BY <2>12, <3>1, <3>2, <3>3
    <3> QED  BY <2>9, <3>2, <3>4 DEF s1, back
  <2> QED  BY <2>16, <2>17
<1> QED  BY <1>1, Invariant, PTL
=============================================================================
