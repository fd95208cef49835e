--------------------------- MODULE DwmStateProofs ---------------------------
(***************************************************************************)
(* What dwm's internal functions do to the state.  ListsSound is the part  *)
(* of the invariant that every function relies on and keeps, also between  *)
(* an unlink and the link that follows it; Sound is the part in which      *)
(* every handler ends.  Each lemma says of one function that it keeps them *)
(* and what else its callers rely on.                                      *)
(***************************************************************************)
EXTENDS DwmProperties, ClientListsProofs

-----------------------------------------------------------------------------
(* The lists.                                                              *)

\* A mark, but that of the last tag, is in the stack of its monitor.
MarksIn(s, m) ==
    \A i \in 1..(NTags - 1) :
        s.tagmarked[m][i] # NULL => s.tagmarked[m][i] \in Range(s.stack[m])

ListsSound(s) == s \in State /\ ListsWF(s) /\ \A m \in Mon : MarksIn(s, m)

\* The same, of one monitor.
MonSound(s, m) ==
    /\ s.clients[m] \in Distinct(Client) /\ s.stack[m] \in Distinct(Client)
    /\ Range(s.clients[m]) \subseteq Range(s.stack[m])
    /\ \A c \in Range(s.stack[m]) : c \in s.live /\ s.mon[c] = m
    /\ s.sel[m] # NULL => s.sel[m] \in Range(s.stack[m])
    /\ MarksIn(s, m)

\* A client that no list holds: what a function that links it expects.
Unlisted(s, c) == \A m \in Mon : c \notin Range(s.stack[m])

\* A client has its place: the list of its monitor, which is there, holds it.
Placed(s, c) == s.mon[c] <= s.nmons /\ c \in Range(s.clients[s.mon[c]])

-----------------------------------------------------------------------------
(* The state as the lemmas use it.                                         *)

\* The fields of a state that the lists are kept in.
LEMMA StateFields ==
    ASSUME NEW s \in State
    PROVE  /\ s.clients \in [Mon -> Seq(Client)] /\ s.stack \in [Mon -> Seq(Client)]
           /\ s.sel \in [Mon -> ClientOrNull] /\ s.mon \in [Client -> Mon]
           /\ s.live \in SUBSET Client /\ s.selmon \in Mon /\ s.nmons \in Mon
           /\ s.tagmarked \in [Mon -> [1..NTags -> ClientOrNull]]
BY DEF State

\* The lists of a sound state.
LEMMA SoundLists ==
    ASSUME NEW s, ListsSound(s), NEW m \in Mon
    PROVE  /\ s.clients[m] \in Distinct(Client) /\ s.stack[m] \in Distinct(Client)
           /\ Range(s.clients[m]) \subseteq Range(s.stack[m])
           /\ \A c \in Range(s.stack[m]) : c \in Client /\ c \in s.live /\ s.mon[c] = m
           /\ s.sel[m] # NULL => s.sel[m] \in Range(s.stack[m])
           /\ MarksIn(s, m)
<1>1. s.clients[m] \in Seq(Client) /\ s.stack[m] \in Seq(Client)
  BY StateFields DEF ListsSound
<1>2. s.live \subseteq Client
  BY StateFields DEF ListsSound
<1> QED  BY <1>1, <1>2 DEF ListsSound, ListsWF, NoCycle, ListInStack, StackOwned, SelInStack, Distinct

\* The converse.
LEMMA ListsAreSound ==
    ASSUME NEW s \in State, \A m \in Mon : MonSound(s, m)
    PROVE  ListsSound(s)
BY DEF ListsSound, ListsWF, NoCycle, ListInStack, StackOwned, SelInStack, Distinct, MonSound

\* Only these fields matter.
LEMMA SameListsSound ==
    ASSUME NEW s, ListsSound(s), NEW t \in State,
           t.clients = s.clients, t.stack = s.stack, t.mon = s.mon,
           t.live = s.live, t.sel = s.sel, t.tagmarked = s.tagmarked
    PROVE  ListsSound(t)
BY SoundLists, ListsAreSound DEF MonSound, MarksIn

(***************************************************************************)
(* What the functions leave alone: the lists, what decides which clients   *)
(* are visible, what shows where the focus is, and -- the functions on the *)
(* lists -- everything but the lists and ok.                               *)
(***************************************************************************)
SameLists(s, t) ==
    /\ t.nmons = s.nmons /\ t.selmon = s.selmon /\ t.mon = s.mon
    /\ t.clients = s.clients /\ t.stack = s.stack /\ t.sel = s.sel
    /\ t.tagmarked = s.tagmarked /\ t.live = s.live /\ t.ok = s.ok
    /\ t.grab = s.grab /\ t.held = s.held
SameTags(s, t) ==
    /\ t.tags = s.tags /\ t.sticky = s.sticky
    /\ t.seltags = s.seltags /\ t.tagset = s.tagset
SameFocus(s, t) ==
    /\ t.xfocus = s.xfocus /\ t.lit = s.lit
    /\ t.neverfocus = s.neverfocus /\ t.focusins = s.focusins
Stays(s, t) ==
    /\ t \in State /\ SameTags(s, t) /\ SameFocus(s, t)
    /\ t.full = s.full /\ t.floating = s.floating
    /\ t.nmons = s.nmons /\ t.selmon = s.selmon /\ t.mon = s.mon
    /\ t.live = s.live /\ t.grab = s.grab /\ t.held = s.held

\* One function after the other.
LEMMA StaysTransitive ==
    ASSUME NEW s, NEW r, NEW t, Stays(s, r), Stays(r, t)
    PROVE  Stays(s, t)
BY DEF Stays, SameTags, SameFocus

\* What is visible does not depend on the lists.
LEMMA VisibleSame ==
    ASSUME NEW s, NEW t, SameTags(s, t), t.mon = s.mon
    PROVE  Visible(t) = Visible(s)
BY DEF SameTags, Visible, IsVisible, TagSet

\* A client that keeps its place in the list of its monitor.
LEMMA PlacedSame ==
    ASSUME NEW s \in State, NEW t, NEW d \in Client, Placed(s, d),
           t.mon[d] = s.mon[d], s.nmons <= t.nmons \/ t.nmons = s.nmons,
           t.nmons \in Mon,
           \A m \in Mon : d \in Range(s.clients[m]) => d \in Range(t.clients[m])
    PROVE  Placed(t, d)
<1>1. s.mon[d] \in Mon /\ s.nmons \in Mon
  BY StateFields
<1>2. s.mon[d] <= t.nmons
  BY <1>1, MaxMonAssumption DEF Placed, Mon
<1> QED  BY <1>1, <1>2 DEF Placed

-----------------------------------------------------------------------------
(* Unlinking.                                                              *)

\* detachstack takes c, and nothing else, out of the stack, and gives its
\* monitor a selected client that is still in it.
LEMMA DetachStackSound ==
    ASSUME NEW s, ListsSound(s), NEW c \in Client,
           NEW t, t = DetachStack(s, c)
    PROVE  /\ Stays(s, t) /\ t.clients = s.clients
           /\ t.tagmarked = s.tagmarked /\ t.ok = s.ok
           /\ \A m \in Mon :
                 /\ t.stack[m] \in Distinct(Client)
                 /\ Range(t.stack[m]) = Range(s.stack[m]) \ {c}
                 /\ t.sel[m] # NULL => t.sel[m] \in Range(t.stack[m])
                 /\ s.sel[m] # c => t.sel[m] = s.sel[m]
<1> DEFINE n == s.mon[c]
           q == Without(s.stack[n], c)
           x == IF s.sel[n] = c THEN FirstOr(q, Visible(s), NULL) ELSE s.sel[n]
<1>1. s \in State /\ n \in Mon
  BY StateFields DEF ListsSound
<1>2. q \in Distinct(Client) /\ Range(q) = Range(s.stack[n]) \ {c}
  BY <1>1, SoundLists, WithoutDistinct
<1>3. q \in Seq(Client) /\ Range(q) \subseteq Client
  BY <1>2, RangeIs DEF Distinct
<1>4. x \in ClientOrNull /\ (x # NULL => x \in Range(q)) /\ (s.sel[n] # c => x = s.sel[n])
  <2>1. FirstOr(q, Visible(s), NULL) \in (Range(q) \cap Visible(s)) \cup {NULL}
    BY <1>3, FirstOrIn
  <2>2. s.sel[n] \in ClientOrNull /\ (s.sel[n] # NULL => s.sel[n] \in Range(s.stack[n]))
    BY <1>1, SoundLists, StateFields
  <2> QED  BY <1>2, <1>3, <2>1, <2>2 DEF ClientOrNull
<1> DEFINE stack == [s.stack EXCEPT ![n] = q]
           sel == [s.sel EXCEPT ![n] = x]
<1>5. t = [s EXCEPT !.clients = s.clients, !.stack = stack, !.sel = sel]
  BY <1>1, StateFields DEF DetachStack, State
<1> HIDE DEF n, q, x
<1>6. stack \in [Mon -> Seq(Client)] /\ sel \in [Mon -> ClientOrNull]
  BY <1>1, <1>3, <1>4, StateFields
<1>7. \A m \in Mon : stack[m] = IF m = n THEN q ELSE s.stack[m]
  BY <1>1, StateFields
<1>8. \A m \in Mon : sel[m] = IF m = n THEN x ELSE s.sel[m]
  BY <1>1, StateFields
<1>9. \A m \in Mon : m # n => c \notin Range(s.stack[m])
  BY SoundLists DEF n
<1> HIDE DEF stack, sel
<1>10. /\ Stays(s, t) /\ t.clients = s.clients /\ t.stack = stack /\ t.sel = sel
       /\ t.tagmarked = s.tagmarked /\ t.ok = s.ok
  <2>1. s.clients \in [Mon -> Seq(Client)]
    BY <1>1, StateFields
  <2> QED  BY ZenonT(40), <1>1, <1>5, <1>6, <2>1 DEF State, Stays, SameTags, SameFocus
<1> QED  BY <1>2, <1>4, <1>7, <1>8, <1>9, <1>10, SoundLists

\* detach takes c out of the list and clears its marks; the stack stays.
LEMMA DetachSound ==
    ASSUME NEW s, ListsSound(s), NEW c \in Client,
           NEW t, t = Detach(s, c)
    PROVE  /\ Stays(s, t) /\ ListsSound(t)
           /\ t.stack = s.stack /\ t.sel = s.sel /\ t.ok = s.ok
           /\ \A m \in Mon : Range(t.clients[m]) = Range(s.clients[m]) \ {c}
           /\ \A m \in Mon, i \in 1..(NTags - 1) : t.tagmarked[m][i] # c
<1> DEFINE n == s.mon[c]
           q == Without(s.clients[n], c)
           clients == [s.clients EXCEPT ![n] = q]
           marks == [i \in 1..NTags |->
                        IF i < NTags /\ s.tagmarked[n][i] = c THEN NULL ELSE s.tagmarked[n][i]]
           tagmarked == [s.tagmarked EXCEPT ![n] = marks]
<1>1. s \in State /\ n \in Mon
  BY StateFields DEF ListsSound
<1>2. q \in Distinct(Client) /\ Range(q) = Range(s.clients[n]) \ {c} /\ q \in Seq(Client)
  <2>1. q \in Distinct(Client) /\ Range(q) = Range(s.clients[n]) \ {c}
    BY <1>1, SoundLists, WithoutDistinct
  <2> QED  BY <2>1 DEF Distinct
<1>3. marks \in [1..NTags -> ClientOrNull]
  <2>1. s.tagmarked[n] \in [1..NTags -> ClientOrNull]
    BY <1>1 DEF State
  <2> QED  BY <2>1 DEF ClientOrNull
<1>4. t = [s EXCEPT !.clients = clients, !.tagmarked = tagmarked]
  BY <1>1 DEF Detach, State
<1>5. \A i \in 1..(NTags - 1) : marks[i] = IF s.tagmarked[n][i] = c THEN NULL
                                           ELSE s.tagmarked[n][i]
  BY NTagsAssumption
<1> HIDE DEF q, marks, n
<1>6. clients \in [Mon -> Seq(Client)]
  BY <1>1, <1>2, StateFields
<1>7. /\ tagmarked \in [Mon -> [1..NTags -> ClientOrNull]]
      /\ \A m \in Mon : tagmarked[m] = IF m = n THEN marks ELSE s.tagmarked[m]
  BY <1>1, <1>3, StateFields
<1>8. \A m \in Mon : clients[m] = IF m = n THEN q ELSE s.clients[m]
  BY <1>1, StateFields
<1> HIDE DEF clients, tagmarked
<1>9. /\ Stays(s, t) /\ t.clients = clients /\ t.stack = s.stack /\ t.sel = s.sel
      /\ t.tagmarked = tagmarked /\ t.ok = s.ok
  BY ZenonT(40), <1>1, <1>4, <1>6, <1>7 DEF State, Stays, SameTags, SameFocus
<1>10. \A m \in Mon : m # n => c \notin Range(s.clients[m]) /\ c \notin Range(s.stack[m])
  BY SoundLists DEF n
<1>11. \A m \in Mon : /\ clients[m] \in Distinct(Client)
                      /\ Range(clients[m]) = Range(s.clients[m]) \ {c}
  BY <1>2, <1>8, <1>10, SoundLists
<1>12. ASSUME NEW m \in Mon, NEW i \in 1..(NTags - 1)
       PROVE  /\ tagmarked[m][i] # c
              /\ tagmarked[m][i] = NULL \/ tagmarked[m][i] = s.tagmarked[m][i]
  <2>1. s.tagmarked[m][i] # NULL => s.tagmarked[m][i] \in Range(s.stack[m])
    BY SoundLists DEF MarksIn
  <2>2. c # NULL
    BY NullAssumption
  <2> QED  BY <1>5, <1>7, <1>10, <2>1, <2>2
<1>13. \A m \in Mon : MonSound(t, m)
  <2> SUFFICES ASSUME NEW m \in Mon
               PROVE  MonSound(t, m)
    OBVIOUS
  <2>1. MarksIn(t, m)
    BY <1>9, <1>12, SoundLists DEF MarksIn
  <2> QED  BY <1>9, <1>11, <2>1, SoundLists DEF MonSound, Stays
<1>14. ListsSound(t)
  BY <1>9, <1>13, ListsAreSound DEF Stays
<1> QED  BY <1>9, <1>11, <1>12, <1>14

\* A client leaves its monitor's lists, and is then in no list.
LEMMA UnlinkSound ==
    ASSUME NEW s, ListsSound(s), NEW c \in Client,
           NEW t, t = Unlink(s, c)
    PROVE  /\ Stays(s, t) /\ ListsSound(t) /\ Unlisted(t, c) /\ t.ok = s.ok
           /\ \A m \in Mon : /\ Range(t.stack[m]) = Range(s.stack[m]) \ {c}
                             /\ Range(t.clients[m]) = Range(s.clients[m]) \ {c}
                             /\ s.sel[m] # c => t.sel[m] = s.sel[m]
           /\ \A d \in Client : d # c /\ Placed(s, d) => Placed(t, d)
<1> DEFINE r == Detach(s, c)
<1>1. /\ Stays(s, r) /\ ListsSound(r) /\ r.stack = s.stack /\ r.sel = s.sel /\ r.ok = s.ok
      /\ \A m \in Mon : Range(r.clients[m]) = Range(s.clients[m]) \ {c}
      /\ \A m \in Mon, i \in 1..(NTags - 1) : r.tagmarked[m][i] # c
  BY DetachSound
<1>2. t = DetachStack(r, c)
  BY DEF Unlink
<1> HIDE DEF r
<1>3. /\ Stays(r, t) /\ t.clients = r.clients /\ t.tagmarked = r.tagmarked /\ t.ok = r.ok
      /\ \A m \in Mon :
            /\ t.stack[m] \in Distinct(Client)
            /\ Range(t.stack[m]) = Range(r.stack[m]) \ {c}
            /\ t.sel[m] # NULL => t.sel[m] \in Range(t.stack[m])
            /\ r.sel[m] # c => t.sel[m] = r.sel[m]
  BY <1>1, <1>2, DetachStackSound
<1>4. Stays(s, t)
  BY <1>1, <1>3, StaysTransitive
<1>5. \A m \in Mon : MonSound(t, m)
  <2> SUFFICES ASSUME NEW m \in Mon
               PROVE  MonSound(t, m)
    OBVIOUS
  <2>1. t.live = r.live /\ t.mon = r.mon
    BY <1>3 DEF Stays
  <2>2. /\ r.clients[m] \in Distinct(Client)
        /\ \A d \in Range(r.stack[m]) : d \in r.live /\ r.mon[d] = m
        /\ Range(r.clients[m]) \subseteq Range(r.stack[m]) /\ MarksIn(r, m)
    BY <1>1, SoundLists
  <2>3. c \notin Range(r.clients[m])
    BY <1>1
  <2>4. MarksIn(t, m)
    BY <1>1, <1>3, <2>2 DEF MarksIn
  <2> QED  BY <1>3, <2>1, <2>2, <2>3, <2>4 DEF MonSound
<1>6. ListsSound(t)
  BY <1>4, <1>5, ListsAreSound DEF Stays
<1>7. ASSUME NEW d \in Client, d # c, Placed(s, d)
      PROVE  Placed(t, d)
  <2>1. s.mon[d] \in Mon
    BY StateFields DEF ListsSound
  <2> QED  BY <1>1, <1>3, <1>4, <1>7, <2>1 DEF Placed, Stays
<1> QED  BY <1>1, <1>3, <1>4, <1>6, <1>7 DEF Unlisted

-----------------------------------------------------------------------------
(* Linking.                                                                *)

\* The lists while c is on its way into them: sound, but for c, which no
\* stack holds and the list and the marks of its monitor may hold already.
Entering(s, c) ==
    /\ s \in State /\ c \in Client /\ c \in s.live
    /\ \A m \in Mon :
        /\ s.clients[m] \in Distinct(Client) /\ s.stack[m] \in Distinct(Client)
        /\ c \notin Range(s.stack[m])
        /\ \A d \in Range(s.clients[m]) :
              d \in Range(s.stack[m]) \/ (d = c /\ m = s.mon[c])
        /\ \A d \in Range(s.stack[m]) : d \in s.live /\ s.mon[d] = m
        /\ s.sel[m] # NULL => s.sel[m] \in Range(s.stack[m])
        /\ \A i \in 1..(NTags - 1) :
              s.tagmarked[m][i] # NULL =>
                  \/ s.tagmarked[m][i] \in Range(s.stack[m])
                  \/ s.tagmarked[m][i] = c /\ m = s.mon[c]

\* A client that no stack holds is in no list of clients either.
LEMMA UnlistedEntering ==
    ASSUME NEW s, ListsSound(s), NEW c \in Client, c \in s.live, Unlisted(s, c)
    PROVE  /\ Entering(s, c)
           /\ \A m \in Mon : c \notin Range(s.clients[m])
BY SoundLists DEF Entering, Unlisted, ListsSound, MarksIn

\* attachstack and enqueuestack, wherever they put c in the stack.
LEMMA PutStackSound ==
    ASSUME NEW s \in State, NEW c \in Client, Entering(s, c),
           NEW q \in Distinct(Client), Range(q) = {c} \cup Range(s.stack[s.mon[c]]),
           NEW t, t = [s EXCEPT !.stack[s.mon[c]] = q]
    PROVE  /\ Stays(s, t) /\ ListsSound(t) /\ t.clients = s.clients
           /\ t.sel = s.sel /\ t.tagmarked = s.tagmarked /\ t.ok = s.ok
           /\ t.stack[s.mon[c]] = q
           /\ \A m \in Mon : m # s.mon[c] => t.stack[m] = s.stack[m]
<1> DEFINE n == s.mon[c]
           stack == [s.stack EXCEPT ![n] = q]
<1>1. s \in State /\ c \in Client /\ n \in Mon
  BY StateFields DEF Entering
<1>2. q \in Distinct(Client) /\ Range(q) = {c} \cup Range(s.stack[n]) /\ q \in Seq(Client)
  BY DEF Distinct
<1>3. t = [s EXCEPT !.stack = stack]
  BY <1>1 DEF State
<1>4. stack \in [Mon -> Seq(Client)]
  BY <1>1, <1>2, StateFields
<1>5. \A m \in Mon : stack[m] = IF m = n THEN q ELSE s.stack[m]
  BY <1>1, StateFields
<1> HIDE DEF stack
<1>6. /\ Stays(s, t) /\ t.clients = s.clients /\ t.stack = stack /\ t.sel = s.sel
      /\ t.tagmarked = s.tagmarked /\ t.ok = s.ok
  BY ZenonT(40), <1>1, <1>3, <1>4 DEF State, Stays, SameTags, SameFocus
<1>7. \A m \in Mon : MonSound(t, m)
  <2> SUFFICES ASSUME NEW m \in Mon
               PROVE  MonSound(t, m)
    OBVIOUS
  <2>1. t.live = s.live /\ t.mon = s.mon
    BY <1>6 DEF Stays
  <2>2. /\ s.clients[m] \in Distinct(Client) /\ s.stack[m] \in Distinct(Client)
        /\ \A d \in Range(s.clients[m]) : d \in Range(s.stack[m]) \/ (d = c /\ m = n)
        /\ \A d \in Range(s.stack[m]) : d \in s.live /\ s.mon[d] = m
        /\ s.sel[m] # NULL => s.sel[m] \in Range(s.stack[m])
        /\ \A i \in 1..(NTags - 1) :
              s.tagmarked[m][i] # NULL =>
                  \/ s.tagmarked[m][i] \in Range(s.stack[m])
                  \/ s.tagmarked[m][i] = c /\ m = n
        /\ c \in s.live
    BY DEF Entering
  <2>3. CASE m = n
    <3>1. t.stack[m] = q /\ s.stack[m] = s.stack[n]
      BY <1>1, <1>5, <1>6, <2>3
    <3> QED  BY <1>2, <1>6, <2>1, <2>2, <2>3, <3>1 DEF MonSound, MarksIn
  <2>4. CASE m # n
    BY <1>5, <1>6, <2>1, <2>2, <2>4 DEF MonSound, MarksIn
  <2> QED  BY <2>3, <2>4
<1>8. ListsSound(t)
  BY <1>6, <1>7, ListsAreSound DEF Stays
<1> QED  BY <1>1, <1>5, <1>6, <1>8

\* attachstack puts c on top and makes the lists whole.
LEMMA AttachStackSound ==
    ASSUME NEW s, NEW c, Entering(s, c),
           NEW t, t = AttachStack(s, c)
    PROVE  /\ Stays(s, t) /\ ListsSound(t) /\ t.clients = s.clients
           /\ t.sel = s.sel /\ t.tagmarked = s.tagmarked /\ t.ok = s.ok
           /\ c \in Range(t.stack[s.mon[c]])
           /\ t.stack[s.mon[c]] = Cons(c, s.stack[s.mon[c]])
           /\ \A m \in Mon : Range(s.stack[m]) \subseteq Range(t.stack[m])
<1> DEFINE q == Cons(c, s.stack[s.mon[c]])
<1>1. s \in State /\ c \in Client /\ s.mon[c] \in Mon
  BY StateFields DEF Entering
<1>2. s.stack[s.mon[c]] \in Distinct(Client) /\ c \notin Range(s.stack[s.mon[c]])
  BY <1>1 DEF Entering
<1>3. q \in Distinct(Client) /\ Range(q) = {c} \cup Range(s.stack[s.mon[c]])
  BY <1>1, <1>2, ConsDistinct
<1>4. t = [s EXCEPT !.stack[s.mon[c]] = q]
  BY <1>1 DEF AttachStack, State
<1> HIDE DEF q
<1>5. /\ Stays(s, t) /\ ListsSound(t) /\ t.clients = s.clients
      /\ t.sel = s.sel /\ t.tagmarked = s.tagmarked /\ t.ok = s.ok
      /\ t.stack[s.mon[c]] = q
      /\ \A m \in Mon : m # s.mon[c] => t.stack[m] = s.stack[m]
  <2>1. s \in State /\ c \in Client
    BY <1>1
  <2>2. Stays(s, t) /\ ListsSound(t) /\ t.clients = s.clients
    BY <1>3, <1>4, <2>1, PutStackSound
  <2>3. t.sel = s.sel /\ t.tagmarked = s.tagmarked /\ t.ok = s.ok
    BY <1>3, <1>4, <2>1, PutStackSound
  <2>4. t.stack[s.mon[c]] = q
    BY <1>1, <1>4 DEF State
  <2>5. \A m \in Mon : m # s.mon[c] => t.stack[m] = s.stack[m]
    BY <1>3, <1>4, <2>1, PutStackSound
  <2> QED  BY <2>2, <2>3, <2>4, <2>5
<1>6. \A m \in Mon : Range(s.stack[m]) \subseteq Range(t.stack[m])
  BY <1>3, <1>5
<1> QED  BY <1>3, <1>5, <1>6 DEF q

\* Hanging c into the list of its monitor, by whichever function.
Linked(s, t, c) ==
    /\ Stays(s, t) /\ t.stack = s.stack /\ t.sel = s.sel /\ t.tagmarked = s.tagmarked
    /\ \A m \in Mon :
        /\ t.clients[m] \in Distinct(Client)
        /\ Range(s.clients[m]) \subseteq Range(t.clients[m])
        /\ \A d \in Range(t.clients[m]) :
              d \in Range(s.clients[m]) \/ (d = c /\ m = s.mon[c])
\* It is in the list then, unless dwm has followed a bad pointer.
Hung(s, t, c) == t.ok = s.ok /\ c \in Range(t.clients[s.mon[c]])

\* Any list that holds what it held and c.
LEMMA PutLinked ==
    ASSUME NEW s \in State, NEW c \in Client, NEW q \in Distinct(Client),
           \A m \in Mon : s.clients[m] \in Distinct(Client),
           Range(q) = Range(s.clients[s.mon[c]]) \cup {c},
           NEW t, t = [s EXCEPT !.clients[s.mon[c]] = q]
    PROVE  Linked(s, t, c) /\ Hung(s, t, c)
<1> DEFINE n == s.mon[c]
           clients == [s.clients EXCEPT ![n] = q]
<1>1. n \in Mon /\ q \in Seq(Client)
  BY StateFields DEF Distinct
<1>2. t = [s EXCEPT !.clients = clients]
  BY <1>1 DEF State
<1>3. clients \in [Mon -> Seq(Client)]
  BY <1>1, StateFields
<1>4. \A m \in Mon : clients[m] = IF m = n THEN q ELSE s.clients[m]
  BY <1>1, StateFields
<1> HIDE DEF clients
<1>5. /\ Stays(s, t) /\ t.clients = clients /\ t.stack = s.stack /\ t.sel = s.sel
      /\ t.tagmarked = s.tagmarked /\ t.ok = s.ok
  BY ZenonT(40), <1>2, <1>3 DEF State, Stays, SameTags, SameFocus
<1> QED  BY <1>1, <1>4, <1>5 DEF Linked, Hung

\* attach links c at the head.
LEMMA AttachLinked ==
    ASSUME NEW s \in State, NEW c \in Client,
           \A m \in Mon : s.clients[m] \in Distinct(Client),
           c \notin Range(s.clients[s.mon[c]]),
           NEW t, t = Attach(s, c)
    PROVE  Linked(s, t, c) /\ Hung(s, t, c)
<1> DEFINE q == Cons(c, s.clients[s.mon[c]])
<1>1. q \in Distinct(Client) /\ Range(q) = Range(s.clients[s.mon[c]]) \cup {c}
  BY StateFields, ConsDistinct
<1>2. t = [s EXCEPT !.clients[s.mon[c]] = q]
  BY DEF Attach, State
<1> HIDE DEF q
<1> QED  BY <1>1, <1>2, PutLinked

\* attachx links c at a place in the list.
LEMMA LinkAtLinked ==
    ASSUME NEW s \in State, NEW c \in Client,
           \A m \in Mon : s.clients[m] \in Distinct(Client),
           c \notin Range(s.clients[s.mon[c]]),
           NEW i \in 1..(Len(s.clients[s.mon[c]]) + 1),
           NEW t, t = LinkAt(s, i, c)
    PROVE  Linked(s, t, c) /\ Hung(s, t, c)
<1> DEFINE q == InsertAt(s.clients[s.mon[c]], i, c)
<1>1. q \in Distinct(Client) /\ Range(q) = Range(s.clients[s.mon[c]]) \cup {c}
  BY StateFields, InsertAtDistinct
<1>2. t = [s EXCEPT !.clients[s.mon[c]] = q]
  BY DEF LinkAt, State
<1> HIDE DEF q
<1> QED  BY <1>1, <1>2, PutLinked

\* attachx hangs c in somewhere, whatever the mode.  It stops dwm only when
\* the selected client of the monitor is not in its list.
LEMMA AttachXLinked ==
    ASSUME NEW s \in State, NEW c \in Client,
           \A m \in Mon : s.clients[m] \in Distinct(Client),
           c \notin Range(s.clients[s.mon[c]]),
           NEW k \in Nat, NEW t, t = AttachX(s, c, k)
    PROVE  /\ Linked(s, t, c)
           /\ \/ Hung(s, t, c)
              \/ s.sel[s.mon[c]] # NULL /\ s.sel[s.mon[c]] \notin Range(s.clients[s.mon[c]])
<1> DEFINE q == s.clients[s.mon[c]]
           sel == s.sel[s.mon[c]]
           T == {i \in DOMAIN q : /\ q[i] \notin s.floating
                                  /\ \/ s.tags[q[i]] \cap s.tags[c] # {}
                                     \/ q[i] \in s.sticky}
           at == CHOOSE i \in T : Rank(T, i) = k
           next == Index(q, sel) + (IF AttachMode = 1 THEN 0 ELSE 1)
<1>1. q \in Seq(Client) /\ DOMAIN q = 1..Len(q) /\ Len(q) \in Nat
  BY StateFields, RangeIs
<1>2. CASE t = Attach(s, c)
  BY <1>2, AttachLinked
<1>3. CASE t = Crash(s) /\ sel # NULL /\ sel \notin Range(q)
  <2>1. /\ Stays(s, t) /\ t.stack = s.stack /\ t.sel = s.sel /\ t.clients = s.clients
        /\ t.tagmarked = s.tagmarked
    BY ZenonT(40), <1>3 DEF Crash, State, Stays, SameTags, SameFocus
  <2> QED  BY <1>3, <2>1 DEF Linked
<1>4. CASE \E i \in 1..Len(q) + 1 : t = LinkAt(s, i, c)
  BY <1>4, LinkAtLinked
<1>5. \/ t = Attach(s, c)
      \/ (\E i \in T : Rank(T, i) = k) /\ t = LinkAt(s, at + 1, c)
      \/ t = LinkAt(s, Len(q) + 1, c)
      \/ sel # NULL /\ sel \notin Range(q) /\ t = Crash(s)
      \/ sel \in Range(q) /\ t = LinkAt(s, next, c)
  <2>1. AttachMode \in {0, 1, 2, 3, 4}
    BY AttachModeAssumption
  <2>2. CASE (AttachMode = 1 \/ AttachMode = 3) /\ sel = NULL
    BY ZenonT(40), <2>2 DEF AttachX
  <2>3. CASE ~((AttachMode = 1 \/ AttachMode = 3) /\ sel = NULL)
    BY <2>1, <2>3 DEF AttachX
  <2> QED  BY <2>2, <2>3
<1>6. ASSUME \E i \in T : Rank(T, i) = k
      PROVE  at + 1 \in 1..Len(q) + 1
  <2>1. at \in T
    BY ZenonT(40), <1>6
  <2> HIDE DEF at
  <2>2. at \in 1..Len(q) /\ Len(q) \in Nat
    BY <1>1, <2>1
  <2> HIDE DEF q
  <2> QED  BY <2>2
<1>7. ASSUME sel \in Range(q)
      PROVE  next \in 1..Len(q) + 1
  <2>1. Index(q, sel) \in 1..Len(q)
    BY <1>1, <1>7, IndexIn
  <2> QED  BY SMTT(30), <1>1, <2>1
<1>8. Len(q) + 1 \in 1..Len(q) + 1
  BY <1>1
<1>9. ASSUME Linked(s, t, c), Hung(s, t, c) \/ (sel # NULL /\ sel \notin Range(q))
      PROVE  /\ Linked(s, t, c)
             /\ \/ Hung(s, t, c)
                \/ s.sel[s.mon[c]] # NULL /\ s.sel[s.mon[c]] \notin Range(s.clients[s.mon[c]])
  BY <1>9
<1> HIDE DEF q, sel, T, at, next
<1> QED  BY <1>2, <1>3, <1>4, <1>5, <1>6, <1>7, <1>8, <1>9

\* "aside": the first client of a list stays the first, unless too few of
\* the list are tiled with the new one.  S are the clients that count before,
\* R those that count afterwards.
LEMMA AttachXAside ==
    ASSUME AttachMode = 2, NEW s \in State, NEW c \in Client, NEW k \in Nat,
           NEW t, t = AttachX(s, c, k), NEW m \in Mon, NEW S, NEW R,
           \A d \in Range(s.clients[m]) : d \in R <=> d \in S,
           \/ m # s.mon[c]
           \/ c \notin R
           \/ /\ k \in 1..Len(Keep(s.clients[m], S))
              /\ \A d \in Range(s.clients[m]) :
                    d \in S <=> /\ d \notin s.floating
                                /\ \/ s.tags[d] \cap s.tags[c] # {}
                                   \/ d \in s.sticky
    PROVE  FirstOr(t.clients[m], R, NULL) = FirstOr(s.clients[m], S, NULL)
<1> DEFINE n == s.mon[c]
           q == s.clients[n]
           T == {i \in DOMAIN q : /\ q[i] \notin s.floating
                                  /\ \/ s.tags[q[i]] \cap s.tags[c] # {}
                                     \/ q[i] \in s.sticky}
           at == CHOOSE i \in T : Rank(T, i) = k
           Is(i, r) ==
               /\ i \in 1..(Len(q) + 1) /\ r \in Seq(Client) /\ Inserted(q, r, i, c)
               /\ t.clients = [s.clients EXCEPT ![n] = r]
<1>1. /\ q \in Seq(Client) /\ DOMAIN q = 1..Len(q) /\ Len(q) \in Nat
      /\ \A i \in 1..Len(q) : q[i] \in Range(q)
      /\ n \in Mon /\ s.clients \in [Mon -> Seq(Client)]
  BY StateFields, RangeIs
<1>2. ASSUME \E i \in T : Rank(T, i) = k
      PROVE  at \in T /\ at \in 1..Len(q) /\ q[at] \in Range(q)
  <2>1. at \in T
    BY ZenonT(40), <1>2
  <2> HIDE DEF at
  <2> QED  BY <1>1, <2>1
<1>3. ASSUME t = Attach(s, c)
      PROVE  \E r : Is(1, r)
  <2> DEFINE r == Cons(c, q)
  <2>1. t.clients = [s.clients EXCEPT ![n] = r]
    BY <1>3 DEF Attach, State
  <2>2. r \in Seq(Client) /\ Inserted(q, r, 1, c)
    BY <1>1, ConsInserts
  <2>3. 1 \in 1..(Len(q) + 1)
    BY <1>1
  <2> HIDE DEF r, q, n
  <2> QED  BY <2>1, <2>2, <2>3
<1>4. ASSUME NEW i \in 1..(Len(q) + 1), t = LinkAt(s, i, c)
      PROVE  \E r : Is(i, r)
  <2> DEFINE r == InsertAt(q, i, c)
  <2>1. t.clients = [s.clients EXCEPT ![n] = r]
    BY <1>4 DEF LinkAt, State
  <2>2. r \in Seq(Client) /\ Inserted(q, r, i, c)
    BY SMTT(30), <1>1, InsertAtInserts
  <2> HIDE DEF r, q, n
  <2> QED  BY <2>1, <2>2
<1>5. \/ t = Attach(s, c) /\ (k = 0 \/ ~ \E i \in T : Rank(T, i) = k)
      \/ t = LinkAt(s, at + 1, c) /\ \E i \in T : Rank(T, i) = k
  <2>1. \/ t = Attach(s, c) /\ (k = 0 \/ \A i \in T : Rank(T, i) # k)
        \/ t = LinkAt(s, at + 1, c) /\ ~(k = 0 \/ \A i \in T : Rank(T, i) # k)
    <3>1. AttachMode = 2 /\ AttachMode # 0 /\ AttachMode # 1 /\ AttachMode # 3 /\ AttachMode # 4
      OBVIOUS
    <3>2. CASE k = 0 \/ \A i \in T : Rank(T, i) # k
      BY ZenonT(40), <3>1, <3>2 DEF AttachX
    <3>3. CASE ~(k = 0 \/ \A i \in T : Rank(T, i) # k)
      BY ZenonT(40), <3>1, <3>3 DEF AttachX
    <3> QED  BY <3>2, <3>3
  <2> HIDE DEF T, at
  <2> QED  BY <2>1
<1> HIDE DEF T, at
<1>6. PICK i, r : /\ Is(i, r)
                  /\ k # 0 /\ (\E x \in T : Rank(T, x) = k)
                         => \E x \in 1..(i - 1) : x \in T /\ q[x] \in Range(q)
  <2> HIDE DEF q, n, Is
  <2>1. CASE t = Attach(s, c) /\ (k = 0 \/ ~ \E x \in T : Rank(T, x) = k)
    BY <1>3, <2>1
  <2>2. CASE t = LinkAt(s, at + 1, c) /\ \E x \in T : Rank(T, x) = k
    <3>1. /\ at \in T /\ q[at] \in Range(q)
          /\ at + 1 \in 1..(Len(q) + 1) /\ at \in 1..((at + 1) - 1)
      BY <1>1, <1>2, <2>2
    <3>2. \E r : Is(at + 1, r)
      BY <1>4, <2>2, <3>1
    <3> QED  BY <3>1, <3>2
  <2> QED  BY <1>5, <2>1, <2>2
<1>7. CASE m # n
  <2>1. t.clients[m] = s.clients[m] /\ s.clients[m] \in Seq(Client)
    BY <1>1, <1>6, <1>7
  <2> QED  BY <2>1, FirstOrSame
<1>8. CASE m = n
  <2>1. t.clients[m] = r /\ s.clients[m] = q
    BY <1>1, <1>6, <1>8
  <2>2. \A d \in Range(q) : d \in R <=> d \in S
    BY <1>8
  <2>3. c \notin R \/ \E j \in 1..(i - 1) : q[j] \in S
    <3>1. CASE c \notin R
      BY <3>1
    <3>2. CASE c \in R
      <4> DEFINE I == {j \in DOMAIN q : q[j] \in S}
      <4>1. /\ k \in 1..Len(Keep(q, S))
            /\ \A d \in Range(q) :
                  d \in S <=> /\ d \notin s.floating
                              /\ \/ s.tags[d] \cap s.tags[c] # {}
                                 \/ d \in s.sticky
        BY <1>8, <3>2
      <4>2. I = T
        BY <1>1, <4>1 DEF T
      <4>3. k \in 1..Cardinality(T) /\ k # 0 /\ Len(q) \in Nat
        BY SMTT(30), <1>1, <4>1, <4>2, KeepLength
      <4>4. T \in SUBSET (1..Len(q))
        BY <1>1, <4>2
      <4>5. \E x \in T : Rank(T, x) = k
        <5> DEFINE z == Len(q)
        <5>1. z \in Nat /\ T \in SUBSET (1..z)
          BY <4>3, <4>4
        <5> HIDE DEF z
        <5>2. \A j \in 1..Cardinality(T) : \E x \in T : Rank(T, x) = j
          BY <5>1, RankBijective
        <5> QED  BY <4>3, <5>2
      <4>6. PICK x \in 1..(i - 1) : x \in T
        BY <1>6, <4>3, <4>5
      <4> QED  BY <4>2, <4>6
    <3> QED  BY <3>1, <3>2
  <2> HIDE DEF q
  <2> QED  BY <1>1, <1>6, <2>1, <2>2, <2>3, FirstOrInserted
<1> QED  BY <1>7, <1>8

\* attachstack goes with every attach.
LEMMA LinkedSound ==
    ASSUME NEW s, ListsSound(s), NEW c \in Client, c \in s.live, Unlisted(s, c),
           NEW r, Linked(s, r, c), NEW t, t = AttachStack(r, c)
    PROVE  /\ Stays(s, t) /\ ListsSound(t) /\ t.clients = r.clients
           /\ t.sel = s.sel /\ t.ok = r.ok
           /\ c \in Range(t.stack[s.mon[c]])
           /\ \A d \in Client : Placed(s, d) => Placed(t, d)
<1>1. Stays(s, r) /\ r.stack = s.stack /\ r.sel = s.sel /\ r.tagmarked = s.tagmarked
  BY DEF Linked
<1>2. r \in State /\ r.live = s.live /\ r.mon = s.mon /\ r.nmons = s.nmons
  BY <1>1 DEF Stays
<1>3. Entering(r, c)
  <2> SUFFICES ASSUME NEW m \in Mon
               PROVE  /\ r.clients[m] \in Distinct(Client) /\ r.stack[m] \in Distinct(Client)
                      /\ c \notin Range(r.stack[m])
                      /\ \A d \in Range(r.clients[m]) :
                            d \in Range(r.stack[m]) \/ (d = c /\ m = r.mon[c])
                      /\ \A d \in Range(r.stack[m]) : d \in r.live /\ r.mon[d] = m
                      /\ r.sel[m] # NULL => r.sel[m] \in Range(r.stack[m])
                      /\ MarksIn(r, m)
    BY <1>2 DEF Entering, MarksIn
  <2>1. /\ s.stack[m] \in Distinct(Client)
        /\ Range(s.clients[m]) \subseteq Range(s.stack[m])
        /\ \A d \in Range(s.stack[m]) : d \in s.live /\ s.mon[d] = m
        /\ s.sel[m] # NULL => s.sel[m] \in Range(s.stack[m])
        /\ MarksIn(s, m)
    BY SoundLists
  <2>2. /\ r.clients[m] \in Distinct(Client)
        /\ \A d \in Range(r.clients[m]) :
              d \in Range(s.clients[m]) \/ (d = c /\ m = s.mon[c])
    BY DEF Linked
  <2> QED  BY <1>1, <1>2, <2>1, <2>2 DEF Unlisted, MarksIn
<1>4. /\ Stays(r, t) /\ ListsSound(t) /\ t.clients = r.clients /\ t.sel = r.sel
      /\ t.ok = r.ok /\ c \in Range(t.stack[r.mon[c]])
  BY <1>3, AttachStackSound
<1>5. Stays(s, t)
  BY <1>1, <1>4, StaysTransitive
<1>6. ASSUME NEW d \in Client, Placed(s, d)
      PROVE  Placed(t, d)
  <2>1. s.mon[d] \in Mon
    BY StateFields DEF ListsSound
  <2>2. \A m \in Mon : Range(s.clients[m]) \subseteq Range(r.clients[m])
    BY DEF Linked
  <2> QED  BY <1>4, <1>5, <1>6, <2>1, <2>2 DEF Placed, Stays
<1> QED  BY <1>1, <1>2, <1>4, <1>5, <1>6

\* A client that no list holds enters those of its monitor.  When all the
\* others have their places, it gets one as well.
LEMMA LinkSound ==
    ASSUME NEW s, ListsSound(s), NEW c \in Client, c \in s.live, Unlisted(s, c),
           NEW k \in Nat, NEW t, t = Link(s, c, k)
    PROVE  /\ Stays(s, t) /\ ListsSound(t) /\ t.sel = s.sel
           /\ t.clients = AttachX(s, c, k).clients
           /\ c \in Range(t.stack[s.mon[c]])
           /\ \A d \in Client : Placed(s, d) => Placed(t, d)
           /\ (\A d \in s.live : d # c => Placed(s, d))
                  => t.ok = s.ok /\ (s.mon[c] <= s.nmons => Placed(t, c))
<1>1. s \in State /\ \A m \in Mon : s.clients[m] \in Distinct(Client) /\ c \notin Range(s.clients[m])
  BY SoundLists, UnlistedEntering DEF ListsSound
<1>2. s.mon[c] \in Mon
  BY <1>1, StateFields
<1> DEFINE r == AttachX(s, c, k)
<1>3. /\ Linked(s, r, c)
      /\ \/ Hung(s, r, c)
         \/ s.sel[s.mon[c]] # NULL /\ s.sel[s.mon[c]] \notin Range(s.clients[s.mon[c]])
  BY <1>1, <1>2, AttachXLinked
<1>4. t = AttachStack(r, c)
  BY DEF Link
<1> HIDE DEF r
<1>5. /\ Stays(s, t) /\ ListsSound(t) /\ t.clients = r.clients
      /\ t.sel = s.sel /\ t.ok = r.ok
      /\ c \in Range(t.stack[s.mon[c]])
      /\ \A d \in Client : Placed(s, d) => Placed(t, d)
  BY <1>3, <1>4, LinkedSound
<1>6. ASSUME \A d \in s.live : d # c => Placed(s, d)
      PROVE  t.ok = s.ok /\ (s.mon[c] <= s.nmons => Placed(t, c))
  <2> DEFINE x == s.sel[s.mon[c]]
  <2>1. x # NULL => x \in Range(s.stack[s.mon[c]]) /\ x \in s.live /\ s.mon[x] = s.mon[c]
    BY <1>2, SoundLists
  <2>2. x # NULL => x # c
    BY <1>2, <2>1 DEF Unlisted
  <2>3. x # NULL => x \in Range(s.clients[s.mon[c]])
    BY <1>6, <2>1, <2>2 DEF Placed
  <2>4. Hung(s, r, c)
    BY <1>3, <2>3
  <2> QED  BY <1>5, <2>4 DEF Hung, Placed, Stays
<1> QED  BY <1>5, <1>6 DEF r

\* attach and attachstack, as placemouse calls them.
LEMMA LinkHeadSound ==
    ASSUME NEW s, ListsSound(s), NEW c \in Client, c \in s.live, Unlisted(s, c),
           NEW t, t = LinkHead(s, c)
    PROVE  /\ Stays(s, t) /\ ListsSound(t) /\ t.sel = s.sel /\ t.ok = s.ok
           /\ \A d \in Client : Placed(s, d) => Placed(t, d)
           /\ s.mon[c] <= s.nmons => Placed(t, c)
<1>1. s \in State /\ \A m \in Mon : s.clients[m] \in Distinct(Client) /\ c \notin Range(s.clients[m])
  BY SoundLists, UnlistedEntering DEF ListsSound
<1>2. s.mon[c] \in Mon
  BY <1>1, StateFields
<1> DEFINE r == Attach(s, c)
<1>3. Linked(s, r, c) /\ Hung(s, r, c)
  BY <1>1, <1>2, AttachLinked
<1>4. t = AttachStack(r, c)
  BY DEF LinkHead
<1> HIDE DEF r
<1>5. /\ Stays(s, t) /\ ListsSound(t) /\ t.clients = r.clients
      /\ t.sel = s.sel /\ t.ok = r.ok
      /\ \A d \in Client : Placed(s, d) => Placed(t, d)
  BY <1>3, <1>4, LinkedSound
<1> QED  BY <1>3, <1>5 DEF Hung, Placed, Stays

\* detachstack, attachstack: c becomes the top of its monitor's stack.
LEMMA RaiseSound ==
    ASSUME NEW s, ListsSound(s), NEW c \in Client, c \in s.live,
           NEW t, t = Raise(s, c)
    PROVE  /\ Stays(s, t) /\ ListsSound(t) /\ t.clients = s.clients
           /\ t.tagmarked = s.tagmarked /\ t.ok = s.ok
           /\ c \in Range(t.stack[s.mon[c]])
           /\ \E q \in Seq(Client) : t.stack[s.mon[c]] = Cons(c, q)
           /\ \A m \in Mon : /\ Range(s.stack[m]) \subseteq Range(t.stack[m])
                             /\ s.sel[m] # c => t.sel[m] = s.sel[m]
<1> DEFINE r == DetachStack(s, c)
<1>1. /\ Stays(s, r) /\ r.clients = s.clients /\ r.tagmarked = s.tagmarked /\ r.ok = s.ok
      /\ \A m \in Mon :
            /\ r.stack[m] \in Distinct(Client)
            /\ Range(r.stack[m]) = Range(s.stack[m]) \ {c}
            /\ r.sel[m] # NULL => r.sel[m] \in Range(r.stack[m])
            /\ s.sel[m] # c => r.sel[m] = s.sel[m]
  BY DetachStackSound
<1>2. t = AttachStack(r, c)
  BY DEF Raise
<1> HIDE DEF r
<1>3. r \in State /\ r.live = s.live /\ r.mon = s.mon /\ s.mon[c] \in Mon
  BY <1>1, StateFields DEF Stays
<1>4. \A m \in Mon : c \in Range(s.stack[m]) => m = s.mon[c]
  BY SoundLists
<1>5. Entering(r, c)
  <2> SUFFICES ASSUME NEW m \in Mon
               PROVE  /\ r.clients[m] \in Distinct(Client) /\ r.stack[m] \in Distinct(Client)
                      /\ c \notin Range(r.stack[m])
                      /\ \A d \in Range(r.clients[m]) :
                            d \in Range(r.stack[m]) \/ (d = c /\ m = r.mon[c])
                      /\ \A d \in Range(r.stack[m]) : d \in r.live /\ r.mon[d] = m
                      /\ r.sel[m] # NULL => r.sel[m] \in Range(r.stack[m])
                      /\ \A i \in 1..(NTags - 1) :
                            r.tagmarked[m][i] # NULL =>
                                \/ r.tagmarked[m][i] \in Range(r.stack[m])
                                \/ r.tagmarked[m][i] = c /\ m = r.mon[c]
    BY <1>3 DEF Entering
  <2>1. /\ s.clients[m] \in Distinct(Client)
        /\ Range(s.clients[m]) \subseteq Range(s.stack[m])
        /\ \A d \in Range(s.stack[m]) : d \in s.live /\ s.mon[d] = m
        /\ MarksIn(s, m)
    BY SoundLists
  <2> QED  BY SMTT(30), <1>1, <1>3, <1>4, <2>1 DEF MarksIn
<1>6. /\ Stays(r, t) /\ ListsSound(t) /\ t.clients = r.clients /\ t.sel = r.sel
      /\ t.tagmarked = r.tagmarked /\ t.ok = r.ok
      /\ c \in Range(t.stack[r.mon[c]])
      /\ t.stack[r.mon[c]] = Cons(c, r.stack[r.mon[c]])
      /\ \A m \in Mon : Range(r.stack[m]) \subseteq Range(t.stack[m])
  BY <1>2, <1>5, AttachStackSound
<1>7. r.stack[s.mon[c]] \in Seq(Client)
  BY <1>1, <1>3 DEF Distinct
<1>8. ASSUME NEW m \in Mon
      PROVE  Range(s.stack[m]) \subseteq Range(t.stack[m])
  BY <1>1, <1>3, <1>4, <1>6
<1>9. Stays(s, t)
  BY <1>1, <1>6, StaysTransitive
<1> QED  BY <1>1, <1>3, <1>6, <1>7, <1>8, <1>9

-----------------------------------------------------------------------------
(* The focus.                                                              *)

\* unfocus touches no list.
LEMMA UnfocusSound ==
    ASSUME NEW s, ListsSound(s), NEW c \in ClientOrNull, NEW root,
           NEW t, t = Unfocus(s, c, root)
    PROVE  /\ t \in State /\ ListsSound(t) /\ SameLists(s, t) /\ SameTags(s, t)
           /\ t.full = s.full /\ t.floating = s.floating
           /\ t.lit = s.lit \ {c} /\ t.neverfocus = s.neverfocus
<1>1. s \in State
  BY DEF ListsSound
<1>2. CASE c = NULL
  <2>1. t = s
    BY <1>2 DEF Unfocus
  <2>2. s.lit \ {NULL} = s.lit
    BY <1>1, NullAssumption DEF State
  <2> QED  BY <1>1, <1>2, <2>1, <2>2 DEF SameLists, SameTags
<1>3. CASE c # NULL
  <2> DEFINE x == IF root THEN NULL ELSE s.xfocus
             lit == s.lit \ {c}
  <2>1. x \in ClientOrNull /\ lit \in SUBSET Client
    BY <1>1 DEF State, ClientOrNull
  <2>2. t = [s EXCEPT !.prevclient = c, !.lit = lit, !.xfocus = x]
    BY <1>1, <1>3 DEF Unfocus, State

  <2> HIDE DEF x
  <2>4. t \in State /\ SameLists(s, t) /\ SameTags(s, t)
    <3> HIDE DEF lit
    <3>1. c \in ClientOrNull
      OBVIOUS
    <3>2. t \in State
      BY ZenonT(40), <1>1, <2>1, <2>2, <3>1 DEF State
    <3> QED  BY ZenonT(40), <1>1, <2>2, <3>2 DEF State, SameLists, SameTags
  <2>5. /\ t.full = s.full /\ t.floating = s.floating /\ t.lit = lit
        /\ t.neverfocus = s.neverfocus
    <3> HIDE DEF lit
    <3> QED  BY <1>1, <2>2 DEF State
  <2>6. ListsSound(t)
    BY <2>4, SameListsSound DEF SameLists
  <2> QED  BY <2>4, <2>5, <2>6
<1> QED  BY <1>2, <1>3

\* focus settles on the client it is given, when that one is visible, or on
\* the first visible one of the stack.
LEMMA FocusChoiceIn ==
    ASSUME NEW s, ListsSound(s), NEW a, a # NULL => a \in s.live,
           NEW c, c = FocusChoice(s, a)
    PROVE  /\ c # NULL => /\ c \in Client /\ c \in s.live /\ c \in Visible(s)
                          /\ s.mon[c] = s.selmon \/ c = a
           /\ c = NULL => FirstOr(s.stack[s.selmon], Visible(s), NULL) = NULL
           /\ a # NULL /\ a \in Visible(s) => c = a
<1>1. s \in State /\ s.selmon \in Mon /\ s.live \in SUBSET Client
  BY StateFields DEF ListsSound
<1>2. s.stack[s.selmon] \in Seq(Client)
  BY <1>1, StateFields
<1> DEFINE top == FirstOr(s.stack[s.selmon], Visible(s), NULL)
<1>3. top \in (Range(s.stack[s.selmon]) \cap Visible(s)) \cup {NULL}
  BY <1>2, FirstOrIn
<1>4. \A d \in Range(s.stack[s.selmon]) : d \in Client /\ d \in s.live /\ s.mon[d] = s.selmon
  BY <1>1, SoundLists
<1>5. c = IF a # NULL /\ a \in Visible(s) THEN a ELSE top
  BY DEF FocusChoice
<1> HIDE DEF top
<1> QED  BY <1>1, <1>3, <1>4, <1>5 DEF top

\* What focus changes: the order of the stacks, the selection, what is lit.
Refocuses(s, t) ==
    /\ ListsSound(t) /\ SameTags(s, t)
    /\ t.full = s.full /\ t.floating = s.floating
    /\ t.clients = s.clients /\ t.tagmarked = s.tagmarked
    /\ t.mon = s.mon /\ t.nmons = s.nmons /\ t.live = s.live
    /\ t.ok = s.ok /\ t.grab = s.grab /\ t.held = s.held
    /\ t.neverfocus = s.neverfocus
    /\ \A m \in Mon : Range(s.stack[m]) \subseteq Range(t.stack[m])
\* The selected client is at the head of the focus history.
AtHead(s) ==
    Sel(s) # NULL => \E q \in Seq(Client) : s.stack[s.selmon] = Cons(Sel(s), q)
\* The selected client has the keyboard, unless it declines it.
HasKeyboard(s) == s.xfocus = Sel(s) \/ Sel(s) \in s.neverfocus
\* And what it brings about: the top of the stack has the focus.
Top(s) ==
    /\ HasKeyboard(s) /\ AtHead(s)
    /\ Sel(s) = FirstOr(s.stack[s.selmon], Visible(s), NULL)
    /\ Sel(s) # NULL => Sel(s) \in s.lit

\* The end of focus: c on top of its stack, selected, its monitor too.
LEMMA SetSelSound ==
    ASSUME NEW s, ListsSound(s), NEW c,
           c # NULL => c \in Client /\ c \in s.live /\ c \in Visible(s),
           c = NULL => FirstOr(s.stack[s.selmon], Visible(s), NULL) = NULL,
           NEW t, t = SetSel(s, c)
    PROVE  /\ Refocuses(s, t) /\ Top(t) /\ Sel(t) = c
           /\ t.selmon = IF c = NULL THEN s.selmon ELSE s.mon[c]
           /\ t.lit = s.lit \cup ({c} \ {NULL})
<1>1. s \in State /\ s.selmon \in Mon
  BY StateFields DEF ListsSound
<1>2. CASE c = NULL
  <2> DEFINE sel == [s.sel EXCEPT ![s.selmon] = NULL]
  <2>1. t = [s EXCEPT !.sel = sel, !.xfocus = NULL]
    BY <1>1, <1>2 DEF SetSel, State
  <2>2. /\ sel \in [Mon -> ClientOrNull] /\ sel[s.selmon] = NULL
        /\ \A m \in Mon : sel[m] = NULL \/ sel[m] = s.sel[m]
    BY <1>1, StateFields DEF ClientOrNull
  <2> HIDE DEF sel
  <2>3. /\ t \in State /\ SameTags(s, t) /\ t.full = s.full /\ t.floating = s.floating
        /\ t.clients = s.clients /\ t.tagmarked = s.tagmarked /\ t.stack = s.stack
        /\ t.mon = s.mon /\ t.nmons = s.nmons /\ t.live = s.live
        /\ t.ok = s.ok /\ t.grab = s.grab /\ t.held = s.held
        /\ t.sel = sel /\ t.xfocus = NULL /\ t.lit = s.lit /\ t.selmon = s.selmon
        /\ t.neverfocus = s.neverfocus
    <3>1. NULL \in ClientOrNull
      BY DEF ClientOrNull
    <3>2. t \in State
      BY ZenonT(40), <1>1, <2>1, <2>2, <3>1 DEF State
    <3> QED  BY ZenonT(40), <1>1, <2>1, <3>2 DEF State, SameTags
  <2>4. ListsSound(t)
    <3> SUFFICES ASSUME NEW m \in Mon
                 PROVE  MonSound(t, m)
      BY <2>3, ListsAreSound
    <3> QED  BY <2>2, <2>3, SoundLists DEF MonSound, MarksIn
  <2>5. Sel(t) = NULL
    BY <2>2, <2>3 DEF Sel
  <2>6. Visible(t) = Visible(s)
    BY <2>3, VisibleSame
  <2>7. Top(t)
    BY <1>2, <2>3, <2>5, <2>6 DEF Top, HasKeyboard, AtHead
  <2>8. Refocuses(s, t)
    BY <2>3, <2>4 DEF Refocuses
  <2> QED  BY <1>2, <2>3, <2>5, <2>7, <2>8
<1>3. CASE c # NULL
  <2> DEFINE r == Raise(s, c)
             n == s.mon[c]
             key == Keyboard(s, c)
  <2>1. /\ Stays(s, r) /\ ListsSound(r) /\ c \in Range(r.stack[n]) /\ r.clients = s.clients
        /\ r.tagmarked = s.tagmarked /\ r.ok = s.ok
        /\ \E q \in Seq(Client) : r.stack[n] = Cons(c, q)
        /\ \A m \in Mon : Range(s.stack[m]) \subseteq Range(r.stack[m])
    BY <1>3, RaiseSound
  <2>2. t = [r EXCEPT !.selmon = n, !.sel[n] = c, !.lit = r.lit \cup {c}, !.xfocus = key]
    <3>1. t = [r EXCEPT !.selmon = n, !.sel[n] = c, !.lit = @ \cup {c}, !.xfocus = key]
      BY <1>3 DEF SetSel
    <3>2. r \in State
      BY <2>1 DEF ListsSound
    <3> HIDE DEF r, n, key
    <3> QED  BY <3>1, <3>2 DEF State
  <2>3. n \in Mon
    BY <1>1, <1>3, StateFields
  <2>20. /\ key \in ClientOrNull
         /\ key = c \/ c \in s.neverfocus
    BY <1>1, <1>3 DEF Keyboard, State, ClientOrNull
  <2> HIDE DEF r, n, key
  <2>4. r \in State
    BY <2>1 DEF ListsSound
  <2> DEFINE sel == [r.sel EXCEPT ![n] = c]
             lit == r.lit \cup {c}
  <2>5. t = [r EXCEPT !.selmon = n, !.sel = sel, !.lit = lit, !.xfocus = key]
    BY <2>2, <2>4 DEF State
  <2>6. /\ sel \in [Mon -> ClientOrNull]
        /\ \A m \in Mon : sel[m] = IF m = n THEN c ELSE r.sel[m]
    BY <1>3, <2>3, <2>4, StateFields DEF ClientOrNull
  <2>7. lit \in SUBSET Client /\ key \in ClientOrNull
    BY <1>3, <2>4, <2>20 DEF State
  <2>8. lit = s.lit \cup {c}
    BY <2>1 DEF Stays, SameFocus
  <2> HIDE DEF sel, lit
  <2>9. t \in State
    BY ZenonT(40), <2>3, <2>4, <2>5, <2>6, <2>7 DEF State
  <2>10. /\ SameTags(r, t) /\ t.full = r.full /\ t.floating = r.floating
         /\ t.clients = r.clients /\ t.tagmarked = r.tagmarked /\ t.stack = r.stack
         /\ t.mon = r.mon /\ t.nmons = r.nmons /\ t.live = r.live
         /\ t.ok = r.ok /\ t.grab = r.grab /\ t.held = r.held
    BY <2>4, <2>5 DEF State, SameTags
  <2>11. /\ t.sel = sel /\ t.xfocus = key /\ t.lit = lit /\ t.selmon = n
         /\ t.neverfocus = s.neverfocus
    BY <2>1, <2>4, <2>5 DEF State, Stays, SameFocus
  <2>12. ListsSound(t)
    <3> SUFFICES ASSUME NEW m \in Mon
                 PROVE  MonSound(t, m)
      BY <2>9, ListsAreSound
    <3>1. \A d \in Range(r.stack[m]) : d \in t.live /\ t.mon[d] = m
      BY <2>1, <2>10, SoundLists
    <3>2. t.sel[m] # NULL => t.sel[m] \in Range(t.stack[m])
      BY <2>1, <2>6, <2>10, <2>11, SoundLists
    <3> QED  BY <2>1, <2>10, <3>1, <3>2, SoundLists DEF MonSound, MarksIn
  <2>13. Sel(t) = c
    BY <2>3, <2>6, <2>11 DEF Sel
  <2>14. SameTags(s, t) /\ t.mon = s.mon
    BY <2>1, <2>10 DEF SameTags, Stays
  <2>15. Visible(t) = Visible(s)
    BY <2>14, VisibleSame
  <2>16. FirstOr(t.stack[t.selmon], Visible(t), NULL) = c
    <3>1. PICK q \in Seq(Client) : t.stack[t.selmon] = Cons(c, q)
      BY <2>1, <2>10, <2>11
    <3>2. FirstOr(Cons(c, q), Visible(s), NULL) = c
      BY <1>3, FirstOrCons
    <3> QED  BY <2>15, <3>1, <3>2
  <2>17. Top(t)
    <3>1. AtHead(t)
      BY <2>1, <2>10, <2>11, <2>13 DEF AtHead
    <3>2. HasKeyboard(t)
      BY <2>11, <2>13, <2>20 DEF HasKeyboard
    <3> QED  BY <2>8, <2>11, <2>13, <2>16, <3>1, <3>2 DEF Top
  <2>18. Refocuses(s, t)
    BY <2>1, <2>10, <2>11, <2>12, <2>14 DEF Refocuses, Stays
  <2>19. {c} \ {NULL} = {c}
    BY <1>3
  <2> QED  BY <1>3, <2>8, <2>11, <2>13, <2>17, <2>18, <2>19 DEF n
<1> QED  BY <1>2, <1>3

\* focus keeps the lists sound, whoever calls it with a live client or none,
\* and takes the light from the client that was selected.
LEMMA FocusSound ==
    ASSUME NEW s, ListsSound(s), NEW a, a # NULL => a \in s.live,
           NEW t, t = Focus(s, a)
    PROVE  /\ Refocuses(s, t) /\ Top(t)
           /\ t.selmon = s.selmon \/ (a # NULL /\ t.selmon = s.mon[a])
           /\ s.lit \subseteq {Sel(s), Sel(t)} => t.lit \subseteq {Sel(t)}
           /\ a # NULL /\ a \in Visible(s) => Sel(t) = a
<1> DEFINE c == FocusChoice(s, a)
           r == IF Sel(s) # c THEN Unfocus(s, Sel(s), FALSE) ELSE s
<1>1. /\ c # NULL => /\ c \in Client /\ c \in s.live /\ c \in Visible(s)
                     /\ s.mon[c] = s.selmon \/ c = a
      /\ c = NULL => FirstOr(s.stack[s.selmon], Visible(s), NULL) = NULL
      /\ a # NULL /\ a \in Visible(s) => c = a
  BY FocusChoiceIn
<1>2. Sel(s) \in ClientOrNull
  BY StateFields DEF Sel, ListsSound
<1>3. /\ ListsSound(r) /\ SameLists(s, r) /\ SameTags(s, r)
      /\ r.full = s.full /\ r.floating = s.floating
      /\ r.lit = IF Sel(s) # c THEN s.lit \ {Sel(s)} ELSE s.lit
      /\ r.neverfocus = s.neverfocus
  <2>1. CASE Sel(s) # c
    <3> DEFINE no == FALSE
    <3>1. r = Unfocus(s, Sel(s), no)
      BY <2>1
    <3> HIDE DEF r, c, no
    <3>2. /\ ListsSound(r) /\ SameLists(s, r) /\ SameTags(s, r)
          /\ r.full = s.full /\ r.floating = s.floating
          /\ r.lit = s.lit \ {Sel(s)} /\ r.neverfocus = s.neverfocus
      BY <1>2, <3>1, UnfocusSound
    <3> QED  BY <2>1, <3>2
  <2>2. CASE Sel(s) = c
    BY <2>2 DEF SameLists, SameTags
  <2> QED  BY <2>1, <2>2
<1>4. t = SetSel(r, c)
  BY DEF Focus
<1> HIDE DEF c, r
<1>5. Visible(r) = Visible(s)
  BY <1>3, VisibleSame DEF SameLists
<1>6. r.selmon = s.selmon /\ r.stack = s.stack /\ r.mon = s.mon /\ r.live = s.live
  BY <1>3 DEF SameLists
<1>7. /\ Refocuses(r, t) /\ Top(t) /\ Sel(t) = c
      /\ t.selmon = IF c = NULL THEN r.selmon ELSE r.mon[c]
      /\ t.lit = r.lit \cup ({c} \ {NULL})
  <2>1. c # NULL => c \in Client /\ c \in r.live /\ c \in Visible(r)
    BY <1>1, <1>5, <1>6
  <2>2. c = NULL => FirstOr(r.stack[r.selmon], Visible(r), NULL) = NULL
    BY <1>1, <1>5, <1>6
  <2> QED  BY <1>3, <1>4, <2>1, <2>2, SetSelSound
<1>8. Refocuses(s, t)
  BY <1>3, <1>7 DEF Refocuses, SameLists, SameTags
<1>9. t.selmon = s.selmon \/ (a # NULL /\ t.selmon = s.mon[a])
  BY <1>1, <1>6, <1>7
<1>10. s.lit \subseteq {Sel(s), Sel(t)} => t.lit \subseteq {Sel(t)}
  BY <1>3, <1>7
<1> QED  BY <1>1, <1>7, <1>8, <1>9, <1>10

-----------------------------------------------------------------------------
(* The order of the stacks.                                                *)

\* c has gone to the top of its stack; nothing else has moved.
Raised(s, t, c) ==
    \A m \in Mon :
        t.stack[m] = IF c # NULL /\ m = s.mon[c] THEN Cons(c, Without(s.stack[m], c))
                     ELSE s.stack[m]
\* The clients that two stacks have in common are in the same order.
StacksKept(s, t) == \A m \in Mon : SameOrder(s.stack[m], t.stack[m], Client)
\* HistoryStep says of a step what this says of two states.
Alikes(s, t, m, c) ==
    {d \in Client : /\ s.mon[d] = m /\ t.mon[d] = m
                    /\ s.tags[d] = s.tags[c]
                    /\ d \in s.sticky <=> c \in s.sticky
                    /\ d # t.sel[m]}
OrderKept(s, t) ==
    \A m \in Mon : \A c \in Range(s.stack[m]) :
        SameOrder(s.stack[m], t.stack[m], Alikes(s, t, m, c))

\* What moves nothing keeps the order.
LEMMA StillOrder ==
    ASSUME NEW s, NEW t, t.stack = s.stack
    PROVE  OrderKept(s, t) /\ StacksKept(s, t)
BY SameOrderItself DEF OrderKept, StacksKept

\* detachstack and attachstack as they are in a state.
LEMMA DetachStackIs ==
    ASSUME NEW s \in State, NEW c \in Client, NEW t, t = DetachStack(s, c)
    PROVE  /\ \A m \in Mon : t.stack[m] = IF m = s.mon[c] THEN Without(s.stack[m], c)
                                        ELSE s.stack[m]
           /\ \A m \in Mon \ {s.mon[c]} : t.sel[m] = s.sel[m]
           /\ t.mon = s.mon
<1> DEFINE n == s.mon[c]
           q == Without(s.stack[n], c)
           stack == [s.stack EXCEPT ![n] = q]
           sel == [s.sel EXCEPT ![n] = IF @ = c THEN FirstOr(q, Visible(s), NULL) ELSE @]
<1>1. t = [s EXCEPT !.stack = stack, !.sel = sel]
  BY DEF DetachStack, State
<1>2. /\ \A m \in Mon : stack[m] = IF m = n THEN q ELSE s.stack[m]
      /\ \A m \in Mon \ {n} : sel[m] = s.sel[m]
  BY StateFields
<1> HIDE DEF stack, sel
<1>3. t.stack = stack /\ t.sel = sel /\ t.mon = s.mon
  BY <1>1 DEF State
<1> QED  BY <1>2, <1>3

LEMMA AttachStackIs ==
    ASSUME NEW s \in State, NEW c \in Client, NEW t, t = AttachStack(s, c)
    PROVE  /\ \A m \in Mon : t.stack[m] = IF m = s.mon[c] THEN Cons(c, s.stack[m])
                                        ELSE s.stack[m]
           /\ t.mon = s.mon /\ t.sel = s.sel
<1> DEFINE n == s.mon[c]
           q == Cons(c, s.stack[n])
           stack == [s.stack EXCEPT ![n] = q]
<1>1. t = [s EXCEPT !.stack = stack]
  BY DEF AttachStack, State
<1>2. \A m \in Mon : stack[m] = IF m = n THEN q ELSE s.stack[m]
  BY StateFields
<1> HIDE DEF stack
<1>3. t.stack = stack /\ t.sel = s.sel /\ t.mon = s.mon
  BY <1>1 DEF State
<1> QED  BY <1>2, <1>3

\* The two of them in focus.
LEMMA RaiseIs ==
    ASSUME NEW s, ListsSound(s), NEW c \in Client, NEW t, t = Raise(s, c)
    PROVE  /\ Raised(s, t, c)
           /\ \A m \in Mon \ {s.mon[c]} : t.sel[m] = s.sel[m]
<1> DEFINE r == DetachStack(s, c)
<1>1. s \in State
  BY DEF ListsSound
<1>2. r \in State
  BY DetachStackSound DEF Stays
<1>3. t = AttachStack(r, c)
  BY DEF Raise
<1>4. /\ \A m \in Mon : r.stack[m] = IF m = s.mon[c] THEN Without(s.stack[m], c)
                                   ELSE s.stack[m]
      /\ \A m \in Mon \ {s.mon[c]} : r.sel[m] = s.sel[m]
      /\ r.mon = s.mon
  BY <1>1, DetachStackIs
<1> HIDE DEF r
<1>5. /\ \A m \in Mon : t.stack[m] = IF m = r.mon[c] THEN Cons(c, r.stack[m])
                                   ELSE r.stack[m]
      /\ t.sel = r.sel
  BY <1>2, <1>3, AttachStackIs
<1> QED  BY <1>4, <1>5, NullAssumption DEF Raised

\* focus raises the client it selects, and touches the selected client of no
\* other monitor.
LEMMA FocusRaises ==
    ASSUME NEW s, ListsSound(s), NEW a, a # NULL => a \in s.live,
           NEW t, t = Focus(s, a)
    PROVE  /\ Raised(s, t, Sel(t)) /\ Sel(t) = FocusChoice(s, a)
           /\ Sel(t) # NULL => Sel(t) \in Client /\ t.selmon = s.mon[Sel(t)]
           /\ \A m \in Mon \ {t.selmon} : t.sel[m] = s.sel[m]
<1> DEFINE c == FocusChoice(s, a)
           no == FALSE
           r == IF Sel(s) # c THEN Unfocus(s, Sel(s), no) ELSE s
<1>1. /\ c # NULL => /\ c \in Client /\ c \in s.live /\ c \in Visible(s)
      /\ c = NULL => FirstOr(s.stack[s.selmon], Visible(s), NULL) = NULL
  BY FocusChoiceIn
<1>2. Sel(s) \in ClientOrNull
  BY StateFields DEF Sel, ListsSound
<1>3. ListsSound(r) /\ SameLists(s, r) /\ SameTags(s, r)
  <2>1. CASE Sel(s) # c
    <3>1. r = Unfocus(s, Sel(s), no)
      BY <2>1
    <3> HIDE DEF r, c, no
    <3> QED  BY <1>2, <3>1, UnfocusSound
  <2>2. CASE Sel(s) = c
    BY <2>2 DEF SameLists, SameTags
  <2> QED  BY <2>1, <2>2
<1>4. t = SetSel(r, c)
  BY DEF Focus
<1> HIDE DEF c, r
<1>5. Visible(r) = Visible(s)
  BY <1>3, VisibleSame DEF SameLists
<1>6. /\ r.selmon = s.selmon /\ r.stack = s.stack /\ r.mon = s.mon /\ r.live = s.live
      /\ r.sel = s.sel
  BY <1>3 DEF SameLists
<1>7. Sel(t) = c /\ t.selmon = IF c = NULL THEN r.selmon ELSE r.mon[c]
  BY <1>1, <1>3, <1>4, <1>5, <1>6, SetSelSound
<1>8. CASE c = NULL
  <2>1. t = [r EXCEPT !.sel = [r.sel EXCEPT ![r.selmon] = NULL], !.xfocus = NULL]
    BY <1>3, <1>4, <1>8 DEF SetSel, ListsSound, State
  <2>2. t.stack = r.stack /\ t.sel = [r.sel EXCEPT ![r.selmon] = NULL]
    BY <1>3, <2>1 DEF ListsSound, State
  <2>3. r.sel \in [Mon -> ClientOrNull]
    BY <1>3, StateFields DEF ListsSound
  <2>4. \A m \in Mon \ {r.selmon} : t.sel[m] = r.sel[m]
    BY <2>2, <2>3
  <2> QED  BY <1>6, <1>7, <1>8, <2>2, <2>4 DEF Raised, c
<1>9. CASE c # NULL
  <2> DEFINE u == Raise(r, c)
             n == r.mon[c]
             key == Keyboard(r, c)
  <2>1. c \in Client /\ c \in r.live
    BY <1>1, <1>6, <1>9
  <2>2. /\ Raised(r, u, c) /\ \A m \in Mon \ {n} : u.sel[m] = r.sel[m]
    BY <1>3, <2>1, RaiseIs
  <2>3. u \in State
    BY <1>3, <2>1, RaiseSound DEF ListsSound
  <2>4. t = [u EXCEPT !.selmon = n, !.sel[n] = c, !.lit = @ \cup {c}, !.xfocus = key]
    BY <1>4, <1>9 DEF SetSel
  <2> HIDE DEF u, n, key
  <2>5. t = [u EXCEPT !.selmon = n, !.sel = [u.sel EXCEPT ![n] = c],
                      !.lit = u.lit \cup {c}, !.xfocus = key]
    BY <2>3, <2>4 DEF State
  <2>6. t.stack = u.stack /\ t.sel = [u.sel EXCEPT ![n] = c]
    BY <2>3, <2>5 DEF State
  <2>7. u.sel \in [Mon -> ClientOrNull]
    BY <2>3, StateFields
  <2>8. \A m \in Mon \ {n} : t.sel[m] = u.sel[m]
    BY <2>6, <2>7
  <2>9. Raised(s, t, c)
    BY <1>6, <2>2, <2>6 DEF Raised
  <2> QED  BY <1>6, <1>7, <1>9, <2>1, <2>2, <2>8, <2>9 DEF c, n
<1> QED  BY <1>8, <1>9

\* So focus keeps the order of whatever does not contain the client it
\* selects, and, when it takes the first visible one, of any clients that
\* are all visible.
LEMMA FocusOrder ==
    ASSUME NEW s, ListsSound(s), NEW a, a # NULL => a \in s.live,
           NEW t, t = Focus(s, a), NEW m \in Mon
    PROVE  /\ Range(s.stack[m]) \subseteq Range(t.stack[m])
           /\ \A d \in Range(t.stack[m]) \ Range(s.stack[m]) : m = t.selmon /\ d = Sel(t)
           /\ a = NULL => Range(t.stack[m]) = Range(s.stack[m])
           /\ \A S : m # t.selmon \/ Sel(t) \notin S => SameOrder(s.stack[m], t.stack[m], S)
           /\ \A S : a = NULL /\ S \cap Range(s.stack[m]) \subseteq Visible(s)
                     => SameOrder(s.stack[m], t.stack[m], S)
<1> DEFINE c == Sel(t)
           q == s.stack[m]
           r == t.stack[m]
<1>1. /\ Raised(s, t, c) /\ c = FocusChoice(s, a)
      /\ c # NULL => c \in Client /\ t.selmon = s.mon[c]
  BY FocusRaises
<1>2. q \in Distinct(Client) /\ s.selmon \in Mon /\ s.stack[s.selmon] \in Seq(Client)
  BY ZenonT(40), SoundLists, StateFields DEF ListsSound
<1>3. r = IF c # NULL /\ m = s.mon[c] THEN Cons(c, Without(q, c)) ELSE q
  BY <1>1 DEF Raised
<1> HIDE DEF c, r
<1>4. CASE c # NULL /\ m = s.mon[c]
  <2>1. /\ Range(r) = Range(q) \cup {c}
        /\ \A S : c \notin S => SameOrder(q, r, S)
        /\ \A S, V, none :
               /\ c = FirstOr(q, V, none) /\ c \in Range(q)
               /\ S \cap Range(q) \subseteq V
               => SameOrder(q, r, S)
    BY <1>1, <1>2, <1>3, <1>4, RaisedOrder
  <2>2. ASSUME a = NULL
        PROVE  c = FirstOr(q, Visible(s), NULL) /\ c \in Range(q)
    <3>1. c = FirstOr(s.stack[s.selmon], Visible(s), NULL)
      BY <1>1, <2>2 DEF FocusChoice
    <3>2. c \in Range(s.stack[s.selmon])
      BY <1>2, <1>4, <3>1, FirstOrIn
    <3>3. s.mon[c] = s.selmon
      BY <1>2, <3>2, SoundLists
    <3> QED  BY <1>4, <3>1, <3>2, <3>3
  <2>3. \A S : a = NULL /\ S \cap Range(q) \subseteq Visible(s) => SameOrder(q, r, S)
    BY <2>1, <2>2
  <2>4. t.selmon = m
    BY <1>1, <1>4
  <2>5. a = NULL => Range(r) = Range(q)
    BY <2>1, <2>2
  <2> QED  BY <1>4, <2>1, <2>3, <2>4, <2>5 DEF c, r
<1>5. CASE ~(c # NULL /\ m = s.mon[c])
  BY <1>3, <1>5, SameOrderItself DEF r
<1> QED  BY <1>4, <1>5

\* What focus does to the order: only the client that is now selected has
\* moved.
OnlyTop(s, t) ==
    \A m \in Mon :
        /\ \A d \in Range(t.stack[m]) \ Range(s.stack[m]) : m = t.selmon /\ d = Sel(t)
        /\ \A S : m # t.selmon \/ Sel(t) \notin S => SameOrder(s.stack[m], t.stack[m], S)
\* And when it takes the first visible client: seen from the visible ones
\* nothing has.
FirstToTop(s, t) ==
    /\ OnlyTop(s, t)
    /\ \A m \in Mon :
          /\ Range(t.stack[m]) = Range(s.stack[m])
          /\ \A S : S \cap Range(s.stack[m]) \subseteq Visible(t)
                    => SameOrder(s.stack[m], t.stack[m], S)

LEMMA FocusMoves ==
    ASSUME NEW s, ListsSound(s), NEW a, a # NULL => a \in s.live,
           NEW t, t = Focus(s, a)
    PROVE  OnlyTop(s, t) /\ (a = NULL => FirstToTop(s, t))
<1>1. OnlyTop(s, t)
  BY FocusOrder DEF OnlyTop
<1>2. ASSUME a = NULL
      PROVE  FirstToTop(s, t)
  <2>1. Visible(t) = Visible(s)
    BY FocusSound, VisibleSame DEF Refocuses
  <2> QED  BY <1>1, <1>2, <2>1, FocusOrder DEF FirstToTop
<1> QED  BY <1>1, <1>2

LEMMA NothingMoves ==
    ASSUME NEW s
    PROVE  FirstToTop(s, s)
BY SameOrderItself DEF OnlyTop, FirstToTop

LEMMA SameStackMoves ==
    ASSUME NEW s, NEW r, r.stack = s.stack, NEW t
    PROVE  (OnlyTop(r, t) => OnlyTop(s, t)) /\ (FirstToTop(r, t) => FirstToTop(s, t))
BY DEF OnlyTop, FirstToTop

\* The last move of a handler.  Before it, the clients that are alike must
\* not have changed their order.
LEMMA LastMove ==
    ASSUME NEW s, NEW r, NEW t, OnlyTop(r, t),
           \A m \in Mon : \A c \in Range(s.stack[m]) :
               SameOrder(s.stack[m], r.stack[m], Alikes(s, t, m, c))
    PROVE  OrderKept(s, t)
<1> SUFFICES ASSUME NEW m \in Mon, NEW c \in Range(s.stack[m])
             PROVE  SameOrder(s.stack[m], t.stack[m], Alikes(s, t, m, c))
  BY DEF OrderKept
<1> DEFINE S == Alikes(s, t, m, c)
<1>1. SameOrder(s.stack[m], r.stack[m], S)
  OBVIOUS
<1>2. m = t.selmon => Sel(t) \notin S
  BY DEF Alikes, Sel
<1> HIDE DEF S
<1>3. /\ \A d \in Range(t.stack[m]) \ Range(r.stack[m]) : m = t.selmon /\ d = Sel(t)
      /\ SameOrder(r.stack[m], t.stack[m], S)
  BY <1>2 DEF OnlyTop
<1>4. S \cap Range(s.stack[m]) \cap Range(t.stack[m]) \subseteq Range(r.stack[m])
  BY <1>2, <1>3
<1>5. SameOrder(s.stack[m], t.stack[m], S)
  BY <1>1, <1>3, <1>4, SameOrderTransitive
<1> QED  BY <1>5 DEF S

\* A handler that, before its focus, has at most linked and unlinked: but
\* for the client on top, the order is as it was.
OrderButTop(s, t) ==
    \A m \in Mon : \A S \in SUBSET Client :
        m # t.selmon \/ Sel(t) \notin S => SameOrder(s.stack[m], t.stack[m], S)

LEMMA LinkedMove ==
    ASSUME NEW s, NEW r, NEW t, StacksKept(s, r), OnlyTop(r, t)
    PROVE  OrderKept(s, t) /\ OrderButTop(s, t)
<1>1. \A m \in Mon : \A c : Alikes(s, t, m, c) \subseteq Client
  BY DEF Alikes
<1>2. \A m \in Mon : \A c \in Range(s.stack[m]) :
          SameOrder(s.stack[m], r.stack[m], Alikes(s, t, m, c))
  BY <1>1, SameOrderFewer DEF StacksKept
<1>3. OrderKept(s, t)
  BY <1>2, LastMove
<1>4. ASSUME NEW m \in Mon, NEW S \in SUBSET Client, m # t.selmon \/ Sel(t) \notin S
      PROVE  SameOrder(s.stack[m], t.stack[m], S)
  <2>1. SameOrder(s.stack[m], r.stack[m], S)
    BY SameOrderFewer DEF StacksKept
  <2>2. /\ SameOrder(r.stack[m], t.stack[m], S)
        /\ \A d \in Range(t.stack[m]) \ Range(r.stack[m]) : d \notin S
    BY <1>4 DEF OnlyTop
  <2>3. S \cap Range(s.stack[m]) \cap Range(t.stack[m]) \subseteq Range(r.stack[m])
    BY <2>2
  <2> QED  BY <2>1, <2>2, <2>3, SameOrderTransitive
<1> QED  BY <1>3, <1>4 DEF OrderButTop

LEMMA OneMove ==
    ASSUME NEW s, NEW t, OnlyTop(s, t)
    PROVE  OrderKept(s, t)
<1>1. StacksKept(s, s)
  BY StillOrder
<1> QED  BY <1>1, LinkedMove

\* The first visible client has gone to the top, then another one: clients
\* that are alike are all visible or all hidden, so the first one has passed
\* none of its like.
LEMMA TwoMoves ==
    ASSUME NEW s, NEW r, NEW t, FirstToTop(s, r), OnlyTop(r, t),
           Sel(r) # NULL => Sel(r) \in Visible(r),
           r.mon = s.mon, r.tags = s.tags, r.sticky = s.sticky
    PROVE  OrderKept(s, t)
<1>1. ASSUME NEW m \in Mon, NEW c \in Range(s.stack[m])
      PROVE  SameOrder(s.stack[m], r.stack[m], Alikes(s, t, m, c))
  <2> DEFINE S == Alikes(s, t, m, c)
  <2>1. /\ NULL \notin S
        /\ \A d, e \in S : d \in Visible(r) => e \in Visible(r)
    BY NullAssumption DEF Alikes, Visible, IsVisible
  <2> HIDE DEF S
  <2>2. CASE Sel(r) \in S
    <3>1. S \subseteq Visible(r)
      BY <2>1, <2>2
    <3> QED  BY <3>1 DEF FirstToTop, S
  <2>3. CASE Sel(r) \notin S
    BY <2>3 DEF FirstToTop, OnlyTop, S
  <2> QED  BY <2>2, <2>3
<1> QED  BY <1>1, LastMove

\* Unlinking a client leaves the order of the others,
LEMMA UnlinkOrder ==
    ASSUME NEW s, ListsSound(s), NEW c \in Client, NEW t, t = Unlink(s, c)
    PROVE  StacksKept(s, t) /\ \A m \in Mon : Range(t.stack[m]) = Range(s.stack[m]) \ {c}
<1> DEFINE r == Detach(s, c)
<1>1. r \in State /\ r.stack = s.stack
  BY DetachSound DEF ListsSound
<1>2. t = DetachStack(r, c)
  BY DEF Unlink
<1> HIDE DEF r
<1>3. \A m \in Mon : t.stack[m] = IF m = r.mon[c] THEN Without(s.stack[m], c) ELSE s.stack[m]
  BY <1>1, <1>2, DetachStackIs
<1>4. \A m \in Mon : s.stack[m] \in Distinct(Client)
  BY SoundLists
<1>5. StacksKept(s, t)
  BY <1>3, <1>4, WithoutOrder, SameOrderItself DEF StacksKept
<1> QED  BY SMTT(30), <1>5, UnlinkSound

\* and linking one does.
LEMMA LinkedOrder ==
    ASSUME NEW s, ListsSound(s), NEW c \in Client, Unlisted(s, c),
           NEW r, Linked(s, r, c), NEW t, t = AttachStack(r, c)
    PROVE  StacksKept(s, t) /\ \A m \in Mon \ {s.mon[c]} : t.stack[m] = s.stack[m]
<1>1. r \in State /\ r.stack = s.stack /\ r.mon = s.mon
  BY DEF Linked, Stays
<1>2. \A m \in Mon : t.stack[m] = IF m = r.mon[c] THEN Cons(c, s.stack[m]) ELSE s.stack[m]
  BY <1>1, AttachStackIs
<1>3. \A m \in Mon : s.stack[m] \in Distinct(Client) /\ c \notin Range(s.stack[m])
  BY SoundLists DEF Unlisted
<1>4. StacksKept(s, t)
  BY <1>2, <1>3, ConsOrder, SameOrderItself DEF StacksKept
<1> QED  BY <1>1, <1>2, <1>4

LEMMA LinkOrder ==
    ASSUME NEW s, ListsSound(s), NEW c \in Client, c \in s.live, Unlisted(s, c),
           NEW k \in Nat, NEW t, t = Link(s, c, k) \/ t = LinkHead(s, c)
    PROVE  StacksKept(s, t) /\ \A m \in Mon \ {s.mon[c]} : t.stack[m] = s.stack[m]
<1>1. /\ s \in State /\ c \notin Range(s.clients[s.mon[c]])
      /\ \A m \in Mon : s.clients[m] \in Distinct(Client)
  <2>1. s \in State
    BY DEF ListsSound
  <2>2. s.mon[c] \in Mon
    BY <2>1, StateFields
  <2> QED  BY <2>1, <2>2, SoundLists, UnlistedEntering
<1>2. CASE t = Link(s, c, k)
  <2> DEFINE r == AttachX(s, c, k)
  <2>1. Linked(s, r, c)
    BY <1>1, AttachXLinked
  <2>2. t = AttachStack(r, c)
    BY <1>2 DEF Link
  <2> HIDE DEF r
  <2> QED  BY <2>1, <2>2, LinkedOrder
<1>3. CASE t = LinkHead(s, c)
  <2> DEFINE r == Attach(s, c)
  <2>1. Linked(s, r, c)
    BY <1>1, AttachLinked
  <2>2. t = AttachStack(r, c)
    BY <1>3 DEF LinkHead
  <2> HIDE DEF r
  <2> QED  BY <2>1, <2>2, LinkedOrder
<1> QED  BY <1>2, <1>3

\* And so does the one after the other: on another monitor the client is not
\* among those that were there.
LEMMA RelinkOrder ==
    ASSUME NEW s, ListsSound(s), NEW c \in Client, NEW t, ListsSound(t), t.mon[c] # s.mon[c],
           NEW r, StacksKept(s, r), StacksKept(r, t),
           \A m \in Mon : Range(r.stack[m]) = Range(s.stack[m]) \ {c}
    PROVE  StacksKept(s, t)
<1> SUFFICES ASSUME NEW m \in Mon
             PROVE  SameOrder(s.stack[m], t.stack[m], Client)
  BY DEF StacksKept
<1>1. c \notin Range(s.stack[m]) \cap Range(t.stack[m])
  BY SoundLists
<1>2. Client \cap Range(s.stack[m]) \cap Range(t.stack[m]) \subseteq Range(r.stack[m])
  BY <1>1
<1> QED  BY <1>2, SameOrderTransitive DEF StacksKept

\* The client on top is one that is shown.
LEMMA TopVisible ==
    ASSUME NEW s, ListsSound(s), Top(s)
    PROVE  Sel(s) # NULL => Sel(s) \in Visible(s) /\ Sel(s) \in Range(s.stack[s.selmon])
<1>1. s.selmon \in Mon /\ s.stack[s.selmon] \in Seq(Client)
  BY StateFields DEF ListsSound
<1>2. FirstOr(s.stack[s.selmon], Visible(s), NULL)
          \in (Range(s.stack[s.selmon]) \cap Visible(s)) \cup {NULL}
  BY <1>1, FirstOrIn
<1> QED  BY <1>2 DEF Top

\* tag and the view that follows it.  The client c that has got other tags
\* was the last one focused, and is in view again in the end: it is selected
\* then, or the client that was on top in between is.
LEMMA RetagMoves ==
    ASSUME NEW s, ListsSound(s), AtHead(s), NEW c \in Client, c = Sel(s),
           NEW r, ListsSound(r), FirstToTop(s, r), Top(r),
           r.selmon = s.selmon, r.mon = s.mon, r.sticky = s.sticky,
           \A d \in Client \ {c} : r.tags[d] = s.tags[d],
           NEW t, ListsSound(t), FirstToTop(r, t), Top(t), t.selmon = s.selmon,
           c \in Visible(t)
    PROVE  OrderKept(s, t)
<1> DEFINE n == s.selmon
           a == Sel(r)
           b == Sel(t)
           p == s.stack[n]
           q == r.stack[n]
           u == t.stack[n]
<1>1. /\ n \in Mon /\ c # NULL
      /\ p \in Distinct(Client) /\ q \in Distinct(Client) /\ u \in Distinct(Client)
  BY StateFields, SoundLists, NullAssumption DEF ListsSound
<1>2. /\ c \in Range(p) /\ Index(p, c) = 1
      /\ \A d \in Range(p) \ {c} : Index(p, d) \in Nat /\ 1 < Index(p, d)
  <2>1. PICK x \in Seq(Client) : p = Cons(c, x)
    BY <1>1 DEF AtHead
  <2> HIDE DEF p
  <2> QED  BY <1>1, <2>1, HeadFirst
<1>3. /\ Range(q) = Range(p) /\ Range(u) = Range(q)
      /\ \A S : a \notin S => SameOrder(p, q, S)
      /\ \A S : S \cap Range(p) \subseteq Visible(r) => SameOrder(p, q, S)
      /\ \A S : S \cap Range(q) \subseteq Visible(t) => SameOrder(q, u, S)
  BY <1>1 DEF FirstToTop, OnlyTop
<1>4. a # NULL => a \in Visible(r)
  BY TopVisible
<1>5. b # NULL => /\ b \in Visible(t) /\ b \in Range(u) /\ Index(u, b) = 1
                  /\ \A d \in Range(u) \ {b} : Index(u, d) \in Nat /\ 1 < Index(u, d)
  <2> SUFFICES ASSUME b # NULL
               PROVE  /\ b \in Visible(t) /\ b \in Range(u) /\ Index(u, b) = 1
                      /\ \A d \in Range(u) \ {b} : Index(u, d) \in Nat /\ 1 < Index(u, d)
    OBVIOUS
  <2>1. PICK x \in Seq(Client) : u = Cons(b, x)
    BY DEF Top, AtHead
  <2>2. b \in Visible(t)
    BY TopVisible
  <2> HIDE DEF u, b
  <2> QED  BY <1>1, <2>1, <2>2, HeadFirst
<1>6. b # NULL
  <2>1. c \in Range(t.stack[t.selmon])
    BY <1>2, <1>3
  <2>2. t.stack[t.selmon] \in Seq(Client)
    BY <1>1 DEF Distinct
  <2>3. FirstOr(t.stack[t.selmon], Visible(t), NULL) \in Visible(t)
    BY <2>1, <2>2, FirstOrSome
  <2> QED  BY <2>3, NullAssumption DEF Top, Visible
\* The client on top in between was not in front of c.
<1>7. b = a \/ b = c
  <2>1. CASE a = c
    <3>1. PICK x \in Seq(Client) : q = Cons(c, x)
      BY <1>1, <2>1 DEF Top, AtHead
    <3>2. /\ c \in Range(q) /\ Index(q, c) = 1
          /\ \A d \in Range(q) \ {c} : Index(q, d) \in Nat /\ 1 < Index(q, d)
      <4> HIDE DEF q
      <4> QED  BY <1>1, <3>1, HeadFirst
    <3>3. SameOrder(q, u, {b, c})
      BY <1>3, <1>5, <1>6
    <3> SUFFICES ASSUME b # c
                 PROVE  FALSE
      OBVIOUS
    <3>4. Index(q, c) < Index(q, b)
      BY <1>3, <1>5, <1>6, <3>2
    <3>5. Index(u, c) < Index(u, b)
      BY <1>3, <1>5, <1>6, <3>2, <3>3, <3>4 DEF SameOrder
    <3>6. Index(u, c) \in Nat /\ 1 < Index(u, c) /\ Index(u, b) = 1
      BY <1>3, <1>5, <1>6, <3>2
    <3> QED  BY <3>5, <3>6
  <2>2. CASE a # c
    <3> SUFFICES ASSUME b # a, b # c
                 PROVE  FALSE
      OBVIOUS
    <3>1. SameOrder(p, q, {b, c}) /\ SameOrder(q, u, {b, c})
      BY <1>3, <1>5, <1>6, <2>2
    <3>2. Index(p, c) < Index(p, b)
      BY <1>2, <1>3, <1>5, <1>6
    <3>3. Index(u, c) < Index(u, b)
      BY <1>2, <1>3, <1>5, <1>6, <3>1, <3>2 DEF SameOrder
    <3>4. Index(u, c) \in Nat /\ 1 < Index(u, c) /\ Index(u, b) = 1
      BY <1>2, <1>3, <1>5, <1>6
    <3> QED  BY <3>3, <3>4
  <2> QED  BY <2>1, <2>2
<1>8. ASSUME NEW m \in Mon, NEW d \in Range(s.stack[m])
      PROVE  SameOrder(s.stack[m], r.stack[m], Alikes(s, t, m, d))
  <2> DEFINE S == Alikes(s, t, m, d)
  <2>1. CASE m # n
    BY <1>1, <2>1 DEF FirstToTop, OnlyTop
  <2>2. CASE m = n
    <3>1. b \notin S /\ NULL \notin S /\ S \subseteq Client
      BY <2>2, NullAssumption DEF Alikes, Sel
    <3>2. c \notin S => \A e, f \in S : e \in Visible(r) => f \in Visible(r)
      BY DEF Alikes, Visible, IsVisible
    <3> HIDE DEF S, a, b
    <3>3. CASE a \notin S
      BY <1>3, <2>2, <3>3 DEF S
    <3>4. CASE a \in S
      <4>1. c \notin S
        BY <1>7, <3>1, <3>4
      <4>2. S \subseteq Visible(r)
        BY <1>4, <3>1, <3>2, <3>4, <4>1
      <4> QED  BY <1>3, <2>2, <4>2 DEF S
    <3> QED  BY <3>3, <3>4
  <2> QED  BY <2>1, <2>2
<1> QED  BY <1>8, LastMove DEF FirstToTop

\* A state that differs in nothing the order is a matter of.
LEMMA SameOrderKept ==
    ASSUME NEW s, NEW r, r.stack = s.stack, r.mon = s.mon, r.tags = s.tags,
           r.sticky = s.sticky, NEW t, OrderKept(r, t)
    PROVE  OrderKept(s, t)
<1>1. ASSUME NEW m, NEW c
      PROVE  Alikes(r, t, m, c) = Alikes(s, t, m, c)
  BY DEF Alikes
<1> QED  BY <1>1 DEF OrderKept

LEMMA SameEndKept ==
    ASSUME NEW s, NEW r, OrderKept(s, r),
           NEW t, t.stack = r.stack, t.mon = r.mon, t.sel = r.sel
    PROVE  OrderKept(s, t)
<1>1. ASSUME NEW m, NEW c
      PROVE  Alikes(s, t, m, c) = Alikes(s, r, m, c)
  BY DEF Alikes
<1> QED  BY <1>1 DEF OrderKept

\* What a monitor shows is a set of tags.
LEMMA TagSetIs ==
    ASSUME NEW s \in State, NEW m \in Mon
    PROVE  TagSet(s, m) \in SUBSET Tag /\ s.seltags[m] \in 0..1
<1>1. s.seltags \in [Mon -> 0..1] /\ s.tagset \in [Mon -> [0..1 -> SUBSET Tag]]
  BY DEF State
<1> QED  BY <1>1 DEF TagSet

-----------------------------------------------------------------------------
(* The state between two events.  Five conjuncts, because each of them     *)
(* needs another: focus finds the client whose border it must dim by       *)
(* selmon->sel, attachx stops at a selected client that the list has lost, *)
(* and a view is never empty only if no client is without a tag.           *)
(*                                                                         *)
(* What a key or a request is known to break is the premise of a conjunct: *)
(* Bound says which of them this dwm has.                                  *)

\* Where the handlers leave a lit client behind: selmon changes without an
\* unfocus.
Leaps == Bound \cap {"netactivewindow", "mouse", "configurenotify"} # {}
\* focusmaster follows a mark to a client that rotatestack has lost, and with
\* it to the monitor that the client was on, which may be gone.
Strays == {"rotatestack", "focusmaster"} \subseteq Bound
\* A dwm without the keys that may follow a bad pointer.
Sure ==
    ViewOnTag /\ Bound \cap {"rotatestack", "focusmaster", "focussame", "layoutkey"} = {}

\* The flags and the tags.
Flagged(s) ==
    /\ s.full \subseteq s.floating \cap s.live
    /\ \A m \in Mon, i \in 0..1 : s.tagset[m][i] # {}
    /\ "netwmdesktop" \in Bound
       \/ \A c \in s.live : s.tags[c] # {} /\ s.tags[c] \subseteq Tag
\* No monitor that is gone is selected or has clients, and every client has
\* its place.
Present(s, m) == Strays \/ m <= s.nmons
Rooted(s) ==
    Present(s, s.selmon) /\ \A m \in Mon : \A c \in Range(s.stack[m]) : Present(s, m)
Home(s) ==
    Rooted(s) /\ ("rotatestack" \in Bound \/ \A c \in s.live : Placed(s, c))
\* Only the selected client is lit.
LitOnly(s) == Leaps \/ s.lit \subseteq {Sel(s)}
Unhurt(s) == Sure => s.ok
Sound(s) == ListsSound(s) /\ Flagged(s) /\ Home(s) /\ LitOnly(s) /\ Unhurt(s)

\* The focus is where it belongs: what a focus() at the end of a handler
\* brings about, and what a handler without one must not disturb.
Settled(s) ==
    /\ Bound \cap {"stealfocus", "wmhints"} = {} => HasKeyboard(s)
    /\ Bound \cap {"togglesticky", "netwmsticky", "netwmdesktop"} = {}
       => Sel(s) = FirstOr(s.stack[s.selmon], Visible(s), NULL)
    /\ Sel(s) # NULL => Sel(s) \in s.lit
    /\ AtHead(s)

\* What a function leaves behind when it is called between two events: a
\* sound state, the same clients allocated, the same one held by the mouse.
Keeps(s, t) ==
    Sound(t) /\ t.live = s.live /\ t.grab = s.grab /\ t.held = s.held
\* What a whole handler leaves behind.
Handles(s, t) == Keeps(s, t) /\ (Settled(s) => Settled(t))

\* One function after the other.
LEMMA KeepsTransitive ==
    ASSUME NEW s, NEW r, NEW t, Keeps(s, r), Keeps(r, t)
    PROVE  Keeps(s, t)
BY DEF Keeps

LEMMA KeepsItself ==
    ASSUME NEW s, Sound(s)
    PROVE  Keeps(s, s) /\ Handles(s, s) /\ OrderKept(s, s)
BY StillOrder DEF Keeps, Handles

LEMMA TopSettles ==
    ASSUME NEW s, Top(s)
    PROVE  Settled(s)
BY DEF Top, Settled

\* The head of a stack depends on nothing else.
LEMMA AtHeadSame ==
    ASSUME NEW s, NEW t, t.stack = s.stack, t.sel = s.sel, t.selmon = s.selmon
    PROVE  Sel(t) = Sel(s) /\ (AtHead(s) => AtHead(t))
BY DEF AtHead, Sel

\* Tags that stay, or that lose nothing.
LEMMA SameFlagged ==
    ASSUME NEW s, Flagged(s), NEW t, SameTags(s, t), t.live = s.live,
           t.full \subseteq t.floating \cap t.live
    PROVE  Flagged(t)
BY DEF Flagged, SameTags

\* Clients come only to a monitor there is.
LEMMA RootedElsewhere ==
    ASSUME NEW s, Rooted(s), NEW t, t.nmons = s.nmons, Present(s, t.selmon),
           NEW n, Present(s, n),
           \A m \in Mon \ {n} : Range(t.stack[m]) \subseteq Range(s.stack[m])
    PROVE  Rooted(t)
BY DEF Rooted, Present

\* And so every client of a stack is on one.
LEMMA StackHome ==
    ASSUME NEW s, Sound(s), NEW m \in Mon, NEW c \in Range(s.stack[m])
    PROVE  s.mon[c] = m /\ Present(s, s.mon[c])
BY SoundLists DEF Sound, Home, Rooted

LEMMA SelHome ==
    ASSUME NEW s, Sound(s)
    PROVE  Present(s, s.selmon) /\ (Sel(s) # NULL => Present(s, s.mon[Sel(s)]))
<1>1. s.selmon \in Mon
  BY StateFields DEF Sound, ListsSound
<1>2. Sel(s) # NULL => Sel(s) \in Range(s.stack[s.selmon])
  BY <1>1, SoundLists DEF Sel, Sound
<1> QED  BY <1>1, <1>2, StackHome DEF Sound, Home, Rooted

\* A change of fields that no list is kept in.
LEMMA SameKeeps ==
    ASSUME NEW s, Sound(s), NEW t \in State, SameLists(s, t), t.lit \subseteq s.lit,
           Flagged(t)
    PROVE  Keeps(s, t)
<1>1. ListsSound(t)
  BY SameListsSound DEF SameLists, Sound
<1>2. Home(t)
  BY DEF Home, Rooted, Present, Placed, SameLists, Sound
<1>3. LitOnly(t) /\ Unhurt(t)
  BY DEF LitOnly, Unhurt, Sel, SameLists, Sound
<1> QED  BY <1>1, <1>2, <1>3 DEF Keeps, Sound, SameLists

\* A change of fields that the focus does not depend on either.
LEMMA SameHandles ==
    ASSUME NEW s, Sound(s), NEW t \in State, SameLists(s, t), SameTags(s, t),
           SameFocus(s, t), t.full \subseteq t.floating \cap t.live
    PROVE  Handles(s, t) /\ OrderKept(s, t)
<1>1. Flagged(t)
  BY SameFlagged DEF Sound, SameLists
<1>2. Keeps(s, t)
  BY <1>1, SameKeeps DEF SameFocus
<1>3. Visible(t) = Visible(s)
  BY VisibleSame DEF SameLists
<1>4. Sel(t) = Sel(s) /\ (AtHead(s) => AtHead(t))
  BY AtHeadSame DEF SameLists
<1>5. Handles(s, t)
  BY <1>2, <1>3, <1>4 DEF Handles, Settled, HasKeyboard, SameLists, SameFocus
<1> QED  BY <1>5, StillOrder DEF SameLists

\* A change of the lists in which no client loses its place.
LEMMA StaysKeeps ==
    ASSUME NEW s, Sound(s), NEW t, Stays(s, t), ListsSound(t), t.ok = s.ok,
           Sel(t) = Sel(s), \A d \in Client : Placed(s, d) => Placed(t, d),
           \A m \in Mon : Range(t.stack[m]) \subseteq Range(s.stack[m])
    PROVE  Keeps(s, t)
<1>1. Flagged(t)
  BY SameFlagged DEF Sound, Stays, Flagged
<1>2. s.live \subseteq Client
  BY StateFields DEF Sound, ListsSound
<1>3. Home(t)
  BY <1>2 DEF Home, Rooted, Present, Stays, Sound
<1>4. LitOnly(t) /\ Unhurt(t)
  BY DEF LitOnly, Unhurt, Stays, SameFocus, Sound
<1> QED  BY <1>1, <1>3, <1>4 DEF Keeps, Sound, Stays

\* focus goes to a monitor there is.
LEMMA FocusRooted ==
    ASSUME NEW s, ListsSound(s), Rooted(s),
           NEW a, a # NULL => a \in s.live /\ Present(s, s.mon[a]),
           NEW t, t = Focus(s, a)
    PROVE  Rooted(t)
<1>1. t.nmons = s.nmons /\ (t.selmon = s.selmon \/ (a # NULL /\ t.selmon = s.mon[a]))
  BY FocusSound DEF Refocuses
<1>2. Present(s, t.selmon)
  BY <1>1 DEF Rooted
<1>3. \A m \in Mon \ {t.selmon} : Range(t.stack[m]) \subseteq Range(s.stack[m])
  BY FocusMoves DEF OnlyTop
<1> QED  BY <1>1, <1>2, <1>3, RootedElsewhere

\* focus on a sound state settles it.
LEMMA FocusHandles ==
    ASSUME NEW s, NEW r, Keeps(s, r),
           NEW a, a # NULL => a \in s.live /\ Present(r, r.mon[a]),
           NEW t, t = Focus(r, a)
    PROVE  /\ Handles(s, t) /\ Top(t) /\ Refocuses(r, t)
           /\ OnlyTop(r, t) /\ (StacksKept(s, r) \/ r.stack = s.stack => OrderKept(s, t))
           /\ t.selmon = r.selmon \/ (a # NULL /\ t.selmon = r.mon[a])
<1>1. ListsSound(r) /\ r.live = s.live /\ Sound(r)
  BY DEF Keeps, Sound
<1>2. /\ Refocuses(r, t) /\ Top(t)
      /\ t.selmon = r.selmon \/ (a # NULL /\ t.selmon = r.mon[a])
      /\ r.lit \subseteq {Sel(r), Sel(t)} => t.lit \subseteq {Sel(t)}
  BY <1>1, FocusSound
<1>3. Flagged(t)
  <2>1. t.full \subseteq t.floating \cap t.live
    BY <1>1, <1>2 DEF Refocuses, Sound, Flagged
  <2> QED  BY <1>1, <1>2, <2>1, SameFlagged DEF Refocuses, Sound
<1>4. Home(t)
  <2>1. \A c \in r.live : Placed(r, c) => Placed(t, c)
    BY <1>2 DEF Refocuses, Placed
  <2>2. t.live = r.live
    BY <1>2 DEF Refocuses
  <2>3. Rooted(t)
    BY <1>1, FocusRooted DEF Sound, Home
  <2> QED  BY <1>1, <2>1, <2>2, <2>3 DEF Home, Sound
<1>5. LitOnly(t) /\ Unhurt(t)
  BY <1>1, <1>2 DEF LitOnly, Unhurt, Sound, Refocuses
<1>6. Sound(t)
  BY <1>2, <1>3, <1>4, <1>5 DEF Sound, Refocuses
<1>7. Settled(t)
  BY <1>2, TopSettles
<1>8. OnlyTop(r, t) /\ (StacksKept(s, r) \/ r.stack = s.stack => OrderKept(s, t))
  BY <1>1, FocusMoves, LinkedMove, StillOrder
<1> QED  BY <1>1, <1>2, <1>6, <1>7, <1>8 DEF Handles, Keeps, Refocuses

\* The step that follows a bad pointer leaves what it has not written.
LEMMA CrashKeeps ==
    ASSUME NEW s, Sound(s), ~Sure, NEW t, t = Crash(s)
    PROVE  /\ Handles(s, t) /\ OrderKept(s, t)
           /\ t.stack = s.stack /\ t.sel = s.sel /\ t.selmon = s.selmon
<1>1. s \in State
  BY DEF Sound, ListsSound
<1>2. /\ t \in State /\ SameTags(s, t) /\ SameFocus(s, t)
      /\ t.full = s.full /\ t.floating = s.floating
      /\ t.nmons = s.nmons /\ t.selmon = s.selmon /\ t.mon = s.mon
      /\ t.clients = s.clients /\ t.stack = s.stack /\ t.sel = s.sel
      /\ t.tagmarked = s.tagmarked /\ t.live = s.live
      /\ t.grab = s.grab /\ t.held = s.held
  BY <1>1 DEF Crash, State, SameTags, SameFocus
<1>3. ListsSound(t)
  BY <1>2, SameListsSound DEF Sound
<1>4. Flagged(t)
  BY ZenonT(40), <1>2, SameFlagged DEF Sound, Flagged
<1>5. Home(t) /\ LitOnly(t) /\ Unhurt(t)
  BY <1>2 DEF Home, Rooted, Present, Placed, LitOnly, Unhurt, Sel, SameFocus, Sound
<1>6. Visible(t) = Visible(s)
  BY <1>2, VisibleSame
<1>7. Sel(t) = Sel(s) /\ (AtHead(s) => AtHead(t))
  BY <1>2, AtHeadSame
<1>8. Settled(s) => Settled(t)
  BY <1>2, <1>6, <1>7 DEF Settled, HasKeyboard, SameFocus
<1>9. Handles(s, t)
  BY <1>2, <1>3, <1>4, <1>5, <1>8 DEF Handles, Keeps, Sound, SameFocus
<1> QED  BY <1>2, <1>9, StillOrder

\* selmon moves when nothing is lit; the lists do not.
LEMMA SelmonKeeps ==
    ASSUME NEW s, Sound(s), NEW m \in Mon, Present(s, m),
           Leaps \/ s.lit = {}, NEW t, t = [s EXCEPT !.selmon = m]
    PROVE  /\ Keeps(s, t) /\ SameTags(s, t) /\ t.selmon = m
           /\ t.mon = s.mon /\ t.nmons = s.nmons /\ t.clients = s.clients
           /\ t.stack = s.stack /\ t.sel = s.sel
<1>1. s \in State
  BY DEF Sound, ListsSound
<1>2. /\ t \in State /\ SameTags(s, t) /\ SameFocus(s, t)
      /\ t.full = s.full /\ t.floating = s.floating
      /\ t.nmons = s.nmons /\ t.selmon = m /\ t.mon = s.mon
      /\ t.clients = s.clients /\ t.stack = s.stack /\ t.sel = s.sel
      /\ t.tagmarked = s.tagmarked /\ t.live = s.live /\ t.ok = s.ok
      /\ t.grab = s.grab /\ t.held = s.held
  BY <1>1 DEF State, SameTags, SameFocus
<1>3. ListsSound(t)
  BY <1>2, SameListsSound DEF Sound
<1>4. Flagged(t)
  BY <1>2, SameFlagged DEF Sound, Flagged
<1>5. Home(t) /\ LitOnly(t) /\ Unhurt(t)
  BY <1>2 DEF Home, Rooted, Present, Placed, LitOnly, Unhurt, SameFocus, Sound
<1> QED  BY <1>2, <1>3, <1>4, <1>5 DEF Keeps, Sound

\* view changes what is in view, never the lists.
LEMMA ViewSound ==
    ASSUME NEW s, Sound(s), NEW g \in SUBSET Tag,
           NEW t, t = View(s, g)
    PROVE  /\ Handles(s, t) /\ (Top(s) => Top(t))
           /\ OrderKept(s, t) /\ FirstToTop(s, t) /\ (t = s \/ Top(t))
           /\ t.mon = s.mon /\ t.tags = s.tags /\ t.selmon = s.selmon /\ t.nmons = s.nmons
           /\ t.sticky = s.sticky
           /\ \A m \in Mon : Range(s.stack[m]) \subseteq Range(t.stack[m])
           /\ g # {} => TagSet(t, s.selmon) = g
<1> DEFINE m == s.selmon
           other == 1 - s.seltags[m]
           x == IF g # {} THEN g ELSE s.tagset[m][other]
           seltags == [s.seltags EXCEPT ![m] = other]
           sets == [s.tagset[m] EXCEPT ![other] = x]
           tagset == [s.tagset EXCEPT ![m] = sets]
           r == [s EXCEPT !.seltags = seltags, !.tagset = tagset]
<1>1. s \in State /\ m \in Mon /\ ListsSound(s)
  BY StateFields DEF ListsSound, Sound
<1>2. CASE g = TagSet(s, m)
  <2>1. t = s
    BY <1>1, <1>2 DEF View
  <2> QED  BY <1>2, <2>1, KeepsItself, NothingMoves
<1>3. CASE g # TagSet(s, m)
  <2>1. t = Focus([s EXCEPT !.seltags[m] = other,
                            !.tagset[m][other] = IF g # {} THEN g ELSE @], NULL)
    BY <1>3 DEF View
  <2>2. t = Focus(r, NULL)
    BY <1>1, <2>1 DEF State
  <2>3. /\ s.seltags \in [Mon -> 0..1] /\ s.tagset \in [Mon -> [0..1 -> SUBSET Tag]]
        /\ \A n \in Mon, i \in 0..1 : s.tagset[n][i] # {}
    BY <1>1 DEF State, Sound, Flagged
  <2>4. other \in 0..1 /\ x \in SUBSET Tag /\ x # {} /\ (g # {} => x = g)
    BY <1>1, <2>3
  <2> HIDE DEF other, x
  <2>5. /\ sets \in [0..1 -> SUBSET Tag] /\ sets[other] = x
        /\ \A i \in 0..1 : sets[i] # {}
    BY <1>1, <2>3, <2>4
  <2> HIDE DEF sets
  <2>6. /\ seltags \in [Mon -> 0..1] /\ tagset \in [Mon -> [0..1 -> SUBSET Tag]]
        /\ seltags[m] = other /\ tagset[m] = sets
        /\ \A n \in Mon, i \in 0..1 : tagset[n][i] # {}
    BY <1>1, <2>3, <2>4, <2>5
  <2> HIDE DEF seltags, tagset
  <2>7. /\ r \in State /\ SameLists(s, r) /\ SameFocus(s, r)
        /\ r.full = s.full /\ r.floating = s.floating
        /\ r.tags = s.tags /\ r.seltags = seltags /\ r.tagset = tagset
        /\ r.sticky = s.sticky
    BY <1>1, <2>6 DEF State, SameLists, SameFocus
  <2> HIDE DEF r
  <2>8. Flagged(r)
    BY <2>6, <2>7 DEF Flagged, Sound, SameLists
  <2>9. Keeps(s, r)
    BY <2>7, <2>8, SameKeeps DEF SameFocus
  <2>10. Handles(s, t) /\ Top(t) /\ Refocuses(r, t) /\ t.selmon = r.selmon
    BY <2>2, <2>9, FocusHandles
  <2>11. r.mon = s.mon /\ r.selmon = s.selmon /\ r.nmons = s.nmons /\ r.stack = s.stack
    BY <2>7 DEF SameLists
  <2>12. TagSet(r, m) = x
    BY <2>5, <2>6, <2>7 DEF TagSet
  <2>13. TagSet(t, m) = x
    BY <2>10, <2>12 DEF TagSet, Refocuses, SameTags
  <2>14. OrderKept(s, t)
    BY <2>2, <2>9, <2>11, FocusHandles
  <2>15. FirstToTop(s, t)
    <3>1. ListsSound(r)
      BY <2>9 DEF Keeps, Sound
    <3> QED  BY <2>2, <2>11, <3>1, FocusMoves, SameStackMoves
  <2> QED  BY <2>4, <2>7, <2>10, <2>11, <2>13, <2>14, <2>15 DEF Refocuses, SameTags
<1> QED  BY <1>2, <1>3

-----------------------------------------------------------------------------
(* From one monitor to another.                                            *)

\* c->mon and c->tags change while no list holds c.
LEMMA RehomeSound ==
    ASSUME NEW s, ListsSound(s), Flagged(s), NEW c \in Client, Unlisted(s, c), NEW n \in Mon,
           NEW t, t = Rehome(s, c, n)
    PROVE  /\ ListsSound(t) /\ Flagged(t) /\ Unlisted(t, c) /\ t.mon[c] = n
           /\ SameFocus(s, t)
           /\ t.clients = s.clients /\ t.stack = s.stack /\ t.sel = s.sel
           /\ t.selmon = s.selmon /\ t.nmons = s.nmons /\ t.live = s.live
           /\ t.ok = s.ok /\ t.grab = s.grab /\ t.held = s.held
           /\ \A d \in Client : d # c => t.mon[d] = s.mon[d]
<1> DEFINE mon == [s.mon EXCEPT ![c] = n]
           tags == [s.tags EXCEPT ![c] = TagSet(s, n)]
<1>1. s \in State
  BY DEF ListsSound
<1>2. t = [s EXCEPT !.mon = mon, !.tags = tags]
  BY <1>1 DEF Rehome, State
<1>3. /\ mon \in [Client -> Mon] /\ mon[c] = n
      /\ \A d \in Client : d # c => mon[d] = s.mon[d]
  BY <1>1, StateFields
<1>4. /\ tags \in [Client -> SUBSET Bit] /\ tags[c] \in SUBSET Tag /\ tags[c] # {}
      /\ \A d \in Client : d # c => tags[d] = s.tags[d]
  <2>1. s.tags \in [Client -> SUBSET Bit] /\ Tag \subseteq Bit
    BY <1>1, NTagsAssumption DEF State, Tag, Bit
  <2>2. TagSet(s, n) \in SUBSET Tag /\ TagSet(s, n) # {}
    BY <1>1, TagSetIs DEF Flagged, TagSet
  <2> QED  BY <2>1, <2>2
<1> HIDE DEF mon, tags
<1>5. t \in State
  BY ZenonT(40), <1>1, <1>2, <1>3, <1>4 DEF State
<1>6. /\ t.clients = s.clients /\ t.stack = s.stack /\ t.mon = mon /\ t.tags = tags
      /\ t.live = s.live /\ t.sel = s.sel /\ t.grab = s.grab /\ t.held = s.held
      /\ t.selmon = s.selmon /\ t.nmons = s.nmons /\ t.ok = s.ok
      /\ t.tagmarked = s.tagmarked /\ t.full = s.full /\ t.floating = s.floating
      /\ t.tagset = s.tagset /\ t.xfocus = s.xfocus /\ t.lit = s.lit
      /\ t.neverfocus = s.neverfocus /\ t.focusins = s.focusins
  BY <1>1, <1>2 DEF State
<1>7. ListsSound(t)
  <2> SUFFICES ASSUME NEW m \in Mon
               PROVE  MonSound(t, m)
    BY <1>5, ListsAreSound
  <2> QED  BY <1>3, <1>6, SoundLists DEF Unlisted, MonSound, MarksIn
<1>8. Flagged(t)
  <2>1. s.live \subseteq Client
    BY <1>1, StateFields
  <2> QED  BY <1>4, <1>6, <2>1 DEF Flagged
<1> QED  BY <1>3, <1>6, <1>7, <1>8 DEF Unlisted, SameFocus

\* unlink, another monitor, link: between them c has no place, and when it
\* had none left before it has one afterwards.
LEMMA RelinkKeeps ==
    ASSUME NEW s, Sound(s), Leaps \/ s.lit = {},
           NEW c \in Client, c \in s.live, NEW n \in Mon, Present(s, n),
           NEW r, r = Rehome(Unlink(s, c), c, n),
           NEW t, Stays(r, t), ListsSound(t), t.sel = r.sel,
           \A m \in Mon \ {n} : t.stack[m] = r.stack[m],
           \A d \in Client : Placed(r, d) => Placed(t, d),
           (\A d \in r.live : d # c => Placed(r, d))
               => t.ok = r.ok /\ (r.mon[c] <= r.nmons => Placed(t, c))
    PROVE  Keeps(s, t)
<1> DEFINE u == Unlink(s, c)
<1>1. ListsSound(s) /\ s.live \subseteq Client
  BY StateFields DEF Sound, ListsSound
<1>2. /\ Stays(s, u) /\ ListsSound(u) /\ Unlisted(u, c) /\ u.ok = s.ok
      /\ \A d \in Client : d # c /\ Placed(s, d) => Placed(u, d)
      /\ \A m \in Mon : Range(u.stack[m]) \subseteq Range(s.stack[m])
  <2>1. /\ Stays(s, u) /\ ListsSound(u) /\ Unlisted(u, c) /\ u.ok = s.ok
        /\ \A d \in Client : d # c /\ Placed(s, d) => Placed(u, d)
    BY <1>1, UnlinkSound
  <2>2. \A m \in Mon : Range(u.stack[m]) = Range(s.stack[m]) \ {c}
    BY <1>1, UnlinkOrder
  <2> QED  BY <2>1, <2>2
<1>3. r = Rehome(u, c, n)
  OBVIOUS
<1> HIDE DEF u
<1>4. Flagged(u)
  BY <1>2, SameFlagged DEF Sound, Stays, Flagged
<1>5. /\ ListsSound(r) /\ Flagged(r) /\ Unlisted(r, c) /\ r.mon[c] = n /\ SameFocus(u, r)
      /\ r.clients = u.clients /\ r.stack = u.stack
      /\ r.selmon = u.selmon /\ r.nmons = u.nmons /\ r.live = u.live
      /\ r.ok = u.ok /\ r.grab = u.grab /\ r.held = u.held
      /\ \A d \in Client : d # c => r.mon[d] = u.mon[d]
  BY <1>2, <1>3, <1>4, RehomeSound
<1>6. /\ r.lit = s.lit /\ r.selmon = s.selmon /\ r.nmons = s.nmons /\ r.live = s.live
      /\ r.ok = s.ok /\ r.grab = s.grab /\ r.held = s.held
  BY <1>2, <1>5 DEF Stays, SameFocus
<1>7. ASSUME "rotatestack" \notin Bound
      PROVE  t.ok = r.ok /\ \A d \in s.live : Placed(t, d)
  <2>1. \A d \in s.live : Placed(s, d)
    BY <1>7 DEF Sound, Home
  <2>2. \A d \in s.live : d # c => Placed(r, d)
    BY <1>1, <1>2, <1>5, <2>1 DEF Placed
  <2>3. n <= s.nmons
    BY <1>7 DEF Present, Strays
  <2>4. t.ok = r.ok /\ Placed(t, c)
    BY <1>5, <1>6, <2>2, <2>3
  <2> QED  BY <1>1, <2>1, <2>2, <2>4
<1>8. /\ t.lit = s.lit /\ t.selmon = s.selmon /\ t.nmons = s.nmons /\ t.live = s.live
      /\ t.grab = s.grab /\ t.held = s.held
  BY <1>6 DEF Stays, SameFocus
<1>9. Flagged(t)
  <2>1. t.full \subseteq t.floating \cap t.live
    BY <1>5 DEF Stays, Flagged
  <2> QED  BY <1>5, <2>1, SameFlagged DEF Stays
<1>10. Home(t)
  <2>1. Rooted(s)
    BY DEF Sound, Home
  <2>2. \A m \in Mon \ {n} : Range(t.stack[m]) \subseteq Range(s.stack[m])
    BY <1>2, <1>5
  <2>3. Rooted(t)
    BY <1>8, <2>1, <2>2, RootedElsewhere DEF Rooted, Present
  <2> QED  BY <1>7, <1>8, <2>3 DEF Home
<1>11. LitOnly(t)
  BY <1>8 DEF LitOnly
<1>12. Unhurt(t)
  BY <1>6, <1>7 DEF Unhurt, Sure, Sound
<1> QED  BY <1>8, <1>9, <1>10, <1>11, <1>12 DEF Keeps, Sound

\* unfocus before a monitor is left: then nothing is lit.
LEMMA UnfocusKeeps ==
    ASSUME NEW s, Sound(s), NEW root, NEW c \in ClientOrNull, NEW t, t = Unfocus(s, c, root)
    PROVE  /\ Keeps(s, t) /\ SameLists(s, t) /\ SameTags(s, t)
           /\ t.floating = s.floating
           /\ c = Sel(s) => Leaps \/ t.lit = {}
<1>1. ListsSound(s)
  BY DEF Sound
<1>2. /\ t \in State /\ SameLists(s, t) /\ SameTags(s, t)
      /\ t.full = s.full /\ t.floating = s.floating
      /\ t.lit = s.lit \ {c}
  BY <1>1, UnfocusSound
<1>3. Flagged(t)
  <2>1. Flagged(s) /\ t.full \subseteq t.floating \cap t.live
    BY <1>2 DEF Sound, Flagged, SameLists
  <2> QED  BY <1>2, <2>1, SameFlagged DEF SameLists
<1>4. Keeps(s, t)
  BY <1>2, <1>3, SameKeeps
<1> QED  BY <1>2, <1>4 DEF Sound, LitOnly

\* sendmon takes a client out of the lists of one monitor and links it into
\* those of another, between an unfocus and a focus.
LEMMA SendMonSound ==
    ASSUME NEW s, Sound(s), NEW c \in Client, c \in s.live, c = Sel(s) \/ Leaps,
           NEW n \in Mon, Present(s, n),
           NEW k \in Nat, NEW t, t = SendMon(s, c, n, k)
    PROVE  /\ Handles(s, t) /\ OrderKept(s, t) /\ OrderButTop(s, t)
           /\ t.nmons = s.nmons /\ t.selmon = s.selmon
<1>1. CASE s.mon[c] = n
  <2>1. t = s
    BY <1>1 DEF SendMon
  <2> QED  BY <2>1, KeepsItself, SameOrderItself DEF OrderButTop
<1>2. CASE s.mon[c] # n
  <2> DEFINE yes == TRUE
             s1 == Unfocus(s, c, yes)
             s3 == Rehome(Unlink(s1, c), c, n)
             s4 == Link(s3, c, k)
  <2>1. t = Focus(s4, NULL)
    BY <1>2 DEF SendMon
  <2>2. c \in ClientOrNull
    BY DEF ClientOrNull
  <2> HIDE DEF yes
  <2>3. Keeps(s, s1) /\ SameLists(s, s1) /\ (Leaps \/ s1.lit = {})
    BY <2>2, UnfocusKeeps
  <2> HIDE DEF s1
  <2>4. Sound(s1) /\ c \in s1.live /\ Present(s1, n)
    BY <2>3 DEF Keeps, SameLists, Present
  <2>5. /\ ListsSound(s3) /\ c \in s3.live /\ Unlisted(s3, c) /\ s3.nmons = s1.nmons
        /\ s3.selmon = s1.selmon /\ s3.mon[c] = n /\ StacksKept(s1, s3)
        /\ \A m \in Mon : Range(s3.stack[m]) = Range(s1.stack[m]) \ {c}
    <3> DEFINE u == Unlink(s1, c)
    <3>1. ListsSound(s1)
      BY <2>4 DEF Sound
    <3>2. /\ Stays(s1, u) /\ ListsSound(u) /\ Unlisted(u, c) /\ StacksKept(s1, u)
          /\ \A m \in Mon : Range(u.stack[m]) = Range(s1.stack[m]) \ {c}
      <4>1. Stays(s1, u) /\ ListsSound(u) /\ Unlisted(u, c)
        BY <3>1, UnlinkSound
      <4>2. /\ StacksKept(s1, u)
            /\ \A m \in Mon : Range(u.stack[m]) = Range(s1.stack[m]) \ {c}
        BY <3>1, UnlinkOrder
      <4> QED  BY <4>1, <4>2
    <3>3. Flagged(u)
      BY <2>4, <3>2, SameFlagged DEF Sound, Stays, Flagged
    <3>4. s3 = Rehome(u, c, n)
      OBVIOUS
    <3> HIDE DEF u, s3
    <3>5. /\ ListsSound(s3) /\ Unlisted(s3, c) /\ s3.live = u.live /\ s3.nmons = u.nmons
          /\ s3.selmon = u.selmon /\ s3.mon[c] = n /\ s3.stack = u.stack
      BY <3>2, <3>3, <3>4, RehomeSound
    <3>6. StacksKept(s1, s3)
      BY <3>2, <3>5 DEF StacksKept
    <3> QED  BY <2>4, <3>2, <3>5, <3>6 DEF Stays
  <2>6. s3 = Rehome(Unlink(s1, c), c, n)
    OBVIOUS
  <2> HIDE DEF s3
  <2>7. /\ Stays(s3, s4) /\ ListsSound(s4) /\ s4.sel = s3.sel
        /\ \A d \in Client : Placed(s3, d) => Placed(s4, d)
        /\ (\A d \in s3.live : d # c => Placed(s3, d))
               => s4.ok = s3.ok /\ (s3.mon[c] <= s3.nmons => Placed(s4, c))
        /\ StacksKept(s3, s4) /\ \A m \in Mon \ {n} : s4.stack[m] = s3.stack[m]
    BY <2>5, LinkSound, LinkOrder
  <2> HIDE DEF s4
  <2>8. Keeps(s1, s4)
    BY <2>3, <2>4, <2>6, <2>7, RelinkKeeps
  <2>9. Keeps(s, s4) /\ s4.nmons = s.nmons /\ s4.selmon = s.selmon
    BY <2>3, <2>5, <2>7, <2>8, KeepsTransitive DEF Stays, SameLists
  <2>10. StacksKept(s, s4)
    <3>1. ListsSound(s1) /\ s4.mon[c] # s1.mon[c]
      BY <1>2, <2>3, <2>4, <2>5, <2>7 DEF Sound, SameLists, Stays
    <3>2. StacksKept(s1, s4)
      BY <2>5, <2>7, <3>1, RelinkOrder
    <3> QED  BY <2>3, <3>2 DEF SameLists, StacksKept
  <2> QED  BY <2>1, <2>9, <2>10, FocusHandles, LinkedMove DEF Refocuses
<1> QED  BY <1>1, <1>2

-----------------------------------------------------------------------------
(* Flags.                                                                  *)

\* setfullscreen changes flags only, and what becomes fullscreen floats.
LEMMA SetFullscreenSound ==
    ASSUME NEW s \in State, NEW c \in Client, NEW on,
           NEW t, t = SetFullscreen(s, c, on)
    PROVE  /\ t \in State /\ SameLists(s, t) /\ SameTags(s, t) /\ SameFocus(s, t)
           /\ c \in s.live /\ s.full \subseteq s.floating \cap s.live
                  => t.full \subseteq t.floating \cap t.live
           /\ \A d \in Client \ {c} : d \in t.floating <=> d \in s.floating
           /\ c \notin s.full /\ (on \/ c \in s.floating) => c \in t.floating
<1>1. /\ s.full \in SUBSET Client /\ s.floating \in SUBSET Client
      /\ s.oldstate \in SUBSET Client
  BY DEF State
<1>2. CASE on /\ c \notin s.full
  <2> DEFINE old == IF c \in s.floating THEN s.oldstate \cup {c} ELSE s.oldstate \ {c}
  <2>1. /\ s.full \cup {c} \in SUBSET Client /\ s.floating \cup {c} \in SUBSET Client
        /\ old \in SUBSET Client
    BY <1>1
  <2>2. t = [s EXCEPT !.full = s.full \cup {c}, !.floating = s.floating \cup {c},
                      !.oldstate = old]
    BY <1>2 DEF SetFullscreen, State
  <2> HIDE DEF old
  <2>3. /\ t \in State /\ SameLists(s, t) /\ SameTags(s, t) /\ SameFocus(s, t)
        /\ t.full = s.full \cup {c} /\ t.floating = s.floating \cup {c}
        /\ t.live = s.live
    BY ZenonT(40), <2>1, <2>2 DEF State, SameLists, SameTags, SameFocus
  <2> QED  BY <2>3
<1>3. CASE ~on /\ c \in s.full
  <2> DEFINE fl == IF c \in s.oldstate THEN s.floating \cup {c} ELSE s.floating \ {c}
  <2>1. /\ s.full \ {c} \in SUBSET Client /\ s.oldstate \ {c} \in SUBSET Client
        /\ fl \in SUBSET Client
        /\ s.full \subseteq s.floating => s.full \ {c} \subseteq fl
        /\ \A d \in Client \ {c} : d \in fl <=> d \in s.floating
    BY <1>1
  <2>2. t = [s EXCEPT !.full = s.full \ {c}, !.floating = fl,
                      !.oldstate = s.oldstate \ {c}]
    BY <1>3 DEF SetFullscreen, State
  <2> HIDE DEF fl
  <2>3. /\ t \in State /\ SameLists(s, t) /\ SameTags(s, t) /\ SameFocus(s, t)
        /\ t.full = s.full \ {c} /\ t.floating = fl /\ t.live = s.live
    BY ZenonT(40), <2>1, <2>2 DEF State, SameLists, SameTags, SameFocus
  <2> QED  BY <1>3, <2>1, <2>3
<1>4. CASE ~(on /\ c \notin s.full) /\ ~(~on /\ c \in s.full)
  <2>1. t = s
    BY <1>4 DEF SetFullscreen
  <2> QED  BY <1>4, <2>1 DEF SameLists, SameTags, SameFocus
<1> QED  BY <1>2, <1>3, <1>4

\* setsticky changes what is visible, and no list.
LEMMA SetStickySound ==
    ASSUME NEW s \in State, NEW c \in Client, NEW on,
           NEW t, t = SetSticky(s, c, on)
    PROVE  /\ t \in State /\ SameLists(s, t) /\ SameFocus(s, t)
           /\ t.full = s.full /\ t.floating = s.floating
           /\ t.tags = s.tags /\ t.tagset = s.tagset /\ t.seltags = s.seltags
           /\ \A d \in Client \ {c} : d \in t.sticky <=> d \in s.sticky
<1> DEFINE x == IF on THEN s.sticky \cup {c} ELSE s.sticky \ {c}
<1>1. x \in SUBSET Client /\ \A d \in Client \ {c} : d \in x <=> d \in s.sticky
  BY DEF State
<1>2. t = [s EXCEPT !.sticky = x]
  BY DEF SetSticky, State
<1> HIDE DEF x
<1>3. /\ t \in State /\ SameLists(s, t) /\ SameFocus(s, t) /\ t.sticky = x
      /\ t.full = s.full /\ t.floating = s.floating
      /\ t.tags = s.tags /\ t.tagset = s.tagset /\ t.seltags = s.seltags
  BY ZenonT(40), <1>1, <1>2 DEF State, SameLists, SameFocus
<1> QED  BY <1>1, <1>3

\* togglefloating leaves fullscreen clients alone.
LEMMA ToggleFloatingSound ==
    ASSUME NEW s, Sound(s), NEW fixed, NEW t, t = ToggleFloating(s, fixed)
    PROVE  Handles(s, t) /\ OrderKept(s, t)
<1> DEFINE c == Sel(s)
           x == IF c \notin s.floating \/ fixed THEN s.floating \cup {c} ELSE s.floating \ {c}
<1>1. s \in State /\ s.floating \in SUBSET Client /\ c \in ClientOrNull
  BY StateFields DEF Sound, ListsSound, State, Sel
<1>2. CASE c = NULL \/ c \in s.full
  <2>1. t = s
    BY <1>2 DEF ToggleFloating
  <2> QED  BY <2>1, KeepsItself
<1>3. CASE ~(c = NULL \/ c \in s.full)
  <2>1. x \in SUBSET Client /\ (s.full \subseteq s.floating => s.full \subseteq x)
    BY <1>1, <1>3 DEF ClientOrNull
  <2>2. t = [s EXCEPT !.floating = x]
    BY <1>1, <1>3 DEF ToggleFloating, State
  <2> HIDE DEF x
  <2>3. /\ t \in State /\ SameLists(s, t) /\ SameTags(s, t) /\ SameFocus(s, t)
        /\ t.full = s.full /\ t.floating = x
    BY ZenonT(40), <1>1, <2>1, <2>2 DEF State, SameLists, SameTags, SameFocus
  <2>4. t.full \subseteq t.floating \cap t.live
    BY <2>1, <2>3 DEF Sound, Flagged, SameLists
  <2> QED  BY <2>3, <2>4, SameHandles
<1> QED  BY <1>2, <1>3

-----------------------------------------------------------------------------
(* Within a monitor.                                                       *)

\* detach and an attach: c changes its place in the list, not in the stack.
LEMMA MovedSound ==
    ASSUME NEW s, ListsSound(s), NEW c \in Client, c \in Range(s.stack[s.mon[c]]),
           NEW r, r = Detach(s, c), NEW t, Linked(r, t, c)
    PROVE  /\ ListsSound(t) /\ Stays(s, t)
           /\ t.stack = s.stack /\ t.sel = s.sel
<1>1. /\ Stays(s, r) /\ ListsSound(r) /\ r.stack = s.stack /\ r.sel = s.sel
  BY DetachSound
<1>2. /\ Stays(r, t) /\ t.stack = r.stack /\ t.sel = r.sel /\ t.tagmarked = r.tagmarked
  BY DEF Linked
<1>3. Stays(s, t)
  BY <1>1, <1>2, StaysTransitive
<1>4. t \in State /\ t.mon = r.mon /\ t.live = r.live
  BY <1>2 DEF Stays
<1>5. \A m \in Mon : MonSound(t, m)
  <2> SUFFICES ASSUME NEW m \in Mon
               PROVE  MonSound(t, m)
    OBVIOUS
  <2>1. /\ t.clients[m] \in Distinct(Client)
        /\ \A d \in Range(t.clients[m]) :
              d \in Range(r.clients[m]) \/ (d = c /\ m = r.mon[c])
    BY DEF Linked
  <2>2. Range(r.clients[m]) \subseteq Range(r.stack[m]) /\ r.mon = s.mon
    BY <1>1, SoundLists DEF Stays
  <2>3. Range(t.clients[m]) \subseteq Range(t.stack[m])
    BY <1>1, <1>2, <2>1, <2>2
  <2>4. MarksIn(t, m)
    BY <1>1, <1>2, SoundLists DEF MarksIn
  <2> QED  BY <1>1, <1>2, <1>4, <2>1, <2>3, <2>4, SoundLists DEF MonSound
<1>6. ListsSound(t)
  BY <1>4, <1>5, ListsAreSound
<1> QED  BY <1>1, <1>2, <1>3, <1>6

\* detach, attach: the others keep their places, and c has one.
LEMMA ToHeadSound ==
    ASSUME NEW s, ListsSound(s), NEW c \in Client, c \in Range(s.stack[s.mon[c]]),
           NEW t, t = Attach(Detach(s, c), c)
    PROVE  /\ Stays(s, t) /\ ListsSound(t)
           /\ t.stack = s.stack /\ t.sel = s.sel /\ t.ok = s.ok
           /\ \A d \in Client : Placed(s, d) => Placed(t, d)
<1> DEFINE r == Detach(s, c)
<1>1. /\ ListsSound(r) /\ Stays(s, r) /\ r.ok = s.ok
      /\ \A m \in Mon : Range(r.clients[m]) = Range(s.clients[m]) \ {c}
  BY DetachSound
<1>2. r \in State /\ r.mon[c] \in Mon /\ r.mon = s.mon /\ r.nmons = s.nmons
  BY <1>1, StateFields DEF ListsSound, Stays
<1>3. \A m \in Mon : r.clients[m] \in Distinct(Client)
  BY <1>1, SoundLists
<1>4. Linked(r, t, c) /\ Hung(r, t, c)
  <2> HIDE DEF r
  <2>1. t = Attach(r, c)
    BY DEF r
  <2> QED  BY <1>1, <1>2, <1>3, <2>1, AttachLinked
<1>5. r = Detach(s, c)
  OBVIOUS
<1> HIDE DEF r
<1>6. ListsSound(t) /\ Stays(s, t) /\ t.stack = s.stack /\ t.sel = s.sel
  BY <1>4, <1>5, MovedSound
<1>7. ASSUME NEW d \in Client, Placed(s, d)
      PROVE  Placed(t, d)
  <2>1. s.mon[d] \in Mon /\ t.mon = s.mon /\ t.nmons = s.nmons
    BY <1>6, StateFields DEF ListsSound, Stays
  <2>2. CASE d = c
    BY <1>2, <1>4, <1>7, <2>1, <2>2 DEF Placed, Hung
  <2>3. CASE d # c
    <3>1. d \in Range(r.clients[s.mon[d]])
      BY <1>1, <1>7, <2>1, <2>3 DEF Placed
    <3> QED  BY <1>4, <1>7, <2>1, <3>1 DEF Placed, Linked
  <2> QED  BY <2>2, <2>3
<1> QED  BY <1>1, <1>4, <1>6, <1>7 DEF Hung

\* A list without members has no head.
LEMMA EmptyRange ==
    ASSUME NEW S, NEW q \in Seq(S), Range(q) = {}
    PROVE  q = << >>
<1>1. Len(q) \in Nat /\ \A i \in 1..Len(q) : q[i] \in Range(q)
  BY RangeIs
<1>2. Len(q) = 0
  BY <1>1
<1> QED  BY <1>2, EmptySeq

\* enqueuestack touches the stack of one monitor.
LEMMA EnqueueStackIs ==
    ASSUME NEW s \in State, NEW c \in Client, NEW t, t = EnqueueStack(s, c)
    PROVE  \A m \in Mon \ {s.mon[c]} : t.stack[m] = s.stack[m]
<1> DEFINE n == s.mon[c]
           q == IF s.stack[n] = << >> THEN s.stack[n] ELSE Append(s.stack[n], c)
           stack == [s.stack EXCEPT ![n] = q]
<1>1. t = [s EXCEPT !.stack = stack]
  BY DEF EnqueueStack, State
<1>2. \A m \in Mon \ {n} : stack[m] = s.stack[m]
  BY StateFields
<1> HIDE DEF stack
<1> QED  BY <1>1, <1>2 DEF State

\* detach, enqueue, detachstack, enqueuestack.  enqueue and enqueuestack do
\* nothing on an empty list: c may lose its place in one of the two lists,
\* but never be left in the list of clients alone.
LEMMA ToRearSound ==
    ASSUME NEW s, ListsSound(s), NEW c \in Client, c \in Range(s.stack[s.mon[c]]),
           NEW t, t = EnqueueStack(DetachStack(Enqueue(Detach(s, c), c), c), c)
    PROVE  /\ Stays(s, t) /\ ListsSound(t) /\ t.ok = s.ok
           /\ \A m \in Mon : s.sel[m] # c => t.sel[m] = s.sel[m]
           /\ \A m \in Mon \ {s.mon[c]} : t.stack[m] = s.stack[m]
<1> DEFINE n == s.mon[c]
           s1 == Detach(s, c)
           s2 == Enqueue(s1, c)
           s3 == DetachStack(s2, c)
<1>1. /\ ListsSound(s1) /\ Stays(s, s1) /\ s1.stack = s.stack /\ s1.sel = s.sel /\ s1.ok = s.ok
      /\ \A m \in Mon : Range(s1.clients[m]) = Range(s.clients[m]) \ {c}
      /\ \A m \in Mon, i \in 1..(NTags - 1) : s1.tagmarked[m][i] # c
  BY DetachSound
<1>2. n \in Mon /\ s1 \in State /\ s1.mon = s.mon
  BY <1>1, StateFields DEF ListsSound, Stays
<1>3. \A m \in Mon : s1.clients[m] \in Distinct(Client)
  BY <1>1, SoundLists
<1>4. s1 = Detach(s, c)
  OBVIOUS
<1> HIDE DEF s1
<1>5. /\ Linked(s1, s2, c) /\ s2.ok = s1.ok
      /\ s1.clients[n] = << >> => s2.clients = s1.clients
  <2> DEFINE q == IF s1.clients[n] = << >> THEN s1.clients[n] ELSE Append(s1.clients[n], c)
  <2>1. s2 = [s1 EXCEPT !.clients[s1.mon[c]] = q]
    BY <1>2 DEF Enqueue, State
  <2>2. CASE s1.clients[n] = << >>
    <3>1. s1.clients \in [Mon -> Seq(Client)]
      BY <1>2, StateFields
    <3> DEFINE same == [s1.clients EXCEPT ![n] = s1.clients[n]]
    <3>2. same = s1.clients
      BY <1>2, <3>1
    <3>3. s2 = [s1 EXCEPT !.clients = same]
      BY <1>2, <2>1, <2>2 DEF State
    <3> HIDE DEF same, s2, q
    <3>4. /\ s2.clients = s1.clients /\ Stays(s1, s2) /\ s2.ok = s1.ok
          /\ s2.stack = s1.stack /\ s2.sel = s1.sel /\ s2.tagmarked = s1.tagmarked
      BY <1>2, <3>2, <3>3 DEF State, Stays, SameTags, SameFocus
    <3> QED  BY <1>3, <3>4 DEF Linked
  <2>3. CASE s1.clients[n] # << >>
    <3>0. s1.clients[n] \in Distinct(Client) /\ c \notin Range(s1.clients[n])
      BY <1>1, <1>2, <1>3
    <3>1. q \in Distinct(Client) /\ Range(q) = Range(s1.clients[s1.mon[c]]) \cup {c}
      BY <1>2, <2>3, <3>0, AppendDistinct
    <3> HIDE DEF q, s2
    <3>2. Linked(s1, s2, c) /\ Hung(s1, s2, c)
      BY <1>2, <1>3, <2>1, <3>1, PutLinked
    <3> QED  BY <2>3, <3>2 DEF Hung
  <2> QED  BY <2>2, <2>3
<1>6. t = EnqueueStack(s3, c)
  BY <1>4
<1> HIDE DEF s2
<1>7. ListsSound(s2) /\ Stays(s, s2) /\ s2.stack = s.stack /\ s2.sel = s.sel
  BY <1>4, <1>5, MovedSound
<1>8. /\ Stays(s2, s3) /\ s3.clients = s2.clients /\ s3.tagmarked = s2.tagmarked
      /\ s3.ok = s2.ok
      /\ \A m \in Mon :
            /\ s3.stack[m] \in Distinct(Client)
            /\ Range(s3.stack[m]) = Range(s2.stack[m]) \ {c}
            /\ s3.sel[m] # NULL => s3.sel[m] \in Range(s3.stack[m])
            /\ s2.sel[m] # c => s3.sel[m] = s2.sel[m]
  BY <1>7, DetachStackSound
<1> HIDE DEF s3
<1>9. Stays(s, s3)
  BY <1>7, <1>8, StaysTransitive
<1>10. s3 \in State /\ s3.mon = s.mon /\ s3.live = s.live
  BY <1>9 DEF Stays
<1>11. \A m \in Mon : \A d \in Range(s2.stack[m]) : d \in s3.live /\ s3.mon[d] = m
  BY <1>7, <1>8, SoundLists DEF Stays
<1>12. \A m \in Mon : /\ s2.clients[m] \in Distinct(Client)
                       /\ Range(s2.clients[m]) \subseteq Range(s2.stack[m])
  BY <1>7, SoundLists
<1>13. \A m \in Mon : MarksIn(s3, m)
  <2>1. s2.tagmarked = s1.tagmarked
    BY <1>5 DEF Linked
  <2> QED  BY <1>1, <1>7, <1>8, <2>1, SoundLists DEF MarksIn
<1>14. s3.ok = s.ok /\ \A m \in Mon : s.sel[m] # c => s3.sel[m] = s.sel[m]
  BY <1>1, <1>5, <1>7, <1>8
<1>15. \A m \in Mon \ {n} : t.stack[m] = s.stack[m]
  <2>1. s2 \in State /\ s2.mon[c] = n
    BY <1>7 DEF ListsSound, Stays
  <2>2. \A m \in Mon \ {n} : s3.stack[m] = s2.stack[m]
    BY <2>1, DetachStackIs DEF s3
  <2>3. \A m \in Mon \ {n} : t.stack[m] = s3.stack[m]
    BY <1>6, <1>10, EnqueueStackIs
  <2> QED  BY <1>7, <2>2, <2>3
<1>16. CASE s3.stack[n] = << >>
  <2>1. Range(s1.clients[n]) \subseteq Range(s1.stack[n]) \ {c}
    BY SMTT(30), <1>1, <1>2, SoundLists
  <2>2. Range(s3.stack[n]) = {}
    BY <1>16 DEF Range
  <2>3. Range(s1.clients[n]) = {} /\ s1.clients[n] \in Seq(Client)
    <3>1. s1.stack = s2.stack
      BY <1>1, <1>7
    <3>2. Range(s3.stack[n]) = Range(s2.stack[n]) \ {c}
      BY <1>2, <1>8
    <3>3. s1.clients[n] \in Seq(Client)
      BY <1>2, <1>3 DEF Distinct
    <3> QED  BY <2>1, <2>2, <3>1, <3>2, <3>3
  <2>4. s2.clients = s1.clients
    BY <1>5, <2>3, EmptyRange
  <2>5. t = s3
    <3>1. s3.stack \in [Mon -> Seq(Client)]
      BY <1>10, StateFields
    <3> DEFINE same == [s3.stack EXCEPT ![n] = s3.stack[n]]
    <3>2. same = s3.stack
      BY <1>2, <3>1
    <3>3. t = [s3 EXCEPT !.stack = same]
      BY <1>6, <1>10, <1>16 DEF EnqueueStack, State
    <3> HIDE DEF same
    <3> QED  BY <1>10, <3>2, <3>3 DEF State
  <2>6. \A m \in Mon : Range(s3.clients[m]) \subseteq Range(s3.stack[m])
    BY <1>1, <1>8, <1>12, <2>4
  <2>7. \A m \in Mon : MonSound(s3, m)
    BY <1>8, <1>11, <1>12, <1>13, <2>6 DEF MonSound
  <2>8. ListsSound(s3)
    BY <1>10, <2>7, ListsAreSound
  <2> QED  BY <1>9, <1>14, <1>15, <2>5, <2>8
<1>17. CASE s3.stack[n] # << >>
  <2> DEFINE q == Append(s3.stack[n], c)
  <2>1. \A m \in Mon : c \notin Range(s3.stack[m])
    BY <1>8
  <2>2. q \in Distinct(Client) /\ Range(q) = {c} \cup Range(s3.stack[n])
    BY <1>2, <1>8, <2>1, AppendDistinct
  <2>3. t = [s3 EXCEPT !.stack[s3.mon[c]] = q]
    BY <1>6, <1>10, <1>17 DEF EnqueueStack, State
  <2> HIDE DEF q
  <2>4. Entering(s3, c)
    <3>1. c \in s3.live /\ \A m \in Mon : c \in Range(s2.stack[m]) => m = n
      BY <1>2, <1>7, <1>10, <1>11
    <3>2. ASSUME NEW m \in Mon
          PROVE  /\ s3.clients[m] \in Distinct(Client) /\ s3.stack[m] \in Distinct(Client)
                 /\ c \notin Range(s3.stack[m])
                 /\ \A d \in Range(s3.clients[m]) :
                       d \in Range(s3.stack[m]) \/ (d = c /\ m = s3.mon[c])
                 /\ \A d \in Range(s3.stack[m]) : d \in s3.live /\ s3.mon[d] = m
                 /\ s3.sel[m] # NULL => s3.sel[m] \in Range(s3.stack[m])
      BY <1>8, <1>10, <1>11, <1>12, <3>1
    <3> QED  BY <1>10, <1>13, <3>1, <3>2 DEF Entering, MarksIn
  <2>5. ListsSound(t) /\ Stays(s3, t) /\ t.sel = s3.sel /\ t.ok = s3.ok
    BY <1>10, <2>2, <2>3, <2>4, PutStackSound
  <2>6. Stays(s, t)
    BY <1>9, <2>5, StaysTransitive
  <2> QED  BY <1>14, <1>15, <2>5, <2>6
<1> QED  BY <1>16, <1>17
=============================================================================
