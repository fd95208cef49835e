---------------------------- MODULE AgentProofs ----------------------------
(***************************************************************************)
(* The agent's safety properties, for every size of the conversation, of   *)
(* the steering ring and of a response, and every limit on the rounds.     *)
(***************************************************************************)
EXTENDS Agent, ClientListsProofs

-----------------------------------------------------------------------------
(* The conversation.                                                       *)

\* It begins with the system prompt, and has room for what it holds.
Talk(q) == /\ q \in Seq(Message) /\ Len(q) \in 1..MAX_MESSAGES
           /\ q[1].role = "system"

\* Each call still in the conversation is followed by its results, owed of
\* which are outstanding for the last response.
Answered(q, i) ==
    LET n == q[i].calls
    IN  /\ i + n <= Len(q)
        /\ \A j \in (i + 1)..(i + n) : q[j].role = "tool"
        /\ i + n < Len(q) => q[i + n + 1].role # "tool"
Pending(q, i, owed) ==
    /\ Len(q) - i = q[i].calls - owed
    /\ \A j \in (i + 1)..Len(q) : q[j].role = "tool"
InOrder(q, owed) ==
    \A i \in 1..Len(q) : q[i].role = "assistant" =>
        \/ Answered(q, i) /\ (owed > 0 => i + q[i].calls < Len(q))
        \/ owed > 0 /\ Pending(q, i, owed)

\* A function on 1..n is a sequence of length n.
LEMMA FunctionSeq ==
    ASSUME NEW S, NEW n \in Nat, NEW d \in [1..n -> S]
    PROVE  d \in Seq(S) /\ Len(d) = n
<1>1. d \in Seq(S)
  BY SeqDef
<1>2. Len(d) \in Nat /\ 1..Len(d) = 1..n
  BY <1>1, LenProperties
<1> QED  BY <1>1, <1>2

\* What drop_oldest_message takes out is the first message that is not of
\* the system.
LEMMA DropIs ==
    ASSUME NEW q, Talk(q), Droppable(q) # {}
    PROVE  \E k \in 2..Len(q) :
             /\ q[k].role # "system"
             /\ \A i \in 1..(k - 1) : q[i].role = "system"
             /\ Drop(q) = [i \in 1..(Len(q) - 1) |-> IF i < k THEN q[i] ELSE q[i + 1]]
<1>1. Droppable(q) \subseteq Nat
  BY DEF Droppable, Talk
<1>2. \E i \in Droppable(q) : \A j \in Droppable(q) : i <= j
  BY <1>1, LeastNatural
<1>3. PICK k : k = CHOOSE i \in Droppable(q) : \A j \in Droppable(q) : i <= j
  OBVIOUS
<1>4. k \in Droppable(q) /\ \A j \in Droppable(q) : k <= j
  BY <1>2, <1>3
<1>5. k \in 2..Len(q) /\ k \in Nat /\ Len(q) \in Nat /\ q[k].role # "system"
  BY <1>4 DEF Droppable, Talk
<1>6. ASSUME NEW i \in 1..(k - 1)
      PROVE  q[i].role = "system"
  <2>1. CASE i = 1
    BY <2>1 DEF Talk
  <2>2. CASE i # 1
    <3>1. i \in 2..Len(q) /\ ~(k <= i)
      BY <1>5, <2>2
    <3> QED  BY <1>4, <3>1 DEF Droppable
  <2> QED  BY <2>1, <2>2
<1>7. Drop(q) = [i \in 1..(Len(q) - 1) |-> IF i < k THEN q[i] ELSE q[i + 1]]
  BY <1>3 DEF Drop
<1> QED  BY <1>5, <1>6, <1>7

\* A shorter conversation in the same order.
LEMMA DropTalk ==
    ASSUME NEW q, Talk(q), Droppable(q) # {}, NEW owed \in Nat, InOrder(q, owed)
    PROVE  Talk(Drop(q)) /\ Len(Drop(q)) = Len(q) - 1 /\ InOrder(Drop(q), owed)
<1>1. PICK k \in 2..Len(q) :
        /\ \A i \in 1..(k - 1) : q[i].role = "system"
        /\ Drop(q) = [i \in 1..(Len(q) - 1) |-> IF i < k THEN q[i] ELSE q[i + 1]]
  BY DropIs
<1>2. PICK d : d = Drop(q)
  OBVIOUS
<1>3. Len(q) \in Nat /\ k \in 2..Len(q) /\ q \in Seq(Message) /\ Len(q) <= MAX_MESSAGES
  BY <1>1 DEF Talk
<1>4. /\ d \in Seq(Message) /\ Len(d) = Len(q) - 1
      /\ \A i \in 1..Len(d) : d[i] = IF i < k THEN q[i] ELSE q[i + 1]
  <2>1. \A i \in 1..Len(q) : q[i] \in Message
    BY <1>3
  <2>2. \A i \in 1..(Len(q) - 1) : (IF i < k THEN q[i] ELSE q[i + 1]) \in Message
    BY <1>3, <2>1
  <2>3. d \in [1..(Len(q) - 1) -> Message] /\ Len(q) - 1 \in Nat
    BY <1>1, <1>2, <1>3, <2>2
  <2>4. d \in Seq(Message) /\ Len(d) = Len(q) - 1
    BY <2>3, FunctionSeq
  <2>5. \A i \in 1..(Len(q) - 1) : d[i] = IF i < k THEN q[i] ELSE q[i + 1]
    BY <1>1, <1>2
  <2> QED  BY <2>4, <2>5
<1>5. Talk(d)
  BY <1>1, <1>3, <1>4, MessagesAssumption DEF Talk
<1>6. ASSUME NEW i \in 1..Len(d), d[i].role = "assistant"
      PROVE  i >= k /\ i + 1 \in 1..Len(q) /\ d[i] = q[i + 1] /\ d[i].calls \in Nat
             /\ \A j \in i..Len(d) : d[j] = q[j + 1]
  <2>1. i >= k
    BY <1>1, <1>3, <1>4, <1>6
  <2>2. d[i] \in Message
    BY <1>4
  <2>3. d[i].calls \in Nat
    BY <2>2, CallsAssumption DEF Message
  <2>4. \A j \in i..Len(d) : j \in 1..Len(d) /\ ~(j < k)
    BY <1>3, <1>4, <2>1
  <2>5. \A j \in i..Len(d) : d[j] = q[j + 1]
    BY <1>4, <2>4
  <2>6. i + 1 \in 1..Len(q) /\ i \in i..Len(d)
    BY <1>3, <1>4
  <2> QED  BY <2>1, <2>3, <2>5, <2>6
<1>7. InOrder(d, owed)
  <2> SUFFICES ASSUME NEW i \in 1..Len(d), d[i].role = "assistant"
               PROVE  \/ Answered(d, i) /\ (owed > 0 => i + d[i].calls < Len(d))
                      \/ owed > 0 /\ Pending(d, i, owed)
    BY DEF InOrder
  <2>1. \/ Answered(q, i + 1) /\ (owed > 0 => i + 1 + q[i + 1].calls < Len(q))
        \/ owed > 0 /\ Pending(q, i + 1, owed)
    BY <1>6 DEF InOrder
  <2>2. CASE Answered(q, i + 1) /\ (owed > 0 => i + 1 + q[i + 1].calls < Len(q))
    <3> DEFINE n == d[i].calls
    <3>1. n \in Nat /\ n = q[i + 1].calls /\ Len(d) = Len(q) - 1 /\ Len(q) \in Nat /\ i \in Nat
      BY <1>3, <1>4, <1>6
    <3> HIDE DEF n
    <3>2. i + n <= Len(d) /\ (owed > 0 => i + n < Len(d))
      BY SMTT(30), <2>2, <3>1 DEF Answered
    <3>3. ASSUME NEW j \in (i + 1)..(i + n) PROVE d[j].role = "tool"
      <4>1. j \in i..Len(d) /\ j + 1 \in (i + 1 + 1)..(i + 1 + n)
        BY SMTT(30), <3>1, <3>2
      <4> QED  BY <1>6, <2>2, <3>1, <4>1 DEF Answered
    <3>4. ASSUME i + n < Len(d) PROVE d[i + n + 1].role # "tool"
      <4>1. i + n + 1 \in i..Len(d)
        BY SMTT(30), <3>1, <3>4
      <4>2. i + 1 + n < Len(q)
        BY <3>1, <3>4
      <4>3. i + n + 1 + 1 = i + 1 + n + 1
        <5>1. \A a, b \in Nat : a + b + 1 + 1 = a + 1 + b + 1
          OBVIOUS
        <5> QED  BY <3>1, <5>1
      <4>4. q[i + 1 + n + 1].role # "tool"
        BY <2>2, <3>1, <4>2 DEF Answered
      <4> QED  BY <1>6, <4>1, <4>3, <4>4
    <3> QED  BY <3>2, <3>3, <3>4 DEF Answered, n
  <2>3. CASE owed > 0 /\ Pending(q, i + 1, owed)
    <3>1. Len(d) - i = d[i].calls - owed
      BY <1>3, <1>4, <1>6, <2>3 DEF Pending
    <3>2. ASSUME NEW j \in (i + 1)..Len(d) PROVE d[j].role = "tool"
      <4>1. j \in i..Len(d) /\ j + 1 \in (i + 1 + 1)..Len(q)
        BY <1>3, <1>4
      <4> QED  BY <1>6, <2>3, <4>1 DEF Pending
    <3> QED  BY <2>3, <3>1, <3>2 DEF Pending
  <2> QED  BY <2>1, <2>2, <2>3
<1> QED  BY <1>2, <1>4, <1>5, <1>7

\* add_message appends to a conversation that has room, after a drop perhaps.
LEMMA AddIs ==
    ASSUME NEW q, Talk(q), CanAdd(q), NEW owed \in Nat, InOrder(q, owed), NEW m
    PROVE  \E p : /\ Talk(p) /\ Len(p) < MAX_MESSAGES /\ InOrder(p, owed)
                  /\ Add(q, m) = Append(p, m)
<1>1. CASE Len(q) = MAX_MESSAGES
  <2>1. Droppable(q) # {}
    BY <1>1, MessagesAssumption DEF CanAdd
  <2>2. Talk(Drop(q)) /\ Len(Drop(q)) = Len(q) - 1 /\ InOrder(Drop(q), owed)
    BY <2>1, DropTalk
  <2>3. Len(Drop(q)) < MAX_MESSAGES
    BY <1>1, <2>2, MessagesAssumption
  <2> QED  BY <1>1, <2>2, <2>3 DEF Add
<1>2. CASE Len(q) # MAX_MESSAGES
  <2>1. Len(q) < MAX_MESSAGES
    BY <1>2, MessagesAssumption DEF Talk
  <2> QED  BY <1>2, <2>1 DEF Add
<1> QED  BY <1>1, <1>2

\* One message longer.
LEMMA AppendIs ==
    ASSUME NEW p, Talk(p), Len(p) < MAX_MESSAGES, NEW m \in Message, NEW r, r = Append(p, m)
    PROVE  /\ Talk(r) /\ Len(r) = Len(p) + 1 /\ r[Len(r)] = m /\ Len(p) \in Nat
           /\ \A i \in 1..Len(p) : r[i] = p[i] /\ p[i].calls \in Nat
<1>1. p \in Seq(Message) /\ Len(p) \in Nat /\ 1 \in 1..Len(p)
  BY DEF Talk
<1>2. /\ r \in Seq(Message) /\ Len(r) = Len(p) + 1 /\ r[Len(p) + 1] = m
      /\ \A i \in 1..Len(p) : r[i] = p[i]
  BY <1>1, AppendProperties
<1>3. \A i \in 1..Len(p) : p[i].calls \in Nat
  <2>1. \A i \in 1..Len(p) : p[i] \in Message
    BY <1>1
  <2> QED  BY <2>1, CallsAssumption DEF Message
<1>4. Talk(r)
  BY <1>1, <1>2, MessagesAssumption DEF Talk
<1> QED  BY <1>1, <1>2, <1>3, <1>4

\* An answered call stays answered when anything but a result follows, and
\* when results follow something else.
LEMMA StaysAnswered ==
    ASSUME NEW p, Talk(p), Len(p) < MAX_MESSAGES, NEW m \in Message, NEW r, r = Append(p, m),
           NEW i \in 1..Len(p), Answered(p, i),
           m.role # "tool" \/ i + p[i].calls < Len(p)
    PROVE  Answered(r, i) /\ i + r[i].calls < Len(r)
<1> DEFINE n == p[i].calls
           l == Len(p)
<1>1. /\ l \in Nat /\ Len(r) = l + 1 /\ n \in Nat /\ r[l + 1] = m /\ i \in Nat
      /\ r[i].calls = n /\ \A j \in 1..l : r[j] = p[j]
  BY AppendIs
<1>2. /\ i + n <= l /\ \A j \in (i + 1)..(i + n) : p[j].role = "tool"
      /\ i + n < l => p[i + n + 1].role # "tool"
      /\ m.role # "tool" \/ i + n < l
  BY DEF Answered
<1> HIDE DEF n, l
<1>3. ASSUME NEW j \in (i + 1)..(i + n) PROVE r[j].role = "tool"
  <2>1. j \in 1..l
    BY <1>1, <1>2
  <2> QED  BY <1>1, <1>2, <2>1
<1>4. r[i + n + 1].role # "tool"
  <2>1. CASE i + n < l
    <3>1. i + n + 1 \in 1..l
      BY <1>1, <2>1
    <3> QED  BY <1>1, <1>2, <2>1, <3>1
  <2>2. CASE ~(i + n < l)
    <3>1. i + n + 1 = l + 1
      BY <1>1, <1>2, <2>2
    <3> QED  BY <1>1, <1>2, <2>2, <3>1
  <2> QED  BY <2>1, <2>2
<1>5. i + n < Len(r) /\ i + n <= Len(r)
  BY <1>1, <1>2
<1> QED  BY <1>1, <1>3, <1>4, <1>5 DEF Answered

\* A message that is neither a response nor a result, between two rounds.
LEMMA AppendPlain ==
    ASSUME NEW p, Talk(p), Len(p) < MAX_MESSAGES, InOrder(p, 0),
           NEW m \in Message, m.role \in {"user", "system"}, NEW r, r = Append(p, m)
    PROVE  InOrder(r, 0)
<1> SUFFICES ASSUME NEW i \in 1..Len(r), r[i].role = "assistant"
             PROVE  Answered(r, i)
  BY DEF InOrder
<1>1. i \in 1..Len(p) /\ p[i].role = "assistant"
  BY AppendIs
<1>2. Answered(p, i)
  BY <1>1 DEF InOrder
<1> QED  BY <1>1, <1>2, StaysAnswered

\* A response, which owes as many results as it has calls.
LEMMA AppendResponse ==
    ASSUME NEW p, Talk(p), Len(p) < MAX_MESSAGES, InOrder(p, 0),
           NEW m \in Message, m.role = "assistant", NEW r, r = Append(p, m)
    PROVE  InOrder(r, m.calls)
<1> SUFFICES ASSUME NEW i \in 1..Len(r), r[i].role = "assistant"
             PROVE  \/ Answered(r, i) /\ (m.calls > 0 => i + r[i].calls < Len(r))
                    \/ m.calls > 0 /\ Pending(r, i, m.calls)
  BY DEF InOrder
<1>1. CASE i \in 1..Len(p)
  <2>1. p[i].role = "assistant"
    BY <1>1, AppendIs
  <2>2. Answered(p, i)
    BY <1>1, <2>1 DEF InOrder
  <2> QED  BY <1>1, <2>2, StaysAnswered
<1>2. CASE i = Len(r)
  <2>1. r[i] = m /\ m.calls \in Nat /\ Len(r) \in Nat
    BY <1>2, AppendIs, CallsAssumption DEF Message
  <2>2. CASE m.calls > 0
    BY <1>2, <2>1, <2>2 DEF Pending
  <2>3. CASE m.calls = 0
    BY <1>2, <2>1, <2>3 DEF Answered
  <2> QED  BY <2>1, <2>2, <2>3
<1> QED  BY <1>1, <1>2, AppendIs

\* A result: one less is owed.
LEMMA AppendResult ==
    ASSUME NEW p, Talk(p), Len(p) < MAX_MESSAGES, NEW owed \in Nat \ {0}, InOrder(p, owed),
           NEW m \in Message, m.role = "tool", NEW r, r = Append(p, m)
    PROVE  InOrder(r, owed - 1)
<1> SUFFICES ASSUME NEW i \in 1..Len(r), r[i].role = "assistant"
             PROVE  \/ Answered(r, i) /\ (owed - 1 > 0 => i + r[i].calls < Len(r))
                    \/ owed - 1 > 0 /\ Pending(r, i, owed - 1)
  BY DEF InOrder
<1>1. i \in 1..Len(p) /\ p[i].role = "assistant" /\ Len(p) \in Nat
  BY AppendIs
<1>2. CASE Answered(p, i) /\ i + p[i].calls < Len(p)
  BY <1>1, <1>2, StaysAnswered
<1>3. CASE Pending(p, i, owed)
  <2> DEFINE n == r[i].calls
             l == Len(r)
  <2>1. l = Len(p) + 1 /\ n \in Nat /\ n = p[i].calls /\ l \in Nat /\ r[l] = m
        /\ \A j \in 1..Len(p) : r[j] = p[j]
    BY <1>1, AppendIs
  <2>2. ASSUME NEW j \in (i + 1)..l PROVE r[j].role = "tool"
    <3>1. CASE j = l
      BY <2>1, <3>1
    <3>2. CASE j # l
      <4>1. j \in (i + 1)..Len(p) /\ j \in 1..Len(p)
        BY <1>1, <2>1, <3>2
      <4> QED  BY <1>3, <2>1, <4>1 DEF Pending
    <3> QED  BY <3>1, <3>2
  <2>3. l - i = n - (owed - 1)
    BY <1>1, <1>3, <2>1 DEF Pending
  <2> HIDE DEF n, l
  <2>4. CASE owed - 1 > 0
    BY <2>2, <2>3, <2>4 DEF Pending, n, l
  <2>5. CASE owed = 1
    <3>1. i + n = l
      BY <1>1, <2>1, <2>3, <2>5
    <3> QED  BY <2>1, <2>2, <2>5, <3>1 DEF Answered, n, l
  <2> QED  BY <2>4, <2>5
<1> QED  BY <1>1, <1>2, <1>3 DEF InOrder

-----------------------------------------------------------------------------
(* The inductive invariant.                                                *)

Busy == {"call", "decide", "spawn", "command", "reap", "poststeer"}
Ring == [slot : [Slot -> Typed \cup {None}], read : Slot, write : Slot]

\* The results the last response still waits for.
Owed == IF pc = "poststeer" THEN Len(calls) - 1
        ELSE IF pc \in Busy THEN Len(calls) ELSE 0
\* The conversation is in order until the agent gives up.
TalkOrder == Talk(messages) /\ (pc # "exit" => InOrder(messages, Owed))
\* There is a call at hand while one is dealt with.
CallAtHand == pc \in Busy => calls # << >>
\* A command is allowed before it is started and waited for until it ends.
Watched ==
    /\ child # "none" => pc \in {"command", "reap"}
    /\ pc \in {"spawn", "command", "reap"} => granted \/ full_access
\* The request thread is waited for, too.
Owned == worker # "none" => pc \in {"wait", "inline", "ended"}

AgentInv == AgentTypeOK /\ TalkOrder /\ CallAtHand /\ Watched /\ Owned

\* The ring keeps its type.
LEMMA RingTypes ==
    ASSUME NEW r \in Ring, NEW l \in Typed
    PROVE  QueueLine(r, l) \in Ring /\ TakeLine(r) \in Ring /\ EndLive(r, l) \in Ring
           /\ RingInit \in Ring /\ r.slot[r.read] \in Typed \cup {None}
<1>1. Succ(r.read) \in Slot /\ Succ(r.write) \in Slot /\ 0 \in Slot
  BY SteeringAssumption DEF Ring, Slot, Succ
<1>2. RingInit \in Ring
  BY <1>1 DEF RingInit, Ring
<1>3. QueueLine(r, l) \in Ring
  <2>1. PICK u : u = [r EXCEPT !.slot[r.write] = l]
    OBVIOUS
  <2>2. u \in Ring
    BY <2>1 DEF Ring
  <2>3. [u EXCEPT !.write = Succ(r.write)] \in Ring
    BY <1>1, <2>2 DEF Ring
  <2>4. QueueLine(r, l) = IF r.slot[r.write] # None THEN r
                          ELSE [u EXCEPT !.write = Succ(r.write)]
    BY <2>1 DEF QueueLine, Ring
  <2> QED  BY <2>3, <2>4
<1>4. TakeLine(r) \in Ring
  <2>1. PICK u : u = [r EXCEPT !.slot[r.read] = None]
    OBVIOUS
  <2>2. u \in Ring
    BY <2>1 DEF Ring
  <2>3. [u EXCEPT !.read = Succ(r.read)] \in Ring
    BY <1>1, <2>2 DEF Ring
  <2>4. TakeLine(r) = [u EXCEPT !.read = Succ(r.read)]
    BY <2>1 DEF TakeLine, Ring
  <2> QED  BY <2>3, <2>4
<1>5. r.slot[r.read] \in Typed \cup {None}
  BY DEF Ring
<1> QED  BY <1>2, <1>3, <1>4, <1>5 DEF EndLive

\* What is owed, and the conversation's part in the types.
LEMMA OwedIs ==
    ASSUME AgentInv
    PROVE  /\ Owed \in Nat /\ Len(calls) \in Nat /\ Talk(messages)
           /\ pc \in Busy => /\ Len(calls) >= 1 /\ Tail(calls) \in Seq({"command", "bad"})
                             /\ Len(Tail(calls)) = Len(calls) - 1
                             /\ Len(calls) = 1 => Tail(calls) = << >>
                             /\ Len(calls) # 1 => Tail(calls) # << >>
           /\ pc # "exit" => InOrder(messages, Owed)
<1>1. calls \in Seq({"command", "bad"}) /\ Len(calls) \in Nat
  BY DEF AgentInv, AgentTypeOK
<1>2. pc \in Busy => calls # << >> /\ Len(calls) >= 1
  BY <1>1 DEF AgentInv, CallAtHand
<1>3. pc \in Busy => /\ Tail(calls) \in Seq({"command", "bad"})
                     /\ Len(Tail(calls)) = Len(calls) - 1
  BY <1>1, <1>2
<1>4. pc \in Busy => /\ Len(calls) = 1 => Tail(calls) = << >>
                     /\ Len(calls) # 1 => Tail(calls) # << >>
  <2>1. \A c \in Seq({"command", "bad"}) : c = << >> <=> Len(c) = 0
    BY EmptySeq
  <2>2. PICK c : c = Tail(calls)
    OBVIOUS
  <2>3. pc \in Busy => /\ c \in Seq({"command", "bad"}) /\ Len(c) = Len(calls) - 1
                       /\ Len(calls) \in Nat
    BY <1>1, <1>3, <2>2
  <2>4. pc \in Busy => (c = << >> <=> Len(calls) = 1)
    BY SMTT(30), <2>1, <2>3
  <2> QED  BY <2>2, <2>4
<1>5. Owed \in Nat
  BY <1>1, <1>2 DEF Owed, Busy
<1> QED  BY <1>1, <1>2, <1>3, <1>4, <1>5 DEF AgentInv, TalkOrder

\* /new: a conversation of system messages.
LEMMA ResetTalk == Talk(Reset) /\ InOrder(Reset, 0)
<1>1. Msg("system") \in Message /\ Msg("system").role = "system"
  BY CallsAssumption DEF Msg, Message, Role
<1>2. PICK m : m = Msg("system")
  OBVIOUS
<1>3. Reset = <<m, m>> \/ Reset = <<m>>
  BY <1>2 DEF Reset
<1>4. m \in Message /\ m.role = "system"
  BY <1>1, <1>2
<1>5. CASE Reset = <<m, m>>
  BY <1>4, <1>5, MessagesAssumption DEF Talk, InOrder
<1>6. CASE Reset = <<m>>
  BY <1>4, <1>6, MessagesAssumption DEF Talk, InOrder
<1> QED  BY <1>3, <1>5, <1>6

\* The agent at the start.
LEMMA AgentInitial == Init => AgentInv
<1> SUFFICES ASSUME Init PROVE AgentInv
  OBVIOUS
<1>1. Talk(messages) /\ InOrder(messages, 0)
  BY ResetTalk DEF Init
<1>2. Owed = 0
  BY DEF Init, Owed, Busy
<1>3. steering \in Ring
  BY RingTypes, TypedAssumption, SteeringAssumption DEF Init, Ring, RingInit, Slot
<1>4. AgentTypeOK
  <2>1. calls \in Seq({"command", "bad"}) /\ Len(calls) <= MaxCalls
    BY CallsAssumption DEF Init
  <2>2. live \in Typed /\ steer \in 0..(MAX_COMMAND - 1) /\ round \in 0..(max_tool_rounds - 1)
    BY RoundsAssumption, CommandAssumption, TypedAssumption DEF Init
  <2> QED  BY <1>1, <1>3, <2>1, <2>2 DEF Init, AgentTypeOK, Talk, Ring
<1> QED  BY <1>1, <1>2, <1>4
         DEF Init, AgentInv, TalkOrder, CallAtHand, Watched, Owned, Busy

-----------------------------------------------------------------------------
(* One lemma per action.  First the parts that several share.              *)

\* append_tool_result for the call at hand.
LEMMA AnswerKeeps ==
    ASSUME AgentInv, pc \in Busy \ {"poststeer"}, Answer
    PROVE  /\ TalkOrder' /\ CallAtHand' /\ granted' = FALSE
           /\ pc' \in {"call", "drain", "exit"}
           /\ calls' \in Seq({"command", "bad"}) /\ Len(calls') <= MaxCalls
<1>1. Owed = Len(calls) /\ pc # "exit" /\ Owed \in Nat \ {0}
  BY OwedIs DEF Owed, Busy
<1>2. /\ calls' = Tail(calls) /\ granted' = FALSE /\ Len(Tail(calls)) = Len(calls) - 1
      /\ calls' \in Seq({"command", "bad"})
      /\ (Len(calls) = 1 => calls' = << >>) /\ (Len(calls) # 1 => calls' # << >>)
  BY OwedIs DEF Answer
<1>3. Len(calls') <= MaxCalls
  BY <1>2, OwedIs, CallsAssumption DEF AgentInv, AgentTypeOK
<1>4. CASE CanAdd(messages)
  <2>1. Msg("tool") \in Message /\ Msg("tool").role = "tool"
    BY CallsAssumption DEF Msg, Message, Role
  <2>2. PICK p : /\ Talk(p) /\ Len(p) < MAX_MESSAGES /\ InOrder(p, Owed)
                 /\ Add(messages, Msg("tool")) = Append(p, Msg("tool"))
    BY <1>1, <1>4, OwedIs, AddIs
  <2>3. messages' = Append(p, Msg("tool")) /\ pc' = IF Len(calls) = 1 THEN "drain" ELSE "call"
    BY <1>4, <2>2 DEF Answer
  <2>4. Talk(messages') /\ InOrder(messages', Owed - 1)
    BY <1>1, <2>1, <2>2, <2>3, AppendIs, AppendResult
  <2>5. Owed' = Owed - 1 /\ (pc' \in Busy => calls' # << >>)
    BY <1>1, <1>2, <2>3, OwedIs DEF Owed, Busy
  <2> QED  BY <1>2, <1>3, <2>3, <2>4, <2>5 DEF TalkOrder, CallAtHand
<1>5. CASE ~CanAdd(messages)
  BY <1>2, <1>3, <1>5, OwedIs DEF Answer, TalkOrder, CallAtHand, Busy
<1> QED  BY <1>4, <1>5

\* A request that failed costs a message.
LEMMA RequestFailedKeeps ==
    ASSUME AgentInv, pc \in {"ended", "inline"}, RequestFailed
    PROVE  TalkOrder' /\ pc' \in {"exit", "prompt", "create"}
<1>1. pc' \in {"exit", "prompt", "create"} /\ messages' = Drop(messages) /\ Owed' = 0 /\ Owed = 0
  BY DEF RequestFailed, Owed, Busy
<1>2. Talk(messages) /\ InOrder(messages, 0)
  BY <1>1, OwedIs
<1>3. CASE Droppable(messages) = {}
  BY <1>1, <1>2, <1>3 DEF TalkOrder, Drop
<1>4. CASE Droppable(messages) # {}
  BY <1>1, <1>2, <1>4, DropTalk DEF TalkOrder
<1> QED  BY <1>1, <1>3, <1>4

\* A message of the human, or a skill, between two rounds.
LEMMA PlainKeeps ==
    ASSUME AgentInv, Owed = 0, pc # "exit", CanAdd(messages), NEW role \in {"user", "system"},
           messages' = Add(messages, Msg(role)), Owed' = 0
    PROVE  TalkOrder'
<1>1. Msg(role) \in Message /\ Msg(role).role = role
  BY CallsAssumption DEF Msg, Message, Role
<1>2. PICK p : /\ Talk(p) /\ Len(p) < MAX_MESSAGES /\ InOrder(p, 0)
               /\ Add(messages, Msg(role)) = Append(p, Msg(role))
  BY OwedIs, AddIs
<1>3. Talk(messages') /\ InOrder(messages', 0)
  BY <1>1, <1>2, AppendIs, AppendPlain
<1> QED  BY <1>3 DEF TalkOrder

\* on_signal
LEMMA SignalStep == AgentInv /\ Signal => AgentInv'
<1> SUFFICES ASSUME AgentInv, Signal PROVE AgentInv'
  OBVIOUS
<1>1. TalkOrder'
  BY OwedIs DEF TalkOrder, Owed, Busy, Signal, talk, ring, tools
<1>2. AgentTypeOK'
  BY <1>1
     DEF AgentInv, AgentTypeOK, TalkOrder, Talk, Signal, talk, ring, tools
<1>3. CallAtHand'
  BY OwedIs DEF AgentInv, CallAtHand, Busy, Signal, talk, ring, tools
<1>4. Watched' /\ Owned'
  BY DEF AgentInv, Watched, Owned, Signal, talk, ring, tools
<1> QED  BY <1>1, <1>2, <1>3, <1>4 DEF AgentInv

\* The human leaves.
LEMMA QuitStep == AgentInv /\ Quit => AgentInv'
<1> SUFFICES ASSUME AgentInv, Quit PROVE AgentInv'
  OBVIOUS
<1>1. TalkOrder'
  BY OwedIs DEF TalkOrder, Owed, Busy, Quit, talk, ring, tools
<1>2. AgentTypeOK'
  BY <1>1
     DEF AgentInv, AgentTypeOK, TalkOrder, Talk, Quit, talk, ring, tools
<1>3. CallAtHand'
  BY OwedIs DEF AgentInv, CallAtHand, Busy, Quit, talk, ring, tools
<1>4. Watched' /\ Owned'
  BY DEF AgentInv, Watched, Owned, Quit, talk, ring, tools
<1> QED  BY <1>1, <1>2, <1>3, <1>4 DEF AgentInv

\* /force
LEMMA ToggleForceStep == AgentInv /\ ToggleForce => AgentInv'
<1> SUFFICES ASSUME AgentInv, ToggleForce PROVE AgentInv'
  OBVIOUS
<1>1. TalkOrder'
  BY OwedIs DEF TalkOrder, Owed, Busy, ToggleForce, talk, ring, tools
<1>2. AgentTypeOK'
  BY <1>1
     DEF AgentInv, AgentTypeOK, TalkOrder, Talk, ToggleForce, talk, ring, tools
<1>3. CallAtHand'
  BY OwedIs DEF AgentInv, CallAtHand, Busy, ToggleForce, talk, ring, tools
<1>4. Watched' /\ Owned'
  BY DEF AgentInv, Watched, Owned, ToggleForce, talk, ring, tools
<1> QED  BY <1>1, <1>2, <1>3, <1>4 DEF AgentInv

\* The request thread starts.
LEMMA CreateWorkerStep == AgentInv /\ CreateWorker => AgentInv'
<1> SUFFICES ASSUME AgentInv, CreateWorker PROVE AgentInv'
  OBVIOUS
<1>1. TalkOrder'
  BY OwedIs DEF TalkOrder, Owed, Busy, CreateWorker, talk, ring, tools
<1>2. AgentTypeOK'
  BY <1>1, TypedAssumption
     DEF AgentInv, AgentTypeOK, TalkOrder, Talk, CreateWorker, talk, ring, tools
<1>3. CallAtHand'
  BY OwedIs DEF AgentInv, CallAtHand, Busy, CreateWorker, talk, ring, tools
<1>4. Watched' /\ Owned'
  BY DEF AgentInv, Watched, Owned, CreateWorker, talk, ring, tools
<1> QED  BY <1>1, <1>2, <1>3, <1>4 DEF AgentInv

\* The request is written.
LEMMA RequestSentStep == AgentInv /\ RequestSent => AgentInv'
<1> SUFFICES ASSUME AgentInv, RequestSent PROVE AgentInv'
  OBVIOUS
<1>1. TalkOrder'
  BY OwedIs DEF TalkOrder, Owed, Busy, RequestSent, talk, ring, tools
<1>2. AgentTypeOK'
  BY <1>1
     DEF AgentInv, AgentTypeOK, TalkOrder, Talk, RequestSent, talk, ring, tools
<1>3. CallAtHand'
  BY OwedIs DEF AgentInv, CallAtHand, Busy, RequestSent, talk, ring, tools
<1>4. Watched' /\ Owned'
  BY DEF AgentInv, Watched, Owned, RequestSent, talk, ring, tools
<1> QED  BY <1>1, <1>2, <1>3, <1>4 DEF AgentInv

\* The request thread ends.
LEMMA WorkerDoneStep == AgentInv /\ WorkerDone => AgentInv'
<1> SUFFICES ASSUME AgentInv, WorkerDone PROVE AgentInv'
  OBVIOUS
<1>1. TalkOrder'
  BY OwedIs DEF TalkOrder, Owed, Busy, WorkerDone, talk, ring, tools
<1>2. AgentTypeOK'
  BY <1>1
     DEF AgentInv, AgentTypeOK, TalkOrder, Talk, WorkerDone, talk, ring, tools
<1>3. CallAtHand'
  BY OwedIs DEF AgentInv, CallAtHand, Busy, WorkerDone, talk, ring, tools
<1>4. Watched' /\ Owned'
  BY DEF AgentInv, Watched, Owned, WorkerDone, talk, ring, tools
<1> QED  BY <1>1, <1>2, <1>3, <1>4 DEF AgentInv

\* The human types.
LEMMA PollLiveStep == AgentInv /\ PollLive => AgentInv'
<1> SUFFICES ASSUME AgentInv, PollLive PROVE AgentInv'
  OBVIOUS
<1>1. TalkOrder'
  BY OwedIs DEF TalkOrder, Owed, Busy, PollLive, talk, ring, tools
<1>2. AgentTypeOK'
  BY <1>1, TypedAssumption, RingTypes
     DEF AgentInv, AgentTypeOK, TalkOrder, Talk, PollLive, talk, ring, tools, Ring
<1>3. CallAtHand'
  BY OwedIs DEF AgentInv, CallAtHand, Busy, PollLive, talk, ring, tools
<1>4. Watched' /\ Owned'
  BY DEF AgentInv, Watched, Owned, PollLive, talk, ring, tools
<1> QED  BY <1>1, <1>2, <1>3, <1>4 DEF AgentInv

\* The wait for the request ends.
LEMMA WaitEndsStep == AgentInv /\ WaitEnds => AgentInv'
<1> SUFFICES ASSUME AgentInv, WaitEnds PROVE AgentInv'
  OBVIOUS
<1>1. TalkOrder'
  BY OwedIs DEF TalkOrder, Owed, Busy, WaitEnds, talk, ring, tools
<1>2. AgentTypeOK'
  BY <1>1, TypedAssumption, RingTypes
     DEF AgentInv, AgentTypeOK, TalkOrder, Talk, WaitEnds, talk, ring, tools, Ring
<1>3. CallAtHand'
  BY OwedIs DEF AgentInv, CallAtHand, Busy, WaitEnds, talk, ring, tools
<1>4. Watched' /\ Owned'
  BY DEF AgentInv, Watched, Owned, WaitEnds, talk, ring, tools
<1> QED  BY <1>1, <1>2, <1>3, <1>4 DEF AgentInv

\* A response that is no use.
LEMMA BadResponseStep == AgentInv /\ BadResponse => AgentInv'
<1> SUFFICES ASSUME AgentInv, BadResponse PROVE AgentInv'
  OBVIOUS
<1>1. TalkOrder'
  BY OwedIs DEF TalkOrder, Owed, Busy, BadResponse, talk, ring, tools
<1>2. AgentTypeOK'
  BY <1>1
     DEF AgentInv, AgentTypeOK, TalkOrder, Talk, BadResponse, talk, ring, tools
<1>3. CallAtHand'
  BY OwedIs DEF AgentInv, CallAtHand, Busy, BadResponse, talk, ring, tools
<1>4. Watched' /\ Owned'
  BY DEF AgentInv, Watched, Owned, BadResponse, talk, ring, tools
<1> QED  BY <1>1, <1>2, <1>3, <1>4 DEF AgentInv

\* A command to decide on.
LEMMA AskCallStep == AgentInv /\ AskCall => AgentInv'
<1> SUFFICES ASSUME AgentInv, AskCall PROVE AgentInv'
  OBVIOUS
<1>1. TalkOrder'
  BY OwedIs DEF TalkOrder, Owed, Busy, AskCall, talk, ring, tools
<1>2. AgentTypeOK'
  BY <1>1
     DEF AgentInv, AgentTypeOK, TalkOrder, Talk, AskCall, talk, ring, tools
<1>3. CallAtHand'
  BY OwedIs DEF AgentInv, CallAtHand, Busy, AskCall, talk, ring, tools
<1>4. Watched' /\ Owned'
  BY DEF AgentInv, Watched, Owned, AskCall, talk, ring, tools
<1> QED  BY <1>1, <1>2, <1>3, <1>4 DEF AgentInv

\* The human allows it.
LEMMA AllowStep == AgentInv /\ Allow => AgentInv'
<1> SUFFICES ASSUME AgentInv, Allow PROVE AgentInv'
  OBVIOUS
<1>1. TalkOrder'
  BY OwedIs DEF TalkOrder, Owed, Busy, Allow, talk, ring, tools
<1>2. AgentTypeOK'
  BY <1>1
     DEF AgentInv, AgentTypeOK, TalkOrder, Talk, Allow, talk, ring, tools
<1>3. CallAtHand'
  BY OwedIs DEF AgentInv, CallAtHand, Busy, Allow, talk, ring, tools
<1>4. Watched' /\ Owned'
  BY DEF AgentInv, Watched, Owned, Allow, talk, ring, tools
<1> QED  BY <1>1, <1>2, <1>3, <1>4 DEF AgentInv

\* A direction broken off.
LEMMA PartialSteerStep == AgentInv /\ PartialSteer => AgentInv'
<1> SUFFICES ASSUME AgentInv, PartialSteer PROVE AgentInv'
  OBVIOUS
<1>1. TalkOrder'
  BY OwedIs DEF TalkOrder, Owed, Busy, PartialSteer, talk, ring, tools
<1>2. AgentTypeOK'
  BY <1>1, TypedAssumption
     DEF AgentInv, AgentTypeOK, TalkOrder, Talk, PartialSteer, talk, ring, tools
<1>3. CallAtHand'
  BY OwedIs DEF AgentInv, CallAtHand, Busy, PartialSteer, talk, ring, tools
<1>4. Watched' /\ Owned'
  BY DEF AgentInv, Watched, Owned, PartialSteer, talk, ring, tools
<1> QED  BY <1>1, <1>2, <1>3, <1>4 DEF AgentInv

\* The command starts.
LEMMA SpawnStep == AgentInv /\ Spawn => AgentInv'
<1> SUFFICES ASSUME AgentInv, Spawn PROVE AgentInv'
  OBVIOUS
<1>1. TalkOrder'
  BY OwedIs DEF TalkOrder, Owed, Busy, Spawn, talk, ring, tools
<1>2. AgentTypeOK'
  BY <1>1, TypedAssumption
     DEF AgentInv, AgentTypeOK, TalkOrder, Talk, Spawn, talk, ring, tools
<1>3. CallAtHand'
  BY OwedIs DEF AgentInv, CallAtHand, Busy, Spawn, talk, ring, tools
<1>4. Watched' /\ Owned'
  BY DEF AgentInv, Watched, Owned, Spawn, talk, ring, tools
<1> QED  BY <1>1, <1>2, <1>3, <1>4 DEF AgentInv

\* The command ends,
LEMMA ChildExitsStep == AgentInv /\ ChildExits => AgentInv'
<1> SUFFICES ASSUME AgentInv, ChildExits PROVE AgentInv'
  OBVIOUS
<1>1. TalkOrder'
  BY OwedIs DEF TalkOrder, Owed, Busy, ChildExits, talk, ring, tools
<1>2. AgentTypeOK'
  BY <1>1
     DEF AgentInv, AgentTypeOK, TalkOrder, Talk, ChildExits, talk, ring, tools
<1>3. CallAtHand'
  BY OwedIs DEF AgentInv, CallAtHand, Busy, ChildExits, talk, ring, tools
<1>4. Watched' /\ Owned'
  BY DEF AgentInv, Watched, Owned, ChildExits, talk, ring, tools
<1> QED  BY <1>1, <1>2, <1>3, <1>4 DEF AgentInv

\* or closes its output.
LEMMA ChildClosesStep == AgentInv /\ ChildCloses => AgentInv'
<1> SUFFICES ASSUME AgentInv, ChildCloses PROVE AgentInv'
  OBVIOUS
<1>1. TalkOrder'
  BY OwedIs DEF TalkOrder, Owed, Busy, ChildCloses, talk, ring, tools
<1>2. AgentTypeOK'
  BY <1>1
     DEF AgentInv, AgentTypeOK, TalkOrder, Talk, ChildCloses, talk, ring, tools
<1>3. CallAtHand'
  BY OwedIs DEF AgentInv, CallAtHand, Busy, ChildCloses, talk, ring, tools
<1>4. Watched' /\ Owned'
  BY DEF AgentInv, Watched, Owned, ChildCloses, talk, ring, tools
<1> QED  BY <1>1, <1>2, <1>3, <1>4 DEF AgentInv

\* The loop ends before the command.
LEMMA LoopBreaksStep == AgentInv /\ LoopBreaks => AgentInv'
<1> SUFFICES ASSUME AgentInv, LoopBreaks PROVE AgentInv'
  OBVIOUS
<1>1. TalkOrder'
  BY OwedIs DEF TalkOrder, Owed, Busy, LoopBreaks, talk, ring, tools
<1>2. AgentTypeOK'
  BY <1>1
     DEF AgentInv, AgentTypeOK, TalkOrder, Talk, LoopBreaks, talk, ring, tools
<1>3. CallAtHand'
  BY OwedIs DEF AgentInv, CallAtHand, Busy, LoopBreaks, talk, ring, tools
<1>4. Watched' /\ Owned'
  BY DEF AgentInv, Watched, Owned, LoopBreaks, talk, ring, tools
<1> QED  BY <1>1, <1>2, <1>3, <1>4 DEF AgentInv

\* The human has seen the result.
LEMMA PostSteerStep == AgentInv /\ PostSteer => AgentInv'
<1> SUFFICES ASSUME AgentInv, PostSteer PROVE AgentInv'
  OBVIOUS
<1>1. TalkOrder'
  BY OwedIs DEF TalkOrder, Owed, Busy, PostSteer, talk, ring, tools
<1>2. AgentTypeOK'
  <2>1. calls' \in Seq({"command", "bad"}) /\ Len(calls') <= MaxCalls
    <3>1. pc \in Busy /\ calls' = Tail(calls)
      BY DEF PostSteer, Busy
    <3>2. Len(calls) <= MaxCalls
      BY DEF AgentInv, AgentTypeOK
    <3> QED  BY <3>1, <3>2, OwedIs, CallsAssumption
  <2>2. steer' \in 0..(MAX_COMMAND - 1)
    BY TypedAssumption DEF PostSteer, AgentInv, AgentTypeOK
  <2> QED  BY <2>1, <2>2 DEF AgentInv, AgentTypeOK, PostSteer, talk, ring
<1>3. CallAtHand'
  BY OwedIs DEF AgentInv, CallAtHand, Busy, PostSteer, talk, ring, tools
<1>4. Watched' /\ Owned'
  BY DEF AgentInv, Watched, Owned, PostSteer, talk, ring, tools
<1> QED  BY <1>1, <1>2, <1>3, <1>4 DEF AgentInv

\* The steering has no place.
LEMMA DrainFailsStep == AgentInv /\ DrainFails => AgentInv'
<1> SUFFICES ASSUME AgentInv, DrainFails PROVE AgentInv'
  OBVIOUS
<1>1. TalkOrder'
  BY OwedIs DEF TalkOrder, Owed, Busy, DrainFails, talk, ring, tools
<1>2. AgentTypeOK'
  BY <1>1
     DEF AgentInv, AgentTypeOK, TalkOrder, Talk, DrainFails, talk, ring, tools
<1>3. CallAtHand'
  BY OwedIs DEF AgentInv, CallAtHand, Busy, DrainFails, talk, ring, tools
<1>4. Watched' /\ Owned'
  BY DEF AgentInv, Watched, Owned, DrainFails, Draining, talk, ring, tools
<1> QED  BY <1>1, <1>2, <1>3, <1>4 DEF AgentInv

\* A line of steering is taken.
LEMMA DrainLineStep == AgentInv /\ DrainLine => AgentInv'
<1> SUFFICES ASSUME AgentInv, DrainLine PROVE AgentInv'
  OBVIOUS
<1>1. TalkOrder'
  BY OwedIs DEF TalkOrder, Owed, Busy, DrainLine, talk, ring, tools
<1>2. AgentTypeOK'
  <2>1. steering \in Ring /\ 0 \in Typed
    BY TypedAssumption DEF AgentInv, AgentTypeOK, Ring
  <2>2. steering' \in Ring
    BY <2>1, RingTypes DEF DrainLine
  <2>3. PICK l : l = steering.slot[steering.read]
    OBVIOUS
  <2>4. l \in 0..(MAX_COMMAND - 1)
    BY <2>1, <2>3, RingTypes, TypedAssumption DEF DrainLine, Available
  <2>5. /\ steer' = steer \/ (steer' = Joined(l) /\ Joined(l) < MAX_COMMAND)
        /\ pc' \in {pc, "exit"}
    BY <2>3 DEF DrainLine
  <2>6. steer' \in 0..(MAX_COMMAND - 1)
    BY <2>4, <2>5, CommandAssumption DEF Joined, AgentInv, AgentTypeOK
  <2> QED  BY <2>2, <2>5, <2>6 DEF AgentInv, AgentTypeOK, DrainLine, talk, Ring
<1>3. CallAtHand'
  BY DEF AgentInv, CallAtHand, Busy, DrainLine, Draining, talk, ring, tools
<1>4. Watched' /\ Owned'
  BY DEF AgentInv, Watched, Owned, DrainLine, Draining, talk, ring, tools
<1> QED  BY <1>1, <1>2, <1>3, <1>4 DEF AgentInv

\* /new
LEMMA NewConversationStep == AgentInv /\ NewConversation => AgentInv'
<1> SUFFICES ASSUME AgentInv, NewConversation PROVE AgentInv'
  OBVIOUS
<1>1. TalkOrder'
  BY ResetTalk DEF TalkOrder, Owed, Busy, NewConversation, talk, ring, tools
<1>2. AgentTypeOK'
  BY <1>1, RingTypes, TypedAssumption
     DEF AgentInv, AgentTypeOK, TalkOrder, Talk, NewConversation, talk, ring, tools, Ring
<1>3. CallAtHand'
  BY OwedIs DEF AgentInv, CallAtHand, Busy, NewConversation, talk, ring, tools
<1>4. Watched' /\ Owned'
  BY DEF AgentInv, Watched, Owned, NewConversation, talk, ring, tools
<1> QED  BY <1>1, <1>2, <1>3, <1>4 DEF AgentInv

\* /skill
LEMMA LoadSkillStep == AgentInv /\ LoadSkill => AgentInv'
<1> SUFFICES ASSUME AgentInv, LoadSkill PROVE AgentInv'
  OBVIOUS
<1>1. TalkOrder'
  <2>1. Owed = 0 /\ Owed' = 0 /\ pc # "exit"
    BY DEF LoadSkill, Owed, Busy
  <2> QED  BY <2>1, PlainKeeps DEF LoadSkill
<1>2. AgentTypeOK'
  BY <1>1
     DEF AgentInv, AgentTypeOK, TalkOrder, Talk, LoadSkill, talk, ring, tools
<1>3. CallAtHand'
  BY OwedIs DEF AgentInv, CallAtHand, Busy, LoadSkill, talk, ring, tools
<1>4. Watched' /\ Owned'
  BY DEF AgentInv, Watched, Owned, LoadSkill, talk, ring, tools
<1> QED  BY <1>1, <1>2, <1>3, <1>4 DEF AgentInv

\* A prompt.
LEMMA PromptStep == AgentInv /\ Prompt => AgentInv'
<1> SUFFICES ASSUME AgentInv, Prompt PROVE AgentInv'
  OBVIOUS
<1>1. TalkOrder'
  <2>1. Owed = 0 /\ Owed' = 0 /\ pc # "exit"
    BY DEF Prompt, Owed, Busy
  <2> QED  BY <2>1, PlainKeeps DEF Prompt
<1>2. AgentTypeOK'
  BY <1>1, RoundsAssumption
     DEF AgentInv, AgentTypeOK, TalkOrder, Talk, Prompt, talk, ring, tools
<1>3. CallAtHand'
  BY OwedIs DEF AgentInv, CallAtHand, Busy, Prompt, talk, ring, tools
<1>4. Watched' /\ Owned'
  BY DEF AgentInv, Watched, Owned, Prompt, talk, ring, tools
<1> QED  BY <1>1, <1>2, <1>3, <1>4 DEF AgentInv

\* The answer, or the loss of the request thread.
LEMMA JoinStep == AgentInv /\ Join => AgentInv'
<1> SUFFICES ASSUME AgentInv, Join PROVE AgentInv'
  OBVIOUS
<1>1. TalkOrder'
  <2>1. CASE pc' = "reply" /\ UNCHANGED messages
    BY <2>1, OwedIs DEF TalkOrder, Owed, Busy, Join
  <2>2. CASE RequestFailed
    BY <2>2, RequestFailedKeeps DEF Join
  <2> QED  BY <2>1, <2>2 DEF Join
<1>2. AgentTypeOK'
  BY <1>1
     DEF AgentInv, AgentTypeOK, TalkOrder, Talk, Join, talk, ring, tools, RequestFailed
<1>3. CallAtHand'
  BY DEF CallAtHand, Busy, Join, RequestFailed, talk, ring, tools
<1>4. Watched' /\ Owned'
  BY DEF AgentInv, Watched, Owned, Join, RequestFailed, talk, ring, tools
<1> QED  BY <1>1, <1>2, <1>3, <1>4 DEF AgentInv

\* A request without a thread.
LEMMA CallInlineStep == AgentInv /\ CallInline => AgentInv'
<1> SUFFICES ASSUME AgentInv, CallInline PROVE AgentInv'
  OBVIOUS
<1>1. TalkOrder'
  BY OwedIs DEF TalkOrder, Owed, Busy, CallInline, talk, ring, tools
<1>2. AgentTypeOK'
  BY <1>1
     DEF AgentInv, AgentTypeOK, TalkOrder, Talk, CallInline, talk, ring, tools
<1>3. CallAtHand'
  BY OwedIs DEF AgentInv, CallAtHand, Busy, CallInline, talk, ring, tools
<1>4. Watched' /\ Owned'
  BY DEF AgentInv, Watched, Owned, CallInline, talk, ring, tools
<1> QED  BY <1>1, <1>2, <1>3, <1>4 DEF AgentInv

\* A call that is answered without the human.
LEMMA SkipCallStep == AgentInv /\ SkipCall => AgentInv'
<1> SUFFICES ASSUME AgentInv, SkipCall PROVE AgentInv'
  OBVIOUS
<1>0. pc \in Busy \ {"poststeer"} /\ Answer
  BY DEF SkipCall, Busy
<1>1. TalkOrder'
  BY <1>0, AnswerKeeps
<1>2. AgentTypeOK'
  BY <1>1, AnswerKeeps, <1>0, TypedAssumption
     DEF AgentInv, AgentTypeOK, TalkOrder, Talk, SkipCall, talk, ring, tools
<1>3. CallAtHand'
  BY <1>0, AnswerKeeps
<1>4. Watched' /\ Owned'
  <2>1. pc' \in {"call", "drain", "exit"}
    BY <1>0, AnswerKeeps
  <2> QED  BY <2>1 DEF AgentInv, Watched, Owned, SkipCall, talk, ring, tools
<1> QED  BY <1>1, <1>2, <1>3, <1>4 DEF AgentInv

\* The human refuses.
LEMMA RefuseStep == AgentInv /\ Refuse => AgentInv'
<1> SUFFICES ASSUME AgentInv, Refuse PROVE AgentInv'
  OBVIOUS
<1>0. pc \in Busy \ {"poststeer"} /\ Answer
  BY DEF Refuse, Busy
<1>1. TalkOrder'
  BY <1>0, AnswerKeeps
<1>2. AgentTypeOK'
  BY <1>1, AnswerKeeps, <1>0, TypedAssumption
     DEF AgentInv, AgentTypeOK, TalkOrder, Talk, Refuse, talk, ring, tools
<1>3. CallAtHand'
  BY <1>0, AnswerKeeps
<1>4. Watched' /\ Owned'
  <2>1. pc' \in {"call", "drain", "exit"}
    BY <1>0, AnswerKeeps
  <2> QED  BY <2>1 DEF AgentInv, Watched, Owned, Refuse, talk, ring, tools
<1> QED  BY <1>1, <1>2, <1>3, <1>4 DEF AgentInv

\* No process.
LEMMA SpawnFailsStep == AgentInv /\ SpawnFails => AgentInv'
<1> SUFFICES ASSUME AgentInv, SpawnFails PROVE AgentInv'
  OBVIOUS
<1>0. pc \in Busy \ {"poststeer"} /\ Answer
  BY DEF SpawnFails, Busy
<1>1. TalkOrder'
  BY <1>0, AnswerKeeps
<1>2. AgentTypeOK'
  BY <1>1, AnswerKeeps, <1>0, TypedAssumption
     DEF AgentInv, AgentTypeOK, TalkOrder, Talk, SpawnFails, talk, ring, tools
<1>3. CallAtHand'
  BY <1>0, AnswerKeeps
<1>4. Watched' /\ Owned'
  <2>1. pc' \in {"call", "drain", "exit"}
    BY <1>0, AnswerKeeps
  <2> QED  BY <2>1 DEF AgentInv, Watched, Owned, SpawnFails, talk, ring, tools
<1> QED  BY <1>1, <1>2, <1>3, <1>4 DEF AgentInv

\* A response, with its calls.
LEMMA ResponseStep == AgentInv /\ Response => AgentInv'
<1> SUFFICES ASSUME AgentInv, Response PROVE AgentInv'
  OBVIOUS
<1>0. PICK n \in 0..MaxCalls : \E c \in [1..n -> {"command", "bad"}] :
        /\ messages' = Add(messages, [role |-> "assistant", calls |-> n])
        /\ calls' = c
        /\ pc' = IF n # 0 THEN "call" ELSE IF round = 0 THEN "pending" ELSE "prompt"
        /\ round' = IF n = 0 THEN 0 ELSE round
  BY DEF Response
<1>1. PICK c \in [1..n -> {"command", "bad"}] :
        /\ messages' = Add(messages, [role |-> "assistant", calls |-> n])
        /\ calls' = c
        /\ pc' = IF n # 0 THEN "call" ELSE IF round = 0 THEN "pending" ELSE "prompt"
        /\ round' = IF n = 0 THEN 0 ELSE round
  BY <1>0
<1>2. n \in Nat /\ c \in Seq({"command", "bad"}) /\ Len(c) = n
  BY <1>1, CallsAssumption, FunctionSeq
<1>3. TalkOrder'
  <2>1. PICK m : m = [role |-> "assistant", calls |-> n]
    OBVIOUS
  <2>2. m \in Message /\ m.role = "assistant" /\ m.calls = n
    BY <2>1 DEF Message, Role
  <2>3. Owed = 0 /\ pc # "exit" /\ CanAdd(messages)
    BY DEF Response, Owed, Busy
  <2>4. PICK p : /\ Talk(p) /\ Len(p) < MAX_MESSAGES /\ InOrder(p, 0)
                 /\ Add(messages, m) = Append(p, m)
    BY <2>3, OwedIs, AddIs
  <2>5. messages' = Append(p, m)
    BY <1>1, <2>1, <2>4
  <2>6. Talk(messages') /\ InOrder(messages', n)
    BY <2>2, <2>4, <2>5, AppendIs, AppendResponse
  <2>7. Owed' = n
    BY <1>1, <1>2 DEF Owed, Busy
  <2> QED  BY <2>6, <2>7 DEF TalkOrder
<1>4. AgentTypeOK'
  BY <1>1, <1>2, <1>3, RoundsAssumption, CommandAssumption
     DEF AgentInv, AgentTypeOK, TalkOrder, Talk, Response, talk, ring, tools
<1>5. CallAtHand'
  <2>1. n # 0 => c # << >>
    BY <1>2
  <2> QED  BY <1>1, <2>1 DEF CallAtHand, Busy
<1>6. Watched' /\ Owned'
  BY DEF AgentInv, Watched, Owned, Response, talk, ring, tools
<1> QED  BY <1>3, <1>4, <1>5, <1>6 DEF AgentInv

\* The command has ended: its result, and perhaps a question.
LEMMA CommandEndsStep == AgentInv /\ CommandEnds => AgentInv'
<1> SUFFICES ASSUME AgentInv, CommandEnds PROVE AgentInv'
  OBVIOUS
<1>1. /\ pc \in {"command", "reap"} /\ child' = "none" /\ live' = 0
      /\ steering' = EndLive(steering, live)
      /\ UNCHANGED <<full_access, interrupted, worker, steer, round>>
  BY DEF CommandEnds
<1>2. steering' \in Ring /\ live' \in Typed
  BY <1>1, RingTypes, TypedAssumption DEF AgentInv, AgentTypeOK, Ring
<1>3. CASE Answer
  <2>1. /\ TalkOrder' /\ CallAtHand' /\ granted' = FALSE
        /\ pc' \in {"call", "drain", "exit"}
        /\ calls' \in Seq({"command", "bad"}) /\ Len(calls') <= MaxCalls
    BY <1>1, <1>3, AnswerKeeps DEF Busy
  <2>2. AgentTypeOK'
    BY <1>1, <1>2, <2>1 DEF AgentInv, AgentTypeOK, TalkOrder, Talk, Ring
  <2>3. Watched' /\ Owned'
    BY <1>1, <2>1 DEF AgentInv, Watched, Owned
  <2> QED  BY <2>1, <2>2, <2>3 DEF AgentInv
<1>4. CASE /\ CanAdd(messages) /\ pc' = "poststeer"
           /\ messages' = Add(messages, Msg("tool")) /\ UNCHANGED <<calls, granted>>
  <2>1. Owed = Len(calls) /\ pc # "exit" /\ Owed \in Nat \ {0} /\ Owed' = Owed - 1
    BY <1>1, <1>4, OwedIs DEF Owed, Busy
  <2>2. Msg("tool") \in Message /\ Msg("tool").role = "tool"
    BY CallsAssumption DEF Msg, Message, Role
  <2>3. PICK p : /\ Talk(p) /\ Len(p) < MAX_MESSAGES /\ InOrder(p, Owed)
                 /\ Add(messages, Msg("tool")) = Append(p, Msg("tool"))
    BY <1>4, <2>1, OwedIs, AddIs
  <2>4. Talk(messages') /\ InOrder(messages', Owed - 1)
    BY <1>4, <2>1, <2>2, <2>3, AppendIs, AppendResult
  <2>5. TalkOrder'
    BY <2>1, <2>4 DEF TalkOrder
  <2>6. CallAtHand'
    BY <1>1, <1>4 DEF AgentInv, CallAtHand, Busy
  <2>7. AgentTypeOK'
    BY <1>1, <1>2, <1>4, <2>4 DEF AgentInv, AgentTypeOK, Talk, Ring
  <2>8. Watched' /\ Owned'
    BY <1>1, <1>4 DEF AgentInv, Watched, Owned
  <2> QED  BY <2>5, <2>6, <2>7, <2>8 DEF AgentInv
<1> QED  BY <1>3, <1>4 DEF CommandEnds

\* The steering is sent, or there is none.
LEMMA DrainEndsStep == AgentInv /\ DrainEnds => AgentInv'
<1> SUFFICES ASSUME AgentInv, DrainEnds PROVE AgentInv'
  OBVIOUS
<1>1. /\ pc \in {"drain", "pending"} /\ pc' \in {"create", "prompt"}
      /\ round' \in {0, round + 1} /\ (round' # 0 => round + 1 < max_tool_rounds)
      /\ UNCHANGED <<full_access, interrupted, ring, worker, child, tools>>
  BY DEF DrainEnds, Draining
<1>2. Owed = 0 /\ Owed' = 0 /\ pc # "exit"
  BY <1>1 DEF Owed, Busy
<1>3. TalkOrder'
  <2>1. CASE UNCHANGED messages
    BY <1>2, <2>1, OwedIs DEF TalkOrder
  <2>2. CASE CanAdd(messages) /\ messages' = Add(messages, Msg("user"))
    BY <1>2, <2>2, PlainKeeps
  <2> QED  BY <2>1, <2>2 DEF DrainEnds
<1>4. AgentTypeOK'
  <2>1. round' \in 0..(max_tool_rounds - 1)
    BY <1>1, RoundsAssumption DEF AgentInv, AgentTypeOK
  <2> QED  BY <1>1, <1>3, <2>1 DEF AgentInv, AgentTypeOK, TalkOrder, Talk, ring, tools
<1>5. CallAtHand' /\ Watched' /\ Owned'
  BY <1>1 DEF AgentInv, CallAtHand, Busy, Watched, Owned, ring, tools
<1> QED  BY <1>3, <1>4, <1>5 DEF AgentInv

\* Every step of the human, the main thread, the request thread and the
\* command keeps the invariant.
LEMMA AgentStep == AgentInv /\ [Next]_vars => AgentInv'
<1> SUFFICES ASSUME AgentInv, [Next]_vars PROVE AgentInv'
  OBVIOUS
<1>1. CASE UNCHANGED vars
  BY <1>1 DEF vars, AgentInv, AgentTypeOK, TalkOrder, CallAtHand, Watched, Owned, Owed
<1>2. CASE Human
  BY <1>2, QuitStep, NewConversationStep, ToggleForceStep, LoadSkillStep, PromptStep,
     PollLiveStep, AllowStep, RefuseStep, PartialSteerStep, PostSteerStep DEF Human
<1>3. CASE Main
  BY <1>3, CreateWorkerStep, CallInlineStep, WaitEndsStep, JoinStep, BadResponseStep,
     ResponseStep, SkipCallStep, AskCallStep, SpawnStep, SpawnFailsStep, LoopBreaksStep,
     CommandEndsStep, DrainLineStep, DrainEndsStep, DrainFailsStep DEF Main
<1>4. CASE RequestSent \/ WorkerDone \/ ChildExits \/ ChildCloses \/ Signal
  BY <1>4, RequestSentStep, WorkerDoneStep, ChildExitsStep, ChildClosesStep, SignalStep
<1> QED  BY <1>1, <1>2, <1>3, <1>4 DEF Next

-----------------------------------------------------------------------------
(* The theorems.                                                           *)

\* The strengthened invariant holds throughout.
THEOREM AgentInvariant == Spec => []AgentInv
BY AgentInitial, AgentStep, PTL DEF Spec

\* ai.c: the conversation, the ring, the calls and the rounds stay within
\* their arrays and limits.
THEOREM AgentTypes == Spec => []AgentTypeOK
<1>1. AgentInv => AgentTypeOK
  BY DEF AgentInv
<1> QED  BY <1>1, AgentInvariant, PTL

\* ai.c, process_tool_calls with drop_oldest_message: whenever the agent is at
\* the prompt or on the way to a request, every call that is still in the
\* conversation is followed by exactly its results.
THEOREM AgentCallsAnswered == Spec => []CallsAnswered
<1>1. AgentInv => CallsAnswered
  <2> SUFFICES ASSUME AgentInv, pc \in {"prompt", "create", "wait", "inline", "ended"},
                      NEW i \in DOMAIN messages, messages[i].role = "assistant"
               PROVE  Answered(messages, i)
    BY DEF CallsAnswered, Answered
  <2>1. Owed = 0 /\ InOrder(messages, 0)
    BY OwedIs DEF Owed, Busy
  <2>2. i \in 1..Len(messages)
    BY DEF AgentInv, AgentTypeOK
  <2> QED  BY <2>1, <2>2 DEF InOrder
<1> QED  BY <1>1, AgentInvariant, PTL

\* ai.c, command_decision before run_command: no command runs that the human
\* has not allowed, except in full access.
THEOREM AgentHumanFirst == Spec => []HumanFirst
<1>1. AgentInv => HumanFirst
  BY DEF AgentInv, Watched, HumanFirst
<1> QED  BY <1>1, AgentInvariant, PTL

\* ai.c, call_endpoint_threaded: nobody changes the messages while the request
\* thread may read them.
THEOREM AgentOneOwner == Spec => OneOwner
<1>1. AgentInv /\ [Next]_vars => [worker' \in {"sending", "receiving"} => UNCHANGED messages]_vars
  <2> SUFFICES ASSUME AgentInv, Next, worker' \in {"sending", "receiving"} PROVE UNCHANGED messages
    BY DEF vars
  <2>1. CASE Main
    BY <2>1 DEF Main, CreateWorker, CallInline, WaitEnds, Join, BadResponse, Response,
                SkipCall, AskCall, Spawn, SpawnFails, LoopBreaks, CommandEnds, DrainLine,
                DrainEnds, DrainFails, Draining, AgentInv, Owned, talk
  <2>2. CASE Human
    BY <2>2 DEF Human, Quit, NewConversation, ToggleForce, LoadSkill, Prompt, PollLive, Allow,
                Refuse, PartialSteer, PostSteer, AgentInv, Owned, talk
  <2>3. CASE RequestSent \/ WorkerDone \/ ChildExits \/ ChildCloses \/ Signal
    BY <2>3 DEF RequestSent, WorkerDone, ChildExits, ChildCloses, Signal, talk
  <2> QED  BY <2>1, <2>2, <2>3 DEF Next
<1> QED  BY <1>1, AgentInvariant, PTL DEF Spec, OneOwner

\* There are finitely many messages of the system.
LEMMA SystemCountIs ==
    ASSUME NEW q \in Seq(Message)
    PROVE  LET S == {i \in 1..Len(q) : q[i].role = "system"}
           IN  IsFiniteSet(S) /\ SystemCount(q) = Cardinality(S) /\ SystemCount(q) \in Nat
<1> DEFINE S == {i \in 1..Len(q) : q[i].role = "system"}
<1>1. IsFiniteSet(1..Len(q))
  BY FS_Interval
<1>2. IsFiniteSet(S)
  BY <1>1, FS_Subset
<1>3. SystemCount(q) = Cardinality(S)
  BY DEF SystemCount
<1> HIDE DEF S
<1>4. SystemCount(q) \in Nat
  BY <1>2, <1>3, FS_CardinalityType
<1> QED  BY <1>2, <1>3, <1>4 DEF S

\* What is dropped is no message of the system: those that were there are
\* there afterwards, each perhaps one place further to the front.
LEMMA DropKeepsSystem ==
    ASSUME NEW q, Talk(q)
    PROVE  Drop(q) \in Seq(Message) /\ SystemCount(Drop(q)) >= SystemCount(q)
<1> DEFINE d == Drop(q)
           S == {i \in 1..Len(q) : q[i].role = "system"}
           T == {i \in 1..Len(d) : d[i].role = "system"}
<1>1. q \in Seq(Message) /\ Len(q) \in Nat
  BY DEF Talk
<1>2. CASE Droppable(q) = {}
  <2>1. d = q
    BY <1>2 DEF Drop
  <2>2. SystemCount(q) \in Nat
    BY <1>1, SystemCountIs
  <2> HIDE DEF d
  <2> QED  BY <1>1, <2>1, <2>2 DEF d
<1>3. CASE Droppable(q) # {}
  <2>1. PICK k \in 2..Len(q) :
          /\ q[k].role # "system"
          /\ \A i \in 1..(k - 1) : q[i].role = "system"
          /\ d = [i \in 1..(Len(q) - 1) |-> IF i < k THEN q[i] ELSE q[i + 1]]
    BY <1>3, DropIs
  <2>2. /\ d \in Seq(Message) /\ Len(d) = Len(q) - 1
        /\ \A i \in 1..Len(d) : d[i] = IF i < k THEN q[i] ELSE q[i + 1]
    <3>1. \A i \in 1..(Len(q) - 1) : (IF i < k THEN q[i] ELSE q[i + 1]) \in Message
      BY <1>1, <2>1
    <3>2. d \in [1..(Len(q) - 1) -> Message] /\ Len(q) - 1 \in Nat
      BY <1>1, <2>1, <3>1
    <3> HIDE DEF d
    <3>3. d \in Seq(Message) /\ Len(d) = Len(q) - 1
      BY <3>2, FunctionSeq
    <3> QED  BY <2>1, <3>3
  <2> HIDE DEF d
  <2> DEFINE f == [i \in S |-> IF i < k THEN i ELSE i - 1]
  <2>3. \A i \in S : i \in 1..Len(q) /\ i # k /\ q[i].role = "system"
    BY <2>1
  <2>4. \A i \in S : f[i] \in T
    <3> SUFFICES ASSUME NEW i \in S
                 PROVE  f[i] \in T
      OBVIOUS
    <3>1. CASE i < k
      BY <1>1, <2>1, <2>2, <2>3, <3>1
    <3>2. CASE i > k
      <4>1. i - 1 \in 1..Len(d) /\ ~(i - 1 < k) /\ (i - 1) + 1 = i
        BY <1>1, <2>1, <2>2, <2>3, <3>2
      <4>2. d[i - 1] = q[i]
        BY <2>2, <4>1
      <4> QED  BY <1>1, <2>1, <2>3, <3>2, <4>1, <4>2
    <3> QED  BY <1>1, <2>1, <2>3, <3>1, <3>2
  <2>5. \A i, j \in S : f[i] = f[j] => i = j
    BY <1>1, <2>1, <2>3
  <2> HIDE DEF f
  <2>6. f \in [S -> T]
    BY <2>4 DEF f
  <2>7. f \in Injection(S, T)
    BY <2>5, <2>6 DEF Injection, IsInjective
  <2>8. /\ IsFiniteSet(T) /\ SystemCount(d) = Cardinality(T) /\ SystemCount(d) \in Nat
        /\ SystemCount(q) = Cardinality(S) /\ SystemCount(q) \in Nat
    BY <1>1, <2>2, SystemCountIs
  <2> HIDE DEF S, T
  <2>9. Cardinality(S) <= Cardinality(T)
    BY <2>7, <2>8, FS_Injection
  <2>10. SystemCount(d) >= SystemCount(q)
    BY <2>8, <2>9
  <2> QED  BY <2>2, <2>10 DEF d
<1> QED  BY <1>2, <1>3

\* What is added leaves those that are there.
LEMMA AddKeepsSystem ==
    ASSUME NEW q, Talk(q), NEW m \in Message
    PROVE  SystemCount(Add(q, m)) >= SystemCount(q)
<1> DEFINE p == IF Len(q) = MAX_MESSAGES THEN Drop(q) ELSE q
           r == Append(p, m)
<1>1. q \in Seq(Message) /\ SystemCount(q) \in Nat
  BY SystemCountIs DEF Talk
<1>2. p \in Seq(Message) /\ SystemCount(p) >= SystemCount(q)
  BY <1>1, DropKeepsSystem
<1>3. Add(q, m) = r
  BY DEF Add
<1> HIDE DEF p
<1>4. /\ r \in Seq(Message) /\ Len(p) \in Nat /\ Len(r) = Len(p) + 1
      /\ \A i \in 1..Len(p) : r[i] = p[i]
  BY <1>2, AppendProperties
<1> HIDE DEF r
<1> DEFINE S == {i \in 1..Len(p) : p[i].role = "system"}
           T == {i \in 1..Len(r) : r[i].role = "system"}
<1>5. S \in SUBSET T
  BY <1>4
<1>6. /\ IsFiniteSet(T) /\ SystemCount(r) = Cardinality(T) /\ SystemCount(r) \in Nat
      /\ SystemCount(p) = Cardinality(S) /\ SystemCount(p) \in Nat
  BY <1>2, <1>4, SystemCountIs
<1> HIDE DEF S, T
<1>7. Cardinality(S) <= Cardinality(T)
  BY <1>5, <1>6, FS_Subset
<1> QED  BY <1>1, <1>2, <1>3, <1>6, <1>7

\* ai.c, drop_oldest_message: only /new takes the system prompt and the skills
\* out of the conversation, however full it gets and whatever fails.
THEOREM AgentSystemKept == Spec => SystemKept
<1> DEFINE Kept == \/ UNCHANGED messages
                   \/ messages' = Drop(messages)
                   \/ \E m \in Message : messages' = Add(messages, m)
<1>1. AgentInv /\ [Next]_vars => NewConversation \/ Kept
  <2> SUFFICES ASSUME AgentInv, Next, ~NewConversation
               PROVE  Kept
    BY DEF vars
  <2>1. \A role \in Role : Msg(role) \in Message
    BY CallsAssumption DEF Msg, Message
  <2>2. "user" \in Role /\ "tool" \in Role /\ "system" \in Role /\ "assistant" \in Role
    BY DEF Role
  <2>3. CASE Response
    <3>1. PICK n \in 0..MaxCalls : messages' = Add(messages, [role |-> "assistant", calls |-> n])
      BY <2>3 DEF Response
    <3>2. [role |-> "assistant", calls |-> n] \in Message
      BY <2>2 DEF Message
    <3> QED  BY <3>1, <3>2
  <2>4. CASE Main /\ ~Response
    BY <2>1, <2>2, <2>4
       DEF Main, CreateWorker, CallInline, WaitEnds, Join, BadResponse, RequestFailed,
           SkipCall, AskCall, Spawn, SpawnFails, LoopBreaks, CommandEnds, DrainLine,
           DrainEnds, DrainFails, Answer, talk
  <2>5. CASE Human
    BY <2>1, <2>2, <2>5
       DEF Human, Quit, ToggleForce, LoadSkill, Prompt, PollLive, Allow,
           Refuse, PartialSteer, PostSteer, Answer, talk
  <2>6. CASE RequestSent \/ WorkerDone \/ ChildExits \/ ChildCloses \/ Signal
    BY <2>6 DEF RequestSent, WorkerDone, ChildExits, ChildCloses, Signal, talk
  <2> QED  BY <2>3, <2>4, <2>5, <2>6 DEF Next
<1>2. AgentInv /\ Kept => SystemCount(messages') >= SystemCount(messages)
  <2> SUFFICES ASSUME AgentInv, Kept
               PROVE  SystemCount(messages') >= SystemCount(messages)
    OBVIOUS
  <2>1. Talk(messages) /\ SystemCount(messages) \in Nat
    BY SystemCountIs DEF AgentInv, TalkOrder, Talk
  <2>2. CASE UNCHANGED messages
    BY <2>1, <2>2
  <2>3. CASE messages' = Drop(messages)
    BY <2>1, <2>3, DropKeepsSystem
  <2>4. CASE \E m \in Message : messages' = Add(messages, m)
    BY <2>1, <2>4, AddKeepsSystem
  <2> QED  BY <2>2, <2>3, <2>4
<1> HIDE DEF Kept
<1>3. AgentInv /\ [Next]_vars
          => [NewConversation \/ SystemCount(messages') >= SystemCount(messages)]_vars
  BY <1>1, <1>2
<1> QED  BY <1>3, AgentInvariant, PTL DEF Spec, SystemKept

-----------------------------------------------------------------------------
(* The ring of steering lines is a queue, for every size of the ring: what *)
(* the main thread, the human and the commands do to the slots and the two *)
(* indices is what SteeringQueue does to its sequence.                     *)

\* The slots from the read index to the write index.
InUse(r, i) ==
    IF r.read < r.write THEN r.read <= i /\ i < r.write ELSE r.read <= i \/ i < r.write

\* They are the ones that hold a line.  When the indices are equal the slot
\* at the read index tells a full ring from an empty one.
RingInv(r) ==
    /\ r \in Ring
    /\ IF Available(r) THEN \A i \in Slot : r.slot[i] # None <=> InUse(r, i)
       ELSE r.write = r.read /\ \A i \in Slot : r.slot[i] = None

\* The index after another one.
LEMMA SuccIs ==
    ASSUME NEW i \in Slot
    PROVE  /\ Succ(i) = IF i + 1 = MAX_STEERING_LINES THEN 0 ELSE i + 1
           /\ Succ(i) \in Slot /\ i \in Nat /\ i < MAX_STEERING_LINES
           /\ MAX_STEERING_LINES \in Nat \ {0}
BY SteeringAssumption DEF Slot, Succ

\* The queue a ring stands for.
LEMMA QueuedIs ==
    ASSUME NEW r, RingInv(r)
    PROVE  /\ Used(r) \in 0..MAX_STEERING_LINES
           /\ Queued(r) \in Seq(Typed) /\ Len(Queued(r)) = Used(r)
           /\ \A k \in 1..Used(r) : /\ Wrap(r.read + (k - 1)) \in Slot
                                    /\ r.slot[Wrap(r.read + (k - 1))] \in Typed
                                    /\ Queued(r)[k] = r.slot[Wrap(r.read + (k - 1))]
<1>1. PICK n, rd, w : n = MAX_STEERING_LINES /\ rd = r.read /\ w = r.write
  OBVIOUS
<1>2. n \in Nat \ {0} /\ rd \in 0..(n - 1) /\ w \in 0..(n - 1) /\ Slot = 0..(n - 1)
  BY <1>1, SteeringAssumption DEF RingInv, Ring, Slot
<1>3. Used(r) = IF ~Available(r) THEN 0 ELSE IF rd < w THEN w - rd ELSE n - (rd - w)
  BY <1>1 DEF Used
<1>4. Used(r) \in 0..n
  BY <1>2, <1>3
<1>5. ASSUME NEW k \in 1..Used(r)
      PROVE  Wrap(rd + (k - 1)) \in Slot /\ r.slot[Wrap(rd + (k - 1))] \in Typed
  <2>1. Available(r) /\ k \in Nat /\ k >= 1 /\ k <= IF rd < w THEN w - rd ELSE n - (rd - w)
    BY <1>2, <1>3, <1>4, <1>5
  <2>2. PICK i : i = Wrap(rd + (k - 1))
    OBVIOUS
  <2>3. i = IF rd + (k - 1) < n THEN rd + (k - 1) ELSE rd + (k - 1) - n
    BY <1>1, <1>2, <2>1, <2>2 DEF Wrap
  <2>4. i \in 0..(n - 1) /\ IF rd < w THEN rd <= i /\ i < w ELSE rd <= i \/ i < w
    BY <1>2, <2>1, <2>3
  <2>5. i \in Slot /\ InUse(r, i)
    BY <1>1, <1>2, <2>4 DEF InUse
  <2>6. r.slot[i] # None /\ r.slot[i] \in Typed \cup {None}
    BY <2>1, <2>5 DEF RingInv, Ring
  <2> QED  BY <2>2, <2>5, <2>6
<1>6. Queued(r) = [k \in 1..Used(r) |-> r.slot[Wrap(rd + (k - 1))]]
  BY <1>1 DEF Queued
<1>7. Queued(r) \in [1..Used(r) -> Typed]
  BY <1>5, <1>6
<1>8. Used(r) \in Nat
  BY <1>2, <1>4
<1>9. Queued(r) \in Seq(Typed) /\ Len(Queued(r)) = Used(r)
  BY <1>7, <1>8, FunctionSeq
<1> QED  BY <1>1, <1>4, <1>5, <1>6, <1>9

\* queue_live_line: the line becomes the last one, or the ring is full.
Offered(q, l) == IF Len(q) < MAX_STEERING_LINES THEN Append(q, l) ELSE q
LEMMA QueueLineIs ==
    ASSUME NEW r, RingInv(r), NEW l \in Typed
    PROVE  /\ RingInv(QueueLine(r, l))
           /\ Queued(QueueLine(r, l)) = Offered(Queued(r), l)
<1>1. CASE r.slot[r.write] # None
  <2>1. PICK n, rd, w : n = MAX_STEERING_LINES /\ rd = r.read /\ w = r.write
    OBVIOUS
  <2>2. n \in Nat \ {0} /\ rd \in 0..(n - 1) /\ w \in 0..(n - 1) /\ w \in Slot
    BY <2>1, SteeringAssumption DEF RingInv, Ring, Slot
  <2>3. Available(r) /\ InUse(r, w)
    BY <1>1, <2>1, <2>2 DEF RingInv
  <2>4. rd = w
    BY <2>1, <2>2, <2>3 DEF InUse
  <2>5. Used(r) = n
    BY <2>1, <2>2, <2>3, <2>4 DEF Used
  <2>6. Len(Queued(r)) = n
    BY <2>5, QueuedIs
  <2> QED  BY <1>1, <2>1, <2>2, <2>6 DEF QueueLine, Offered
<1>2. CASE r.slot[r.write] = None
  <2>1. PICK n, rd, w, s : n = MAX_STEERING_LINES /\ rd = r.read /\ w = r.write /\ s = r.slot
    OBVIOUS
  <2>2. /\ n \in Nat \ {0} /\ rd \in 0..(n - 1) /\ w \in 0..(n - 1) /\ Slot = 0..(n - 1)
        /\ s \in [Slot -> Typed \cup {None}] /\ r = [slot |-> s, read |-> rd, write |-> w]
    BY <2>1, SteeringAssumption DEF RingInv, Ring, Slot
  <2>3. PICK v : v = QueueLine(r, l)
    OBVIOUS
  <2>4. v = [slot |-> [s EXCEPT ![w] = l], read |-> rd, write |-> Succ(w)]
    BY <1>2, <2>1, <2>2, <2>3 DEF QueueLine
  <2>5. PICK x : x = Succ(w)
    OBVIOUS
  <2>6. x = (IF w + 1 = n THEN 0 ELSE w + 1) /\ x \in 0..(n - 1)
    BY <2>1, <2>2, <2>5, SuccIs
  <2>7. /\ v.read = rd /\ v.write = x /\ v \in Ring
        /\ \A i \in Slot : v.slot[i] = IF i = w THEN l ELSE s[i]
    BY <2>2, <2>4, <2>5, <2>6 DEF Ring
  <2>8. l # None
    BY TypedAssumption DEF None
  <2>9. RingInv(v) /\ Available(v) /\ Used(v) = Used(r) + 1
    <3>1. CASE ~Available(r)
      <4>1. w = rd /\ \A i \in Slot : s[i] = None
        BY <2>1, <3>1 DEF RingInv
      <4>2. Available(v)
        BY <2>2, <2>7, <2>8, <4>1 DEF Available
      <4>3. ASSUME NEW i \in Slot PROVE v.slot[i] # None <=> InUse(v, i)
        <5>1. InUse(v, i) <=> i = w
          BY <2>2, <2>6, <2>7, <4>1 DEF InUse
        <5> QED  BY <2>7, <2>8, <4>1, <5>1
      <4>4. Used(v) = 1
        BY <2>1, <2>2, <2>6, <2>7, <4>1, <4>2 DEF Used
      <4> QED  BY <2>7, <3>1, <4>2, <4>3, <4>4 DEF RingInv, Used
    <3>2. CASE Available(r)
      <4>1. w # rd /\ \A i \in Slot : s[i] # None <=> InUse(r, i)
        BY <1>2, <2>1, <3>2 DEF RingInv, Available
      <4>2. Available(v)
        BY <2>1, <2>2, <2>7, <3>2, <4>1 DEF Available
      <4>3. ASSUME NEW i \in Slot PROVE v.slot[i] # None <=> InUse(v, i)
        <5>1. InUse(v, i) <=> i = w \/ InUse(r, i)
          BY <2>1, <2>2, <2>6, <2>7, <4>1 DEF InUse
        <5> QED  BY <2>7, <2>8, <4>1, <5>1
      <4>4. Used(v) = Used(r) + 1
        BY <2>1, <2>2, <2>6, <2>7, <3>2, <4>1, <4>2 DEF Used
      <4> QED  BY <2>7, <4>2, <4>3, <4>4 DEF RingInv
    <3> QED  BY <3>1, <3>2
  <2>10. Used(r) < n /\ Wrap(rd + Used(r)) = w /\ Used(r) \in Nat
    <3>1. ~Available(r) => w = rd
      BY <2>1 DEF RingInv
    <3>2. Available(r) => w # rd
      BY <1>2, <2>1 DEF Available
    <3> QED  BY <2>1, <2>2, <3>1, <3>2 DEF Used, Wrap
  <2>11. Queued(v) = Append(Queued(r), l)
    <3>1. PICK q, p : q = Queued(r) /\ p = Queued(v)
      OBVIOUS
    <3>2. /\ q \in Seq(Typed) /\ Len(q) = Used(r)
          /\ \A k \in 1..Used(r) : /\ Wrap(rd + (k - 1)) \in Slot
                                   /\ s[Wrap(rd + (k - 1))] \in Typed
                                   /\ q[k] = s[Wrap(rd + (k - 1))]
      BY <2>1, <3>1, QueuedIs
    <3>3. /\ p \in Seq(Typed) /\ Len(p) = Used(r) + 1
          /\ \A k \in 1..(Used(r) + 1) : p[k] = v.slot[Wrap(rd + (k - 1))]
      BY <2>7, <2>9, <3>1, QueuedIs
    <3>4. /\ Append(q, l) \in Seq(Typed) /\ Len(Append(q, l)) = Used(r) + 1
          /\ Append(q, l)[Used(r) + 1] = l
          /\ \A k \in 1..Used(r) : Append(q, l)[k] = q[k]
      BY <3>2, AppendProperties
    <3>5. p[Used(r) + 1] = l
      <4>1. Used(r) + 1 \in 1..(Used(r) + 1) /\ (Used(r) + 1) - 1 = Used(r)
        BY <2>10
      <4>2. p[Used(r) + 1] = v.slot[Wrap(rd + ((Used(r) + 1) - 1))]
        BY <3>3, <4>1
      <4> QED  BY <2>2, <2>7, <2>10, <4>1, <4>2
    <3>6. ASSUME NEW k \in 1..Used(r) PROVE p[k] = q[k]
      <4>1. s[Wrap(rd + (k - 1))] # None /\ s[w] = None
        BY <1>2, <2>1, <3>2, TypedAssumption DEF None
      <4>2. v.slot[Wrap(rd + (k - 1))] = s[Wrap(rd + (k - 1))]
        BY <2>7, <3>2, <4>1
      <4>3. k \in 1..(Used(r) + 1)
        BY <2>10
      <4> QED  BY <3>2, <3>3, <4>2, <4>3
    <3>7. \A k \in 1..(Used(r) + 1) : p[k] = Append(q, l)[k]
      <4>1. \A k \in 1..(Used(r) + 1) : k \in 1..Used(r) \/ k = Used(r) + 1
        BY <2>10
      <4> QED  BY <3>4, <3>5, <3>6, <4>1
    <3> QED  BY <3>1, <3>3, <3>4, <3>7, SeqEqual
  <2>12. Len(Queued(r)) < MAX_STEERING_LINES
    BY <2>1, <2>10, QueuedIs
  <2> QED  BY <2>3, <2>9, <2>11, <2>12 DEF Offered
<1> QED  BY <1>1, <1>2

\* take_steering: the first line goes.
LEMMA TakeLineIs ==
    ASSUME NEW r, RingInv(r), Available(r)
    PROVE  /\ RingInv(TakeLine(r)) /\ Queued(r) # << >>
           /\ Queued(TakeLine(r)) = Tail(Queued(r))
<1>1. PICK n, rd, w, s : n = MAX_STEERING_LINES /\ rd = r.read /\ w = r.write /\ s = r.slot
  OBVIOUS
<1>2. /\ n \in Nat \ {0} /\ rd \in 0..(n - 1) /\ w \in 0..(n - 1) /\ Slot = 0..(n - 1)
      /\ s \in [Slot -> Typed \cup {None}] /\ r = [slot |-> s, read |-> rd, write |-> w]
  BY <1>1, SteeringAssumption DEF RingInv, Ring, Slot
<1>3. PICK v : v = TakeLine(r)
  OBVIOUS
<1>4. v = [slot |-> [s EXCEPT ![rd] = None], read |-> Succ(rd), write |-> w]
  BY <1>1, <1>2, <1>3 DEF TakeLine
<1>5. PICK x : x = Succ(rd)
  OBVIOUS
<1>6. x = (IF rd + 1 = n THEN 0 ELSE rd + 1) /\ x \in 0..(n - 1)
  BY <1>1, <1>2, <1>5, SuccIs
<1>7. /\ v.read = x /\ v.write = w /\ v \in Ring
      /\ \A i \in Slot : v.slot[i] = IF i = rd THEN None ELSE s[i]
  BY <1>2, <1>4, <1>5, <1>6 DEF Ring
<1>8. \A i \in Slot : s[i] # None <=> InUse(r, i)
  BY <1>1 DEF RingInv
<1>9. Used(r) = IF rd < w THEN w - rd ELSE n - (rd - w)
  BY <1>1 DEF Used
<1>10. RingInv(v) /\ Used(v) = Used(r) - 1
  <2>1. Available(v) <=> x # w
    <3>1. v.slot[x] = IF x = rd THEN None ELSE s[x]
      BY <1>2, <1>6, <1>7
    <3>2. InUse(r, x) /\ x # rd <=> x # w
      BY <1>1, <1>2, <1>6 DEF InUse
    <3> QED  BY <1>2, <1>6, <1>7, <1>8, <3>1, <3>2 DEF Available
  <2>2. CASE x = w
    <3>1. ASSUME NEW i \in Slot PROVE v.slot[i] = None
      <4>1. InUse(r, i) => i = rd
        BY <1>1, <1>2, <1>6, <2>2 DEF InUse
      <4> QED  BY <1>7, <1>8, <4>1
    <3>2. Used(r) = 1
      BY <1>2, <1>6, <1>9, <2>2
    <3> QED  BY <1>7, <2>1, <2>2, <3>1, <3>2 DEF RingInv, Used
  <2>3. CASE x # w
    <3>1. ASSUME NEW i \in Slot PROVE v.slot[i] # None <=> InUse(v, i)
      <4>1. InUse(v, i) <=> InUse(r, i) /\ i # rd
        BY <1>1, <1>2, <1>6, <1>7, <2>3 DEF InUse
      <4> QED  BY <1>7, <1>8, <4>1
    <3>2. Used(v) = Used(r) - 1
      BY <1>1, <1>2, <1>6, <1>7, <1>9, <2>1, <2>3 DEF Used
    <3> QED  BY <1>7, <2>1, <2>3, <3>1, <3>2 DEF RingInv
  <2> QED  BY <2>2, <2>3
<1>11. PICK q, p : q = Queued(r) /\ p = Queued(v)
  OBVIOUS
<1>12. Used(r) \in Nat \ {0} /\ Used(r) <= n
  BY <1>2, <1>9
<1>17. /\ q \in Seq(Typed) /\ Len(q) = Used(r)
       /\ \A k \in 1..Used(r) : /\ Wrap(rd + (k - 1)) \in Slot
                                /\ q[k] = s[Wrap(rd + (k - 1))]
  BY <1>1, <1>11, QueuedIs
<1>13. /\ p \in Seq(Typed) /\ Len(p) = Used(r) - 1
       /\ \A k \in 1..(Used(r) - 1) : /\ Wrap(x + (k - 1)) \in Slot
                                      /\ v.slot[Wrap(x + (k - 1))] \in Typed
                                      /\ p[k] = v.slot[Wrap(x + (k - 1))]
  BY <1>7, <1>10, <1>11, QueuedIs
<1>14. q # << >>
  BY <1>12, <1>17, EmptySeq
<1>15. /\ Tail(q) \in Seq(Typed) /\ Len(Tail(q)) = Used(r) - 1
       /\ \A k \in 1..(Used(r) - 1) : Tail(q)[k] = q[k + 1]
  BY <1>17, <1>14, HeadTailProperties
<1>16. ASSUME NEW k \in 1..(Used(r) - 1) PROVE p[k] = Tail(q)[k]
  <2>1. k \in Nat /\ k + 1 \in 1..Used(r) /\ (k + 1) - 1 = k /\ Used(r) <= n
    BY <1>12
  <2>2. Wrap(x + (k - 1)) = Wrap(rd + ((k + 1) - 1))
    <3>1. Wrap(x + (k - 1)) = IF x + (k - 1) < n THEN x + (k - 1) ELSE x + (k - 1) - n
      BY <1>1, <1>2, <1>6, <2>1 DEF Wrap
    <3>2. Wrap(rd + ((k + 1) - 1)) = IF rd + k < n THEN rd + k ELSE rd + k - n
      BY <1>1, <1>2, <2>1 DEF Wrap
    <3>3. k + 1 <= n
      BY <1>2, <1>12, <2>1
    <3>4. rd + 1 = n => x + (k - 1) = k - 1 /\ rd + k = n + (k - 1) /\ k - 1 < n
      BY <1>2, <1>6, <2>1, <3>3
    <3>5. rd + 1 # n => x + (k - 1) = rd + k
      BY <1>2, <1>6, <2>1
    <3> QED  BY <1>2, <2>1, <3>1, <3>2, <3>4, <3>5
  <2>3. v.slot[Wrap(x + (k - 1))] = s[Wrap(x + (k - 1))]
    BY <1>7, <1>13, TypedAssumption DEF None
  <2>4. q[k + 1] = s[Wrap(rd + ((k + 1) - 1))]
    BY <1>17, <2>1
  <2> QED  BY <1>13, <1>15, <2>2, <2>3, <2>4
<1> QED  BY <1>3, <1>10, <1>11, <1>13, <1>14, <1>15, <1>16, SeqEqual

\* The empty ring.
LEMMA RingInitIs == RingInv(RingInit) /\ Queued(RingInit) = << >>
<1>1. RingInit \in Ring /\ 0 \in Slot
  BY RingTypes, TypedAssumption, SteeringAssumption DEF Slot, RingInit, Ring
<1>2. ~Available(RingInit) /\ RingInv(RingInit)
  BY <1>1 DEF RingInit, Available, RingInv
<1>3. Used(RingInit) = 0
  BY <1>2 DEF Used
<1>4. Queued(RingInit) \in Seq(Typed) /\ Len(Queued(RingInit)) = 0
  BY <1>2, <1>3, QueuedIs
<1> QED  BY <1>2, <1>4, EmptySeq

-----------------------------------------------------------------------------
(* The refinement.                                                         *)

SteeringInv == RingInv(steering)

\* The agent starts with an empty queue.
LEMMA SteeringInitial == Init => SteeringInv /\ Queued(steering) = << >>
BY RingInitIs DEF Init, SteeringInv

\* The actions that neither touch the ring nor what is typed.  They may pass
\* between the prompt and the work, or happen while somebody listens.
LEMMA RingAlone ==
    ASSUME Next, ~(CreateWorker \/ Spawn \/ PollLive \/ WaitEnds \/ CommandEnds \/ DrainLine
                   \/ NewConversation)
    PROVE  /\ UNCHANGED <<steering, live>>
           /\ Phase' = Phase \/ (Phase # "listening" /\ Phase' \in {"prompt", "working"})
<1>1. CASE Human
  BY <1>1 DEF Human, Quit, ToggleForce, LoadSkill, Prompt, Allow, Refuse, PartialSteer,
              PostSteer, Answer, ring, Phase
<1>2. CASE Main
  BY <1>2 DEF Main, CallInline, Join, RequestFailed, BadResponse, Response, SkipCall, AskCall,
              SpawnFails, LoopBreaks, DrainEnds, DrainFails, Draining, Answer, ring, Phase
<1>3. CASE RequestSent \/ WorkerDone \/ ChildExits \/ ChildCloses \/ Signal
  BY <1>3 DEF RequestSent, WorkerDone, ChildExits, ChildCloses, Signal, ring, Phase
<1> QED  BY <1>1, <1>2, <1>3 DEF Next

\* Every step of the agent keeps the ring sound and is a step of the queue.
LEMMA SteeringStep ==
    ASSUME AgentInv, SteeringInv, [Next]_vars
    PROVE  SteeringInv' /\ [Queue!QNext]_(Queue!qvars)
<1> USE DEF SteeringInv
<1>1. 0 \in Typed /\ live \in Typed
  BY TypedAssumption DEF AgentInv, AgentTypeOK
<1>2. CASE UNCHANGED vars
  BY <1>2 DEF vars, Queue!qvars, Phase
<1>3. CASE CreateWorker \/ Spawn
  <2>1. /\ Phase = "working" /\ Phase' = "listening" /\ live' = 0 /\ steering' = steering
    BY <1>3 DEF CreateWorker, Spawn, Phase
  <2> QED  BY <2>1 DEF Queue!QNext, Queue!Listen
<1>4. CASE PollLive
  <2>1. /\ Phase = "listening" /\ Phase' = "listening" /\ live' \in Typed
        /\ steering' = steering \/ steering' = QueueLine(steering, 0)
    BY <1>4 DEF PollLive, Phase
  <2>2. SteeringInv' /\ Queued(steering') \in {Queued(steering), Offered(Queued(steering), 0)}
    BY <1>1, <2>1, QueueLineIs
  <2> QED  BY <2>1, <2>2 DEF Queue!QNext, Queue!Type, Queue!Offer, Offered
<1>5. CASE WaitEnds \/ CommandEnds
  <2>1. /\ Phase = "listening" /\ Phase' = "working" /\ live' = 0
        /\ steering' = IF live = 0 THEN steering ELSE QueueLine(steering, live)
    BY <1>5 DEF WaitEnds, CommandEnds, Answer, Phase, EndLive
  <2>2. /\ SteeringInv'
        /\ Queued(steering') = IF live = 0 THEN Queued(steering)
                               ELSE Offered(Queued(steering), live)
    BY <1>1, <2>1, QueueLineIs
  <2> QED  BY <2>1, <2>2 DEF Queue!QNext, Queue!HandOver, Queue!Offer, Offered
<1>6. CASE DrainLine
  <2>1. /\ Phase = "working" /\ Phase' = "working" /\ live' = live
        /\ Available(steering) /\ steering' = TakeLine(steering)
    BY <1>6 DEF DrainLine, Draining, Phase
  <2>2. /\ SteeringInv' /\ Queued(steering) # << >>
        /\ Queued(steering') = Tail(Queued(steering))
    BY <2>1, TakeLineIs
  <2> QED  BY <2>1, <2>2 DEF Queue!QNext, Queue!Take
<1>7. CASE NewConversation
  <2>1. Phase = "prompt" /\ Phase' = "prompt" /\ live' = live /\ steering' = RingInit
    BY <1>7 DEF NewConversation, Phase
  <2>2. SteeringInv' /\ Queued(steering') = << >>
    BY <2>1, RingInitIs
  <2> QED  BY <2>1, <2>2 DEF Queue!QNext, Queue!Clear
<1>8. CASE Next /\ ~(CreateWorker \/ Spawn \/ PollLive \/ WaitEnds \/ CommandEnds \/ DrainLine
                    \/ NewConversation)
  <2>1. /\ steering' = steering /\ live' = live
        /\ Phase' = Phase \/ (Phase # "listening" /\ Phase' \in {"prompt", "working"})
    BY <1>8, RingAlone
  <2> QED  BY <2>1 DEF Queue!QNext, Queue!Move, Queue!qvars
<1> QED  BY <1>2, <1>3, <1>4, <1>5, <1>6, <1>7, <1>8

\* ai.c, queue_live_line, take_steering and clear_steering: the ring holds
\* lines exactly from its read to its write index.
THEOREM SteeringInvariant == Spec => []SteeringInv
<1>1. Init => SteeringInv
  BY SteeringInitial
<1>2. AgentInv /\ SteeringInv /\ [Next]_vars => SteeringInv'
  BY SteeringStep
<1> QED  BY <1>1, <1>2, AgentInvariant, PTL DEF Spec

\* ai.c: the agent's steering is a queue of at most MAX_STEERING_LINES lines.
\* What is typed when a request or a command ends is put at its end unless it is
\* full, the lines are taken one at a time in that order, and nothing else
\* changes the queue except a new conversation at the prompt.
THEOREM SteeringRefines == Spec => SteeringIsQueue
<1>1. Init => Queue!QInit
  BY SteeringInitial DEF Init, Queue!QInit, Phase
<1>2. AgentInv /\ SteeringInv /\ [Next]_vars => [Queue!QNext]_(Queue!qvars)
  BY SteeringStep
<1> QED  BY <1>1, <1>2, AgentInvariant, SteeringInvariant, PTL
         DEF Spec, SteeringIsQueue, Queue!QSpec
=============================================================================
