--------------------------- MODULE SteeringQueue ---------------------------
(***************************************************************************)
(* What the agent's ring of steering lines promises: a queue of bounded    *)
(* length.  What the human has typed when a request or a command ends is   *)
(* queued, and refused only when the queue is full; it stays until the     *)
(* agent takes it, in order and once, or the human begins a new            *)
(* conversation.                                                           *)
(***************************************************************************)
EXTENDS Naturals, Sequences

CONSTANTS
    Line,        \* what may be queued; 0 is the empty line
    Capacity     \* how many lines the queue holds

VARIABLES
    queue,
    typing,      \* what is typed so far
    phase        \* "prompt", "listening" (to what is typed) or "working"
qvars == <<queue, typing, phase>>

Offer(q, l) == IF Len(q) < Capacity THEN Append(q, l) ELSE q

QInit == queue = << >> /\ typing = 0 /\ phase = "prompt"

\* A request or a command begins.
Listen ==
    /\ phase = "working" /\ phase' = "listening"
    /\ typing' = 0 /\ queue' = queue
\* Typing and erasing; an empty line may be confirmed.
Type ==
    /\ phase = "listening" /\ phase' = phase
    /\ typing' \in Line /\ queue' \in {queue, Offer(queue, 0)}
\* The request or the command has ended: what was typed is handed over.
HandOver ==
    /\ phase = "listening" /\ phase' = "working"
    /\ typing' = 0 /\ queue' = IF typing = 0 THEN queue ELSE Offer(queue, typing)
\* The agent takes the oldest line.
Take ==
    /\ phase = "working" /\ queue # << >>
    /\ queue' = Tail(queue) /\ typing' = typing /\ phase' = phase
\* A new conversation.
Clear ==
    /\ phase = "prompt" /\ queue' = << >> /\ UNCHANGED <<typing, phase>>
\* Everything else the agent does leaves the queue alone.
Move ==
    /\ phase # "listening" /\ phase' \in {"prompt", "working"}
    /\ UNCHANGED <<queue, typing>>

QNext == Listen \/ Type \/ HandOver \/ Take \/ Clear \/ Move
QSpec == QInit /\ [][QNext]_qvars
=============================================================================
