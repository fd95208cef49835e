------------------------------- MODULE Agent -------------------------------
(***************************************************************************)
(* The agent of src/tools/ai/agent/ai.c: the main thread with its prompt   *)
(* loop and tool rounds, the worker thread that carries one request, the   *)
(* child that runs one command, the human at the terminal and the signals. *)
(*                                                                         *)
(* A line of steering is its length; a message its role and, for one of    *)
(* the assistant, its number of tool calls.  Time is left out: a timeout   *)
(* may strike whenever the code tests for it, and nowhere else.            *)
(***************************************************************************)
EXTENDS Integers, FiniteSets, Sequences

CONSTANTS
    MAX_MESSAGES, MAX_STEERING_LINES, MAX_COMMAND, max_tool_rounds,
    MaxCalls,    \* tool calls in a response
    Typed,       \* the lengths of what the human types
    HasSkills    \* a skill was found at startup

ASSUME MessagesAssumption == MAX_MESSAGES \in Nat /\ MAX_MESSAGES >= 3
ASSUME SteeringAssumption == MAX_STEERING_LINES \in Nat \ {0}
ASSUME CommandAssumption == MAX_COMMAND \in Nat \ {0}
ASSUME RoundsAssumption == max_tool_rounds \in Nat \ {0}
ASSUME CallsAssumption == MaxCalls \in Nat
ASSUME TypedAssumption == 0 \in Typed /\ Typed \subseteq 0..(MAX_COMMAND - 1)
ASSUME SkillsAssumption == HasSkills \in BOOLEAN

VARIABLES
    pc,           \* where the main thread is
    messages,     \* the conversation
    full_access, interrupted,
    steering,     \* the ring: slots, read and write index
    live,         \* length of the line being typed (live_input.line)
    worker,       \* the request; "ok" and "failed": it is done
    child,        \* the command's process
    calls,        \* the tool calls of the response not yet answered
    steer,        \* length of the direction collected for this response
    round,        \* requests answered since the prompt
    granted       \* history: the human allowed the command at hand
vars == <<pc, messages, full_access, interrupted, steering, live, worker,
          child, calls, steer, round, granted>>

-----------------------------------------------------------------------------
(* The ring of steering lines.  A slot that is not complete holds None.    *)
None == -1
Slot == 0..(MAX_STEERING_LINES - 1)
RingInit == [slot |-> [i \in Slot |-> None], read |-> 0, write |-> 0]
Succ(i) == (i + 1) % MAX_STEERING_LINES

Available(r) == r.slot[r.read] # None

FaultQueueLine(r, l) ==                         \* overwrites when full
    [r EXCEPT !.slot[r.write] = l, !.write = Succ(r.write)]
\* queue_live_line: a line that finds its slot taken is dropped.
QueueLine(r, l) ==
    IF r.slot[r.write] # None THEN r
    ELSE [r EXCEPT !.slot[r.write] = l, !.write = Succ(r.write)]

\* take_steering, when there is one.
TakeLine(r) == [r EXCEPT !.slot[r.read] = None, !.read = Succ(r.read)]

\* end_live_input: what was typed and not queued is queued.
EndLive(r, l) == IF l = 0 THEN r ELSE QueueLine(r, l)

-----------------------------------------------------------------------------
(* The conversation.                                                       *)
Role == {"system", "user", "assistant", "tool"}
Message == [role : Role, calls : 0..MaxCalls]
Msg(role) == [role |-> role, calls |-> 0]

\* conversation_reset with add_skills_message.
Reset == IF HasSkills THEN <<Msg("system"), Msg("system")>> ELSE <<Msg("system")>>

Droppable(q) == {i \in 2..Len(q) : q[i].role # "system"}
FaultDrop(q) ==                                 \* the newest, not the oldest
    IF Droppable(q) = {} THEN q
    ELSE LET k == CHOOSE i \in Droppable(q) : \A j \in Droppable(q) : j <= i
         IN  [i \in 1..(Len(q) - 1) |-> IF i < k THEN q[i] ELSE q[i + 1]]
FaultDropAny(q) ==                              \* system messages too
    IF Len(q) < 2 THEN q
    ELSE [i \in 1..(Len(q) - 1) |-> IF i < 2 THEN q[i] ELSE q[i + 1]]
\* drop_oldest_message
Drop(q) ==
    IF Droppable(q) = {} THEN q
    ELSE LET k == CHOOSE i \in Droppable(q) : \A j \in Droppable(q) : i <= j
         IN  [i \in 1..(Len(q) - 1) |-> IF i < k THEN q[i] ELSE q[i + 1]]

\* add_message fails only when the conversation is full of system messages.
CanAdd(q) == Len(q) < MAX_MESSAGES \/ Droppable(q) # {}
Add(q, m) == Append(IF Len(q) = MAX_MESSAGES THEN Drop(q) ELSE q, m)

-----------------------------------------------------------------------------
Init ==
    /\ pc = "prompt" /\ messages = Reset
    /\ full_access \in BOOLEAN /\ interrupted = FALSE
    /\ steering = RingInit /\ live = 0
    /\ worker = "none" /\ child = "none"
    /\ calls = << >> /\ steer = 0 /\ round = 0 /\ granted = FALSE

\* Groups of variables that an action leaves alone.
talk == <<messages, full_access>>
ring == <<steering, live>>
tools == <<calls, steer, granted>>

\* on_signal, for SIGINT and SIGTERM; only run_command takes it back.
Signal ==
    /\ pc # "exit" /\ interrupted' = TRUE
    /\ UNCHANGED <<pc, talk, ring, worker, child, tools, round>>

\* The human ends the program, or closes or interrupts a blocking read.
Quit ==
    /\ pc \in {"prompt", "decide", "poststeer"}
    /\ pc' = "exit"
    /\ UNCHANGED <<talk, interrupted, ring, worker, child, tools, round>>

-----------------------------------------------------------------------------
(* The prompt.                                                             *)
NewConversation ==
    /\ pc = "prompt"
    /\ messages' = Reset /\ steering' = RingInit
    /\ UNCHANGED <<pc, full_access, interrupted, live, worker, child, tools, round>>

ToggleForce ==
    /\ pc = "prompt" /\ full_access' = ~full_access
    /\ UNCHANGED <<pc, messages, interrupted, ring, worker, child, tools, round>>

\* handle_skill_command; a skill that is unknown or does not fit adds nothing.
LoadSkill ==
    /\ pc = "prompt" /\ HasSkills /\ CanAdd(messages)
    /\ messages' = Add(messages, Msg("system"))
    /\ UNCHANGED <<pc, full_access, interrupted, ring, worker, child, tools, round>>

\* A prompt that does not fit is refused, and the human asked again.
Prompt ==
    /\ pc = "prompt" /\ CanAdd(messages)
    /\ messages' = Add(messages, Msg("user"))
    /\ pc' = "create" /\ round' = 0
    /\ UNCHANGED <<full_access, interrupted, ring, worker, child, tools>>

-----------------------------------------------------------------------------
(* call_endpoint_threaded                                                  *)

\* pthread_create, and begin_live_input.
CreateWorker ==
    /\ pc = "create"
    /\ pc' = "wait" /\ worker' = "sending" /\ live' = 0
    /\ UNCHANGED <<talk, interrupted, steering, child, tools, round>>

\* pthread_create failed: the request is made here, without steering.
CallInline ==
    /\ pc = "create" /\ pc' = "inline" /\ worker' = "sending"
    /\ UNCHANGED <<talk, interrupted, ring, child, tools, round>>

\* call_endpoint: the whole request is written.  Connecting has a timeout;
\* the socket then blocks, and write_all waits for the endpoint to read.
RequestSent ==
    /\ worker = "sending" /\ worker' = "receiving"
    /\ UNCHANGED <<pc, talk, interrupted, ring, child, tools, round>>

\* An answer; or an error, a timeout, an interruption.
WorkerDone ==
    /\ \/ worker = "sending" /\ worker' = "failed"
       \/ worker = "receiving" /\ worker' \in {"ok", "failed"}
    /\ UNCHANGED <<pc, talk, interrupted, ring, child, tools, round>>

\* poll_live_input, during a request or a command: typing and erasing; an
\* empty line is queued when a whole line was typed and erased.
PollLive ==
    /\ pc \in {"wait", "command"}
    /\ live' \in Typed
    /\ steering' \in {steering, QueueLine(steering, 0)}
    /\ UNCHANGED <<pc, talk, interrupted, worker, child, tools, round>>

\* The loop ends; the last poll and end_live_input.
WaitEnds ==
    /\ pc = "wait" /\ (worker \in {"ok", "failed"} \/ interrupted)
    /\ pc' = "ended" /\ live' = 0
    /\ steering' = EndLive(steering, live)
    /\ UNCHANGED <<talk, interrupted, worker, child, tools, round>>

\* A request that failed costs a message; the main thread gives up when
\* there is none to lose.  Within a tool round it tries again.
FaultRequestFailed ==                           \* nothing is dropped
    /\ pc' = IF round = 0 THEN "prompt" ELSE "create"
    /\ messages' = messages
RequestFailed ==
    /\ messages' = Drop(messages)
    /\ pc' = IF Droppable(messages) = {} THEN "exit"
             ELSE IF round = 0 THEN "prompt" ELSE "create"

FaultJoin ==                                    \* cancelled, never joined
    /\ pc = "ended" \/ (pc = "inline" /\ worker \in {"ok", "failed"})
    /\ IF worker \in {"ok", "failed"} THEN worker' = "none" ELSE worker' = worker
    /\ IF worker = "ok" THEN pc' = "reply" /\ UNCHANGED messages ELSE RequestFailed
    /\ UNCHANGED <<full_access, interrupted, ring, child, tools, round>>
\* done is read again, without the lock: a worker that finished after the
\* loop counts as finished, another one is cancelled; both are joined.  A
\* request made inline has returned.
Join ==
    /\ pc = "ended" \/ (pc = "inline" /\ worker \in {"ok", "failed"})
    /\ worker' = "none"
    /\ IF worker = "ok" THEN pc' = "reply" /\ UNCHANGED messages ELSE RequestFailed
    /\ UNCHANGED <<full_access, interrupted, ring, child, tools, round>>

-----------------------------------------------------------------------------
(* process_response and process_tool_calls                                 *)

\* The response cannot be parsed or stored.
BadResponse ==
    /\ pc = "reply" /\ pc' = "exit"
    /\ UNCHANGED <<talk, interrupted, ring, worker, child, tools, round>>

\* A call whose arguments are malformed or whose tool is unknown is "bad".
Response ==
    /\ pc = "reply" /\ CanAdd(messages)
    /\ \E n \in 0..MaxCalls : \E c \in [1..n -> {"command", "bad"}] :
        /\ messages' = Add(messages, [role |-> "assistant", calls |-> n])
        /\ calls' = c
        /\ pc' = IF n # 0 THEN "call" ELSE IF round = 0 THEN "pending" ELSE "prompt"
        /\ round' = IF n = 0 THEN 0 ELSE round
    /\ steer' = 0
    /\ UNCHANGED <<full_access, interrupted, ring, worker, child, granted>>

\* append_tool_result for the call at hand, then the next call or the end.
Answer ==
    /\ calls' = Tail(calls) /\ granted' = FALSE
    /\ IF CanAdd(messages)
       THEN /\ messages' = Add(messages, Msg("tool"))
            /\ pc' = IF Len(calls) = 1 THEN "drain" ELSE "call"
       ELSE pc' = "exit" /\ UNCHANGED messages

\* The calls that need no decision: bad ones, and all after a direction.
SkipCall ==
    /\ pc = "call" /\ (Head(calls) = "bad" \/ steer # 0)
    /\ Answer
    /\ UNCHANGED <<full_access, interrupted, ring, worker, child, steer, round>>

FaultAskCall ==                                 \* everything is allowed
    /\ pc = "call" /\ Head(calls) = "command" /\ steer = 0
    /\ pc' = "spawn"
    /\ UNCHANGED <<talk, interrupted, ring, worker, child, tools, round>>
AskCall ==
    /\ pc = "call" /\ Head(calls) = "command" /\ steer = 0
    /\ pc' = IF full_access THEN "spawn" ELSE "decide"
    /\ UNCHANGED <<talk, interrupted, ring, worker, child, tools, round>>

\* command_decision: allow, perhaps after an edit.
Allow ==
    /\ pc = "decide" /\ pc' = "spawn" /\ granted' = TRUE
    /\ UNCHANGED <<talk, interrupted, ring, worker, child, calls, steer, round>>

\* No, or a direction instead.
Refuse ==
    /\ pc = "decide"
    /\ steer' \in {steer} \cup (Typed \ {0})
    /\ Answer
    /\ UNCHANGED <<full_access, interrupted, ring, worker, child, round>>

\* read_multiline gives up half way: what was read so far stays in steer.
PartialSteer ==
    /\ pc \in {"decide", "poststeer"} /\ steer' \in Typed
    /\ UNCHANGED <<pc, talk, interrupted, ring, worker, child, calls, round, granted>>

\* run_command: no pipe, or no process.  The former leaves interrupted.
SpawnFails ==
    /\ pc = "spawn" /\ interrupted' \in {interrupted, FALSE}
    /\ Answer
    /\ UNCHANGED <<full_access, ring, worker, child, steer, round>>

Spawn ==
    /\ pc = "spawn" /\ pc' = "command"
    /\ interrupted' = FALSE /\ child' = "running" /\ live' = 0
    /\ UNCHANGED <<talk, steering, worker, tools, round>>

\* The command's process; kill(-child, SIGINT) may end it, or not.  It may
\* close its output and go on.
ChildExits ==
    /\ child \in {"running", "mute"} /\ child' = "dead"
    /\ UNCHANGED <<pc, talk, interrupted, ring, worker, tools, round>>
ChildCloses ==
    /\ child = "running" /\ child' = "mute"
    /\ UNCHANGED <<pc, talk, interrupted, ring, worker, tools, round>>

\* The loop ends early, and waitpid waits with no limit: at the end of file, for
\* a child that is mute or dead; and for any child when poll or read fails, or
\* write_all, as it does when a terminal shared with the input, which
\* begin_live_input made non-blocking, is full.
LoopBreaks ==
    /\ pc = "command" /\ pc' = "reap"
    /\ UNCHANGED <<talk, interrupted, ring, worker, child, tools, round>>

\* waitpid: in the loop, after it, or after SIGKILL at the deadline.  Then
\* end_live_input, the result, and post_execution_steer's first test.
CommandEnds ==
    /\ \/ pc = "command"
       \/ pc = "reap" /\ child = "dead"
    /\ child' = "none" /\ live' = 0
    /\ steering' = EndLive(steering, live)
    /\ IF CanAdd(messages) /\ Available(steering') /\ ~full_access
       THEN /\ pc' = "poststeer" /\ messages' = Add(messages, Msg("tool"))
            /\ UNCHANGED <<calls, granted>>
       ELSE Answer
    /\ UNCHANGED <<full_access, interrupted, worker, steer, round>>

\* The human continues, perhaps with a direction.
PostSteer ==
    /\ pc = "poststeer" /\ steer' \in {steer} \cup (Typed \ {0})
    /\ calls' = Tail(calls) /\ granted' = FALSE
    /\ pc' = IF Len(calls) = 1 THEN "drain" ELSE "call"
    /\ UNCHANGED <<talk, interrupted, ring, worker, child, round>>

-----------------------------------------------------------------------------
(* append_live_steering, after the tool calls of a response ("drain") and, *)
(* in add_pending_request_steering, after a first response that has none   *)
(* ("pending").                                                            *)
Draining == pc \in {"drain", "pending"}

\* What steer grows to; MAX_COMMAND counts the end of the string.
Joined(l) == steer + (IF steer = 0 THEN 0 ELSE 1) + l

DrainLine ==
    /\ Draining /\ Available(steering)
    /\ steering' = TakeLine(steering)
    /\ LET l == steering.slot[steering.read]
       IN  \/ l = 0 /\ UNCHANGED <<pc, steer>>
           \/ l # 0 /\ Joined(l) < MAX_COMMAND /\ steer' = Joined(l) /\ UNCHANGED pc
           \/ l # 0 /\ Joined(l) >= MAX_COMMAND /\ pc' = "exit" /\ UNCHANGED steer
    /\ UNCHANGED <<talk, interrupted, live, worker, child, calls, round, granted>>

\* After a tool round comes the next request, up to the limit.
DrainEnds ==
    LET more == pc = "drain" /\ round + 1 < max_tool_rounds
    IN  /\ Draining /\ ~Available(steering)
        /\ IF steer = 0 THEN UNCHANGED messages
           ELSE CanAdd(messages) /\ messages' = Add(messages, Msg("user"))
        /\ pc' = IF more THEN "create" ELSE "prompt"
        /\ round' = IF more THEN round + 1 ELSE 0
        /\ UNCHANGED <<full_access, interrupted, ring, worker, child, tools>>

\* The steering does not fit into a message, or the message nowhere.
DrainFails ==
    /\ Draining /\ ~Available(steering) /\ steer # 0 /\ pc' = "exit"
    /\ UNCHANGED <<talk, interrupted, ring, worker, child, tools, round>>
-----------------------------------------------------------------------------
Human == Quit \/ NewConversation \/ ToggleForce \/ LoadSkill \/ Prompt \/ PollLive
         \/ Allow \/ Refuse \/ PartialSteer \/ PostSteer
Main == CreateWorker \/ CallInline \/ WaitEnds \/ Join \/ BadResponse \/ Response
        \/ SkipCall \/ AskCall \/ Spawn \/ SpawnFails \/ LoopBreaks \/ CommandEnds
        \/ DrainLine \/ DrainEnds \/ DrainFails
Next == Human \/ Main \/ RequestSent \/ WorkerDone \/ ChildExits \/ ChildCloses \/ Signal

Spec == Init /\ [][Next]_vars

\* The main thread runs on when nothing it waits for is missing, and the wait
\* for an answer is limited by api_timeout.  Nothing is assumed of the human,
\* of the endpoint or of the command.
FairSpec == Spec /\ WF_vars(Main) /\ WF_vars(worker = "receiving" /\ WorkerDone)
-----------------------------------------------------------------------------
(* Properties.                                                             *)

\* Every variable has its type.
AgentTypeOK ==
    /\ pc \in {"prompt", "create", "wait", "inline", "ended", "reply", "call", "decide",
               "spawn", "command", "reap", "poststeer", "drain", "pending", "exit"}
    /\ messages \in Seq(Message) /\ Len(messages) \in 1..MAX_MESSAGES
    /\ full_access \in BOOLEAN /\ interrupted \in BOOLEAN /\ granted \in BOOLEAN
    /\ steering \in [slot : [Slot -> Typed \cup {None}], read : Slot, write : Slot]
    /\ live \in Typed /\ steer \in 0..(MAX_COMMAND - 1)
    /\ worker \in {"none", "sending", "receiving", "ok", "failed"}
    /\ child \in {"none", "running", "mute", "dead"}
    /\ calls \in Seq({"command", "bad"}) /\ Len(calls) <= MaxCalls
    /\ round \in 0..(max_tool_rounds - 1)

\* "Preserve command approval ... exactly once per tool": whatever is dropped
\* to make room, whoever refuses, steers or interrupts, when a request is
\* sent each tool call still in the conversation is followed by exactly one
\* result of its own.  (Results may outlive their call.)
CallsAnswered ==
    pc \in {"prompt", "create", "wait", "inline", "ended"} =>
        \A i \in DOMAIN messages : messages[i].role = "assistant" =>
            LET n == messages[i].calls
            IN  /\ i + n <= Len(messages)
                /\ \A j \in (i + 1)..(i + n) : messages[j].role = "tool"
                /\ i + n < Len(messages) => messages[i + n + 1].role # "tool"

\* A command runs only with the human's word for it, or in full access: the
\* answers to earlier commands, directions and broken-off answers do not
\* count.
HumanFirst == child # "none" => granted \/ full_access

\* "Own the conversation state in one thread": the request thread reads
\* messages in build_request, so nobody changes them while it may still run.
OneOwner == [][worker' \in {"sending", "receiving"} => UNCHANGED messages]_vars

\* The system prompt and the skills stay until /new, however full the
\* conversation gets and however many requests fail.
SystemCount(q) == Cardinality({i \in 1..Len(q) : q[i].role = "system"})
SystemKept == [][NewConversation \/ SystemCount(messages') >= SystemCount(messages)]_vars

\* However the endpoint and the command behave -- errors, timeouts, signals,
\* one tool call after the other -- the agent comes back to the human, or
\* ends.  There are two exceptions: an endpoint that does not read the request,
\* until the human interrupts, and even then when there is no thread; and a
\* command that lives on after run_command has left its loop.
HumansTurn == pc \in {"prompt", "decide", "poststeer", "exit"}
Unread == worker = "sending" /\ (pc = "inline" \/ (pc = "wait" /\ ~interrupted))
Outlives == pc = "reap" /\ child # "dead"
TurnReturns == []<>HumansTurn \/ <>[]Unread \/ <>[]Outlives

\* The ring is a queue of bounded length: the lines in use, from the read
\* index on.
Used(r) == IF ~Available(r) THEN 0
           ELSE IF r.read < r.write THEN r.write - r.read
           ELSE MAX_STEERING_LINES - (r.read - r.write)
Wrap(i) == IF i < MAX_STEERING_LINES THEN i ELSE i - MAX_STEERING_LINES
Queued(r) == [k \in 1..Used(r) |-> r.slot[Wrap(r.read + (k - 1))]]
Phase == IF pc = "prompt" THEN "prompt"
         ELSE IF pc \in {"wait", "command", "reap"} THEN "listening" ELSE "working"
Queue == INSTANCE SteeringQueue
             WITH Line <- Typed, Capacity <- MAX_STEERING_LINES,
                  queue <- Queued(steering), typing <- live, phase <- Phase
SteeringIsQueue == Queue!QSpec
=============================================================================
