------------------------------ MODULE Session ------------------------------
(***************************************************************************)
(* From the start of dwm to its end: the programs it starts by itself, the *)
(* main loop, and quit, which is called by a key or in the handler of a    *)
(* signal -- while the loop waits, in the middle of an event, or in the    *)
(* middle of quit.  A restart puts a new dwm into the same process, so its *)
(* children stay.  (src/src/dwm/dwm.c)                                     *)
(***************************************************************************)
EXTENDS Integers, Sequences, FiniteSets

CONSTANTS
    N,           \* autostart_len: the length of the array autostart
    Pid          \* the numbers the kernel gives to processes, again and again

ASSUME NAssumption == N \in Nat
ASSUME PidAssumption == Pid \subseteq Nat \ {0}

VARIABLES
    pc,          \* where the main thread is, under all handlers of signals
    next,        \* i of autostart_exec
    pids,        \* autostart_pids; 0: not yet set, -1: fork failed
    running,
    restart,
    calls,       \* the calls of quit that are not finished, the innermost last
    ignored,     \* SIGCHLD is ignored: children leave no zombies
    proc         \* the process of each number: which program, and its state
vars == <<pc, next, pids, running, restart, calls, ignored, proc>>

Place == {"autostart", "test", "wait", "handle", "leave", "cleanup", "exit", "killed"}
Lives == pc \notin {"exit", "killed"}

\* Programs of the array have the numbers 1 to N.
Spawned == 0                                    \* by a key: a child as well
Stranger == -1
Free == [of |-> Stranger, st |-> "free"]
Alive(p) == proc[p].st \in {"live", "told"}
Child(p) == proc[p].of # Stranger

\* A call of quit: who calls, its argument, i, and the place in the loop.
Call(by, arg) == [by |-> by, arg |-> arg, i |-> 1, sent |-> FALSE]
Top == calls[Len(calls)]

Init ==
    /\ pc = "autostart" /\ next = 1 /\ pids = [k \in 1..N |-> 0]
    /\ running = TRUE /\ restart = FALSE /\ calls = << >>
    /\ ignored = FALSE /\ proc = [p \in Pid |-> Free]

\* The main thread goes on when no handler of a signal runs.
Main(place) == pc = place /\ calls = << >>
----------------------------------------------------------------------------
(* Start. *)

Begin(p, k) == proc' = [proc EXCEPT ![p] = [of |-> k, st |-> "live"]]

\* One turn of the loop of autostart_exec.
Fork ==
    /\ Main("autostart") /\ next <= N /\ next' = next + 1
    /\ \/ \E p \in Pid : /\ proc[p] = Free /\ Begin(p, next)
                         /\ pids' = [pids EXCEPT ![next] = p]
       \/ pids' = [pids EXCEPT ![next] = -1] /\ UNCHANGED proc
    /\ UNCHANGED <<pc, running, restart, calls, ignored>>

\* setup: SIGCHLD, the zombies there are, the handlers of signals.
Setup ==
    /\ Main("autostart") /\ next > N /\ pc' = "test" /\ ignored' = TRUE
    /\ proc' = [p \in Pid |-> IF proc[p].st = "zombie" THEN Free ELSE proc[p]]
    /\ UNCHANGED <<next, pids, running, restart, calls>>
----------------------------------------------------------------------------
(* The loop of run, and quit. *)

Test ==
    /\ Main("test") /\ pc' = IF running THEN "wait" ELSE "leave"
    /\ UNCHANGED <<next, pids, running, restart, calls, ignored, proc>>

\* XNextEvent returns: two of the keys call quit, many call spawn.  A
\* signal alone does not end the wait.
Event ==
    /\ Main("wait") /\ pc' = "handle"
    /\ \/ UNCHANGED <<calls, proc>>
       \/ \E arg \in BOOLEAN : calls' = <<Call("key", arg)>> /\ UNCHANGED proc
       \/ \E p \in Pid : proc[p] = Free /\ Begin(p, Spawned) /\ UNCHANGED calls
    /\ UNCHANGED <<next, pids, running, restart, ignored>>

EventDone ==
    /\ Main("handle") /\ pc' = "test"
    /\ UNCHANGED <<next, pids, running, restart, calls, ignored, proc>>

\* sighup and sigterm.  The kernel masks a signal while its handler runs,
\* and only this one.
Signal(sig) ==
    /\ Lives /\ pc # "autostart"
    /\ \A d \in DOMAIN calls : calls[d].by # sig
    /\ calls' = Append(calls, Call(sig, sig = "hup"))
    /\ UNCHANGED <<pc, next, pids, running, restart, ignored, proc>>

FaultTold(p) == proc                            \* kill is forgotten
Told(p) ==
    IF Alive(p) THEN [proc EXCEPT ![p].st = "told"] ELSE proc

\* kill.  Whether the number still is that of the program is not known.
Kill ==
    /\ calls # << >> /\ Top.i <= N /\ ~Top.sent
    /\ calls' = [calls EXCEPT ![Len(calls)].sent = TRUE]
    /\ proc' = IF pids[Top.i] > 0 THEN Told(pids[Top.i]) ELSE proc
    /\ UNCHANGED <<pc, next, pids, running, restart, ignored>>

FaultBlocks(p) == FALSE                         \* waitpid with WNOHANG
Blocks(p) == p > 0 /\ Child(p) /\ Alive(p)

\* waitpid returns: the child is gone, or there is no such child.
Reap ==
    /\ calls # << >> /\ Top.i <= N /\ Top.sent /\ ~Blocks(pids[Top.i])
    /\ calls' = [calls EXCEPT ![Len(calls)].i = @ + 1, ![Len(calls)].sent = FALSE]
    /\ UNCHANGED <<pc, next, pids, running, restart, ignored, proc>>

QuitReturns ==
    /\ calls # << >> /\ Top.i > N
    /\ calls' = SubSeq(calls, 1, Len(calls) - 1)
    /\ restart' = (restart \/ Top.arg) /\ running' = FALSE
    /\ UNCHANGED <<pc, next, pids, ignored, proc>>
----------------------------------------------------------------------------
(* End. *)

\* execvp: the variables are new, the process is the same, and a signal
\* that was ignored still is.
Exec ==
    /\ Main("leave") /\ restart
    /\ pc' = "autostart" /\ next' = 1 /\ pids' = [k \in 1..N |-> 0]
    /\ running' = TRUE /\ restart' = FALSE
    /\ UNCHANGED <<calls, ignored, proc>>

\* No restart was wanted, or execvp has failed.
Leave ==
    /\ Main("leave") /\ pc' = "cleanup"
    /\ UNCHANGED <<next, pids, running, restart, calls, ignored, proc>>

Cleanup ==
    /\ Main("cleanup") /\ pc' = "exit"
    /\ UNCHANGED <<next, pids, running, restart, calls, ignored, proc>>

\* Any other end: a signal before setup has installed the handlers, SIGKILL,
\* die, the end of the X server.
Killed ==
    /\ Lives /\ pc' = "killed" /\ calls' = << >>
    /\ UNCHANGED <<next, pids, running, restart, ignored, proc>>
----------------------------------------------------------------------------
(* The other processes. *)

\* A program ends, by itself or because it was told to.
Ends(p) ==
    /\ Alive(p)
    /\ proc' = [proc EXCEPT ![p] =
                    IF Child(p) /\ Lives /\ ~ignored THEN [@ EXCEPT !.st = "zombie"]
                    ELSE Free]
    /\ UNCHANGED <<pc, next, pids, running, restart, calls, ignored>>

\* A number that is free is given to another process of the user.
Strange(p) ==
    /\ proc[p] = Free /\ Begin(p, Stranger)
    /\ UNCHANGED <<pc, next, pids, running, restart, calls, ignored>>
----------------------------------------------------------------------------
Deliver == Signal("hup") \/ Signal("term")
MainStep == Fork \/ Setup \/ Test \/ EventDone \/ Exec \/ Leave \/ Cleanup
QuitStep == Kill \/ Reap \/ QuitReturns
Next ==
    \/ MainStep \/ Event \/ QuitStep \/ Deliver \/ Killed
    \/ \E p \in Pid : Ends(p) \/ Strange(p)
Spec == Init /\ [][Next]_vars

\* The thread runs on, and a program that is told to end does.
FairSpec ==
    /\ Spec /\ WF_vars(MainStep) /\ WF_vars(QuitStep)
    /\ \A p \in Pid : WF_vars(proc[p].st = "told" /\ Ends(p))
----------------------------------------------------------------------------
\* The types of the variables.
Process == [of : Stranger..N, st : {"free", "live", "told", "zombie"}]
CallType == [by : {"key", "hup", "term"}, arg : BOOLEAN, i : 1..(N + 1), sent : BOOLEAN]
SessionTypeOK ==
    /\ pc \in Place /\ next \in 1..(N + 1) /\ pids \in [1..N -> Pid \cup {0, -1}]
    /\ running \in BOOLEAN /\ restart \in BOOLEAN /\ ignored \in BOOLEAN
    /\ calls \in Seq(CallType) /\ proc \in [Pid -> Process]

\* "dwm will keep pid's of processes from autostart array and kill them at
\* quit": whatever the order of keys, signals and restarts, no program of the
\* array ever runs twice, and none is left behind by a dwm that has returned
\* from main.
Copies(k) == {p \in Pid : proc[p].of = k /\ Alive(p)}
NoneLeft ==
    \A k \in 1..N :
        /\ \A p, q \in Copies(k) : p = q
        /\ pc = "exit" => Copies(k) = {}

\* A key that calls quit ends the dwm that runs, unless signals come for
\* ever: quit always stops waiting, also in the middle of its own calls.
KeyQuits == pc = "handle" /\ calls # << >> /\ calls[1].by = "key"
QuitEnds ==
    <>[][~Deliver]_vars => (KeyQuits ~> pc \in {"autostart", "exit", "killed"})
=============================================================================
