--------------------------------- MODULE Nq ---------------------------------
(***************************************************************************)
(* The job queue of src/tools/nq/nq.c.  There is no server: each nq takes  *)
(* a time stamp, forks, puts a locked file ",TIMESTAMP.PID" into a         *)
(* directory, and waits until no file with a smaller name is locked.  The  *)
(* kernel frees the lock when the last process that holds it is gone.      *)
(***************************************************************************)
EXTENDS Integers, FiniteSets

CONSTANTS
    Job,         \* the invocations of nq; a number stands for the PID
    MaxClock     \* bound on the clock, in milliseconds

ASSUME JobAssumption == Job \subseteq Nat \ {0}
ASSUME ClockAssumption == MaxClock \in Nat

VARIABLES
    clock,       \* gettimeofday
    st,          \* where each invocation is
    kind,        \* nq CMD, nq -w or nq -t
    stamp,       \* its time stamp ms
    visible,     \* the jobs whose file is in the directory as ",..."
    locked,      \* the jobs whose file is locked
    seen,        \* the files looked at since the last rewinddir
    newest,      \* newestlocked; 0 is the empty string
    must         \* history: the files there were at the last rewinddir
vars == <<clock, st, kind, stamp, visible, locked, seen, newest, must>>

None == 0
Kind == {"job", "wait", "test"}
Status == {"new", "stamped", "rewind", "scan", "block", "running", "done",
           "collected", "killed", "free", "busy"}

\* strcmp on the names: the stamps have one width; equal ones leave it to
\* the PID, which says nothing of the order of the calls.
Older(i, j) == stamp[i] < stamp[j] \/ (stamp[i] = stamp[j] /\ i < j)

Init ==
    /\ clock = 0 /\ visible = {} /\ locked = {}
    /\ st = [j \in Job |-> "new"] /\ kind = [j \in Job |-> "job"]
    /\ stamp = [j \in Job |-> 0]
    /\ seen = [j \in Job |-> {}] /\ must = [j \in Job |-> {}]
    /\ newest = [j \in Job |-> None]

Tick ==
    /\ clock < MaxClock /\ clock' = clock + 1
    /\ UNCHANGED <<st, kind, stamp, visible, locked, seen, newest, must>>

\* The time stamp comes first.  -w and -t go on to wait at once; a job forks
\* twice, and its caller returns as soon as both children have closed the
\* pipe -- which is before the file exists.
Start(j) ==
    /\ st[j] = "new" /\ stamp' = [stamp EXCEPT ![j] = clock]
    /\ \E k \in Kind :
        /\ kind' = [kind EXCEPT ![j] = k]
        /\ st' = [st EXCEPT ![j] = IF k = "job" THEN "stamped" ELSE "rewind"]
    /\ UNCHANGED <<clock, visible, locked, seen, newest, must>>

\* The file is created and locked under another name, then renamed.
Publish(j) ==
    /\ st[j] = "stamped" /\ st' = [st EXCEPT ![j] = "rewind"]
    /\ visible' = visible \cup {j} /\ locked' = locked \cup {j}
    /\ UNCHANGED <<clock, kind, stamp, seen, newest, must>>

\* The variables of a process that is gone.
Forget(j) ==
    /\ seen' = [seen EXCEPT ![j] = {}] /\ must' = [must EXCEPT ![j] = {}]
    /\ newest' = [newest EXCEPT ![j] = None]

FaultOlderFiles(j) == visible                   \* the names are not compared
OlderFiles(j) == {f \in visible : Older(f, j)}

\* again: the directory is read from the start.
Rewind(j) ==
    /\ st[j] = "rewind" /\ st' = [st EXCEPT ![j] = "scan"]
    /\ must' = [must EXCEPT ![j] = OlderFiles(j)]
    /\ UNCHANGED <<clock, kind, stamp, visible, locked, seen, newest>>

\* readdir, openat and flock(LOCK_SH | LOCK_NB) on one file.  A file that
\* comes into the directory during the scan may be met or not.
Look(j, f) ==
    /\ st[j] = "scan" /\ f \in OlderFiles(j) \ seen[j]
    /\ f \in locked => kind[j] # "test"
    /\ seen' = [seen EXCEPT ![j] = @ \cup {f}]
    /\ newest' = [newest EXCEPT ![j] =
                     IF f \in locked /\ (@ = None \/ Older(@, f)) THEN f ELSE @]
    /\ UNCHANGED <<clock, st, kind, stamp, visible, locked, must>>

\* -t exits with 1 at the first locked file.
Busy(j, f) ==
    /\ st[j] = "scan" /\ f \in OlderFiles(j) \ seen[j]
    /\ kind[j] = "test" /\ f \in locked
    /\ st' = [st EXCEPT ![j] = "busy"] /\ Forget(j)
    /\ UNCHANGED <<clock, kind, stamp, visible, locked>>

\* Nothing is locked: the job is run, -w and -t exit with 0.
ScanEnds(j) ==
    /\ st[j] = "scan" /\ must[j] \cap visible \subseteq seen[j]
    /\ st' = [st EXCEPT ![j] = IF newest[j] # None THEN "block"
                               ELSE IF kind[j] = "job" THEN "running" ELSE "free"]
    /\ seen' = [seen EXCEPT ![j] = {}]
    /\ UNCHANGED <<clock, kind, stamp, visible, locked, newest, must>>

FaultUnblock(j) ==                              \* no second look
    /\ st[j] = "block" /\ newest[j] \notin locked \cap visible
    /\ st' = [st EXCEPT ![j] = IF kind[j] = "job" THEN "running" ELSE "free"]
    /\ UNCHANGED <<clock, kind, stamp, visible, locked, seen, newest, must>>
\* flock(LOCK_SH) on the newest locked file returns, or openat has found the
\* file gone, locked or not.
Unblock(j) ==
    /\ st[j] = "block" /\ newest[j] \notin locked \cap visible
    /\ st' = [st EXCEPT ![j] = "rewind"] /\ newest' = [newest EXCEPT ![j] = None]
    /\ UNCHANGED <<clock, kind, stamp, visible, locked, seen, must>>

\* The command exits.  Its file stays locked if a process it has started still
\* has the standard output or error it was given.
Ends(j) ==
    /\ st[j] = "running" /\ st' = [st EXCEPT ![j] = "done"]
    /\ locked' \in {locked, locked \ {j}} /\ Forget(j)
    /\ UNCHANGED <<clock, kind, stamp, visible>>

\* The last of these processes is gone; or a command that still runs has closed
\* its standard output and error, and with them its lock.
Release(j) ==
    /\ st[j] \in {"running", "done", "collected"} /\ j \in locked
    /\ locked' = locked \ {j}
    /\ UNCHANGED <<clock, st, kind, stamp, visible, seen, newest, must>>

\* An error, or "you can cancel a queued job by killing it as well".
Kill(j) ==
    /\ st[j] \in {"stamped", "rewind", "scan", "block"} /\ kind[j] = "job"
    /\ st' = [st EXCEPT ![j] = "killed"]
    /\ locked' = locked \ {j} /\ Forget(j)
    /\ UNCHANGED <<clock, kind, stamp, visible>>

\* The process that waits for the command, and for nobody else; -c, $NQDONEDIR
\* and $NQFAILDIR take the file away, locked or not.
Collect(j) ==
    /\ st[j] \in {"done", "killed"} /\ st' = [st EXCEPT ![j] = "collected"]
    /\ visible' \in {visible, visible \ {j}}
    /\ UNCHANGED <<clock, kind, stamp, locked, seen, newest, must>>
-----------------------------------------------------------------------------
Waits(j) == Rewind(j) \/ (\E f \in Job : Look(j, f) \/ Busy(j, f)) \/ ScanEnds(j) \/ Unblock(j)
Next ==
    \/ Tick
    \/ \E j \in Job : Start(j) \/ Publish(j) \/ Waits(j) \/ Ends(j) \/ Release(j)
                         \/ Kill(j) \/ Collect(j)

Spec == Init /\ [][Next]_vars

\* Every process is scheduled, and the jobs end with all they have started.
FairSpec ==
    /\ Spec
    /\ \A j \in Job : /\ WF_vars(Publish(j) \/ Waits(j)) /\ WF_vars(Ends(j))
                      /\ WF_vars(st[j] # "running" /\ Release(j))
-----------------------------------------------------------------------------
(* Properties.                                                             *)

\* Every variable has its type.
NqTypeOK ==
    /\ clock \in 0..MaxClock /\ stamp \in [Job -> 0..MaxClock]
    /\ st \in [Job -> Status] /\ kind \in [Job -> Kind]
    /\ visible \in SUBSET Job /\ locked \in SUBSET Job
    /\ seen \in [Job -> SUBSET Job] /\ must \in [Job -> SUBSET Job]
    /\ newest \in [Job -> Job \cup {None}]

\* "every job starts only after all earlier flock(2)ed files finished": of the
\* files that were in the directory when it last began to read it, whichever of
\* the jobs are killed, whose files are removed or appear meanwhile, no command
\* is still to come, and none that is still there is locked: each has ended, with
\* all that holds its output, or has itself closed it.  (What the command of a
\* file that was taken away has left running is not waited for.)  The same for -w
\* and -t when they say that nothing is left.
OlderFinished ==
    \A j \in Job : st[j] \in {"running", "free"} =>
        \A f \in must[j] : /\ st[f] \in {"running", "done", "collected", "killed"}
                           /\ ~(f \in locked /\ f \in visible)

\* Nobody waits forever: what waits for older files only does not wait in a
\* circle, nor for itself.
EveryJobRuns ==
    \A j \in Job : st[j] \in {"stamped", "rewind"} ~>
                       st[j] \in {"done", "collected", "killed", "free", "busy"}

\* "Exclusive execution is maintained strictly."
Exclusive == \A i, j \in Job : st[i] = "running" /\ st[j] = "running" => i = j
=============================================================================
