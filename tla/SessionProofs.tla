--------------------------- MODULE SessionProofs ---------------------------
(***************************************************************************)
(* That dwm runs no program of its array twice and leaves none behind, for *)
(* any array and any numbers of processes.  The argument: while a program  *)
(* lives, its entry in the array is its number, although entries may be    *)
(* stale; so a call of quit that has passed an entry has waited for it,    *)
(* and the loop stops only after a call has passed them all.               *)
(***************************************************************************)
EXTENDS Session, TLAPS

\* p is a program of the array, and it lives.
Own(p) == Alive(p) /\ proc[p].of >= 1

\* A program that lives has the entry of the array that is its own.
Recorded == \A p \in Pid : Own(p) => pids[proc[p].of] = p
\* During the start, what is still to come does not yet run.
Unstarted ==
    pc = "autostart" => /\ running /\ calls = << >>
                        /\ \A p \in Pid : Own(p) => proc[p].of < next
\* Every call of quit, also one that others interrupt, has waited for the
\* entries it has passed.
Waited == \A d \in DOMAIN calls : \A p \in Pid : Own(p) => proc[p].of >= calls[d].i
\* The loop is told to stop when none lives, and dwm returns only then.
Stopped == ~running => \A p \in Pid : ~Own(p)
Ended == pc \in {"leave", "cleanup", "exit"} => ~running

SessionInv == SessionTypeOK /\ Recorded /\ Unstarted /\ Waited /\ Stopped /\ Ended

\* Nothing runs yet.
LEMMA SessionInitial == Init => SessionInv
  <1> SUFFICES ASSUME Init PROVE SessionInv
    OBVIOUS
  <1>1. SessionTypeOK
    <2>1. Free \in Process /\ << >> \in Seq(CallType) /\ 1 \in 1..(N + 1)
      BY NAssumption DEF Free, Process, Stranger
    <2>. QED BY <2>1 DEF Init, SessionTypeOK, Place
  <1>2. \A p \in Pid : ~Own(p)
    BY DEF Init, Own, Alive, Free
  <1>. QED
    BY <1>1, <1>2 DEF Init, SessionInv, Recorded, Unstarted, Waited, Stopped, Ended

\* Steps that start no program of the array keep what is said of those that
\* live: each of them lived before, as the same program.
NoneNew == \A p \in Pid : Own(p)' => Own(p) /\ proc'[p].of = proc[p].of

\* What follows for the lists of those that live.
LEMMA NoneNewKeeps ==
  ASSUME SessionInv, NoneNew, UNCHANGED <<next, pids, running>>
  PROVE  /\ Recorded'
         /\ Stopped'
         /\ UNCHANGED calls => Waited'
         /\ pc' = "autostart" /\ UNCHANGED <<pc, calls>> => Unstarted'
  BY DEF SessionInv, NoneNew, Recorded, Stopped, Waited, Unstarted

\* A program of the array is started, or fork fails.
LEMMA ForkStep == SessionInv /\ Fork => SessionInv'
  <1> SUFFICES ASSUME SessionInv, Fork PROVE SessionInv'
    OBVIOUS
  <1> USE NAssumption, PidAssumption DEF SessionInv
  <1>1. next \in 1..N /\ next' = next + 1 /\ pc = "autostart" /\ calls = << >> /\ running
    BY DEF Fork, Main, Unstarted, SessionTypeOK
  <1>2. UNCHANGED <<pc, running, restart, calls, ignored>>
    BY DEF Fork
  <1>3. CASE pids' = [pids EXCEPT ![next] = -1] /\ UNCHANGED proc
    <2>1. SessionTypeOK'
      BY <1>1, <1>2, <1>3 DEF SessionTypeOK
    <2>2. Recorded'
      BY <1>1, <1>3 DEF SessionTypeOK, Process, Stranger, Recorded, Unstarted, Own, Alive
    <2>3. Unstarted' /\ Waited' /\ Stopped' /\ Ended'
      BY <1>1, <1>2, <1>3
         DEF SessionTypeOK, Process, Stranger, Unstarted, Waited, Stopped, Ended, Own, Alive
    <2>. QED BY <2>1, <2>2, <2>3
  <1>4. ASSUME NEW p \in Pid, proc[p] = Free, Begin(p, next), pids' = [pids EXCEPT ![next] = p]
        PROVE  SessionInv'
    <2>1. proc' = [proc EXCEPT ![p] = [of |-> next, st |-> "live"]]
      BY <1>4 DEF Begin
    <2>2. SessionTypeOK'
      BY <1>1, <1>2, <1>4, <2>1 DEF SessionTypeOK, Process, Stranger
    <2>3. \A q \in Pid : Own(q)' =>
              \/ q = p /\ proc'[q].of = next
              \/ Own(q) /\ proc'[q].of = proc[q].of /\ proc[q].of < next
      BY <1>1, <2>1 DEF SessionTypeOK, Unstarted, Own, Alive
    <2>4. Recorded'
      BY <1>1, <1>4, <2>3 DEF SessionTypeOK, Process, Stranger, Recorded, Own
    <2>5. Unstarted' /\ Waited' /\ Stopped' /\ Ended'
      <3>1. \A q \in Pid : Own(q)' => proc'[q].of < next'
        BY <1>1, <2>2, <2>3 DEF SessionTypeOK, Process, Stranger
      <3>2. Unstarted' /\ Stopped' /\ Ended'
        BY <1>1, <1>2, <3>1 DEF Unstarted, Stopped, Ended
      <3>3. Waited'
        BY <1>1, <1>2 DEF Waited
      <3>. QED BY <3>2, <3>3
    <2>. QED BY <2>2, <2>4, <2>5
  <1>. QED BY <1>3, <1>4 DEF Fork

\* setup frees what has ended already.
LEMMA SetupStep == SessionInv /\ Setup => SessionInv'
  <1> SUFFICES ASSUME SessionInv, Setup PROVE SessionInv'
    OBVIOUS
  <1>1. SessionTypeOK'
    BY NAssumption DEF SessionInv, SessionTypeOK, Setup, Place, Process, Free, Stranger
  <1>2. NoneNew
    BY DEF SessionInv, SessionTypeOK, Setup, NoneNew, Own, Alive, Free
  <1>3. Unstarted' /\ Ended'
    BY DEF SessionInv, Setup, Unstarted, Ended
  <1>. QED BY <1>1, <1>2, <1>3, NoneNewKeeps DEF SessionInv, Setup

\* The steps of the main thread that touch no process.
LEMMA MainStepInv ==
  SessionInv /\ (Test \/ EventDone \/ Leave \/ Cleanup) => SessionInv'
  <1> SUFFICES ASSUME SessionInv, Test \/ EventDone \/ Leave \/ Cleanup PROVE SessionInv'
    OBVIOUS
  <1>1. UNCHANGED <<next, pids, running, restart, calls, ignored, proc>>
    BY DEF Test, EventDone, Leave, Cleanup
  <1>2. SessionTypeOK'
    BY <1>1 DEF SessionInv, SessionTypeOK, Place, Test, EventDone, Leave, Cleanup
  <1>3. NoneNew
    BY <1>1 DEF NoneNew, Own, Alive
  <1>4. Unstarted' /\ Ended'
    BY <1>1 DEF SessionInv, Unstarted, Ended, Main, Test, EventDone, Leave, Cleanup
  <1>. QED BY <1>1, <1>2, <1>3, <1>4, NoneNewKeeps DEF SessionInv

\* The new dwm begins when none lives.
LEMMA ExecStep == SessionInv /\ Exec => SessionInv'
  <1> SUFFICES ASSUME SessionInv, Exec PROVE SessionInv'
    OBVIOUS
  <1>1. SessionTypeOK'
    <2>1. 1 \in 1..(N + 1) /\ [k \in 1..N |-> 0] \in [1..N -> Pid \cup {0, -1}]
      BY NAssumption
    <2>. QED BY <2>1 DEF SessionInv, SessionTypeOK, Place, Exec
  <1>2. \A p \in Pid : ~Own(p)'
    BY DEF SessionInv, Ended, Stopped, Exec, Main, Own, Alive
  <1>. QED
    BY <1>1, <1>2 DEF SessionInv, Recorded, Unstarted, Waited, Stopped, Ended, Exec, Main

\* A call of quit begins: it has passed nothing.
LEMMA CallBegins ==
  ASSUME NEW by \in {"key", "hup", "term"}, NEW arg \in BOOLEAN
  PROVE  Call(by, arg) \in CallType /\ Call(by, arg).i = 1
  BY NAssumption DEF Call, CallType

\* An event is handled; a key may call quit or start a program of the user.
LEMMA EventStep == SessionInv /\ Event => SessionInv'
  <1> SUFFICES ASSUME SessionInv, Event PROVE SessionInv'
    OBVIOUS
  <1>1. UNCHANGED <<next, pids, running, restart, ignored>> /\ pc = "wait" /\ pc' = "handle"
        /\ calls = << >>
    BY DEF Event, Main
  <1>2. NoneNew /\ proc' \in [Pid -> Process]
    <2>1. CASE UNCHANGED proc
      BY <2>1 DEF SessionInv, SessionTypeOK, NoneNew, Own, Alive
    <2>2. ASSUME NEW p \in Pid, Begin(p, Spawned) PROVE NoneNew /\ proc' \in [Pid -> Process]
      BY <2>2, NAssumption
         DEF SessionInv, SessionTypeOK, NoneNew, Own, Alive, Begin, Spawned, Process, Stranger
    <2>. QED BY <2>1, <2>2 DEF Event
  <1>3. calls' \in Seq(CallType) /\ \A d \in DOMAIN calls' : calls'[d].i = 1
    <2>1. CASE UNCHANGED calls
      BY <1>1, <2>1 DEF SessionInv, SessionTypeOK
    <2>2. ASSUME NEW arg \in BOOLEAN, calls' = <<Call("key", arg)>>
          PROVE  calls' \in Seq(CallType) /\ \A d \in DOMAIN calls' : calls'[d].i = 1
      BY <2>2, CallBegins
    <2>. QED BY <2>1, <2>2 DEF Event
  <1>4. SessionTypeOK'
    BY <1>1, <1>2, <1>3 DEF SessionInv, SessionTypeOK, Place
  <1>5. Waited'
    BY <1>2, <1>3, <1>4 DEF Waited, SessionTypeOK, Process, Stranger, Own
  <1>6. Unstarted' /\ Ended'
    BY <1>1 DEF Unstarted, Ended
  <1>. QED BY <1>1, <1>2, <1>4, <1>5, <1>6, NoneNewKeeps DEF SessionInv

\* A signal comes, anywhere after setup.
LEMMA SignalStep ==
  ASSUME NEW sig \in {"hup", "term"}, SessionInv, Signal(sig) PROVE SessionInv'
  <1> DEFINE new == Call(sig, sig = "hup")
  <1>1. new \in CallType /\ new.i = 1
    BY CallBegins
  <1>2. calls \in Seq(CallType) /\ calls' = Append(calls, new) /\ pc # "autostart"
        /\ UNCHANGED <<pc, next, pids, running, restart, ignored, proc>>
    BY DEF SessionInv, SessionTypeOK, Signal
  <1> HIDE DEF new
  <1>3. calls' \in Seq(CallType)
    BY <1>1, <1>2
  <1>4. SessionTypeOK'
    BY <1>2, <1>3 DEF SessionInv, SessionTypeOK
  <1>5. NoneNew
    BY <1>2 DEF NoneNew, Own, Alive
  <1>6. Waited'
    <2>1. \A d \in DOMAIN calls' : calls'[d].i = 1 \/ (d \in DOMAIN calls /\ calls'[d] = calls[d])
      BY <1>1, <1>2
    <2>. QED BY <1>4, <1>5, <2>1
            DEF SessionInv, Waited, NoneNew, SessionTypeOK, Process, Stranger, Own
  <1>7. Unstarted' /\ Ended'
    BY <1>2 DEF SessionInv, Unstarted, Ended
  <1>. QED BY <1>2, <1>4, <1>5, <1>6, <1>7, NoneNewKeeps DEF SessionInv

\* The innermost call of quit.
LEMMA TopCall ==
  ASSUME SessionInv, calls # << >>
  PROVE  Len(calls) \in Nat \ {0} /\ Len(calls) \in DOMAIN calls /\ Top \in CallType
  BY DEF SessionInv, SessionTypeOK, Top

\* kill leaves who lives alive for now.
LEMMA KillStep == SessionInv /\ Kill => SessionInv'
  <1> SUFFICES ASSUME SessionInv, Kill PROVE SessionInv'
    OBVIOUS
  <1>1. Top.i \in 1..N /\ Top \in CallType /\ Len(calls) \in DOMAIN calls
    BY TopCall, NAssumption DEF Kill, CallType
  <1>2. UNCHANGED <<pc, next, pids, running, restart, ignored>>
    BY DEF Kill
  <1>3. proc' \in [Pid -> Process] /\ NoneNew
    BY <1>1, PidAssumption
       DEF SessionInv, SessionTypeOK, Kill, Told, NoneNew, Own, Alive, Process
  <1>4. calls' = [calls EXCEPT ![Len(calls)].sent = TRUE]
    BY DEF Kill
  <1>5. calls' \in Seq(CallType)
    <2>1. [Top EXCEPT !.sent = TRUE] \in CallType
      BY <1>1 DEF CallType
    <2>. QED BY <1>1, <1>4, <2>1 DEF SessionInv, SessionTypeOK, Top
  <1>6. DOMAIN calls' = DOMAIN calls /\ \A d \in DOMAIN calls : calls'[d].i = calls[d].i
    BY <1>1, <1>4 DEF SessionInv, SessionTypeOK, CallType, Top
  <1>7. SessionTypeOK'
    BY <1>2, <1>3, <1>5 DEF SessionInv, SessionTypeOK
  <1>8. Waited'
    BY <1>3, <1>6 DEF SessionInv, Waited, NoneNew
  <1>9. Unstarted' /\ Ended'
    BY <1>2 DEF SessionInv, Unstarted, Ended, Kill
  <1>. QED BY <1>2, <1>3, <1>7, <1>8, <1>9, NoneNewKeeps DEF SessionInv

\* A call passes an entry only when its program is gone: if it lived, the
\* entry would be its number, and waitpid would not return.
LEMMA ReapStep == SessionInv /\ Reap => SessionInv'
  <1> SUFFICES ASSUME SessionInv, Reap PROVE SessionInv'
    OBVIOUS
  <1> DEFINE last == Len(calls)
  <1>1. Top.i \in 1..N /\ Top \in CallType /\ last \in DOMAIN calls /\ Top = calls[last]
    BY TopCall, NAssumption DEF Reap, CallType, Top
  <1>2. UNCHANGED <<pc, next, pids, running, restart, ignored, proc>>
    BY DEF Reap
  <1>3. calls' = [calls EXCEPT ![last] = [Top EXCEPT !.i = Top.i + 1, !.sent = FALSE]]
    BY <1>1 DEF Reap, SessionInv, SessionTypeOK, CallType
  <1>4. [Top EXCEPT !.i = Top.i + 1, !.sent = FALSE] \in CallType
    <2>1. Top.i + 1 \in 1..(N + 1)
      BY <1>1, NAssumption
    <2>. QED BY <1>1, <2>1 DEF CallType
  <1>5. calls' \in Seq(CallType)
    BY <1>1, <1>3, <1>4 DEF SessionInv, SessionTypeOK
  <1>6. SessionTypeOK'
    BY <1>2, <1>5 DEF SessionInv, SessionTypeOK
  <1>7. NoneNew
    BY <1>2 DEF NoneNew, Own, Alive
  <1>8. \A p \in Pid : Own(p) => proc[p].of # Top.i
    BY PidAssumption, <1>1
       DEF Reap, Blocks, SessionInv, Recorded, Own, Child, Stranger
  <1>9. Waited'
    <2>1. \A p \in Pid : Own(p) => proc[p].of \in Int /\ proc[p].of >= Top.i + 1
      BY <1>1, <1>8, NAssumption
         DEF SessionInv, SessionTypeOK, Process, Stranger, Waited, Own
    <2>2. \A d \in DOMAIN calls' : \/ d = last /\ calls'[d].i = Top.i + 1
                                   \/ d \in DOMAIN calls /\ calls'[d] = calls[d]
      BY <1>1, <1>3 DEF SessionInv, SessionTypeOK, CallType
    <2>. QED BY <1>7, <2>1, <2>2 DEF SessionInv, Waited, NoneNew
  <1>10. Unstarted' /\ Ended'
    BY <1>2 DEF SessionInv, Unstarted, Ended, Reap
  <1>. QED BY <1>2, <1>6, <1>7, <1>9, <1>10, NoneNewKeeps DEF SessionInv

\* A call that has passed the whole array tells the loop to stop.
LEMMA QuitReturnsStep == SessionInv /\ QuitReturns => SessionInv'
  <1> SUFFICES ASSUME SessionInv, QuitReturns PROVE SessionInv'
    OBVIOUS
  <1>1. Top \in CallType /\ Len(calls) \in DOMAIN calls /\ Len(calls) \in Nat \ {0} /\ Top.i > N
    BY TopCall DEF QuitReturns
  <1>2. UNCHANGED <<pc, next, pids, ignored, proc>> /\ running' = FALSE
        /\ restart' \in BOOLEAN
    BY <1>1 DEF QuitReturns, SessionInv, SessionTypeOK, CallType
  <1>3. calls' \in Seq(CallType)
        /\ \A d \in DOMAIN calls' : d \in DOMAIN calls /\ calls'[d] = calls[d]
    BY <1>1 DEF QuitReturns, SessionInv, SessionTypeOK
  <1>4. \A p \in Pid : ~Own(p)
    BY <1>1, NAssumption
       DEF SessionInv, SessionTypeOK, Process, Stranger, CallType, Waited, Own, Top
  <1>5. SessionTypeOK'
    BY <1>2, <1>3 DEF SessionInv, SessionTypeOK
  <1>6. \A p \in Pid : ~Own(p)'
    BY <1>2, <1>4 DEF Own, Alive
  <1>7. Unstarted'
    BY <1>2 DEF SessionInv, Unstarted, QuitReturns
  <1>. QED BY <1>2, <1>5, <1>6, <1>7
          DEF SessionInv, Recorded, Waited, Stopped, Ended

\* dwm ends at once.
LEMMA KilledStep == SessionInv /\ Killed => SessionInv'
  <1> SUFFICES ASSUME SessionInv, Killed PROVE SessionInv'
    OBVIOUS
  <1>1. SessionTypeOK'
    BY DEF SessionInv, SessionTypeOK, Killed, Place
  <1>2. NoneNew
    BY DEF NoneNew, Killed, Own, Alive
  <1>3. Waited' /\ Unstarted' /\ Ended'
    BY DEF Killed, Waited, Unstarted, Ended
  <1>. QED BY <1>1, <1>2, <1>3, NoneNewKeeps DEF SessionInv, Killed

\* Another process ends or begins.
LEMMA OthersStep ==
  ASSUME NEW p \in Pid, SessionInv, Ends(p) \/ Strange(p) PROVE SessionInv'
  <1>1. UNCHANGED <<pc, next, pids, running, restart, calls, ignored>>
    BY DEF Ends, Strange
  <1>2. proc' \in [Pid -> Process] /\ NoneNew
    <2>1. CASE Ends(p)
      BY <2>1, NAssumption
         DEF Ends, SessionInv, SessionTypeOK, Process, Free, Stranger, NoneNew, Own, Alive
    <2>2. CASE Strange(p)
      BY <2>2, NAssumption
         DEF Strange, Begin, SessionInv, SessionTypeOK, Process, Stranger, NoneNew, Own, Alive
    <2>. QED BY <2>1, <2>2
  <1>3. SessionTypeOK'
    BY <1>1, <1>2 DEF SessionInv, SessionTypeOK
  <1>4. Ended' /\ Unstarted'
    BY <1>1, <1>2, NoneNewKeeps DEF SessionInv, Unstarted, Ended
  <1>. QED BY <1>1, <1>2, <1>3, <1>4, NoneNewKeeps DEF SessionInv

\* No step of dwm, of a signal or of another process breaks the invariant.
THEOREM SessionInvariant == Spec => []SessionInv
  <1>1. SessionInv /\ [Next]_vars => SessionInv'
    <2> SUFFICES ASSUME SessionInv, [Next]_vars PROVE SessionInv'
      OBVIOUS
    <2>1. CASE MainStep
      BY <2>1, ForkStep, SetupStep, MainStepInv, ExecStep DEF MainStep
    <2>2. CASE Event
      BY <2>2, EventStep
    <2>3. CASE QuitStep
      BY <2>3, KillStep, ReapStep, QuitReturnsStep DEF QuitStep
    <2>4. CASE Deliver
      BY <2>4, SignalStep DEF Deliver
    <2>5. CASE Killed
      BY <2>5, KilledStep
    <2>6. CASE \E p \in Pid : Ends(p) \/ Strange(p)
      BY <2>6, OthersStep
    <2>7. CASE UNCHANGED vars
      BY <2>7 DEF vars, SessionInv, SessionTypeOK, Recorded, Unstarted, Waited, Stopped, Ended,
                  Own, Alive
    <2>. QED BY <2>1, <2>2, <2>3, <2>4, <2>5, <2>6, <2>7 DEF Next
  <1>. QED BY <1>1, SessionInitial, PTL DEF Spec

\* No program of the array runs twice, and a dwm that has returned from main
\* has left none behind: whatever keys, signals within signals, restarts and
\* numbers given to other processes came before.
THEOREM SessionNoneLeft == Spec => []NoneLeft
  <1>1. SessionInv => NoneLeft
    BY DEF SessionInv, Recorded, Stopped, Ended, NoneLeft, Copies, Own
  <1>. QED BY <1>1, SessionInvariant, PTL
=============================================================================
