------------------------------ MODULE NqProofs ------------------------------
(***************************************************************************)
(* That every job waits for the files it found, for any number of jobs and *)
(* any clock.  The argument: a job holds its lock from before its file can *)
(* be seen until it runs, and nobody takes a lock again; so what a scan    *)
(* has found free has run, and stays free.  A file is lost only after its  *)
(* command has ended, whoever may still hold its lock.                     *)
(***************************************************************************)
EXTENDS Nq, TLAPS

\* Its file has been in the directory.
Published(f) == kind[f] = "job" /\ st[f] \notin {"new", "stamped", "free", "busy"}

\* The lock of a queued job is held until it runs; afterwards what the job has
\* started may hold it, and may still do when the file was taken away.
LockedLives ==
    /\ \A f \in locked : /\ st[f] \in {"rewind", "scan", "block", "running", "done", "collected"}
                        /\ kind[f] = "job"
    /\ \A f \in Job : kind[f] = "job" /\ st[f] \in {"rewind", "scan", "block"} => f \in locked
\* Only a job is on its way to publish.
StampedJobs == \A j \in Job : st[j] = "stamped" => kind[j] = "job"
\* What can be met in the directory, and what was met, is the file of a job; only
\* a job that was collected has lost its file.
MetPublished ==
    /\ \A f \in visible : Published(f)
    /\ \A j \in Job : \A f \in seen[j] \cup must[j] :
          Published(f) /\ (f \in visible \/ st[f] = "collected")
\* A scan that has found no lock has looked at free files only.
ScanFree ==
    \A j \in Job :
        /\ st[j] # "scan" => seen[j] = {}
        /\ st[j] = "scan" /\ newest[j] = None => seen[j] \cap locked = {}

NqInv == NqTypeOK /\ StampedJobs /\ LockedLives /\ MetPublished /\ ScanFree /\ OlderFinished

\* No job has been queued yet.
LEMMA NqInitial == Init => NqInv
  BY JobAssumption, ClockAssumption
     DEF Init, NqInv, NqTypeOK, StampedJobs, LockedLives, MetPublished, ScanFree,
         OlderFinished, Published, Status, Kind, None

\* Time passes.
LEMMA TickStep == NqInv /\ Tick => NqInv'
  BY ClockAssumption
     DEF NqInv, NqTypeOK, StampedJobs, LockedLives, MetPublished, ScanFree,
         OlderFinished, Published, Tick

\* An invocation takes its time stamp.
LEMMA StartStep ==
  ASSUME NEW j \in Job, NqInv, Start(j) PROVE NqInv'
  <1>1. NqTypeOK'
    BY ClockAssumption DEF NqInv, NqTypeOK, Status, Kind, Start
  <1>2. StampedJobs'
    BY DEF NqInv, NqTypeOK, StampedJobs, Start
  <1>3. LockedLives'
    BY DEF NqInv, NqTypeOK, LockedLives, Start
  <1>4. MetPublished'
    BY DEF NqInv, NqTypeOK, MetPublished, Published, Start
  <1>5. ScanFree'
    BY DEF NqInv, NqTypeOK, ScanFree, Start
  <1>6. OlderFinished'
    BY DEF NqInv, NqTypeOK, OlderFinished, Start
  <1>. QED BY <1>1, <1>2, <1>3, <1>4, <1>5, <1>6 DEF NqInv

\* The one step that locks: nobody has met this file.
LEMMA PublishStep ==
  ASSUME NEW j \in Job, NqInv, Publish(j) PROVE NqInv'
  <1>1. NqTypeOK'
    BY DEF NqInv, NqTypeOK, Status, Kind, Publish
  <1>2. StampedJobs'
    BY DEF NqInv, NqTypeOK, StampedJobs, Publish
  <1>3. LockedLives'
    BY DEF NqInv, NqTypeOK, LockedLives, Publish, StampedJobs
  <1>4. MetPublished'
    BY DEF NqInv, NqTypeOK, MetPublished, Published, Publish, StampedJobs
  <1>5. ScanFree'
    BY DEF NqInv, NqTypeOK, ScanFree, Publish, MetPublished, Published
  <1>6. OlderFinished'
    BY DEF NqInv, NqTypeOK, OlderFinished, Publish, MetPublished, Published
  <1>. QED BY <1>1, <1>2, <1>3, <1>4, <1>5, <1>6 DEF NqInv

\* It reads the directory from the start.
LEMMA RewindStep ==
  ASSUME NEW j \in Job, NqInv, Rewind(j) PROVE NqInv'
  <1>1. NqTypeOK'
    BY DEF NqInv, NqTypeOK, Status, Kind, Rewind, OlderFiles
  <1>2. StampedJobs'
    BY DEF NqInv, NqTypeOK, StampedJobs, Rewind
  <1>3. LockedLives'
    BY DEF NqInv, NqTypeOK, LockedLives, Rewind
  <1>4. MetPublished'
    BY DEF NqInv, NqTypeOK, MetPublished, Published, Rewind, OlderFiles
  <1>5. ScanFree'
    BY DEF NqInv, NqTypeOK, ScanFree, Rewind
  <1>6. OlderFinished'
    BY DEF NqInv, NqTypeOK, OlderFinished, Rewind
  <1>. QED BY <1>1, <1>2, <1>3, <1>4, <1>5, <1>6 DEF NqInv

\* A file that is free when it is looked at; one that is locked is remembered.
LEMMA LookStep ==
  ASSUME NEW j \in Job, NEW f \in Job, NqInv, Look(j, f) PROVE NqInv'
  <1>1. NqTypeOK'
    BY JobAssumption DEF NqInv, NqTypeOK, Status, Kind, Look, OlderFiles, None
  <1>2. StampedJobs'
    BY DEF NqInv, NqTypeOK, StampedJobs, Look
  <1>3. LockedLives'
    BY DEF NqInv, NqTypeOK, LockedLives, Look
  <1>4. MetPublished'
    BY DEF NqInv, NqTypeOK, MetPublished, Published, Look, OlderFiles
  <1>5. ScanFree'
    BY JobAssumption DEF NqInv, NqTypeOK, ScanFree, Look, None
  <1>6. OlderFinished'
    BY DEF NqInv, NqTypeOK, OlderFinished, Look
  <1>. QED BY <1>1, <1>2, <1>3, <1>4, <1>5, <1>6 DEF NqInv

\* -t has met a locked file.
LEMMA BusyStep ==
  ASSUME NEW j \in Job, NEW f \in Job, NqInv, Busy(j, f) PROVE NqInv'
  <1>1. NqTypeOK'
    BY DEF NqInv, NqTypeOK, Status, Kind, Busy, Forget
  <1>2. StampedJobs'
    BY DEF NqInv, NqTypeOK, StampedJobs, Busy, Forget
  <1>3. LockedLives'
    BY DEF NqInv, NqTypeOK, LockedLives, Busy, Forget
  <1>4. MetPublished'
    BY DEF NqInv, NqTypeOK, MetPublished, Published, Busy, Forget
  <1>5. ScanFree'
    BY DEF NqInv, NqTypeOK, ScanFree, Busy, Forget
  <1>6. OlderFinished'
    BY DEF NqInv, NqTypeOK, OlderFinished, Busy, Forget
  <1>. QED BY <1>1, <1>2, <1>3, <1>4, <1>5, <1>6 DEF NqInv

\* The end of a scan: every file it had to see that is locked was seen locked.
LEMMA ScanEndsStep ==
  ASSUME NEW j \in Job, NqInv, ScanEnds(j) PROVE NqInv'
  <1>1. NqTypeOK'
    BY DEF NqInv, NqTypeOK, Status, Kind, ScanEnds
  <1>2. StampedJobs'
    BY DEF NqInv, NqTypeOK, StampedJobs, ScanEnds
  <1>3. LockedLives'
    BY DEF NqInv, NqTypeOK, LockedLives, ScanEnds
  <1>4. MetPublished'
    BY DEF NqInv, NqTypeOK, MetPublished, Published, ScanEnds
  <1>5. ScanFree'
    BY DEF NqInv, NqTypeOK, ScanFree, ScanEnds
  <1>6. OlderFinished'
    <2>. SUFFICES ASSUME NEW i \in Job, st'[i] \in {"running", "free"}, NEW f \in must[i]
                  PROVE  /\ st'[f] \in {"running", "done", "collected", "killed"}
                         /\ ~(f \in locked /\ f \in visible)
      BY DEF OlderFinished, ScanEnds
    <2>1. CASE i # j
      BY <2>1 DEF NqInv, NqTypeOK, OlderFinished, ScanEnds
    <2>2. CASE i = j
      <3>1. newest[j] = None /\ st[j] = "scan" /\ must[j] \cap visible \subseteq seen[j]
        BY <2>2 DEF NqInv, NqTypeOK, ScanEnds
      <3>2. f \in Job /\ Published(f) /\ (f \in visible \/ st[f] = "collected")
        BY <2>2 DEF NqInv, NqTypeOK, MetPublished
      <3>3. f \notin locked \/ f \notin visible
        BY <2>2, <3>1 DEF NqInv, ScanFree
      <3>4. st[f] \notin {"rewind", "scan", "block"}
        BY <3>2, <3>3 DEF NqInv, LockedLives, Published
      <3>5. st[f] \in {"running", "done", "collected", "killed"}
        BY <3>2, <3>4 DEF NqInv, NqTypeOK, Status, Published
      <3>. QED BY <2>2, <3>1, <3>3, <3>5 DEF NqInv, NqTypeOK, ScanEnds
    <2>. QED BY <2>1, <2>2
  <1>. QED BY <1>1, <1>2, <1>3, <1>4, <1>5, <1>6 DEF NqInv

\* The file it waits for is unlocked.
LEMMA UnblockStep ==
  ASSUME NEW j \in Job, NqInv, Unblock(j) PROVE NqInv'
  <1>1. NqTypeOK'
    BY DEF NqInv, NqTypeOK, Status, Kind, Unblock
  <1>2. StampedJobs'
    BY DEF NqInv, NqTypeOK, StampedJobs, Unblock
  <1>3. LockedLives'
    BY DEF NqInv, NqTypeOK, LockedLives, Unblock
  <1>4. MetPublished'
    BY DEF NqInv, NqTypeOK, MetPublished, Published, Unblock
  <1>5. ScanFree'
    BY DEF NqInv, NqTypeOK, ScanFree, Unblock
  <1>6. OlderFinished'
    BY DEF NqInv, NqTypeOK, OlderFinished, Unblock
  <1>. QED BY <1>1, <1>2, <1>3, <1>4, <1>5, <1>6 DEF NqInv

\* The command ends.
LEMMA EndsStep ==
  ASSUME NEW j \in Job, NqInv, Ends(j) PROVE NqInv'
  <1>1. NqTypeOK'
    BY DEF NqInv, NqTypeOK, Status, Kind, Ends, Forget
  <1>2. StampedJobs'
    BY DEF NqInv, NqTypeOK, StampedJobs, Ends, Forget
  <1>3. LockedLives'
    BY DEF NqInv, NqTypeOK, LockedLives, Ends, Forget
  <1>4. MetPublished'
    BY DEF NqInv, NqTypeOK, MetPublished, Published, Ends, Forget
  <1>5. ScanFree'
    BY DEF NqInv, NqTypeOK, ScanFree, Ends, Forget
  <1>6. OlderFinished'
    BY DEF NqInv, NqTypeOK, OlderFinished, Ends, Forget
  <1>. QED BY <1>1, <1>2, <1>3, <1>4, <1>5, <1>6 DEF NqInv

\* A lock is given up: less is locked than before, and no queued job's.
LEMMA ReleaseStep ==
  ASSUME NEW j \in Job, NqInv, Release(j) PROVE NqInv'
  <1>1. NqTypeOK'
    BY DEF NqInv, NqTypeOK, Release
  <1>2. StampedJobs'
    BY DEF NqInv, NqTypeOK, StampedJobs, Release
  <1>3. LockedLives'
    BY DEF NqInv, NqTypeOK, LockedLives, Release
  <1>4. MetPublished'
    BY DEF NqInv, NqTypeOK, MetPublished, Published, Release
  <1>5. ScanFree'
    BY DEF NqInv, NqTypeOK, ScanFree, Release
  <1>6. OlderFinished'
    BY DEF NqInv, NqTypeOK, OlderFinished, Release
  <1>. QED BY <1>1, <1>2, <1>3, <1>4, <1>5, <1>6 DEF NqInv

\* The job is killed.
LEMMA KillStep ==
  ASSUME NEW j \in Job, NqInv, Kill(j) PROVE NqInv'
  <1>1. NqTypeOK'
    BY DEF NqInv, NqTypeOK, Status, Kind, Kill, Forget
  <1>2. StampedJobs'
    BY DEF NqInv, NqTypeOK, StampedJobs, Kill, Forget
  <1>3. LockedLives'
    BY DEF NqInv, NqTypeOK, LockedLives, Kill, Forget
  <1>4. MetPublished'
    BY DEF NqInv, NqTypeOK, MetPublished, Published, Kill, Forget
  <1>5. ScanFree'
    BY DEF NqInv, NqTypeOK, ScanFree, Kill, Forget
  <1>6. OlderFinished'
    BY DEF NqInv, NqTypeOK, OlderFinished, Kill, Forget
  <1>. QED BY <1>1, <1>2, <1>3, <1>4, <1>5, <1>6 DEF NqInv

\* Its file stays or is moved away.
LEMMA CollectStep ==
  ASSUME NEW j \in Job, NqInv, Collect(j) PROVE NqInv'
  <1>1. NqTypeOK'
    BY DEF NqInv, NqTypeOK, Status, Kind, Collect
  <1>2. StampedJobs'
    BY DEF NqInv, NqTypeOK, StampedJobs, Collect
  <1>3. LockedLives'
    BY DEF NqInv, NqTypeOK, LockedLives, Collect
  <1>4. MetPublished'
    BY DEF NqInv, NqTypeOK, MetPublished, Published, Collect
  <1>5. ScanFree'
    BY DEF NqInv, NqTypeOK, ScanFree, Collect
  <1>6. OlderFinished'
    BY DEF NqInv, NqTypeOK, OlderFinished, Collect
  <1>. QED BY <1>1, <1>2, <1>3, <1>4, <1>5, <1>6 DEF NqInv

\* The strengthened invariant: every step of every job keeps it.
THEOREM NqInvariant == Spec => []NqInv
  <1>1. NqInv /\ [Next]_vars => NqInv'
    <2>. SUFFICES ASSUME NqInv, [Next]_vars PROVE NqInv'
      OBVIOUS
    <2>1. CASE UNCHANGED vars
      BY <2>1 DEF vars, NqInv, NqTypeOK, StampedJobs, LockedLives, MetPublished,
                  ScanFree, OlderFinished, Published
    <2>2. CASE Tick
      BY <2>2, TickStep
    <2>3. ASSUME NEW j \in Job,
                 Start(j) \/ Publish(j) \/ Waits(j) \/ Ends(j) \/ Release(j)
                   \/ Kill(j) \/ Collect(j)
          PROVE  NqInv'
      BY <2>3, StartStep, PublishStep, RewindStep, LookStep, BusyStep, ScanEndsStep,
         UnblockStep, EndsStep, ReleaseStep, KillStep, CollectStep DEF Waits
    <2>. QED BY <2>1, <2>2, <2>3 DEF Next
  <1>. QED BY NqInitial, <1>1, PTL DEF Spec

\* nq.c, main: the name of every job's file, its status and what it has seen
\* keep their types.
THEOREM NqTypes == Spec => []NqTypeOK
  <1>1. NqInv => NqTypeOK
    BY DEF NqInv
  <1>. QED BY NqInvariant, <1>1, PTL

\* nq.c, the loop at "again": when a job runs, or nq -w or nq -t reports success,
\* the command of every older file it found there at its last rewinddir was
\* started or cancelled before, and the file is not locked unless it was taken
\* away; for any number of jobs.
THEOREM NqOlderFinished == Spec => []OlderFinished
  <1>1. NqInv => OlderFinished
    BY DEF NqInv
  <1>. QED BY NqInvariant, <1>1, PTL
=============================================================================
