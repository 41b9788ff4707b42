---- MODULE MachineProofs ----
(***************************************************************************)
(* Proofs about what the processes of one machine share: the files of the  *)
(* daemon (DaemonFiles), the sessions it tracks (DaemonSessions) and the   *)
(* settings (Login), for any number of processes.                          *)
(***************************************************************************)
EXTENDS DaemonFiles, DaemonSessions, Login, TLAPS

---------------------------------------------------------------------------
(* DaemonFiles, for any number of processes, crashes and versions: as      *)
(* long as no lock is robbed, the process that owns a daemon's rights is   *)
(* the one that made the lock file that is there.                          *)

OwnersHoldTheLock == robbed \/ \A p \in Daemons : lock.by = p

OwnerInv == FilesTypeOK /\ OwnersHoldTheLock

---------------------------------------------------------------------------
(* The types.                                                              *)

\* A process of the type, which waits only for a process.
Typed(r) == r \in Processes /\ (r.pc \in Waiting => r.found # NoProcess)

\* A process that is over.
LEMMA IdleIsTyped == \A place \in Over : Typed(Idle(place))
BY DaemonFilesAssumption DEF Typed, Idle, Processes, Pc, Over, Waiting

\* It goes on with another next step, with whatever was found.
LEMMA GoIsTyped ==
    ASSUME NEW r, Typed(r), NEW place \in Pc \ Waiting
    PROVE  Typed([r EXCEPT !.pc = place])
BY DEF Typed, Processes, Pc, Over, Owning, Waiting

\* It goes on and forgets whom it has found.
LEMMA ForgetIsTyped ==
    ASSUME NEW r \in Processes, NEW place \in Pc \ Waiting
    PROVE  Typed([r EXCEPT !.pc = place, !.found = NoProcess, !.resume = "dead"])
<1>1. [r EXCEPT !.pc = place] \in Processes
  BY DEF Processes
<1>2. [[r EXCEPT !.pc = place] EXCEPT !.found = NoProcess] \in Processes
  BY <1>1 DEF Processes
<1>3. [[[r EXCEPT !.pc = place] EXCEPT !.found = NoProcess] EXCEPT !.resume = "dead"] \in Processes
  BY <1>2 DEF Processes
<1>4. [r EXCEPT !.pc = place, !.found = NoProcess, !.resume = "dead"]
        = [[[r EXCEPT !.pc = place] EXCEPT !.found = NoProcess] EXCEPT !.resume = "dead"]
  BY DEF Processes
<1>5. [r EXCEPT !.pc = place, !.found = NoProcess, !.resume = "dead"].pc = place
  BY DEF Processes
<1>6. QED
  BY <1>3, <1>4, <1>5 DEF Typed

\* It goes on where it was asked from.
LEMMA ResumeIsTyped ==
    ASSUME NEW r, Typed(r), NEW next \in {"dead", "stop", "open", "release"}
    PROVE  Typed([r EXCEPT !.resume = next])
BY DEF Typed, Processes

\* It goes on after a stop.
LEMMA ThenIsTyped ==
    ASSUME FilesTypeOK, NEW p \in Process, NEW place \in Pc \ Waiting
    PROVE  Typed(Then(p, place))
<1>1. CASE place = "dead"
  BY <1>1, IdleIsTyped DEF Then, Over
<1>2. CASE place # "dead"
  BY <1>2, ForgetIsTyped DEF FilesTypeOK, Then
<1>3. QED
  BY <1>1, <1>2

\* It goes on after it has cleared the files.
LEMMA ClearIsTyped ==
    ASSUME FilesTypeOK, NEW p \in Process, NEW next \in {"dead", "stop", "open", "release"}
    PROVE  Typed([Then(p, "clearState") EXCEPT !.resume = next])
<1>1. "clearState" \in Pc \ Waiting
  BY DEF Pc, Waiting
<1>2. Typed(Then(p, "clearState"))
  BY <1>1, ThenIsTyped
<1>3. QED
  BY <1>2, ResumeIsTyped

\* The types hold at the start.
LEMMA InitFilesTypeOK == FilesInit => FilesTypeOK
<1>1. Typed(Idle("new"))
  BY IdleIsTyped DEF Over
<1>2. ASSUME FilesInit PROVE proc \in [Process -> Processes]
  BY <1>1, <1>2 DEF FilesInit, Typed
<1>3. ASSUME FilesInit PROVE \A p \in Process : proc[p].pc \in Waiting => proc[p].found # NoProcess
  BY <1>1, <1>3 DEF FilesInit, Typed
<1>4. ASSUME FilesInit PROVE state \in [pid : Process \union {NoProcess}, version : 0..MaxVersion]
  BY <1>4, DaemonFilesAssumption DEF FilesInit, NoState
<1>5. ASSUME FilesInit PROVE lock \in [by : Process \union {NoProcess}, pid : Process \union {NoProcess}]
  BY <1>5 DEF FilesInit, NoLock
<1>6. ASSUME FilesInit PROVE installed \in 1..MaxVersion /\ crashes \in 0..MaxCrashes
  BY <1>6, DaemonFilesAssumption DEF FilesInit
<1>7. QED
  BY <1>2, <1>3, <1>4, <1>5, <1>6 DEF FilesInit, FilesTypeOK

\* The type of the processes, and of all else.
ProcTypeOK == proc \in [Process -> Processes] /\ \A p \in Process : Typed(proc[p])

FileTypeOK ==
    /\ lock \in [by : Process \union {NoProcess}, pid : Process \union {NoProcess}]
    /\ state \in [pid : Process \union {NoProcess}, version : 0..MaxVersion]
    /\ robbed \in BOOLEAN
    /\ installed \in 1..MaxVersion
    /\ crashes \in 0..MaxCrashes
    /\ state = NoState \/ state.pid # NoProcess

\* The types of the processes and of the files, apart.
LEMMA TypeParts == FilesTypeOK <=> ProcTypeOK /\ FileTypeOK
BY DEF FilesTypeOK, ProcTypeOK, FileTypeOK, Typed

\* And in the next state.
LEMMA TypePartsNext == FilesTypeOK' <=> ProcTypeOK' /\ FileTypeOK'
BY DEF FilesTypeOK, ProcTypeOK, FileTypeOK, Typed

\* One process changes.
LEMMA OneChanges ==
    ASSUME ProcTypeOK, NEW p \in Process, NEW t, Typed(t), proc' = [proc EXCEPT ![p] = t]
    PROVE  ProcTypeOK'
BY DEF ProcTypeOK, Typed

\* A process that goes on keeps the types.
LEMMA GoTypeOK ==
    ASSUME FilesTypeOK, NEW p \in Process, NEW place \in Pc \ Waiting, Go(p, place)
    PROVE  ProcTypeOK'
<1>1. Typed(proc[p]) /\ ProcTypeOK
  BY TypeParts DEF ProcTypeOK
<1>2. proc' = [proc EXCEPT ![p] = [proc[p] EXCEPT !.pc = place]]
  BY DEF Go
<1>3. QED
  BY <1>1, <1>2, GoIsTyped, OneChanges

\* So does one that exits,
LEMMA ExitTypeOK ==
    ASSUME FilesTypeOK, NEW p \in Process, Exit(p)
    PROVE  ProcTypeOK'
BY TypeParts, IdleIsTyped, OneChanges DEF Exit, Over

\* one that clears the files,
LEMMA ClearTypeOK ==
    ASSUME FilesTypeOK, NEW p \in Process, NEW next \in {"dead", "stop", "open", "release"},
           Clear(p, next)
    PROVE  ProcTypeOK'
BY TypeParts, ClearIsTyped, OneChanges DEF Clear

\* and one that goes on where it was asked from.
LEMMA ResumeTypeOK ==
    ASSUME FilesTypeOK, NEW p \in Process, Resume(p)
    PROVE  ProcTypeOK'
<1>1. proc[p].resume \in Pc \ Waiting
  BY DEF FilesTypeOK, Processes, Pc, Over, Owning, Waiting
<1>2. QED
  BY <1>1, TypeParts, ThenIsTyped, OneChanges DEF Resume

\* The start of a process, and the look for a daemon.
LEMMA CheckTypeOK ==
    ASSUME FilesTypeOK, NEW p \in Process, Start(p) \/ Check(p) \/ Compare(p)
    PROVE  FilesTypeOK'
<1>1. FileTypeOK'
  BY TypeParts DEF Start, Check, Compare, fileVars, boundVars, FileTypeOK
<1>2. CASE Start(p)
  <2>1. installed \in 0..MaxVersion /\ Typed(proc[p]) /\ ProcTypeOK
    BY TypeParts, DaemonFilesAssumption DEF ProcTypeOK, FileTypeOK
  <2>2. Typed([proc[p] EXCEPT !.pc = "check"]) /\ Typed([proc[p] EXCEPT !.pc = "stop"])
    BY <2>1, GoIsTyped DEF Pc, Waiting
  <2>3. Typed([[proc[p] EXCEPT !.pc = "check"] EXCEPT !.version = installed])
    BY <2>1, <2>2 DEF Typed, Processes
  <2>4. Typed([[proc[p] EXCEPT !.pc = "stop"] EXCEPT !.goal = "stop"])
    BY <2>1, <2>2 DEF Typed, Processes
  <2>5. CASE proc' = [proc EXCEPT ![p].pc = "check", ![p].version = installed]
    <3>1. proc' = [proc EXCEPT ![p] = [[proc[p] EXCEPT !.pc = "check"] EXCEPT !.version = installed]]
      BY <2>1, <2>5 DEF ProcTypeOK, Processes
    <3>2. QED
      BY <3>1, <2>1, <2>3, <1>1, OneChanges, TypePartsNext
  <2>6. CASE proc' = [proc EXCEPT ![p].pc = "stop", ![p].goal = "stop"]
    <3>1. proc' = [proc EXCEPT ![p] = [[proc[p] EXCEPT !.pc = "stop"] EXCEPT !.goal = "stop"]]
      BY <2>1, <2>6 DEF ProcTypeOK, Processes
    <3>2. QED
      BY <3>1, <2>1, <2>4, <1>1, OneChanges, TypePartsNext
  <2>7. QED
    BY <1>2, <2>5, <2>6 DEF Start
<1>3. CASE Check(p)
  <2>1. ProcTypeOK'
    BY <1>3, GoTypeOK, ClearTypeOK DEF Check, Pc, Waiting
  <2>2. QED
    BY <1>1, <2>1, TypePartsNext
<1>4. CASE Compare(p)
  <2>1. ProcTypeOK'
    BY <1>4, GoTypeOK, ExitTypeOK DEF Compare, Pc, Waiting
  <2>2. QED
    BY <1>1, <2>1, TypePartsNext
<1>5. QED
  BY <1>2, <1>3, <1>4

\* A process that waits, for the process that it has found.
LEMMA WaitIsTyped ==
    ASSUME NEW r \in Processes, NEW place \in Waiting, NEW q \in Process, q # NoProcess
    PROVE  Typed([r EXCEPT !.pc = place, !.found = q])
<1>1. [r EXCEPT !.pc = place] \in Processes
  BY DEF Processes, Pc, Waiting
<1>2. [[r EXCEPT !.pc = place] EXCEPT !.found = q] \in Processes
  BY <1>1 DEF Processes
<1>3. [r EXCEPT !.pc = place, !.found = q] = [[r EXCEPT !.pc = place] EXCEPT !.found = q]
  BY DEF Processes
<1>4. [r EXCEPT !.pc = place, !.found = q].found = q
  BY DEF Processes
<1>5. QED
  BY <1>2, <1>3, <1>4 DEF Typed

\* A process that is asked to stop.
LEMMA AskedIsTyped ==
    ASSUME NEW r, Typed(r), NEW b \in BOOLEAN
    PROVE  Typed([r EXCEPT !.asked = b])
BY DEF Typed, Processes

\* Two processes change.
LEMMA TwoChange ==
    ASSUME ProcTypeOK, NEW p \in Process, NEW q \in Process, NEW t, Typed(t), NEW u, Typed(u),
           proc' = [proc EXCEPT ![q] = u, ![p] = t]
    PROVE  ProcTypeOK'
BY DEF ProcTypeOK, Typed

\* After a stop a process goes on at a step it has.
LEMMA AfterStopIsKnown ==
    ASSUME FilesTypeOK, NEW p \in Process
    PROVE  AfterStop(p) \in {"dead", "open"} /\ AfterStop(p) \in Pc \ Waiting
BY DEF AfterStop, Pc, Over, Waiting

\* Stopping a daemon keeps the types.
LEMMA StopTypeOK ==
    ASSUME FilesTypeOK, NEW p \in Process, Stop(p)
    PROVE  FilesTypeOK'
<1>1. FileTypeOK'
  BY TypeParts DEF Stop, StopByLock, StopByState, Post, AwaitDeath, fileVars, boundVars, FileTypeOK
<1> SUFFICES ProcTypeOK'
  BY <1>1, TypePartsNext
<1>2. Typed(proc[p]) /\ ProcTypeOK /\ FileTypeOK
  BY TypeParts DEF ProcTypeOK
<1>3. CASE StopByLock(p)
  <2>1. CASE proc' = [proc EXCEPT ![p] = Then(p, AfterStop(p))]
    BY <2>1, <1>2, AfterStopIsKnown, ThenIsTyped, OneChanges
  <2>2. CASE Clear(p, AfterStop(p))
    BY <2>2, AfterStopIsKnown, ClearTypeOK
  <2>3. CASE /\ Alive(lock.pid)
             /\ proc' = [proc EXCEPT ![p].pc = "awaitTerm", ![p].found = lock.pid,
                                     ![lock.pid].asked = TRUE]
    <3> DEFINE t == [proc[p] EXCEPT !.pc = "awaitTerm", !.found = lock.pid]
    <3> DEFINE f == [proc EXCEPT ![p] = t]
    <3>1. lock.pid \in Process /\ lock.pid # NoProcess
      BY <2>3, <1>2 DEF Alive, FileTypeOK
    <3>2. Typed(t)
      BY <3>1, <1>2, WaitIsTyped DEF Typed, Waiting
    <3>3. f \in [Process -> Processes] /\ \A q \in Process : Typed(f[q])
      BY <3>2, <1>2 DEF ProcTypeOK, Typed
    <3>4. Typed([f[lock.pid] EXCEPT !.asked = TRUE])
      BY <3>1, <3>3, AskedIsTyped
    <3>5. proc' = [f EXCEPT ![lock.pid] = [f[lock.pid] EXCEPT !.asked = TRUE]]
      BY <2>3, <3>1, <1>2 DEF ProcTypeOK, Processes
    <3> HIDE DEF f
    <3>6. QED
      BY <3>1, <3>3, <3>4, <3>5 DEF ProcTypeOK, Typed
  <2>4. QED
    BY <1>3, <2>1, <2>2, <2>3 DEF StopByLock
<1>4. CASE StopByState(p)
  <2>1. state.pid \in Process /\ state.pid # NoProcess
    BY <1>2, <1>4 DEF FileTypeOK, StopByState
  <2>2. Typed([proc[p] EXCEPT !.pc = "post", !.found = state.pid])
    BY <2>1, <1>2, WaitIsTyped DEF Typed, Waiting
  <2>3. proc' = [proc EXCEPT ![p] = [proc[p] EXCEPT !.pc = "post", !.found = state.pid]]
    BY <1>2, <1>4 DEF StopByState, ProcTypeOK, Processes
  <2>4. QED
    BY <1>2, <2>2, <2>3, OneChanges
<1>5. CASE Post(p)
  <2> DEFINE t == [proc[p] EXCEPT !.pc = "awaitHttp"]
  <2> DEFINE f == [proc EXCEPT ![p] = t]
  <2>1. Typed(t)
    BY <1>2, <1>5 DEF Post, At, Typed, Processes, Pc, Waiting
  <2>2. f \in [Process -> Processes] /\ \A q \in Process : Typed(f[q])
    BY <2>1, <1>2 DEF ProcTypeOK, Typed
  <2>3. CASE state # NoState /\ At(state.pid, "serving")
    <3>1. state.pid \in Process
      BY <2>3, <1>2 DEF FileTypeOK
    <3>2. Typed([f[state.pid] EXCEPT !.asked = TRUE])
      BY <3>1, <2>2, AskedIsTyped
    <3>3. proc' = [f EXCEPT ![state.pid] = [f[state.pid] EXCEPT !.asked = TRUE]]
      BY <2>3, <3>1, <1>2, <1>5 DEF Post, ProcTypeOK, Processes
    <3> HIDE DEF f
    <3>4. QED
      BY <3>1, <2>2, <3>2, <3>3 DEF ProcTypeOK, Typed
  <2>4. CASE ~(state # NoState /\ At(state.pid, "serving"))
    <3>1. proc' = f
      BY <2>4, <1>5 DEF Post, Go
    <3>2. QED
      BY <3>1, <2>2 DEF ProcTypeOK
  <2>5. QED
    BY <2>3, <2>4
<1>6. CASE AwaitDeath(p)
  <2>1. proc[p].found \in Process
    BY <1>2, <1>6 DEF AwaitDeath, At, Typed, Processes, Waiting
  <2>2. Typed(Idle("dead"))
    BY IdleIsTyped DEF Over
  <2>3. Typed([Then(p, "clearState") EXCEPT !.resume = AfterStop(p)])
    BY ClearIsTyped, AfterStopIsKnown
  <2>4. Typed(Then(p, AfterStop(p)))
    BY ThenIsTyped, AfterStopIsKnown
  <2>5. CASE proc' = [proc EXCEPT ![proc[p].found] = Idle("dead"),
                 ![p] = [Then(p, "clearState") EXCEPT !.resume = AfterStop(p)]]
    BY <1>2, <2>1, <2>2, <2>3, <2>5, TwoChange
  <2>6. CASE proc' = [proc EXCEPT ![proc[p].found] = Idle("dead"), ![p] = Then(p, AfterStop(p))]
    BY <1>2, <2>1, <2>2, <2>4, <2>6, TwoChange
  <2>7. QED
    BY <1>6, <2>5, <2>6 DEF AwaitDeath
<1>7. QED
  BY <1>3, <1>4, <1>5, <1>6 DEF Stop

\* So does clearing its files.
LEMMA ClearFilesTypeOK ==
    ASSUME FilesTypeOK, NEW p \in Process, ClearFiles(p)
    PROVE  FilesTypeOK'
<1>1. FileTypeOK
  BY TypeParts
<1>2. NoLock \in [by : Process \union {NoProcess}, pid : Process \union {NoProcess}]
  BY DEF NoLock
<1>3. NoState \in [pid : Process \union {NoProcess}, version : 0..MaxVersion]
  BY DaemonFilesAssumption DEF NoState
<1>4. FileTypeOK'
  BY <1>1, <1>2, <1>3 DEF ClearFiles, ClearState, UnlinkState, ClearLock, Release, RemoveLock,
     fileVars, boundVars, FileTypeOK
<1>5. ProcTypeOK'
  BY GoTypeOK, ResumeTypeOK, ExitTypeOK DEF ClearFiles, ClearState, UnlinkState, ClearLock,
     Release, Pc, Waiting
<1>6. QED
  BY <1>4, <1>5, TypePartsNext

\* A process that goes on, with another attempt or beat.
LEMMA AttemptIsTyped ==
    ASSUME NEW r, Typed(r), NEW place \in Pc \ Waiting, NEW n \in 1..MaxAttempts
    PROVE  Typed([r EXCEPT !.pc = place, !.attempt = n])
<1>1. Typed([r EXCEPT !.pc = place])
  BY GoIsTyped
<1>2. Typed([[r EXCEPT !.pc = place] EXCEPT !.attempt = n])
  BY <1>1 DEF Typed, Processes
<1>3. [r EXCEPT !.pc = place, !.attempt = n] = [[r EXCEPT !.pc = place] EXCEPT !.attempt = n]
  BY DEF Typed, Processes
<1>4. QED
  BY <1>2, <1>3

\* A daemon that beats.
LEMMA BeatIsTyped ==
    ASSUME NEW r, Typed(r), NEW b \in {"none", "own", "foreign", "outdated", "over"}
    PROVE  Typed([r EXCEPT !.beat = b])
BY DEF Typed, Processes

\* Another attempt at the lock keeps the types.
LEMMA RetryTypeOK ==
    ASSUME FilesTypeOK, NEW p \in Process, Retry(p)
    PROVE  ProcTypeOK'
<1>1. Typed(proc[p]) /\ ProcTypeOK
  BY TypeParts DEF ProcTypeOK
<1>2. CASE proc[p].attempt = MaxAttempts
  BY <1>2, ExitTypeOK DEF Retry
<1>3. CASE proc[p].attempt # MaxAttempts
  <2>1. proc[p].attempt + 1 \in 1..MaxAttempts
    BY <1>1, <1>3, DaemonFilesAssumption DEF Typed, Processes
  <2>2. proc' = [proc EXCEPT ![p] = [proc[p] EXCEPT !.pc = "open", !.attempt = @ + 1]]
    BY <1>1, <1>3 DEF Retry, ProcTypeOK, Processes
  <2>3. Typed([proc[p] EXCEPT !.pc = "open", !.attempt = @ + 1])
    BY <1>1, <2>1, AttemptIsTyped DEF Pc, Waiting
  <2>4. QED
    BY <1>1, <2>2, <2>3, OneChanges
<1>4. QED
  BY <1>2, <1>3

\* So does becoming a daemon's owner,
LEMMA OwnTypeOK ==
    ASSUME FilesTypeOK, NEW p \in Process, Own(p)
    PROVE  ProcTypeOK'
<1>1. Typed(proc[p]) /\ ProcTypeOK
  BY TypeParts DEF ProcTypeOK
<1>2. Typed([proc[p] EXCEPT !.pc = "writePid", !.attempt = 1])
  <2>1. 1 \in 1..MaxAttempts
    BY DaemonFilesAssumption
  <2>2. "writePid" \in Pc \ Waiting
    BY DEF Pc, Owning, Waiting
  <2>3. QED
    BY <1>1, <2>1, <2>2, AttemptIsTyped
<1>3. proc' = [proc EXCEPT ![p] = [proc[p] EXCEPT !.pc = "writePid", !.attempt = 1]]
  BY <1>1 DEF Own, ProcTypeOK, Processes
<1>4. QED
  BY <1>1, <1>2, <1>3, OneChanges

\* taking the lock,
LEMMA AcquireTypeOK ==
    ASSUME FilesTypeOK, NEW p \in Process, Acquire(p)
    PROVE  FilesTypeOK'
<1>1. FileTypeOK
  BY TypeParts
<1>2. NoLock \in [by : Process \union {NoProcess}, pid : Process \union {NoProcess}]
  BY DEF NoLock
<1>3. FileTypeOK'
  <2>1. CASE Open(p)
    BY <1>1, <2>1 DEF Open, Own, boundVars, FileTypeOK
  <2>2. CASE Inspect(p)
    BY <1>1, <2>2 DEF Inspect, fileVars, boundVars, FileTypeOK
  <2>3. CASE Unlink(p)
    BY <1>1, <1>2, <2>3 DEF Unlink, RemoveLock, boundVars, FileTypeOK
  <2>4. CASE WritePid(p)
    BY <1>1, <2>4 DEF WritePid, boundVars, FileTypeOK
  <2>5. QED
    BY <2>1, <2>2, <2>3, <2>4 DEF Acquire
<1>4. ProcTypeOK'
  BY GoTypeOK, RetryTypeOK, OwnTypeOK DEF Acquire, Open, Inspect, Unlink, WritePid, Pc, Owning,
     Waiting
<1>5. QED
  BY <1>3, <1>4, TypePartsNext

\* what a daemon does while it serves,
LEMMA ServeTypeOK ==
    ASSUME FilesTypeOK, NEW p \in Process,
           Serve(p) \/ Heartbeat(p) \/ CleanUp(p) \/ ForcedExit(p) \/ Crash(p)
    PROVE  FilesTypeOK'
<1>1. FileTypeOK /\ ProcTypeOK /\ Typed(proc[p])
  BY TypeParts DEF ProcTypeOK
<1>2. [pid |-> p, version |-> proc[p].version]
        \in [pid : Process \union {NoProcess}, version : 0..MaxVersion]
  BY <1>1 DEF Typed, Processes
<1>3. p # NoProcess
  BY DaemonFilesAssumption
<1>4. FileTypeOK'
  <2>1. crashes < MaxCrashes => crashes + 1 \in 0..MaxCrashes
    BY <1>1, DaemonFilesAssumption DEF FileTypeOK
  <2>2. CASE Crash(p)
    BY <1>1, <2>1, <2>2 DEF Crash, fileVars, FileTypeOK
  <2>3. CASE Serve(p) \/ BeatWrite(p)
    BY <1>1, <1>2, <1>3, <2>3 DEF Serve, BeatWrite, WriteState, boundVars, FileTypeOK
  <2>4. CASE BeatRead(p) \/ ExitOutdated(p) \/ CleanUp(p) \/ ForcedExit(p)
    BY <1>1, <2>4 DEF BeatRead, ExitOutdated, CleanUp, ForcedExit, fileVars, boundVars, FileTypeOK
  <2>5. QED
    BY <2>2, <2>3, <2>4 DEF Heartbeat
<1>5. CASE BeatRead(p)
  <2> DEFINE seen == CASE proc[p].version # installed -> "outdated"
                       [] state.pid \in {p, NoProcess} -> "own"
                       [] OTHER -> "foreign"
  <2>1. PICK b \in {"outdated", "own", "foreign"} : seen = b
    OBVIOUS
  <2>2. Typed([proc[p] EXCEPT !.beat = b])
    BY <1>1, BeatIsTyped
  <2>3. proc' = [proc EXCEPT ![p] = [proc[p] EXCEPT !.beat = seen]]
    BY <1>5 DEF BeatRead
  <2> HIDE DEF seen
  <2>4. QED
    BY <1>1, <1>4, <2>1, <2>2, <2>3, OneChanges, TypePartsNext
<1>6. CASE BeatWrite(p)
  <2>1. PICK a \in BOOLEAN : proc' = [proc EXCEPT ![p].beat = "over", ![p].asked = a]
    BY <1>1, <1>6 DEF BeatWrite, ProcTypeOK, Processes
  <2>2. Typed([[proc[p] EXCEPT !.beat = "over"] EXCEPT !.asked = a])
    BY <1>1, BeatIsTyped, AskedIsTyped
  <2>3. proc' = [proc EXCEPT ![p] = [[proc[p] EXCEPT !.beat = "over"] EXCEPT !.asked = a]]
    BY <1>1, <2>1 DEF ProcTypeOK, Processes
  <2>4. QED
    BY <1>1, <1>4, <2>2, <2>3, OneChanges, TypePartsNext
<1>7. CASE Serve(p)
  <2>1. Typed([[proc[p] EXCEPT !.pc = "serving"] EXCEPT !.beat = "over"])
    BY <1>1, GoIsTyped, BeatIsTyped DEF Pc, Owning, Waiting
  <2>2. proc' = [proc EXCEPT ![p] = [[proc[p] EXCEPT !.pc = "serving"] EXCEPT !.beat = "over"]]
    BY <1>1, <1>7 DEF Serve, ProcTypeOK, Processes
  <2>3. QED
    BY <1>1, <1>4, <2>1, <2>2, OneChanges, TypePartsNext
<1>8. CASE ExitOutdated(p) \/ CleanUp(p) \/ ForcedExit(p) \/ Crash(p)
  <2>1. ProcTypeOK'
    BY <1>8, ExitTypeOK, ClearTypeOK DEF ExitOutdated, CleanUp, ForcedExit, Crash
  <2>2. QED
    BY <1>4, <2>1, TypePartsNext
<1>9. QED
  BY <1>5, <1>6, <1>7, <1>8 DEF Heartbeat

\* and the passing of a minute.
LEMMA MinuteTypeOK ==
    ASSUME FilesTypeOK, Minute
    PROVE  FilesTypeOK'
<1>1. ProcTypeOK /\ FileTypeOK
  BY TypeParts
<1>2. \A p \in Process : Typed([proc[p] EXCEPT !.beat = "none"])
  BY <1>1, BeatIsTyped DEF ProcTypeOK
<1>3. ProcTypeOK'
  BY <1>1, <1>2 DEF Minute, ProcTypeOK, Typed
<1>4. FileTypeOK'
  BY <1>1 DEF Minute, fileVars, boundVars, FileTypeOK
<1>5. QED
  BY <1>3, <1>4, TypePartsNext

\* Every step keeps the types.
LEMMA NextFilesTypeOK ==
    ASSUME FilesTypeOK, [FilesNext]_daemonFilesVars
    PROVE  FilesTypeOK'
<1>1. CASE UNCHANGED daemonFilesVars
  BY <1>1 DEF daemonFilesVars, fileVars, boundVars, FilesTypeOK
<1>2. CASE Upgrade
  <2>1. installed + 1 \in 1..MaxVersion
    BY <1>2, DaemonFilesAssumption DEF Upgrade, FilesTypeOK
  <2>2. QED
    BY <1>2, <2>1 DEF Upgrade, fileVars, FilesTypeOK
<1>3. CASE \E p \in Process : \/ Start(p) \/ Run(p) \/ Heartbeat(p)
                               \/ CleanUp(p) \/ ForcedExit(p) \/ Crash(p)
  BY <1>3, CheckTypeOK, StopTypeOK, ClearFilesTypeOK, AcquireTypeOK, ServeTypeOK DEF Run
<1>4. QED
  BY <1>1, <1>2, <1>3, MinuteTypeOK DEF FilesNext

\* Every state has its type: the files name processes or nobody, and a process that waits
\* waits for one that it has found in a file.
THEOREM FilesTypeCorrect == FilesSpec => []FilesTypeOK
<1>1. FilesInit => FilesTypeOK
  BY InitFilesTypeOK
<1>2. FilesTypeOK /\ [FilesNext]_daemonFilesVars => FilesTypeOK'
  BY NextFilesTypeOK
<1>3. QED
  BY <1>1, <1>2, PTL DEF FilesSpec

---------------------------------------------------------------------------
(* One daemon, unless a lock is robbed.                                    *)

\* Nobody becomes an owner whose next step is not an owner's.
LEMMA OneLeaves ==
    ASSUME FilesTypeOK, NEW p \in Process, NEW t, t.pc \notin Owning \/ p \in Daemons,
           proc' = [proc EXCEPT ![p] = t]
    PROVE  Daemons' \subseteq Daemons /\ (t.pc \notin Owning => p \notin Daemons')
BY DEF FilesTypeOK, Daemons

\* A process that goes on without rights makes nobody an owner.
LEMMA GoLeaves ==
    ASSUME FilesTypeOK, NEW p \in Process, NEW place, place \notin Owning \/ p \in Daemons, Go(p, place)
    PROVE  Daemons' \subseteq Daemons /\ (place \notin Owning => p \notin Daemons')
<1>1. [proc[p] EXCEPT !.pc = place].pc = place
  BY DEF FilesTypeOK, Processes
<1>2. proc' = [proc EXCEPT ![p] = [proc[p] EXCEPT !.pc = place]]
  BY DEF Go
<1>3. QED
  BY <1>1, <1>2, OneLeaves

\* Nor does one that exits,
LEMMA ExitLeaves ==
    ASSUME FilesTypeOK, NEW p \in Process, Exit(p)
    PROVE  Daemons' \subseteq Daemons /\ p \notin Daemons'
<1>1. Idle("dead").pc \notin Owning
  BY DEF Idle, Owning
<1>2. QED
  BY <1>1, OneLeaves DEF Exit

\* one that goes on after a stop,
LEMMA ThenLeaves ==
    ASSUME FilesTypeOK, NEW p \in Process, NEW place
    PROVE  Then(p, place).pc = place
<1>1. proc[p] \in Processes
  BY DEF FilesTypeOK
<1>2. QED
  BY <1>1 DEF Then, Idle, Processes

\* one that clears the files,
LEMMA ClearLeaves ==
    ASSUME FilesTypeOK, NEW p \in Process, NEW next \in {"dead", "stop", "open", "release"},
           Clear(p, next)
    PROVE  Daemons' \subseteq Daemons /\ p \notin Daemons'
<1>1. Then(p, "clearState") \in Processes /\ Then(p, "clearState").pc = "clearState"
  BY ThenIsTyped, ThenLeaves DEF Typed, Pc, Waiting
<1>2. [Then(p, "clearState") EXCEPT !.resume = next].pc \notin Owning
  BY <1>1 DEF Processes, Owning
<1>3. QED
  BY <1>2, OneLeaves DEF Clear

\* or one that goes on where it was asked from.
LEMMA ResumeLeaves ==
    ASSUME FilesTypeOK, NEW p \in Process, Resume(p)
    PROVE  Daemons' \subseteq Daemons /\ p \notin Daemons'
<1>1. proc[p].resume \notin Owning
  BY DEF FilesTypeOK, Processes, Owning
<1>2. Then(p, proc[p].resume).pc \notin Owning
  BY <1>1, ThenLeaves
<1>3. QED
  BY <1>2, OneLeaves DEF Resume

\* Steps that leave the lock's maker and make nobody an owner.
LEMMA LockStays ==
    ASSUME OwnersHoldTheLock, Daemons' \subseteq Daemons, lock'.by = lock.by, robbed' = robbed
    PROVE  OwnersHoldTheLock'
BY DEF OwnersHoldTheLock

\* A lock that is removed while its maker lives, and by another, is robbed.
LEMMA RemovalIsNoticed ==
    ASSUME OwnersHoldTheLock, NEW p \in Process, RemoveLock(p), Daemons' \subseteq Daemons,
           p \notin Daemons'
    PROVE  OwnersHoldTheLock'
<1>1. SUFFICES ASSUME ~robbed', NEW q \in Daemons' PROVE FALSE
  BY DEF OwnersHoldTheLock
<1>2. q \in Daemons /\ q # p /\ q \in Process
  BY <1>1 DEF Daemons
<1>3. ~robbed /\ (lock.by = p \/ ~Alive(lock.by))
  BY <1>1 DEF RemoveLock
<1>4. lock.by = q
  BY <1>2, <1>3 DEF OwnersHoldTheLock
<1>5. Alive(q)
  BY <1>2, DaemonFilesAssumption DEF Alive, Daemons, Owning, Over
<1>6. QED
  BY <1>2, <1>3, <1>4, <1>5

\* O_EXCL: who creates the lock finds no other owner.
LEMMA CreationIsExclusive ==
    ASSUME FilesTypeOK, OwnersHoldTheLock, NEW p \in Process, lock = NoLock, Own(p), robbed' = robbed
    PROVE  OwnersHoldTheLock'
<1>1. SUFFICES ASSUME ~robbed, NEW q \in Daemons' PROVE lock'.by = q
  BY DEF OwnersHoldTheLock
<1>2. lock'.by = p
  BY DEF Own
<1>3. q \in Process /\ (q # p => q \in Daemons)
  BY <1>1 DEF Own, FilesTypeOK, Daemons
<1>4. q \notin Daemons
  BY <1>1, <1>3, DaemonFilesAssumption DEF OwnersHoldTheLock, NoLock
<1>5. QED
  BY <1>2, <1>3, <1>4

\* At the start nobody has rights.
LEMMA InitOwners == FilesInit => OwnersHoldTheLock
BY DEF FilesInit, OwnersHoldTheLock, Daemons, Idle, Owning

\* Looking for a daemon keeps the owner of the lock.
LEMMA CheckKeepsOwners ==
    ASSUME OwnerInv, NEW p \in Process, Start(p) \/ Check(p) \/ Compare(p)
    PROVE  OwnersHoldTheLock'
<1>1. lock' = lock /\ robbed' = robbed
  BY DEF Start, Check, Compare, fileVars
<1>2. CASE Start(p)
  <2>1. proc \in [Process -> Processes]
    BY DEF OwnerInv, FilesTypeOK
  <2>2. Daemons' \subseteq Daemons
    BY <1>2, <2>1 DEF Start, Daemons, Processes, Owning
  <2>3. QED
    BY <1>1, <2>2, LockStays DEF OwnerInv
<1>3. CASE Check(p) \/ Compare(p)
  <2>1. Daemons' \subseteq Daemons
    BY <1>3, GoLeaves, ExitLeaves, ClearLeaves DEF Check, Compare, OwnerInv, Owning
  <2>2. QED
    BY <1>1, <2>1, LockStays DEF OwnerInv
<1>4. QED
  BY <1>2, <1>3

\* So does stopping one,
LEMMA StopKeepsOwners ==
    ASSUME OwnerInv, NEW p \in Process, Stop(p)
    PROVE  OwnersHoldTheLock'
<1>1. lock' = lock /\ robbed' = robbed
  BY DEF Stop, StopByLock, StopByState, Post, AwaitDeath, fileVars
<1> SUFFICES Daemons' \subseteq Daemons
  BY <1>1, LockStays DEF OwnerInv
<1>2. proc \in [Process -> Processes]
  BY DEF OwnerInv, FilesTypeOK
<1>3. CASE StopByLock(p)
  <2>1. CASE proc' = [proc EXCEPT ![p] = Then(p, AfterStop(p))]
    <3>1. Then(p, AfterStop(p)).pc \notin Owning
      BY ThenLeaves, AfterStopIsKnown DEF OwnerInv, Owning
    <3>2. QED
      BY <2>1, <3>1, OneLeaves DEF OwnerInv
  <2>2. CASE Clear(p, AfterStop(p))
    BY <2>2, AfterStopIsKnown, ClearLeaves DEF OwnerInv
  <2>3. CASE proc' = [proc EXCEPT ![p].pc = "awaitTerm", ![p].found = lock.pid,
                                  ![lock.pid].asked = TRUE]
    BY <1>2, <2>3 DEF Daemons, Processes, Owning
  <2>4. QED
    BY <1>3, <2>1, <2>2, <2>3 DEF StopByLock
<1>4. CASE StopByState(p)
  BY <1>2, <1>4 DEF StopByState, Daemons, Processes, Owning
<1>5. CASE Post(p)
  <2>1. CASE proc' = [proc EXCEPT ![p].pc = "awaitHttp", ![state.pid].asked = TRUE]
    BY <1>2, <2>1 DEF Daemons, Processes, Owning
  <2>2. CASE Go(p, "awaitHttp")
    BY <2>2, GoLeaves DEF OwnerInv, Owning
  <2>3. QED
    BY <1>5, <2>1, <2>2 DEF Post
<1>6. CASE AwaitDeath(p)
  <2>1. PICK t : /\ t.pc \notin Owning
                 /\ proc' = [proc EXCEPT ![proc[p].found] = Idle("dead"), ![p] = t]
    <3>1. Then(p, AfterStop(p)).pc \notin Owning
      BY ThenLeaves, AfterStopIsKnown DEF OwnerInv, Owning
    <3>2. Then(p, "clearState") \in Processes /\ Then(p, "clearState").pc = "clearState"
      BY ThenIsTyped, ThenLeaves DEF OwnerInv, Typed, Pc, Waiting
    <3>3. [Then(p, "clearState") EXCEPT !.resume = AfterStop(p)].pc \notin Owning
      BY <3>2 DEF Processes, Owning
    <3>4. QED
      BY <1>6, <3>1, <3>3 DEF AwaitDeath
  <2>2. Idle("dead").pc \notin Owning
    BY DEF Idle, Owning
  <2>3. QED
    BY <1>2, <2>1, <2>2 DEF Daemons
<1>7. QED
  BY <1>3, <1>4, <1>5, <1>6 DEF Stop

\* and clearing its files.
LEMMA ClearFilesKeepsOwners ==
    ASSUME OwnerInv, NEW p \in Process, ClearFiles(p)
    PROVE  OwnersHoldTheLock'
<1>1. CASE ClearState(p) \/ UnlinkState(p)
  <2>1. Daemons' \subseteq Daemons
    BY <1>1, GoLeaves, ResumeLeaves DEF ClearState, UnlinkState, OwnerInv, Owning
  <2>2. QED
    BY <1>1, <2>1, LockStays DEF ClearState, UnlinkState, fileVars, OwnerInv
<1>2. CASE ClearLock(p)
  BY <1>2, ResumeLeaves, RemovalIsNoticed DEF ClearLock, OwnerInv
<1>3. CASE Release(p)
  BY <1>3, ExitLeaves, RemovalIsNoticed DEF Release, OwnerInv
<1>4. QED
  BY <1>1, <1>2, <1>3 DEF ClearFiles

\* Another attempt makes nobody an owner.
LEMMA RetryLeaves ==
    ASSUME FilesTypeOK, NEW p \in Process, Retry(p)
    PROVE  Daemons' \subseteq Daemons /\ p \notin Daemons'
<1>1. CASE proc[p].attempt = MaxAttempts
  BY <1>1, ExitLeaves DEF Retry
<1>2. CASE proc[p].attempt # MaxAttempts
  <2>1. proc \in [Process -> Processes]
    BY DEF FilesTypeOK
  <2>2. QED
    BY <1>2, <2>1 DEF Retry, Daemons, Processes, Owning
<1>3. QED
  BY <1>1, <1>2

\* Who takes the lock is its owner.
LEMMA AcquireKeepsOwners ==
    ASSUME OwnerInv, NEW p \in Process, Acquire(p)
    PROVE  OwnersHoldTheLock'
<1>1. CASE Open(p) /\ lock = NoLock /\ Own(p)
  BY <1>1, CreationIsExclusive DEF Open, OwnerInv
<1>2. CASE (Open(p) /\ Go(p, "inspect") /\ UNCHANGED lock) \/ Inspect(p)
  <2>1. Daemons' \subseteq Daemons
    BY <1>2, GoLeaves, RetryLeaves DEF Inspect, OwnerInv, Owning
  <2>2. QED
    BY <1>2, <2>1, LockStays DEF Open, Inspect, fileVars, OwnerInv
<1>3. CASE Unlink(p)
  BY <1>3, RetryLeaves, RemovalIsNoticed DEF Unlink, OwnerInv
<1>4. CASE WritePid(p)
  <2>1. Daemons' \subseteq Daemons
    BY <1>4, GoLeaves DEF WritePid, At, Daemons, Owning, OwnerInv
  <2>2. lock'.by = lock.by
    BY <1>4 DEF WritePid, OwnerInv, FilesTypeOK
  <2>3. QED
    BY <1>4, <2>1, <2>2, LockStays DEF WritePid, OwnerInv
<1>5. QED
  BY <1>1, <1>2, <1>3, <1>4 DEF Acquire, Open

\* Who serves stays its owner, until it lets go of it.
LEMMA ServeKeepsOwners ==
    ASSUME OwnerInv, NEW p \in Process,
           Serve(p) \/ Heartbeat(p) \/ CleanUp(p) \/ ForcedExit(p) \/ Crash(p)
    PROVE  OwnersHoldTheLock'
<1>1. lock' = lock /\ robbed' = robbed
  BY DEF Serve, Heartbeat, BeatRead, BeatWrite, ExitOutdated, CleanUp, ForcedExit, Crash, fileVars
<1>2. Daemons' \subseteq Daemons
  <2>1. CASE Serve(p)
    BY <2>1 DEF Serve, At, OwnerInv, FilesTypeOK, Processes, Daemons, Owning
  <2>2. CASE BeatRead(p)
    BY <2>2 DEF BeatRead, OwnerInv, FilesTypeOK, Processes, Daemons
  <2>3. CASE BeatWrite(p)
    BY <2>3 DEF BeatWrite, OwnerInv, FilesTypeOK, Processes, Daemons
  <2>4. CASE ExitOutdated(p) \/ ForcedExit(p) \/ Crash(p)
    BY <2>4, ExitLeaves DEF ExitOutdated, ForcedExit, Crash, OwnerInv
  <2>5. CASE CleanUp(p)
    BY <2>5, ClearLeaves DEF CleanUp, OwnerInv
  <2>6. QED
    BY <2>1, <2>2, <2>3, <2>4, <2>5 DEF Heartbeat
<1>3. QED
  BY <1>1, <1>2, LockStays DEF OwnerInv

\* A minute that passes changes no owner.
LEMMA MinuteKeepsOwners ==
    ASSUME OwnerInv, Minute
    PROVE  OwnersHoldTheLock'
<1>1. proc \in [Process -> Processes]
  BY DEF OwnerInv, FilesTypeOK
<1>2. Daemons' \subseteq Daemons
  BY <1>1 DEF Minute, Daemons, Processes
<1>3. QED
  BY <1>2, LockStays DEF Minute, fileVars, OwnerInv

\* Every step keeps the owner of the lock.
LEMMA NextKeepsOwners ==
    ASSUME OwnerInv, [FilesNext]_daemonFilesVars
    PROVE  OwnersHoldTheLock'
<1>1. CASE UNCHANGED daemonFilesVars
  BY <1>1 DEF daemonFilesVars, fileVars, OwnerInv, OwnersHoldTheLock, Daemons
<1>2. CASE Upgrade
  BY <1>2 DEF Upgrade, fileVars, OwnerInv, OwnersHoldTheLock, Daemons
<1>3. CASE \E p \in Process : \/ Start(p) \/ Run(p) \/ Heartbeat(p)
                               \/ CleanUp(p) \/ ForcedExit(p) \/ Crash(p)
  BY <1>3, CheckKeepsOwners, StopKeepsOwners, ClearFilesKeepsOwners, AcquireKeepsOwners,
     ServeKeepsOwners DEF Run
<1>4. QED
  BY <1>1, <1>2, <1>3, MinuteKeepsOwners DEF FilesNext

\* While nobody has taken a living process's lock away, at most one process has a daemon's
\* rights, and it is the one that made the lock file.
THEOREM OneDaemonUnlessRobbed == FilesSpec => []OneUnlessRobbed
<1>1. FilesInit => OwnerInv
  BY InitFilesTypeOK, InitOwners DEF OwnerInv
<1>2. OwnerInv /\ [FilesNext]_daemonFilesVars => OwnerInv'
  BY NextFilesTypeOK, NextKeepsOwners DEF OwnerInv
<1>3. OwnerInv => OneUnlessRobbed
  BY DEF OwnerInv, OwnersHoldTheLock, OneUnlessRobbed
<1>4. QED
  BY <1>1, <1>2, <1>3, PTL DEF FilesSpec

---------------------------------------------------------------------------
(* DaemonSessions, for any number of processes, requests and daemons: a    *)
(* caller that waits for a child of the daemon is the one whom its         *)
(* webhook will find, and it has not come yet.                             *)

\* What does not run yet has not reported.
NotYet == \A p \in SessionProcess : life[p] = "none" => report[p] = "none"

\* What runs for a request that waits for tmux is nobody's child.
TmuxChildren ==
    \A r \in Request :
        /\ pc[r] = "new" => child[r] = NoSessionProcess
        /\ pc[r] = "tmux" /\ child[r] # NoSessionProcess =>
              via[child[r]] = "tmux" /\ life[child[r]] # "none"

\* While the caller can still be answered, the entry that the webhook will find for its
\* process is the daemon's own, and without an id.
Found(r, p) ==
    via[p] = "daemon" /\ life[p] = "running" /\ ~told[p] =>
        pidToTrackedSession[p] = "spawned" /\ pidToAwaiter[p] = r /\ report[p] # "arrived"

WaitersAreFound ==
    \A r \in Request : pc[r] = "waiting" =>
        child[r] \in SessionProcess /\ life[child[r]] # "none" /\ Found(r, child[r])

SessionInv == SessionsTypeOK /\ NotYet /\ TmuxChildren /\ WaitersAreFound

---------------------------------------------------------------------------
(* The types.                                                              *)

\* The types hold at the start.
LEMMA InitSessionsTypeOK == SessionsInit => SessionsTypeOK
BY DaemonSessionsAssumption DEF SessionsInit, SessionsTypeOK

\* A launch keeps the types,
LEMMA LaunchTypeOK ==
    ASSUME SessionsTypeOK, NEW r \in Request, Launch(r)
    PROVE  SessionsTypeOK'
<1> USE DaemonSessionsAssumption DEF SessionsTypeOK
<1>1. CASE Refuse(r)
  BY <1>1 DEF Refuse, sessionVars, processVars
<1>2. CASE Spawn(r)
  BY <1>2 DEF Spawn, RunSession, Await
<1>3. CASE AskTmux(r)
  BY <1>3 DEF AskTmux, sessionVars, processVars
<1>4. CASE TmuxRuns(r)
  BY <1>4 DEF TmuxRuns, RunSession, sessionVars
<1>5. CASE TmuxReturns(r)
  BY <1>5 DEF TmuxReturns, Await, processVars
<1>6. CASE TmuxFails(r)
  BY <1>6 DEF TmuxFails, sessionVars, processVars
<1>7. QED
  BY <1>1, <1>2, <1>3, <1>4, <1>5, <1>6 DEF Launch

\* so does a webhook,
LEMMA WebhookTypeOK ==
    ASSUME SessionsTypeOK, NEW p \in SessionProcess, Webhook(p)
    PROVE  SessionsTypeOK'
<1> USE DaemonSessionsAssumption DEF SessionsTypeOK
<1>1. CASE Resolve(p) /\ pidToTrackedSession' = [pidToTrackedSession EXCEPT ![p] = "named"]
  BY <1>1 DEF Webhook, Resolve
<1>2. CASE UNCHANGED <<pc, pidToAwaiter>>
  BY <1>2 DEF Webhook, sessionVars
<1>3. QED
  BY <1>1, <1>2 DEF Webhook, sessionVars

\* what a process does,
LEMMA ProcessTypeOK ==
    ASSUME SessionsTypeOK, NEW p \in SessionProcess,
           UserStarts(p) \/ Report(p) \/ Die(p) \/ StopSession(p) \/ ChildExited(p)
    PROVE  SessionsTypeOK'
<1> USE DEF SessionsTypeOK, daemonVars, sessionVars
<1>1. CASE UserStarts(p)
  BY <1>1 DEF UserStarts, RunSession
<1>2. CASE Report(p)
  BY <1>2 DEF Report
<1>3. CASE Die(p)
  BY <1>3 DEF Die
<1>4. CASE StopSession(p)
  BY <1>4 DEF StopSession, Untrack
<1>5. CASE ChildExited(p)
  BY <1>5 DEF ChildExited, Untrack
<1>6. QED
  BY <1>1, <1>2, <1>3, <1>4, <1>5

\* and the replacement of the daemon.
LEMMA ReplaceTypeOK ==
    ASSUME SessionsTypeOK, Replace
    PROVE  SessionsTypeOK'
<1> USE DaemonSessionsAssumption DEF SessionsTypeOK, Replace
<1>1. daemons' \in 1..MaxDaemons
  OBVIOUS
<1>2. pc' \in [Request -> {"new", "tmux", "fallback", "waiting", "success", "error"}]
  OBVIOUS
<1>3. /\ life' \in [SessionProcess -> {"none", "running", "dead", "gone"}]
      /\ via' \in [SessionProcess -> {"daemon", "tmux", "other"}]
  OBVIOUS
<1>4. report' \in [SessionProcess -> {"none", "sent", "arrived", "lost"}]
  OBVIOUS
<1>5. QED
  BY <1>1, <1>2, <1>3, <1>4

\* Every step keeps the types.
LEMMA NextSessionsTypeOK ==
    ASSUME SessionsTypeOK, [SessionsNext]_daemonSessionsVars
    PROVE  SessionsTypeOK'
<1>1. ASSUME NEW r \in Request, Timeout(r)
      PROVE  SessionsTypeOK'
  <2> USE DaemonSessionsAssumption DEF Timeout, SessionsTypeOK, processVars
  <2>1. pidToAwaiter' \in [SessionProcess -> Request \union {NoRequest}]
    BY <1>1
  <2>2. pc' \in [Request -> {"new", "tmux", "fallback", "waiting", "success", "error"}]
    BY <1>1
  <2>3. ASSUME NEW p \in SessionProcess, pidToAwaiter'[p] # NoRequest
        PROVE  pc'[pidToAwaiter'[p]] = "waiting" /\ child'[pidToAwaiter'[p]] = p
    <3>1. p # child[r] /\ pidToAwaiter'[p] = pidToAwaiter[p]
      BY <1>1, <2>3
    <3>2. pidToAwaiter[p] \in Request \ {r}
      BY <2>3, <3>1
    <3>3. QED
      BY <1>1, <3>1, <3>2
  <2>4. QED
    BY <1>1, <2>1, <2>2, <2>3
<1>2. CASE SessionsHeartbeat
  BY <1>2 DEF SessionsHeartbeat, SessionsTypeOK, processVars
<1>3. CASE UNCHANGED daemonSessionsVars
  BY <1>3 DEF daemonSessionsVars, daemonVars, sessionVars, processVars, SessionsTypeOK
<1>4. QED
  BY <1>1, <1>2, <1>3, LaunchTypeOK, WebhookTypeOK, ProcessTypeOK, ReplaceTypeOK DEF SessionsNext

\* The daemon's maps and its callers keep their types, and an awaiter always belongs to a
\* request that still waits, for that very process.
THEOREM SessionsTypeCorrect == SessionsSpec => []SessionsTypeOK
<1>1. SessionsTypeOK /\ [SessionsNext]_daemonSessionsVars => SessionsTypeOK'
  BY NextSessionsTypeOK
<1>2. QED
  BY InitSessionsTypeOK, <1>1, PTL DEF SessionsSpec

---------------------------------------------------------------------------
(* Nobody waits in vain.                                                   *)

\* A launch whose caller waits will be found by its webhook.
LEMMA LaunchKeepsWaiters ==
    ASSUME SessionInv, NEW r \in Request, Launch(r)
    PROVE  (NotYet /\ TmuxChildren /\ WaitersAreFound)'
<1> USE DaemonSessionsAssumption
        DEF SessionInv, SessionsTypeOK, NotYet, TmuxChildren, WaitersAreFound, Found
<1>1. CASE Refuse(r)
  BY <1>1 DEF Refuse, sessionVars, processVars
<1>2. CASE Spawn(r)
  <2>1. PICK p \in SessionProcess : RunSession(p, "daemon") /\ child' = [child EXCEPT ![r] = p] /\ Await(r, p)
    BY <1>2 DEF Spawn
  <2>2. NotYet'
    BY <2>1 DEF RunSession
  <2>3. TmuxChildren'
    BY <2>1 DEF RunSession, Await
  <2>4. WaitersAreFound'
    BY <2>1 DEF RunSession, Await
  <2>5. QED
    BY <2>2, <2>3, <2>4
<1>3. CASE AskTmux(r)
  <2>1. child[r] = NoSessionProcess
    BY <1>3 DEF AskTmux
  <2>2. QED
    BY <1>3, <2>1 DEF AskTmux, sessionVars, processVars
<1>4. CASE TmuxRuns(r)
  <2>1. PICK p \in SessionProcess : RunSession(p, "tmux") /\ child' = [child EXCEPT ![r] = p]
    BY <1>4 DEF TmuxRuns
  <2>2. NotYet'
    BY <2>1 DEF RunSession
  <2>3. TmuxChildren'
    BY <1>4, <2>1 DEF TmuxRuns, RunSession
  <2>4. WaitersAreFound'
    BY <1>4, <2>1 DEF TmuxRuns, RunSession, sessionVars
  <2>5. QED
    BY <2>2, <2>3, <2>4
<1>5. CASE TmuxReturns(r)
  BY <1>5 DEF TmuxReturns, Await, processVars
<1>6. CASE TmuxFails(r)
  BY <1>6 DEF TmuxFails, sessionVars, processVars
<1>7. QED
  BY <1>1, <1>2, <1>3, <1>4, <1>5, <1>6 DEF Launch

\* A webhook answers whoever waits for its process.
LEMMA WebhookKeepsWaiters ==
    ASSUME SessionInv, NEW p \in SessionProcess, Webhook(p)
    PROVE  (NotYet /\ TmuxChildren /\ WaitersAreFound)'
<1> USE DaemonSessionsAssumption
        DEF SessionInv, SessionsTypeOK, NotYet, TmuxChildren, WaitersAreFound, Found
<1>1. CASE /\ pidToTrackedSession[p] \in {"spawned", "named"}
           /\ pidToTrackedSession' = [pidToTrackedSession EXCEPT ![p] = "named"]
           /\ Resolve(p)
  BY <1>1 DEF Webhook, Resolve
<1>2. CASE pidToTrackedSession[p] \in {"none", "user"}
  BY <1>2 DEF Webhook, sessionVars
<1>3. QED
  BY <1>1, <1>2 DEF Webhook, sessionVars

\* A process that ends or is stopped leaves no caller waiting unanswered.
LEMMA ProcessKeepsWaiters ==
    ASSUME SessionInv, NEW p \in SessionProcess,
           UserStarts(p) \/ Report(p) \/ Die(p) \/ StopSession(p) \/ ChildExited(p)
    PROVE  (NotYet /\ TmuxChildren /\ WaitersAreFound)'
<1> USE DEF SessionInv, SessionsTypeOK, NotYet, TmuxChildren, WaitersAreFound, Found,
            daemonVars, sessionVars
<1>1. CASE UserStarts(p)
  BY <1>1 DEF UserStarts, RunSession
<1>2. CASE Report(p)
  BY <1>2 DEF Report
<1>3. CASE Die(p)
  BY <1>3 DEF Die
<1>4. CASE StopSession(p)
  BY <1>4 DEF StopSession, Untrack
<1>5. CASE ChildExited(p)
  BY <1>5 DEF ChildExited, Untrack
<1>6. QED
  BY <1>1, <1>2, <1>3, <1>4, <1>5

\* Every step keeps the callers that wait answerable.
LEMMA NextKeepsWaiters ==
    ASSUME SessionInv, [SessionsNext]_daemonSessionsVars
    PROVE  (NotYet /\ TmuxChildren /\ WaitersAreFound)'
<1> USE DEF SessionInv, SessionsTypeOK, NotYet, TmuxChildren, WaitersAreFound, Found
<1>1. ASSUME NEW r \in Request, Timeout(r)
      PROVE  (NotYet /\ TmuxChildren /\ WaitersAreFound)'
  BY <1>1 DEF Timeout, processVars
<1>2. CASE SessionsHeartbeat
  BY <1>2 DEF SessionsHeartbeat, processVars
<1>3. CASE Replace
  BY <1>3 DEF Replace
<1>4. CASE UNCHANGED daemonSessionsVars
  BY <1>4 DEF daemonSessionsVars, daemonVars, sessionVars, processVars
<1>5. QED
  BY <1>1, <1>2, <1>3, <1>4, LaunchKeepsWaiters, WebhookKeepsWaiters, ProcessKeepsWaiters DEF SessionsNext

\* Webhook, timeout, exit, stop, heartbeat and a new daemon, in any order: no caller waits
\* for a webhook that has come, of a child that runs and was not stopped.
THEOREM WaitersAreAnswered == SessionsSpec => []NobodyWaitsInVain
<1>1. SessionsInit => SessionInv
  <2>1. SessionsInit => NotYet /\ TmuxChildren /\ WaitersAreFound
    BY DEF SessionsInit, NotYet, TmuxChildren, WaitersAreFound
  <2>2. QED
    BY <2>1, InitSessionsTypeOK DEF SessionInv
<1>2. SessionInv /\ [SessionsNext]_daemonSessionsVars => SessionInv'
  BY NextSessionsTypeOK, NextKeepsWaiters DEF SessionInv
<1>3. SessionInv => NobodyWaitsInVain
  BY DEF SessionInv, WaitersAreFound, Found, NobodyWaitsInVain
<1>4. QED
  BY <1>1, <1>2, <1>3, PTL DEF SessionsSpec

---------------------------------------------------------------------------
(* What has reported is tracked. A request that vouches for a process in   *)
(* tmux waits, or was told of an error: neither is left again, but by the  *)
(* webhook of that very process, which gives the entry its id.             *)

\* A launch tracks the process that it has started.
LEMMA LaunchKeepsTracked ==
    ASSUME SessionInv, ReportedIsTracked, NEW r \in Request, Launch(r)
    PROVE  ReportedIsTracked'
<1> USE DaemonSessionsAssumption
        DEF SessionInv, SessionsTypeOK, NotYet, TmuxChildren, ReportedIsTracked
<1>1. CASE Refuse(r)
  BY <1>1 DEF Refuse, sessionVars, processVars
<1>2. CASE Spawn(r)
  <2>1. PICK p \in SessionProcess : RunSession(p, "daemon") /\ child' = [child EXCEPT ![r] = p] /\ Await(r, p)
    BY <1>2 DEF Spawn
  <2>2. QED
    BY <1>2, <2>1 DEF Spawn, RunSession, Await
<1>3. CASE AskTmux(r)
  BY <1>3 DEF AskTmux, sessionVars, processVars
<1>4. CASE TmuxRuns(r)
  <2>1. PICK p \in SessionProcess : RunSession(p, "tmux") /\ child' = [child EXCEPT ![r] = p]
    BY <1>4 DEF TmuxRuns
  <2>2. QED
    BY <1>4, <2>1 DEF TmuxRuns, RunSession, sessionVars
<1>5. CASE TmuxReturns(r)
  BY <1>5 DEF TmuxReturns, Await, processVars
<1>6. CASE TmuxFails(r)
  BY <1>6 DEF TmuxFails, sessionVars, processVars
<1>7. QED
  BY <1>1, <1>2, <1>3, <1>4, <1>5, <1>6 DEF Launch

\* A webhook tracks the process that reports, by its id.
LEMMA WebhookKeepsTracked ==
    ASSUME SessionInv, ReportedIsTracked, NEW p \in SessionProcess, Webhook(p)
    PROVE  ReportedIsTracked'
<1> USE DaemonSessionsAssumption DEF SessionInv, SessionsTypeOK, ReportedIsTracked
<1>1. CASE /\ pidToTrackedSession' = [pidToTrackedSession EXCEPT ![p] = "named"]
           /\ Resolve(p)
  <2>1. ASSUME NEW q \in SessionProcess \ {p}, NEW r \in Request, child[r] = q
        PROVE  pc'[r] = pc[r]
    BY <1>1, <2>1 DEF Resolve
  <2>2. QED
    BY <1>1, <2>1 DEF Webhook
<1>2. CASE /\ pidToTrackedSession[p] = "none"
           /\ pidToTrackedSession' = [pidToTrackedSession EXCEPT ![p] = "user"]
           /\ UNCHANGED <<pc, pidToAwaiter>>
  BY <1>2 DEF Webhook
<1>3. CASE pidToTrackedSession[p] = "user" /\ UNCHANGED <<sessionVars, pc>>
  BY <1>3 DEF Webhook, sessionVars
<1>4. QED
  BY <1>1, <1>2, <1>3 DEF Webhook

\* A process that ends, reports or is stopped: what is tracked goes only when it is gone.
LEMMA ProcessKeepsTracked ==
    ASSUME SessionInv, ReportedIsTracked, NEW p \in SessionProcess,
           UserStarts(p) \/ Report(p) \/ Die(p) \/ StopSession(p) \/ ChildExited(p)
    PROVE  ReportedIsTracked'
<1> USE DEF SessionInv, SessionsTypeOK, NotYet, ReportedIsTracked, daemonVars, sessionVars
<1>1. CASE UserStarts(p)
  BY <1>1 DEF UserStarts, RunSession
<1>2. CASE Report(p)
  BY <1>2 DEF Report
<1>3. CASE Die(p)
  BY <1>3 DEF Die
<1>4. CASE StopSession(p)
  BY <1>4 DEF StopSession, Untrack
<1>5. CASE ChildExited(p)
  BY <1>5 DEF ChildExited, Untrack
<1>6. QED
  BY <1>1, <1>2, <1>3, <1>4, <1>5

\* Whatever comes first - the webhook, the return of tmux, the timeout, a heartbeat or a new
\* daemon: a session that runs, has reported to this daemon and was not stopped is tracked,
\* by its id unless it has reported before tmux returned.
THEOREM ReportedStaysTracked == SessionsSpec => []ReportedIsTracked
<1>1. SessionsInit => SessionInv /\ ReportedIsTracked
  <2>1. SessionsInit => NotYet /\ TmuxChildren /\ WaitersAreFound /\ ReportedIsTracked
    BY DEF SessionsInit, NotYet, TmuxChildren, WaitersAreFound, ReportedIsTracked
  <2>2. QED
    BY <2>1, InitSessionsTypeOK DEF SessionInv
<1>2. ASSUME SessionInv, ReportedIsTracked, [SessionsNext]_daemonSessionsVars
      PROVE  SessionInv' /\ ReportedIsTracked'
  <2> USE <1>2 DEF SessionInv, SessionsTypeOK, ReportedIsTracked
  <2>1. ASSUME NEW r \in Request, Timeout(r)
        PROVE  ReportedIsTracked'
    BY <2>1 DEF Timeout, processVars
  <2>2. ASSUME SessionsHeartbeat PROVE ReportedIsTracked'
    BY <2>2 DEF SessionsHeartbeat, processVars
  <2>3. ASSUME Replace PROVE ReportedIsTracked'
    BY <2>3 DEF Replace
  <2>4. ASSUME UNCHANGED daemonSessionsVars PROVE ReportedIsTracked'
    BY <2>4 DEF daemonSessionsVars, daemonVars, sessionVars, processVars
  <2>5. ReportedIsTracked'
    BY <2>1, <2>2, <2>3, <2>4, LaunchKeepsTracked, WebhookKeepsTracked, ProcessKeepsTracked
       DEF SessionsNext
  <2>6. QED
    BY <2>5, NextSessionsTypeOK, NextKeepsWaiters DEF SessionInv
<1>3. QED
  BY <1>1, <1>2, PTL DEF SessionsSpec

---------------------------------------------------------------------------
(* Login. As long as no lock was robbed, who is inside updateSettings      *)
(* holds the lock, so that there is one at most; what it has read is then  *)
(* still in the settings, and what it is about to rename contains them and *)
(* its own update - them but for what some reading left out.               *)

Purpose == {"clear", "machine", "newMachine", "profile"}
Place == Inside \union {"begin", "setup", "request", "polling", "confirm", "open",
                        "waiting", "unlink", "done", "failed", "dead"}

\* LoginTypeOK in two parts.
ProcessTypes ==
    /\ command \in [Cli -> {"start", "login", "force", "logout", "profile"}]
    /\ at \in [Cli -> Place]
    /\ purpose \in [Cli -> Purpose]
    /\ current \in [Cli -> Settings]

FileTypes ==
    /\ credentialsFile \in Cli \union {NoOne, Earlier} /\ lockFile \in Cli \union {NoOne, Earlier}
    /\ settingsFile \in Settings
    /\ tmpFile = NoOne \/ tmpFile \in Settings
    /\ lockIsOld \in BOOLEAN /\ homeDir \in BOOLEAN /\ lockRobbed \in BOOLEAN
    /\ landed \subseteq Cli \X Purpose /\ unread \subseteq Cli \X Purpose

\* Who is inside holds the lock, so that there is one at most.
HoldsLock == \A p \in Cli : at[p] \in Inside => lockFile = p

\* What it goes by is current, and what it is about to rename contains that and its own
\* update.
NothingStale ==
    \A p \in Cli :
        /\ at[p] = "write" => settingsFile.updates \ unread \subseteq current[p].updates
        /\ at[p] = "rename" => (settingsFile.updates \ unread) \union {<<p, purpose[p]>>} \subseteq tmpFile.updates

LockInv == ~lockRobbed => HoldsLock /\ NothingStale /\ landed \ unread \subseteq settingsFile.updates

LoginTypesOK == ProcessTypes /\ FileTypes /\ attempts \in [Cli -> 0..MaxLockAttempts]

---------------------------------------------------------------------------

\* At the start nobody holds the lock.
LEMMA LoginInitInv == LoginInit => LoginTypesOK /\ LockInv
<1> SUFFICES ASSUME LoginInit PROVE LoginTypesOK /\ LockInv
  OBVIOUS
<1>1. DefaultSettings \in Settings /\ [DefaultSettings EXCEPT !.machineId = Earlier] \in Settings
  BY DEF DefaultSettings, Settings
<1>2. ProcessTypes /\ FileTypes
  BY <1>1 DEF LoginInit, ProcessTypes, FileTypes, Place, Purpose
<1>3. attempts \in [Cli -> 0..MaxLockAttempts]
  BY LoginAssumption DEF LoginInit
<1>4. \A p \in Cli : at[p] \notin Inside
  BY DEF LoginInit, Inside
<1>5. LockInv
  BY <1>4 DEF LoginInit, LockInv, HoldsLock, NothingStale, Inside
<1>6. QED
  BY <1>2, <1>3, <1>5 DEF LoginTypesOK

\* What an updater makes of the settings it has read is settings.
LEMMA UpdatedType == ASSUME ProcessTypes, NEW p \in Cli PROVE Updated(p) \in Settings
<1>1. /\ current[p] \in Settings /\ purpose[p] \in Purpose
      /\ current[p].machineId \in Cli \union {NoOne, Earlier}
      /\ current[p].updates \subseteq Cli \X Purpose
  BY DEF ProcessTypes, Settings, Purpose
<1>2. current[p].updates \union {<<p, purpose[p]>>} \subseteq Cli \X Purpose
  BY <1>1
<1>3. QED
  BY <1>1, <1>2 DEF Updated, Settings, Purpose

\* What readSettings returns is settings.
LEMMA ReadingsType == ASSUME FileTypes PROVE Readings \subseteq Settings
<1>1. ASSUME NEW invalid PROVE [settingsFile EXCEPT !.updates = @ \ invalid] \in Settings
  BY DEF FileTypes, Settings
<1>2. DefaultSettings \in Settings
  BY DEF DefaultSettings, Settings
<1>3. QED
  BY <1>1, <1>2 DEF Readings

\* Attempts at the lock stay counted.
LEMMA AttemptsKept ==
    ASSUME LoginTypesOK, [LoginNext]_loginVars
    PROVE  attempts' \in [Cli -> 0..MaxLockAttempts]
<1>1. 0 \in 0..MaxLockAttempts /\ attempts \in [Cli -> 0..MaxLockAttempts]
  BY LoginAssumption DEF LoginTypesOK
<1>2. ASSUME NEW p \in Cli, FindsLock(p) PROVE attempts' \in [Cli -> 0..MaxLockAttempts]
  BY <1>2, <1>1, LoginAssumption DEF FindsLock, CountsAttempt
<1>3. ASSUME NEW p \in Cli, NEW what, CallsUpdate(p, what) PROVE attempts' \in [Cli -> 0..MaxLockAttempts]
  BY <1>3, <1>1 DEF CallsUpdate
<1>4. QED
  BY <1>1, <1>2, <1>3
     DEF LoginNext, UpdatesSettings, LoginChecks, ForceBegins, ProfileBegins, LogoutBegins, LogsOut,
         StaysLoggedIn, ReadsCredentials, RequestsAuth, IsAuthorized, IsNotAuthorized, OpensLock,
         GivesLockUp, LooksAtLock, UnlinksStaleLock, ReadsSettings, WritesTmpFile, Renames, Releases,
         Dies, LockAges, updateVars, loginVars

\* Outside updateSettings, nothing that the lock protects is touched.
Outside(p) ==
    \/ LoginChecks(p) \/ ForceBegins(p) \/ ProfileBegins(p) \/ LogoutBegins(p) \/ StaysLoggedIn(p)
    \/ ReadsCredentials(p) \/ RequestsAuth(p) \/ IsAuthorized(p) \/ IsNotAuthorized(p)
    \/ FindsLock(p) \/ GivesLockUp(p) \/ LooksAtLock(p)

\* A step outside the lock leaves the files alone and leads to another step outside.
LEMMA OutsideMoves ==
    ASSUME LoginTypesOK, NEW p \in Cli, Outside(p)
    PROVE  /\ \E to \in Place \ Inside : at' = [at EXCEPT ![p] = to]
           /\ at[p] \notin Inside
           /\ purpose' = purpose \/ \E what \in Purpose : purpose' = [purpose EXCEPT ![p] = what]
           /\ credentialsFile' \in {credentialsFile, NoOne, p}
           /\ homeDir' \in {homeDir, TRUE}
           /\ UNCHANGED <<command, current, settingsFile, tmpFile, lockVars, landed, unread>>
<1> USE DEF Place, Inside, Goes, Purpose, CallsUpdate, updateVars, homeVars
<1>1. CASE LoginChecks(p)
  BY <1>1 DEF LoginChecks
<1>2. CASE ForceBegins(p)
  BY <1>2 DEF ForceBegins
<1>3. CASE ProfileBegins(p)
  BY <1>3 DEF ProfileBegins
<1>4. CASE LogoutBegins(p)
  BY <1>4 DEF LogoutBegins
<1>5. CASE StaysLoggedIn(p)
  BY <1>5 DEF StaysLoggedIn
<1>6. CASE ReadsCredentials(p)
  BY <1>6 DEF ReadsCredentials
<1>7. CASE RequestsAuth(p)
  BY <1>7 DEF RequestsAuth
<1>8. CASE IsAuthorized(p)
  BY <1>8 DEF IsAuthorized
<1>9. CASE IsNotAuthorized(p)
  BY <1>9 DEF IsNotAuthorized
<1>10. CASE FindsLock(p)
  BY <1>10 DEF FindsLock
<1>11. CASE GivesLockUp(p)
  BY <1>11 DEF GivesLockUp
<1>12. CASE LooksAtLock(p)
  BY <1>12 DEF LooksAtLock
<1>13. QED
  BY <1>1, <1>2, <1>3, <1>4, <1>5, <1>6, <1>7, <1>8, <1>9, <1>10, <1>11, <1>12 DEF Outside

\* So it keeps the invariant.
LEMMA OutsideKeeps ==
    ASSUME LoginTypesOK, LockInv, NEW p \in Cli, Outside(p)
    PROVE  ProcessTypes' /\ FileTypes' /\ LockInv'
<1>1. PICK to \in Place \ Inside : at' = [at EXCEPT ![p] = to]
  BY OutsideMoves
<1>2. /\ at[p] \notin Inside
      /\ purpose' = purpose \/ \E what \in Purpose : purpose' = [purpose EXCEPT ![p] = what]
      /\ credentialsFile' \in {credentialsFile, NoOne, p}
      /\ homeDir' \in {homeDir, TRUE}
      /\ UNCHANGED <<command, current, settingsFile, tmpFile, lockVars, landed, unread>>
  BY OutsideMoves
<1>3. ProcessTypes'
  BY <1>1, <1>2 DEF LoginTypesOK, ProcessTypes
<1>4. FileTypes'
  BY <1>2 DEF LoginTypesOK, FileTypes, lockVars
<1>5. \A q \in Cli : at'[q] \in Inside => q # p /\ at'[q] = at[q] /\ purpose'[q] = purpose[q]
  BY <1>1, <1>2 DEF LoginTypesOK, ProcessTypes
<1>6. LockInv'
  BY <1>2, <1>5 DEF LockInv, HoldsLock, NothingStale, Inside, lockVars
<1>7. QED
  BY <1>3, <1>4, <1>6

\* Logging out removes the home directory: whoever is inside updateSettings loses its lock.
LEMMA LogsOutKeeps ==
    ASSUME LoginTypesOK, LockInv, NEW p \in Cli, LogsOut(p)
    PROVE  ProcessTypes' /\ FileTypes' /\ LockInv'
<1> USE DEF LogsOut, Goes
<1>1. ProcessTypes'
  BY DEF LoginTypesOK, ProcessTypes, Place, Inside, updateVars
<1>2. DefaultSettings \in Settings
  BY DEF DefaultSettings, Settings
<1>3. FileTypes'
  BY <1>2 DEF LoginTypesOK, FileTypes
<1>4. ~lockRobbed' => \A q \in Cli : at'[q] \notin Inside
  BY DEF LoginTypesOK, ProcessTypes, Inside
<1>5. LockInv'
  BY <1>4 DEF LockInv, HoldsLock, NothingStale, Inside
<1>6. QED
  BY <1>1, <1>3, <1>5

\* The lock is taken.
LEMMA OpensLockKeeps ==
    ASSUME LoginTypesOK, LockInv, NEW p \in Cli, OpensLock(p)
    PROVE  ProcessTypes' /\ FileTypes' /\ LockInv'
<1> USE DEF OpensLock, Goes, updateVars, homeVars
<1>1. ProcessTypes'
  BY DEF LoginTypesOK, ProcessTypes, Place, Inside
<1>2. FileTypes'
  BY DEF LoginTypesOK, FileTypes
<1>3. ~lockRobbed => \A q \in Cli : at[q] \notin Inside
  BY LoginAssumption DEF LockInv, HoldsLock
<1>4. LockInv'
  BY <1>3 DEF LockInv, HoldsLock, NothingStale, Inside, LoginTypesOK, ProcessTypes
<1>5. QED
  BY <1>1, <1>2, <1>4

\* The lock goes: if somebody else was inside, it has been robbed.
LEMMA UnlocksKeeps ==
    ASSUME LoginTypesOK, LockInv, NEW p \in Cli, UnlinksStaleLock(p) \/ Releases(p)
    PROVE  ProcessTypes' /\ FileTypes' /\ LockInv'
<1>1. /\ \E to \in Place \ Inside : at' = [at EXCEPT ![p] = to]
      /\ lockRobbed' = (lockRobbed \/ Robs(p)) /\ lockFile' = NoOne
      /\ UNCHANGED <<command, updateVars, homeVars, lockIsOld, landed, unread>>
  BY DEF UnlinksStaleLock, Releases, Goes, Place, Inside
<1>2. ProcessTypes'
  BY <1>1 DEF LoginTypesOK, ProcessTypes, updateVars
<1>3. FileTypes'
  BY <1>1 DEF LoginTypesOK, FileTypes, homeVars
<1>4. ~lockRobbed' => \A q \in Cli : at'[q] \notin Inside
  BY <1>1 DEF LockInv, HoldsLock, Robs, LoginTypesOK, ProcessTypes
<1>5. LockInv'
  BY <1>1, <1>4 DEF LockInv, HoldsLock, NothingStale, Inside, homeVars
<1>6. QED
  BY <1>2, <1>3, <1>5

\* Inside, one alone reads, writes and renames.
LEMMA InsideKeeps ==
    ASSUME LoginTypesOK, LockInv, NEW p \in Cli, ReadsSettings(p) \/ WritesTmpFile(p) \/ Renames(p) \/ Dies(p)
    PROVE  ProcessTypes' /\ FileTypes' /\ LockInv'
<1> USE DEF Goes, updateVars, homeVars, lockVars
<1>1. at[p] \in Inside /\ (~lockRobbed => \A q \in Cli \ {p} : at[q] \notin Inside)
  BY DEF ReadsSettings, WritesTmpFile, Renames, Dies, Inside, LockInv, HoldsLock
<1>2. /\ \E to \in Place : at' = [at EXCEPT ![p] = to]
      /\ UNCHANGED <<command, purpose, lockVars>>
  BY DEF ReadsSettings, WritesTmpFile, Renames, Dies, Place, Inside
<1>3. ~lockRobbed' => /\ lockFile' = p
                      /\ \A q \in Cli \ {p} : at'[q] = at[q] /\ at'[q] \notin Inside
  BY <1>1, <1>2 DEF LockInv, HoldsLock, LoginTypesOK, ProcessTypes
<1>4. CASE ReadsSettings(p)
  <2>1. PICK settings \in Settings : /\ current' = [current EXCEPT ![p] = settings]
                                    /\ unread' = unread \union (settingsFile.updates \ settings.updates)
    BY <1>4, ReadingsType DEF ReadsSettings, LoginTypesOK
  <2>2. ProcessTypes'
    BY <1>4, <1>2, <2>1 DEF LoginTypesOK, ProcessTypes
  <2>3. FileTypes'
    <3>1. settingsFile.updates \subseteq Cli \X Purpose
      BY DEF LoginTypesOK, FileTypes, Settings, Purpose
    <3>2. QED
      BY <1>4, <2>1, <3>1 DEF ReadsSettings, LoginTypesOK, FileTypes
  <2>4. at'[p] = "write" /\ current'[p] = settings /\ UNCHANGED <<settingsFile, landed, lockRobbed>>
    BY <1>4, <2>1 DEF ReadsSettings, LoginTypesOK, ProcessTypes
  <2>5. LockInv'
    BY <1>3, <2>1, <2>4 DEF LockInv, HoldsLock, NothingStale, Inside
  <2>6. QED
    BY <2>2, <2>3, <2>5
<1>5. CASE WritesTmpFile(p)
  <2>1. ProcessTypes' /\ FileTypes'
    BY <1>5, <1>2, UpdatedType DEF WritesTmpFile, LoginTypesOK, ProcessTypes, FileTypes
  <2>2. /\ at[p] = "write" /\ at'[p] = "rename" /\ tmpFile' = Updated(p)
        /\ UNCHANGED <<settingsFile, landed, unread, lockRobbed, purpose>>
    BY <1>5 DEF WritesTmpFile, LoginTypesOK, ProcessTypes
  <2>3. Updated(p).updates = current[p].updates \union {<<p, purpose[p]>>}
    BY DEF Updated
  <2>4. LockInv'
    BY <1>3, <2>2, <2>3 DEF LockInv, HoldsLock, NothingStale, Inside
  <2>5. QED
    BY <2>1, <2>4
<1>6. CASE Renames(p)
  <2>1. ProcessTypes'
    BY <1>6, <1>2 DEF Renames, LoginTypesOK, ProcessTypes
  <2>2. FileTypes'
    <3>1. <<p, purpose[p]>> \in Cli \X Purpose
      BY DEF LoginTypesOK, ProcessTypes
    <3>2. QED
      BY <1>6, <3>1 DEF Renames, LoginTypesOK, FileTypes
  <2>3. at[p] = "rename" /\ at'[p] \in {"release", "abandon"} /\ UNCHANGED <<lockRobbed, unread>>
    BY <1>6 DEF Renames, LoginTypesOK, ProcessTypes
  <2>4. ~lockRobbed => landed' \ unread' \subseteq settingsFile'.updates
    BY <1>6, <2>3 DEF Renames, LockInv, NothingStale
  <2>5. LockInv'
    BY <1>3, <2>3, <2>4 DEF LockInv, HoldsLock, NothingStale, Inside
  <2>6. QED
    BY <2>1, <2>2, <2>5
<1>7. CASE Dies(p)
  <2>1. ProcessTypes' /\ FileTypes'
    BY <1>7, <1>2 DEF Dies, LoginTypesOK, ProcessTypes, FileTypes
  <2>2. at'[p] = "dead" /\ UNCHANGED <<settingsFile, landed, unread, lockRobbed>>
    BY <1>7 DEF Dies, LoginTypesOK, ProcessTypes
  <2>3. LockInv'
    BY <1>3, <2>2 DEF LockInv, HoldsLock, NothingStale, Inside
  <2>4. QED
    BY <2>1, <2>3
<1>8. QED
  BY <1>4, <1>5, <1>6, <1>7

\* Every step keeps the types and the lock.
LEMMA LoginNextInv ==
    ASSUME LoginTypesOK, LockInv, [LoginNext]_loginVars
    PROVE  LoginTypesOK' /\ LockInv'
<1>1. CASE LockAges
  <2>1. UNCHANGED <<command, at, updateVars, homeVars, lockFile, lockRobbed, landed, unread>> /\ lockIsOld' = TRUE
    BY <1>1 DEF LockAges
  <2>2. ProcessTypes' /\ FileTypes' /\ LockInv'
    BY <2>1 DEF LoginTypesOK, ProcessTypes, FileTypes, LockInv, HoldsLock, NothingStale, updateVars, homeVars
  <2>3. QED
    BY <2>2, AttemptsKept DEF LoginTypesOK
<1>2. CASE UNCHANGED loginVars
  BY <1>2 DEF loginVars, LoginTypesOK, ProcessTypes, FileTypes, LockInv, HoldsLock, NothingStale,
              updateVars, homeVars, lockVars
<1>3. ASSUME NEW p \in Cli,
             \/ Outside(p) \/ LogsOut(p) \/ OpensLock(p) \/ UnlinksStaleLock(p) \/ Releases(p)
             \/ ReadsSettings(p) \/ WritesTmpFile(p) \/ Renames(p) \/ Dies(p)
      PROVE  ProcessTypes' /\ FileTypes' /\ LockInv'
  BY <1>3, OutsideKeeps, LogsOutKeeps, OpensLockKeeps, UnlocksKeeps, InsideKeeps
<1>4. ASSUME \E p \in Cli :
                \/ Outside(p) \/ LogsOut(p) \/ OpensLock(p) \/ UnlinksStaleLock(p) \/ Releases(p)
                \/ ReadsSettings(p) \/ WritesTmpFile(p) \/ Renames(p) \/ Dies(p)
      PROVE  LoginTypesOK' /\ LockInv'
  BY <1>3, <1>4, AttemptsKept DEF LoginTypesOK
<1>5. QED
  BY <1>1, <1>2, <1>4 DEF LoginNext, UpdatesSettings, Outside

\* The invariant of the settings and their lock.
LEMMA LoginInvariance == LoginSpec => [](LoginTypesOK /\ LockInv)
BY LoginInitInv, LoginNextInv, PTL DEF LoginSpec

\* The processes that update the settings keep their types (persistence.ts, ui/auth.ts).
THEOREM LoginTypeCorrect == LoginSpec => []LoginTypeOK
<1>1. LoginTypesOK => LoginTypeOK
  BY DEF LoginTypesOK, ProcessTypes, FileTypes, LoginTypeOK, Place, Purpose
<1>2. QED
  BY <1>1, LoginInvariance, PTL

\* However many processes update the settings at the same time, and whichever of them
\* takes the lock of another for a stale one or reads less than there is: what was written
\* is lost only by a process that was robbed of its lock, or because an updater's own
\* reading left it out (updateSettings, readSettings).
THEOREM UpdatesAccumulate == LoginSpec => []NoUpdateIsLost
<1>1. LockInv => NoUpdateIsLost
  BY DEF LockInv, NoUpdateIsLost
<1>2. QED
  BY <1>1, LoginInvariance, PTL

====
