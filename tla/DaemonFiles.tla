---- MODULE DaemonFiles ----
(***************************************************************************)
(* The two files by which the daemons of a machine know of each other: the *)
(* lock file and the state file (src/persistence.ts), and the processes    *)
(* that start and stop daemons by them (src/daemon/run.ts, src/daemon/     *)
(* controlClient.ts).                                                      *)
(*                                                                         *)
(* Processes share nothing but the files and signals, so a step is what    *)
(* happens between two accesses to a file. Each process is started once;   *)
(* its name is its pid, and pids are not used again. Waits that are        *)
(* timed in the code are given up at some time here.                       *)
(***************************************************************************)
EXTENDS Naturals, FiniteSets

CONSTANTS
    Process,    \* processes that run `happy daemon start-sync` or `stop`
    NoProcess,
    MaxAttempts, \* at the lock; the code makes five
    MaxVersion,  \* bound: versions of the CLI that get installed, from 1
    MaxCrashes   \* bound: processes that die by themselves

ASSUME DaemonFilesAssumption ==
    /\ NoProcess \notin Process
    /\ MaxAttempts \in Nat \ {0}
    /\ MaxVersion \in Nat \ {0} /\ MaxCrashes \in Nat

VARIABLES
    proc,      \* each process: what it does next and what it remembers
    lock,      \* the lock file: who made it, and the pid it holds
    state,     \* the state file: pid and version
    robbed,    \* history: whether a living process lost its lock to another
    installed, \* the version on disk
    crashes

fileVars == <<lock, state, robbed>>
boundVars == <<installed, crashes>>
daemonFilesVars == <<proc, fileVars, boundVars>>

NoLock == [by |-> NoProcess, pid |-> NoProcess]
NoState == [pid |-> NoProcess, version |-> 0]

Over == {"new", "dead"}
Owning == {"writePid", "setup", "serving"}
Waiting == {"post", "awaitHttp", "awaitTerm"}
Pc == Over \union Owning \union Waiting \union
      {"check", "compare", "stop", "clearState", "unlinkState", "clearLock", "open",
       "inspect", "unlink", "release"}

\* found: the process found in a file; resume: what follows when the files are cleared.
Processes ==
    [pc : Pc, goal : {"start", "stop"}, version : 0..MaxVersion,
     found : Process \union {NoProcess}, resume : {"dead", "stop", "open", "release"},
     asked : BOOLEAN, attempt : 1..MaxAttempts,
     beat : {"none", "own", "foreign", "outdated", "over"}]

FilesTypeOK ==
    /\ proc \in [Process -> Processes]
    /\ lock \in [by : Process \union {NoProcess}, pid : Process \union {NoProcess}]
    /\ state \in [pid : Process \union {NoProcess}, version : 0..MaxVersion]
    /\ robbed \in BOOLEAN
    /\ installed \in 1..MaxVersion
    /\ crashes \in 0..MaxCrashes
    /\ state = NoState \/ state.pid # NoProcess
    /\ \A p \in Process : proc[p].pc \in Waiting => proc[p].found # NoProcess

\* A process that does not run: nothing but its files is left of it.
Idle(pc) ==
    [pc |-> pc, goal |-> "start", version |-> 0, found |-> NoProcess, resume |-> "dead",
     asked |-> FALSE, attempt |-> 1, beat |-> "none"]

FilesInit ==
    /\ proc = [p \in Process |-> Idle("new")]
    /\ lock = NoLock
    /\ state = NoState
    /\ robbed = FALSE
    /\ installed = 1
    /\ crashes = 0

Alive(p) == p # NoProcess /\ proc[p].pc \notin Over

At(p, pc) == proc[p].pc = pc

Go(p, next) == proc' = [proc EXCEPT ![p].pc = next]

Exit(p) == proc' = [proc EXCEPT ![p] = Idle("dead")]

\* Goes on, or exits, with nothing in mind of the files.
Then(p, next) ==
    IF next = "dead" THEN Idle("dead")
    ELSE [proc[p] EXCEPT !.pc = next, !.found = NoProcess, !.resume = "dead"]

\* clearDaemonState, and then `next`.
Clear(p, next) == proc' = [proc EXCEPT ![p] = [Then(p, "clearState") EXCEPT !.resume = next]]

Resume(p) == proc' = [proc EXCEPT ![p] = Then(p, proc[p].resume)]

---------------------------------------------------------------------------
(* Does a daemon of the installed version run?                             *)

Start(p) ==
    /\ At(p, "new")
    /\ \/ proc' = [proc EXCEPT ![p].pc = "check", ![p].version = installed]
       \/ proc' = [proc EXCEPT ![p].pc = "stop", ![p].goal = "stop"]
    /\ UNCHANGED <<fileVars, boundVars>>

\* checkIfDaemonRunningAndCleanupStaleState
Check(p) ==
    /\ At(p, "check")
    /\ \/ state = NoState /\ Go(p, "stop")
       \/ Alive(state.pid) /\ Go(p, "compare")
       \/ state # NoState /\ ~Alive(state.pid) /\ Clear(p, "stop")
    /\ UNCHANGED <<fileVars, boundVars>>

\* The state is read a second time.
Compare(p) ==
    /\ At(p, "compare")
    /\ IF state.version = installed THEN Exit(p) ELSE Go(p, "stop")
    /\ UNCHANGED <<fileVars, boundVars>>

---------------------------------------------------------------------------
(* stopDaemon: by the pid of the state, or without one by that of the lock. *)

AfterStop(p) == IF proc[p].goal = "stop" THEN "dead" ELSE "open"

StopByLock(p) ==
    /\ At(p, "stop")
    /\ state = NoState
    /\ \/ /\ lock.pid = NoProcess
          /\ proc' = [proc EXCEPT ![p] = Then(p, AfterStop(p))]
       \/ /\ lock.pid # NoProcess /\ ~Alive(lock.pid)
          /\ Clear(p, AfterStop(p))
       \/ /\ Alive(lock.pid)
          /\ proc' = [proc EXCEPT ![p].pc = "awaitTerm", ![p].found = lock.pid,
                                  ![lock.pid].asked = TRUE]
    /\ UNCHANGED <<fileVars, boundVars>>

\* Variant: without the return when there is no state and no lock.
StopByStateAnyway(p) ==
    /\ At(p, "stop")
    /\ state # NoState \/ lock = NoLock
    /\ proc' = [proc EXCEPT ![p].pc = "post", ![p].found = state.pid]
    /\ UNCHANGED <<fileVars, boundVars>>

StopByState(p) ==
    /\ At(p, "stop")
    /\ state # NoState
    /\ proc' = [proc EXCEPT ![p].pc = "post", ![p].found = state.pid]
    /\ UNCHANGED <<fileVars, boundVars>>

\* stopDaemonHttp reads the state again, and only a daemon that serves hears the POST;
\* without an answer it just returns.
Post(p) ==
    /\ At(p, "post")
    /\ IF state # NoState /\ At(state.pid, "serving")
       THEN proc' = [proc EXCEPT ![p].pc = "awaitHttp", ![state.pid].asked = TRUE]
       ELSE Go(p, "awaitHttp")
    /\ UNCHANGED <<fileVars, boundVars>>

\* The process found is dead, or is killed after two seconds. (After the signal the files
\* are cleared, after the POST they are not.)
AwaitDeath(p) ==
    /\ \/ /\ At(p, "awaitTerm")
          /\ proc' = [proc EXCEPT ![proc[p].found] = Idle("dead"),
                                  ![p] = [Then(p, "clearState") EXCEPT !.resume = AfterStop(p)]]
       \/ /\ At(p, "awaitHttp")
          /\ proc' = [proc EXCEPT ![proc[p].found] = Idle("dead"),
                                  ![p] = Then(p, AfterStop(p))]
    /\ UNCHANGED <<fileVars, boundVars>>

---------------------------------------------------------------------------
(* clearDaemonState: whoever's the files are.                              *)

RemoveLock(p) ==
    /\ lock' = NoLock
    /\ robbed' = (robbed \/ (lock.by # p /\ Alive(lock.by)))

ClearState(p) ==
    /\ At(p, "clearState")
    /\ Go(p, IF state = NoState THEN "clearLock" ELSE "unlinkState")
    /\ UNCHANGED <<fileVars, boundVars>>

\* When the file has gone meanwhile, unlink throws and the lock is left.
UnlinkState(p) ==
    /\ At(p, "unlinkState")
    /\ IF state = NoState THEN Resume(p) ELSE Go(p, "clearLock")
    /\ state' = NoState
    /\ UNCHANGED <<lock, robbed, boundVars>>

ClearLock(p) ==
    /\ At(p, "clearLock")
    /\ RemoveLock(p)
    /\ Resume(p)
    /\ UNCHANGED <<state, boundVars>>

---------------------------------------------------------------------------
(* acquireDaemonLock.                                                      *)

Own(p) ==
    /\ proc' = [proc EXCEPT ![p].pc = "writePid", ![p].attempt = 1]
    /\ lock' = [by |-> p, pid |-> NoProcess]

\* Variant: without O_EXCL.
OpenAnyway(p) ==
    /\ At(p, "open")
    /\ Own(p)
    /\ UNCHANGED <<state, robbed, boundVars>>

Open(p) ==
    /\ At(p, "open")
    /\ \/ lock = NoLock /\ Own(p)
       \/ lock # NoLock /\ Go(p, "inspect") /\ UNCHANGED lock
    /\ UNCHANGED <<state, robbed, boundVars>>

IsStale == lock.pid # NoProcess /\ ~Alive(lock.pid)

\* Variant: attempts are not counted.
RetryForEver(p) == Go(p, "open")

\* The next attempt, or the end: "another daemon is running".
Retry(p) ==
    IF proc[p].attempt = MaxAttempts THEN Exit(p)
    ELSE proc' = [proc EXCEPT ![p].pc = "open", ![p].attempt = @ + 1]

\* A lock without a pid, or of a living process, is waited for.
Inspect(p) ==
    /\ At(p, "inspect")
    /\ IF IsStale THEN Go(p, "unlink") ELSE Retry(p)
    /\ UNCHANGED <<fileVars, boundVars>>

\* The lock is removed that is there now.
Unlink(p) ==
    /\ At(p, "unlink")
    /\ RemoveLock(p)
    /\ Retry(p)
    /\ UNCHANGED <<state, boundVars>>

\* The pid goes into the file that the process has opened, wherever that is now.
WritePid(p) ==
    /\ At(p, "writePid")
    /\ lock' = IF lock.by = p THEN [lock EXCEPT !.pid = p] ELSE lock
    /\ Go(p, "setup")
    /\ UNCHANGED <<state, robbed, boundVars>>

---------------------------------------------------------------------------
(* The daemon.                                                             *)

WriteState(p) == state' = [pid |-> p, version |-> proc[p].version]

\* Login, control server, state.
Serve(p) ==
    /\ At(p, "setup")
    /\ WriteState(p)
    /\ proc' = [proc EXCEPT ![p].pc = "serving", ![p].beat = "over"]
    /\ UNCHANGED <<lock, robbed, boundVars>>

\* The heartbeat looks at the installed version and at the state.
BeatRead(p) ==
    /\ At(p, "serving")
    /\ proc[p].beat = "none"
    /\ proc' = [proc EXCEPT ![p].beat = CASE proc[p].version # installed -> "outdated"
                                          [] state.pid \in {p, NoProcess} -> "own"
                                          [] OTHER -> "foreign"]
    /\ UNCHANGED <<fileVars, boundVars>>

InBeat(p) == proc[p].beat \in {"own", "foreign"}

\* Variant: another daemon's state is of no concern.
BeatWriteAnyway(p) ==
    /\ At(p, "serving")
    /\ InBeat(p)
    /\ proc' = [proc EXCEPT ![p].beat = "over"]
    /\ WriteState(p)
    /\ UNCHANGED <<lock, robbed, boundVars>>

\* It writes the state also when it has just asked itself to go.
BeatWrite(p) ==
    /\ At(p, "serving")
    /\ InBeat(p)
    /\ proc' = [proc EXCEPT ![p].beat = "over", ![p].asked = @ \/ proc[p].beat = "foreign"]
    /\ WriteState(p)
    /\ UNCHANGED <<lock, robbed, boundVars>>

\* Heartbeats have one period: before anybody beats again, everybody who serves has.
Minute ==
    /\ \E p \in Process : At(p, "serving") /\ proc[p].beat = "over"
    /\ \A p \in Process : At(p, "serving") => proc[p].beat \in {"over", "outdated"}
    /\ proc' = [p \in Process |->
          IF At(p, "serving") /\ proc[p].beat = "over" THEN [proc[p] EXCEPT !.beat = "none"] ELSE proc[p]]
    /\ UNCHANGED <<fileVars, boundVars>>

\* The outdated daemon has had a new one started and waited for it to kill this one.
ExitOutdated(p) ==
    /\ At(p, "serving")
    /\ proc[p].beat = "outdated"
    /\ Exit(p)
    /\ UNCHANGED <<fileVars, boundVars>>

\* cleanupAndShutdown comes to the files a tenth of a second after it has stopped the
\* heartbeats: the last one is over.
CleanUp(p) ==
    /\ At(p, "serving")
    /\ proc[p].asked
    /\ ~InBeat(p)
    /\ Clear(p, "release")
    /\ UNCHANGED <<fileVars, boundVars>>

\* releaseDaemonLock, and the exit.
Release(p) ==
    /\ At(p, "release")
    /\ RemoveLock(p)
    /\ Exit(p)
    /\ UNCHANGED <<state, boundVars>>

\* "Startup malfunctioned": a second after every request, whatever the process does.
ForcedExit(p) ==
    /\ proc[p].asked /\ Alive(p)
    /\ Exit(p)
    /\ UNCHANGED <<fileVars, boundVars>>

Crash(p) ==
    /\ Alive(p)
    /\ crashes < MaxCrashes
    /\ crashes' = crashes + 1
    /\ Exit(p)
    /\ UNCHANGED <<fileVars, installed>>

Upgrade ==
    /\ installed < MaxVersion
    /\ installed' = installed + 1
    /\ UNCHANGED <<proc, fileVars, crashes>>

---------------------------------------------------------------------------

Acquire(p) == Open(p) \/ Inspect(p) \/ Unlink(p) \/ WritePid(p)

Stop(p) == StopByLock(p) \/ StopByState(p) \/ Post(p) \/ AwaitDeath(p)

ClearFiles(p) == ClearState(p) \/ UnlinkState(p) \/ ClearLock(p) \/ Release(p)

Heartbeat(p) == BeatRead(p) \/ BeatWrite(p) \/ ExitOutdated(p)

Run(p) == Check(p) \/ Compare(p) \/ Stop(p) \/ ClearFiles(p) \/ Acquire(p) \/ Serve(p)

FilesNext ==
    \/ \E p \in Process : \/ Start(p) \/ Run(p) \/ Heartbeat(p)
                          \/ CleanUp(p) \/ ForcedExit(p) \/ Crash(p)
    \/ Minute
    \/ Upgrade

FilesSpec == FilesInit /\ [][FilesNext]_daemonFilesVars

\* Processes run, heartbeats come, and so does the forced exit.
FilesFairSpec ==
    /\ FilesSpec
    /\ WF_daemonFilesVars(Minute)
    /\ \A p \in Process : WF_daemonFilesVars(Run(p)) /\ WF_daemonFilesVars(Heartbeat(p)) /\ WF_daemonFilesVars(ForcedExit(p))

---------------------------------------------------------------------------
(* Properties.                                                             *)

Daemons == {p \in Process : proc[p].pc \in Owning}

\* "The lock file proves the daemon is running and prevents multiple instances"
\* (persistence.ts:526), as far as its exclusive creation goes: two daemons mean that
\* somebody removed the lock of a process that was alive. That happens, because the
\* removals compare nothing (clearDaemonState, releaseDaemonLock and the stale lock of
\* acquireDaemonLock).
OneUnlessRobbed == \A p, q \in Daemons : p # q => robbed

\* Several daemons do not last: each heartbeat that finds another's state ends its own
\* daemon, until at most one is left.
OneInTheEnd == <>[](Cardinality({p \in Process : At(p, "serving")}) <= 1)

\* Every process that starts or stops a daemon comes to an end with it, whatever others
\* do to the files.
EveryStartEnds == []<>(\A p \in Process : ~Alive(p) \/ At(p, "serving"))
====
