---- MODULE SessionScanner ----
(***************************************************************************)
(* How the messages of a Claude process that runs in the terminal reach    *)
(* the Happy server: the session scanner (src/claude/utils/                *)
(* sessionScanner.ts) reads the log file of every session Claude has       *)
(* opened and hands on the lines it has not seen. It reads again whenever  *)
(* a watcher, a timer or a new session invalidates its InvalidateSync.     *)
(*                                                                         *)
(* The command of the sync is cut at its awaits: it collects the sessions  *)
(* (in the same step as the call that starts it), then, for each, reads    *)
(* the file and hands on the new lines, and moves the sets at its end.     *)
(* Claude writes, hooks arrive and cleanup is called in between.           *)
(***************************************************************************)
EXTENDS Naturals, Sequences, FiniteSets, SequencesExt

CONSTANTS
    Session,   \* session ids
    MaxLines,  \* bound: the number of lines ever written
    NoSession  \* no session id yet

ASSUME SessionScannerAssumption == NoSession \notin Session /\ MaxLines \in Nat \ {0}

VARIABLES
    file,               \* the log files; a line is its messageKey
    opened,             \* the sessions Claude has opened so far
    known,              \* history: the lines the resumed session had at the start
    written,            \* history: the number of lines written, which numbers them
    phase,              \* "opening", "open", "closing", then "closed"
    finishedSessions, pendingSessions, currentSessionId,
    watchers,           \* the sessions with a watcher in the map
    watched,            \* the sessions whose file is watched, in the map or not
    processedMessageKeys,
    delivered,          \* what onMessage was called with, in order
    sessions,           \* the command's list of sessions
    todo,               \* those of them still to be read
    reading,            \* the file just read, whose lines are to be handed on
    invalidated, invalidatedDouble, stopped, pendings, attempt, unserved

Sync == INSTANCE InvalidateSync WITH Awaiter <- {"create", "cleanup"}

syncVars == <<invalidated, invalidatedDouble, stopped, pendings, attempt, unserved>>
fileVars == <<file, opened, known, written>>
setVars == <<finishedSessions, pendingSessions, currentSessionId, watchers, watched>>
runVars == <<sessions, todo, reading>>
scannerVars == <<fileVars, phase, setVars, processedMessageKeys, delivered, runVars, syncVars>>

NothingRead == [session |-> NoSession, lines |-> << >>]

ScannerTypeOK ==
    /\ Sync!SyncTypeOK
    /\ file \in [Session -> Seq(1..MaxLines)]
    /\ opened \subseteq Session
    /\ phase \in {"opening", "open", "closing", "closed"}
    /\ finishedSessions \subseteq opened
    /\ pendingSessions \subseteq opened
    /\ currentSessionId \in opened \union {NoSession}
    /\ watchers \subseteq watched
    /\ watched \subseteq opened
    /\ processedMessageKeys \subseteq 1..written
    /\ sessions \subseteq opened
    /\ todo \subseteq sessions
    /\ reading.session \in todo \union {NoSession}

Current == {currentSessionId} \ {NoSession}

\* Variant: only the current session and the one being left are looked at.
ToSyncUnwatched(pending, current, watching) == pending \union ({current} \ {NoSession})

\* The sessions the command collects.
ToSync(pending, current, watching) ==
    pending \union ({current} \ {NoSession}) \union watching

\* Variant: what the resumed session already held counts as new.
KnownAtStartNone(s) == {}

\* The lines of the session that is resumed are marked as processed before the start.
KnownAtStart(s) == IF s = NoSession THEN {} ELSE ToSet(file[s])

\* createSessionScanner up to the first sync. Claude may have been resumed from a
\* session with a log of its own.
ScannerInit ==
    /\ currentSessionId \in Session \union {NoSession}
    /\ opened = Current
    /\ known = IF currentSessionId = NoSession THEN {} ELSE {1}
    /\ written \in {IF currentSessionId = NoSession THEN 0 ELSE 1}
    /\ file = [s \in Session |-> IF s = currentSessionId THEN <<1>> ELSE << >>]
    /\ processedMessageKeys = KnownAtStart(currentSessionId)
    /\ phase = "opening"
    /\ finishedSessions = {}
    /\ pendingSessions = {}
    /\ watchers = {}
    /\ watched = {}
    /\ delivered = << >>
    /\ sessions = Current
    /\ todo = Current
    /\ reading = NothingRead
    /\ invalidated = TRUE
    /\ invalidatedDouble = FALSE
    /\ stopped = FALSE
    /\ pendings = {"create"}
    /\ attempt = "running"
    /\ unserved = {}

---------------------------------------------------------------------------
(* Claude.                                                                 *)

ClaudeRuns == phase \in {"opening", "open"}

\* A line is appended to the log of an opened session, not only the latest one.
WriteLine(s) ==
    /\ ClaudeRuns
    /\ s \in opened
    /\ written < MaxLines
    /\ written' = written + 1
    /\ file' = [file EXCEPT ![s] = Append(@, written + 1)]
    /\ UNCHANGED <<opened, known, phase, setVars, processedMessageKeys, delivered, runVars, syncVars>>

\* A new session, empty or resumed: then it starts with the other session's lines.
OpenSession(s) ==
    /\ ClaudeRuns
    /\ s \notin opened
    /\ opened' = opened \union {s}
    /\ \E history \in {<< >>} \union {file[r] : r \in opened} :
          file' = [file EXCEPT ![s] = history]
    /\ UNCHANGED <<known, written, phase, setVars, processedMessageKeys, delivered, runVars, syncVars>>

---------------------------------------------------------------------------
(* The scanner.                                                            *)

\* A call that starts the command runs it to its first await: the sessions are
\* collected from what the call has just made of the sets.
CollectIfBegun ==
    IF attempt # "running" /\ attempt' = "running"
    THEN /\ sessions' = ToSync(pendingSessions', currentSessionId', watchers')
         /\ todo' = sessions'
         /\ reading' = NothingRead
    ELSE UNCHANGED runVars

\* createSessionScanner returns when the first sync is over, and the interval starts.
Created ==
    /\ phase = "opening"
    /\ "create" \notin pendings
    /\ phase' = "open"
    /\ UNCHANGED <<fileVars, setVars, processedMessageKeys, delivered, runVars, syncVars>>

Invalidated ==
    /\ Sync!Invalidate
    /\ UNCHANGED setVars
    /\ CollectIfBegun
    /\ UNCHANGED <<fileVars, phase, processedMessageKeys, delivered>>

Interval == phase = "open" /\ Invalidated

WatcherFires(s) == s \in watched /\ Invalidated

\* Variant: there is always a session to leave.
OnNewSessionLeavingAny(s) ==
    /\ phase = "open"
    /\ s \in opened
    /\ s \notin Current \union finishedSessions \union pendingSessions
    /\ pendingSessions' = pendingSessions \union {currentSessionId}
    /\ currentSessionId' = s
    /\ Sync!Invalidate
    /\ UNCHANGED <<finishedSessions, watchers, watched>>
    /\ CollectIfBegun
    /\ UNCHANGED <<fileVars, phase, processedMessageKeys, delivered>>

\* Claude's session hook, for a session that may have been announced before.
OnNewSession(s) ==
    /\ phase = "open"
    /\ s \in opened
    /\ s \notin Current \union finishedSessions \union pendingSessions
    /\ pendingSessions' = pendingSessions \union Current
    /\ currentSessionId' = s
    /\ Sync!Invalidate
    /\ UNCHANGED <<finishedSessions, watchers, watched>>
    /\ CollectIfBegun
    /\ UNCHANGED <<fileVars, phase, processedMessageKeys, delivered>>

\* The await of readSessionLog.
ReadSessionLog(s) ==
    /\ attempt = "running"
    /\ reading = NothingRead
    /\ s \in todo
    /\ reading' = [session |-> s, lines |-> file[s]]
    /\ UNCHANGED <<fileVars, phase, setVars, processedMessageKeys, delivered,
                   sessions, todo, syncVars>>

IsNew(k) == k \notin processedMessageKeys

\* The places of the new lines of q, in the order of the file.
NewIn(q) ==
    LET new == {n \in DOMAIN q : IsNew(q[n])}
    IN  {at \in [1..Cardinality(new) -> new] : \A i, j \in DOMAIN at : i < j => at[i] < at[j]}

\* The lines just read that were not processed are.
DeliverNew ==
    /\ attempt = "running"
    /\ reading # NothingRead
    /\ \E at \in NewIn(reading.lines) :
          delivered' = delivered \o [i \in DOMAIN at |-> reading.lines[at[i]]]
    /\ processedMessageKeys' = processedMessageKeys \union ToSet(reading.lines)
    /\ todo' = todo \ {reading.session}
    /\ reading' = NothingRead
    /\ UNCHANGED <<fileVars, phase, setVars, sessions, syncVars>>

\* The command's end: pending sessions it has read are finished, and every session it
\* has read is watched from now on.
EndOfCommand ==
    /\ todo = {}
    /\ Sync!Return
    /\ finishedSessions' = finishedSessions \union (pendingSessions \intersect sessions)
    /\ pendingSessions' = pendingSessions \ sessions
    /\ watchers' = watchers \union sessions
    /\ watched' = watched \union sessions
    /\ UNCHANGED <<fileVars, phase, currentSessionId, processedMessageKeys, delivered, runVars>>

SyncFinish ==
    /\ Sync!Finish
    /\ UNCHANGED setVars
    /\ CollectIfBegun
    /\ UNCHANGED <<fileVars, phase, processedMessageKeys, delivered>>

\* Variant: the last sync is asked for and not awaited.
CleanupAtOnce ==
    /\ phase = "open"
    /\ watchers' = {}
    /\ watched' = watched \ watchers
    /\ Sync!Invalidate
    /\ phase' = "closing"
    /\ UNCHANGED <<finishedSessions, pendingSessions, currentSessionId>>
    /\ CollectIfBegun
    /\ UNCHANGED <<fileVars, processedMessageKeys, delivered>>

\* cleanup, once Claude is gone: no interval, no watchers, and a last sync is awaited.
Cleanup ==
    /\ phase = "open"
    /\ watchers' = {}
    /\ watched' = watched \ watchers
    /\ Sync!InvalidateAndAwait("cleanup")
    /\ phase' = "closing"
    /\ UNCHANGED <<finishedSessions, pendingSessions, currentSessionId>>
    /\ CollectIfBegun
    /\ UNCHANGED <<fileVars, processedMessageKeys, delivered>>

\* The last sync is over: cleanup stops it. The last command has set up watchers
\* again, which nobody closes.
Stop ==
    /\ phase = "closing"
    /\ "cleanup" \notin pendings
    /\ Sync!Stop
    /\ phase' = "closed"
    /\ UNCHANGED <<fileVars, setVars, processedMessageKeys, delivered, runVars>>

ClaudeWrites == \E s \in Session : WriteLine(s) \/ OpenSession(s) \/ OnNewSession(s)

Command ==
    \/ \E s \in Session : ReadSessionLog(s)
    \/ DeliverNew \/ EndOfCommand \/ SyncFinish

ScannerNext ==
    \/ ClaudeWrites
    \/ Created
    \/ Interval
    \/ \E s \in Session : WatcherFires(s)
    \/ Command
    \/ Cleanup
    \/ Stop

ScannerSpec == ScannerInit /\ [][ScannerNext]_scannerVars

\* Reads finish and the interval's timer fires; no watcher is relied on.
ScannerFairSpec ==
    /\ ScannerSpec
    /\ WF_scannerVars(Command)
    /\ WF_scannerVars(Created)
    /\ WF_scannerVars(Interval)
    /\ WF_scannerVars(Stop)

---------------------------------------------------------------------------
(* Properties.                                                             *)

Followed == Current \union pendingSessions \union finishedSessions

\* No line is handed on twice, none that was there before the start is, and the lines of
\* a log go out in its order, although logs share lines, are read while they grow, and
\* are read over and over.
OncePerLineInOrder ==
    /\ \A i, j \in DOMAIN delivered : delivered[i] = delivered[j] => i = j
    /\ ToSet(delivered) \subseteq processedMessageKeys \ known
    /\ \A s \in Session : \A i, j \in DOMAIN delivered :
          LET at(k) == {n \in DOMAIN file[s] : file[s][n] = delivered[k]}
          IN  i < j => \A a \in at(i), b \in at(j) : a < b

\* What there is to read when the scanner closes is read: every line of the current
\* session, those written just before cleanup, in the middle of a read, too.
CurrentIsReadToTheEnd ==
    phase = "closed" => \A s \in Current : ToSet(file[s]) \subseteq processedMessageKeys

\* While the scanner is open, every line of every session it was ever told of is handed
\* on, with no help from the watchers: those that are no longer current too.
EveryLineIsDelivered ==
    []<>(\/ \A s \in Followed : ToSet(file[s]) \subseteq processedMessageKeys
         \/ phase \in {"closing", "closed"})
====
