---- MODULE MessageLog ----
(***************************************************************************)
(* The log a remote session makes of what Claude says: SDKToLogConverter   *)
(* (src/claude/utils/sdkToLogConverter.ts), one for all launches of        *)
(* claudeRemoteLauncher.ts. Every entry names its parent: the entry before *)
(* it in the conversation or, for what a sub-agent says, the entry before  *)
(* it in the sidechain of the Task call that started it.                   *)
(*                                                                         *)
(* Entries are numbered in the order the converter makes them; 0 stands    *)
(* for no parent. When they are sent is RemoteOutput's subject.            *)
(***************************************************************************)
EXTENDS Naturals, Sequences, SequencesExt

CONSTANTS
    Task,         \* tool calls that start a sub-agent
    Session,      \* ids that Claude gives its sessions
    MaxEntries,   \* bound: entries of the log
    MaxStarts     \* bound: launches of the Claude process

ASSUME MessageLogAssumption ==
    "main" \notin Task /\ MaxEntries \in Nat /\ MaxStarts \in Nat \ {0}

VARIABLES
    lastUuid,            \* the converter's last entry
    sidechainLastUuid,   \* the last entry of each sidechain
    contextId,           \* context.sessionId, which entries are labelled with
    sessionId,           \* the session's id, for the launcher
    previousSessionId,   \* the launcher's: the id at the last launch
    ongoingCalls,        \* ongoingToolCalls: the Task calls without a result, in order
    claude,              \* the session of the running Claude process, "none" if none runs
    greeted,             \* it has sent its first message
    log,                 \* what the converter has made
    starts               \* history: the number of launches

converterVars == <<lastUuid, sidechainLastUuid, contextId>>
launcherVars == <<sessionId, previousSessionId, starts>>
messageLogVars == <<lastUuid, sidechainLastUuid, contextId, sessionId, previousSessionId,
                    ongoingCalls, claude, greeted, log, starts>>

Main == "main"
Chain == Task \union {Main}

\* of: the session that was running.
Entry == [parent : Nat, chain : Chain, label : Session \union {"unknown"}, of : Session]

MessageLogTypeOK ==
    /\ log \in Seq(Entry) /\ Len(log) <= MaxEntries
    /\ lastUuid \in 0..Len(log)
    /\ sidechainLastUuid \in [Task -> 0..Len(log)]
    /\ contextId \in Session \union {"unknown"}
    /\ {sessionId, previousSessionId} \subseteq Session \union {"none"}
    /\ \A i \in DOMAIN ongoingCalls : ongoingCalls[i] \in [call : Task, parent : Chain]
    /\ claude \in Session \union {"none"}
    /\ greeted \in BOOLEAN
    /\ starts \in 0..MaxStarts

MessageLogInit ==
    /\ lastUuid = 0
    /\ sidechainLastUuid = [t \in Task |-> 0]
    /\ contextId = "unknown"
    /\ sessionId = "none"
    /\ previousSessionId = "none"
    /\ ongoingCalls = <<>>
    /\ claude = "none"
    /\ greeted = FALSE
    /\ log = <<>>
    /\ starts = 0

Made == {log[i].chain : i \in DOMAIN log}
Calls == {ongoingCalls[i].call : i \in DOMAIN ongoingCalls}

---------------------------------------------------------------------------
(* Operations of the converter, as what they leave: its two variables and  *)
(* the log, in a record, so that a handler can do several.                 *)

Now == [last |-> lastUuid, sides |-> sidechainLastUuid, log |-> log]

ParentIn(c, chain) == IF chain = Main THEN c.last ELSE c.sides[chain]

AppendTo(c, parent, chain) ==
    Append(c.log, [parent |-> parent, chain |-> chain, label |-> contextId, of |-> claude])

SidesAfter(c, chain) ==
    IF chain = Main THEN c.sides ELSE [c.sides EXCEPT ![chain] = Len(c.log) + 1]

\* convert, and generateInterruptedToolResult: the parent is the chain's last, and the
\* entry becomes the last of all, whichever chain it is of.
Convert(c, chain) ==
    [last |-> Len(c.log) + 1,
     sides |-> SidesAfter(c, chain),
     log |-> AppendTo(c, ParentIn(c, chain), chain)]

\* Variant: the sub-agent's prompt is not noted as the start of its chain.
ConvertSidechainUnnoted(c, t) == [c EXCEPT !.log = AppendTo(c, 0, t)]

\* convertSidechainUserMessage: a Task call's prompt starts its chain.
ConvertSidechainUserMessage(c, t) ==
    [c EXCEPT !.sides = SidesAfter(c, t), !.log = AppendTo(c, 0, t)]

Becomes(c) ==
    /\ Len(c.log) <= MaxEntries
    /\ lastUuid' = c.last
    /\ sidechainLastUuid' = c.sides
    /\ log' = c.log

---------------------------------------------------------------------------
(* The launcher.                                                           *)

\* The loop's top: the chain and the permissions are reset when the session's id is not
\* the one it was at the last launch. Claude resumes the session it is given, or opens another.
Launch(s) ==
    /\ claude = "none"
    /\ starts < MaxStarts
    /\ starts' = starts + 1
    /\ lastUuid' = IF sessionId # previousSessionId THEN 0 ELSE lastUuid
    /\ previousSessionId' = sessionId
    /\ claude' = s
    /\ greeted' = FALSE
    /\ UNCHANGED <<sidechainLastUuid, contextId, sessionId, ongoingCalls, log>>

\* Claude's first message: the entry is labelled before the id it brings is taken.
OnInit ==
    /\ claude # "none" /\ ~greeted
    /\ greeted' = TRUE
    /\ Becomes(Convert(Now, Main))
    /\ contextId' = claude
    /\ UNCHANGED <<launcherVars, ongoingCalls, claude>>

\* onSessionFound, once claudeRemote has seen the session's file (or given up).
SessionIdFound ==
    /\ claude # "none" /\ greeted
    /\ sessionId # claude
    /\ sessionId' = claude
    /\ contextId' = claude
    /\ UNCHANGED <<lastUuid, sidechainLastUuid, previousSessionId, starts, ongoingCalls,
                   claude, greeted, log>>

\* claudeRemote reads on only after onSessionFound.
Reads == claude # "none" /\ greeted /\ sessionId = claude

\* A sub-agent speaks while its Task call runs.
Speaks(chain) == Reads /\ chain \in Calls \union {Main}

\* Text of Claude's or a sub-agent's, or the prompt of the user: an entry of its chain.
OnText(chain) ==
    /\ Speaks(chain)
    /\ Becomes(Convert(Now, chain))
    /\ UNCHANGED <<contextId, launcherVars, ongoingCalls, claude, greeted>>

\* A Task call; the launcher makes up the message that starts the sidechain when the
\* call has a prompt.
OnTask(chain, t, prompted) ==
    /\ Speaks(chain)
    /\ t \notin Made \union Calls
    /\ ongoingCalls' = Append(ongoingCalls, [call |-> t, parent |-> chain])
    /\ LET converted == Convert(Now, chain)
       IN  Becomes(IF prompted THEN ConvertSidechainUserMessage(converted, t)
                               ELSE converted)
    /\ UNCHANGED <<contextId, launcherVars, claude, greeted>>

\* Its result ends the call.
OnTaskResult(i) ==
    /\ Reads
    /\ i \in DOMAIN ongoingCalls
    /\ Becomes(Convert(Now, ongoingCalls[i].parent))
    /\ ongoingCalls' = RemoveAt(ongoingCalls, i)
    /\ UNCHANGED <<contextId, launcherVars, claude, greeted>>

\* The process ends, or the launch is aborted: the calls that still run are given results.
Interrupted ==
    LET after[i \in 0..Len(ongoingCalls)] ==
            IF i = 0 THEN Now ELSE Convert(after[i - 1], ongoingCalls[i].parent)
    IN  after[Len(ongoingCalls)]

LaunchEnds ==
    /\ claude # "none"
    /\ Becomes(Interrupted)
    /\ ongoingCalls' = <<>>
    /\ claude' = "none"
    /\ UNCHANGED <<contextId, launcherVars, greeted>>

\* /clear: the launch returns at once, and the session has no id.
OnSessionReset ==
    /\ claude # "none" /\ ~greeted
    /\ sessionId' = "none"
    /\ claude' = "none"
    /\ UNCHANGED <<converterVars, previousSessionId, starts, ongoingCalls, greeted, log>>

MessageLogNext ==
    \/ \E s \in Session : Launch(s)
    \/ OnInit \/ SessionIdFound \/ LaunchEnds \/ OnSessionReset
    \/ \E chain \in Chain : OnText(chain)
    \/ \E chain \in Chain, t \in Task, prompted \in BOOLEAN : OnTask(chain, t, prompted)
    \/ \E i \in DOMAIN ongoingCalls : OnTaskResult(i)

MessageLogSpec == MessageLogInit /\ [][MessageLogNext]_messageLogVars

---------------------------------------------------------------------------
(* What a sub-agent says hangs together: in a sidechain only the first     *)
(* entry has no parent, and every other's is the entry before it, whatever *)
(* other chains, resets and interruptions come between.                    *)

SidechainsAreChains ==
    \A n \in DOMAIN log :
        LET earlier == {k \in 1..(n - 1) : log[k].chain = log[n].chain}
        IN  log[n].chain # Main =>
                log[n].parent = IF earlier = {} THEN 0
                                ELSE CHOOSE k \in earlier : \A j \in earlier : j <= k

====
