---- MODULE ClaudeLoop ----
(***************************************************************************)
(* How a happy session runs Claude: the loop (src/claude/loop.ts) that     *)
(* alternates between the local launcher, where Claude owns the terminal   *)
(* (claudeLocalLauncher.ts, claudeLocal.ts), and the remote one, where it  *)
(* is fed from the queue of prompts (claudeRemoteLauncher.ts,              *)
(* claudeRemote.ts). Prompts, 'abort' and 'switch' calls and the keys of   *)
(* the terminal come in between any two steps.                             *)
(*                                                                         *)
(* The queue appears as PromptInbox, which MessageQueue2 implements. Steps *)
(* are what the program does from one await to the next.                   *)
(***************************************************************************)
EXTENDS Naturals, Sequences

CONSTANTS
    Mode, ModeHash, \* as in MessageQueue2
    RestartMode,    \* the mode of the prompt that an approved plan leaves in the queue
    StartingMode,   \* "local" or "remote"
    MaxPrompts,     \* bound: prompts ever pushed
    MaxCalls        \* bound: calls and keys that reach a launcher

ASSUME ClaudeLoopAssumption ==
    /\ ModeHash \in [Mode -> Nat \ {0}]
    /\ RestartMode \in Mode
    /\ StartingMode \in {"local", "remote"}
    /\ MaxPrompts \in Nat /\ MaxCalls \in Nat

VARIABLES
    pc,         \* what the loop awaits
    queue,      \* session.queue
    exitReason, \* of the launcher that runs
    aborted,    \* whether its abort signal has fired
    pending,    \* remote: the batch put aside for the next launch
    modeHash,   \* remote: the hash of the launch's prompts; 0 is null
    runsAs,     \* remote: the mode Claude was launched with; 0 before that
    calls,      \* the 'abort' and 'switch' calls that await a launcher's end
    pushed,     \* history: the number of prompts accepted, which numbers them
    restarts,   \* history: those of them that an approved plan has put in front
    dropped,    \* history: prompts thrown away by an abort, a command or a switch
    given,      \* history: the batches Claude was given
    called      \* history: the number of calls

queueVars == <<queue, pushed, restarts>>
remoteVars == <<pending, modeHash, runsAs>>
loopVars == <<pc, exitReason, aborted, calls, dropped, given, called, queueVars, remoteVars>>

Inbox == INSTANCE PromptInbox WITH inbox <- queue, sent <- pushed, taken <- given

Prompt == [id : 1..MaxPrompts, mode : Mode, isolate : BOOLEAN]
Local == {"scanner", "claudeLocal", "localCleanup"}
Remote == {"firstMessage", "turn", "nextMessage", "flush"}
Reason == {"none", "switch", "exit"}

LoopTypeOK ==
    /\ pc \in Local \union Remote \union {"left"}
    /\ queue \in Seq(Prompt) /\ pending \in Seq(Prompt)
    /\ exitReason \in Reason
    /\ aborted \in BOOLEAN
    /\ modeHash \in Nat
    /\ runsAs \in Mode \union {0}
    /\ calls \subseteq {"abort", "switch"}
    /\ pushed \in 0..MaxPrompts
    /\ restarts \subseteq 1..MaxPrompts
    /\ dropped \subseteq 1..MaxPrompts
    /\ given \in Seq([items : Seq(Prompt), mode : Mode, runsAs : Mode])
    /\ called \in 0..MaxCalls

LoopInit ==
    /\ pc = IF StartingMode = "local" THEN "scanner" ELSE "firstMessage"
    /\ queue = << >>
    /\ exitReason = "none"
    /\ aborted = FALSE
    /\ pending = << >>
    /\ modeHash = 0
    /\ runsAs = 0
    /\ calls = {}
    /\ pushed = 0
    /\ restarts = {}
    /\ dropped = {}
    /\ given = << >>
    /\ called = 0

Ids(q) == {q[i].id : i \in DOMAIN q}

Over == pc = "left"

---------------------------------------------------------------------------
(* Prompts.                                                                *)

\* doSwitch of the local launcher, as the queue's onMessage handler.
YieldToPrompt ==
    IF pc = "claudeLocal"
    THEN exitReason' = (IF exitReason = "none" THEN "switch" ELSE exitReason) /\ aborted' = TRUE
    ELSE UNCHANGED <<exitReason, aborted>>

Accept(q) ==
    /\ ~Over
    /\ pushed < MaxPrompts
    /\ pushed' = pushed + 1
    /\ queue' = q
    /\ YieldToPrompt
    /\ UNCHANGED <<pc, calls, given, called, restarts, remoteVars>>

Push(m) ==
    /\ Accept(Append(queue, Inbox!Prompt(pushed + 1, m, FALSE)))
    /\ UNCHANGED dropped

\* /clear and /compact
PushCommand(m) ==
    /\ Accept(<<Inbox!Prompt(pushed + 1, m, TRUE)>>)
    /\ dropped' = dropped \union Ids(queue)

---------------------------------------------------------------------------
(* The local launcher.                                                     *)

LocalEnds(reason) ==
    /\ pc' = "localCleanup"
    /\ exitReason' = reason
    /\ calls' = {}
    /\ UNCHANGED <<aborted, dropped, given, called, queueVars, remoteVars>>

StartClaude ==
    /\ pc' = "claudeLocal"
    /\ UNCHANGED <<exitReason, aborted, calls, dropped, given, called, queueVars, remoteVars>>

\* Variant: Claude is started whatever the queue holds.
ScannerReadyUnchecked == pc = "scanner" /\ StartClaude

\* The scanner has read the session's log: the handlers are set, the queue looked at, and
\* Claude started. Until then calls met the handlers of the launcher before.
ScannerReady ==
    /\ pc = "scanner"
    /\ \/ queue # << >> /\ LocalEnds("switch")
       \/ queue = << >> /\ StartClaude

\* Claude ends: well, or by the SIGTERM of an abort.
ClaudeLocalReturns ==
    /\ pc = "claudeLocal"
    /\ LocalEnds(IF exitReason = "none" THEN "exit" ELSE exitReason)

\* Claude ends with an exit code, which becomes the program's.
ClaudeLocalFails ==
    /\ pc = "claudeLocal"
    /\ LocalEnds("exit")

\* Claude is killed by a signal, or could not be started: it is started again, unless
\* there is a reason to leave.
ClaudeLocalThrows ==
    /\ pc = "claudeLocal"
    /\ exitReason # "none"
    /\ LocalEnds(exitReason)

LeaveLocalTo(next) ==
    /\ pc = "localCleanup"
    /\ pc' = next
    /\ exitReason' = "none"
    /\ aborted' = FALSE
    /\ UNCHANGED <<calls, dropped, given, called, queueVars, remoteVars>>

\* Variant: the loop takes the reason for the mode.
LeaveLocalByReason == LeaveLocalTo(exitReason)

\* scanner.cleanup is done: the loop goes on. Calls have met no-ops since LocalEnds.
LeaveLocal == LeaveLocalTo(IF exitReason = "switch" THEN "firstMessage" ELSE "left")

---------------------------------------------------------------------------
(* The remote launcher. A launch begins at "firstMessage" and ends with its *)
(* "flush".                                                                 *)

\* claudeRemote gives Claude a batch. A first batch starts Claude in its mode.
Give(batch) ==
    LET mode == batch[1].mode
        started == IF runsAs = 0 THEN mode ELSE runsAs
    IN  /\ given' = Append(given, [items |-> batch, mode |-> mode, runsAs |-> started])
        /\ runsAs' = started
        /\ pc' = "turn"

\* /clear ends claudeRemote before Claude is started; /compact is run. An isolated batch
\* is always a launch's first.
IsClear(batch) == batch[1].isolate

TakePendingLeaving(rest) ==
    /\ pc = "firstMessage"
    /\ pending # << >>
    /\ pending' = rest
    /\ \/ Give(pending)
       \/ /\ IsClear(pending)
          /\ pc' = "flush"
          /\ given' = Append(given, [items |-> pending, mode |-> pending[1].mode,
                                     runsAs |-> pending[1].mode])
          /\ UNCHANGED runsAs
    /\ UNCHANGED <<modeHash, exitReason, aborted, calls, dropped, called, queueVars>>

\* Variant: the batch stays put aside.
TakePendingAgain == TakePendingLeaving(pending)

\* nextMessage with a batch put aside: modeHash stays null.
TakePending == TakePendingLeaving(<< >>)

\* What makes nextMessage put a batch aside and end the launch.
ModeChanges(batch) ==
    \/ modeHash # 0 /\ ModeHash[batch[1].mode] # modeHash
    \/ batch[1].isolate

\* nextMessage takes a batch from the queue, whether or not the signal has fired.
TakeBatch ==
    /\ pc \in {"firstMessage", "nextMessage"}
    /\ pc = "firstMessage" => pending = << >>
    /\ \E n \in 1..Len(queue) :
          LET batch == SubSeq(queue, 1, n)
          IN  /\ Inbox!LeaveTogether(queue, n)
              /\ queue' = SubSeq(queue, n + 1, Len(queue))
              /\ \/ /\ ModeChanges(batch)
                    /\ pending' = batch
                    /\ pc' = "flush"
                    /\ UNCHANGED <<modeHash, runsAs, given>>
                 \/ /\ ~ModeChanges(batch)
                    /\ modeHash' = ModeHash[batch[1].mode]
                    /\ Give(batch)
                    /\ UNCHANGED pending
    /\ UNCHANGED <<exitReason, aborted, calls, dropped, called, pushed, restarts>>

\* nextMessage returns null when its wait was aborted.
WaitAborted ==
    /\ pc \in {"firstMessage", "nextMessage"}
    /\ pc = "firstMessage" => pending = << >>
    /\ aborted
    /\ pc' = "flush"
    /\ UNCHANGED <<exitReason, aborted, calls, dropped, given, called, queueVars, remoteVars>>

\* Claude's result message.
TurnEnds ==
    /\ pc = "turn"
    /\ pc' = "nextMessage"
    /\ UNCHANGED <<exitReason, aborted, calls, dropped, given, called, queueVars, remoteVars>>

\* Claude's process fails or is aborted, its output ends, or a refused tool call ends the
\* launch.
LaunchEnds ==
    /\ pc = "turn"
    /\ pc' = "flush"
    /\ UNCHANGED <<exitReason, aborted, calls, dropped, given, called, queueVars, remoteVars>>

\* A plan is approved: a prompt to go on is put before all others, and the refusal that
\* Claude is told ends the launch.
PlanApproved ==
    /\ pc = "turn"
    /\ pushed < MaxPrompts
    /\ pushed' = pushed + 1
    /\ restarts' = restarts \union {pushed + 1}
    /\ queue' = <<Inbox!Prompt(pushed + 1, RestartMode, FALSE)>> \o queue
    /\ pc' = "flush"
    /\ UNCHANGED <<exitReason, aborted, calls, dropped, given, called, remoteVars>>

FlushedLeaving(waiting, kept) ==
    /\ pc = "flush"
    /\ pc' = CASE exitReason = "none" -> "firstMessage"
               [] exitReason = "switch" -> "scanner"
               [] exitReason = "exit" -> "left"
    /\ aborted' = FALSE
    /\ exitReason' = "none"
    /\ modeHash' = 0
    /\ runsAs' = 0
    /\ pending' = kept
    /\ dropped' = IF exitReason = "none" THEN dropped ELSE dropped \union Ids(pending)
    /\ calls' = waiting
    /\ UNCHANGED <<given, called, queueVars>>

\* What outlives the launch: with a reason to leave, the batch put aside goes with the
\* launcher.
Kept == IF exitReason = "none" THEN pending ELSE << >>

\* Variant: the launch's future is not resolved.
FlushedUnanswered == FlushedLeaving(calls, Kept)

\* Variant: the batch put aside belongs to the launch.
FlushedEmpty == FlushedLeaving({}, << >>)

\* The launch's output is flushed, its callers return. Without a reason to leave there is
\* another launch.
Flushed == FlushedLeaving({}, Kept)

---------------------------------------------------------------------------
(* Calls and keys, in a launcher that hears them. In other states they do  *)
(* nothing and return.                                                     *)

Heard == pc \in Remote \union {"claudeLocal"} /\ called < MaxCalls /\ called' = called + 1

SetReason(reason) == exitReason' = IF exitReason = "none" THEN reason ELSE exitReason

\* The 'abort' call: in local mode it empties the queue and switches.
Abort ==
    /\ Heard
    /\ "abort" \notin calls
    /\ calls' = calls \union {"abort"}
    /\ aborted' = TRUE
    /\ IF pc = "claudeLocal"
       THEN SetReason("switch") /\ queue' = << >> /\ dropped' = dropped \union Ids(queue)
       ELSE UNCHANGED <<exitReason, queue, dropped>>
    /\ UNCHANGED <<pc, given, pushed, restarts, remoteVars>>

\* The 'switch' call, and the terminal's double space in remote mode.
Switch ==
    /\ Heard
    /\ "switch" \notin calls
    /\ calls' = calls \union {"switch"}
    /\ aborted' = TRUE
    /\ SetReason("switch")
    /\ UNCHANGED <<pc, given, dropped, queueVars, remoteVars>>

\* Ctrl-C in remote mode.
ExitKey ==
    /\ Heard
    /\ pc \in Remote
    /\ aborted' = TRUE
    /\ SetReason("exit")
    /\ UNCHANGED <<pc, calls, given, dropped, queueVars, remoteVars>>

\* A signal or the 'killSession' call: the cleanup of runClaude ends the program.
Kill ==
    /\ ~Over
    /\ pc' = "left"
    /\ calls' = {}
    /\ UNCHANGED <<exitReason, aborted, given, dropped, called, queueVars, remoteVars>>

---------------------------------------------------------------------------

Prompts == \E m \in Mode : Push(m) \/ PushCommand(m)

ClaudeLocal == ClaudeLocalReturns \/ ClaudeLocalFails \/ ClaudeLocalThrows

Turn == TurnEnds \/ LaunchEnds \/ PlanApproved

NextMessage == TakePending \/ TakeBatch \/ WaitAborted

Loop == ScannerReady \/ LeaveLocal \/ NextMessage \/ Flushed

LoopNext == Prompts \/ ClaudeLocal \/ Turn \/ Loop \/ Abort \/ Switch \/ ExitKey \/ Kill

LoopSpec == LoopInit /\ [][LoopNext]_loopVars

\* The program takes its steps; Claude ends when it is aborted, and ends a turn.
LoopFairSpec ==
    /\ LoopSpec
    /\ WF_loopVars(Loop)
    /\ WF_loopVars(aborted /\ ClaudeLocal)
    /\ WF_loopVars(Turn)

---------------------------------------------------------------------------
(* Properties.                                                             *)

\* The user at the phone is not shut out by the user at the terminal: Claude does not run
\* in the terminal beside a prompt that waits, unless it is already told to stop. (The
\* handler is set before the queue is looked at, in one step.)
LocalYields == pc = "claudeLocal" /\ queue # << >> => aborted /\ exitReason # "none"

\* Claude gets every prompt once and in the order they came, the restart of a plan apart:
\* also when one was put aside for a launch in its own mode while others came.
GivenIds == {i \in 1..pushed : \E k \in DOMAIN given : i \in Ids(given[k].items)}

GivenInOrder ==
    \A j, k \in DOMAIN given :
        j < k => \A x \in Ids(given[j].items), y \in Ids(given[k].items) :
                    x # y /\ (x < y \/ x \in restarts \/ y \in restarts)

\* With turns that end, every prompt is given to Claude, or thrown away by an abort, a
\* command or a switch, or the program is left: in no order of prompts, switches, aborts
\* and ends of Claude does one stay behind.
EveryPromptIsSettled == []<>(1..pushed \subseteq GivenIds \union dropped \/ Over)

\* Claude gets a prompt only in a launch in the prompt's own mode, as far as modes are
\* told apart. (claudeRemoteLauncher.ts:372 "Check if mode has changed".)
InItsOwnMode ==
    \A k \in DOMAIN given : ModeHash[given[k].runsAs] = ModeHash[given[k].mode]
====
