---- MODULE CodexSession ----
(***************************************************************************)
(* A Codex session (src/codex/runCodex.ts and codexMcpClient.ts): the loop *)
(* that takes a batch of prompts and gives it to Codex as a call of its    *)
(* MCP server, which answers when the task is over. Beside the loop run    *)
(* the events of the tasks, the users' prompts and answers to permission   *)
(* requests (CodexPermissionHandler over BasePermissionHandler), aborts,   *)
(* and the two ways to end the session.                                    *)
(*                                                                         *)
(* Codex is external: a call becomes a task of a session, new or known,    *)
(* whose events come until it is over, and may name the session. An abort  *)
(* gives the call up here and tells Codex, whose task goes on for a while: *)
(* it may configure its session, and name it, after those of newer calls.  *)
(*                                                                         *)
(* An aborted call fails, and its turn ends, before anything else runs, so *)
(* that an abort and the end of the turn it stops are one step.            *)
(***************************************************************************)
EXTENDS Reasoning, FiniteSets

CONSTANTS
    Mode,           \* a permission mode with a model and a reasoning effort
    NoMode,
    Call,           \* ids of the tool calls Codex asks a permission for
    Diff,           \* the diffs of a task
    NoDiff,
    MaxPrompts,     \* bound: prompts of the user
    MaxAborts,      \* bound: aborts, those included that end the session
    MaxInputs,      \* bound: thoughts, diffs and permission requests, a prompt counting as two
    Transcripts     \* whether the transcripts of sessions are found

ASSUME CodexSessionAssumption ==
    /\ NoMode \notin Mode /\ NoDiff \notin Diff
    /\ MaxPrompts \in Nat /\ MaxAborts \in Nat /\ MaxInputs \in Nat
    /\ Transcripts \in BOOLEAN

VARIABLES
    pc,                 \* what the loop awaits
    messageQueue,
    call,               \* the call it awaits
    wasCreated, currentModeHash,
    connected, sessionId,           \* the client
    storedSessionIdForResume,
    shouldExit,
    killing,            \* how far handleKillSession is
    thinking,
    announced,          \* whether 'ready' was sent since the last prompt was taken
    section, shown,     \* the reasoning processor, and what the devices saw of its calls
    previousDiff,
    pendingRequests,    \* calls whose permission the user is asked for
    requests, completedRequests,    \* the agent state, with the updates under way
    alive,              \* Codex
    sessions,           \* the sessions Codex has configured
    tasks,              \* its tasks, one for every call
    ledAstray,          \* history: whether an event has named another session than the
                        \* client's, since one was configured for the loop's own call
    pushed, settled, decided, aborts, events    \* history

loopVars == <<pc, messageQueue, call, wasCreated, currentModeHash>>
clientVars == <<connected, sessionId, storedSessionIdForResume>>
exitVars == <<shouldExit, killing>>
shownVars == <<thinking, announced, section, shown, previousDiff>>
permissionVars == <<pendingRequests, requests, completedRequests, decided>>
codexVars == <<alive, sessions, tasks>>
historyVars == <<ledAstray, pushed, settled, aborts, events>>
vars == <<loopVars, clientVars, exitVars, shownVars, permissionVars, codexVars, historyVars>>

\* A session: the mode it was started in, and the prompts whose answers it remembers.
Session(n) == [mode : Mode, knows : SUBSET n]
\* A call: its prompts and their mode, and the session it continues, or the one whose
\* transcript it starts from, 0 when there is none.
CallTool == [kind : {"start", "continue"}, batch : SUBSET (1..MaxPrompts), mode : Mode, from : Nat]
NoCall == [kind |-> "none"]
\* A task, of a session that is to come or is there.
Task == [status : {"asked"}, mode : Mode, from : Nat] \union
        [status : {"configured", "started", "over"}, session : Nat]
Prompt == [id : 1..MaxPrompts, mode : Mode]
Outcome == {"no", "approved", "denied", "canceled"}

TypeOK ==
    /\ pc \in {"connecting", "wait", "calling", "flushing", "closing", "exited"}
    /\ messageQueue \in Seq(Prompt)
    /\ call \in CallTool \union {NoCall}
    /\ wasCreated \in BOOLEAN /\ currentModeHash \in Mode \union {NoMode}
    /\ connected \in BOOLEAN /\ sessionId \in 0..Len(sessions)
    /\ storedSessionIdForResume \in 0..Len(sessions)
    /\ shouldExit \in BOOLEAN /\ killing \in {"no", "flushing", "closing"}
    /\ thinking \in BOOLEAN /\ announced \in BOOLEAN
    /\ section \in Section /\ shown \in Seq(Nat)
    /\ previousDiff \in Diff \union {NoDiff}
    /\ pendingRequests \subseteq Call /\ requests \subseteq Call
    /\ completedRequests \in [Call -> Outcome] /\ decided \in [Call -> Outcome]
    /\ alive \in BOOLEAN
    /\ sessions \in Seq(Session(1..MaxPrompts))
    /\ tasks \in Seq(Task)
    /\ ledAstray \in BOOLEAN
    /\ pushed \in 0..MaxPrompts /\ settled \subseteq 1..MaxPrompts
    /\ aborts \in 0..MaxAborts /\ events \in 0..MaxInputs

\* runCodex up to client.connect.
Init ==
    /\ pc = "connecting" /\ messageQueue = << >> /\ call = NoCall
    /\ wasCreated = FALSE /\ currentModeHash = NoMode
    /\ connected = FALSE /\ sessionId = 0 /\ storedSessionIdForResume = 0
    /\ shouldExit = FALSE /\ killing = "no"
    /\ thinking = FALSE /\ announced = TRUE
    /\ section = NoSection /\ shown = << >> /\ previousDiff = NoDiff
    /\ pendingRequests = {} /\ requests = {}
    /\ completedRequests = [c \in Call |-> "no"] /\ decided = [c \in Call |-> "no"]
    /\ alive = FALSE /\ sessions = << >> /\ tasks = << >>
    /\ ledAstray = FALSE /\ pushed = 0 /\ settled = {} /\ aborts = 0 /\ events = 0

Runs == pc # "exited"

---------------------------------------------------------------------------
(* The processors of reasoning and of diffs.                               *)

Reason(left, messages) ==
    /\ section' = left
    /\ shown' = SeenAll(shown, messages)

\* reasoningProcessor.abort
BreakOff == Reason(NoSection, SentByBreakingOff(section))

\* processDiff: a diff that is not the last one is a call that is over at once.
ProcessDiff(d) ==
    /\ previousDiff' = d
    /\ shown' = IF d = previousDiff THEN shown
                ELSE SeenAll(shown, <<ToolCall(Fresh(shown)), ToolResult(Fresh(shown))>>)

---------------------------------------------------------------------------
(* BasePermissionHandler and CodexPermissionHandler. Updates of the agent   *)
(* state are stored in the order of the calls (module SessionState).       *)

HandleToolCall(c) ==
    /\ pendingRequests' = pendingRequests \union {c}
    /\ requests' = requests \union {c}
    /\ UNCHANGED <<completedRequests, decided>>

Answer(c, outcome) ==
    /\ requests' = requests \ {c}
    /\ completedRequests' = IF c \in requests THEN [completedRequests EXCEPT ![c] = outcome]
                            ELSE completedRequests

\* The RPC 'permission'. Codex is told no, too, when the user chose to abort.
AnswerPermission(c, outcome) ==
    /\ Runs
    /\ c \in pendingRequests
    /\ pendingRequests' = pendingRequests \ {c}
    /\ decided' = [decided EXCEPT ![c] = outcome]
    /\ Answer(c, outcome)
    /\ UNCHANGED <<loopVars, clientVars, exitVars, shownVars, codexVars, historyVars>>

\* Whoever waits is told no.
RejectPending ==
    /\ pendingRequests' = {}
    /\ decided' = [c \in Call |-> IF c \in pendingRequests THEN "canceled" ELSE decided[c]]

\* Variant: what is shown is left to the answers.
ResetUnshown == RejectPending /\ UNCHANGED <<requests, completedRequests>>

\* And everything shown as a request is shown as canceled.
ResetPermissions ==
    /\ RejectPending
    /\ requests' = {}
    /\ completedRequests' = [c \in Call |-> IF c \in requests THEN "canceled"
                                            ELSE completedRequests[c]]

---------------------------------------------------------------------------
(* Codex, and what the session makes of its events.                        *)

OverIn(session) == [status |-> "over", session |-> session]

Interrupted(t) == t < Len(tasks) \/ pc # "calling"
Becomes(t, status) == tasks' = [tasks EXCEPT ![t].status = status]

Event(t) ==
    /\ Runs /\ alive
    /\ t \in DOMAIN tasks
    /\ UNCHANGED <<loopVars, exitVars, connected, storedSessionIdForResume, alive, pushed, settled, aborts>>

\* updateIdentifiersFromEvent: an event that names its session makes it the client's.
NamesSession(t) ==
    /\ sessionId' \in {sessionId, tasks[t].session}
    /\ ledAstray' = (ledAstray \/ sessionId' # sessionId)

\* session_configured: the client knows the session from now on. A session that goes on
\* from another's transcript remembers what that one does.
SessionConfigured(t) ==
    /\ Event(t)
    /\ tasks[t].status = "asked"
    /\ LET from == tasks[t].from
           knows == IF from = 0 THEN {} ELSE sessions[from].knows
       IN  sessions' = Append(sessions, [mode |-> tasks[t].mode, knows |-> knows])
    /\ sessionId' = Len(sessions')
    /\ ledAstray' = Interrupted(t)
    /\ tasks' = [tasks EXCEPT ![t] = [status |-> "configured", session |-> Len(sessions')]]
    /\ UNCHANGED <<shownVars, permissionVars, events>>

TaskStarted(t) ==
    /\ Event(t)
    /\ tasks[t].status = "configured"
    /\ Becomes(t, "started")
    /\ thinking' = TRUE
    /\ NamesSession(t)
    /\ UNCHANGED <<announced, section, shown, previousDiff, permissionVars, sessions, events>>

\* task_complete, or turn_aborted.
TaskOver(t) ==
    /\ Event(t)
    /\ tasks[t].status = "started" \/ (tasks[t].status = "configured" /\ Interrupted(t))
    /\ Becomes(t, "over")
    /\ announced' = TRUE
    /\ thinking' = FALSE
    /\ previousDiff' = NoDiff
    /\ NamesSession(t)
    /\ UNCHANGED <<section, shown, permissionVars, sessions, events>>

\* What a task does while it is on. Messages, commands, patches, token counts and errors
\* are passed on to the devices as they come.
TaskEvent(t) ==
    /\ Event(t)
    /\ tasks[t].status = "started"
    /\ 2 * pushed + events < MaxInputs
    /\ events' = events + 1
    /\ NamesSession(t)
    /\ UNCHANGED <<thinking, announced, sessions, tasks>>

ReasoningDelta(t, chunk) ==
    /\ TaskEvent(t)
    /\ Reason(Processed(section, chunk, Fresh(shown)), SentByProcessing(section, chunk, Fresh(shown)))
    /\ UNCHANGED <<previousDiff, permissionVars>>

\* Variant: a new section forgets the call of the last one.
SectionBreakUnfinished(t) ==
    /\ TaskEvent(t)
    /\ Reason(NoSection, << >>)
    /\ UNCHANGED <<previousDiff, permissionVars>>

\* agent_reasoning_section_break
SectionBreak(t) ==
    /\ TaskEvent(t)
    /\ BreakOff
    /\ UNCHANGED <<previousDiff, permissionVars>>

\* agent_reasoning, with the section's whole text.
ReasoningComplete(t, text) ==
    /\ TaskEvent(t)
    /\ Reason(Completed(section, text), SentByCompleting(section, text, Fresh(shown)))
    /\ UNCHANGED <<previousDiff, permissionVars>>

TurnDiff(t, d) ==
    /\ TaskEvent(t)
    /\ ProcessDiff(d)
    /\ UNCHANGED <<section, permissionVars>>

\* An elicitation about a call that no permission was asked for yet. Those of safe tools
\* are approved, and those without an id denied, at once.
Elicitation(t, c) ==
    /\ TaskEvent(t)
    /\ decided[c] = "no" /\ c \notin pendingRequests
    /\ HandleToolCall(c)
    /\ UNCHANGED <<section, shown, previousDiff>>

---------------------------------------------------------------------------
(* The user's devices.                                                     *)

\* Variant: the first prompt has no number.
NumberedFromZero(m) == [id |-> pushed, mode |-> m]

Numbered(m) == [id |-> pushed + 1, mode |-> m]

\* onUserMessage
Push(m) ==
    /\ Runs
    /\ pushed < MaxPrompts /\ 2 * (pushed + 1) + events <= MaxInputs
    /\ pushed' = pushed + 1
    /\ messageQueue' = Append(messageQueue, Numbered(m))
    /\ UNCHANGED <<pc, call, wasCreated, currentModeHash, clientVars, exitVars, shownVars,
                   permissionVars, codexVars, ledAstray, settled, aborts, events>>

---------------------------------------------------------------------------
(* The end of a call.                                                      *)

StoreForResume ==
    storedSessionIdForResume' = IF sessionId # 0 THEN sessionId ELSE storedSessionIdForResume

\* Variant: 'ready' only when Codex said that its task is over.
EmitReadyNever(exits) == UNCHANGED announced

EmitReadyIfIdle(exits) == announced' = (announced \/ (~exits /\ messageQueue = << >>))

\* The turn's finally.
TurnEnd(exits) ==
    /\ ResetPermissions
    /\ BreakOff
    /\ previousDiff' = NoDiff
    /\ thinking' = FALSE
    /\ EmitReadyIfIdle(exits)
    /\ settled' = settled \union call.batch
    /\ call' = NoCall
    /\ pc' = IF exits THEN "flushing" ELSE "wait"

\* A call that fails otherwise than by an abort ends its turn, too. Where there is none,
\* nothing happens.
CallFails ==
    IF pc = "calling"
    THEN StoreForResume /\ TurnEnd(shouldExit)
    ELSE UNCHANGED <<pc, call, storedSessionIdForResume, shownVars, permissionVars, settled>>

CallFailsUnchanged ==
    UNCHANGED <<messageQueue, wasCreated, currentModeHash, sessionId, shouldExit, sessions,
                ledAstray, pushed, aborts, events>>

\* Codex answers when the task is over. The answer may name the session again.
Answered(named) ==
    /\ pc = "calling" /\ alive
    /\ LET task == tasks[Len(tasks)] IN
           /\ task.status = "over"
           /\ sessionId' = IF named THEN task.session ELSE sessionId
           /\ sessions' = [sessions EXCEPT ![task.session].knows = @ \union call.batch]
    /\ wasCreated' = TRUE
    /\ TurnEnd(shouldExit)
    /\ UNCHANGED <<messageQueue, currentModeHash, connected, storedSessionIdForResume, exitVars,
                   alive, tasks, ledAstray, pushed, aborts, events>>

\* Codex answers with an error, or too late.
Fails(over) ==
    /\ pc = "calling"
    /\ CallFails
    /\ IF over THEN tasks' = [tasks EXCEPT ![Len(tasks)] = OverIn(0)] ELSE UNCHANGED tasks
    /\ UNCHANGED <<connected, killing, alive>>
    /\ CallFailsUnchanged

\* Its process is gone, by itself or by client.close: a call fails at once. The client
\* stays connected.
CodexGone ==
    /\ alive' = FALSE
    /\ tasks' = [t \in DOMAIN tasks |-> OverIn(0)]
    /\ CallFails

CodexExits ==
    /\ Runs /\ alive
    /\ CodexGone
    /\ UNCHANGED <<connected, killing>>
    /\ CallFailsUnchanged

---------------------------------------------------------------------------
(* handleAbort, handleKillSession and the end.                             *)

HandleAbort(exits) ==
    /\ Runs
    /\ aborts < MaxAborts
    /\ aborts' = aborts + 1
    /\ StoreForResume
    /\ shouldExit' = exits
    /\ IF pc = "calling"
       THEN TurnEnd(exits)
       ELSE /\ BreakOff
            /\ pc' = IF exits /\ pc = "wait" THEN "flushing" ELSE pc
            /\ UNCHANGED <<call, thinking, announced, previousDiff, permissionVars, settled>>
    /\ UNCHANGED <<messageQueue, wasCreated, currentModeHash, connected, sessionId, codexVars,
                   ledAstray, pushed, events>>

\* The RPC 'abort'.
Abort == HandleAbort(shouldExit) /\ UNCHANGED killing

\* Ctrl-C twice in the terminal.
Exit == ~shouldExit /\ HandleAbort(TRUE) /\ UNCHANGED killing

\* The RPC 'killSession'. The loop goes on until the process exits.
Kill == killing = "no" /\ HandleAbort(shouldExit) /\ killing' = "flushing"

\* forceCloseSession, after the goodbyes.
KillCloses ==
    /\ Runs
    /\ killing = "flushing"
    /\ killing' = "closing"
    /\ CodexGone
    /\ UNCHANGED connected
    /\ CallFailsUnchanged

ExitUnchanged ==
    UNCHANGED <<messageQueue, call, currentModeHash, storedSessionIdForResume, exitVars, shownVars,
                permissionVars, codexVars, historyVars>>

KillEnds ==
    /\ Runs
    /\ killing = "closing"
    /\ pc' = "exited"
    /\ connected' = FALSE /\ sessionId' = 0
    /\ UNCHANGED wasCreated
    /\ ExitUnchanged

\* The last finally: the goodbyes, then forceCloseSession.
Cleanup ==
    /\ pc = "flushing"
    /\ pc' = "closing"
    /\ alive' = FALSE
    /\ tasks' = [t \in DOMAIN tasks |-> OverIn(0)]
    /\ UNCHANGED <<messageQueue, call, wasCreated, currentModeHash, clientVars, exitVars, shownVars,
                   permissionVars, sessions, historyVars>>

CleanedUp ==
    /\ pc = "closing"
    /\ pc' = "exited"
    /\ connected' = FALSE /\ sessionId' = 0
    /\ UNCHANGED wasCreated
    /\ ExitUnchanged

---------------------------------------------------------------------------
(* The main loop.                                                          *)

\* client.connect, which fails when there is no Codex to run.
Connect(fails) ==
    /\ pc = "connecting"
    /\ connected' = ~fails /\ alive' = ~fails
    /\ pc' = IF fails \/ shouldExit THEN "flushing" ELSE "wait"
    /\ UNCHANGED <<messageQueue, call, wasCreated, currentModeHash, sessionId,
                   storedSessionIdForResume, exitVars, shownVars, permissionVars, sessions, tasks,
                   historyVars>>

\* The queue's first prompts of one mode, as one.
Batch ==
    {i \in 1..Len(messageQueue) : \A j \in 1..i : messageQueue[j].mode = messageQueue[1].mode}

\* Variant: a prompt of the next mode is taken with the batch and left out.
RestButOne == SubSeq(messageQueue, Cardinality(Batch) + 2, Len(messageQueue))

Rest == SubSeq(messageQueue, Cardinality(Batch) + 1, Len(messageQueue))

Take ==
    /\ pc = "wait"
    /\ messageQueue # << >>
    /\ messageQueue' = Rest
    /\ currentModeHash' = messageQueue[1].mode
    /\ pc' = "calling"
    /\ announced' = FALSE
    /\ UNCHANGED <<connected, exitVars, alive, sessions, historyVars>>

\* callTool, which fails at once when Codex is gone.
CallCodex(kind, from, task) ==
    /\ call' = [kind |-> kind, batch |-> {messageQueue[i].id : i \in Batch},
                mode |-> messageQueue[1].mode, from |-> from]
    /\ tasks' = Append(tasks, IF alive THEN task ELSE OverIn(0))

\* Variant: a session is continued whatever its mode.
ModeNeverChanges == FALSE

ModeChanged == wasCreated /\ messageQueue[1].mode # currentModeHash

FindCodexResumeFile(s) == IF Transcripts THEN s ELSE 0

StartedFrom(previous) == IF previous # 0 THEN previous ELSE FindCodexResumeFile(storedSessionIdForResume)

\* startSession with the prompt, from the transcript of the previous session, or of the one
\* an abort or an error stored.
StartSession(previous) ==
    /\ LET from == StartedFrom(previous)
       IN  CallCodex("start", from,
                     [status |-> "asked", mode |-> messageQueue[1].mode, from |-> from])
    /\ storedSessionIdForResume' = IF previous # 0 THEN storedSessionIdForResume ELSE 0

TakeAndStart ==
    /\ Take
    /\ ~wasCreated
    /\ StartSession(0)
    /\ UNCHANGED <<wasCreated, sessionId, thinking, section, shown, previousDiff, permissionVars>>

\* Another mode: the session is left for another that starts from its transcript.
TakeAndRestart ==
    /\ Take
    /\ ModeChanged
    /\ StartSession(FindCodexResumeFile(sessionId))
    /\ wasCreated' = FALSE /\ sessionId' = 0
    /\ ResetPermissions
    /\ BreakOff
    /\ previousDiff' = NoDiff
    /\ thinking' = FALSE

TakeAndContinue ==
    /\ Take
    /\ wasCreated /\ ~ModeChanged
    /\ CallCodex("continue", sessionId,
                 IF sessionId = 0 THEN OverIn(0)
                 ELSE [status |-> "configured", session |-> sessionId])
    /\ UNCHANGED <<wasCreated, sessionId, storedSessionIdForResume, thinking, section, shown,
                   previousDiff, permissionVars>>

---------------------------------------------------------------------------

\* The process has exited, or nothing is there to do.
Stops ==
    /\ pc = "exited" \/ (pc = "wait" /\ messageQueue = << >>)
    /\ UNCHANGED vars

Turns ==
    \/ \E fails \in BOOLEAN : Connect(fails)
    \/ TakeAndStart \/ TakeAndRestart \/ TakeAndContinue
    \/ Cleanup \/ CleanedUp

Answers ==
    \/ \E named \in BOOLEAN : Answered(named)
    \/ \E over \in BOOLEAN : Fails(over)

CodexEvents ==
    \E t \in DOMAIN tasks :
        \/ SessionConfigured(t) \/ TaskStarted(t) \/ TaskOver(t)
        \/ \E chunk \in {"plain", "whole"} : ReasoningDelta(t, chunk)
        \/ SectionBreak(t)
        \/ \E text \in {"plain", "titled"} : ReasoningComplete(t, text)
        \/ \E d \in Diff : TurnDiff(t, d)
        \/ \E c \in Call : Elicitation(t, c)

UserSteps ==
    \/ \E m \in Mode : Push(m)
    \/ \E c \in Call, outcome \in {"approved", "denied"} : AnswerPermission(c, outcome)
    \/ Abort \/ Exit \/ Kill

Next ==
    \/ Turns \/ Answers \/ CodexEvents \/ UserSteps \/ CodexExits
    \/ KillCloses \/ KillEnds
    \/ Stops

\* What is due is done: the loop goes on when what it awaits has come; a user answers what
\* is asked; and Codex, which waits for that, answers its call or fails it.
Due ==
    \/ Turns
    \/ pendingRequests = {} /\ Answers
    \/ \E c \in Call : AnswerPermission(c, "approved")

Fairness == WF_vars(Due)

Spec == Init /\ [][Next]_vars /\ Fairness

---------------------------------------------------------------------------
(* What the session promises.                                              *)

\* "Get next batch; respect mode boundaries like Claude" (runCodex.ts): a prompt is given to
\* a session that was started in the prompt's own mode - another may mean a sandbox that
\* forbids less.
ModeBoundariesAreRespected ==
    pc = "calling" /\ call.kind = "continue" =>
        call.from # 0 /\ sessions[call.from].mode = call.mode

\* They are, through changes of mode, aborts, failures and transcripts, as long as no task
\* that was given up leads the client back to its session by naming it. (One that does is
\* not excluded: see ModeBoundariesAreRespected.)
ServedInItsMode == ~ledAstray => ModeBoundariesAreRespected

\* A thought that is shown as a tool call has one result, unless it is the one that goes
\* on, which has none yet: also when tasks that were given up go on thinking.
EveryThoughtIsClosed ==
    \A c \in 1..Len(shown) : shown[c] = IF c = section.call THEN 0 ELSE 1

\* Every prompt is answered for in the end, or the session is over.
EveryPromptIsSettled == []<>(1..pushed \subseteq settled \/ pc = "exited")
====
