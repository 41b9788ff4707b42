---- MODULE GeminiSession ----
(***************************************************************************)
(* A Gemini session (src/gemini/runGemini.ts): the loop that takes a batch *)
(* of prompts, gives it to an agent behind the Agent Client Protocol, and  *)
(* tells the user's devices what comes of it. Beside the loop run the      *)
(* backend's events, the users' prompts and answers to permission          *)
(* requests (GeminiPermissionHandler over BasePermissionHandler), aborts,  *)
(* and the two ways to end the session.                                    *)
(*                                                                         *)
(* The backend is created with the model of the prompt it is first needed  *)
(* for, and another mode takes another backend. One JavaScript thread runs *)
(* all this: a loop that never waits for an event lets nothing else run.   *)
(***************************************************************************)
EXTENDS AcpBackend

CONSTANTS
    Mode,           \* a permission mode with a model
    AutoApproving,  \* those whose permission mode approves every tool
    NoMode,
    MaxPrompts,     \* bound: prompts of the user
    MaxAborts       \* bound: aborts, those included that end the session

ASSUME GeminiSessionAssumption ==
    /\ AutoApproving \subseteq Mode /\ NoMode \notin Mode
    /\ MaxPrompts \in Nat /\ MaxAborts \in Nat

VARIABLES
    pc,                 \* what the main loop awaits
    messageQueue,
    batch,              \* the prompts of the turn
    mode,               \* and their mode
    geminiBackend,      \* the mode the backend was created for
    wasSessionCreated,
    currentModeHash,
    permissionMode,     \* what the permission handler goes by
    pendingRequests,    \* calls whose permission the user is asked for
    aborted,            \* whether the current signal is aborted
    aborting,           \* whether handleAbort awaits the cancellation
    shouldExit,
    killing,            \* how far handleKillSession is
    pushed, settled, aborts     \* history

Prompt == [id : 1..MaxPrompts, mode : Mode]

loopVars == <<pc, messageQueue, batch, mode>>
backendVars == <<geminiBackend, wasSessionCreated, currentModeHash>>
abortVars == <<aborted, aborting, shouldExit, killing>>
historyVars == <<pushed, settled, aborts>>
vars == <<acpVars, loopVars, backendVars, permissionMode, pendingRequests, turn, abortVars,
          historyVars>>

\* The types of every variable, the backend's among them.
TypeOK ==
    /\ AcpTypeOK
    /\ pc \in {"wait", "disposing", "restarting", "starting", "prompt", "prompting",
               "responding", "delaying", "turnEnd", "cleanup", "closing", "exited"}
    /\ messageQueue \in Seq(Prompt)
    /\ batch \subseteq 1..MaxPrompts
    /\ {mode, geminiBackend, currentModeHash} \subseteq Mode \union {NoMode}
    /\ permissionMode \in Mode \union {NoMode}
    /\ wasSessionCreated \in BOOLEAN
    /\ pendingRequests \subseteq Tool
    /\ turn \in Turn
    /\ {aborted, aborting, shouldExit} \subseteq BOOLEAN
    /\ killing \in {"no", "aborting", "disposing", "exiting"}
    /\ pushed \in 0..MaxPrompts
    /\ settled \subseteq 1..pushed
    /\ aborts \in 0..MaxAborts

Init ==
    /\ AcpInit
    /\ pc = "wait" /\ messageQueue = << >> /\ batch = {} /\ mode = NoMode
    /\ geminiBackend = NoMode /\ wasSessionCreated = FALSE /\ currentModeHash = NoMode
    /\ permissionMode = NoMode
    /\ pendingRequests = {}
    /\ turn = NoTurn
    /\ aborted = FALSE /\ aborting = FALSE /\ shouldExit = FALSE /\ killing = "no"
    /\ pushed = 0 /\ settled = {} /\ aborts = 0

---------------------------------------------------------------------------

\* The loop goes round on an aborted signal without ever waiting for an event.
Spinning == pc = "wait" /\ messageQueue = << >> /\ aborted /\ ~shouldExit

Runs == pc # "exited" /\ ~Spinning

---------------------------------------------------------------------------
(* The user's devices.                                                     *)

\* onUserMessage: the permission mode holds at once, whatever turn is on.
Push(m) ==
    /\ Runs
    /\ pushed < MaxPrompts
    /\ pushed' = pushed + 1
    /\ messageQueue' = Append(messageQueue, [id |-> pushed', mode |-> m])
    /\ permissionMode' = m
    /\ Quiet
    /\ UNCHANGED <<quietVars, pc, batch, mode, backendVars, pendingRequests, turn, abortVars, settled, aborts>>

\* The RPC 'permission'.
AnswerPermission(t) ==
    /\ Runs
    /\ t \in pendingRequests
    /\ pendingRequests' = pendingRequests \ {t}
    /\ PermissionDecided(t)
    /\ UNCHANGED <<loopVars, backendVars, permissionMode, abortVars, historyVars>>

ShouldAutoApprove == permissionMode \in AutoApproving

\* handleToolCall, which the backend's requestPermission calls.
HandleToolCall(t) ==
    /\ Runs
    /\ RequestPermission(t, ShouldAutoApprove)
    /\ pendingRequests' = IF ShouldAutoApprove THEN pendingRequests ELSE pendingRequests \union {t}
    /\ UNCHANGED <<loopVars, backendVars, permissionMode, abortVars, historyVars>>

---------------------------------------------------------------------------
(* handleAbort.                                                            *)

Drop == settled' = settled \union {messageQueue[i].id : i \in 1..Len(messageQueue)}

\* Up to the cancellation, and, when the agent takes it at once, to the end: the waiting
\* loop goes on with a signal that is not aborted.
BeginAbort(atOnce) ==
    /\ Runs
    /\ ~aborting /\ aborts < MaxAborts
    /\ aborts' = aborts + 1
    /\ messageQueue' = << >>
    /\ Drop
    /\ IF geminiBackend = NoMode \/ ~acpSession
       THEN /\ turn' = BrokenOff(turn)
            /\ UNCHANGED <<aborted, aborting, quietVars>>
       ELSE IF atOnce
       THEN /\ process \in alive
            /\ Cancelled(BrokenOff(turn))
            /\ UNCHANGED <<aborted, aborting>>
       ELSE /\ aborted' = TRUE /\ aborting' = TRUE
            /\ turn' = BrokenOff(turn)
            /\ UNCHANGED quietVars
    /\ UNCHANGED <<batch, mode, backendVars, permissionMode, pendingRequests, pushed>>

\* The RPC 'abort'.
Abort(atOnce) ==
    /\ BeginAbort(atOnce)
    /\ UNCHANGED <<pc, shouldExit, killing>>

\* The agent was told, or could not be: another signal takes the aborted one's place.
AbortEnds ==
    /\ aborting /\ Runs
    /\ aborted' = FALSE /\ aborting' = FALSE
    /\ Cancelled(turn) \/ (process \notin alive /\ UNCHANGED acpVars)
    /\ UNCHANGED <<loopVars, backendVars, permissionMode, pendingRequests, shouldExit, killing, historyVars>>

\* Ctrl-C twice in the terminal. A loop that waits leaves.
Exit(atOnce) ==
    /\ ~shouldExit
    /\ BeginAbort(atOnce)
    /\ shouldExit' = TRUE
    /\ pc' = IF pc = "wait" THEN "cleanup" ELSE pc
    /\ UNCHANGED killing

\* The RPC 'killSession': an abort, the goodbyes, the backend, and the process's exit,
\* while the loop goes on.
Kill(atOnce) ==
    /\ killing = "no"
    /\ BeginAbort(atOnce)
    /\ killing' = "aborting"
    /\ UNCHANGED <<pc, shouldExit>>

\* dispose returns at once when the loop disposes of the backend already.
KillDisposes ==
    /\ Runs
    /\ killing = "aborting" /\ ~aborting
    /\ IF geminiBackend # NoMode /\ disposal = "no"
       THEN Dispose /\ killing' = "disposing"
       ELSE killing' = "exiting" /\ UNCHANGED acpVars
    /\ UNCHANGED <<loopVars, backendVars, permissionMode, pendingRequests, aborted, aborting,
                   shouldExit, historyVars>>

KillEnds ==
    /\ Runs
    /\ killing = "exiting" \/ (killing = "disposing" /\ disposal = "disposed")
    /\ pc' = "exited"
    /\ Quiet
    /\ UNCHANGED <<quietVars, messageQueue, batch, mode, backendVars, permissionMode, pendingRequests, turn, abortVars, historyVars>>

---------------------------------------------------------------------------
(* The main loop.                                                          *)

LoopUnchanged == UNCHANGED <<permissionMode, abortVars, pushed, aborts>>

\* The queue's first prompts of one mode, as one.
Batch ==
    {i \in 1..Len(messageQueue) : \A j \in 1..i : messageQueue[j].mode = messageQueue[1].mode}

Take ==
    /\ pc = "wait"
    /\ Runs
    /\ messageQueue # << >>
    /\ batch' = {messageQueue[i].id : i \in Batch}
    /\ mode' = messageQueue[1].mode
    /\ messageQueue' = SubSeq(messageQueue, Cardinality(Batch) + 1, Len(messageQueue))

\* The factory's backend has the mode's model for good.
CreateGeminiBackend(m) == geminiBackend' = m

Restarts == wasSessionCreated /\ currentModeHash # NoMode /\ mode' # currentModeHash

\* Another mode: permissions and thoughts are broken off, and the backend is disposed of,
\* unless that is done or under way.
TakeAndDispose ==
    /\ Take
    /\ Restarts
    /\ pc' = "disposing"
    /\ pendingRequests' = {}
    /\ turn' = BrokenOff(turn)
    /\ asking' = asking \ pendingRequests
    /\ disposal' = IF disposal # "no" THEN disposal ELSE IF acpSession THEN "cancelling" ELSE "killing"
    /\ UNCHANGED <<startVars, acpSession, toolVars, waitVars, prompt, cancelled, updates,
                   backendVars, settled>>
    /\ LoopUnchanged

\* The mode that is there: its session is used. A session that was not created yet is
\* started, with the backend that is there if there is one.
TakeAndPrompt ==
    /\ Take
    /\ ~Restarts
    /\ wasSessionCreated
    /\ pc' = "prompt"
    /\ currentModeHash' = mode'
    /\ Quiet
    /\ UNCHANGED <<quietVars, geminiBackend,
                   wasSessionCreated, pendingRequests, turn, settled>>
    /\ LoopUnchanged

TakeAndStart ==
    /\ Take
    /\ ~wasSessionCreated
    /\ pc' = "starting"
    /\ currentModeHash' = mode'
    /\ IF geminiBackend = NoMode THEN CreateGeminiBackend(mode') ELSE UNCHANGED geminiBackend
    /\ permissionMode' = mode'
    /\ StartSession
    /\ UNCHANGED <<wasSessionCreated, pendingRequests, abortVars, pushed, settled, aborts>>

\* The backend that is being killed refuses.
TakeInVain ==
    /\ Take
    /\ ~Restarts
    /\ disposal # "no" /\ ~wasSessionCreated
    /\ pc' = "turnEnd"
    /\ currentModeHash' = mode'
    /\ Quiet
    /\ UNCHANGED <<quietVars, geminiBackend,
                   wasSessionCreated, pendingRequests, turn, settled>>
    /\ LoopUnchanged

\* The loop awaits a disposal that it began itself. Where handleKillSession did, dispose
\* returns at once.
DisposeReturns == disposal = "disposed" \/ killing = "disposing"

\* The new backend's model is the new mode's. handleKillSession goes on to await the end of
\* the old one.
Restart ==
    /\ pc = "disposing" /\ Runs
    /\ DisposeReturns
    /\ StartAnew
    /\ killing' = IF killing = "disposing" THEN "exiting" ELSE killing
    /\ pc' = "restarting"
    /\ CreateGeminiBackend(mode)
    /\ UNCHANGED <<messageQueue, batch, mode, wasSessionCreated, currentModeHash, permissionMode,
                   pendingRequests, aborted, aborting, shouldExit, historyVars>>

\* The session is there.
Started ==
    /\ pc \in {"starting", "restarting"} /\ Runs
    /\ SessionCreated
    /\ pc' = "prompt"
    /\ wasSessionCreated' = TRUE
    /\ currentModeHash' = mode
    /\ permissionMode' = mode
    /\ UNCHANGED <<messageQueue, batch, mode, geminiBackend, pendingRequests, abortVars,
                   historyVars>>

\* It is not: the turn ends, and with a new mode's backend the session does.
StartFails ==
    /\ pc \in {"starting", "restarting"} /\ Runs
    /\ StartGivesUp
    /\ pc' = IF pc = "restarting" THEN "cleanup" ELSE "turnEnd"
    /\ UNCHANGED <<messageQueue, batch, mode, backendVars, pendingRequests, settled>>
    /\ LoopUnchanged

Starts == Runs /\ (Initialized \/ StartRetried)
          /\ UNCHANGED <<loopVars, backendVars, permissionMode, pendingRequests, abortVars, historyVars>>

\* The prompt of a new turn, or of another try.
GivePrompt ==
    /\ pc \in {"prompt", "delaying"} /\ Runs
    /\ SendPrompt(IF pc = "prompt" THEN Begun(turn) ELSE [turn EXCEPT !.tries = @ + 1])
    /\ pc' = "prompting"
    /\ UNCHANGED <<messageQueue, batch, mode, backendVars, pendingRequests, settled>>
    /\ LoopUnchanged

\* A backend that is disposed of takes none.
GiveInVain ==
    /\ pc \in {"prompt", "delaying"} /\ Runs
    /\ disposal # "no"
    /\ pc' = "turnEnd"
    /\ turn' = IF pc = "prompt" THEN Begun(turn) ELSE turn
    /\ UNCHANGED <<quietVars, messageQueue, batch, mode, backendVars, pendingRequests, settled>>
    /\ LoopUnchanged

Answered ==
    /\ pc = "prompting" /\ Runs
    /\ PromptAnswered
    /\ pc' = "responding"
    /\ UNCHANGED <<messageQueue, batch, mode, backendVars, pendingRequests, settled>>
    /\ LoopUnchanged

PromptErrorUpTo(retryable, last) ==
    /\ pc = "prompting" /\ Runs
    /\ PromptFails
    /\ pc' = IF retryable /\ turn.tries < last THEN "delaying" ELSE "turnEnd"
    /\ UNCHANGED <<messageQueue, batch, mode, backendVars, pendingRequests, settled>>
    /\ LoopUnchanged

\* Variant: one try too many.
PromptErrorOnceMore(retryable) == PromptErrorUpTo(retryable, MaxTries + 1)

\* An error of the prompt: some are worth another try.
PromptError(retryable) == PromptErrorUpTo(retryable, MaxTries)

\* waitForResponseComplete returns or throws.
ResponseComplete ==
    /\ pc = "responding" /\ Runs
    /\ ~idleResolver
    /\ pc' = "turnEnd"
    /\ Quiet
    /\ UNCHANGED <<quietVars, messageQueue, batch, mode, backendVars, pendingRequests, turn, settled>>
    /\ LoopUnchanged

\* The turn's finally: permissions that are still asked for are given up, thoughts broken
\* off, and the answer is sent.
TurnEnd ==
    /\ pc = "turnEnd" /\ Runs
    /\ asking' = asking \ pendingRequests
    /\ pendingRequests' = {}
    /\ turn' = Ended(turn)
    /\ settled' = settled \union batch
    /\ batch' = {} /\ mode' = NoMode
    /\ pc' = IF shouldExit THEN "cleanup" ELSE "wait"
    /\ UNCHANGED <<startVars, acpSession, disposal, toolVars, waitVars, prompt, cancelled, updates,
                   messageQueue, backendVars>>
    /\ LoopUnchanged

\* The last finally: the goodbyes, then the backend's disposal.
Cleanup ==
    /\ pc = "cleanup" /\ Runs
    /\ pc' = "closing"
    /\ IF geminiBackend # NoMode /\ disposal = "no"
       THEN Dispose
       ELSE /\ Quiet
            /\ UNCHANGED <<quietVars>>
    /\ UNCHANGED <<messageQueue, batch, mode, backendVars, pendingRequests, turn, settled>>
    /\ LoopUnchanged

CleanedUp ==
    /\ pc = "closing" /\ Runs
    /\ geminiBackend = NoMode \/ DisposeReturns
    /\ pc' = "exited"
    /\ Quiet
    /\ UNCHANGED <<quietVars, messageQueue, batch, mode, backendVars, pendingRequests, turn, settled>>
    /\ LoopUnchanged

---------------------------------------------------------------------------

OthersUnchanged ==
    UNCHANGED <<loopVars, backendVars, permissionMode, pendingRequests, abortVars, historyVars>>

\* What the backend and its agent do by themselves.
BackendSteps == Runs /\ (AgentUpdates \/ Timers \/ ProcessExits \/ SpawnFails) /\ OthersUnchanged

Deadlines == Runs /\ (ResponseTimesOut \/ DisposeKills \/ Disposed) /\ OthersUnchanged

\* The process has exited, or the loop waits for a prompt that may never come, or it is
\* busy with itself for ever.
Stops == (pc = "exited" \/ (pc = "wait" /\ messageQueue = << >>)) /\ UNCHANGED vars

Turns ==
    \/ TakeAndDispose \/ TakeAndPrompt \/ TakeAndStart \/ TakeInVain \/ Restart \/ Started \/ StartFails
    \/ Starts \/ GivePrompt \/ GiveInVain \/ ResponseComplete \/ TurnEnd \/ Cleanup \/ CleanedUp

\* The agent answers, or its protocol's library gives the prompt up.
Answers == Answered \/ (\E retryable \in BOOLEAN : PromptError(retryable))

UserSteps ==
    \/ \E m \in Mode : Push(m)
    \/ \E t \in Tool : AnswerPermission(t)
    \/ \E atOnce \in BOOLEAN : Abort(atOnce) \/ Exit(atOnce) \/ Kill(atOnce)

Next ==
    \/ Turns \/ Answers \/ UserSteps \/ BackendSteps \/ Deadlines
    \/ \E t \in Tool : HandleToolCall(t)
    \/ AbortEnds \/ KillDisposes \/ KillEnds
    \/ Stops

\* The loop goes on when what it awaits has come; the timers of a response and of a
\* disposal fire; a user answers what is asked; and an agent that asks for nothing, or was
\* told to stop, or is dead, answers its prompt or fails it.
Fairness ==
    /\ WF_vars(Turns)
    /\ WF_vars((asking = {} \/ cancelled \/ process \notin alive) /\ Answers)
    /\ WF_vars(Deadlines \/ AbortEnds \/ KillDisposes \/ KillEnds)
    /\ WF_vars(\E t \in Tool : AnswerPermission(t))

Spec == Init /\ [][Next]_vars /\ Fairness

---------------------------------------------------------------------------
(* What the session promises.                                              *)

\* An answer is sent whole at the end of its turn, and it is the text of one try: what a
\* try said before it failed is not in front of the next one's.
AnswerIsOneTrys == turn.output \subseteq {turn.tries}

\* Between turns nothing is left open on the user's devices: no permission is asked for,
\* every thought shown as a tool call has had exactly one result, and the agent is not
\* shown as thinking.
\* The agent's own tool calls are not meant: one that a failed or timed-out try leaves
\* unfinished stays shown without a result.
TurnLeavesNothingOpen ==
    pc = "wait" =>
        /\ pendingRequests = {}
        /\ turn.section.call = 0
        /\ \A call \in 1..Len(turn.shown) : turn.shown[call] = 1
        /\ ~turn.thinking

\* Every prompt is answered for in the end, by its turn, by an abort, or by the end of the
\* session, unless the thread is lost in the loop that an abort begins.
EveryPromptIsSettled == []<>(1..pushed \subseteq settled \/ pc = "exited" \/ Spinning)

\* An abort leaves the session active: while its cancellation is awaited, the thread is not
\* lost in the loop. (runGemini.ts:365 "Abort completed - session remains active".)
AbortLeavesItActive == ~Spinning
====
