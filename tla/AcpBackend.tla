---- MODULE AcpBackend ----
(***************************************************************************)
(* An agent behind the Agent Client Protocol (src/agent/acp/AcpBackend.ts  *)
(* and sessionUpdateHandlers.ts): its process, the session with it, a      *)
(* prompt, the updates that answer it, the tool calls and their timeouts,  *)
(* and the idle status that ends a response, which is deduced from         *)
(* silence. The agent itself is external: it sends updates while it has a  *)
(* prompt to answer, and answers or fails it. A timer is a flag: it may    *)
(* fire at any time while it is set.                                       *)
(*                                                                         *)
(* Who uses the backend here is a Gemini session: its turn takes in what   *)
(* is emitted.                                                             *)
(***************************************************************************)
EXTENDS GeminiTurn, FiniteSets

CONSTANTS
    Tool,           \* ids of tool calls
    MaxAttempts,    \* attempts at each of the two requests that start a session
    MaxProcesses,   \* bound: processes ever spawned
    MaxUpdates      \* bound: updates, permission requests and lines of stderr

ASSUME AcpBackendAssumption ==
    /\ IsFiniteSet(Tool)
    /\ MaxAttempts \in Nat \ {0} /\ MaxProcesses \in Nat \ {0} /\ MaxUpdates \in Nat

VARIABLES
    starting,           \* the request startSession awaits
    attempt,            \* and which attempt at it this is
    process,            \* the process the backend knows; 0 is none
    alive,              \* the processes that run
    acpSession,         \* whether acpSessionId is set
    disposal,           \* how far dispose is
    activeToolCalls, toolCallTimeouts,
    idleTimeout,
    waitingForResponse, idleResolver,
    prompt,             \* whether the agent has a prompt to answer
    asking,             \* the tool calls it awaits a permission for
    cancelled,          \* whether it was told to stop answering
    updates,            \* history: the number of updates
    turn                \* the turn of the session that listens

startVars == <<starting, attempt, process, alive>>
toolVars == <<activeToolCalls, toolCallTimeouts, idleTimeout>>
waitVars == <<waitingForResponse, idleResolver>>
agentVars == <<prompt, asking, cancelled, updates>>
acpVars == <<startVars, acpSession, disposal, toolVars, waitVars, agentVars, turn>>

Status == {"starting", "running", "idle", "stopped", "error"}
Message ==
    [type : Status \union {"output", "plan"}] \union
    [type : {"thought"}, chunk : {"plain", "whole"}] \union
    [type : {"tool-call", "tool-result", "permission-request"}, call : Tool]

AcpTypeOK ==
    /\ starting \in {"no", "initialize", "newSession"}
    /\ attempt \in 1..MaxAttempts
    /\ process \in 0..MaxProcesses /\ alive \subseteq 1..MaxProcesses
    /\ acpSession \in BOOLEAN
    /\ disposal \in {"no", "cancelling", "killing", "disposed"}
    /\ activeToolCalls \subseteq Tool /\ toolCallTimeouts \subseteq Tool
    /\ idleTimeout \in BOOLEAN
    /\ waitingForResponse \in BOOLEAN /\ idleResolver \in BOOLEAN
    /\ prompt \in BOOLEAN
    /\ asking \subseteq Tool /\ cancelled \in BOOLEAN
    /\ updates \in 0..MaxUpdates

\* new AcpBackend.
AcpInit ==
    /\ starting = "no" /\ attempt = 1
    /\ process = 0 /\ alive = {}
    /\ acpSession = FALSE
    /\ disposal = "no"
    /\ activeToolCalls = {} /\ toolCallTimeouts = {} /\ idleTimeout = FALSE
    /\ waitingForResponse = FALSE /\ idleResolver = FALSE
    /\ prompt = FALSE /\ asking = {} /\ cancelled = FALSE /\ updates = 0

---------------------------------------------------------------------------
(* Emitting.                                                               *)

M(type) == [type |-> type]

EmitTo(u, messages) == turn' = IF disposal = "no" THEN HeardAll(u, messages) ELSE u

Emit(messages) == EmitTo(turn, messages)

Quiet == UNCHANGED turn

quietVars == <<startVars, acpSession, disposal, toolVars, waitVars, agentVars>>

\* emit, and emitIdleStatus after it when idle holds: whoever waits for the response is
\* told.
EmitAndIdle(messages, idle) ==
    IF idle
    THEN /\ Emit(Append(messages, M("idle")))
         /\ idleResolver' = FALSE
         /\ waitingForResponse' = (waitingForResponse /\ ~idleResolver)
    ELSE Emit(messages) /\ UNCHANGED waitVars

---------------------------------------------------------------------------
(* startSession.                                                           *)

\* A process is spawned beside others that run, and asked to initialize. One that was
\* known before is forgotten.
Spawn(others) ==
    /\ starting = "no"
    /\ Cardinality(others) < MaxProcesses
    /\ process' = CHOOSE p \in 1..MaxProcesses : p \notin others
    /\ alive' = others \union {process'}
    /\ starting' = "initialize"
    /\ attempt' = 1
    /\ turn' = HeardAll(turn, <<M("starting")>>)

StartSession ==
    /\ disposal = "no"
    /\ Spawn(alive)
    /\ UNCHANGED <<acpSession, disposal, toolVars, waitVars, agentVars>>

\* Another backend takes the place of one that is disposed of, or is being, whose process
\* is left to its end, and starts its session.
StartAnew ==
    /\ disposal # "no"
    /\ disposal' = "no"
    /\ Spawn(alive \ {process})
    /\ acpSession' = FALSE
    /\ activeToolCalls' = {} /\ toolCallTimeouts' = {} /\ idleTimeout' = FALSE
    /\ waitingForResponse' = FALSE /\ idleResolver' = FALSE
    /\ prompt' = FALSE /\ asking' = {}
    /\ UNCHANGED <<cancelled, updates>>

Initialized ==
    /\ starting = "initialize"
    /\ process \in alive
    /\ starting' = "newSession"
    /\ attempt' = 1
    /\ Quiet
    /\ UNCHANGED <<process, alive, acpSession, disposal, toolVars, waitVars, agentVars>>

\* withRetry: a request fails or times out, and is repeated after a delay.
StartRetried ==
    /\ starting # "no"
    /\ attempt < MaxAttempts
    /\ attempt' = attempt + 1
    /\ Quiet
    /\ UNCHANGED <<starting, process, alive, acpSession, disposal, toolVars, waitVars, agentVars>>

\* The last attempt fails: startSession throws. The process is left as it is.
StartGivesUp ==
    /\ starting # "no"
    /\ attempt = MaxAttempts
    /\ starting' = "no" /\ attempt' = 1
    /\ Emit(<<M("error")>>)
    /\ UNCHANGED <<process, alive, acpSession, disposal, toolVars, waitVars, agentVars>>

\* The program cannot be run at all: the requests will not be answered.
SpawnFails ==
    /\ starting = "initialize"
    /\ process \in alive
    /\ alive' = alive \ {process}
    /\ Emit(<<M("error")>>)
    /\ UNCHANGED <<starting, attempt, process, acpSession, disposal, toolVars, waitVars, agentVars>>

SessionCreated ==
    /\ starting = "newSession"
    /\ process \in alive
    /\ starting' = "no" /\ attempt' = 1
    /\ acpSession' = TRUE
    /\ EmitAndIdle(<< >>, TRUE)
    /\ UNCHANGED <<process, alive, disposal, toolVars, agentVars>>

---------------------------------------------------------------------------
(* Updates of the agent, while it answers a prompt.                        *)

Update ==
    /\ prompt
    /\ process \in alive
    /\ updates < MaxUpdates
    /\ updates' = updates + 1
    /\ UNCHANGED <<startVars, acpSession, disposal, prompt, cancelled>>

\* A chunk of the response: more may come, so the idle timeout begins again.
MessageChunk ==
    /\ Update
    /\ Emit(<<M("output")>>)
    /\ idleTimeout' = TRUE
    /\ UNCHANGED <<activeToolCalls, toolCallTimeouts, waitVars, asking>>

\* A chunk in the old form says nothing of the end.
LegacyMessageChunk ==
    /\ Update
    /\ Emit(<<M("output")>>)
    /\ UNCHANGED <<toolVars, waitVars, asking>>

\* A chunk of thought, whichever of its three forms it has: without a title or with one.
ThoughtChunk ==
    /\ Update
    /\ \E chunk \in {"plain", "whole"} : Emit(<<[type |-> "thought", chunk |-> chunk]>>)
    /\ UNCHANGED <<toolVars, waitVars, asking>>

PlanUpdate ==
    /\ prompt /\ process \in alive
    /\ Emit(<<M("plan")>>)
    /\ UNCHANGED <<startVars, acpSession, disposal, toolVars, waitVars, agentVars>>

\* tool_call, or tool_call_update 'pending' or 'in_progress', of a call not known yet.
StartToolCall(t) ==
    /\ Update
    /\ t \notin activeToolCalls
    /\ activeToolCalls' = activeToolCalls \union {t}
    /\ toolCallTimeouts' = toolCallTimeouts \union {t}
    /\ idleTimeout' = FALSE
    /\ Emit(<<M("running"), [type |-> "tool-call", call |-> t]>>)
    /\ UNCHANGED <<waitVars, asking>>

\* completeToolCall and failToolCall: the last call's end is idle, known or not. Timers
\* that are left stay in timeouts.
EndToolCallLeaving(t, timeouts) ==
    /\ Update
    /\ activeToolCalls' = activeToolCalls \ {t}
    /\ toolCallTimeouts' = timeouts
    /\ idleTimeout' = (idleTimeout /\ activeToolCalls' # {})
    /\ EmitAndIdle(<<[type |-> "tool-result", call |-> t]>>, activeToolCalls' = {})
    /\ UNCHANGED asking

\* Variant: the call's timeout is not cleared.
EndToolCallTimed(t) == EndToolCallLeaving(t, toolCallTimeouts)

EndToolCall(t) == EndToolCallLeaving(t, toolCallTimeouts \ {t})

\* The timeout of a tool call.
ToolCallTimesOut(t) ==
    /\ t \in toolCallTimeouts
    /\ activeToolCalls' = activeToolCalls \ {t}
    /\ toolCallTimeouts' = toolCallTimeouts \ {t}
    /\ EmitAndIdle(<< >>, activeToolCalls' = {})
    /\ UNCHANGED <<startVars, acpSession, disposal, idleTimeout, agentVars>>

\* The timeout after the last chunk: idle, unless a tool call is active.
IdleTimeoutFires ==
    /\ idleTimeout
    /\ idleTimeout' = FALSE
    /\ EmitAndIdle(<< >>, activeToolCalls = {})
    /\ UNCHANGED <<startVars, acpSession, disposal, activeToolCalls, toolCallTimeouts, agentVars>>

\* The agent asks for a permission. What the handler decides by itself is shown at once
\* as the call's result; otherwise the user is waited for.
RequestPermission(t, byItself) ==
    /\ Update
    /\ t \notin asking
    /\ asking' = IF byItself THEN asking ELSE asking \union {t}
    /\ Emit(<<[type |-> "permission-request", call |-> t]>> \o
            IF byItself THEN <<[type |-> "tool-result", call |-> t]>> ELSE << >>)
    /\ UNCHANGED <<toolVars, waitVars>>

\* The user's decision reaches the agent, and is shown as the call's result.
PermissionDecided(t) ==
    /\ asking' = asking \ {t}
    /\ Emit(<<[type |-> "tool-result", call |-> t]>>)
    /\ UNCHANGED <<startVars, acpSession, disposal, toolVars, waitVars, prompt, cancelled, updates>>

\* A line of stderr that says that the model was not found; other lines are only logged.
ModelNotFound ==
    /\ Update
    /\ Emit(<<M("error")>>)
    /\ UNCHANGED <<toolVars, waitVars, asking>>

\* The agent's process exits by itself, with an exit code or without one. What it asked is
\* forgotten.
ProcessExits ==
    /\ process \in alive
    /\ alive' = alive \ {process}
    /\ asking' = {}
    /\ Emit(<<M("stopped")>>) \/ Quiet
    /\ UNCHANGED <<starting, attempt, process, acpSession, disposal, toolVars, waitVars,
                   prompt, cancelled, updates>>

---------------------------------------------------------------------------
(* Prompts.                                                                *)

\* The listener has made itself ready for it: u.
SendPrompt(u) ==
    /\ acpSession
    /\ disposal = "no"
    /\ prompt' = TRUE /\ cancelled' = FALSE
    /\ waitingForResponse' = TRUE
    /\ EmitTo(u, <<M("running")>>)
    /\ UNCHANGED <<startVars, acpSession, disposal, toolVars, idleResolver, asking, updates>>

\* The agent answers the prompt, once it has its permissions or was told to stop. Its
\* updates have come before: sendPrompt returns, and waitForResponseComplete returns too,
\* or waits for the next idle.
PromptAnswered ==
    /\ prompt
    /\ process \in alive
    /\ asking = {} \/ cancelled
    /\ prompt' = FALSE
    /\ idleResolver' = waitingForResponse
    /\ Quiet
    /\ UNCHANGED <<startVars, acpSession, disposal, toolVars, waitingForResponse, asking, cancelled, updates>>

\* It refuses, or its stream ends: sendPrompt throws.
PromptFails ==
    /\ prompt
    /\ prompt' = FALSE
    /\ asking' = {}
    /\ waitingForResponse' = FALSE
    /\ Emit(<<M("error")>>)
    /\ UNCHANGED <<startVars, acpSession, disposal, toolVars, idleResolver, cancelled, updates>>

\* Variant: whoever waits is not told.
ResponseTimesOutAlone ==
    /\ idleResolver
    /\ waitingForResponse' = FALSE
    /\ Quiet
    /\ UNCHANGED <<startVars, acpSession, disposal, toolVars, idleResolver, agentVars>>

\* waitForResponseComplete gives up after two minutes.
ResponseTimesOut ==
    /\ idleResolver
    /\ idleResolver' = FALSE
    /\ waitingForResponse' = FALSE
    /\ Quiet
    /\ UNCHANGED <<startVars, acpSession, disposal, toolVars, agentVars>>

\* cancel: the agent has been told.
Cancelled(u) ==
    /\ EmitTo(u, IF acpSession THEN <<M("stopped")>> ELSE << >>)
    /\ cancelled' = acpSession
    /\ UNCHANGED <<startVars, acpSession, disposal, toolVars, waitVars, prompt, asking, updates>>

---------------------------------------------------------------------------
(* dispose.                                                                *)

Dispose ==
    /\ disposal = "no"
    /\ disposal' = IF acpSession THEN "cancelling" ELSE "killing"
    /\ Quiet
    /\ UNCHANGED <<startVars, acpSession, toolVars, waitVars, agentVars>>

\* The agent has been told, or two seconds are over: SIGTERM.
DisposeKills ==
    /\ disposal = "cancelling"
    /\ disposal' = "killing"
    /\ Quiet
    /\ UNCHANGED <<startVars, acpSession, toolVars, waitVars, agentVars>>

\* The process has exited, by SIGTERM or SIGKILL.
Disposed ==
    /\ disposal = "killing"
    /\ disposal' = "disposed"
    /\ alive' = alive \ {process}
    /\ process' = 0
    /\ acpSession' = FALSE
    /\ activeToolCalls' = {} /\ toolCallTimeouts' = {} /\ idleTimeout' = FALSE
    /\ prompt' = FALSE /\ asking' = {}
    /\ starting' = "no"
    /\ Quiet
    /\ UNCHANGED <<attempt, waitVars, cancelled, updates>>

AgentUpdates ==
    \/ MessageChunk \/ LegacyMessageChunk \/ ThoughtChunk \/ PlanUpdate \/ ModelNotFound
    \/ \E t \in Tool : StartToolCall(t) \/ EndToolCall(t)

Timers == IdleTimeoutFires \/ (\E t \in Tool : ToolCallTimesOut(t))
====
