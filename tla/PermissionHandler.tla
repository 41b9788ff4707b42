---- MODULE PermissionHandler ----
(***************************************************************************)
(* Who may let Claude use a tool, in the launches of one remote session:   *)
(* the reader of Claude's output (src/claude/sdk/query.ts), the loop that  *)
(* consumes it (claudeRemote.ts) and the permission handler                *)
(* (utils/permissionHandler.ts), which all launches share.                 *)
(*                                                                         *)
(* Claude writes lines: a message that names a tool call, a question       *)
(* whether it may use a tool, which names the tool and its input but not   *)
(* the call, a cancellation of that question, the call's result. The       *)
(* reader awaits the answer of a question before it takes the next line,   *)
(* so a line is a step here when it is read: those that wait in the pipe,  *)
(* also of a process that has ended, are lines still to come. Messages     *)
(* pass through a stream to the consumer, which may lag behind.            *)
(* The handler finds the call a question is about, shows a request in the  *)
(* agent state, and waits for the user, on any device, or for the end of   *)
(* the launch. The agent state is what the updates asked for so far come   *)
(* to: they take effect later, one by one and in order (SessionState).     *)
(***************************************************************************)
EXTENDS Naturals, Sequences

CONSTANTS
    Call,       \* tool calls, by the id Claude gives them
    EditInput,  \* inputs (with their tool) for the tools that edit files
    PlanInput,  \* inputs for ExitPlanMode
    Asks,       \* the inputs Claude may choose for its calls
    PermissionMode, \* the permission modes the user chooses from
    MaxLaunches \* bound: how often Claude is launched

ASSUME PermissionHandlerAssumption ==
    /\ Asks \subseteq [Call -> EditInput \union PlanInput]
    /\ PermissionMode \subseteq {"default", "acceptEdits", "bypassPermissions", "plan"}
    /\ "default" \in PermissionMode
    /\ "none" \notin Call
    /\ MaxLaunches \in Nat \ {0}

VARIABLES
    toolCalls, pendingRequests, permissionMode,
    refused,    \* the ids that responses holds with approved = false
    allowed,    \* the inputs that the allowed tools and Bash literals let through
    launch,     \* the launch that runs; past MaxLaunches when the launcher has left
    process,    \* the Claude process of each launch
    stream,     \* the messages of this launch that the consumer has not taken
    input,      \* the tool and input of each call, as Claude chooses it
    home,       \* the launch whose process made the call
    said,       \* the calls that a message has named
    ended,      \* the calls whose result has come
    cancelled,  \* the calls whose question Claude has cancelled
    asked,      \* where handleToolCall stands for each call
    askedAs,    \* the tool call id its request was made under
    agentState, \* the requests and their history, as the user's devices are shown them
    effects,    \* history: how often an answer to each id has had an effect
    relaunches  \* history: how often a plan restart was put in the prompt queue

handlerVars == <<toolCalls, pendingRequests, permissionMode, refused, allowed, asked, askedAs,
                 agentState, effects, relaunches>>
claudeVars == <<launch, process, stream, input, home, said, ended, cancelled>>
permissionVars == <<handlerVars, claudeVars>>

Launch == 1..MaxLaunches
Inputs == EditInput \union PlanInput
Message == [what : {"toolUse", "result"}, call : Call]
Active == {"resolving", "waiting"}
Answers == {"allow", "deny", "failed"}
Status == {"none", "approved", "denied", "canceled"}

PermissionTypeOK ==
    /\ toolCalls \in Seq([id : Call, used : BOOLEAN])
    /\ pendingRequests \subseteq [id : Call, by : Call]
    /\ permissionMode \in PermissionMode
    /\ refused \subseteq Call
    /\ allowed \subseteq Inputs
    /\ launch \in 1..(MaxLaunches + 1)
    /\ process \in [Launch -> {"none", "running", "failed", "done"}]
    /\ stream \in Seq(Message)
    /\ input \in Asks
    /\ home \in [Call -> 0..MaxLaunches]
    /\ said \subseteq Call /\ ended \subseteq Call /\ cancelled \subseteq Call
    /\ asked \in [Call -> {"no"} \union Active \union Answers]
    /\ \A c \in Call : askedAs[c] = "none" \/ input[askedAs[c]] = input[c]
    /\ agentState.requests \subseteq Call
    /\ agentState.completed \in [Call -> Status]
    /\ effects \in [Call -> Nat]
    /\ relaunches \in [Call -> Nat]

PermissionInit ==
    /\ toolCalls = << >>
    /\ pendingRequests = {}
    /\ permissionMode = "default"
    /\ refused = {}
    /\ allowed = {}
    /\ launch = 1
    /\ process = [l \in Launch |-> IF l = 1 THEN "running" ELSE "none"]
    /\ stream = << >>
    /\ input \in Asks
    /\ home = [c \in Call |-> 0]
    /\ said = {} /\ ended = {} /\ cancelled = {}
    /\ asked = [c \in Call |-> "no"]
    /\ askedAs = [c \in Call |-> "none"]
    /\ agentState = [requests |-> {}, completed |-> [c \in Call |-> "none"]]
    /\ effects = [c \in Call |-> 0]
    /\ relaunches = [c \in Call |-> 0]

---------------------------------------------------------------------------
(* The updates of the agent state, by what they make of it.                *)

Add(id) == [agentState EXCEPT !.requests = @ \union {id}]

CancelAll ==
    [requests |-> {},
     completed |-> [c \in Call |-> IF c \in agentState.requests THEN "canceled"
                                   ELSE agentState.completed[c]]]

\* Variant: an answer closes every request.
CompleteAll(id, status) == CancelAll

Complete(id, status) ==
    IF id \in agentState.requests
    THEN [requests |-> agentState.requests \ {id},
          completed |-> [agentState.completed EXCEPT ![id] = status]]
    ELSE agentState

---------------------------------------------------------------------------
(* The handler's parts.                                                    *)

\* What is in force without asking the user.
AllowedAtOnce(c) ==
    \/ input[c] \in allowed
    \/ permissionMode = "bypassPermissions"
    \/ permissionMode = "acceptEdits" /\ input[c] \in EditInput

\* Variant: the input is not compared.
SomeCall(c) == DOMAIN toolCalls

Alike(c) == {i \in DOMAIN toolCalls : input[toolCalls[i].id] = input[c]}

\* Variant: a call that is in use may be found again.
ResolvesToUsed(c, i) == i \in Alike(c) /\ \A k \in Alike(c) : k <= i

\* resolveToolCallId finds the latest call with this input, and only if it is unused.
ResolvesTo(c, i) ==
    /\ i \in Alike(c)
    /\ \A k \in Alike(c) : k <= i
    /\ ~toolCalls[i].used

\* handlePermissionRequest
Request(c, i) ==
    LET id == toolCalls[i].id
    IN  /\ toolCalls' = [toolCalls EXCEPT ![i].used = TRUE]
        /\ pendingRequests' = {p \in pendingRequests : p.id # id} \union {[id |-> id, by |-> c]}
        /\ asked' = [asked EXCEPT ![c] = "waiting"]
        /\ askedAs' = [askedAs EXCEPT ![c] = id]
        /\ agentState' = Add(id)

\* What handleToolCall comes to when it has found no call to ask for.
Unresolved(c, outcome) ==
    /\ ~\E i \in DOMAIN toolCalls : ResolvesTo(c, i)
    /\ asked' = [asked EXCEPT ![c] = outcome]
    /\ UNCHANGED <<toolCalls, pendingRequests, askedAs, agentState>>

HandleToolCall(c) ==
    /\ \/ /\ AllowedAtOnce(c)
          /\ asked' = [asked EXCEPT ![c] = "allow"]
          /\ UNCHANGED <<toolCalls, pendingRequests, askedAs, agentState>>
       \/ /\ ~AllowedAtOnce(c)
          /\ \E i \in DOMAIN toolCalls : ResolvesTo(c, i) /\ Request(c, i)
       \/ /\ ~AllowedAtOnce(c)
          /\ Unresolved(c, "resolving")
    /\ UNCHANGED <<permissionMode, refused, allowed, effects, relaunches>>

\* A promise settles once: resolving or rejecting it again does nothing.
Settle(c, answer) == IF asked[c] = "waiting" THEN [asked EXCEPT ![c] = answer] ELSE asked

\* Variant: the pending requests are rejected and the devices not told.
ResetUnseen ==
    /\ toolCalls' = << >>
    /\ refused' = {}
    /\ allowed' = {}
    /\ pendingRequests' = {}
    /\ asked' = [c \in Call |-> IF \E p \in pendingRequests : p.by = c
                                THEN Settle(c, "failed")[c] ELSE asked[c]]
    /\ UNCHANGED <<agentState, permissionMode, askedAs, effects, relaunches>>

\* reset. It does not touch permissionMode, and a call in its second of delay outlives it.
Reset ==
    /\ toolCalls' = << >>
    /\ refused' = {}
    /\ allowed' = {}
    /\ pendingRequests' = {}
    /\ asked' = [c \in Call |-> IF \E p \in pendingRequests : p.by = c
                                THEN Settle(c, "failed")[c] ELSE asked[c]]
    /\ agentState' = CancelAll
    /\ UNCHANGED <<permissionMode, askedAs, effects, relaunches>>

---------------------------------------------------------------------------
(* Claude's output and its reader (readMessages).                          *)

\* A question holds its reader up until handleToolCall has returned or thrown.
Blocked(l) == \E c \in Call : home[c] = l /\ asked[c] \in Active

TakeLine(l, c) ==
    /\ process[l] \in {"running", "failed"}
    /\ home[c] \in {0, l}
    /\ ~Blocked(l)
    /\ home' = [home EXCEPT ![c] = l]
    /\ UNCHANGED <<launch, process, input, cancelled>>

\* The stream of a launch that is over is read by nobody.
Enqueue(l, message) == stream' = IF l = launch THEN Append(stream, message) ELSE stream

ReadToolUse(l, c) ==
    /\ c \notin said
    /\ TakeLine(l, c)
    /\ said' = said \union {c}
    /\ Enqueue(l, [what |-> "toolUse", call |-> c])
    /\ UNCHANGED <<handlerVars, ended>>

\* Claude reports a result when it has its answer, or needs none.
ReadToolResult(l, c) ==
    /\ c \in said \ ended
    /\ TakeLine(l, c)
    /\ ended' = ended \union {c}
    /\ Enqueue(l, [what |-> "result", call |-> c])
    /\ UNCHANGED <<handlerVars, said>>

\* The question can come before the message that names the call.
ReadControlRequest(l, c) ==
    /\ asked[c] = "no" /\ c \notin ended
    /\ TakeLine(l, c)
    /\ HandleToolCall(c)
    /\ UNCHANGED <<stream, said, ended>>

\* Claude cancels a question. The reader takes that line when the question has been
\* answered and its AbortController forgotten, so that nothing comes of it.
CancelRequest(c) ==
    /\ asked[c] \in Active
    /\ process[home[c]] = "running"
    /\ c \notin cancelled
    /\ cancelled' = cancelled \union {c}
    /\ UNCHANGED <<handlerVars, launch, process, stream, input, home, said, ended>>

\* The process is killed or crashes (the turn was aborted, say), or it ends well and its
\* output has been read. One that has been left may as well write nothing more.
Fail ==
    /\ launch \in Launch
    /\ process[launch] = "running"
    /\ process' = [process EXCEPT ![launch] = "failed"]
    /\ UNCHANGED <<handlerVars, launch, stream, input, home, said, ended, cancelled>>

End ==
    /\ launch \in Launch
    /\ process[launch] = "running"
    /\ ~Blocked(launch)
    /\ process' = [process EXCEPT ![launch] = "done"]
    /\ UNCHANGED <<handlerVars, launch, stream, input, home, said, ended, cancelled>>

\* The second try, a second later; without success canCallTool throws.
ResolveAgain(c) ==
    /\ asked[c] = "resolving"
    /\ \/ \E i \in DOMAIN toolCalls : ResolvesTo(c, i) /\ Request(c, i)
       \/ Unresolved(c, "failed")
    /\ UNCHANGED <<permissionMode, refused, allowed, effects, relaunches, claudeVars>>

---------------------------------------------------------------------------
(* The consumer and the launcher.                                          *)

\* The launcher leaves claudeRemote, resets the handler and launches Claude anew.
EndLaunch ==
    /\ Reset
    /\ launch' = launch + 1
    /\ stream' = << >>
    /\ process' = [l \in Launch |-> IF l = launch + 1 THEN "running" ELSE process[l]]
    /\ UNCHANGED <<input, home, said, ended, cancelled>>

Consume(what) == launch \in Launch /\ stream # << >> /\ Head(stream).what = what

OnToolUse ==
    /\ Consume("toolUse")
    /\ stream' = Tail(stream)
    /\ toolCalls' = Append(toolCalls, [id |-> Head(stream).call, used |-> FALSE])
    /\ UNCHANGED <<pendingRequests, permissionMode, refused, allowed, asked, askedAs, agentState,
                   effects, relaunches, launch, process, input, home, said, ended, cancelled>>

\* isAborted
IsAborted(c) ==
    \/ c \in refused
    \/ input[c] \in PlanInput /\ \E i \in DOMAIN toolCalls : toolCalls[i].id = c

\* The result of a refused call ends the launch; its process goes on.
OnToolResult ==
    /\ Consume("result")
    /\ LET c == Head(stream).call
       IN  \/ IsAborted(c) /\ EndLaunch
           \/ /\ ~IsAborted(c)
              /\ stream' = Tail(stream)
              /\ toolCalls' = [i \in DOMAIN toolCalls |->
                                 [toolCalls[i] EXCEPT !.used = @ \/ toolCalls[i].id = c]]
              /\ UNCHANGED <<pendingRequests, permissionMode, refused, allowed, asked, askedAs,
                             agentState, effects, relaunches, launch, process, input, home, said,
                             ended, cancelled>>

\* The consumer has taken every message and finds an error, or the reader done.
OutputEnds ==
    /\ launch \in Launch
    /\ stream = << >>
    /\ process[launch] \in {"failed", "done"}
    /\ EndLaunch

---------------------------------------------------------------------------
(* The user.                                                               *)

\* Variant: the request that is answered is not taken from the pending ones.
Answered(id) == pendingRequests

\* What is pending once id is answered.
StillPending(id) == {p \in pendingRequests : p.id # id}

\* The 'permission' RPC. A device that has not heard of the answer, or of the end of the
\* launch, may send one too many: without a pending request the handler returns.
PermissionResponse(id, approved, mode, forInput) ==
    \E p \in pendingRequests :
        /\ p.id = id
        /\ pendingRequests' = StillPending(id)
        /\ refused' = IF approved THEN refused ELSE refused \union {id}
        /\ allowed' = IF forInput THEN allowed \union {input[id]} ELSE allowed
        /\ permissionMode' = IF mode = "none" THEN permissionMode ELSE mode
        /\ effects' = [effects EXCEPT ![id] = @ + 1]
        /\ asked' = Settle(p.by, IF approved /\ input[id] \notin PlanInput
                                 THEN "allow" ELSE "deny")
        /\ relaunches' = IF approved /\ input[id] \in PlanInput
                       THEN [relaunches EXCEPT ![id] = @ + 1] ELSE relaunches
        /\ agentState' = Complete(id, IF approved THEN "approved" ELSE "denied")
        /\ UNCHANGED <<toolCalls, askedAs, claudeVars>>

\* A prompt is taken from the queue, at the start of a launch or when a turn is over: its
\* mode becomes the handler's.
HandleModeChange(mode) ==
    /\ launch \in Launch
    /\ stream = << >> /\ ~Blocked(launch)
    /\ permissionMode' = mode
    /\ UNCHANGED <<toolCalls, pendingRequests, refused, allowed, asked, askedAs, agentState,
                   effects, relaunches, claudeVars>>

---------------------------------------------------------------------------

ClaudeAsks ==
    \/ \E l \in Launch, c \in Call :
          ReadToolUse(l, c) \/ ReadToolResult(l, c) \/ ReadControlRequest(l, c)
    \/ \E c \in Call : CancelRequest(c)
    \/ Fail
    \/ End

Consumer == OnToolUse \/ OnToolResult \/ OutputEnds

\* An answer that allows a tool for good comes with an approval.
UserAnswers(id) ==
    \/ \E mode \in PermissionMode \union {"none"} : PermissionResponse(id, TRUE, mode, FALSE)
    \/ PermissionResponse(id, TRUE, "none", TRUE)
    \/ PermissionResponse(id, FALSE, "none", FALSE)

PermissionNext ==
    \/ ClaudeAsks
    \/ \E c \in Call : ResolveAgain(c) \/ UserAnswers(c)
    \/ \E mode \in PermissionMode : HandleModeChange(mode)
    \/ Consumer

PermissionSpec == PermissionInit /\ [][PermissionNext]_permissionVars

\* The program runs on: timers fire and messages are consumed; and the user answers what
\* he is shown. Claude need not do anything.
PermissionFairSpec ==
    /\ PermissionSpec
    /\ WF_permissionVars(Consumer)
    /\ \A c \in Call : WF_permissionVars(ResolveAgain(c)) /\ WF_permissionVars(UserAnswers(c))

---------------------------------------------------------------------------
(* Properties.                                                             *)

PendingIds == {p.id : p \in pendingRequests}

\* Who waits for the user is in pendingRequests, once and under an id of his own, and
\* whoever is in it waits: no answer and no reset leaves a promise that nothing can
\* settle any more, nor an entry that would settle a call that is over.
NobodyIsForgotten ==
    /\ {p.by : p \in pendingRequests} = {c \in Call : asked[c] = "waiting"}
    /\ \A p, q \in pendingRequests : p.id = q.id \/ p.by = q.by => p = q
    /\ \A p \in pendingRequests : askedAs[p.by] = p.id

\* The history the user sees is true, although reset writes it for every request it finds
\* there: a call under an approved request was let run (a plan: restarted), under
\* a denied one was denied, and under a canceled one was never answered.
HistoryIsTrue ==
    \A c \in Call :
        LET status == IF askedAs[c] = "none" THEN "none" ELSE agentState.completed[askedAs[c]]
            isPlan == input[c] \in PlanInput
        IN  /\ status = "approved" => asked[c] = IF isPlan THEN "deny" ELSE "allow"
            /\ status = "denied" => asked[c] = "deny"
            /\ status = "canceled" => asked[c] = "failed"

\* With a user who answers what he is shown, every question Claude asks gets an answer or
\* an error in the end, and its reader goes on: also when the process or its launch is
\* over by then.
EveryCallIsAnswered == []<>(\A c \in Call : asked[c] \notin Active)
====
