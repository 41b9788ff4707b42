---- MODULE RemoteOutput ----
(***************************************************************************)
(* What a remote session sends to the Happy server: claudeRemoteLauncher   *)
(* (src/claude/claudeRemoteLauncher.ts) hands every message of the Claude  *)
(* process to the outgoing queue as it comes, and at the end of a launch   *)
(* ends the tool calls that are still running, flushes the queue, destroys *)
(* its timers, and uses the same queue for the next launch.                *)
(***************************************************************************)
EXTENDS Integers, Sequences, FiniteSets

CONSTANTS
    Tool,         \* ids of tool calls
    OtherKind,    \* kinds of message that are neither a tool call nor a result
    MaxMessages,  \* bound: the messages handed over, interrupted results included
    MaxLaunches   \* bound: the launches of the Claude process

ASSUME RemoteOutputAssumption ==
    /\ OtherKind \subseteq {"text", "system"}
    /\ MaxMessages \in Nat /\ MaxLaunches \in Nat \ {0}

VARIABLES
    queue, nextId, delayTimers, processTimer, permits, resolvers, inside, sent,
    handed,   \* history: the number of messages handed over
    bypass,   \* history: the numbers of the interrupted results, sent past the queue
    ongoing,  \* ongoingToolCalls
    used,     \* history: the tool calls made; Claude gives each its own id
    asked,    \* history: the tool calls whose permission was requested
    phase,    \* where the launch stands
    launches  \* history: the number of launches

Q == INSTANCE OutgoingMessageQueue

launchVars == <<handed, bypass, ongoing, used, asked, phase, launches>>
outputVars == <<queue, nextId, delayTimers, processTimer, permits, resolvers, inside, sent,
          handed, bypass, ongoing, used, asked, phase, launches>>

OutputTypeOK ==
    /\ queue \in Seq(Q!Item)
    /\ nextId \in 1..(MaxMessages + 1)
    /\ delayTimers \subseteq 1..MaxMessages
    /\ processTimer \in BOOLEAN
    /\ permits \in {0, 1}
    /\ sent \in Seq(Q!Message)
    /\ handed \in 0..MaxMessages
    /\ bypass \subseteq 1..handed
    /\ ongoing \subseteq used
    /\ used \subseteq Tool
    /\ asked \subseteq used
    /\ phase \in {"running", "flushing", "flushed"}
    /\ launches \in 1..MaxLaunches

OutputInit ==
    /\ Q!Init
    /\ handed = 0
    /\ bypass = {}
    /\ ongoing = {}
    /\ used = {}
    /\ asked = {}
    /\ phase = "running"
    /\ launches = 1

---------------------------------------------------------------------------
(* onMessage: what the Claude process says.                                *)

Handed(kind, t) == [n |-> handed + 1, kind |-> kind, tool |-> t]

Say ==
    /\ phase = "running"
    /\ handed < MaxMessages
    /\ handed' = handed + 1
    /\ UNCHANGED <<bypass, asked, phase, launches>>

\* Assistant text, results of the turn, and system messages.
OnOther(kind) ==
    /\ Say
    /\ Q!Enqueue(Handed(kind, "none"), FALSE)
    /\ UNCHANGED <<ongoing, used>>

\* A tool call: held back unless it is a sidechain's.
OnToolUse(t, isSidechain) ==
    /\ t \notin used
    /\ Say
    /\ ongoing' = ongoing \union {t}
    /\ used' = used \union {t}
    /\ Q!Enqueue(Handed("use", t), ~isSidechain)

\* A tool's result releases the tool call, then is enqueued itself: two calls of
\* the queue in one step of the launcher, so two jobs that get in line together.
OnToolResult(t) ==
    /\ t \in ongoing
    /\ Say
    /\ ongoing' = ongoing \ {t}
    /\ UNCHANGED used
    /\ LET release == Q!ReleaseToolJob(t)
           enqueue == Q!EnqueueJob(Handed("result", t), FALSE)
       IN  IF permits > 0
           THEN /\ permits' = permits - 1
                /\ inside' = inside \union {release}
                /\ resolvers' = Append(resolvers, enqueue)
           ELSE /\ resolvers' = resolvers \o <<release, enqueue>>
                /\ UNCHANGED <<permits, inside>>
    /\ processTimer' = TRUE
    /\ UNCHANGED <<queue, nextId, delayTimers, sent>>

\* The permission handler's callback: the held tool call goes out with the request.
OnPermissionRequest(t) ==
    /\ phase = "running"
    /\ t \in ongoing \ asked
    /\ asked' = asked \union {t}
    /\ Q!ReleaseToolCall(t)
    /\ UNCHANGED <<handed, bypass, ongoing, used, phase, launches>>

---------------------------------------------------------------------------
(* The end of a launch (the finally block).                                *)

\* The Map's order of the calls, which the model leaves open.
Orders(ts) ==
    {f \in [1..Cardinality(ts) -> ts] : \A i, k \in DOMAIN f : f[i] = f[k] => i = k}

\* The results of interrupted calls do not go through the queue: they are sent with
\* sendClaudeSessionMessage before the flush is asked for.
EndLaunch ==
    /\ phase = "running"
    /\ handed + Cardinality(ongoing) <= MaxMessages
    /\ \E f \in Orders(ongoing) :
          sent' = sent \o [i \in DOMAIN f |->
                             [n |-> handed + i, kind |-> "result", tool |-> f[i]]]
    /\ handed' = handed + Cardinality(ongoing)
    /\ bypass' = bypass \union (handed + 1)..(handed + Cardinality(ongoing))
    /\ ongoing' = {}
    /\ Q!Lock(Q!FlushJob)
    /\ phase' = "flushing"
    /\ UNCHANGED <<queue, nextId, delayTimers, processTimer, used, asked, launches>>

\* await messageQueue.flush() has returned: destroy, and the next launch.
DestroyAndRelaunch ==
    /\ phase = "flushed"
    /\ launches < MaxLaunches
    /\ Q!Destroy
    /\ phase' = "running"
    /\ launches' = launches + 1
    /\ UNCHANGED <<handed, bypass, ongoing, used, asked>>

---------------------------------------------------------------------------

RunJob(j) ==
    /\ Q!Run(j)
    /\ phase' = IF j.op = "flush" THEN "flushed" ELSE phase
    /\ UNCHANGED <<handed, bypass, ongoing, used, asked, launches>>

DelayTimer(n) == Q!DelayFires(n) /\ UNCHANGED launchVars

ProcessTimer == Q!ProcessFires /\ UNCHANGED launchVars

OnMessage ==
    \/ \E kind \in OtherKind : OnOther(kind)
    \/ \E t \in Tool : \E isSidechain \in BOOLEAN : OnToolUse(t, isSidechain)
    \/ \E t \in Tool : OnToolResult(t)

Jobs == \E j \in inside : RunJob(j)
Timers == ProcessTimer \/ \E n \in delayTimers : DelayTimer(n)

OutputNext ==
    \/ OnMessage
    \/ \E t \in Tool : OnPermissionRequest(t)
    \/ EndLaunch
    \/ DestroyAndRelaunch
    \/ Jobs
    \/ Timers

OutputSpec == OutputInit /\ [][OutputNext]_outputVars

\* The event loop runs every microtask and, in the end, every armed timer.
OutputFairSpec ==
    /\ OutputSpec
    /\ WF_outputVars(Jobs)
    /\ WF_outputVars(ProcessTimer)
    /\ \A n \in 1..MaxMessages : WF_outputVars(DelayTimer(n))

---------------------------------------------------------------------------
(* Properties.                                                             *)

Numbers(q) == {q[i].n : i \in DOMAIN q}

\* The jobs that have not run yet, waiting for the permit or just granted it.
InLine == inside \union {resolvers[i] : i \in DOMAIN resolvers}

\* The messages the queue still has to send, those not yet inserted included.
Pending == {queue[i].msg : i \in DOMAIN queue}
             \union {j.msg : j \in {k \in InLine : k.op = "enqueue"}}

\* What goes through the queue is sent in the order it was handed over, and once,
\* however tool calls are held back and released. (OutgoingMessageQueue.ts:4)
SentInOrder ==
    \A i, k \in DOMAIN sent :
        i < k /\ {sent[i].n, sent[k].n} \intersect bypass = {} => sent[i].n < sent[k].n

\* Every message handed over that is not a system message is sent in the end, over
\* the end of the launch and the destruction of the timers too.
EveryMessageIsSent ==
    /\ [][\A m \in Pending : Q!IsSent(m) => m \in Pending' \/ m.n \in Numbers(sent')]_outputVars
    /\ []<>(\A m \in Pending : ~Q!IsSent(m))

\* The server hears of a tool call before it hears of the call's result.
\* ("Ensures messages are always sent in the order they were received",
\* OutgoingMessageQueue.ts:4.)
ResultFollowsItsCall ==
    \A k \in DOMAIN sent : sent[k].kind = "result" =>
        \E i \in 1..(k - 1) : sent[i].kind = "use" /\ sent[i].tool = sent[k].tool
====
