---- MODULE OutgoingMessageQueue ----
(***************************************************************************)
(* The queue of messages on their way to the Happy server                  *)
(* (src/claude/utils/OutgoingMessageQueue.ts) and the lock it works under  *)
(* (src/utils/lock.ts). A tool call may be held back for a short delay, so *)
(* that it arrives with its permission request; what was enqueued after it *)
(* then waits for it.                                                      *)
(*                                                                         *)
(* Each call of inLock is a job: it waits for the permit and, in a later   *)
(* microtask or timer, runs its body in one go, gives the permit back and  *)
(* goes on with the caller. Between these last three there are microtasks  *)
(* too, but a call that falls there gets in line for the lock just as one  *)
(* that came before the body, so they are one step. Calls, timers and jobs *)
(* interleave.                                                             *)
(***************************************************************************)
EXTENDS Integers, Sequences, FiniteSets, SequencesExt

CONSTANTS
    Tool        \* ids of tool calls

VARIABLES
    queue,        \* this.queue: items in the order of their insertion
    nextId,       \* this.nextId
    delayTimers,  \* ids of the items whose delay timer is armed
    processTimer, \* whether this.processTimer is armed
    permits,      \* lock: permits
    resolvers,    \* lock: the jobs in promiseResolverQueue
    inside,       \* the jobs that hold a permit and have yet to run
    sent          \* what sendFunction was called with, in order

queueVars == <<queue, nextId, delayTimers, processTimer>>
lockVars == <<permits, resolvers, inside>>
outVars == <<queue, nextId, delayTimers, processTimer, permits, resolvers, inside, sent>>

\* A log message: its place in the order the launcher handed messages over, what
\* it is, and the tool call it makes ("use") or answers ("result"), if any.
Message == [n : Nat, kind : {"text", "system", "use", "result"}, tool : Tool \union {"none"}]
Item == [id : Nat, msg : Message, released : BOOLEAN]

\* "system" messages are taken from the queue and not sent.
IsSent(m) == m.kind # "system"

Init ==
    /\ queue = << >>
    /\ nextId = 1
    /\ delayTimers = {}
    /\ processTimer = FALSE
    /\ permits = 1
    /\ resolvers = << >>
    /\ inside = {}
    /\ sent = << >>

---------------------------------------------------------------------------
(* AsyncLock. The jobs the queue runs under it: *)

EnqueueJob(m, delayed) == [op |-> "enqueue", msg |-> m, delayed |-> delayed]
ReleaseJob(n) == [op |-> "release", id |-> n]
ReleaseToolJob(t) == [op |-> "releaseTool", tool |-> t]
ProcessJob == [op |-> "process"]
FlushJob == [op |-> "flush"]

\* Variant: nobody waits for the permit.
LockUnchecked(job) ==
    /\ permits' = permits - 1
    /\ inside' = inside \union {job}
    /\ UNCHANGED resolvers

\* inLock up to its first await: take the permit, or get in line for it.
Lock(job) ==
    IF permits > 0
    THEN /\ permits' = permits - 1
         /\ inside' = inside \union {job}
         /\ UNCHANGED resolvers
    ELSE /\ resolvers' = Append(resolvers, job)
         /\ UNCHANGED <<permits, inside>>

\* unlock: the first in line takes over the permit, before anyone can come between.
\* (There is never more than one permit, so the throw for that is unreachable.)
Unlock(j) ==
    IF permits = 0 /\ resolvers # << >>
    THEN /\ resolvers' = Tail(resolvers)
         /\ inside' = (inside \ {j}) \union {Head(resolvers)}
         /\ UNCHANGED permits
    ELSE /\ permits' = permits + 1
         /\ inside' = inside \ {j}
         /\ UNCHANGED resolvers

---------------------------------------------------------------------------
(* The methods up to their first await.                                    *)

\* enqueue: the insertion under the lock, and scheduleProcessing at once.
Enqueue(m, delayed) ==
    /\ Lock(EnqueueJob(m, delayed))
    /\ processTimer' = TRUE
    /\ UNCHANGED <<queue, nextId, delayTimers, sent>>

ReleaseToolCall(t) ==
    /\ Lock(ReleaseToolJob(t))
    /\ UNCHANGED <<queueVars, sent>>

\* An item's delay timer fires: releaseItem.
DelayFires(n) ==
    /\ n \in delayTimers
    /\ delayTimers' = delayTimers \ {n}
    /\ Lock(ReleaseJob(n))
    /\ UNCHANGED <<queue, nextId, processTimer, sent>>

\* The timer of scheduleProcessing fires: processQueue.
ProcessFires ==
    /\ processTimer
    /\ processTimer' = FALSE
    /\ Lock(ProcessJob)
    /\ UNCHANGED <<queue, nextId, delayTimers, sent>>

Destroy ==
    /\ processTimer' = FALSE
    /\ delayTimers' = {}
    /\ UNCHANGED <<queue, nextId, lockVars, sent>>

---------------------------------------------------------------------------
(* The bodies, which run under the lock.                                   *)

InsertItem(m, delayed) ==
    /\ queue' = Append(queue, [id |-> nextId, msg |-> m, released |-> ~delayed])
    /\ nextId' = nextId + 1
    /\ delayTimers' = IF delayed THEN delayTimers \union {nextId} ELSE delayTimers
    /\ UNCHANGED sent

\* Mark the items of `which` released and clear their timers.
Release(which(_)) ==
    /\ queue' = [i \in DOMAIN queue |->
                   [queue[i] EXCEPT !.released = @ \/ which(queue[i])]]
    /\ delayTimers' = delayTimers
                        \ {queue[i].id : i \in {k \in DOMAIN queue : which(queue[k])}}
    /\ UNCHANGED <<nextId, sent>>

\* The items of q in the order of their ids, and those of them at `places`, in this order,
\* as sendFunction gets them.
ById(q) ==
    [k \in DOMAIN q |->
        q[CHOOSE i \in DOMAIN q : Cardinality({j \in DOMAIN q : q[j].id <= q[i].id}) = k]]

Send(q, places) ==
    LET going == {i \in places : IsSent(q[i].msg)}
    IN  \E at \in [1..Cardinality(going) -> going] :
          /\ \A i, j \in DOMAIN at : i < j => at[i] < at[j]
          /\ sent' = sent \o [i \in DOMAIN at |-> q[at[i]].msg]

\* Variant: an item that is still held back is passed over.
SendReleasedPassingOver(q) ==
    /\ Send(q, {i \in DOMAIN q : q[i].released})
    /\ queue' = SelectSeq(q, LAMBDA it : ~it.released)

\* processQueueInternal: sort by id, then send from the front up to the first item
\* that is still held back. Every item is sent once: it leaves the queue as it is.
SendReleased(q) ==
    LET sorted == ById(q)
        n == CHOOSE k \in 0..Len(q) :
               /\ \A i \in 1..k : sorted[i].released
               /\ k < Len(q) => ~sorted[k + 1].released
    IN  /\ Send(sorted, 1..n)
        /\ queue' = SubSeq(sorted, n + 1, Len(sorted))

FlushBody ==
    /\ SendReleased([i \in DOMAIN queue |-> [queue[i] EXCEPT !.released = TRUE]])
    /\ delayTimers' = {}
    /\ UNCHANGED nextId

\* Variant: a released item waits for the next enqueue to be sent.
ReschedulesNever(op) == FALSE

\* releaseItem and releaseToolCall call scheduleProcessing once they are through.
Reschedules(op) == op \in {"release", "releaseTool"}

\* A job that holds the permit runs its body, and gives the permit back.
Run(j) ==
    /\ CASE j.op = "enqueue" -> InsertItem(j.msg, j.delayed)
         [] j.op = "release" -> Release(LAMBDA it : it.id = j.id)
         [] j.op = "releaseTool" ->
              Release(LAMBDA it : it.msg.kind = "use" /\ it.msg.tool = j.tool)
         [] j.op = "process" -> SendReleased(queue) /\ UNCHANGED <<nextId, delayTimers>>
         [] j.op = "flush" -> FlushBody
    /\ processTimer' = (processTimer \/ Reschedules(j.op))
    /\ Unlock(j)
====
