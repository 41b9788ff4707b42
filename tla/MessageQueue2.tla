---- MODULE MessageQueue2 ----
(***************************************************************************)
(* The queue of user prompts between the server connection and an agent    *)
(* (src/utils/MessageQueue2.ts), with the one reader that each launcher    *)
(* runs: a call of waitForMessagesAndGetAsString at a time, each given the *)
(* abort signal of the current turn.                                       *)
(*                                                                         *)
(* JavaScript runs a handler to its end, so every method is one step. What *)
(* is not one step is a waiting read: push resolves the reader's promise,  *)
(* and the reader goes on in a later microtask ("woken"), which other      *)
(* calls can precede. The same gap follows an abort or a close ("refused").*)
(***************************************************************************)
EXTENDS Integers, Sequences, FiniteSets

CONSTANTS
    Mode,         \* the modes a prompt can carry (EnhancedMode)
    ModeHash,     \* modeHasher: what the queue compares modes by
    MaxMessages   \* bound: the number of prompts ever pushed

ASSUME MaxMessagesAssumption == MaxMessages \in Nat

VARIABLES
    queue,    \* this.queue
    waiter,   \* whether this.waiter is set
    closed,   \* this.closed
    aborted,  \* whether the abort signal of the reader's turn has fired
    reader,   \* where the reader's call stands
    result,   \* what the reader's last finished call returned
    pushed,   \* history: the number of prompts accepted, which numbers them
    dropped,  \* history: the prompts a reset or an isolated prompt threw away
    taken     \* history: the batches the reader was given

queueVars == <<queue, waiter, closed, aborted, reader, result, pushed, dropped, taken>>

Item == [id : Nat, mode : Mode, isolate : BOOLEAN]
Batch == [items : Seq(Item), mode : Mode]

QueueTypeOK ==
    /\ queue \in Seq(Item)
    /\ waiter \in BOOLEAN
    /\ closed \in BOOLEAN
    /\ aborted \in BOOLEAN
    /\ reader \in {"idle", "waiting", "woken", "refused"}
    /\ result \in {"none", "batch", "null"}
    /\ pushed \in Nat
    /\ dropped \subseteq Nat
    /\ taken \in Seq(Batch)

QueueInit ==
    /\ queue = << >>
    /\ waiter = FALSE
    /\ closed = FALSE
    /\ aborted = FALSE
    /\ reader = "idle"
    /\ result = "none"
    /\ pushed = 0
    /\ dropped = {}
    /\ taken = << >>

Ids(q) == {q[i].id : i \in DOMAIN q}

---------------------------------------------------------------------------
(* The writers' side.                                                      *)

\* Variant: the waiter is left as it is.
NotifyNobody(answer) == UNCHANGED <<waiter, reader>>

\* if (this.waiter) { waiter = this.waiter; this.waiter = null; waiter(answer) }
Notify(answer) ==
    /\ waiter' = FALSE
    /\ reader' = IF waiter THEN answer ELSE reader

\* The prompt that a call with this mode adds to the queue.
NewItem(m, isolated) == [id |-> pushed + 1, mode |-> m, isolate |-> isolated]

Accept ==
    /\ ~closed
    /\ pushed < MaxMessages
    /\ pushed' = pushed + 1
    /\ Notify("woken")
    /\ UNCHANGED <<closed, aborted, result, taken>>

\* push, and pushImmediate, whose body is the same
Push(m) ==
    /\ Accept
    /\ queue' = Append(queue, NewItem(m, FALSE))
    /\ UNCHANGED dropped

PushIsolateAndClear(m) ==
    /\ Accept
    /\ queue' = <<NewItem(m, TRUE)>>
    /\ dropped' = dropped \union Ids(queue)

Unshift(m) ==
    /\ Accept
    /\ queue' = <<NewItem(m, FALSE)>> \o queue
    /\ UNCHANGED dropped

\* reset forgets a waiter without answering it. Its two callers never leave a
\* reader behind: a local turn has none, and Gemini aborts the turn just before.
CallerMayReset == reader = "idle" \/ aborted

Reset ==
    /\ CallerMayReset
    /\ queue' = << >>
    /\ closed' = FALSE
    /\ waiter' = FALSE
    /\ dropped' = dropped \union Ids(queue)
    /\ UNCHANGED <<aborted, reader, result, pushed, taken>>

Close ==
    /\ ~closed
    /\ closed' = TRUE
    /\ Notify("refused")
    /\ UNCHANGED <<queue, aborted, result, pushed, dropped, taken>>

---------------------------------------------------------------------------
(* The reader's side.                                                      *)

\* Variant: the loop compares hashes and does not look for an isolated prompt.
IsBatchBlindToIsolation(q, n) ==
    IF q[1].isolate
    THEN n = 1
    ELSE LET joins(i) == ModeHash[q[i].mode] = ModeHash[q[1].mode]
         IN  /\ \A i \in 1..n : joins(i)
             /\ n < Len(q) => ~joins(n + 1)

\* The first n prompts of q are one batch: prompts that share the first one's
\* mode hash, up to an isolated prompt; an isolated first prompt is alone.
IsBatch(q, n) ==
    IF q[1].isolate
    THEN n = 1
    ELSE LET joins(i) == ~q[i].isolate /\ ModeHash[q[i].mode] = ModeHash[q[1].mode]
         IN  /\ \A i \in 1..n : joins(i)
             /\ n < Len(q) => ~joins(n + 1)

\* Variant: the batch carries the hash in place of the mode.
CollectBatchWithHash ==
    \E n \in 1..Len(queue) :
        /\ IsBatch(queue, n)
        /\ queue' = SubSeq(queue, n + 1, Len(queue))
        /\ taken' = Append(taken, [items |-> SubSeq(queue, 1, n),
                                  mode |-> ModeHash[queue[1].mode]])
        /\ result' = "batch"
        /\ reader' = "idle"
        /\ UNCHANGED <<waiter, closed, aborted, pushed, dropped>>

\* The call returns what collectBatch makes of a queue that is not empty.
CollectBatch ==
    \E n \in 1..Len(queue) :
        /\ IsBatch(queue, n)
        /\ queue' = SubSeq(queue, n + 1, Len(queue))
        /\ taken' = Append(taken, [items |-> SubSeq(queue, 1, n), mode |-> queue[1].mode])
        /\ result' = "batch"
        /\ reader' = "idle"
        /\ UNCHANGED <<waiter, closed, aborted, pushed, dropped>>

ReturnNull ==
    /\ result' = "null"
    /\ reader' = "idle"
    /\ UNCHANGED <<queue, waiter, closed, aborted, pushed, dropped, taken>>

\* A call finds prompts in the queue and takes them, even if closed or aborted.
ReadNow ==
    /\ reader = "idle"
    /\ CollectBatch

\* A call on an empty queue that is closed, or with an aborted signal.
ReadNothing ==
    /\ reader = "idle"
    /\ queue = << >>
    /\ closed \/ aborted
    /\ ReturnNull

\* Variant: the waiter is set without looking at the closed flag and the signal.
StartWaitingUnchecked ==
    /\ reader = "idle"
    /\ queue = << >>
    /\ waiter' = TRUE
    /\ reader' = "waiting"
    /\ UNCHANGED <<queue, closed, aborted, result, pushed, dropped, taken>>

\* A call on an empty queue registers its waiter and its abort listener.
StartWaiting ==
    /\ reader = "idle"
    /\ queue = << >>
    /\ ~closed /\ ~aborted
    /\ waiter' = TRUE
    /\ reader' = "waiting"
    /\ UNCHANGED <<queue, closed, aborted, result, pushed, dropped, taken>>

\* A woken reader collects; the queue may be empty again by now.
Resume ==
    /\ reader = "woken"
    /\ IF queue = << >> THEN ReturnNull ELSE CollectBatch

\* A reader whose wait was aborted or closed returns null.
ResumeRefused ==
    /\ reader = "refused"
    /\ ReturnNull

\* The signal fires: the listener is there only while the call is waiting.
Abort ==
    /\ ~aborted
    /\ aborted' = TRUE
    /\ IF reader = "waiting"
       THEN waiter' = FALSE /\ reader' = "refused"
       ELSE UNCHANGED <<waiter, reader>>
    /\ UNCHANGED <<queue, closed, result, pushed, dropped, taken>>

\* The launcher makes the AbortController of the next turn.
NewSignal ==
    /\ aborted
    /\ aborted' = FALSE
    /\ UNCHANGED <<queue, waiter, closed, reader, result, pushed, dropped, taken>>

Write == \E m \in Mode : Push(m) \/ PushIsolateAndClear(m) \/ Unshift(m)

Read == ReadNow \/ ReadNothing \/ StartWaiting \/ Resume \/ ResumeRefused

QueueNext == Write \/ Reset \/ Close \/ Read \/ Abort \/ NewSignal

QueueSpec == QueueInit /\ [][QueueNext]_queueVars

\* The microtask that resumes a reader always runs, and a launcher reads again
\* for as long as its session lives. Nothing obliges a writer to do anything.
QueueFairSpec == QueueSpec /\ WF_queueVars(Read)

---------------------------------------------------------------------------
(* Properties.                                                             *)

\* No wake-up is lost: while a waiter is registered the queue is empty, open and
\* not aborted, so whatever changes that will find the waiter; and a reader that
\* waits has its waiter registered. (waitForMessages checks the queue, the closed
\* flag and the signal before it sets this.waiter; the writers and the abort
\* listener clear it as they answer.)
NoLostWakeUp ==
    /\ waiter => queue = << >> /\ ~closed /\ ~aborted
    /\ waiter <=> reader = "waiting"

\* Waiting, waking and aborting are invisible to whom sends and takes prompts: the
\* queue behaves as an inbox whose batches are the longest runs of one mode hash.
Inbox == INSTANCE PromptInbox WITH inbox <- queue, sent <- pushed

ImplementsInbox == Inbox!Spec

\* No prompt stays in the queue for ever or vanishes from it: with a reader that reads
\* again after each batch and each abort, every prompt is taken in a batch, or thrown
\* away by a reset or an isolated prompt.
EveryPromptLeaves ==
    []<>(1..pushed \subseteq dropped \union UNION {Ids(taken[k].items) : k \in DOMAIN taken})
====
