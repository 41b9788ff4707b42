---- MODULE QueueAndSyncProofs ----
(***************************************************************************)
(* Proofs about the two primitives that the sessions share. MessageQueue2, *)
(* for any set of modes, any hash of them and any number of prompts: its   *)
(* types, that no wake-up is lost, and that it implements PromptInbox.     *)
(* InvalidateSync, for any set of awaiters: its types, its mark, and that  *)
(* no answer is stale.                                                     *)
(***************************************************************************)
EXTENDS MessageQueue2, InvalidateSync, TLAPS

---------------------------------------------------------------------------
(* MessageQueue2.                                                          *)

\* Taking the first n of a sequence leaves two sequences over the same set, the one
\* taken and the one that is left.
LEMMA SplitTyping ==
    ASSUME NEW S, NEW q \in Seq(S), NEW n \in 1..Len(q)
    PROVE  /\ SubSeq(q, 1, n) \in Seq(S)
           /\ SubSeq(q, n + 1, Len(q)) \in Seq(S)
           /\ q[1] \in S
  OBVIOUS

\* A collected batch is well typed, and so is what it leaves.
LEMMA CollectBatchTyping == QueueTypeOK /\ CollectBatch => QueueTypeOK'
  <1> SUFFICES ASSUME QueueTypeOK, CollectBatch PROVE QueueTypeOK'
    OBVIOUS
  <1>1. PICK n \in 1..Len(queue) :
            /\ queue' = SubSeq(queue, n + 1, Len(queue))
            /\ taken' = Append(taken, [items |-> SubSeq(queue, 1, n),
                                       mode |-> queue[1].mode])
            /\ result' = "batch"
            /\ reader' = "idle"
            /\ UNCHANGED <<waiter, closed, aborted, pushed, dropped>>
    BY DEF CollectBatch
  <1>2. /\ SubSeq(queue, 1, n) \in Seq(Item)
        /\ SubSeq(queue, n + 1, Len(queue)) \in Seq(Item)
        /\ queue[1] \in Item
    BY SplitTyping DEF QueueTypeOK
  <1>3. [items |-> SubSeq(queue, 1, n), mode |-> queue[1].mode] \in Batch
    BY <1>2 DEF Batch, Item
  <1>4. taken' \in Seq(Batch)
    BY <1>1, <1>3 DEF QueueTypeOK
  <1> QED
    BY <1>1, <1>2, <1>4 DEF QueueTypeOK

\* The ids in a queue are numbers.
LEMMA IdsTyping == ASSUME NEW q \in Seq(Item) PROVE Ids(q) \subseteq Nat
  <1> SUFFICES ASSUME NEW i \in DOMAIN q PROVE q[i].id \in Nat
    BY DEF Ids
  <1>1. q[i] \in Item
    OBVIOUS
  <1> QED
    BY <1>1 DEF Item

\* An item that a call adds is well typed.
LEMMA NewItemTyping ==
    ASSUME QueueTypeOK, NEW m \in Mode
    PROVE  NewItem(m, TRUE) \in Item /\ NewItem(m, FALSE) \in Item
  BY DEF QueueTypeOK, NewItem, Item

\* What all the writers that add an item do to the other variables.
LEMMA AcceptTyping ==
    ASSUME QueueTypeOK, Accept, queue' \in Seq(Item), dropped' \subseteq Nat
    PROVE  QueueTypeOK'
  <1>1. UNCHANGED closed /\ UNCHANGED aborted /\ UNCHANGED result /\ UNCHANGED taken
    BY DEF Accept
  <1>2. pushed' \in Nat
    BY DEF Accept, QueueTypeOK
  <1>3. waiter' \in BOOLEAN
    BY DEF Accept, Notify
  <1>4. reader' \in {"idle", "waiting", "woken", "refused"}
    BY DEF Accept, Notify, QueueTypeOK
  <1> QED
    BY <1>1, <1>2, <1>3, <1>4 DEF QueueTypeOK

\* Types are preserved by every step.
LEMMA TypeStep == QueueTypeOK /\ [QueueNext]_queueVars => QueueTypeOK'
  <1> SUFFICES ASSUME QueueTypeOK, [QueueNext]_queueVars PROVE QueueTypeOK'
    OBVIOUS
  <1>1. queue \in Seq(Item) /\ dropped \subseteq Nat /\ Ids(queue) \subseteq Nat
    BY IdsTyping DEF QueueTypeOK
  <1>2. ASSUME NEW m \in Mode, Push(m) PROVE QueueTypeOK'
    <2>1. PICK e \in Item : queue' = Append(queue, e)
      BY <1>2, NewItemTyping, Zenon DEF Push
    <2>2. queue' \in Seq(Item)
      BY <1>1, <2>1
    <2>3. dropped' \subseteq Nat
      BY <1>1, <1>2 DEF Push
    <2> QED
      BY <1>2, <2>2, <2>3, AcceptTyping DEF Push
  <1>3. ASSUME NEW m \in Mode, PushIsolateAndClear(m) PROVE QueueTypeOK'
    <2>1. PICK e \in Item : queue' = <<e>>
      BY <1>3, NewItemTyping, Zenon DEF PushIsolateAndClear
    <2>2. queue' \in Seq(Item)
      BY <1>1, <2>1
    <2>3. dropped' \subseteq Nat
      BY <1>1, <1>3 DEF PushIsolateAndClear
    <2> QED
      BY <1>3, <2>2, <2>3, AcceptTyping DEF PushIsolateAndClear
  <1>4. ASSUME NEW m \in Mode, Unshift(m) PROVE QueueTypeOK'
    <2>1. PICK e \in Item : queue' = <<e>> \o queue
      BY <1>4, NewItemTyping, Zenon DEF Unshift
    <2>2. queue' \in Seq(Item)
      BY <1>1, <2>1
    <2>3. dropped' \subseteq Nat
      BY <1>1, <1>4 DEF Unshift
    <2> QED
      BY <1>4, <2>2, <2>3, AcceptTyping DEF Unshift
  <1> USE DEF QueueTypeOK
  <1>5. CASE Reset
    <2>1. queue' \in Seq(Item)
      BY <1>5 DEF Reset
    <2>2. dropped' \subseteq Nat
      BY <1>1, <1>5 DEF Reset
    <2> QED
      BY <1>5, <2>1, <2>2 DEF Reset
  <1>6. CASE Close
    BY <1>6 DEF Close, Notify
  <1>7. CASE ReadNow
    BY <1>7, CollectBatchTyping DEF ReadNow
  <1>8. CASE ReadNothing
    BY <1>8 DEF ReadNothing, ReturnNull
  <1>9. CASE StartWaiting
    BY <1>9 DEF StartWaiting
  <1>10. CASE Resume
    BY <1>10, CollectBatchTyping DEF Resume, ReturnNull
  <1>11. CASE ResumeRefused
    BY <1>11 DEF ResumeRefused, ReturnNull
  <1>12. CASE Abort
    BY <1>12 DEF Abort
  <1>13. CASE NewSignal
    BY <1>13 DEF NewSignal
  <1>14. CASE UNCHANGED queueVars
    BY <1>14 DEF queueVars
  <1> QED
    BY <1>2, <1>3, <1>4, <1>5, <1>6, <1>7, <1>8, <1>9, <1>10, <1>11, <1>12, <1>13, <1>14
    DEF QueueNext, Write, Read

\* Every state of the queue is well typed.
THEOREM QueueTypeCorrect == QueueSpec => []QueueTypeOK
  <1>1. QueueInit => QueueTypeOK
    <2> SUFFICES ASSUME QueueInit PROVE QueueTypeOK
      OBVIOUS
    <2>1. queue \in Seq(Item) /\ taken \in Seq(Batch)
      BY DEF QueueInit
    <2> QED
      BY <2>1 DEF QueueInit, QueueTypeOK
  <1> QED
    BY <1>1, TypeStep, PTL DEF QueueSpec

\* The step of the wake-up invariant: writers and the abort listener answer the
\* waiter they clear, and a waiter is only set where there is nothing to wait for yet.
LEMMA WakeUpStep == QueueTypeOK /\ NoLostWakeUp /\ [QueueNext]_queueVars => NoLostWakeUp'
  <1> SUFFICES ASSUME QueueTypeOK, NoLostWakeUp, [QueueNext]_queueVars PROVE NoLostWakeUp'
    OBVIOUS
  <1> USE DEF NoLostWakeUp, QueueTypeOK
  <1>1. ASSUME NEW m \in Mode, Push(m) \/ PushIsolateAndClear(m) \/ Unshift(m)
        PROVE  NoLostWakeUp'
    BY <1>1 DEF Push, PushIsolateAndClear, Unshift, Accept, Notify
  <1>2. CASE Reset
    BY <1>2 DEF Reset, CallerMayReset
  <1>3. CASE Close
    BY <1>3 DEF Close, Notify
  <1>4. CASE ReadNow
    BY <1>4 DEF ReadNow, CollectBatch
  <1>5. CASE ReadNothing
    BY <1>5 DEF ReadNothing, ReturnNull
  <1>6. CASE StartWaiting
    BY <1>6 DEF StartWaiting
  <1>7. CASE Resume
    BY <1>7 DEF Resume, CollectBatch, ReturnNull
  <1>8. CASE ResumeRefused
    BY <1>8 DEF ResumeRefused, ReturnNull
  <1>9. CASE Abort
    BY <1>9 DEF Abort
  <1>10. CASE NewSignal
    BY <1>10 DEF NewSignal
  <1>11. CASE UNCHANGED queueVars
    BY <1>11 DEF queueVars
  <1> QED
    BY <1>1, <1>2, <1>3, <1>4, <1>5, <1>6, <1>7, <1>8, <1>9, <1>10, <1>11
    DEF QueueNext, Write, Read

\* No wake-up is lost, in any interleaving of writers, reader and aborts.
THEOREM WakeUpsAreKept == QueueSpec => []NoLostWakeUp
  <1>1. QueueInit => NoLostWakeUp
    BY DEF QueueInit, NoLostWakeUp
  <1>2. QueueTypeOK /\ NoLostWakeUp /\ [QueueNext]_queueVars => NoLostWakeUp'
    BY WakeUpStep
  <1> QED
    BY <1>1, <1>2, QueueTypeCorrect, PTL DEF QueueSpec

\* The queue's batch is the inbox's: the prompts that leave together.
LEMMA BatchLeavesTogether ==
    ASSUME NEW q \in Seq(Item), NEW n \in 1..Len(q), IsBatch(q, n)
    PROVE  Inbox!LeaveTogether(q, n)
  <1>1. CASE q[1].isolate
    BY <1>1 DEF IsBatch, Inbox!LeaveTogether
  <1>2. CASE ~q[1].isolate
    <2> DEFINE joins(i) == ~q[i].isolate /\ ModeHash[q[i].mode] = ModeHash[q[1].mode]
    <2>1. (\A i \in 1..n : joins(i)) /\ (n < Len(q) => ~joins(n + 1))
      BY <1>2 DEF IsBatch
    <2>2. Inbox!Alike(q, n)
      BY <2>1 DEF Inbox!Alike
    <2>3. ASSUME n < Len(q) PROVE ~Inbox!Alike(q, n + 1)
      <3>1. n + 1 \in 1..(n + 1) /\ ~joins(n + 1)
        BY <2>1, <2>3
      <3> QED
        BY <3>1 DEF Inbox!Alike
    <2> QED
      BY <2>2, <2>3 DEF Inbox!LeaveTogether
  <1> QED
    BY <1>1, <1>2

\* A collected batch is a step of the inbox.
LEMMA CollectTakes == QueueTypeOK /\ CollectBatch => Inbox!Take
  <1> SUFFICES ASSUME QueueTypeOK, CollectBatch PROVE Inbox!Take
    OBVIOUS
  <1>1. PICK n \in 1..Len(queue) :
            /\ IsBatch(queue, n)
            /\ queue' = SubSeq(queue, n + 1, Len(queue))
            /\ taken' = Append(taken, [items |-> SubSeq(queue, 1, n),
                                       mode |-> queue[1].mode])
            /\ UNCHANGED pushed
    BY DEF CollectBatch
  <1>2. Inbox!LeaveTogether(queue, n)
    BY <1>1, BatchLeavesTogether DEF QueueTypeOK
  <1> QED
    BY <1>1, <1>2 DEF Inbox!Take

\* Every step of the queue is a step of the inbox or leaves it alone.
LEMMA InboxStep == QueueTypeOK /\ [QueueNext]_queueVars => [Inbox!Next]_<<queue, pushed, taken>>
  <1> SUFFICES ASSUME QueueTypeOK, [QueueNext]_queueVars
               PROVE  [Inbox!Next]_<<queue, pushed, taken>>
    OBVIOUS
  <1>1. ASSUME NEW m \in Mode, Push(m) \/ Unshift(m)
        PROVE  Inbox!Arrive(m)
    BY <1>1 DEF Push, Unshift, Accept, NewItem, Inbox!Arrive, Inbox!Prompt
  <1>2. ASSUME NEW m \in Mode, PushIsolateAndClear(m)
        PROVE  Inbox!Replace(m)
    BY <1>2 DEF PushIsolateAndClear, Accept, NewItem, Inbox!Replace, Inbox!Prompt
  <1>3. CASE Reset
    BY <1>3 DEF Reset, Inbox!Next, Inbox!Discard
  <1>4. CASE Close \/ ReadNothing \/ StartWaiting \/ ResumeRefused \/ Abort \/ NewSignal
    BY <1>4 DEF Close, ReadNothing, StartWaiting, ResumeRefused, ReturnNull, Abort, NewSignal
  <1>5. CASE ReadNow
    BY <1>5, CollectTakes DEF ReadNow, Inbox!Next
  <1>6. CASE Resume
    BY <1>6, CollectTakes DEF Resume, ReturnNull, Inbox!Next
  <1>7. CASE UNCHANGED queueVars
    BY <1>7 DEF queueVars
  <1> QED
    BY <1>1, <1>2, <1>3, <1>4, <1>5, <1>6, <1>7 DEF QueueNext, Write, Read, Inbox!Next

\* The queue implements the inbox: what waits, wakes and aborts does not show.
THEOREM QueueIsAnInbox == QueueSpec => ImplementsInbox
  <1>1. QueueInit => Inbox!Init
    BY DEF QueueInit, Inbox!Init
  <1>2. QueueTypeOK /\ [QueueNext]_queueVars => [Inbox!Next]_(Inbox!inboxVars)
    BY InboxStep DEF Inbox!inboxVars
  <1> QED
    BY <1>1, <1>2, QueueTypeCorrect, PTL DEF QueueSpec, ImplementsInbox, Inbox!Spec

---------------------------------------------------------------------------
(* InvalidateSync. That an answer is fresh is not inductive by itself: a   *)
(* caller no attempt has begun for must be covered by the mark that makes  *)
(* _doSync go round again, and that mark must have a running _doSync to    *)
(* see it (Covered).                                                       *)

\* The callers still to be served have a run of _doSync that will come back for them;
\* a stopped sync has no callers.
Covered ==
    /\ unserved # {} => invalidatedDouble /\ attempt # "none"
    /\ stopped => pendings = {}

SyncInv ==
    /\ SyncTypeOK
    /\ InvalidatedWhileSyncing
    /\ Covered

\* Everything starts unmarked, idle and with nobody waiting.
LEMMA SyncInitInv == SyncInit => SyncInv
BY DEF SyncInit, SyncInv, SyncTypeOK, InvalidatedWhileSyncing, Covered

\* What a call does to the marks: from a state of the invariant, it keeps them tied to
\* the run of _doSync, and covers whom it adds.
LEMMA MarkKeeps ==
    ASSUME SyncInv, NEW ps \in SUBSET Awaiter, pendings \subseteq ps, ~stopped,
           Mark(ps), pendings' = ps, stopped' = stopped
    PROVE  SyncInv'
<1> USE DEF SyncInv, SyncTypeOK, InvalidatedWhileSyncing, Covered, Mark, Begin
<1>1. CASE ~invalidated
  BY <1>1
<1>2. CASE invalidated
  BY <1>2
<1>3. QED
  BY <1>1, <1>2

\* The invariant is kept by every step.
LEMMA SyncNextInv == SyncInv /\ [SyncNext]_syncVars => SyncInv'
<1> SUFFICES ASSUME SyncInv, [SyncNext]_syncVars PROVE SyncInv'
  OBVIOUS
<1>1. CASE Invalidate
  <2>1. CASE stopped
    BY <1>1, <2>1 DEF Invalidate, Mark, SyncInv, SyncTypeOK, InvalidatedWhileSyncing, Covered
  <2>2. CASE ~stopped
    <3>1. pendings \in SUBSET Awaiter /\ Mark(pendings) /\ pendings' = pendings /\ stopped' = stopped
      BY <1>1 DEF Invalidate, SyncInv, SyncTypeOK
    <3>2. QED
      BY <2>2, <3>1, MarkKeeps
  <2>3. QED
    BY <2>1, <2>2
<1>2. ASSUME NEW a \in Awaiter, InvalidateAndAwait(a) PROVE SyncInv'
  <2> DEFINE ps == pendings \union {a}
  <2>1. ps \in SUBSET Awaiter /\ pendings \subseteq ps
    BY DEF SyncInv, SyncTypeOK
  <2>2. ~stopped /\ Mark(ps) /\ pendings' = ps /\ stopped' = stopped
    BY <1>2 DEF InvalidateAndAwait
  <2> HIDE DEF ps
  <2>3. QED
    BY <2>1, <2>2, MarkKeeps
<1>3. CASE Stop
  BY <1>3 DEF Stop, NotifyPendings, SyncInv, SyncTypeOK, InvalidatedWhileSyncing, Covered
<1>4. CASE Return
  BY <1>4 DEF Return, SyncInv, SyncTypeOK, InvalidatedWhileSyncing, Covered
<1>5. CASE Fail
  BY <1>5 DEF Fail, SyncInv, SyncTypeOK, InvalidatedWhileSyncing, Covered
<1>6. CASE Retry
  BY <1>6 DEF Retry, Begin, SyncInv, SyncTypeOK, InvalidatedWhileSyncing, Covered
<1>7. CASE Finish
  BY <1>7 DEF Finish, Begin, NotifyPendings, SyncInv, SyncTypeOK, InvalidatedWhileSyncing, Covered
<1>8. CASE UNCHANGED syncVars
  BY <1>8 DEF syncVars, SyncInv, SyncTypeOK, InvalidatedWhileSyncing, Covered
<1>9. QED
  BY <1>1, <1>2, <1>3, <1>4, <1>5, <1>6, <1>7, <1>8 DEF SyncNext, DoSync

\* The invariant of the sync.
LEMMA SyncInvariance == SyncSpec => []SyncInv
BY SyncInitInv, SyncNextInv, PTL DEF SyncSpec

\* The variables keep their types.
THEOREM SyncTypeCorrect == SyncSpec => []SyncTypeOK
<1>1. SyncInv => SyncTypeOK
  BY DEF SyncInv
<1>2. QED
  BY <1>1, SyncInvariance, PTL

\* Until the stop, a sync is marked as invalidated exactly while it runs.
THEOREM MarkedWhileRunning == SyncSpec => []InvalidatedWhileSyncing
<1>1. SyncInv => InvalidatedWhileSyncing
  BY DEF SyncInv
<1>2. QED
  BY <1>1, SyncInvariance, PTL

\* Nobody is answered, but by the stop, before an attempt begun after the call succeeds.
THEOREM NoStaleAnswer == SyncSpec => AnswersAreFresh
<1> DEFINE Fresh ==
        \A a \in Awaiter :
          a \in pendings /\ a \notin pendings' /\ ~stopped' =>
              a \notin unserved /\ attempt = "returned"
<1>1. ASSUME SyncInv, [SyncNext]_syncVars PROVE [Fresh]_syncVars
  <2>1. CASE Invalidate
    BY <2>1 DEF Invalidate
  <2>2. ASSUME NEW b \in Awaiter, InvalidateAndAwait(b) PROVE Fresh
    BY <2>2 DEF InvalidateAndAwait
  <2>3. CASE Stop
    BY <2>3 DEF Stop
  <2>4. CASE Return \/ Fail \/ Retry
    BY <2>4 DEF Return, Fail, Retry
  <2>5. CASE Finish
    \* Here it counts: the callers are answered only if no mark is left, and then
    \* Covered says that none is unserved.
    BY <1>1, <2>5 DEF Finish, NotifyPendings, SyncInv, Covered
  <2>6. QED
    BY <1>1, <2>1, <2>2, <2>3, <2>4, <2>5 DEF SyncNext, DoSync
<1>2. QED
  BY <1>1, SyncInvariance, PTL DEF SyncSpec, AnswersAreFresh

====
