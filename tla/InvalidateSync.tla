---- MODULE InvalidateSync ----
(***************************************************************************)
(* A command that is run again whenever what it read may have changed      *)
(* (InvalidateSync, src/utils/sync.ts, retried by backoff, src/utils/      *)
(* time.ts). However many invalidations come while the command runs, it    *)
(* runs once more after them; who awaits one is answered when no           *)
(* invalidation is left.                                                   *)
(*                                                                         *)
(* Calls are steps. _doSync is not: it awaits the command and, after a     *)
(* failure, the delay of the backoff, and calls come in between.           *)
(***************************************************************************)
EXTENDS Naturals, FiniteSets

CONSTANTS
    Awaiter    \* the callers of invalidateAndAwait

VARIABLES
    invalidated,        \* this._invalidated
    invalidatedDouble,  \* this._invalidatedDouble
    stopped,            \* this._stopped
    pendings,           \* this._pendings: the callers not yet answered
    attempt,            \* where _doSync stands with its command
    unserved            \* history: the pendings since whose call no attempt began

syncVars == <<invalidated, invalidatedDouble, stopped, pendings, attempt, unserved>>

SyncTypeOK ==
    /\ invalidated \in BOOLEAN
    /\ invalidatedDouble \in BOOLEAN
    /\ stopped \in BOOLEAN
    /\ pendings \subseteq Awaiter
    /\ attempt \in {"none", "running", "returned", "backoff"}
    /\ unserved \subseteq pendings

SyncInit ==
    /\ invalidated = FALSE
    /\ invalidatedDouble = FALSE
    /\ stopped = FALSE
    /\ pendings = {}
    /\ attempt = "none"
    /\ unserved = {}

\* _doSync up to its first await: it calls the command at once. (After a stop the
\* callback of the backoff returns instead.)
Begin ==
    /\ attempt' = IF stopped THEN "returned" ELSE "running"
    /\ unserved' = {}

---------------------------------------------------------------------------
(* The calls. Each says who is pending after it.                           *)

\* The body of invalidate, with ps the callers that are pending by now.
Mark(ps) ==
    IF stopped
    THEN UNCHANGED <<invalidated, invalidatedDouble, attempt, unserved>>
    ELSE IF ~invalidated
         THEN /\ invalidated' = TRUE
              /\ invalidatedDouble' = FALSE
              /\ Begin
         ELSE /\ invalidatedDouble' = TRUE
              /\ unserved' = unserved \union (ps \ pendings)
              /\ UNCHANGED <<invalidated, attempt>>

Invalidate ==
    /\ Mark(pendings)
    /\ UNCHANGED <<stopped, pendings>>

\* Stopped, it returns at once; the caller is then never pending.
InvalidateAndAwait(a) ==
    /\ ~stopped
    /\ a \notin pendings
    /\ Mark(pendings \union {a})
    /\ pendings' = pendings \union {a}
    /\ UNCHANGED stopped

NotifyPendings ==
    /\ pendings' = {}
    /\ unserved' = {}

Stop ==
    /\ ~stopped
    /\ NotifyPendings
    /\ stopped' = TRUE
    /\ UNCHANGED <<invalidated, invalidatedDouble, attempt>>

---------------------------------------------------------------------------
(* _doSync.                                                                *)

\* The command's promise is fulfilled.
Return ==
    /\ attempt = "running"
    /\ attempt' = "returned"
    /\ UNCHANGED <<invalidated, invalidatedDouble, stopped, pendings, unserved>>

\* Variant: nobody catches the failure.
FailForGood ==
    /\ attempt = "running"
    /\ attempt' = "failed"
    /\ UNCHANGED <<invalidated, invalidatedDouble, stopped, pendings, unserved>>

\* The command fails: backoff waits, then calls it again.
Fail ==
    /\ attempt = "running"
    /\ attempt' = "backoff"
    /\ UNCHANGED <<invalidated, invalidatedDouble, stopped, pendings, unserved>>

Retry ==
    /\ attempt = "backoff"
    /\ Begin
    /\ UNCHANGED <<invalidated, invalidatedDouble, stopped, pendings>>

\* Variant: the callers are answered before the second invalidation is looked at.
FinishNotifyingFirst ==
    /\ attempt = "returned"
    /\ NotifyPendings
    /\ IF invalidatedDouble /\ ~stopped
       THEN attempt' = "running" /\ invalidatedDouble' = FALSE /\ UNCHANGED invalidated
       ELSE /\ attempt' = "none"
            /\ invalidated' = (invalidated /\ stopped)
            /\ UNCHANGED invalidatedDouble
    /\ UNCHANGED stopped

\* Variant: the flag is left standing when there is nothing more to do.
FinishStillInvalidated ==
    /\ attempt = "returned"
    /\ IF invalidatedDouble /\ ~stopped
       THEN /\ invalidatedDouble' = FALSE
            /\ Begin
            /\ UNCHANGED pendings
       ELSE /\ attempt' = "none"
            /\ NotifyPendings
            /\ UNCHANGED invalidatedDouble
    /\ UNCHANGED <<invalidated, stopped>>

\* The rest of _doSync: again, or done. A stopped sync stays marked as invalidated.
Finish ==
    /\ attempt = "returned"
    /\ IF invalidatedDouble /\ ~stopped
       THEN /\ invalidatedDouble' = FALSE
            /\ Begin
            /\ UNCHANGED <<invalidated, pendings>>
       ELSE /\ attempt' = "none"
            /\ NotifyPendings
            /\ invalidated' = stopped
            /\ UNCHANGED invalidatedDouble
    /\ UNCHANGED stopped

---------------------------------------------------------------------------

DoSync == Return \/ Fail \/ Retry \/ Finish

SyncNext ==
    \/ Invalidate
    \/ \E a \in Awaiter : InvalidateAndAwait(a)
    \/ Stop
    \/ DoSync

SyncSpec == SyncInit /\ [][SyncNext]_syncVars

\* The command settles, one way or the other, and timers and microtasks run.
SyncFairSpec == SyncSpec /\ WF_syncVars(DoSync)

---------------------------------------------------------------------------
(* Properties.                                                             *)

\* Until it is stopped, the sync is marked as invalidated exactly while _doSync runs:
\* were it marked without a run, no later call would start one; were it running
\* unmarked, the next call would start a second command beside the first.
InvalidatedWhileSyncing ==
    ~stopped => (invalidated <=> attempt # "none")

\* Who awaits an invalidation is answered, unless by stop, only when an attempt that
\* began after the call has succeeded: it never trusts a run that had already read
\* its data when the call was made.
AnswersAreFresh ==
    [][ \A a \in Awaiter :
          a \in pendings /\ a \notin pendings' /\ ~stopped' =>
              a \notin unserved /\ attempt = "returned" ]_syncVars

\* Every call is followed by an attempt that begins after it, or by the stop, however
\* many attempts fail.
EveryCallIsServed == []<>(unserved = {})
====
