---- MODULE DaemonSessions ----
(***************************************************************************)
(* The sessions of a running daemon (src/daemon/run.ts): processes that it *)
(* spawns for a request, or inside tmux, or that users start; the webhook  *)
(* by which a session reports itself; the callers that wait for it; and    *)
(* how sessions are stopped, exit and are forgotten, and what is left of   *)
(* them when the daemon is replaced by another.                            *)
(*                                                                         *)
(* A process is named by its pid, and pids are not used again. Fifteen     *)
(* seconds are "later", and so is the next heartbeat.                      *)
(***************************************************************************)
EXTENDS Naturals

CONSTANTS
    SessionProcess,   \* session processes
    Request,   \* calls of spawnSession
    NoSessionProcess, NoRequest,
    MaxDaemons \* bound: daemons that run, one after the other

ASSUME DaemonSessionsAssumption ==
    /\ NoSessionProcess \notin SessionProcess /\ NoRequest \notin Request
    /\ MaxDaemons \in Nat \ {0}

VARIABLES
    \* The daemon.
    pc,      \* of each request: new, tmux, fallback, waiting, success, error
    child,   \* the process that was spawned for it
    pidToTrackedSession, \* by pid: none, spawned (no id yet), named (with its id), user
    pidToAwaiter,        \* by pid: the request that waits for its webhook
    daemons, \* how many there have been
    \* The processes.
    life,    \* none, running, dead (and its exit not yet noticed), gone
    via,     \* who started it: the present daemon, tmux, anybody else
    report,  \* its webhook: none, sent, arrived; lost when the daemon it was for is gone
    told     \* whether it was sent a SIGTERM

sessionVars == <<pidToTrackedSession, pidToAwaiter>>
daemonVars == <<pc, child, sessionVars, daemons>>
processVars == <<life, via, report, told>>
daemonSessionsVars == <<daemonVars, processVars>>

SessionsTypeOK ==
    /\ pc \in [Request -> {"new", "tmux", "fallback", "waiting", "success", "error"}]
    /\ child \in [Request -> SessionProcess \union {NoSessionProcess}]
    /\ pidToTrackedSession \in [SessionProcess -> {"none", "spawned", "named", "user"}]
    /\ pidToAwaiter \in [SessionProcess -> Request \union {NoRequest}]
    /\ daemons \in 1..MaxDaemons
    /\ life \in [SessionProcess -> {"none", "running", "dead", "gone"}]
    /\ via \in [SessionProcess -> {"daemon", "tmux", "other"}]
    /\ report \in [SessionProcess -> {"none", "sent", "arrived", "lost"}]
    /\ told \in [SessionProcess -> BOOLEAN]
    \* An awaiter belongs to the request that waits for that process.
    /\ \A p \in SessionProcess : pidToAwaiter[p] # NoRequest =>
          pc[pidToAwaiter[p]] = "waiting" /\ child[pidToAwaiter[p]] = p

SessionsInit ==
    /\ pc = [r \in Request |-> "new"]
    /\ child = [r \in Request |-> NoSessionProcess]
    /\ pidToTrackedSession = [p \in SessionProcess |-> "none"]
    /\ pidToAwaiter = [p \in SessionProcess |-> NoRequest]
    /\ daemons = 1
    /\ life = [p \in SessionProcess |-> "none"]
    /\ via = [p \in SessionProcess |-> "other"]
    /\ report = [p \in SessionProcess |-> "none"]
    /\ told = [p \in SessionProcess |-> FALSE]

RunSession(p, by) ==
    /\ life[p] = "none"
    /\ life' = [life EXCEPT ![p] = "running"]
    /\ via' = [via EXCEPT ![p] = by]
    /\ UNCHANGED <<report, told>>

---------------------------------------------------------------------------
(* spawnSession.                                                           *)

\* The directory is missing or not to be made, a variable is not defined, there is no pid.
Refuse(r) ==
    /\ pc[r] \in {"new", "fallback"}
    /\ pc' = [pc EXCEPT ![r] = "error"]
    /\ UNCHANGED <<child, sessionVars, daemons, processVars>>

\* Tracks process p and waits for its webhook.
Await(r, p) ==
    /\ pc' = [pc EXCEPT ![r] = "waiting"]
    /\ pidToTrackedSession' = [pidToTrackedSession EXCEPT ![p] = "spawned"]
    /\ pidToAwaiter' = [pidToAwaiter EXCEPT ![p] = r]
    /\ UNCHANGED daemons

\* Without tmux, or when tmux has failed; the process is tracked in the same step.
Spawn(r) ==
    /\ pc[r] \in {"new", "fallback"}
    /\ \E p \in SessionProcess :
          /\ RunSession(p, "daemon")
          /\ child' = [child EXCEPT ![r] = p]
          /\ Await(r, p)

\* spawnInTmux begins.
AskTmux(r) ==
    /\ pc[r] = "new"
    /\ pc' = [pc EXCEPT ![r] = "tmux"]
    /\ UNCHANGED <<child, sessionVars, daemons, processVars>>

\* The process runs in its window before tmux has printed its pid and returned.
TmuxRuns(r) ==
    /\ pc[r] = "tmux"
    /\ child[r] = NoSessionProcess
    /\ \E p \in SessionProcess :
          /\ RunSession(p, "tmux")
          /\ child' = [child EXCEPT ![r] = p]
    /\ UNCHANGED <<pc, sessionVars, daemons>>

TmuxReturns(r) ==
    /\ pc[r] = "tmux"
    /\ child[r] # NoSessionProcess
    /\ Await(r, child[r])
    /\ UNCHANGED <<child, processVars>>

\* "falling back to regular spawning", also when the window is there and has no pid.
TmuxFails(r) ==
    /\ pc[r] = "tmux"
    /\ pc' = [pc EXCEPT ![r] = "fallback"]
    /\ child' = [child EXCEPT ![r] = NoSessionProcess]
    /\ UNCHANGED <<sessionVars, daemons, processVars>>

\* Variant: the awaiter is left behind.
TimeoutOnly(r) ==
    /\ pc[r] = "waiting"
    /\ pc' = [pc EXCEPT ![r] = "error"]
    /\ UNCHANGED <<child, sessionVars, daemons, processVars>>

Timeout(r) ==
    /\ pc[r] = "waiting"
    /\ pc' = [pc EXCEPT ![r] = "error"]
    /\ pidToAwaiter' = [pidToAwaiter EXCEPT ![child[r]] = NoRequest]
    /\ UNCHANGED <<child, pidToTrackedSession, daemons, processVars>>

---------------------------------------------------------------------------
(* onHappySessionWebhook.                                                  *)

\* Variant: the awaiter is deleted before it is looked up.
ResolveNobody(p) ==
    /\ pidToAwaiter' = [pidToAwaiter EXCEPT ![p] = NoRequest]
    /\ UNCHANGED pc

\* Resolves the awaiter of process p, if there is one.
Resolve(p) ==
    /\ pc' = [r \in Request |-> IF pidToAwaiter[p] = r THEN "success" ELSE pc[r]]
    /\ pidToAwaiter' = [pidToAwaiter EXCEPT ![p] = NoRequest]

\* Variant: only what the daemon has spawned may report.
WebhookOfSpawned(p) ==
    /\ report[p] = "sent"
    /\ report' = [report EXCEPT ![p] = "arrived"]
    /\ \/ /\ pidToTrackedSession[p] \in {"spawned", "named"}
          /\ pidToTrackedSession' = [pidToTrackedSession EXCEPT ![p] = "named"]
          /\ Resolve(p)
       \/ /\ pidToTrackedSession[p] \in {"none", "user"}
          /\ UNCHANGED <<sessionVars, pc>>
    /\ UNCHANGED <<child, daemons, life, via, told>>

Webhook(p) ==
    /\ report[p] = "sent"
    /\ report' = [report EXCEPT ![p] = "arrived"]
    /\ \/ /\ pidToTrackedSession[p] \in {"spawned", "named"}
          /\ pidToTrackedSession' = [pidToTrackedSession EXCEPT ![p] = "named"]
          /\ Resolve(p)
       \/ /\ pidToTrackedSession[p] = "none"
          /\ pidToTrackedSession' = [pidToTrackedSession EXCEPT ![p] = "user"]
          /\ UNCHANGED <<pc, pidToAwaiter>>
       \/ /\ pidToTrackedSession[p] = "user"
          /\ UNCHANGED <<sessionVars, pc>>
    /\ UNCHANGED <<child, daemons, life, via, told>>

---------------------------------------------------------------------------
(* Ends.                                                                   *)

Untrack(p) == pidToTrackedSession' = [pidToTrackedSession EXCEPT ![p] = "none"]

\* stopSession, by the session's id or by 'PID-' and its pid.
StopSession(p) ==
    /\ pidToTrackedSession[p] # "none"
    /\ told' = [told EXCEPT ![p] = TRUE]
    /\ Untrack(p)
    /\ UNCHANGED <<pc, child, pidToAwaiter, daemons, life, via, report>>

\* onChildExited, of the daemon's own children only. (An awaiter stays for its timeout.)
ChildExited(p) ==
    /\ life[p] = "dead"
    /\ via[p] = "daemon"
    /\ life' = [life EXCEPT ![p] = "gone"]
    /\ Untrack(p)
    /\ UNCHANGED <<pc, child, pidToAwaiter, daemons, via, report, told>>

\* Variant: only what the daemon has spawned.
HeartbeatOwn ==
    /\ pidToTrackedSession' = [p \in SessionProcess |->
          IF life[p] = "gone" /\ pidToTrackedSession[p] # "user" THEN "none" ELSE pidToTrackedSession[p]]
    /\ UNCHANGED <<pc, child, pidToAwaiter, daemons, processVars>>

\* Sessions whose process does not exist any more are pruned.
SessionsHeartbeat ==
    /\ pidToTrackedSession' = [p \in SessionProcess |->
          IF life[p] = "gone" THEN "none" ELSE pidToTrackedSession[p]]
    /\ UNCHANGED <<pc, child, pidToAwaiter, daemons, processVars>>

---------------------------------------------------------------------------
(* The processes.                                                          *)

UserStarts(p) == RunSession(p, "other") /\ UNCHANGED daemonVars

\* notifyDaemonSessionStarted
Report(p) ==
    /\ life[p] = "running"
    /\ report[p] = "none"
    /\ report' = [report EXCEPT ![p] = "sent"]
    /\ UNCHANGED <<daemonVars, life, via, told>>

Die(p) ==
    /\ life[p] = "running"
    /\ life' = [life EXCEPT ![p] = IF via[p] = "daemon" THEN "dead" ELSE "gone"]
    /\ UNCHANGED <<daemonVars, via, report, told>>

---------------------------------------------------------------------------

\* The daemon ends, by a stop, an upgrade or a crash, and the next one knows nothing of the
\* sessions, which stay alive ("detached") and do not report again. Its callers are cut off.
Replace ==
    /\ daemons < MaxDaemons
    /\ daemons' = daemons + 1
    /\ pc' = [r \in Request |-> IF pc[r] \in {"tmux", "fallback", "waiting"} THEN "error" ELSE pc[r]]
    /\ pidToTrackedSession' = [p \in SessionProcess |-> "none"]
    /\ pidToAwaiter' = [p \in SessionProcess |-> NoRequest]
    /\ report' = [p \in SessionProcess |-> IF report[p] = "none" THEN "none" ELSE "lost"]
    /\ via' = [p \in SessionProcess |-> IF via[p] = "daemon" THEN "other" ELSE via[p]]
    /\ life' = [p \in SessionProcess |-> IF life[p] = "dead" THEN "gone" ELSE life[p]]
    /\ UNCHANGED <<child, told>>

---------------------------------------------------------------------------

Launch(r) ==
    \/ Refuse(r) \/ Spawn(r)
    \/ AskTmux(r) \/ TmuxRuns(r) \/ TmuxReturns(r) \/ TmuxFails(r)

SessionsNext ==
    \/ \E r \in Request : Launch(r) \/ Timeout(r)
    \/ \E p \in SessionProcess : \/ UserStarts(p) \/ Report(p) \/ Die(p)
                          \/ Webhook(p) \/ StopSession(p) \/ ChildExited(p)
    \/ SessionsHeartbeat
    \/ Replace

SessionsSpec == SessionsInit /\ [][SessionsNext]_daemonSessionsVars

\* Exits are noticed and heartbeats come. Whether a session ever reports is its own affair.
SessionsFairSpec ==
    /\ SessionsSpec
    /\ \A p \in SessionProcess : WF_daemonSessionsVars(ChildExited(p))
    /\ WF_daemonSessionsVars(SessionsHeartbeat)

---------------------------------------------------------------------------
(* Properties.                                                             *)

\* Nobody waits for what has come: a caller that waits for a child of the daemon, which
\* runs and was not stopped, will hear of its webhook, for that has not arrived yet. (In
\* tmux it may have come before the daemon knew the pid: see ReportedIsTracked.)
NobodyWaitsInVain ==
    \A r \in Request :
        LET p == child[r]
        IN  pc[r] = "waiting" /\ via[p] = "daemon" /\ life[p] = "running" /\ ~told[p]
                => pidToAwaiter[p] = r /\ report[p] # "arrived"

\* Every session that runs, has reported to this daemon and was not stopped is tracked by
\* its id, also when it reports after its caller was told of a timeout. The exception is
\* a session in tmux that reports before tmux returns: what its caller then tracks has no
\* id, and the caller waits until the timeout.
ReportedIsTracked ==
    \A p \in SessionProcess :
        life[p] = "running" /\ report[p] = "arrived" /\ ~told[p] =>
            \/ pidToTrackedSession[p] \in {"named", "user"}
            \/ /\ via[p] = "tmux" /\ pidToTrackedSession[p] = "spawned"
               /\ \E r \in Request : child[r] = p /\ pc[r] \in {"waiting", "error"}

\* No dead session is tracked for ever, not even one whose webhook arrives after its end,
\* or that no daemon is told of (tmux, users).
DeadAreForgotten ==
    []<>(\A p \in SessionProcess : life[p] = "gone" => pidToTrackedSession[p] = "none")
====
