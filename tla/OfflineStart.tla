---- MODULE OfflineStart ----
(***************************************************************************)
(* How a process gets its session on the Happy server when it starts, and  *)
(* what it does when the server cannot be reached: Claude then runs alone, *)
(* Codex and Gemini run on a session that does nothing (src/utils/         *)
(* offlineSessionStub.ts), and the process asks again and again in the     *)
(* background until the server is back (src/utils/serverConnectionErrors.  *)
(* ts). The real session then takes the place of the stub, for some of     *)
(* those who hold it.                                                      *)
(*                                                                         *)
(* A request to the server may succeed, be impossible, be refused, or run  *)
(* into its timeout, and what was impossible or too late for the client    *)
(* may have been done by the server.                                       *)
(***************************************************************************)
EXTENDS Naturals, FiniteSets

CONSTANT MaxTroubles   \* bound: the requests that do not succeed

ASSUME OfflineStartAssumption == MaxTroubles \in Nat

VARIABLES
    flavor,          \* "claude", "codex" or "gemini"
    starting,        \* where the process stands
    connectionState, \* "online", or "offline" since the first failure
    failures,        \* the operations that have failed
    warned,          \* history: what the warning said
    serverSessions,  \* history: how many sessions the server has made for the process
    session,         \* "none", the "stub", or the "real" one
    handlerSession,  \* the session of the permission handler
    hearing,         \* the sessions whose user messages and calls (abort, kill) are listened to
    titleSession,    \* the session the Happy MCP server sends titles to
    retryTimer,      \* whether timeoutId is armed
    tries,         \* what attemptReconnect awaits
    cancelled, reconnected,
    troubles         \* history: the number of requests that did not succeed

stateVars == <<connectionState, failures, warned>>
heldVars == <<hearing, titleSession>>
retryVars == <<retryTimer, tries, cancelled, reconnected>>
offlineVars == <<flavor, starting, connectionState, failures, warned, serverSessions, session,
                 handlerSession, hearing, titleSession, retryTimer, tries, cancelled, reconnected,
                 troubles>>

OfflineTypeOK ==
    /\ flavor \in {"claude", "codex", "gemini"}
    /\ starting \in {"machine", "session", "setup", "running", "closing", "over"}
    /\ connectionState \in {"online", "offline"}
    /\ failures \subseteq {"Machine registration", "Session creation"}
    /\ warned \subseteq failures
    /\ serverSessions \in 0..(MaxTroubles + 1)
    /\ {session, handlerSession, titleSession} \subseteq {"none", "stub", "real"}
    /\ hearing \subseteq {"stub", "real"}
    /\ {retryTimer, cancelled, reconnected} \subseteq BOOLEAN
    /\ tries \in {"none", "health", "create", "scan"}
    /\ troubles \in 0..MaxTroubles

OfflineInit ==
    /\ flavor \in {"claude", "codex", "gemini"}
    /\ starting = "machine"
    /\ connectionState = "online"
    /\ failures = {}
    /\ warned = {}
    /\ serverSessions = 0
    /\ session = "none"
    /\ handlerSession = "none"
    /\ hearing = {}
    /\ titleSession = "none"
    /\ retryTimer = FALSE
    /\ tries = "none"
    /\ cancelled = FALSE
    /\ reconnected = FALSE
    /\ troubles = 0

---------------------------------------------------------------------------
(* The requests.                                                           *)

\* OfflineState.fail: failures gather, and the first one is what the warning shows.
Report(operation) ==
    /\ failures' = failures \union {operation}
    /\ connectionState' = "offline"
    /\ warned' = IF connectionState = "online" THEN failures' ELSE warned

Trouble == troubles < MaxTroubles /\ troubles' = troubles + 1

\* getOrCreateMachine goes on with a machine of its own making when the server cannot
\* be reached or belongs to somebody else; its timeout and a 401 are thrown.
RegisterMachine ==
    /\ starting = "machine"
    /\ \/ starting' = "session" /\ UNCHANGED <<stateVars, troubles>>
       \/ Trouble /\ starting' = "session" /\ Report("Machine registration")
       \/ Trouble /\ starting' \in {"session", "over"} /\ UNCHANGED stateVars
    /\ UNCHANGED <<flavor, serverSessions, session, handlerSession, heldVars, retryVars>>

\* The server has one session for each tag; Claude's every attempt has a new tag.
Made == IF flavor = "claude" \/ serverSessions = 0 THEN serverSessions + 1 ELSE serverSessions

\* The outcomes of getOrCreateSession. null: network errors, 404 and 5xx.
Obtained == serverSessions' = Made /\ UNCHANGED <<stateVars, troubles>>
Unreachable == Trouble /\ Report("Session creation") /\ serverSessions' \in {serverSessions, Made}
\* Thrown: its timeout, whose code is not among the network errors, and refusals.
Thrown == Trouble /\ serverSessions' \in {serverSessions, Made} /\ UNCHANGED stateVars

---------------------------------------------------------------------------
(* The start.                                                              *)

\* What Codex and Gemini set up on the session they have: they listen to it and start the
\* Happy MCP server for it, and Codex makes its permission handler before it awaits
\* anything.
SetUpOn(s) ==
    /\ hearing' = {s}
    /\ titleSession' = s
    /\ handlerSession' = IF flavor = "gemini" THEN "none" ELSE s
    /\ starting' = IF flavor = "gemini" THEN "setup" ELSE "running"

StartOnline ==
    /\ starting = "session"
    /\ Obtained
    /\ session' = "real"
    /\ SetUpOn("real")
    /\ UNCHANGED <<flavor, retryVars>>

\* setupOfflineReconnection, and its counterpart in runClaude, which has no stub.
StartOffline ==
    /\ starting = "session"
    /\ Unreachable
    /\ retryTimer' = TRUE
    /\ IF flavor = "claude"
       THEN starting' = "running" /\ UNCHANGED <<session, handlerSession, heldVars>>
       ELSE session' = "stub" /\ SetUpOn("stub")
    /\ UNCHANGED <<flavor, tries, cancelled, reconnected>>

StartFails ==
    /\ starting = "session"
    /\ Thrown
    /\ starting' = "over"
    /\ UNCHANGED <<flavor, session, handlerSession, heldVars, retryVars>>

\* Gemini has awaited startHappyServer: its permission handler takes the session of now.
SetUpDone ==
    /\ starting = "setup"
    /\ starting' = "running"
    /\ handlerSession' = session
    /\ UNCHANGED <<flavor, stateVars, serverSessions, session, heldVars, retryVars, troubles>>

---------------------------------------------------------------------------
(* attemptReconnect.                                                       *)

Lives == starting # "over"

AttemptBegins ==
    /\ Lives
    /\ retryTimer
    /\ retryTimer' = FALSE
    /\ tries' = IF cancelled \/ reconnected THEN "none" ELSE "health"
    /\ UNCHANGED <<flavor, starting, stateVars, serverSessions, session, handlerSession,
                   heldVars, cancelled, reconnected, troubles>>

\* Any answer below 500, a refusal too, means that the server is up.
Healthy ==
    /\ Lives
    /\ tries = "health"
    /\ tries' = IF cancelled THEN "none" ELSE "create"
    /\ UNCHANGED <<flavor, starting, stateVars, serverSessions, session, handlerSession,
                   heldVars, retryTimer, cancelled, reconnected, troubles>>

\* Variant: the next attempt is scheduled without a look at cancelled.
TryAgainAnyway ==
    /\ tries' = "none"
    /\ retryTimer' = TRUE
    /\ UNCHANGED <<cancelled, reconnected>>

\* The catch block. getOrCreateSession wraps a 401 in an Error of its own, so the branch
\* that gives up is never taken.
TryAgain ==
    /\ tries' = "none"
    /\ retryTimer' = ~cancelled
    /\ UNCHANGED <<cancelled, reconnected>>

HealthCheckFails ==
    /\ Lives
    /\ tries = "health"
    /\ Trouble
    /\ TryAgain
    /\ UNCHANGED <<flavor, starting, stateVars, serverSessions, session, handlerSession, heldVars>>

CreationFails ==
    /\ Lives
    /\ tries = "create"
    /\ Unreachable \/ Thrown
    /\ TryAgain
    /\ UNCHANGED <<flavor, starting, session, handlerSession, heldVars>>

\* onSessionSwap: what the program sends goes to the new session, and the permission
\* handler, once there is one, is given it and registers its RPC there. The listeners and
\* the Happy MCP server keep the stub. No turn can run on the stub, which hears no prompt,
\* so Gemini never has to put this off.
Swap ==
    /\ session' = "real"
    /\ handlerSession' = IF handlerSession = "none" THEN "none" ELSE "real"

\* The session is there: it is swapped in, although cancel may have been called
\* meanwhile. Claude awaits a scanner for it first.
SessionComes ==
    /\ Lives
    /\ tries = "create"
    /\ Obtained
    /\ IF flavor = "claude"
       THEN tries' = "scan" /\ UNCHANGED <<session, handlerSession, reconnected>>
       ELSE Swap /\ tries' = "none" /\ reconnected' = ~cancelled
    /\ UNCHANGED <<flavor, starting, heldVars, retryTimer, cancelled>>

ScannerComes ==
    /\ Lives
    /\ tries = "scan"
    /\ tries' = "none"
    /\ session' = "real"
    /\ reconnected' = ~cancelled
    /\ UNCHANGED <<flavor, starting, stateVars, serverSessions, handlerSession, heldVars,
                   retryTimer, cancelled, troubles>>

---------------------------------------------------------------------------
(* The end.                                                                *)

\* The user ends it. Claude's process exits in the same go; Codex and Gemini first flush
\* and close their session, and an attempt may come back meanwhile.
Quit ==
    /\ starting = "running"
    /\ cancelled' = TRUE
    /\ retryTimer' = FALSE
    /\ starting' = IF flavor = "claude" THEN "over" ELSE "closing"
    /\ UNCHANGED <<flavor, stateVars, serverSessions, session, handlerSession, heldVars,
                   tries, reconnected, troubles>>

Closed ==
    /\ starting = "closing"
    /\ starting' = "over"
    /\ UNCHANGED <<flavor, stateVars, serverSessions, session, handlerSession, heldVars,
                   retryVars, troubles>>

Reconnect ==
    \/ AttemptBegins \/ Healthy \/ HealthCheckFails
    \/ CreationFails \/ SessionComes \/ ScannerComes

Connect == RegisterMachine \/ StartOnline \/ StartOffline \/ StartFails \/ SetUpDone

OfflineNext == Connect \/ Reconnect \/ Quit \/ Closed

OfflineSpec == OfflineInit /\ [][OfflineNext]_offlineVars

---------------------------------------------------------------------------
(* Properties.                                                             *)

\* The permission handler asks for leave on the session the program sends its messages to,
\* whether the swap comes before the handler is made or after, or after cancel.
\* (setupOfflineReconnection.ts:38, BasePermissionHandler.ts:62)
HandlerFollowsTheSession == handlerSession # "none" => handlerSession = session

\* Reconnecting is one chain of attempts: while one is under way no other is due, and after
\* a cancel, also in the middle of an attempt, or once the real session is there, none ever
\* begins again. ("Prevents duplicate reconnections", "Prevents action after cancel()",
\* serverConnectionErrors.ts:145,149)
AttemptsEnd ==
    /\ retryTimer => tries = "none" /\ ~cancelled
    /\ session = "real" => ~retryTimer /\ tries = "none"

\* Once the real session is there, it is the one that is listened to, for prompts and
\* calls, and the one that titles are sent to. ("When reconnection succeeds, the real
\* session replaces this stub", offlineSessionStub.ts:18.)
RealReplacesStub ==
    starting = "running" /\ session = "real" /\ flavor # "claude" =>
        "real" \in hearing /\ titleSession = "real"
====
