---- MODULE MCConnections ----
(***************************************************************************)
(* The parts that carry prompts, messages and calls from one place to      *)
(* another, each by itself: a behaviour runs one part, and the others      *)
(* stand still. The queue is as runClaude creates it.                      *)
(***************************************************************************)
EXTENDS MessageQueue2, InvalidateSync, OfflineStart, SessionWire, SdkStream, MachineSync

VARIABLE part

MCMode == {"plan", "default", "bypassPermissions"}

\* hashObject({isPlan: mode.permissionMode === 'plan', ...}), runClaude.ts:231
MCModeHash == [m \in MCMode |-> IF m = "plan" THEN "isPlan" ELSE "isNotPlan"]

Init ==
    /\ part \in {"queue", "sync", "start", "wire", "sdk", "machine"}
    /\ QueueInit /\ SyncInit /\ OfflineInit /\ WireInit /\ SdkInit /\ MachineInit
    /\ part # "start" => flavor = "claude"
    /\ part # "machine" => record = "metadata"

Next ==
    \/ /\ part = "queue" /\ QueueNext
       /\ UNCHANGED <<part, syncVars, offlineVars, wireVars, sdkVars, machineVars>>
    \/ /\ part = "sync" /\ SyncNext
       /\ UNCHANGED <<part, queueVars, offlineVars, wireVars, sdkVars, machineVars>>
    \/ /\ part = "start" /\ OfflineNext
       /\ UNCHANGED <<part, queueVars, syncVars, wireVars, sdkVars, machineVars>>
    \/ /\ part = "wire" /\ WireNext
       /\ UNCHANGED <<part, queueVars, syncVars, offlineVars, sdkVars, machineVars>>
    \/ /\ part = "sdk" /\ SdkNext
       /\ UNCHANGED <<part, queueVars, syncVars, offlineVars, wireVars, machineVars>>
    \/ /\ part = "machine" /\ MachineNext
       /\ UNCHANGED <<part, queueVars, syncVars, offlineVars, wireVars, sdkVars>>

\* QueueFairSpec and SyncFairSpec.
Fairness ==
    /\ WF_queueVars(part = "queue" /\ Read)
    /\ WF_syncVars(part = "sync" /\ DoSync)

Spec ==
    /\ Init
    /\ [][Next]_<<part, queueVars, syncVars, offlineVars, wireVars, sdkVars, machineVars>>
    /\ Fairness
====
