---- MODULE MCClaudeSession ----
(***************************************************************************)
(* A Claude session's loop, its permissions and its scanner, each by       *)
(* itself: a behaviour runs one part, and the others stand still. Two      *)
(* tool calls, two edits alike or an edit and a plan; two modes with       *)
(* hashes of their own.                                                    *)
(***************************************************************************)
EXTENDS PermissionHandler, ClaudeLoop, SessionScanner

CONSTANTS call1, call2

VARIABLE part

MCCall == {call1, call2}

MCAsks == {[c \in MCCall |-> "edit"],
           [c \in MCCall |-> IF c = call1 THEN "edit" ELSE "exitPlan"]}

MCMode == 1..2
MCModeHash == [m \in MCMode |-> m]

Init ==
    /\ part \in {"permissions", "loop", "scanner"}
    /\ PermissionInit /\ LoopInit /\ ScannerInit
    /\ part # "permissions" => input = [c \in Call |-> "edit"]
    /\ part # "scanner" => currentSessionId = NoSession

Next ==
    \/ /\ part = "permissions" /\ PermissionNext
       /\ UNCHANGED <<part, loopVars, scannerVars>>
    \/ /\ part = "loop" /\ LoopNext
       /\ UNCHANGED <<part, permissionVars, scannerVars>>
    \/ /\ part = "scanner" /\ ScannerNext
       /\ UNCHANGED <<part, permissionVars, loopVars>>

\* PermissionFairSpec, LoopFairSpec and ScannerFairSpec.
Fairness ==
    /\ WF_permissionVars(part = "permissions" /\ Consumer)
    /\ \A c \in Call :
          /\ WF_permissionVars(part = "permissions" /\ ResolveAgain(c))
          /\ WF_permissionVars(part = "permissions" /\ UserAnswers(c))
    /\ WF_loopVars(part = "loop" /\ Loop)
    /\ WF_loopVars(part = "loop" /\ aborted /\ ClaudeLocal)
    /\ WF_loopVars(part = "loop" /\ Turn)
    /\ WF_scannerVars(part = "scanner" /\ Command)
    /\ WF_scannerVars(part = "scanner" /\ Created)
    /\ WF_scannerVars(part = "scanner" /\ Interval)
    /\ WF_scannerVars(part = "scanner" /\ Stop)

Spec == Init /\ [][Next]_<<part, permissionVars, loopVars, scannerVars>> /\ Fairness
====
