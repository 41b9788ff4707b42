---- MODULE MCSessionOutput ----
(***************************************************************************)
(* What a Claude session hands to the server - its messages, their chain   *)
(* of parents, the conversation they belong to, and the state beside them  *)
(* - each by itself: a behaviour runs one part, and the others stand       *)
(* still.                                                                  *)
(***************************************************************************)
EXTENDS RemoteOutput, MessageLog, SessionIdentity, SessionState

VARIABLE part

Init ==
    /\ part \in {"output", "log", "identity", "state"}
    /\ OutputInit /\ MessageLogInit /\ IdentityInit /\ StateInit
    /\ part # "identity" => claudeArgs = "none"

Next ==
    \/ /\ part = "output" /\ OutputNext
       /\ UNCHANGED <<part, messageLogVars, identityVars, stateVars>>
    \/ /\ part = "log" /\ MessageLogNext
       /\ UNCHANGED <<part, outputVars, identityVars, stateVars>>
    \/ /\ part = "identity" /\ IdentityNext
       /\ UNCHANGED <<part, outputVars, messageLogVars, stateVars>>
    \/ /\ part = "state" /\ StateNext
       /\ UNCHANGED <<part, outputVars, messageLogVars, identityVars>>

\* OutputFairSpec and StateFairSpec.
Fairness ==
    /\ WF_outputVars(part = "output" /\ Jobs)
    /\ WF_outputVars(part = "output" /\ ProcessTimer)
    /\ \A n \in 1..MaxMessages : WF_outputVars(part = "output" /\ DelayTimer(n))
    /\ \A c \in Client :
          /\ WF_stateVars(part = "state" /\ Run(c))
          /\ WF_stateVars(part = "state" /\ Serve(c))

Spec == Init /\ [][Next]_<<part, outputVars, messageLogVars, identityVars, stateVars>> /\ Fairness
====
