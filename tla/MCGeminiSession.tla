---- MODULE MCGeminiSession ----
(***************************************************************************)
(* A Gemini session, and what it remembers of its conversation, each by    *)
(* itself: a behaviour runs one part, and the other stands still.          *)
(***************************************************************************)
EXTENDS GeminiSession, ConversationHistory

VARIABLE part

MCInit ==
    /\ part \in {"session", "history"}
    /\ Init /\ ConversationInit
    /\ part # "history" => currentModel = "pro"

MCNext ==
    \/ /\ part = "session" /\ Next
       /\ UNCHANGED <<part, conversationVars>>
    \/ /\ part = "history" /\ ConversationNext
       /\ UNCHANGED <<part, vars>>

\* The session's Fairness.
MCFairness ==
    /\ WF_vars(part = "session" /\ Turns)
    /\ WF_vars(part = "session" /\ (asking = {} \/ cancelled \/ process \notin alive) /\ Answers)
    /\ WF_vars(part = "session" /\ (Deadlines \/ AbortEnds \/ KillDisposes \/ KillEnds))
    /\ WF_vars(part = "session" /\ \E t \in Tool : AnswerPermission(t))

MCSpec == MCInit /\ [][MCNext]_<<part, vars, conversationVars>> /\ MCFairness
====
