---- MODULE CodexSessionProofs ----
(***************************************************************************)
(* Proofs about CodexSession, for any set of modes, calls and diffs, and   *)
(* any number of prompts: its types, that a prompt is given to a session   *)
(* of its own mode, and that every thought is closed. For the mode: as     *)
(* long as nothing led the client astray, its session is the one that was  *)
(* configured for the loop's own call, or that it goes on with.            *)
(***************************************************************************)
EXTENDS CodexSession, SharedLemmas, FiniteSetTheorems

\* TypeOK, in parts. The loop and its client:
LoopTypes ==
    /\ pc \in {"connecting", "wait", "calling", "flushing", "closing", "exited"}
    /\ call \in CallTool \union {NoCall}
    /\ wasCreated \in BOOLEAN /\ currentModeHash \in Mode \union {NoMode}
    /\ connected \in BOOLEAN /\ alive \in BOOLEAN
    /\ shouldExit \in BOOLEAN /\ killing \in {"no", "flushing", "closing"}
    /\ thinking \in BOOLEAN /\ announced \in BOOLEAN
    /\ previousDiff \in Diff \union {NoDiff}

\* the permissions:
PermissionTypes ==
    /\ pendingRequests \subseteq Call /\ requests \subseteq Call
    /\ completedRequests \in [Call -> Outcome] /\ decided \in [Call -> Outcome]

\* the prompts, each of which makes one task at most:
PromptTypes ==
    /\ messageQueue \in Seq(Prompt)
    /\ pushed \in 0..MaxPrompts /\ settled \subseteq 1..MaxPrompts
    /\ aborts \in 0..MaxAborts /\ events \in 0..MaxInputs
    /\ Len(tasks) + Len(messageQueue) <= pushed

\* and Codex: with n sessions there, a task that is asked for starts from one of them or
\* from none, and the others are of one of them, or were over before they had any.
TaskFits(task, n) ==
    IF task.status = "asked" THEN task.from \in 0..n
    ELSE /\ task.session \in 0..n
         /\ task.status # "over" => task.session # 0

CodexTypes ==
    /\ tasks \in Seq(Task)
    /\ sessions \in Seq(Session(1..MaxPrompts))
    /\ sessionId \in 0..Len(sessions) /\ storedSessionIdForResume \in 0..Len(sessions)
    /\ \A t \in DOMAIN tasks : TaskFits(tasks[t], Len(sessions))

Types == LoopTypes /\ PermissionTypes /\ PromptTypes /\ CodexTypes /\ ledAstray \in BOOLEAN

\* The client's session is s, and it was started in the mode the loop goes by - unless the
\* client was led astray.
Serves(s) == ~ledAstray => s = sessionId /\ sessions[s].mode = currentModeHash

\* The session that was created is the client's. So is the one that the call goes on with,
\* and that of the call's task, the last one, once it is there.
ModeKept ==
    /\ wasCreated /\ pc # "exited" => sessionId # 0 /\ Serves(sessionId)
    /\ pc = "calling" =>
          /\ call # NoCall
          /\ call.mode = currentModeHash
          /\ wasCreated <=> call.kind = "continue"
          /\ call.kind = "continue" => Serves(call.from)
          /\ alive =>
                /\ tasks # << >>
                /\ IF tasks[Len(tasks)].status = "asked"
                   THEN call.kind = "start" /\ tasks[Len(tasks)].mode = currentModeHash
                   ELSE /\ tasks[Len(tasks)].session # 0 /\ sessionId # 0
                        /\ Serves(tasks[Len(tasks)].session)

CodexInv == Types /\ ModeKept /\ ThoughtsClosed(section, shown)

---------------------------------------------------------------------------
(* The thoughts.                                                           *)

\* What a device has seen of the thoughts is closed at every step: chunks, titles and ends
\* of sections go through the processor, and a turn that ends breaks the section off.
LEMMA ThoughtsKept ==
    ASSUME ThoughtsClosed(section, shown), Next
    PROVE  ThoughtsClosed(section', shown')
<1>1. CASE UNCHANGED <<section, shown>>
  BY <1>1
<1>2. CASE BreakOff
  BY <1>2, BreakingOffKeeps DEF BreakOff, Reason
<1>3. ASSUME NEW exits, TurnEnd(exits) PROVE BreakOff
  BY <1>3 DEF TurnEnd
<1>4. ASSUME CallFails PROVE BreakOff \/ UNCHANGED <<section, shown>>
  BY <1>3, <1>4 DEF CallFails, shownVars
<1>5. ASSUME NEW exits, HandleAbort(exits) PROVE BreakOff
  BY <1>3, <1>5 DEF HandleAbort
<1>6. ASSUME Turns \/ Answers \/ CodexExits \/ KillCloses \/ KillEnds \/ Stops
      PROVE  BreakOff \/ UNCHANGED <<section, shown>>
  BY <1>3, <1>4, <1>6
  DEF Turns, Connect, TakeAndStart, TakeAndRestart, TakeAndContinue, Cleanup, CleanedUp, Answers, Answered,
      Fails, CodexExits, CodexGone, KillCloses, KillEnds, ExitUnchanged, Stops, StartSession, shownVars, vars
<1>7. ASSUME UserSteps PROVE BreakOff \/ UNCHANGED <<section, shown>>
  BY <1>5, <1>7 DEF UserSteps, Push, AnswerPermission, Abort, Exit, Kill, shownVars
<1>8. ASSUME NEW t \in DOMAIN tasks, SessionConfigured(t) \/ TaskStarted(t) \/ TaskOver(t)
      PROVE  UNCHANGED <<section, shown>>
  BY <1>8 DEF SessionConfigured, TaskStarted, TaskOver, shownVars
<1>9. ASSUME NEW t \in DOMAIN tasks, NEW chunk \in {"plain", "whole"}, ReasoningDelta(t, chunk)
      PROVE  ThoughtsClosed(section', shown')
  BY <1>9, ProcessingKeeps DEF ReasoningDelta, Reason, Chunk
<1>10. ASSUME NEW t \in DOMAIN tasks, SectionBreak(t) PROVE BreakOff
  BY <1>10 DEF SectionBreak
<1>11. ASSUME NEW t \in DOMAIN tasks, NEW text \in {"plain", "titled"}, ReasoningComplete(t, text)
       PROVE  ThoughtsClosed(section', shown')
  BY <1>11, CompletingKeeps DEF ReasoningComplete, Reason, Text
<1>12. ASSUME NEW t \in DOMAIN tasks, NEW d \in Diff, TurnDiff(t, d)
       PROVE  ThoughtsClosed(section', shown')
  <2>1. section' = section
    BY <1>12 DEF TurnDiff
  <2>2. CASE d = previousDiff
    BY <1>12, <2>1, <2>2 DEF TurnDiff, ProcessDiff
  <2>3. CASE d # previousDiff
    BY <1>12, <2>1, <2>3, OverAtOnceKeeps DEF TurnDiff, ProcessDiff
  <2>4. QED
    BY <2>2, <2>3
<1>13. ASSUME NEW t \in DOMAIN tasks, NEW c \in Call, Elicitation(t, c) PROVE UNCHANGED <<section, shown>>
  BY <1>13 DEF Elicitation
<1>14. QED
  BY <1>1, <1>2, <1>6, <1>7, <1>8, <1>9, <1>10, <1>11, <1>12, <1>13 DEF Next, CodexEvents

---------------------------------------------------------------------------
(* The permissions.                                                        *)

\* The permissions keep their types.
LEMMA PermissionTypesKept ==
    ASSUME PermissionTypes, Next
    PROVE  PermissionTypes'
<1>1. CASE UNCHANGED permissionVars
  BY <1>1 DEF PermissionTypes, permissionVars
<1>2. CASE ResetPermissions
  <2>1. /\ pendingRequests' = {} /\ requests' = {}
        /\ decided' = [c \in Call |-> IF c \in pendingRequests THEN "canceled" ELSE decided[c]]
        /\ completedRequests' = [c \in Call |-> IF c \in requests THEN "canceled" ELSE completedRequests[c]]
    BY <1>2 DEF ResetPermissions, RejectPending
  <2>2. QED
    BY <2>1 DEF PermissionTypes, Outcome
<1>3. ASSUME NEW exits, TurnEnd(exits) PROVE ResetPermissions
  BY <1>3 DEF TurnEnd
<1>4. ASSUME CallFails PROVE ResetPermissions \/ UNCHANGED permissionVars
  BY <1>3, <1>4 DEF CallFails
<1>5. ASSUME NEW exits, HandleAbort(exits) PROVE ResetPermissions \/ UNCHANGED permissionVars
  BY <1>3, <1>5 DEF HandleAbort
<1>6. ASSUME Turns \/ Answers \/ CodexExits \/ KillCloses \/ KillEnds \/ Stops
      PROVE  ResetPermissions \/ UNCHANGED permissionVars
  BY <1>3, <1>4, <1>6
  DEF Turns, Connect, TakeAndStart, TakeAndRestart, TakeAndContinue, Cleanup, CleanedUp, Answers, Answered,
      Fails, CodexExits, CodexGone, KillCloses, KillEnds, ExitUnchanged, Stops, vars
<1>7. ASSUME NEW c \in Call, NEW outcome \in {"approved", "denied"}, AnswerPermission(c, outcome)
      PROVE  PermissionTypes'
  BY <1>7 DEF AnswerPermission, Answer, PermissionTypes, Outcome
<1>8. ASSUME UserSteps PROVE PermissionTypes'
  <2>1. ASSUME (\E m \in Mode : Push(m)) \/ Abort \/ Exit \/ Kill
        PROVE  ResetPermissions \/ UNCHANGED permissionVars
    BY <1>5, <2>1 DEF Push, Abort, Exit, Kill
  <2>2. QED
    BY <1>1, <1>2, <1>7, <1>8, <2>1 DEF UserSteps
<1>9. ASSUME NEW t \in DOMAIN tasks, NEW c \in Call, Elicitation(t, c) PROVE PermissionTypes'
  BY <1>9 DEF Elicitation, HandleToolCall, PermissionTypes
<1>10. ASSUME NEW t \in DOMAIN tasks,
              \/ SessionConfigured(t) \/ TaskStarted(t) \/ TaskOver(t) \/ SectionBreak(t)
              \/ (\E chunk \in {"plain", "whole"} : ReasoningDelta(t, chunk))
              \/ (\E text \in {"plain", "titled"} : ReasoningComplete(t, text))
              \/ (\E d \in Diff : TurnDiff(t, d))
       PROVE  UNCHANGED permissionVars
  BY <1>10 DEF SessionConfigured, TaskStarted, TaskOver, SectionBreak, ReasoningDelta, ReasoningComplete, TurnDiff
<1>11. QED
  BY <1>1, <1>2, <1>6, <1>8, <1>9, <1>10 DEF Next, CodexEvents

---------------------------------------------------------------------------
(* The loop's first prompts of one mode.                                   *)

\* At least one prompt is taken, and those that are left are prompts.
LEMMA BatchTaken ==
    ASSUME messageQueue \in Seq(Prompt), messageQueue # << >>
    PROVE  /\ Rest \in Seq(Prompt) /\ Len(Rest) < Len(messageQueue) /\ Len(Rest) \in Nat
           /\ messageQueue[1].mode \in Mode
           /\ {messageQueue[i].id : i \in Batch} \in SUBSET (1..MaxPrompts)
<1>1. Len(messageQueue) \in Nat \ {0}
  OBVIOUS
<1>2. 1 \in Batch /\ Batch \subseteq 1..Len(messageQueue)
  <2>1. \A j \in 1..1 : j = 1
    OBVIOUS
  <2>2. 1 \in 1..Len(messageQueue)
    BY <1>1
  <2>3. QED
    BY <2>1, <2>2 DEF Batch
<1>3. IsFiniteSet(1..Len(messageQueue)) /\ Cardinality(1..Len(messageQueue)) = Len(messageQueue)
  BY <1>1, FS_Interval
<1>4. IsFiniteSet(Batch) /\ Cardinality(Batch) <= Len(messageQueue) /\ Cardinality(Batch) \in Nat
  <2>1. IsFiniteSet(Batch) /\ Cardinality(Batch) <= Cardinality(1..Len(messageQueue))
    BY <1>2, <1>3, FS_Subset
  <2>2. Cardinality(Batch) \in Nat
    BY <2>1, FS_CardinalityType
  <2>3. QED
    BY <1>3, <2>1, <2>2
<1>5. Cardinality(Batch) # 0
  BY <1>2, <1>4, FS_EmptySet
<1> HIDE DEF Batch
<1>6. Cardinality(Batch) \in 1..Len(messageQueue)
  BY <1>1, <1>4, <1>5
<1>7. Rest \in Seq(Prompt) /\ Len(Rest) = Len(messageQueue) - Cardinality(Batch)
  BY <1>1, <1>6 DEF Rest
<1>8. \A i \in 1..Len(messageQueue) : messageQueue[i].mode \in Mode /\ messageQueue[i].id \in 1..MaxPrompts
  <2>1. \A i \in 1..Len(messageQueue) : messageQueue[i] \in Prompt
    OBVIOUS
  <2>2. \A p \in Prompt : p.mode \in Mode /\ p.id \in 1..MaxPrompts
    BY DEF Prompt
  <2>3. QED
    BY <2>1, <2>2
<1>9. Len(Rest) < Len(messageQueue) /\ Len(Rest) \in Nat
  BY <1>1, <1>6, <1>7
<1>10. messageQueue[1].mode \in Mode
  BY <1>1, <1>8
<1>11. \A i \in Batch : messageQueue[i].id \in 1..MaxPrompts
  BY <1>2, <1>8
<1>12. QED
  BY <1>7, <1>9, <1>10, <1>11

---------------------------------------------------------------------------
(* The prompts and the numbers.                                            *)

\* Every task is a prompt's, and the prompts keep their numbers.
LEMMA PromptTypesKept ==
    ASSUME CodexInv, Next
    PROVE  PromptTypes'
<1>0. MaxPrompts \in Nat /\ MaxAborts \in Nat /\ MaxInputs \in Nat
  BY CodexSessionAssumption
<1>1. /\ messageQueue \in Seq(Prompt) /\ Len(messageQueue) \in Nat
      /\ tasks \in Seq(Task) /\ Len(tasks) \in Nat /\ DOMAIN tasks = 1..Len(tasks)
      /\ pushed \in 0..MaxPrompts /\ settled \subseteq 1..MaxPrompts
      /\ aborts \in 0..MaxAborts /\ events \in 0..MaxInputs
      /\ Len(tasks) + Len(messageQueue) <= pushed
  BY DEF CodexInv, Types, PromptTypes, CodexTypes
<1>2. pc = "calling" => call.batch \subseteq 1..MaxPrompts
  BY DEF CodexInv, Types, LoopTypes, ModeKept, CallTool
\* Most steps change no more than what is settled, and how many events and aborts there
\* were.
<1> DEFINE Same == UNCHANGED <<messageQueue, pushed>> /\ Len(tasks') = Len(tasks)
           Settled == settled' = settled \/ (pc = "calling" /\ settled' = settled \union call.batch)
<1>3. ASSUME Same, Settled, aborts' \in 0..MaxAborts, events' \in 0..MaxInputs
      PROVE  PromptTypes'
  BY <1>1, <1>2, <1>3 DEF PromptTypes
<1>4. ASSUME NEW m \in Mode, Push(m) PROVE PromptTypes'
  <2>1. pushed' = pushed + 1 /\ pushed < MaxPrompts /\ messageQueue' = Append(messageQueue, Numbered(m))
        /\ UNCHANGED <<tasks, settled, aborts, events>>
    BY <1>4 DEF Push, codexVars
  <2>2. Numbered(m) \in Prompt
    BY <1>0, <1>1, <2>1 DEF Numbered, Prompt
  <2>3. messageQueue' \in Seq(Prompt) /\ Len(messageQueue') = Len(messageQueue) + 1
    BY <1>1, <2>1, <2>2
  <2>4. QED
    BY <1>0, <1>1, <2>1, <2>3 DEF PromptTypes
<1>5. ASSUME NEW task, Take, tasks' = Append(tasks, task) PROVE PromptTypes'
  <2>1. messageQueue' = Rest /\ messageQueue # << >> /\ UNCHANGED <<pushed, settled, aborts, events>>
    BY <1>5 DEF Take, historyVars
  <2>2. Rest \in Seq(Prompt) /\ Len(Rest) < Len(messageQueue) /\ Len(Rest) \in Nat
    BY <1>1, <2>1, BatchTaken
  <2>3. Len(tasks') = Len(tasks) + 1
    BY <1>1, <1>5
  <2>4. QED
    BY <1>1, <2>1, <2>2, <2>3 DEF PromptTypes
<1>6. ASSUME TakeAndStart \/ TakeAndRestart \/ TakeAndContinue PROVE PromptTypes'
  <2>1. Take /\ \E task : tasks' = Append(tasks, task)
    BY <1>6 DEF TakeAndStart, TakeAndRestart, TakeAndContinue, StartSession, CallCodex
  <2>2. QED
    BY <1>5, <2>1
<1>7. ASSUME NEW exits, TurnEnd(exits), pc = "calling" PROVE Settled
  BY <1>7 DEF TurnEnd
<1>8. ASSUME CallFails PROVE Settled
  <2>1. CASE pc = "calling"
    BY <1>8, <2>1 DEF CallFails, TurnEnd
  <2>2. CASE pc # "calling"
    BY <1>8, <2>2 DEF CallFails
  <2>3. QED
    BY <2>1, <2>2
<1>9. ASSUME NEW exits, HandleAbort(exits) PROVE PromptTypes'
  <2>1. aborts' \in 0..MaxAborts
    BY <1>0, <1>1, <1>9 DEF HandleAbort
  <2>2. Settled
    <3>1. CASE pc = "calling"
      BY <1>9, <3>1 DEF HandleAbort, TurnEnd
    <3>2. CASE pc # "calling"
      BY <1>9, <3>2 DEF HandleAbort
    <3>3. QED
      BY <3>1, <3>2
  <2>3. Same /\ events' = events
    BY <1>9 DEF HandleAbort, codexVars
  <2>4. QED
    BY <1>1, <1>3, <2>1, <2>2, <2>3
<1>10. ASSUME tasks' = [t \in DOMAIN tasks |-> OverIn(0)] PROVE Len(tasks') = Len(tasks)
  BY <1>1, <1>10
<1>11. ASSUME NEW t, NEW e, tasks' = [tasks EXCEPT ![t] = e] PROVE Len(tasks') = Len(tasks)
  BY <1>1, <1>11
<1>12. ASSUME NEW t, NEW e, tasks' = [tasks EXCEPT ![t].status = e] PROVE Len(tasks') = Len(tasks)
  BY <1>1, <1>12
<1>13. ASSUME CodexExits \/ KillCloses \/ Cleanup PROVE PromptTypes'
  <2>1. Same /\ UNCHANGED <<aborts, events>>
    BY <1>10, <1>13 DEF CodexExits, KillCloses, Cleanup, CodexGone, CallFailsUnchanged, historyVars
  <2>2. Settled
    BY <1>8, <1>13 DEF CodexExits, KillCloses, Cleanup, CodexGone, historyVars
  <2>3. QED
    BY <1>1, <1>3, <2>1, <2>2
<1>14. ASSUME Answers PROVE PromptTypes'
  <2>1. Same /\ UNCHANGED <<aborts, events>>
    BY <1>11, <1>14 DEF Answers, Answered, Fails, CallFailsUnchanged
  <2>2. Settled
    BY <1>7, <1>8, <1>14 DEF Answers, Answered, Fails
  <2>3. QED
    BY <1>1, <1>3, <2>1, <2>2
<1>15. ASSUME NEW t \in DOMAIN tasks, SessionConfigured(t) \/ TaskStarted(t) \/ TaskOver(t) PROVE PromptTypes'
  <2>1. Same /\ settled' = settled /\ UNCHANGED <<aborts, events>>
    BY <1>11, <1>12, <1>15 DEF SessionConfigured, TaskStarted, TaskOver, Event, Becomes, loopVars
  <2>2. QED
    BY <1>1, <1>3, <2>1
<1>16. ASSUME NEW t \in DOMAIN tasks, TaskEvent(t) PROVE PromptTypes'
  <2>1. Same /\ settled' = settled /\ UNCHANGED aborts
    BY <1>16 DEF TaskEvent, Event, loopVars
  <2>2. events' \in 0..MaxInputs
    BY <1>0, <1>1, <1>16 DEF TaskEvent
  <2>3. QED
    BY <1>1, <1>3, <2>1, <2>2
<1>17. ASSUME CodexEvents PROVE PromptTypes'
  BY <1>15, <1>16, <1>17
  DEF CodexEvents, ReasoningDelta, SectionBreak, ReasoningComplete, TurnDiff, Elicitation
<1>18. ASSUME (\E fails \in BOOLEAN : Connect(fails)) \/ CleanedUp \/ KillEnds \/ Stops
              \/ \E c \in Call, outcome \in {"approved", "denied"} : AnswerPermission(c, outcome)
       PROVE  PromptTypes'
  <2>1. Same /\ settled' = settled /\ UNCHANGED <<aborts, events>>
    BY <1>18 DEF Connect, CleanedUp, KillEnds, ExitUnchanged, Stops, AnswerPermission, vars, loopVars, codexVars,
                 historyVars
  <2>2. QED
    BY <1>1, <1>3, <2>1
<1>19. ASSUME UserSteps PROVE PromptTypes'
  BY <1>4, <1>9, <1>18, <1>19 DEF UserSteps, Abort, Exit, Kill
<1>20. QED
  BY <1>6, <1>13, <1>14, <1>17, <1>18, <1>19 DEF Next, Turns

---------------------------------------------------------------------------
(* What is taken, and the loop.                                            *)

\* Sessions and tasks are counted, and the client's are there.
LEMMA SessionsAreCounted ==
    ASSUME Types
    PROVE  /\ Len(sessions) \in Nat /\ Len(tasks) \in Nat /\ DOMAIN tasks = 1..Len(tasks)
           /\ sessionId \in 0..Len(sessions) /\ storedSessionIdForResume \in 0..Len(sessions)
           /\ 0 \in 0..Len(sessions) /\ \A s \in 0..Len(sessions) : s \in Nat
<1>1. /\ Len(sessions) \in Nat /\ Len(tasks) \in Nat /\ DOMAIN tasks = 1..Len(tasks)
      /\ sessionId \in 0..Len(sessions) /\ storedSessionIdForResume \in 0..Len(sessions)
  BY DEF Types, CodexTypes
<1>2. 0 \in 0..Len(sessions) /\ \A s \in 0..Len(sessions) : s \in Nat
  BY <1>1
<1>3. QED
  BY <1>1, <1>2

\* A batch that starts a session starts from one that is there, or from none.
LEMMA BatchStarts ==
    ASSUME Types, TakeAndStart \/ TakeAndRestart
    PROVE  \E from \in 0..Len(sessions) :
              CallCodex("start", from,
                        [status |-> "asked", mode |-> messageQueue[1].mode, from |-> from])
<1>1. sessionId \in 0..Len(sessions) /\ storedSessionIdForResume \in 0..Len(sessions)
  BY SessionsAreCounted
<1>2. ASSUME NEW s \in 0..Len(sessions) PROVE FindCodexResumeFile(s) \in 0..Len(sessions)
  BY <1>2, SessionsAreCounted DEF FindCodexResumeFile
<1>3. ASSUME NEW previous \in 0..Len(sessions) PROVE StartedFrom(previous) \in 0..Len(sessions)
  BY <1>1, <1>2 DEF StartedFrom
<1>4. PICK previous \in 0..Len(sessions) : StartSession(previous)
  <2>1. 0 \in 0..Len(sessions)
    BY SessionsAreCounted
  <2>2. QED
    BY <1>1, <1>2, <2>1 DEF TakeAndStart, TakeAndRestart
<1>5. QED
  BY <1>3, <1>4 DEF StartSession

\* The loop keeps its types.
LEMMA LoopTypesKept ==
    ASSUME CodexInv, Next
    PROVE  LoopTypes'
<1>0. sessionId \in Nat /\ \A s \in 0..Len(sessions) : s \in Nat
  BY SessionsAreCounted DEF CodexInv
<1>1. /\ pc \in {"connecting", "wait", "calling", "flushing", "closing", "exited"}
      /\ call \in CallTool \union {NoCall}
      /\ wasCreated \in BOOLEAN /\ currentModeHash \in Mode \union {NoMode}
      /\ connected \in BOOLEAN /\ alive \in BOOLEAN
      /\ shouldExit \in BOOLEAN /\ killing \in {"no", "flushing", "closing"}
      /\ thinking \in BOOLEAN /\ announced \in BOOLEAN
      /\ previousDiff \in Diff \union {NoDiff}
  BY DEF CodexInv, Types, LoopTypes
<1> DEFINE Place == pc' \in {"connecting", "wait", "calling", "flushing", "closing", "exited"}
                    /\ killing' \in {"no", "flushing", "closing"}
           Called == call' \in CallTool \union {NoCall}
           Bits == /\ wasCreated' \in BOOLEAN /\ connected' \in BOOLEAN /\ alive' \in BOOLEAN
                   /\ shouldExit' \in BOOLEAN /\ thinking' \in BOOLEAN /\ announced' \in BOOLEAN
           Values == currentModeHash' \in Mode \union {NoMode} /\ previousDiff' \in Diff \union {NoDiff}
           All == Place /\ Called /\ Bits /\ Values
<1>2. ASSUME All PROVE LoopTypes'
  BY <1>2 DEF LoopTypes
<1>3. ASSUME NEW kind \in {"start", "continue"}, NEW from \in Nat, NEW task, Take,
             CallCodex(kind, from, task)
      PROVE  Called /\ messageQueue[1].mode \in Mode
  <2>1. /\ messageQueue[1].mode \in Mode
        /\ {messageQueue[i].id : i \in Batch} \in SUBSET (1..MaxPrompts)
    BY <1>3, BatchTaken DEF Take, CodexInv, Types, PromptTypes
  <2>2. QED
    BY <1>3, <2>1 DEF CallCodex, CallTool
<1>4. ASSUME TakeAndStart \/ TakeAndRestart PROVE Called /\ messageQueue[1].mode \in Mode
  <2>1. Take
    BY <1>4 DEF TakeAndStart, TakeAndRestart
  <2>2. PICK from \in 0..Len(sessions) : CallCodex("start", from,
                        [status |-> "asked", mode |-> messageQueue[1].mode, from |-> from])
    BY <1>4, BatchStarts DEF CodexInv
  <2>3. from \in Nat
    BY <1>0
  <2>4. QED
    BY <1>3, <2>1, <2>2, <2>3
<1>5. ASSUME TakeAndContinue PROVE Called /\ messageQueue[1].mode \in Mode
  BY <1>0, <1>3, <1>5 DEF TakeAndContinue
<1>6. ASSUME TakeAndStart \/ TakeAndRestart \/ TakeAndContinue PROVE All
  <2>1. Called /\ Values
    BY <1>1, <1>4, <1>5, <1>6 DEF Take, TakeAndStart, TakeAndRestart, TakeAndContinue
  <2>2. Place
    BY <1>1, <1>6 DEF Take, TakeAndStart, TakeAndRestart, TakeAndContinue, exitVars
  <2>3. Bits
    BY <1>1, <1>6 DEF Take, TakeAndStart, TakeAndRestart, TakeAndContinue, exitVars
  <2>4. QED
    BY <2>1, <2>2, <2>3
<1>7. ASSUME NEW exits \in BOOLEAN, TurnEnd(exits)
      PROVE  /\ pc' \in {"flushing", "wait"} /\ call' = NoCall /\ thinking' = FALSE
             /\ previousDiff' = NoDiff /\ announced' \in BOOLEAN
  BY <1>7 DEF TurnEnd, EmitReadyIfIdle
<1>8. ASSUME CallFails
      PROVE  /\ pc' \in {"flushing", "wait", pc} /\ call' \in {NoCall, call} /\ thinking' \in BOOLEAN
             /\ previousDiff' \in {NoDiff, previousDiff} /\ announced' \in BOOLEAN
  BY <1>1, <1>7, <1>8 DEF CallFails, shownVars
<1>9. ASSUME Answers \/ CodexExits \/ KillCloses PROVE All
  <2>1. /\ pc' \in {"flushing", "wait", pc} /\ call' \in {NoCall, call} /\ thinking' \in BOOLEAN
        /\ previousDiff' \in {NoDiff, previousDiff} /\ announced' \in BOOLEAN
    BY <1>1, <1>7, <1>8, <1>9 DEF Answers, Answered, Fails, CodexExits, KillCloses, CodexGone
  <2>2. /\ killing' \in {"closing", killing} /\ UNCHANGED currentModeHash
        /\ UNCHANGED <<connected, shouldExit>> /\ alive' \in BOOLEAN /\ wasCreated' \in BOOLEAN
    BY <1>1, <1>9
    DEF Answers, Answered, Fails, CodexExits, KillCloses, CodexGone, CallFailsUnchanged, exitVars
  <2>3. Place
    BY <1>1, <2>1, <2>2
  <2>4. Bits
    BY <1>1, <2>1, <2>2
  <2>5. Called /\ Values
    BY <1>1, <2>1, <2>2
  <2>6. QED
    BY <2>3, <2>4, <2>5
<1>10. ASSUME NEW exits \in BOOLEAN, HandleAbort(exits), killing' \in {killing, "flushing"} PROVE All
  <2>1. /\ pc' \in {"flushing", "wait", pc} /\ call' \in {NoCall, call} /\ thinking' \in BOOLEAN
        /\ previousDiff' \in {NoDiff, previousDiff} /\ announced' \in BOOLEAN
    BY <1>1, <1>7, <1>10 DEF HandleAbort
  <2>2. UNCHANGED <<currentModeHash, wasCreated, connected, alive>> /\ shouldExit' = exits
    BY <1>10 DEF HandleAbort, codexVars
  <2>3. Place
    BY <1>1, <1>10, <2>1
  <2>4. Bits
    BY <1>1, <2>1, <2>2
  <2>5. Called /\ Values
    BY <1>1, <2>1, <2>2
  <2>6. QED
    BY <2>3, <2>4, <2>5
<1>11. ASSUME Abort \/ Exit \/ Kill PROVE All
  BY <1>1, <1>10, <1>11 DEF Abort, Exit, Kill
<1>12. ASSUME (\E fails \in BOOLEAN : Connect(fails)) \/ Cleanup \/ CleanedUp \/ KillEnds \/ Stops PROVE All
  <2>1. CASE \E fails \in BOOLEAN : Connect(fails)
    BY <1>1, <2>1 DEF Connect, loopVars, clientVars, exitVars, shownVars, codexVars
  <2>2. CASE Cleanup \/ CleanedUp
    <3>1. CASE Cleanup
      BY <1>1, <3>1 DEF Cleanup, clientVars, exitVars, shownVars
    <3>2. CASE CleanedUp
      BY <1>1, <3>2 DEF CleanedUp, ExitUnchanged, loopVars, clientVars, exitVars, shownVars, codexVars
    <3>3. QED
      BY <2>2, <3>1, <3>2
  <2>3. CASE KillEnds \/ Stops
    BY <1>1, <2>3 DEF KillEnds, ExitUnchanged, Stops, vars, loopVars, clientVars, exitVars, shownVars,
                      codexVars
  <2>4. QED
    BY <1>12, <2>1, <2>2, <2>3
<1>13. ASSUME (\E m \in Mode : Push(m))
              \/ \E c \in Call, outcome \in {"approved", "denied"} : AnswerPermission(c, outcome)
       PROVE  All
  BY <1>1, <1>13 DEF Push, AnswerPermission, loopVars, clientVars, exitVars, shownVars, codexVars
<1>14. ASSUME CodexEvents PROVE All
  <2>1. /\ UNCHANGED <<pc, call, wasCreated, currentModeHash, connected, alive, shouldExit, killing>>
        /\ thinking' \in BOOLEAN /\ announced' \in BOOLEAN
        /\ previousDiff' \in Diff \union {NoDiff}
    BY <1>1, <1>14
    DEF CodexEvents, SessionConfigured, TaskStarted, TaskOver, ReasoningDelta, SectionBreak, ReasoningComplete,
        TurnDiff, ProcessDiff, Elicitation, TaskEvent, Event, loopVars, exitVars, shownVars
  <2>2. Place
    BY <1>1, <2>1
  <2>3. Bits
    BY <1>1, <2>1
  <2>4. Called /\ Values
    BY <1>1, <2>1
  <2>5. QED
    BY <2>2, <2>3, <2>4
<1>15. QED
  <2>1. All
    BY <1>6, <1>9, <1>11, <1>12, <1>13, <1>14 DEF Next, Turns, UserSteps
  <2>2. QED
    BY <1>2, <2>1

---------------------------------------------------------------------------
(* Codex's tasks and sessions.                                             *)

\* A task is asked for, or of a session; and one of those is a task.
LEMMA TaskKinds ==
    /\ \A task \in Task :
          /\ task.status = "asked" => task.mode \in Mode /\ task.from \in Nat
          /\ task.status # "asked" =>
                /\ task.status \in {"configured", "started", "over"} /\ task.session \in Nat
                /\ task = [status |-> task.status, session |-> task.session]
    /\ \A m \in Mode, from \in Nat :
          [status |-> "asked", mode |-> m, from |-> from] \in Task
    /\ \A status \in {"configured", "started", "over"}, s \in Nat :
          [status |-> status, session |-> s] \in Task
BY DEF Task

\* Codex's tasks and sessions keep their types.
LEMMA CodexTypesKept ==
    ASSUME CodexInv, Next
    PROVE  CodexTypes'
<1>0. /\ DOMAIN tasks = 1..Len(tasks) /\ \A s \in 0..Len(sessions) : s \in Nat
      /\ sessionId \in 0..Len(sessions) /\ storedSessionIdForResume \in 0..Len(sessions)
      /\ tasks \in Seq(Task) /\ sessions \in Seq(Session(1..MaxPrompts))
      /\ 0 \in 0..Len(sessions)
      /\ Len(sessions) \in Nat /\ Len(tasks) \in Nat
  BY SessionsAreCounted DEF CodexInv, Types, CodexTypes
<1>1. \A t \in DOMAIN tasks : TaskFits(tasks[t], Len(sessions)) /\ tasks[t] \in Task
  BY <1>0 DEF CodexInv, Types, CodexTypes
<1> DEFINE Ids == sessionId' \in 0..Len(sessions) /\ storedSessionIdForResume' \in 0..Len(sessions)
\* No session is new.
<1>2. ASSUME Ids, sessions' \in Seq(Session(1..MaxPrompts)), Len(sessions') = Len(sessions),
             tasks' \in Seq(Task), Len(tasks') \in Nat,
             \A t \in 1..Len(tasks') : TaskFits(tasks'[t], Len(sessions))
      PROVE  CodexTypes'
  <2>1. DOMAIN tasks' = 1..Len(tasks')
    BY <1>2
  <2>2. QED
    BY <1>0, <1>2, <2>1 DEF CodexTypes
<1>3. ASSUME Ids, UNCHANGED <<sessions, tasks>> PROVE CodexTypes'
  BY <1>0, <1>1, <1>2, <1>3
<1>4. ASSUME NEW s \in 0..Len(sessions)
      PROVE  OverIn(s) \in Task /\ TaskFits(OverIn(s), Len(sessions))
  <2>1. s \in Nat
    BY <1>0
  <2>2. QED
    BY <2>1, TaskKinds DEF OverIn, TaskFits
<1>5. ASSUME Ids, UNCHANGED sessions, tasks' = [t \in DOMAIN tasks |-> OverIn(0)] PROVE CodexTypes'
  <2>1. tasks' \in Seq(Task) /\ Len(tasks') = Len(tasks)
    BY <1>0, <1>4, <1>5
  <2>2. \A t \in 1..Len(tasks') : TaskFits(tasks'[t], Len(sessions))
    BY <1>0, <1>4, <1>5, <2>1
  <2>3. QED
    BY <1>0, <1>2, <1>5, <2>1, <2>2
<1>6. ASSUME Ids, UNCHANGED sessions, NEW u \in DOMAIN tasks, NEW task \in Task,
             TaskFits(task, Len(sessions)), tasks' = [tasks EXCEPT ![u] = task]
      PROVE  CodexTypes'
  <2>1. tasks' \in Seq(Task) /\ Len(tasks') = Len(tasks)
    BY <1>0, <1>6
  <2>2. \A t \in 1..Len(tasks') : TaskFits(tasks'[t], Len(sessions))
    BY <1>0, <1>1, <1>6, <2>1
  <2>3. QED
    BY <1>0, <1>2, <1>6, <2>1, <2>2
<1>7. ASSUME Ids, UNCHANGED sessions, NEW task \in Task,
             TaskFits(task, Len(sessions)), tasks' = Append(tasks, task)
      PROVE  CodexTypes'
  <2>1. tasks' \in Seq(Task) /\ Len(tasks') = Len(tasks) + 1
    BY <1>0, <1>7
  <2>2. ASSUME NEW t \in 1..Len(tasks') PROVE TaskFits(tasks'[t], Len(sessions))
    <3>1. CASE t \in 1..Len(tasks)
      BY <1>0, <1>1, <1>7, <3>1
    <3>2. CASE t = Len(tasks) + 1
      BY <1>0, <1>7, <3>2
    <3>3. QED
      BY <1>0, <2>1, <3>1, <3>2
  <2>3. QED
    BY <1>0, <1>2, <1>7, <2>1, <2>2
\* Batches.
<1>8. ASSUME Take PROVE messageQueue[1].mode \in Mode /\ UNCHANGED sessions
  BY <1>8, BatchTaken DEF Take, CodexInv, Types, PromptTypes
<1>9. ASSUME TakeAndStart \/ TakeAndRestart PROVE CodexTypes'
  <2>1. Take
    BY <1>9 DEF TakeAndStart, TakeAndRestart
  <2>2. PICK from \in 0..Len(sessions) : CallCodex("start", from,
                        [status |-> "asked", mode |-> messageQueue[1].mode, from |-> from])
    BY <1>9, BatchStarts DEF CodexInv
  <2> DEFINE asked == [status |-> "asked", mode |-> messageQueue[1].mode, from |-> from]
  <2>3. asked \in Task /\ TaskFits(asked, Len(sessions))
    <3>1. from \in Nat
      BY <1>0
    <3>2. QED
      BY <1>8, <2>1, <3>1, TaskKinds DEF TaskFits
  <2>4. OverIn(0) \in Task /\ TaskFits(OverIn(0), Len(sessions))
    BY <1>0, <1>4
  <2>5. tasks' = Append(tasks, asked) \/ tasks' = Append(tasks, OverIn(0))
    BY <2>2 DEF CallCodex
  <2>6. Ids
    BY <1>0, <1>9 DEF TakeAndStart, TakeAndRestart, StartSession
  <2> HIDE DEF asked
  <2>7. QED
    BY <1>7, <1>8, <2>1, <2>3, <2>4, <2>5, <2>6
<1>10. ASSUME TakeAndContinue PROVE CodexTypes'
  <2> DEFINE task == IF alive THEN IF sessionId = 0 THEN OverIn(0)
                                   ELSE [status |-> "configured", session |-> sessionId]
                     ELSE OverIn(0)
  <2>1. tasks' = Append(tasks, task) /\ UNCHANGED sessions /\ Ids
    BY <1>0, <1>8, <1>10 DEF TakeAndContinue, CallCodex
  <2>2. OverIn(0) \in Task /\ TaskFits(OverIn(0), Len(sessions))
    BY <1>0, <1>4
  <2>3. sessionId \in Nat
    BY <1>0
  <2>4. task \in Task /\ TaskFits(task, Len(sessions))
    BY <1>0, <2>2, <2>3, TaskKinds DEF TaskFits
  <2> HIDE DEF task
  <2>5. QED
    BY <1>7, <2>1, <2>4
\* The end of a call, and of Codex.
<1>11. ASSUME StoreForResume PROVE storedSessionIdForResume' \in 0..Len(sessions)
  BY <1>0, <1>11 DEF StoreForResume
<1>12. ASSUME CallFails PROVE storedSessionIdForResume' \in 0..Len(sessions)
  BY <1>0, <1>11, <1>12 DEF CallFails
<1>13. ASSUME CodexExits \/ KillCloses \/ Cleanup PROVE CodexTypes'
  <2>1. /\ UNCHANGED <<sessions, sessionId>> /\ tasks' = [t \in DOMAIN tasks |-> OverIn(0)]
        /\ storedSessionIdForResume' \in 0..Len(sessions)
    BY <1>0, <1>12, <1>13 DEF CodexExits, KillCloses, Cleanup, CodexGone, CallFailsUnchanged, clientVars
  <2>2. QED
    BY <1>0, <1>5, <2>1
<1>14. ASSUME NEW over \in BOOLEAN, Fails(over) PROVE CodexTypes'
  <2>1. UNCHANGED <<sessions, sessionId>> /\ storedSessionIdForResume' \in 0..Len(sessions)
    BY <1>12, <1>14 DEF Fails, CallFailsUnchanged
  <2>2. UNCHANGED tasks \/ tasks' = [tasks EXCEPT ![Len(tasks)] = OverIn(0)]
    BY <1>14 DEF Fails
  <2>3. CASE Len(tasks) = 0
    <3>1. UNCHANGED tasks
      BY <1>0, <2>2, <2>3
    <3>2. QED
      BY <1>0, <1>3, <2>1, <3>1
  <2>4. CASE Len(tasks) # 0
    <3>1. Len(tasks) \in DOMAIN tasks
      BY <1>0, <2>4
    <3>2. OverIn(0) \in Task /\ TaskFits(OverIn(0), Len(sessions))
      BY <1>0, <1>4
    <3>3. QED
      BY <1>0, <1>3, <1>6, <2>1, <2>2, <3>1, <3>2
  <2>5. QED
    BY <2>3, <2>4
<1>15. ASSUME NEW named \in BOOLEAN, Answered(named) PROVE CodexTypes'
  <2> DEFINE s == tasks[Len(tasks)].session
  <2>1. /\ UNCHANGED <<tasks, storedSessionIdForResume>> /\ sessionId' \in {sessionId, s}
        /\ sessions' = [sessions EXCEPT ![s].knows = @ \union call.batch]
        /\ tasks[Len(tasks)].status = "over" /\ pc = "calling" /\ alive
    BY <1>15 DEF Answered
  <2>2. tasks # << >> /\ call \in CallTool
    BY <2>1 DEF CodexInv, ModeKept, Types, LoopTypes
  <2>3. Len(tasks) \in DOMAIN tasks
    BY <1>0, <2>2
  <2>4. s \in 0..Len(sessions)
    BY <1>1, <2>1, <2>3 DEF TaskFits
  <2>5. s # 0
    BY <2>1 DEF CodexInv, ModeKept
  <2> HIDE DEF s
  <2>6. \A n \in 1..Len(sessions) : sessions[n] \in Session(1..MaxPrompts)
    BY <1>0
  <2>7. sessions' \in Seq(Session(1..MaxPrompts)) /\ Len(sessions') = Len(sessions)
    <3>1. s \in 1..Len(sessions)
      BY <1>0, <2>4, <2>5
    <3>2. [sessions[s] EXCEPT !.knows = @ \union call.batch] \in Session(1..MaxPrompts)
      BY <2>2, <2>6, <3>1 DEF Session, CallTool
    <3>3. sessions' = [sessions EXCEPT ![s] = [sessions[s] EXCEPT !.knows = @ \union call.batch]]
      BY <2>1
    <3>4. QED
      BY <1>0, <3>1, <3>2, <3>3
  <2>8. QED
    BY <1>0, <1>1, <1>2, <2>1, <2>4, <2>7
\* Codex's events.
<1>16a. ASSUME NEW u \in DOMAIN tasks, NamesSession(u), tasks[u].status \in {"configured", "started"}
        PROVE  sessionId' \in 0..Len(sessions)
  <2>1. tasks[u].session \in 0..Len(sessions)
    BY <1>1, <1>16a DEF TaskFits
  <2>2. QED
    BY <1>0, <1>16a, <2>1 DEF NamesSession
<1>16. ASSUME NEW u \in DOMAIN tasks, NEW status \in {"started", "over"}, Becomes(u, status),
              tasks[u].status \in {"configured", "started"}, NamesSession(u),
              UNCHANGED <<sessions, storedSessionIdForResume>>
       PROVE  CodexTypes'
  <2>1. /\ tasks[u] \in Task /\ tasks[u].session \in 0..Len(sessions) /\ tasks[u].session # 0
        /\ tasks[u] = [status |-> tasks[u].status, session |-> tasks[u].session]
    BY <1>1, <1>16, TaskKinds DEF TaskFits
  <2> DEFINE task == [status |-> status, session |-> tasks[u].session]
  <2>2. [tasks[u] EXCEPT !.status = status] = task
    BY <2>1
  <2>3. tasks' = [tasks EXCEPT ![u] = task]
    BY <1>16, <2>2 DEF Becomes
  <2>4. tasks[u].session \in Nat
    BY <1>0, <2>1
  <2>5. task \in Task /\ TaskFits(task, Len(sessions))
    BY <2>1, <2>4, TaskKinds DEF TaskFits
  <2> HIDE DEF task
  <2>6. QED
    BY <1>0, <1>6, <1>16, <1>16a, <2>3, <2>5
<1>17. ASSUME NEW u \in DOMAIN tasks, SessionConfigured(u) PROVE CodexTypes'
  <2> DEFINE from == tasks[u].from
             knows == IF from = 0 THEN {} ELSE sessions[from].knows
             session == [mode |-> tasks[u].mode, knows |-> knows]
             task == [status |-> "configured", session |-> Len(sessions) + 1]
  <2>1. /\ tasks[u].status = "asked"
        /\ sessions' = Append(sessions, session) /\ sessionId' = Len(sessions')
        /\ tasks' = [tasks EXCEPT ![u] = [status |-> "configured", session |-> Len(sessions')]]
        /\ UNCHANGED storedSessionIdForResume
    BY <1>17 DEF SessionConfigured, Event
  <2>2. from \in 0..Len(sessions) /\ tasks[u].mode \in Mode /\ u \in 1..Len(tasks)
    BY <1>0, <1>1, <2>1, TaskKinds DEF TaskFits
  <2>3. session \in Session(1..MaxPrompts)
    <3>1. \A n \in 1..Len(sessions) : sessions[n] \in Session(1..MaxPrompts)
      BY <1>0
    <3>2. \A n \in 1..Len(sessions) : sessions[n].knows \in SUBSET (1..MaxPrompts)
      BY <3>1 DEF Session
    <3>3. knows \in SUBSET (1..MaxPrompts)
      BY <1>0, <2>2, <3>2
    <3> HIDE DEF knows
    <3>4. QED
      BY <2>2, <3>3 DEF Session
  <2> HIDE DEF session
  <2>4. sessions' \in Seq(Session(1..MaxPrompts)) /\ Len(sessions') = Len(sessions) + 1
    BY <1>0, <2>1, <2>3
  <2>5. task \in Task /\ tasks' = [tasks EXCEPT ![u] = task]
    <3>1. Len(sessions) + 1 \in Nat
      BY <1>0
    <3>2. QED
      BY <2>1, <2>4, <3>1, TaskKinds
  <2>6. tasks' \in Seq(Task) /\ Len(tasks') = Len(tasks) /\ DOMAIN tasks' = DOMAIN tasks
    <3> HIDE DEF task
    <3>1. QED
      BY <1>0, <2>5
  <2>7. ASSUME NEW t \in DOMAIN tasks PROVE TaskFits(tasks'[t], Len(sessions) + 1)
    <3>1. CASE t = u
      <4>1. tasks'[t] = task
        BY <1>0, <2>5, <3>1
      <4>2. QED
        BY <1>0, <4>1 DEF TaskFits
    <3>2. CASE t # u
      <4>1. tasks'[t] = tasks[t] /\ TaskFits(tasks[t], Len(sessions))
        BY <1>0, <1>1, <2>5, <3>2
      <4>2. QED
        BY <1>0, <4>1 DEF TaskFits
    <3>3. QED
      BY <3>1, <3>2
  <2>8. QED
    BY <1>0, <2>1, <2>2, <2>4, <2>6, <2>7 DEF CodexTypes
<1>18. ASSUME NEW u \in DOMAIN tasks, TaskStarted(u) \/ TaskOver(u) PROVE CodexTypes'
  BY <1>16, <1>18 DEF TaskStarted, TaskOver, Event
<1>19. ASSUME NEW u \in DOMAIN tasks, TaskEvent(u) PROVE CodexTypes'
  BY <1>0, <1>3, <1>16a, <1>19 DEF TaskEvent, Event
<1>20. ASSUME CodexEvents PROVE CodexTypes'
  BY <1>17, <1>18, <1>19, <1>20
  DEF CodexEvents, ReasoningDelta, SectionBreak, ReasoningComplete, TurnDiff, Elicitation
\* The rest.
<1>21. ASSUME UserSteps PROVE CodexTypes'
  <2>1. UNCHANGED <<tasks, sessions, sessionId>> /\ storedSessionIdForResume' \in 0..Len(sessions)
    BY <1>0, <1>11, <1>21
    DEF UserSteps, Push, AnswerPermission, Abort, Exit, Kill, HandleAbort, codexVars, clientVars
  <2>2. QED
    BY <1>0, <1>3, <2>1
<1>22. ASSUME (\E fails \in BOOLEAN : Connect(fails)) \/ CleanedUp \/ KillEnds \/ Stops PROVE CodexTypes'
  <2>1. UNCHANGED <<tasks, sessions, storedSessionIdForResume>> /\ sessionId' \in {0, sessionId}
    BY <1>22 DEF Connect, CleanedUp, KillEnds, Stops, ExitUnchanged, codexVars, clientVars, vars
  <2>2. QED
    BY <1>0, <1>3, <2>1
<1>23. QED
  BY <1>9, <1>10, <1>13, <1>14, <1>15, <1>20, <1>21, <1>22 DEF Next, Turns, Answers

\* It is known whether the client was led astray.
LEMMA AstrayKept ==
    ASSUME ledAstray \in BOOLEAN, Next
    PROVE  ledAstray' \in BOOLEAN
<1>1. ASSUME UNCHANGED historyVars \/ UNCHANGED ledAstray PROVE ledAstray' \in BOOLEAN
  BY <1>1 DEF historyVars
<1>2. ASSUME Turns \/ Answers \/ UserSteps \/ CodexExits \/ KillCloses \/ KillEnds \/ Stops
      PROVE  UNCHANGED historyVars \/ UNCHANGED ledAstray
  <2>1. CASE Turns \/ KillEnds \/ Stops
    BY <2>1 DEF Turns, Connect, Take, TakeAndStart, TakeAndRestart, TakeAndContinue, Cleanup, CleanedUp,
                KillEnds, ExitUnchanged, Stops, vars
  <2>2. CASE Answers \/ CodexExits \/ KillCloses
    BY <2>2 DEF Answers, Answered, Fails, CodexExits, KillCloses, CallFailsUnchanged
  <2>3. CASE UserSteps
    BY <2>3 DEF UserSteps, Push, AnswerPermission, Abort, Exit, Kill, HandleAbort
  <2>4. QED
    BY <1>2, <2>1, <2>2, <2>3
<1>3. ASSUME NEW t, NamesSession(t) \/ SessionConfigured(t) PROVE ledAstray' \in BOOLEAN
  BY <1>3 DEF NamesSession, SessionConfigured, Interrupted
<1>4. ASSUME CodexEvents PROVE \E t : NamesSession(t) \/ SessionConfigured(t)
  BY <1>4 DEF CodexEvents, TaskStarted, TaskOver, TaskEvent, ReasoningDelta, SectionBreak,
              ReasoningComplete, TurnDiff, Elicitation
<1>5. QED
  BY <1>1, <1>2, <1>3, <1>4 DEF Next

---------------------------------------------------------------------------
(* The mode.                                                               *)

\* The session that was created stays the client's, and in the loop's mode, unless the
\* client is led astray. As long as a session is to be configured for the loop's own call,
\* none counts as created; and any other session that is configured, or named, leads the
\* client astray.
LEMMA ModeStaysKept ==
    ASSUME CodexInv, Next
    PROVE  ModeKept'
<1>0. /\ Len(sessions) \in Nat /\ Len(tasks) \in Nat /\ DOMAIN tasks = 1..Len(tasks)
      /\ tasks \in Seq(Task) /\ sessions \in Seq(Session(1..MaxPrompts))
      /\ sessionId \in 0..Len(sessions)
      /\ \A t \in DOMAIN tasks : TaskFits(tasks[t], Len(sessions)) /\ tasks[t] \in Task
  BY SessionsAreCounted DEF CodexInv, Types, CodexTypes
<1>1. wasCreated /\ pc # "exited" => sessionId # 0 /\ Serves(sessionId)
  BY DEF CodexInv, ModeKept
<1>2. ASSUME pc = "calling"
      PROVE  /\ call # NoCall /\ call.mode = currentModeHash
             /\ wasCreated <=> call.kind = "continue"
             /\ call.kind = "continue" => Serves(call.from)
  BY <1>2 DEF CodexInv, ModeKept
<1>3. ASSUME pc = "calling", alive
      PROVE  /\ tasks # << >>
             /\ tasks[Len(tasks)].status = "asked" =>
                   call.kind = "start" /\ tasks[Len(tasks)].mode = currentModeHash
             /\ tasks[Len(tasks)].status # "asked" =>
                   tasks[Len(tasks)].session # 0 /\ sessionId # 0 /\ Serves(tasks[Len(tasks)].session)
  BY <1>3 DEF CodexInv, ModeKept
<1>4. pc \in {"connecting", "wait", "calling", "flushing", "closing", "exited"}
  BY DEF CodexInv, Types, LoopTypes
\* Nothing that matters here happens.
<1> DEFINE Still == UNCHANGED <<wasCreated, sessionId, sessions, currentModeHash, ledAstray>>
<1>5. ASSUME Still, pc' # "calling", pc # "exited" PROVE ModeKept'
  BY <1>1, <1>5 DEF ModeKept, Serves
<1>6. ASSUME Still, UNCHANGED <<tasks, pc, call, alive>> PROVE ModeKept'
  <2>1. ModeKept
    BY DEF CodexInv
  <2>2. QED
    BY <1>6, <2>1 DEF ModeKept, Serves
<1>7. ASSUME pc' = "exited" PROVE ModeKept'
  BY <1>7 DEF ModeKept
<1>8. ASSUME NEW exits, TurnEnd(exits) PROVE pc' # "calling"
  BY <1>8 DEF TurnEnd
<1>9. ASSUME CallFails PROVE pc' # "calling"
  BY <1>8, <1>9 DEF CallFails
<1>10. ASSUME CodexExits \/ KillCloses \/ Cleanup PROVE ModeKept'
  <2>1. Still /\ pc' # "calling" /\ pc # "exited"
    BY <1>9, <1>10
    DEF CodexExits, KillCloses, Cleanup, CodexGone, CallFailsUnchanged, clientVars, historyVars, Runs
  <2>2. QED
    BY <1>5, <2>1
<1>11. ASSUME NEW over \in BOOLEAN, Fails(over) PROVE ModeKept'
  <2>1. Still /\ pc' # "calling" /\ pc # "exited"
    BY <1>9, <1>11 DEF Fails, CallFailsUnchanged
  <2>2. QED
    BY <1>5, <2>1
\* The answer may name the session; what the session knows is all that changes of it.
<1>12. ASSUME NEW named \in BOOLEAN, Answered(named) PROVE ModeKept'
  <2> DEFINE s == tasks[Len(tasks)].session
  <2>1. /\ UNCHANGED <<currentModeHash, ledAstray>> /\ sessionId' \in {sessionId, s}
        /\ sessions' = [sessions EXCEPT ![s].knows = @ \union call.batch]
        /\ tasks[Len(tasks)].status = "over" /\ pc = "calling" /\ alive /\ pc' # "calling"
    BY <1>8, <1>12 DEF Answered
  <2>2. s # 0 /\ sessionId # 0 /\ Serves(s) /\ tasks # << >>
    BY <1>3, <2>1
  <2>3. s \in 1..Len(sessions)
    <3>1. Len(tasks) \in DOMAIN tasks
      BY <1>0, <2>2
    <3>2. s \in 0..Len(sessions)
      BY <1>0, <2>1, <3>1 DEF TaskFits
    <3> HIDE DEF s
    <3>3. QED
      BY <1>0, <2>2, <3>2
  <2> HIDE DEF s
  <2>4. sessions'[s].mode = sessions[s].mode
    <3> DEFINE known == [sessions[s] EXCEPT !.knows = @ \union call.batch]
    <3>1. known.mode = sessions[s].mode
      <4>1. sessions[s] \in Session(1..MaxPrompts)
        BY <1>0, <2>3
      <4>2. QED
        BY <4>1 DEF Session
    <3>2. s \in DOMAIN sessions /\ sessions' = [sessions EXCEPT ![s] = known]
      BY <1>0, <2>1, <2>3
    <3> HIDE DEF known
    <3>3. sessions'[s] = known
      BY <3>2
    <3>4. QED
      BY <3>1, <3>3
  <2>5. sessionId' # 0
    BY <2>1, <2>2
  <2>6. Serves(sessionId)'
    BY <2>1, <2>2, <2>4 DEF Serves
  <2>7. QED
    BY <2>1, <2>5, <2>6 DEF ModeKept
\* Batches.
<1>13. ASSUME Take
       PROVE  /\ pc = "wait" /\ pc' = "calling" /\ currentModeHash' = messageQueue[1].mode
              /\ UNCHANGED <<alive, sessions, ledAstray>>
  BY <1>13 DEF Take, historyVars
<1>14. ASSUME NEW task, tasks' = Append(tasks, task)
       PROVE  tasks' # << >> /\ tasks'[Len(tasks')] = task
  BY <1>0, <1>14
<1>15. ASSUME TakeAndStart \/ TakeAndRestart PROVE ModeKept'
  <2>1. Take /\ ~wasCreated'
    BY <1>15 DEF TakeAndStart, TakeAndRestart
  <2>2. PICK from \in 0..Len(sessions) : CallCodex("start", from,
                        [status |-> "asked", mode |-> messageQueue[1].mode, from |-> from])
    BY <1>15, BatchStarts DEF CodexInv
  <2>3. call' # NoCall /\ call'.mode = messageQueue[1].mode /\ call'.kind = "start"
    BY <2>2 DEF CallCodex, NoCall
  <2>4. alive => /\ tasks' # << >>
                 /\ tasks'[Len(tasks')].status = "asked"
                 /\ tasks'[Len(tasks')].mode = messageQueue[1].mode
    BY <1>14, <2>2 DEF CallCodex
  <2>5. QED
    BY <1>13, <2>1, <2>3, <2>4 DEF ModeKept
<1>16. ASSUME TakeAndContinue PROVE ModeKept'
  <2> DEFINE task == IF sessionId = 0 THEN OverIn(0) ELSE [status |-> "configured", session |-> sessionId]
  <2>1. /\ Take /\ wasCreated /\ wasCreated' /\ messageQueue[1].mode = currentModeHash
        /\ CallCodex("continue", sessionId, task) /\ UNCHANGED sessionId
    BY <1>16 DEF TakeAndContinue, ModeChanged
  <2>2. sessionId # 0 /\ Serves(sessionId)
    BY <1>1, <1>13, <2>1
  <2>3. Serves(sessionId)'
    BY <1>13, <2>1, <2>2 DEF Serves
  <2>4. /\ call' # NoCall /\ call'.mode = messageQueue[1].mode /\ call'.kind = "continue"
        /\ call'.from = sessionId'
    BY <2>1 DEF CallCodex, NoCall
  <2>5. alive => /\ tasks' # << >>
                 /\ tasks'[Len(tasks')].status # "asked"
                 /\ tasks'[Len(tasks')].session = sessionId'
    BY <1>14, <2>1, <2>2 DEF CallCodex
  <2>6. QED
    BY <1>13, <2>1, <2>2, <2>3, <2>4, <2>5 DEF ModeKept, Serves
\* Codex's events.
<1>17. ASSUME NEW u \in DOMAIN tasks, Event(u)
       PROVE  pc # "exited" /\ alive /\ UNCHANGED <<pc, call, wasCreated, currentModeHash, alive>>
  BY <1>17 DEF Event, Runs, loopVars
\* A session that is named is there, and is the client's already, or leads it astray.
<1>18. ASSUME NEW u \in DOMAIN tasks, NamesSession(u), UNCHANGED <<sessions, currentModeHash>>,
              tasks[u].status \in {"configured", "started"}
       PROVE  /\ sessionId # 0 => sessionId' # 0
              /\ \A s : Serves(s) => Serves(s)'
  <2>1. tasks[u].session # 0
    BY <1>0, <1>18 DEF TaskFits
  <2>2. sessionId # 0 => sessionId' # 0
    BY <1>18, <2>1 DEF NamesSession
  <2>3. ~ledAstray' => ~ledAstray /\ sessionId' = sessionId
    BY <1>18 DEF NamesSession
  <2>4. ASSUME NEW s, Serves(s) PROVE Serves(s)'
    BY <1>18, <2>3, <2>4 DEF Serves
  <2>5. QED
    BY <2>2, <2>4
\* And the task whose event it is keeps its session.
<1>19. ASSUME NEW u \in DOMAIN tasks, Event(u), NamesSession(u), UNCHANGED sessions,
              tasks[u].status \in {"configured", "started"},
              \/ UNCHANGED tasks
              \/ \E status \in {"started", "over"} : Becomes(u, status)
       PROVE  ModeKept'
  <2>1. /\ pc # "exited" /\ alive /\ UNCHANGED <<pc, call, wasCreated, currentModeHash, alive>>
    BY <1>17, <1>19
  <2>2. (sessionId # 0 => sessionId' # 0) /\ \A s : Serves(s) => Serves(s)'
    BY <1>18, <1>19, <2>1
  <2>3. /\ DOMAIN tasks' = DOMAIN tasks /\ Len(tasks') = Len(tasks)
        /\ \A t \in DOMAIN tasks :
              \/ tasks'[t] = tasks[t]
              \/ tasks[t].status # "asked" /\ tasks'[t].status # "asked"
                    /\ tasks'[t].session = tasks[t].session
    <3>1. CASE UNCHANGED tasks
      BY <3>1
    <3>2. ASSUME NEW status \in {"started", "over"}, Becomes(u, status)
          PROVE  /\ DOMAIN tasks' = DOMAIN tasks /\ Len(tasks') = Len(tasks)
                 /\ tasks'[u].status # "asked" /\ tasks'[u].session = tasks[u].session
                 /\ \A t \in DOMAIN tasks : t # u => tasks'[t] = tasks[t]
      <4>1. tasks[u] = [status |-> tasks[u].status, session |-> tasks[u].session]
        BY <1>0, <1>19, TaskKinds
      <4>2. [tasks[u] EXCEPT !.status = status] = [status |-> status, session |-> tasks[u].session]
        BY <4>1
      <4>3. tasks' = [tasks EXCEPT ![u] = [status |-> status, session |-> tasks[u].session]]
        BY <3>2, <4>2 DEF Becomes
      <4>4. QED
        BY <1>0, <4>3
    <3>3. CASE \E status \in {"started", "over"} : Becomes(u, status)
      BY <1>19, <3>2, <3>3
    <3>4. QED
      BY <1>19, <3>1, <3>3
  <2>4. wasCreated' /\ pc' # "exited" => sessionId' # 0 /\ Serves(sessionId)'
    <3>1. wasCreated => sessionId # 0 /\ Serves(sessionId)
      BY <1>1, <2>1
    <3>2. Serves(sessionId)' <=> (~ledAstray' => sessions'[sessionId'].mode = currentModeHash')
      BY DEF Serves
    <3>3. Serves(sessionId) => Serves(sessionId)'
      BY <1>19, <2>1, <3>2 DEF Serves, NamesSession
    <3>4. QED
      BY <2>1, <2>2, <3>1, <3>3
  <2>5. CASE pc # "calling"
    BY <2>1, <2>4, <2>5 DEF ModeKept
  <2>6. CASE pc = "calling"
    <3>1. tasks # << >> /\ Len(tasks) \in DOMAIN tasks /\ tasks' # << >>
      BY <1>0, <1>3, <2>1, <2>3, <2>6
    <3>2. tasks'[Len(tasks)].status = "asked" =>
             call.kind = "start" /\ tasks'[Len(tasks)].mode = currentModeHash
      BY <1>3, <2>1, <2>3, <2>6, <3>1
    <3>3. tasks'[Len(tasks)].status # "asked" =>
             /\ tasks'[Len(tasks)].session # 0 /\ sessionId # 0
             /\ Serves(tasks'[Len(tasks)].session)
      BY <1>3, <2>1, <2>3, <2>6, <3>1
    <3> DEFINE last == tasks'[Len(tasks)]
    <3>4. last.status # "asked" => last.session # 0 /\ sessionId' # 0
                                   /\ (~ledAstray' => last.session = sessionId'
                                                      /\ sessions'[last.session].mode = currentModeHash')
      BY <2>2, <3>3 DEF Serves
    <3>5. call.kind = "continue" => (~ledAstray' => call.from = sessionId'
                                                      /\ sessions'[call.from].mode = currentModeHash')
      BY <1>2, <2>2, <2>6 DEF Serves
    <3>6. /\ call # NoCall /\ call.mode = currentModeHash /\ (wasCreated <=> call.kind = "continue")
      BY <1>2, <2>6
    <3>7. QED
      BY <2>1, <2>3, <2>4, <2>6, <3>1, <3>2, <3>4, <3>5, <3>6 DEF ModeKept, Serves
  <2>7. QED
    BY <2>5, <2>6
<1>20. ASSUME NEW u \in DOMAIN tasks, TaskStarted(u) \/ TaskOver(u) \/ TaskEvent(u) PROVE ModeKept'
  BY <1>19, <1>20 DEF TaskStarted, TaskOver, TaskEvent
<1>21. ASSUME NEW u \in DOMAIN tasks, SessionConfigured(u) PROVE ModeKept'
  <2>1. /\ Event(u) /\ tasks[u].status = "asked"
        /\ sessionId' = Len(sessions') /\ ledAstray' = Interrupted(u)
        /\ tasks' = [tasks EXCEPT ![u] = [status |-> "configured", session |-> Len(sessions')]]
    BY <1>21 DEF SessionConfigured
  <2>2. PICK knows : sessions' = Append(sessions, [mode |-> tasks[u].mode, knows |-> knows])
    BY <1>21 DEF SessionConfigured
  <2>3. Len(sessions') = Len(sessions) + 1 /\ sessions'[Len(sessions) + 1].mode = tasks[u].mode
    BY <1>0, <2>2
  <2>4. sessionId' = Len(sessions) + 1 /\ sessionId' # 0
    BY <1>0, <2>1, <2>3
  <2>5. DOMAIN tasks' = DOMAIN tasks /\ Len(tasks') = Len(tasks)
    BY <1>0, <2>1
  <2>6. /\ pc # "exited" /\ alive /\ UNCHANGED <<pc, call, wasCreated, currentModeHash, alive>>
    BY <1>17, <2>1
  \* That of another call leads the client astray.
  <2>7. CASE Interrupted(u)
    <3>1. \A s : Serves(s)'
      BY <2>1, <2>7 DEF Serves
    <3>2. CASE pc # "calling"
      BY <2>1, <2>4, <2>6, <2>7, <3>2 DEF ModeKept, Serves
    <3>3. CASE pc = "calling"
      <4>1. u # Len(tasks) /\ tasks # << >> /\ Len(tasks) \in DOMAIN tasks
        BY <1>0, <1>3, <2>6, <2>7, <3>3 DEF Interrupted
      <4>2. tasks'[Len(tasks)] = tasks[Len(tasks)] /\ tasks' # << >>
        BY <1>0, <2>1, <2>5, <4>1
      <4>3. tasks'[Len(tasks)].status = "asked" =>
               call.kind = "start" /\ tasks'[Len(tasks)].mode = currentModeHash
        BY <1>3, <2>6, <3>3, <4>2
      <4>4. tasks'[Len(tasks)].status # "asked" => tasks'[Len(tasks)].session # 0
        BY <1>3, <2>6, <3>3, <4>2
      <4>5. /\ call # NoCall /\ call.mode = currentModeHash /\ (wasCreated <=> call.kind = "continue")
        BY <1>2, <3>3
      <4>6. QED
        BY <2>1, <2>4, <2>5, <2>6, <2>7, <3>3, <4>2, <4>3, <4>4, <4>5 DEF ModeKept, Serves
    <3>4. QED
      BY <3>2, <3>3
  \* That of the loop's own call is the client's from now on.
  <2>8. CASE ~Interrupted(u)
    <3>1. pc = "calling" /\ u = Len(tasks) /\ tasks' # << >>
      BY <1>0, <2>5, <2>8 DEF Interrupted
    <3>2. call.kind = "start" /\ tasks[u].mode = currentModeHash /\ ~wasCreated
      BY <1>2, <1>3, <2>1, <2>6, <3>1
    <3>3. call # NoCall /\ call.mode = currentModeHash
      BY <1>2, <3>1
    <3>4. tasks'[Len(tasks)] = [status |-> "configured", session |-> sessionId']
      BY <1>0, <2>1, <3>1
    <3>5. sessions'[sessionId'].mode = currentModeHash'
      BY <2>3, <2>4, <2>6, <3>2
    <3>6. QED
      BY <2>4, <2>5, <2>6, <3>1, <3>2, <3>3, <3>4, <3>5 DEF ModeKept, Serves
  <2>9. QED
    BY <2>7, <2>8
<1>22. ASSUME CodexEvents PROVE ModeKept'
  BY <1>20, <1>21, <1>22
  DEF CodexEvents, ReasoningDelta, SectionBreak, ReasoningComplete, TurnDiff, Elicitation
\* The user, and the rest.
<1>23. ASSUME NEW exits, HandleAbort(exits) PROVE ModeKept'
  <2>1. Still /\ pc # "exited"
    BY <1>23 DEF HandleAbort, codexVars, Runs
  <2>2. pc' # "calling"
    BY <1>4, <1>8, <1>23 DEF HandleAbort
  <2>3. QED
    BY <1>5, <2>1, <2>2
<1>24. ASSUME UserSteps PROVE ModeKept'
  <2>1. ASSUME (\E m \in Mode : Push(m))
               \/ \E c \in Call, outcome \in {"approved", "denied"} : AnswerPermission(c, outcome)
        PROVE  ModeKept'
    BY <1>6, <2>1 DEF Push, AnswerPermission, loopVars, clientVars, codexVars, historyVars
  <2>2. QED
    BY <1>23, <1>24, <2>1 DEF UserSteps, Abort, Exit, Kill
<1>25. ASSUME \E fails \in BOOLEAN : Connect(fails) PROVE ModeKept'
  <2>1. Still /\ pc' # "calling" /\ pc # "exited"
    BY <1>25 DEF Connect, historyVars
  <2>2. QED
    BY <1>5, <2>1
<1>26. ASSUME CleanedUp \/ KillEnds PROVE ModeKept'
  BY <1>7, <1>26 DEF CleanedUp, KillEnds
<1>27. ASSUME Stops PROVE ModeKept'
  BY <1>6, <1>27 DEF Stops, vars, loopVars, clientVars, codexVars, historyVars
<1>28. QED
  BY <1>10, <1>11, <1>12, <1>15, <1>16, <1>22, <1>24, <1>25, <1>26, <1>27 DEF Next, Turns, Answers

---------------------------------------------------------------------------
(* The theorems.                                                           *)

\* It all holds at the start.
LEMMA CodexInvInit == Init => CodexInv
<1> SUFFICES ASSUME Init PROVE CodexInv
  OBVIOUS
<1>1. LoopTypes
  BY DEF Init, LoopTypes
<1>2. PermissionTypes
  BY DEF Init, PermissionTypes, Outcome
<1>3. PromptTypes
  BY CodexSessionAssumption DEF Init, PromptTypes
<1>4. CodexTypes
  BY DEF Init, CodexTypes
<1>5. ModeKept
  BY DEF Init, ModeKept
<1>6. ThoughtsClosed(section, shown)
  BY NothingThought DEF Init
<1>7. ledAstray \in BOOLEAN
  BY DEF Init
<1>8. QED
  BY <1>1, <1>2, <1>3, <1>4, <1>5, <1>6, <1>7 DEF CodexInv, Types

\* And at every step.
LEMMA CodexInvKept == CodexInv /\ [Next]_vars => CodexInv'
<1> SUFFICES ASSUME CodexInv, [Next]_vars PROVE CodexInv'
  OBVIOUS
<1>1. CASE Next
  <2>1. ThoughtsClosed(section', shown')
    BY <1>1, ThoughtsKept DEF CodexInv
  <2>2. ThoughtsClosed(section, shown)' <=> ThoughtsClosed(section', shown')
    BY DEF ThoughtsClosed
  <2>3. PermissionTypes'
    BY <1>1, PermissionTypesKept DEF CodexInv, Types
  <2>4. ledAstray' \in BOOLEAN
    BY <1>1, AstrayKept DEF CodexInv, Types
  <2>5. QED
    BY <1>1, <2>1, <2>2, <2>3, <2>4, LoopTypesKept, PromptTypesKept, CodexTypesKept, ModeStaysKept DEF CodexInv, Types
<1>2. CASE UNCHANGED vars
  <2> USE <1>2 DEF vars, loopVars, clientVars, exitVars, shownVars, permissionVars, codexVars, historyVars
  <2>1. LoopTypes'
    BY DEF CodexInv, Types, LoopTypes
  <2>2. PermissionTypes' /\ PromptTypes'
    BY DEF CodexInv, Types, PermissionTypes, PromptTypes
  <2>3. CodexTypes'
    BY DEF CodexInv, Types, CodexTypes
  <2>4. ModeKept'
    BY DEF CodexInv, ModeKept, Serves
  <2>5. ThoughtsClosed(section, shown)'
    BY DEF CodexInv, ThoughtsClosed
  <2>6. ledAstray' \in BOOLEAN
    BY DEF CodexInv, Types
  <2>7. QED
    BY <2>1, <2>2, <2>3, <2>4, <2>5, <2>6 DEF CodexInv, Types
<1>3. QED
  BY <1>1, <1>2

\* The types of the session's state.
THEOREM CodexTypeCorrect == Spec => []TypeOK
<1>1. CodexInv => TypeOK
  <2> SUFFICES ASSUME CodexInv PROVE TypeOK
    OBVIOUS
  <2>1. section \in Section /\ shown \in Seq(Nat)
    BY DEF CodexInv, ThoughtsClosed
  <2>2. QED
    BY <2>1 DEF CodexInv, Types, LoopTypes, PermissionTypes, PromptTypes, CodexTypes, TypeOK
<1>2. QED
  BY <1>1, CodexInvInit, CodexInvKept, PTL DEF Spec

\* A prompt that goes on with a session goes on with one that was started in the prompt's
\* own mode, as long as no task that was given up has led the client astray: whatever
\* changes of mode, failures, aborts and transcripts there were.
THEOREM PromptsAreServedInTheirMode == Spec => []ServedInItsMode
<1>1. CodexInv => ServedInItsMode
  <2> SUFFICES ASSUME CodexInv, ~ledAstray, pc = "calling", call.kind = "continue"
               PROVE  call.from # 0 /\ sessions[call.from].mode = call.mode
    BY DEF ServedInItsMode, ModeBoundariesAreRespected
  <2>1. /\ wasCreated /\ sessionId # 0 /\ Serves(call.from) /\ call.mode = currentModeHash
    BY DEF CodexInv, ModeKept
  <2>2. QED
    BY <2>1 DEF Serves
<1>2. QED
  BY <1>1, CodexInvInit, CodexInvKept, PTL DEF Spec

\* Every thought that is shown is closed, once, also those of tasks that were given up.
THEOREM ThoughtsAreClosed == Spec => []EveryThoughtIsClosed
<1>1. CodexInv => EveryThoughtIsClosed
  BY DEF CodexInv, ThoughtsClosed, EveryThoughtIsClosed
<1>2. QED
  BY <1>1, CodexInvInit, CodexInvKept, PTL DEF Spec

====
