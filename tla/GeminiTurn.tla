---- MODULE GeminiTurn ----
(***************************************************************************)
(* A turn of a Gemini session as the user's devices are shown it           *)
(* (src/gemini/runGemini.ts): what the session makes of the messages of    *)
(* its backend, setupGeminiMessageHandler, and how a turn begins and ends. *)
(***************************************************************************)
EXTENDS Reasoning

CONSTANT MaxTries       \* tries at one prompt

ASSUME GeminiTurnAssumption == MaxTries \in Nat \ {0}

\* Which try at the prompt it is, whether the agent is shown as thinking, whether the start
\* was announced, the tries whose text is in the answer, the section of thoughts, and the
\* calls shown for such sections.
Turn == [tries : 1..MaxTries, thinking : BOOLEAN, taskStarted : BOOLEAN,
         output : SUBSET (1..MaxTries), section : Section, shown : Seq(Nat)]

NoTurn == [tries |-> 1, thinking |-> FALSE, taskStarted |-> FALSE, output |-> {},
           section |-> NoSection, shown |-> << >>]

---------------------------------------------------------------------------
(* The messages of the backend.                                            *)

\* The processor sends messages; the section is what it leaves.
Reasoned(u, section, messages) ==
    [u EXCEPT !.section = section, !.shown = SeenAll(@, messages)]

\* Variant: the answer stays.
ErrorShown(u) == [u EXCEPT !.thinking = FALSE]

\* status 'error': the answer so far is thrown away.
ErrorHeard(u) == [u EXCEPT !.thinking = FALSE, !.output = {}]

\* The end of a pause ends a section of thoughts, not the agent's being at work.
IdleHeard(u) ==
    Reasoned(u, Completed(u.section, u.section.text),
             SentByCompleting(u.section, u.section.text, Fresh(u.shown)))

ThoughtHeard(u, chunk) ==
    Reasoned(u, Processed(u.section, chunk, Fresh(u.shown)),
             SentByProcessing(u.section, chunk, Fresh(u.shown)))

\* Tool calls, their results, edits, patches, terminal output, plans and requests are
\* passed on to the devices and leave the turn as it is.
PassedOn(u) == u

\* The handler of setupGeminiMessageHandler.
HearOne(u, m) ==
    CASE m.type = "output" -> [u EXCEPT !.output = @ \union {u.tries}]
      [] m.type = "running" -> [u EXCEPT !.thinking = TRUE, !.taskStarted = TRUE]
      [] m.type \in {"idle", "stopped"} -> IdleHeard(u)
      [] m.type = "error" -> ErrorHeard(u)
      [] m.type = "thought" -> ThoughtHeard(u, m.chunk)
      [] OTHER -> PassedOn(u)

HeardAll(u, messages) ==
    LET heard[n \in 0..Len(messages)] == IF n = 0 THEN u ELSE HearOne(heard[n - 1], messages[n])
    IN  heard[Len(messages)]

---------------------------------------------------------------------------
(* Its beginning and its end.                                              *)

\* reasoningProcessor.abort
BrokenOff(u) == Reasoned(u, NoSection, SentByBreakingOff(u.section))

\* A new turn: the answer is empty, and its start not announced yet.
Begun(u) == [u EXCEPT !.tries = 1, !.output = {}, !.taskStarted = FALSE]

\* Variant: thoughts go on over the end of the turn.
EndedThinking(u) == [u EXCEPT !.tries = 1, !.output = {}, !.taskStarted = FALSE, !.thinking = FALSE]

\* Its end: the answer is sent whole.
Ended(u) == [BrokenOff(u) EXCEPT !.tries = 1, !.output = {}, !.taskStarted = FALSE, !.thinking = FALSE]
====
