---- MODULE Reasoning ----
(***************************************************************************)
(* How the thoughts of an agent become messages                            *)
(* (src/utils/BaseReasoningProcessor.ts): they come in chunks; a section   *)
(* of them that begins with a **title** is shown as a tool call, opened    *)
(* when the title is complete and closed with the section; one without a   *)
(* title is a plain message. Gemini's and Codex's sessions each feed one   *)
(* processor.                                                              *)
(***************************************************************************)
EXTENDS Naturals, Sequences

\* A section: what is known of its text, how far its title is, and the tool call that
\* shows it, 0 when there is none.
Text == {"empty", "plain", "open", "titled"}
Phase == {"new", "capture", "titled", "plain"}
Section == [text : Text, phase : Phase, call : Nat]

NoSection == [text |-> "empty", phase |-> "new", call |-> 0]

\* A chunk: without the title's marks, with the mark that opens a title, with a whole
\* title, or with a mark that is not its beginning.
Chunk == {"plain", "open", "whole", "close"}

Grown(text, chunk) ==
    CASE text = "empty" -> [plain |-> "plain", open |-> "open", whole |-> "titled", close |-> "plain"][chunk]
      [] text = "open" /\ chunk # "plain" -> "titled"
      [] OTHER -> text

\* The messages of a processor, numbered by the call they are about.
ToolCall(call) == [type |-> "tool-call", call |-> call]
ToolResult(call) == [type |-> "tool-call-result", call |-> call]
Plain == [type |-> "reasoning", call |-> 0]

\* A title is looked for only from the second chunk on: the first one only tells whether
\* there is one.
Processed(s, chunk, fresh) ==
    LET text == Grown(s.text, chunk)
    IN  CASE s.phase = "new" ->
               [s EXCEPT !.text = text, !.phase = IF text = "plain" THEN "plain" ELSE "capture"]
          [] s.phase = "capture" /\ text = "titled" ->
               [text |-> text, phase |-> "titled", call |-> fresh]
          [] OTHER -> [s EXCEPT !.text = text]

SentByProcessing(s, chunk, fresh) ==
    IF Processed(s, chunk, fresh).call = s.call THEN << >> ELSE <<ToolCall(fresh)>>

\* The end of a section, with the text the agent gives for it or the one accumulated.
Completed(s, text) == IF text = "empty" /\ s.call = 0 THEN s ELSE NoSection

SentByCompleting(s, text, fresh) ==
    CASE s.call # 0 -> <<ToolResult(s.call)>>
      [] s.call = 0 /\ text = "titled" -> <<ToolCall(fresh), ToolResult(fresh)>>
      [] s.call = 0 /\ text \in {"plain", "open"} -> <<Plain>>
      [] OTHER -> << >>

\* A section that is broken off: finishCurrentToolCall('canceled'), then resetState.
SentByBreakingOff(s) == IF s.call # 0 THEN <<ToolResult(s.call)>> ELSE << >>

---------------------------------------------------------------------------
(* What a reader of the messages has seen: each call opened, in order, and *)
(* how many results it got.                                                *)

Seen(shown, m) ==
    CASE m.type = "tool-call" -> Append(shown, 0)
      [] m.type = "tool-call-result" -> [shown EXCEPT ![m.call] = @ + 1]
      [] OTHER -> shown

SeenAll(shown, messages) ==
    LET seen[n \in 0..Len(messages)] == IF n = 0 THEN shown ELSE Seen(seen[n - 1], messages[n])
    IN  seen[Len(messages)]

Fresh(shown) == Len(shown) + 1
====
