---- MODULE ConversationHistory ----
(***************************************************************************)
(* What a Gemini session remembers for the model that takes over           *)
(* (src/gemini/utils/conversationHistory.ts, used by runGemini.ts): the    *)
(* prompts as they come, the answers as turns end, within a number of      *)
(* messages and a number of characters; at a change of model or mode they  *)
(* are put before the next prompt.                                         *)
(*                                                                         *)
(* A content is what is left of it once white space is normalised, and its *)
(* length: "blank" trims to nothing, and two contents with one text may    *)
(* differ in length.                                                       *)
(***************************************************************************)
EXTENDS Integers, Sequences

CONSTANTS
    Said,             \* texts, normalised
    Length,           \* lengths a content has
    MaxMessages,      \* maxMessages
    MaxCharacters,    \* maxCharacters
    MaxQuoted,        \* characters of a message that the context quotes
    MaxRemembered     \* bound: messages remembered, those trimmed since included

ASSUME HistoryAssumption ==
    /\ Length \subseteq Nat \ {0}
    /\ {MaxMessages, MaxCharacters, MaxQuoted, MaxRemembered} \subseteq Nat \ {0}

VARIABLES
    messages,              \* the history
    currentModel,          \* the model answers are noted for
    injectHistoryContext,  \* the next prompt is to carry the history
    context,               \* what the last prompt carried before its own text
    remembered             \* history: every message pushed

conversationVars == <<messages, currentModel, injectHistoryContext, context, remembered>>

Roles == {"user", "assistant"}
Model == {"pro", "flash"}
Remembered == [role : Roles, text : Said, length : Length, model : Model \union {"none"}]

ConversationTypeOK ==
    /\ messages \in Seq(Remembered)
    /\ currentModel \in Model
    /\ injectHistoryContext \in BOOLEAN
    /\ \A i \in DOMAIN context : context[i].length <= MaxQuoted
    /\ remembered \in Seq(Remembered) /\ Len(remembered) <= MaxRemembered

ConversationInit ==
    /\ messages = <<>>
    /\ currentModel \in Model
    /\ injectHistoryContext = FALSE
    /\ context = <<>>
    /\ remembered = <<>>

Characters(ms) ==
    LET sum[i \in 0..Len(ms)] == IF i = 0 THEN 0 ELSE sum[i - 1] + ms[i].length
    IN  sum[Len(ms)]

\* The last message of the role says the same.
IsDuplicate(role, text) ==
    \E i \in DOMAIN messages :
        /\ messages[i].role = role
        /\ messages[i].text = text
        /\ \A k \in (i + 1)..Len(messages) : messages[k].role # role

InNumber(ms) == Len(ms) <= MaxMessages
InLength(ms) == Characters(ms) <= MaxCharacters \/ Len(ms) <= 1

\* Variant: one message goes, however many should.
TrimOnce(ms) == IF InNumber(ms) /\ InLength(ms) THEN ms ELSE Tail(ms)

\* By number, then by length; the last message always stays. Each loop shifts until its
\* condition fails, so it stops at the longest suffix that meets it.
TrimHistory(ms) ==
    LET LongestSuffix(s, Fits(_)) ==
            SubSeq(s, CHOOSE i \in 1..(Len(s) + 1) :
                          /\ Fits(SubSeq(s, i, Len(s)))
                          /\ \A k \in 1..(i - 1) : ~Fits(SubSeq(s, k, Len(s))),
                   Len(s))
    IN  LongestSuffix(LongestSuffix(ms, InNumber), InLength)

Add(role, text, length, model) ==
    IF text = "blank" \/ IsDuplicate(role, text)
    THEN UNCHANGED <<messages, remembered>>
    ELSE LET m == [role |-> role, text |-> text, length |-> length, model |-> model]
         IN  /\ messages' = TrimHistory(Append(messages, m))
             /\ remembered' = Append(remembered, m)

\* A prompt arrives from the app.
AddUserMessage(text, length) ==
    /\ Len(remembered) < MaxRemembered
    /\ Add("user", text, length, "none")
    /\ UNCHANGED <<currentModel, injectHistoryContext, context>>

\* A turn ends with an answer.
AddAssistantMessage(text, length) ==
    /\ Len(remembered) < MaxRemembered
    /\ Add("assistant", text, length, currentModel)
    /\ UNCHANGED <<currentModel, injectHistoryContext, context>>

\* The loop takes a prompt of another mode: a new backend, for the model it asks for,
\* whose session is awaited before the prompt is sent.
SwitchModel(model) ==
    /\ ~injectHistoryContext
    /\ currentModel' = model
    /\ injectHistoryContext' = (messages # <<>>)
    /\ UNCHANGED <<messages, context, remembered>>

Quoted(m) == [role |-> m.role, text |-> m.text,
              length |-> IF m.length > MaxQuoted THEN MaxQuoted ELSE m.length]

GetContextForNewSession == [i \in DOMAIN messages |-> Quoted(messages[i])]

\* The prompt is sent, with the history before it after a switch.
SendsPrompt ==
    /\ context' = IF injectHistoryContext /\ messages # <<>>
                  THEN GetContextForNewSession ELSE <<>>
    /\ injectHistoryContext' = FALSE
    /\ UNCHANGED <<messages, currentModel, remembered>>

ConversationNext ==
    \/ \E text \in Said \union {"blank"}, length \in Length :
           AddUserMessage(text, length) \/ AddAssistantMessage(text, length)
    \/ \E model \in Model : SwitchModel(model)
    \/ SendsPrompt

ConversationSpec == ConversationInit /\ [][ConversationNext]_conversationVars

---------------------------------------------------------------------------
(* Trimming at every message comes to the same as trimming once: the       *)
(* history is the longest run of the latest messages that is within both   *)
(* limits (or the latest alone), for limits that shift out several         *)
(* messages at once and messages that fit again later.                     *)

HistoryIsRecent ==
    \E n \in 0..Len(remembered) :
        LET Latest(k) == SubSeq(remembered, Len(remembered) - k + 1, Len(remembered))
            Within(k) == InNumber(Latest(k)) /\ InLength(Latest(k))
        IN  /\ messages = Latest(n)
            /\ Within(n)
            /\ \A k \in (n + 1)..Len(remembered) : ~Within(k)

====
