---- MODULE SdkStream ----
(***************************************************************************)
(* A Claude process as claudeRemote (src/claude/claudeRemote.ts) sees it:  *)
(* the prompts it pushes reach the process's stdin through                 *)
(* PushableAsyncIterable and streamToStdin; the lines of its stdout come   *)
(* back through query (src/claude/sdk/query.ts) and Stream                 *)
(* (src/claude/sdk/stream.ts), and with them how it ended. The answering   *)
(* of permission requests is PermissionHandler's subject.                  *)
(*                                                                         *)
(* A line is "text", "result" (the end of a turn), "refused" (the result   *)
(* of a tool call that the handler has marked as aborted) or "request".    *)
(***************************************************************************)
EXTENDS Integers, Sequences, SequencesExt

CONSTANTS
    MaxLines,     \* bound: lines the process prints
    MaxPrompts    \* bound: prompts a launch is given

\* A launch has a first prompt.
ASSUME SdkStreamAssumption == MaxLines \in Nat /\ MaxPrompts \in Nat \ {0}

VARIABLES
    child,        \* the process: "runs", "failed" (its spawn did), "closed"
    signalAborted, \* the launch's signal
    lines,        \* printed and not yet read
    lineReader,   \* readMessages: "reads", "asks" (a permission), "ended"
    exited,       \* processExitPromise is resolved
    inputQueue, readResolve, isDone, hasError,   \* Stream
    consumer,     \* claudeRemote's loop over the messages
    prompts,      \* PushableAsyncIterable: its queue
    promptsDone,  \* its isDone
    writer,       \* streamToStdin: it waits in next, or has ended stdin
    printed,      \* history: the messages printed
    got,          \* history: those claudeRemote has handled
    promptsPushed,       \* history: the number of prompts pushed
    stdin         \* history: the prompts written to the process

streamVars == <<inputQueue, readResolve, isDone, hasError>>
promptQueueVars == <<prompts, promptsDone, writer, promptsPushed, stdin>>
outVars == <<child, signalAborted, lines, lineReader, exited, printed>>
sdkVars == <<child, signalAborted, lines, lineReader, exited, printed, inputQueue, readResolve,
             isDone, hasError, consumer, got, prompts, promptsDone, writer, promptsPushed, stdin>>

Message == {"text", "result", "refused"}
Error == {"abort", "exit", "spawn"}

SdkTypeOK ==
    /\ child \in {"runs", "failed", "closed"}
    /\ {signalAborted, exited, readResolve, isDone, promptsDone} \subseteq BOOLEAN
    /\ lines \in Seq(Message \union {"request"})
    /\ lineReader \in {"reads", "asks", "ended"}
    /\ inputQueue \in Seq(Message)
    /\ hasError \in Error \union {"none"}
    /\ consumer \in {"between", "waits", "handles", "told end", "returned"} \union Error
    /\ prompts \in Seq(1..MaxPrompts)
    /\ writer \in {"waits", "ended"}
    /\ promptsPushed \in 0..MaxPrompts
    /\ printed \in Seq(Message) /\ got \in Seq(Message)
    /\ stdin \in Seq(1..MaxPrompts)

\* The first prompt is pushed before the process is started.
SdkInit ==
    /\ child = "runs" /\ signalAborted = FALSE /\ lines = <<>> /\ lineReader = "reads" /\ exited = FALSE
    /\ inputQueue = <<>> /\ readResolve = FALSE /\ isDone = FALSE /\ hasError = "none"
    /\ consumer = "between"
    /\ prompts = <<1>> /\ promptsDone = FALSE /\ writer = "waits"
    /\ printed = <<>> /\ got = <<>> /\ promptsPushed = 1 /\ stdin = <<>>

---------------------------------------------------------------------------
(* The process, and the events it raises.                                  *)

Prints(line) ==
    /\ child = "runs"
    /\ Len(printed) < MaxLines /\ Len(lines) < MaxLines
    /\ lines' = Append(lines, line)
    /\ printed' = IF line = "request" THEN printed ELSE Append(printed, line)
    /\ UNCHANGED <<child, signalAborted, lineReader, exited, streamVars, consumer, got, promptQueueVars>>

\* Stream.error: a reader that waits is rejected, and the error is kept.
Fails(err) ==
    /\ hasError' = err
    /\ readResolve' = FALSE
    /\ consumer' = IF readResolve THEN err ELSE consumer

\* The user aborts: spawn has been given the signal, kills the process and raises "error".
AbortSignal ==
    /\ ~signalAborted /\ consumer \in {"between", "waits", "handles"}
    /\ signalAborted' = TRUE
    /\ IF child = "runs"
       THEN /\ child' = "failed"
            /\ Fails("abort")
       ELSE UNCHANGED <<child, hasError, readResolve, consumer>>
    /\ UNCHANGED <<lines, lineReader, exited, inputQueue, isDone, got, printed, promptQueueVars>>

SpawnFails ==
    /\ child = "runs" /\ ~signalAborted /\ printed = <<>> /\ lines = <<>> /\ stdin = <<>>
    /\ child' = "failed"
    /\ Fails("spawn")
    /\ UNCHANGED <<signalAborted, lines, lineReader, exited, inputQueue, isDone, got, printed, promptQueueVars>>

\* "close", with code 0 or another; after an abort two errors may be raised in a row, of
\* which a reader that waits is given the first and one that comes later the second.
Closes(code) ==
    /\ child # "closed"
    /\ child = "failed" => code # 0
    /\ child' = "closed"
    /\ exited' = (code = 0)
    /\ LET errors == (IF signalAborted THEN <<"abort">> ELSE <<>>)
                     \o (IF code # 0 THEN <<"exit">> ELSE <<>>)
       IN  IF errors = <<>> THEN UNCHANGED <<hasError, readResolve, consumer>>
           ELSE /\ hasError' = Last(errors)
                /\ readResolve' = FALSE
                /\ consumer' = IF readResolve THEN Head(errors) ELSE consumer
    /\ UNCHANGED <<signalAborted, lines, lineReader, inputQueue, isDone, got, printed, promptQueueVars>>

---------------------------------------------------------------------------
(* readMessages.                                                           *)

\* Stream.enqueue: to the reader that waits, or into the queue.
Enqueued(m) ==
    IF readResolve
    THEN /\ readResolve' = FALSE
         /\ consumer' = "handles"
         /\ got' = Append(got, m)
         /\ UNCHANGED inputQueue
    ELSE /\ inputQueue' = Append(inputQueue, m)
         /\ UNCHANGED <<readResolve, consumer, got>>

ReadLine ==
    /\ lineReader = "reads" /\ lines # <<>>
    /\ lines' = Tail(lines)
    /\ IF Head(lines) = "request"
       THEN lineReader' = "asks" /\ UNCHANGED <<inputQueue, readResolve, consumer, got>>
       ELSE Enqueued(Head(lines)) /\ UNCHANGED lineReader
    /\ UNCHANGED <<child, signalAborted, exited, isDone, hasError, printed, promptQueueVars>>

\* The request is answered, or what waits is rejected at the end of the launch.
Answered ==
    /\ lineReader = "asks"
    /\ lineReader' = "reads"
    /\ UNCHANGED <<child, signalAborted, lines, exited, streamVars, consumer, got, printed, promptQueueVars>>

\* Stream.done: to the reader that waits, or for the one that comes.
Done ==
    /\ isDone' = TRUE
    /\ readResolve' = FALSE
    /\ consumer' = IF readResolve THEN "told end" ELSE consumer

\* Variant: the exit ends the stream, whatever is left to read.
ReaderEndsAtExit ==
    /\ lineReader = "reads" /\ exited
    /\ lineReader' = "ended"
    /\ Done
    /\ UNCHANGED <<child, signalAborted, lines, exited, inputQueue, hasError, got, printed, promptQueueVars>>

\* The lines are over and the process has exited with code 0: Stream.done. After another
\* code processExitPromise stays pending, and so does the reader.
ReaderEnds ==
    /\ lineReader = "reads" /\ lines = <<>> /\ child = "closed" /\ exited
    /\ lineReader' = "ended"
    /\ Done
    /\ UNCHANGED <<child, signalAborted, lines, exited, inputQueue, hasError, got, printed, promptQueueVars>>

---------------------------------------------------------------------------
(* PushableAsyncIterable, between claudeRemote and streamToStdin.          *)

PushPrompt(prompt) == prompts' = Append(prompts, prompt)

EndPrompts == promptsDone' = TRUE

HasNext == prompts # <<>>

IsOver == prompts = <<>> /\ promptsDone

---------------------------------------------------------------------------
(* claudeRemote.                                                           *)

\* Stream.next, through the generator readSdkMessages.
NextMessage ==
    /\ consumer = "between"
    /\ IF inputQueue # <<>>
       THEN /\ got' = Append(got, Head(inputQueue))
            /\ inputQueue' = Tail(inputQueue)
            /\ consumer' = "handles"
            /\ UNCHANGED readResolve
       ELSE /\ consumer' = IF isDone THEN "told end"
                           ELSE IF hasError # "none" THEN hasError ELSE "waits"
            /\ readResolve' = (~isDone /\ hasError = "none")
            /\ UNCHANGED <<got, inputQueue>>
    /\ UNCHANGED <<outVars, isDone, hasError, promptQueueVars>>

Handled(m) == consumer = "handles" /\ Last(got) = m

OnText ==
    /\ Handled("text")
    /\ consumer' = "between"
    /\ UNCHANGED <<outVars, streamVars, got, promptQueueVars>>

\* The end of a turn, and the next prompt of the same mode.
OnResult ==
    /\ Handled("result")
    /\ ~signalAborted
    /\ promptsPushed < MaxPrompts
    /\ consumer' = "between"
    /\ promptsPushed' = promptsPushed + 1
    /\ PushPrompt(promptsPushed + 1)
    /\ UNCHANGED <<outVars, streamVars, got, promptsDone, writer, stdin>>

\* Leaving the loop ends the generator, and Stream.return the stream.
Leaves ==
    /\ consumer' = "returned"
    /\ isDone' = TRUE
    /\ UNCHANGED <<outVars, inputQueue, readResolve, hasError, got, prompts, writer, promptsPushed, stdin>>

\* No more prompts for this launch: another mode, a switch, or an abort.
NoNextPrompt ==
    /\ Handled("result")
    /\ EndPrompts
    /\ Leaves

\* A refused tool call: the launch is over, but the prompts are not ended.
OnRefusedResult ==
    /\ Handled("refused")
    /\ UNCHANGED promptsDone
    /\ Leaves

---------------------------------------------------------------------------
(* streamToStdin.                                                          *)

\* A prompt comes; after an abort the loop is left, which ends the prompts too.
WritePrompt ==
    /\ writer = "waits" /\ HasNext
    /\ prompts' = Tail(prompts)
    /\ IF signalAborted
       THEN writer' = "ended" /\ EndPrompts /\ UNCHANGED stdin
       ELSE stdin' = Append(stdin, Head(prompts)) /\ UNCHANGED <<writer, promptsDone>>
    /\ UNCHANGED <<outVars, streamVars, consumer, got, promptsPushed>>

EndStdin ==
    /\ writer = "waits" /\ IsOver
    /\ writer' = "ended"
    /\ UNCHANGED <<outVars, streamVars, consumer, got, prompts, promptsDone, promptsPushed, stdin>>

Handles == OnText \/ OnResult \/ NoNextPrompt \/ OnRefusedResult

SdkNext ==
    \/ \E line \in Message \union {"request"} : Prints(line)
    \/ AbortSignal \/ SpawnFails \/ \E code \in {0, 1} : Closes(code)
    \/ ReadLine \/ Answered \/ ReaderEnds
    \/ NextMessage \/ Handles
    \/ WritePrompt \/ EndStdin

SdkSpec == SdkInit /\ [][SdkNext]_sdkVars

---------------------------------------------------------------------------
(* What claudeRemote handles is what Claude said, in its order; told that  *)
(* the process has ended well, it has handled all of it, although the exit *)
(* can be known long before the last lines are read.                       *)

NothingIsCutShort ==
    /\ IsPrefix(got, printed)
    /\ consumer = "told end" => got = printed

====
