# Specifications of happy-cli

happy-cli runs a coding agent (Claude Code, Codex, Gemini) in a terminal and lets
its user follow and steer it from a phone, through the Happy server. The modules
of this directory specify, in TLA+, the parts of the program where something can
go wrong that a unit test would hardly reach: queues with waiting readers, updates
retried over an unreliable connection, files read while they are written,
permissions answered by several devices, loops that hand an agent from one prompt
and one mode to the next while aborts come at any time, and processes that share
files. TLC checks them on small instances; TLAPS proves the theorems named below
for every instance.

Source paths are relative to `src/src/`.

## 1. The system

### Processes and how they talk

A *session process* (`happy`, `happy codex`, `happy gemini`) owns one agent. It
keeps a socket to the server (`api/apiSession.ts`) over which prompts and RPC calls
of the phone arrive and messages, metadata and agent state leave. A *daemon*
(`daemon/run.ts`), one for a machine, starts sessions when the phone asks for them,
and tells the server about the machine (`api/apiMachine.ts`); sessions report to it
over HTTP, and the CLI starts, stops and replaces it. All of them share files in
`~/.happy`. Each is a Node.js process: a handler runs to its next `await` without
interruption, and anything may come between two awaits. That is the grain of every
action below.

Inside a session process, what arrives at the socket becomes items of the prompt
queue, answers to permission requests, or calls (abort, switch, kill). A main loop
takes batches off the queue and gives them to the agent. What the agent says goes
through a handler, for Claude also through the converter and the outgoing queue, to
the socket. Claude in the terminal is followed through its log files (scanner) and
its hooks instead.

### Inventory

| Component | State | Operations | Hard parts | Correct when |
|---|---|---|---|---|
| Prompt queue (`utils/MessageQueue2.ts`) | the prompts, one waiter, closed, a handler | push, pushImmediate, pushIsolateAndClear, unshift, reset, close, waitForMessagesAndGetAsString | a reader woken in a later microtask, with writes, aborts and resets in between | no wake-up and no prompt is lost; a batch is a run of one mode |
| Sync driver (`utils/sync.ts`, `time.ts`) | two marks, pending callers | invalidate, invalidateAndAwait, stop | invalidation while the command runs or is retried | every call is served by a run that began after it |
| Remote output (`claude/utils/OutgoingMessageQueue.ts`) | the queue, delayed messages, a lock, timers | enqueue, releaseToolCall, flush, destroy, process | timers, releases and flushes around a lock, reuse after destroy | sent once, in order, all of them |
| Message conversion (`claude/utils/sdkToLogConverter.ts`) | last entry of the talk and of every sidechain, the calls that go on | convert, sidechains, interrupted results, reset | several sub-agents interleaved, resets and interruptions between | every chain hangs together |
| Session scanner (`claude/utils/sessionScanner.ts`) | current, pending and finished sessions, processed keys, watchers | onNewSession, sync, cleanup | files that grow and are copied while they are read | each line once and in order, nothing after cleanup |
| Claude SDK client (`claude/sdk/`) | process, reader, stream, prompts to stdin | query, next, push, end, control requests | end of output, exit, errors and leaving in any order | what Claude said is heard, to its end |
| Permission handler (`claude/utils/permissionHandler.ts`) | tool calls, pending requests, responses, agent state | handleToolCall, permission response, reset, cancellation | questions that do not name their call, two devices, ends of launches | who waits is shown and answered, once |
| Claude loop (`claude/loop.ts`, launchers) | mode, exitReason, abort signal, batch put aside, mode hash | prompts, abort, switch, keys, launches, plans | calls between any two awaits, in the gaps of two launchers | the terminal yields to prompts, prompts arrive once and in order |
| Claude session process (`claude/runClaude.ts`, `session.ts`, hooks) | session id, flags, settings, callbacks | launches, hooks, clears, cleanup | forks, flags used once or left by a failed launch, launches without a prompt, hooks that come late | a launch resumes the talk the user is in |
| Session on the server (`api/apiSession.ts`) | local copies and versions, lock, requests under way, buffers | updateMetadata, updateAgentState, 'update' events, sends, flush, close, onUserMessage | lost answers, repeated requests, reconnections, several writers | no update overwrites another; what arrives is heard, once and in order |
| RPC table (`api/rpc/`) | the handlers | register, connect, request | registration across connections | while the session is connected, what is registered is reachable |
| Offline start (`utils/serverConnectionErrors.ts`, `setupOfflineReconnection.ts`, `offlineSessionStub.ts`) | connection state, retry, the session and those who hold one: listeners, permission handler, MCP server | start, attempt, swap, cancel | a cancel or the setup in the middle of an attempt; holders that the swap passes by | permissions are asked for where the program sends; one chain of attempts, which ends |
| ACP backend (`agent/acp/`) | process, session, tool calls and their timers, response waited for | startSession, sendPrompt, waitForResponseComplete, cancel, dispose, permission | idle deduced from silence, timers against late updates, a process that dies | a turn ends once |
| Gemini session (`gemini/`) | main loop, abort controller, backend, turn, permissions, history | prompts, mode changes, retries, aborts, kill, exit | all of the backend's events against aborts and restarts | answers are of one try, nothing stays open, prompts are settled |
| Codex session (`codex/`) | main loop, pending prompt, client's session id, transcript, permissions | prompts, restarts, aborts, kill, events | tasks that go on after an abort | prompts go to a session in their mode, and are settled |
| Daemon (`daemon/run.ts`) | sessions by pid, awaiters by pid | spawn, stop, webhook, exit, heartbeat, shutdown | webhook against timeout, exit and stop | what runs is tracked, a spawn is answered truly |
| Daemon control and files (`daemon/controlClient.ts`, `persistence.ts`) | lock file, state file, settings file, credentials | acquire, release, read, write, clear, updateSettings | several processes, crashes, stale locks | one daemon; no update of the settings overwrites another |
| Machine sync (`api/apiMachine.ts`) | metadata and daemon state with versions | two updates, connect, shutdown | several updates at once without a lock | no update undoes another |
| Login, connect (`ui/auth.ts`, `commands/`) | stages of a command, callback server | auth, logout, connect | two commands at once; browser, timeout and exchange | every command ends |
| Agent registry, display, helpers | none that changes, or output only | | | not modelled |

`PROJECT.json` lists every component with its files and status, and every hazard
with its line and the properties that watch it.

## 2. Modules

| Module | Models | Checked in |
|---|---|---|
| `PromptInbox` | what a prompt queue promises (abstract) | refined by `MessageQueue2`, used by `ClaudeLoop` |
| `MessageQueue2` | `utils/MessageQueue2.ts` and one reader | `MCConnections` |
| `InvalidateSync` | `utils/sync.ts`, `backoff` | `MCConnections`; used by `SessionScanner` |
| `OfflineStart` | starting with and without a server, for the three agents | `MCConnections`, `RealReplacesStub.cfg` |
| `SessionWire` | `ApiSessionClient`'s connection, `RpcHandlerManager` | `MCConnections` |
| `SdkStream` | `claude/sdk/query.ts`, `stream.ts`, `utils/PushableAsyncIterable.ts`, the loop of `claudeRemote.ts` | `MCConnections` |
| `MachineSync` | `api/apiMachine.ts` and the daemon's shutdown update | `MCConnections` |
| `PermissionHandler` | handler, reader and consumer of Claude's output | `MCClaudeSession` |
| `ClaudeLoop` | the loop and both launchers, on top of `PromptInbox` | `MCClaudeSession`, `MCClaudeLoop` |
| `SessionScanner` | the scanner, on top of `InvalidateSync` | `MCClaudeSession` |
| `OutgoingMessageQueue` | the queue and its lock | used by `RemoteOutput` |
| `RemoteOutput` | the launcher's use of it, launch after launch | `MCSessionOutput`, `InterruptedResults.cfg` |
| `MessageLog` | `claude/utils/sdkToLogConverter.ts` and the launcher's use of it | `MCSessionOutput` |
| `SessionIdentity` | which conversation a launch resumes: `session.ts`, `claudeLocal.ts`, `claudeRemote.ts`, hooks | `MCSessionOutput`, `FlagsGivenAgain.cfg` |
| `SessionState` | versioned updates over an unreliable socket | `MCSessionOutput` |
| `DaemonFiles` | processes that start, stop and are daemons, with their two files | `MCMachine` |
| `DaemonSessions` | one daemon after the other and the sessions of each | `MCMachine` |
| `Login` | `ui/auth.ts`, `commands/auth.ts`, `updateSettings` | `MCMachine` |
| `VendorConnect` | `commands/connect.ts` and the three vendors' logins | `MCMachine` |
| `AcpBackend` | `agent/acp/AcpBackend.ts`, `sessionUpdateHandlers.ts` | extended by `GeminiSession` |
| `GeminiTurn` | the message handler of `gemini/runGemini.ts`, the beginning and end of a turn | extended by `AcpBackend` |
| `Reasoning` | `utils/BaseReasoningProcessor.ts` | used by `GeminiTurn`, `CodexSession` |
| `GeminiSession` | `gemini/runGemini.ts`, its handlers, over `AcpBackend` | `MCGeminiSession`, `AbortedSession.cfg` |
| `ConversationHistory` | `gemini/utils/conversationHistory.ts` | `MCGeminiSession` |
| `CodexSession` | `codex/runCodex.ts`, `codexMcpClient.ts` and its handlers | `CodexSession.cfg`, `ModeBoundaries.cfg` |
| `QueueAndSyncProofs` | theorems of `MessageQueue2`, `InvalidateSync` | TLAPS |
| `SharedLemmas` | induction over the naturals, and lemmas about `Reasoning` | used by the next three |
| `SessionOutputProofs` | theorems of `SessionState`, `MessageLog`, `RemoteOutput`, `SessionIdentity` | TLAPS |
| `CodexSessionProofs` | theorems of `CodexSession` | TLAPS |
| `GeminiSessionProofs` | theorems of `ConversationHistory`, `GeminiSession` | TLAPS |
| `ConnectionsProofs` | theorems of `OfflineStart`, `SdkStream`, `SessionWire`, `MachineSync` | TLAPS |
| `MachineProofs` | theorems of `DaemonFiles`, `DaemonSessions`, `Login` | TLAPS |
| `ClaudeSessionProofs` | theorems of `ClaudeLoop`, `PermissionHandler`, `SessionScanner` | TLAPS |

**How parts are checked together.** Modules that depend on each other are composed:
`GeminiSession` extends `AcpBackend`, and that `GeminiTurn`, whose `HeardAll` is what a turn makes of
the backend's messages,
both sessions use `Reasoning`, `SessionScanner` runs `InvalidateSync`'s driver,
`ClaudeLoop` its inbox, `RemoteOutput` its queue. Modules that share no state are checked
side by side in one run: the module `MCConnections` and its like have a variable `part`,
chosen at the start and kept; a behaviour runs that part, while the variables of
the others keep one initial value. So a run's states are the sum of its parts' and not
their product, every invariant is checked in its own part with all of that part's
choices, and the fairness of a part is required only of behaviours that run it.

### How state and actions correspond to the code

**MessageQueue2.** `queue`, `waiter`, `closed` are the fields. The reader is a state
(`idle`, `waiting`, `woken`, `refused`): a push resolves the waiter's promise in its own
step, and the reader takes its batch in a later one, because the code after `await`
runs in a later microtask. `PromptInbox` has only the prompts and what has left;
`ImplementsInbox` is the refinement, with the variables mapped by name.

**InvalidateSync.** The two marks, the running flag (where `_doSync` stands: running the
command, or waiting to retry it) and the callers. A caller's promise is an element of
`pendings`. The history variables record for whom an attempt has begun since they
called.

**OfflineStart.** `starting` is what the starting code awaits, `tries` what
`attemptReconnect` awaits, `retryTimer` its timeout. `session` is the reference the program
sends through. The others who hold a session are named one by one: `handlerSession` is the
permission handler's, `hearing` the sessions on which `onUserMessage` and the calls `abort` and
`killSession` were registered, `titleSession` the one the Happy MCP server was started with. `Swap` replaces
the first two, as `onSessionSwap` does, and leaves the last two. Every request succeeds, is
impossible, is refused or is late, and a late one may have been done by the server.

**SessionWire.** socket.io's buffer, the packets under way in both directions, and the
procedures the server knows on this connection. A broken connection loses what is under
way, a prompt that is written while there is none never arrives, and Claude's messages are not
sent at all then (`SendIfConnected`). `flushing` is `flush`: a ping with a timeout. The listeners are
one action for each event.

**SdkStream.** `child`, `lines`, `lineReader` are the process, its pipe and `readMessages`;
`inputQueue`, `readResolve`, `isDone`, `hasError` are `Stream`'s fields; `prompts`,
`promptsDone`, `writer` the iterable behind stdin. `consumer` is where `claudeRemote`'s
`for await` stands.

**MachineSync.** Each update is a record: waiting to ask, asking over a version, answered.
The server's answer is one of three: stored, refused as a mismatch, or an error, which ends the
update without anyone being told (`OnError`).
`broadcasts` are the `update` events under way and `strays` the requests of a broken
connection, which the server may still see. One record (metadata or daemon state) at a
time: they share nothing but the socket.

**OutgoingMessageQueue and RemoteOutput.** Every body that the lock guards is one step,
taken when its job holds the permit; `schedule` timers, the delay of each tool call and
the releases are steps of their own. `RemoteOutput` makes the calls that
`claudeRemoteLauncher` makes, in the order it makes them (messages, releases by results and
by permissions, interrupted results, flush, destroy, next launch).

**MessageLog.** The converter's `lastUuid`, `sidechainLastUUID` and session id, the
launcher's `ongoingToolCalls` and `previousSessionId`. An entry is its parent, its chain and
the session it is labelled with; entries are numbered. One action for each kind of message.

**SessionIdentity.** `claudeArgs` are the flags, `knownId` is `Session.sessionId`,
`metadataId` the one in the server's metadata, `valid` and `latest` what
`claudeCheckSession` and `claudeFindLastSession` see of Claude's files. A remote launch computes `startFrom`
and then waits for its first prompt (`BeginRemote`); it spawns a process when the prompt comes (`SpawnRemote`), or
returns without one, because of an abort, a switch or an isolated batch (`NothingToSay`) or a `/clear`
(`ClearSession`). `told` is what the process is told, the resumed id and the user's flags both: Claude may
go by either (`GoesBy`). Its hook (`OnSessionHook`) comes at any time while it runs. A
launch that throws leaves the flags as they were (`Throws`).

**SessionScanner.** `sync` is cut at its awaits. A session's log is a sequence of keys; a
resumed session's log begins with a copy of another's, which is how the code comes to see
keys twice. Watchers are the set of sessions that have one, each possibly behind.

**SessionState.** One record for each client (a socket) and the server's version history.
A request is under way, stored with its answer lost, or answered; a reconnect makes
socket.io send a request again. Values are the sets of updates they contain.

**PermissionHandler.** Claude's process, the reader, the stream and the consumer are
actors, the handler's maps are variables. The reader blocks on a control request, as
`readMessages` does, and the user's devices answer at any time.

**ClaudeLoop.** `pc` is what the loop awaits: the scanner, Claude in the terminal, the
scanner's cleanup; or, in remote mode, the first message of a launch, a turn, the next
message, the flush. A call that finds no launcher which hears it does nothing, as the no-op
and left-over handlers do. `Kill` stands for the whole of `cleanup` in `runClaude.ts`; what
the loop still does while the cleanup runs is left out.

**AcpBackend.** `starting`/`attempt` are the request `startSession` awaits, `process` and
`alive` the child it knows and those that run, `disposal` the steps of `dispose`. `StartAnew` is a
new backend's start: its own state is fresh, while the process of the old one runs to its end. Timers
(tool calls, idle, response) are flags that may fire while they are set. The
messages emitted are handed to the listener in the step that emits them, since
`emit` calls the listeners at once; `HeardAll` of `GeminiTurn` says what they make of them. The agent is
external: it sends updates for the prompt it has, and answers or fails it.

**GeminiSession.** `pc` is the await at which the main loop stands; `turn` is the state the message
handler writes (thinking, taskStarted, the answer, the section of thoughts and what the
devices have been shown). The answer is represented by the tries its parts come from. `aborted` is the signal of the current controller, `aborting` the
cancellation `handleAbort` awaits. A loop that goes round in microtasks (`Spinning`) keeps everything else in the process
from running, so its actions are guarded by `Runs`. `killing` is where the kill handler stands; if it is
disposing of the backend, the loop's own `dispose` returns at once (`DisposeReturns`), and a
restart's new process may run beside the one that is being killed.

**ConversationHistory.** The messages with role, normalised text and length. The two trims
stop at the longest suffix within their limits: they are written as what the `while` loops end
with, not loop for loop, so the property below checks both limits together, message after message,
and not the loops themselves.

**CodexSession.** `call` is the `startSession` or `continueSession` under way, with the
session or transcript it goes on from; `sessionId` is the client's. An event may name its session or not; one that does
makes it the client's (`NamesSession`, which `updateIdentifiersFromEvent` is), whichever task it is of.
`sessions` and `tasks` are Codex's own: a task whose call was
given up goes on, and its events, `session_configured` included, come in later turns, in any order
with those of later tasks. `ledAstray` is a history variable: an event of such a task has named another
session than the client's since one was configured for the call of the loop itself.

**DaemonFiles.** One record for each process: what it does next and what it remembers of the
files it has read. A step is what happens between two accesses to a file, because other
processes run in between also where the code does not await. The lock file remembers who
made it, which the code cannot read (`by`), beside the pid written in it (`pid`): `robbed`
is a history variable about the first. A process that ends leaves only its files.

**DaemonSessions.** The two maps by pid are the code's; an entry of `pidToTrackedSession` is
reduced to whether it exists, who it is of and whether it has an id. What `spawnSession`
does before it starts a process changes nothing that others see, so its refusals are one
action (`Refuse`); what it does after that, up to its promise, runs without an await and is
one action too (`Spawn`), but for tmux, where the process runs before its pid is known
(`TmuxRuns`, then `TmuxReturns`). `told` remembers a SIGTERM. `Replace` is the end of a daemon
and the start of the next: its maps are empty, sessions live on, and what they have reported
is lost with the daemon they told.

**Login.** `at` is the next access to a file of each process. `updateSettings` is cut at
every one of them: the exclusive creation of the lock, the look at its age, the removal of a
stale one, the read, the temporary file, the rename, the release. What is read (`Readings`) is the
settings, or the defaults, which `readSettings` returns for any error of reading or parsing, or the settings
without a profile that does not validate; what was left out is remembered in `unread`, since the write
that follows loses it. A process may die inside it; a lock that is left may become old at any time.

**VendorConnect.** `stage` is what a command awaits, `promise` what its callback server has
come to. The browser's pages are shared: a redirect reaches whoever serves the port.

## 3. What is checked

Twelve runs. Six pass, five of them with several parts; six end in a counterexample.

| Run | Part | Shows | Bounds | Why they are enough |
|---|---|---|---|---|
| `connections` | queue | no wake-up is lost (`NoLostWakeUp`), batches are the inbox's (`ImplementsInbox`), every prompt leaves (`EveryPromptLeaves`) | 3 prompts, 3 modes of which 2 share a hash | a batch of two beside an isolated one; every write meets every state of the reader |
| | sync | answers are fresh, every call is served | 4 callers | two marks and a running command are told apart by 3 calls |
| | start | reconnecting is one chain of attempts, which ends (`AttemptsEnd`) | 4 requests that do not succeed | machine, creation, a health check and a creation in the background |
| | wire | a connected session can be called, and what is called exists (`ReachableWhenConnected`) | 4 events; one common method, one registered later | a handler registered between two broken connections, a message before anybody listens |
| | sdk | what Claude printed is handled in order, all of it when the end is told | 3 lines, 2 prompts | a result, a line after it and one still in the pipe at the exit |
| | machine | no update of the daemon's state undoes another, errors and repeats included | 3 updates, 1 write of a device, 1 broken connection | an update of each connection and the shutdown's, a rival, and a repeat |
| `claude_session` | permissions | nobody is forgotten, the history shown is true, every question is answered | 2 calls, alike or one a plan, 2 launches, 2 modes | two calls that cannot be told apart, within a launch and across two |
| | loop | the terminal yields, prompts in order and once, all settled | 3 prompts, 2 modes, 2 calls or keys | one prompt put aside, one in the queue and one to come, with a switch and an abort |
| | scanner | each line once and in order, the current session to its end, every line of every session | 3 sessions, 2 lines | a current, a pending and a finished session at once; a line copied and one new |
| `session_output` | output | sent in order, once, and all of them | 2 tools, 3 messages, 2 launches | two held calls and one message behind them; a second launch after destroy |
| | log | sidechains are chains | 2 sub-agents, 2 sessions, 8 entries, 3 launches | both sub-agents interrupted in one launch and the talk going on in the next |
| | identity | once the flags are used up, every process goes by the talk the user is in | 4 ids, 3 processes | a process, a fork and a clear, beside an id that names nothing; launches without a process are not bounded |
| | state | nothing overwritten, successes stored, all settled | 2 clients, 3 updates, 1 lost connection, 1 server error | two updates of one client and a rival's, with a repeat between them |
| `machine` | files | a second daemon needs a stolen lock and does not last; starts and stops end | 3 processes, 2 versions, 1 crash, 2 attempts at the lock | one dead daemon's files and two processes that find them; a daemon of an older version and two starts |
| | sessions | callers are found, reported sessions tracked, dead ones forgotten | 2 processes, 2 requests, 2 daemons | a child and a session in tmux at once, a request that falls back to a second process, and what an earlier daemon leaves |
| | login | while no lock is robbed, no update of the settings is lost but by an updater's own reading | 2 processes, 2 attempts at the lock | one holds the lock, the other finds it young, then old; a third would repeat the second |
| | connect | every command ends | 2 processes, 2 exchanges | a page of one process answered by the other, and a redirect that comes twice |
| `gemini_session` | session | an answer is one try's, a turn leaves nothing open, every prompt is settled | 2 prompts, 2 modes (one approves by itself), 2 tries, 1 abort, 2 processes, 1 tool call, 2 updates, 2 attempts | a turn with a tool call and its answer, a retry, a prompt in another mode with a new backend, and an abort or kill anywhere |
| | history | the history is the latest that fits | 4 messages of 2 lengths, limits of 3 messages and 5 characters | one limit before the other, both at once, several messages shifted at once |
| `codex_session` | | prompts are served in their mode unless a task that was given up led the client astray; thoughts closed once; prompts settled | 3 prompts, 2 modes, 1 abort, 6 inputs (an event is one, a prompt two), 1 call, 1 diff, transcripts found | a task given up, a restart in another mode, and a third prompt for whichever session is known then; or two prompts and two events, or one and four: the chunks that open and title a section and what ends it |
| `interrupted_results` | | a call's interrupted result can overtake the call | as output | |
| `launch_modes` | | a prompt can land in a launch of another mode | as loop | |
| `real_replaces_stub` | | after a reconnection nobody listens to the real session, and titles go to the stub | as start | |
| `flags_given_again` | | a process is told the known id and the user's flags after a launch that failed | as identity | |
| `aborted_session` | | an abort between turns can lose the thread | as the session of `gemini_session` | |
| `mode_boundaries` | | a late event takes the client back to a session of another mode | 2 modes, 1 abort | |

Every property of a passing run has a mutant, a variant of a definition as a plausible slip
would write it, that makes TLC report it violated. Some variants are operators of the
modules, marked as such; the specifications do not use them.

Deadlock is checked in `gemini_session` and `codex_session`, whose only end is the process's
(`Stops`). `CHECK_DEADLOCK FALSE` stands in the others, where the program really ends: the
scanner is cleaned up, the loop is left, processes and commands have ended, the bounds on
prompts, updates or launches are used up.

**Liveness.** Prompts, updates and calls are finitely many in every run, so what must
happen to each of them is stated as `[]<>(all that have come are settled)`: a system that
leaves one behind does so for ever. Where new ones kept coming the form would say too little; where
they stop, as here, it says as much as a `~>` for each, with one temporal formula.

### Where code and docs differ

The runs named in `findings` each check one sentence that a comment of the code states and the
code does not keep; `PROJECT.json` quotes the sentence.

- `interrupted_results`: results of interrupted calls go round the outgoing queue.
- `launch_modes`: a launch that begins with the batch put aside forgets its mode.
- `real_replaces_stub`: Codex and Gemini listen to the stub that was replaced, for prompts and calls, and
  their Happy MCP server sends titles to it and says that the title was changed. (Claude's
  offline start has no session to listen to, but a scanner that sends.)
- `flags_given_again`: a local launch that throws is followed by one with the same one-time flags, beside the
  id Happy knows; Claude may resume another conversation than the user's.
- `mode_boundaries`: an event of a task that was given up makes its session the client's again, and
  the next prompt of the present mode goes on in it.
- `aborted_session`: the loop goes round on the aborted signal while its cancellation is
  awaited, without waiting for an event.

Met while modelling, and in the modules as the code has it, but stated by no run:

- The reader of Claude's output awaits the answer to a question, and cannot hear meanwhile that Claude has
  cancelled it (`claude/sdk/query.ts:102`).
- The launcher compares session ids one launch late, so that the second launch of a session cuts the
  chain of its messages (`claude/claudeRemoteLauncher.ts:333`, against the comment before it).
- A remote launch that returns without a prompt consumes the one-time flags all the same
  (`claude/claudeRemoteLauncher.ts:422`), so the user's `--resume` can be gone before a process has seen it.
- What a user writes while the session's connection is down is not asked for afterwards (`api/apiSession.ts:151`).
- A Gemini backend whose session failed to start is used for the next prompt, in whatever mode
  (`gemini/runGemini.ts:1002`).
- A Codex transcript to resume from is forgotten before the start that needs it has succeeded
  (`codex/runCodex.ts:744`).
- A refused login is retried for ever, because the status of the error is gone when it is looked
  at (`api/api.ts:135`, `utils/serverConnectionErrors.ts:196`).
- Claude's attempts to reconnect each use a tag of their own, so one that was too late for the
  client leaves a session nobody uses (`claude/runClaude.ts:114`).
- The short forms `-r` and `-c` are not among the flags used only once (`claude/session.ts:147`).
- `readSettings` returns the defaults for any error of reading or parsing, and `updateSettings` writes what
  it has made of them: one failed read loses the settings (`persistence.ts:305`).
- A tool call that a failed or timed-out Gemini turn leaves unfinished is shown without a result
  (`gemini/runGemini.ts:1230`); so is whatever Codex's task had under way when its turn was given up
  (`codex/runCodex.ts:473`).
- Two `happy connect gemini` at once can leave the server with the tokens of one and the local
  Gemini CLI with the other's (`commands/connect.ts:111`).

### Fairness

- Handlers that are ready run: the event loop is fair, so `WF` on the reader, the jobs of
  the lock, `DoSync`, the consumer, the loops' own steps.
- Timers fire: `WF` on `DelayTimer`, `ProcessTimer`, `Interval`, `ResolveAgain`, and on the
  timeouts of a response and of a disposal (`Deadlines`). The idle timer and the tool calls' timers
  need not be assumed.
- The server answers a connected client (`WF` on `Serve`); connections are lost a bounded
  number of times. Nothing is assumed of how often it refuses.
- The user answers what he is asked: only for `EveryCallIsAnswered` and the prompts of
  Gemini and Codex (for Codex, he approves what is asked if he does nothing else).
- In `DaemonFiles` processes run, heartbeats come and the forced exit of `requestShutdown`
  comes (`WF`). All heartbeats have the same period (60 s): `Minute` lets a daemon beat again
  when every other has beaten too. Without it two heartbeats could overwrite each other's
  state for ever with neither seeing the other's, which `OneInTheEnd` excludes. Attempts at
  the lock are counted, as in the code.
- In `DaemonSessions` exits of children are noticed and heartbeats come. Nothing is assumed of
  webhooks or timeouts.
- In `ClaudeLoop` a turn ends, which is the user's answer or Claude's result, and Claude in
  the terminal ends when it is aborted (SIGTERM). A Claude that nobody aborts may run for
  ever: there is no fairness on it otherwise. Prompts, calls and keys are never fair.
- In `GeminiSession` an agent that is asked for a prompt, awaits no permission, or was told
  to stop, or is dead, answers the prompt or fails it: the protocol's library fails
  the requests of a closed connection. An agent that awaits a permission need not do anything.
  The starts of a session have a timeout in the code and are steps of the loop.
- In `CodexSession` Codex answers its call or fails it while nothing is asked; the call's own timeout
  (14 days) is no help. An abort and the end of the turn it stops are one step, because
  the aborted call rejects in microtasks. Nothing is assumed of the order in which Codex configures sessions and names them.
- In `VendorConnect` a process goes on with what it awaits (`Proceeds`). That includes the opening of the
  browser, which the command awaits: the program `open` starts returns or fails. Nobody need do anything in
  the browser, and the exchange of a code need not come back, since the callback server has a timeout.
- Nothing is assumed in `OfflineStart`, `SessionWire`, `SdkStream`, `MachineSync`, `MessageLog`,
  `SessionIdentity`, `Login`, `ConversationHistory`: their properties are safety.

## 4. What is proved

Every safety property of the passing runs, and the refinement of `PromptInbox`, is a theorem,
and so are two that no run states (`HandlerFollowsTheSession`, `HeardInOrder`),
for every value of the constants that satisfies the modules' `ASSUME`s; so is every module's
type invariant that a theorem rests on. The assumptions
are that bounds are numbers (and at least 1 where the code does a thing once), that a placeholder such as
`NoSession`, or `"none"` and `"main"`, names nothing else, and that the common methods of the RPC table and
the tools of Gemini are finitely many. No theorem is about a fixed number of callers, processes,
calls, messages, modes or attempts.

Each proof has the same form: an inductive invariant (the `...Inv` named below), whose
parts are named; one lemma that `Init` establishes it; lemmas for the steps, one for an action
or for a family of them; and a theorem that takes the property out of it. What makes each
property hold is in the parts.

**QueueAndSyncProofs.** `NoLostWakeUp` is inductive with the types: a waiting reader is
registered, and then the queue is empty, open and its signal has not fired. The refinement
maps each write to the inbox's write, the reader's batch to its departure (`collectBatch`
takes the longest run of one hash: `BatchLeavesTogether`), and waiting, waking and aborts to
stuttering. For the sync driver, `SyncInv` adds `Covered` to the two marks: every caller
still waiting either has been served by an attempt that began after its call, or the second
mark is set, so that another run is due. Without it the action property (an answer comes only
after a fresh attempt) does not follow, because the answer is given far from the mark.
`MarkedWhileRunning` is stated by no run; it is the part of the invariant that a reader of
the code would ask for first.

**ConnectionsProofs.** *OfflineStart*: at most one of the start, the timer and the
attempt is ever under way (`OneAtATime`, which contains `AttemptsEnd`), so that the server makes one session more than
requests have gone wrong at most (`SessionsMade`). The handler follows the swap because only agents with a stub
have a handler to swap (`FlavorsDiffer`), and because Gemini's, if it is made after the swap, is made on what
`session` is then. *SdkStream*: what Claude printed was handled, is in
the stream, or is still to be read, in this order (`InTransit`), and who is told the end finds the
last two empty (`StreamEnds`). `InTransit` speaks of lines that are skipped as the stream goes, through a
witness (`Hold`) instead of a filter. *SessionWire*: a name is registered at the server only if it
has a handler (`NamesAreHandled`), and while the socket is up every handler's name is there or on its way
(`HandlersAreKnown`), and since handlers are never removed, a call finds the one it was registered
with; prompts wait in their order (`HeardInOrder`). *MachineSync*: the
daemon's copy and every answer under way is a version the server has, and a request contains
the version it names (`Versioned`, with `MadeFrom`); then one that is accepted extends
the last, though requests overtake each other.

**ClaudeSessionProofs.** *ClaudeLoop*: what was given, what is put aside and what is queued come in
this order, up to restarts (`ComeInOrder`), and a batch is put aside only where the next
launch is due (`PutAside`). *PermissionHandler*: the handler hears of a call once
(`NamedOnce`); an id, once a question was asked under it, is spent, so that no
other question is (`AskedOnce`, although calls that look alike are told apart only by which
was used); and what the devices are shown is what is pending (`ShownArePending`). `NobodyIsForgotten` and
`HistoryIsTrue` need all three. *SessionScanner*: logs that share a line share what comes
before it, and what was processed is closed under "before" (`LinesShared`), which keeps the lines
in order although they are copied between files while they are read; with `SyncServes` and `RunReads`,
the run that the end of a session awaits began after its last line (`ReadAtLast`).

**SessionOutputProofs.** *SessionState*: the history grows (`Growing`), a client's copy is a
version of it (`Copies`), a request contains the version it expects to follow (`Built`), and
what is stored out of a repeated request is in front of the version it is compared with
(`InFront`). From these, a version stored over the expected one contains the one before it.
*MessageLog*: the converter's last entries are the ends of their chains (`Chained`), also
while the ends of interrupted calls are appended. *RemoteOutput*: the lock has one holder (`Locked`);
who waits for it to enqueue, waits in the order of the messages (`LineAscends`), behind everything queued and
sent (`LineIsBehind`); and the queue is in the order of its ids and of the messages, so
that sorting it leaves it as it is (`QueueAscends`). *SessionIdentity*: Happy knows the id Claude
goes by from its report on (`ReportedIsKnown`); what Claude goes by can be resumed once there is a
conversation (`KnowsTheConversation`); after a clear the flags are used up and what Happy knows has
nothing to resume (`KnowsOfNone`). What a remote launch settled before its prompt is still what it would settle
on when the prompt comes (`StartIsSettled`), because nothing reports or talks while it waits. `KnowsTheConversation`
and `KnowsOfNone` need that the user's flags, if there were any, are ones that `consumeOneTimeFlags` knows
(`UsedOnce`). The property is about processes that are spawned when the flags are gone; that they need not
be gone when they should is what `flags_given_again` shows.

**MachineProofs.** *DaemonFiles*: two daemons are excluded because the creation of the lock is
exclusive, and that is an argument about who made the file that is there. The invariant says
just that (`OwnersHoldTheLock`): until a lock is robbed, every process with a daemon's rights
made the present lock file. Without that condition the property is false: two starts that find one
stale lock can both remove it, the second time when the first has already made its own.
*DaemonSessions*: a caller that waits is found by its webhook because the entry for its process
is the daemon's own and has no id yet (`WaitersAreFound`); that a new child has not reported
(`NotYet`), and that what tmux runs is nobody else's child (`TmuxChildren`), keep other
requests from touching that entry. *Login*: who is inside `updateSettings` made the lock (`HoldsLock`),
hence what it has read is still the settings, and what it is to rename contains them and its
own update (`NothingStale`), each but for what some reading left out (`unread`); again until a lock is
robbed. So the two ways to lose an update are a stolen lock and a read that fails or drops a profile, and
the theorem says that there is no third.

**CodexSessionProofs.** A prompt is served in its mode because the session that was created is
the client's and was configured in the loop's mode, and so is the one that the call under way goes on with
or was configured with (`ModeKept`). Each part holds unless the client was led astray (`Serves`), and only an event of a
task that was given up can lead it there: the loop's own task, the last one, names the session that it has
(`TaskFits`), so naming it changes nothing. The configuration of the loop's own call puts the client
right again. Every thought shown as a tool call has had one result because each of the
processor's operations keeps `ThoughtsClosed` (`SharedLemmas`).

**GeminiSessionProofs.** *ConversationHistory*: `trimHistory` drops from the front until
both bounds hold; what remains is the longest row of the latest that fits (`LongestLatest`),
also when the next message is added to a history that was trimmed before. *GeminiSession*: a turn's answer is of the
try it is at, and its thoughts are closed but for the section under way (`TurnKept`). The
agent has a prompt only while the loop awaits the answer, between turns nothing is open, and before
another try the answer is empty unless the backend is being disposed of, in which case there
will not be another (`TurnFits`). The proof takes every action of the backend in turn, and says what the
messages it emits do to the turn (`Keeps`) and that a failure is heard before the loop goes on (`Calms`).

**SharedLemmas.** Sums and scans over sequences are recursive functions in the modules. What they compute
is proved by induction over the naturals (`SetInduction`, from the library's well-founded
induction applied to a set, not to a predicate), or, for the two messages at most that one step emits, by unfolding
them (`HeardTwo`, `SeenTwo`).

The theorems are about the specifications of the single modules (`QueueSpec`, `SyncSpec`,
`StateSpec`, and so on). The runs check the same next-state relations, as parts.

## 5. What is only model-checked

- *Liveness*: `EveryPromptLeaves`, `EveryCallIsServed`, `EveryCallIsAnswered`, `EveryPromptIsSettled`,
  `EveryLineIsDelivered`, `EveryMessageIsSent`, `EveryUpdateIsSettled`, `OneInTheEnd`, `EveryStartEnds`,
  `DeadAreForgotten`, `EveryConnectEnds`. They rest on fairness, hence on `ENABLED`, which is beyond the prover.
- The properties of the violation runs, which are false.
- The type of `VendorConnect`, whose only property is a liveness property.
- That a helper defined over all inputs does what a library function of JavaScript does: the modules
  define the helpers, and the runs evaluate them.


## 6. What is not modelled, and why

- Encryption, schemas, single HTTP requests and the conversion of fields have no state that
  other steps can disturb. RPC handlers that run commands or read files, ripgrep, the
  service's installation and the doctor are pure I/O.
- Display and logging are output only.
- The registry of agents is a table of factories.
- The sticky settings of a session (which model and prompt a message without its own is given,
  `claude/runClaude.ts:241`), and the single steps of the cleanup of a killed session
  (`claude/runClaude.ts:431`).
- The filters on an agent's output (`agent/transport/`), the longer timeouts of investigation
  tools, the diffs of Gemini, the choice of a model, and Codex's bridge.
- What the daemon's shutdown does to requests that are on their way; they are cut off.
- The queue that came before `MessageQueue2` (`utils/MessageQueue.ts`), which nothing uses.
- `sendClaudeSessionMessage` drops a message when the socket is down and does not retry; the
  modules that send end where it is called, and `SessionWire` has it so (`SendIfConnected`).
- Delays are "later": nothing is said about how long anything takes.

## 7. Plan

1. *Proofs.* The type of `VendorConnect`; that `ClaudeLoop`'s queue is the `PromptInbox` it is
   written over, as a refinement; the part of each liveness property that is safety (that an answer
   is never given twice, that what is settled stays so).
2. *Session process*: sticky settings and the steps of cleanup.
3. *Compositions*: `GeminiSession` and `CodexSession` over `OfflineStart`'s swap; `ClaudeLoop` over
   `SdkStream`.
