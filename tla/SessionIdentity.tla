---- MODULE SessionIdentity ----
(***************************************************************************)
(* Which conversation Claude is launched with. A Happy session knows one   *)
(* id (src/claude/session.ts); Claude reports its own by a hook            *)
(* (startHookServer.ts, runClaude.ts) and, in remote mode, by its first    *)
(* message; each launch (claudeLocal.ts, claudeRemote.ts) makes of the id  *)
(* and of the flags the user gave what Claude is told to resume.           *)
(*                                                                         *)
(* A remote launch settles what to resume before it waits for its first    *)
(* prompt, and may return without having spawned anything.                 *)
(*                                                                         *)
(* An id is valid once its file has a message to resume. The user's flags  *)
(* are one of Flags; "id" in a flag stands for the id Named. A hook is     *)
(* delivered while its Claude runs, or not at all.                         *)
(***************************************************************************)
EXTENDS Naturals, FiniteSets

CONSTANTS
    Id,          \* ids of Claude's sessions
    Named,       \* the one that the user names
    NoId,
    MaxSpawns    \* bound: processes spawned

ASSUME IdentityAssumption == Named \in Id /\ NoId \notin Id /\ MaxSpawns \in Nat \ {0}

VARIABLES
    claudeArgs,     \* the session's claudeArgs
    givenArgs,      \* history: what the user gave
    knownId,        \* Session.sessionId
    metadataId,     \* claudeSessionId in the server's metadata
    runs,           \* "none", or the mode of the process that runs, or "waiting":
                    \* a remote launch that has no prompt yet
    startFrom,      \* claudeRemote's startFrom, while it waits
    told,           \* what the last process was told
    runningId,      \* the id it goes by
    hooked,         \* it has reported that id
    valid,          \* the ids that can be resumed
    latest,         \* the one last modified
    conversation,   \* history: the one the user is in, once Happy has been told of one
    spawned         \* history: the number of processes

claudeVars == <<told, runningId, hooked, spawned>>
filesVars == <<valid, latest>>
identityVars == <<claudeArgs, givenArgs, knownId, metadataId, runs, startFrom, told, runningId,
                  hooked, valid, latest, conversation, spawned>>

Long == {"--resume id", "--resume", "--continue"}
Short == {"-r id", "-r", "-c"}
Flags == Long \union Short \union {"--session-id id", "none"}
Names == {"--resume id", "-r id"}
Continues == {"--continue", "-c"}
Picks == {"--resume", "-r"}

IdentityTypeOK ==
    /\ {claudeArgs, givenArgs, told.args} \subseteq Flags
    /\ {knownId, metadataId, startFrom, told.resume, runningId, latest} \subseteq Id \union {NoId}
    /\ conversation \in Id \union {NoId, "unset"}
    /\ runs \in {"none", "waiting", "local", "remote", "over"}
    /\ hooked \in BOOLEAN
    /\ valid \subseteq Id /\ (latest = NoId \/ latest \in valid)
    /\ spawned \in 0..MaxSpawns

IdentityInit ==
    /\ claudeArgs \in Flags /\ givenArgs = claudeArgs
    /\ knownId = NoId /\ metadataId = NoId
    /\ runs = "none" /\ startFrom = NoId
    /\ told = [resume |-> NoId, args |-> "none"]
    /\ runningId = NoId /\ hooked = FALSE
    /\ valid = {Named} /\ latest = Named
    /\ conversation = "unset"
    /\ spawned = 0

FreshId == Id \ (valid \union {runningId, knownId, metadataId, Named})

---------------------------------------------------------------------------
(* Launches.                                                               *)

\* claudeCheckSession and claudeFindLastSession, which read Claude's files.
CanBeResumed(id) == id \in valid
LastSession == latest

\* claudeLocal: the flag that gives a start is taken out, and with --session-id the id
\* Happy knows is not used; a flag that is not looked at goes on to Claude.
LocalStart ==
    IF claudeArgs = "--session-id id" THEN NoId
    ELSE IF knownId # NoId THEN knownId
    ELSE IF claudeArgs \in Names THEN Named
    ELSE IF claudeArgs \in Continues THEN LastSession
    ELSE NoId

Extracts ==
    \/ claudeArgs = "--session-id id"
    \/ knownId = NoId /\ claudeArgs \in Names \union Continues

\* claudeRemote: an id whose file has nothing to resume is not used, and of the flags
\* only --resume with an id is.
RemoteStart ==
    IF CanBeResumed(knownId) THEN knownId
    ELSE IF claudeArgs = "--resume id" THEN Named
    ELSE NoId

\* The id that Claude takes, told to resume one, to continue the last, or to let the
\* user pick.
GoesBy(t) ==
    (IF t.resume # NoId THEN {t.resume} ELSE {})
    \union (IF t.args \in Names THEN {Named} ELSE {})
    \union (IF t.args \in Continues /\ latest # NoId THEN {latest} ELSE {})
    \union (IF t.args \in Picks THEN valid ELSE {})
    \union (IF t.resume = NoId /\ t.args \in {"none"} \union Continues \union Picks THEN FreshId ELSE {})

Spawn(mode, t) ==
    /\ spawned < MaxSpawns
    /\ spawned' = spawned + 1
    /\ runs' = mode
    /\ startFrom' = NoId
    /\ told' = t
    /\ runningId' \in GoesBy(t)
    /\ hooked' = FALSE
    /\ UNCHANGED <<claudeArgs, givenArgs, knownId, metadataId, filesVars, conversation>>

LaunchLocal ==
    /\ runs = "none"
    /\ Spawn("local", [resume |-> LocalStart,
                       args |-> IF Extracts THEN "none" ELSE claudeArgs])

\* claudeRemote up to the wait for its first prompt.
BeginRemote ==
    /\ runs = "none"
    /\ runs' = "waiting"
    /\ startFrom' = RemoteStart
    /\ UNCHANGED <<claudeArgs, givenArgs, knownId, metadataId, claudeVars, filesVars, conversation>>

\* The prompt has come.
SpawnRemote ==
    /\ runs = "waiting"
    /\ Spawn("remote", [resume |-> startFrom, args |-> "none"])

\* Session.consumeOneTimeFlags, which knows the long forms only.
ConsumeOneTimeFlags ==
    claudeArgs' = IF claudeArgs \in Long THEN "none" ELSE claudeArgs

\* No prompt: the launch is aborted or switched from, or the batch is put aside for the
\* next launch. It returns, and the launcher goes on as after a spawn.
NothingToSay ==
    /\ runs = "waiting"
    /\ runs' = "none" /\ startFrom' = NoId
    /\ ConsumeOneTimeFlags
    /\ UNCHANGED <<givenArgs, knownId, metadataId, claudeVars, filesVars, conversation>>

\* A launch that returns: the process exits well, or is aborted for a switch.
Returns ==
    /\ runs \in {"local", "remote"}
    /\ runs' = "none"
    /\ ConsumeOneTimeFlags
    /\ UNCHANGED <<givenArgs, knownId, metadataId, startFrom, claudeVars, filesVars, conversation>>

\* A launch that throws: it is tried again, with the flags it had.
Throws ==
    /\ runs \in {"local", "remote"}
    /\ runs' = "none"
    /\ UNCHANGED <<claudeArgs, givenArgs, knownId, metadataId, startFrom, claudeVars, filesVars, conversation>>

\* The end of a local Claude is the end of the program; so is one that has nothing to
\* resume under the id it is given, which claudeLocal does not look at.
Exits ==
    /\ runs = "local"
    /\ runs' = "over"
    /\ UNCHANGED <<claudeArgs, givenArgs, knownId, metadataId, startFrom, claudeVars, filesVars, conversation>>

\* /clear as a remote launch's first prompt: it returns before it spawns anything.
ClearSession ==
    /\ runs = "waiting"
    /\ runs' = "none" /\ startFrom' = NoId
    /\ knownId' = NoId
    /\ conversation' = NoId
    /\ ConsumeOneTimeFlags
    /\ UNCHANGED <<givenArgs, metadataId, claudeVars, filesVars>>

---------------------------------------------------------------------------
(* Claude, and what it reports.                                            *)

Works == runs \in {"local", "remote"} /\ (told.resume # NoId => told.resume \in valid)

\* Variant: a session that has an id keeps it.
OnFirstSessionFound ==
    /\ knownId' = IF knownId = NoId THEN runningId ELSE knownId
    /\ metadataId' = knownId'

\* Session.onSessionFound.
OnSessionFound ==
    /\ knownId' = runningId
    /\ metadataId' = runningId

\* What runClaude makes of a hook: nothing if the id is known.
HookTells ==
    IF knownId # runningId THEN OnSessionFound ELSE UNCHANGED <<knownId, metadataId>>

\* SessionStart, through the hook server.
OnSessionHook ==
    /\ Works /\ ~hooked
    /\ hooked' = TRUE
    /\ conversation' = IF runningId \in valid THEN runningId ELSE conversation
    /\ HookTells
    /\ UNCHANGED <<claudeArgs, givenArgs, runs, startFrom, told, runningId, spawned, filesVars>>

\* Claude's first message in remote mode, after its hook.
OnSystemInit ==
    /\ Works /\ runs = "remote" /\ hooked
    /\ OnSessionFound
    /\ UNCHANGED <<claudeArgs, givenArgs, runs, startFrom, claudeVars, filesVars, conversation>>

\* A turn; Claude takes no prompt before its hook has run.
Talks ==
    /\ Works /\ hooked
    /\ valid' = valid \union {runningId}
    /\ latest' = runningId
    /\ conversation' = runningId
    /\ UNCHANGED <<claudeArgs, givenArgs, knownId, metadataId, runs, startFrom, claudeVars>>

\* /compact and forks: what was said goes on under another id.
Forks ==
    /\ Works /\ hooked /\ runningId \in valid
    /\ runningId' \in FreshId
    /\ hooked' = FALSE
    /\ valid' = valid \union {runningId'}
    /\ latest' = runningId'
    /\ UNCHANGED <<claudeArgs, givenArgs, knownId, metadataId, runs, startFrom, told, conversation, spawned>>

IdentityNext ==
    \/ LaunchLocal \/ BeginRemote \/ SpawnRemote \/ NothingToSay \/ Returns \/ Throws \/ Exits
    \/ ClearSession \/ OnSessionHook \/ OnSystemInit \/ Talks \/ Forks

IdentitySpec == IdentityInit /\ [][IdentityNext]_identityVars

---------------------------------------------------------------------------
(* Once Claude has reported a conversation, or the user has cleared it,    *)
(* each process that is spawned goes by the id of the one the user is in,  *)
(* and after a clear by none that has anything to resume, whatever forks,  *)
(* failed launches, launches without a prompt and changes of mode there    *)
(* were. This is for a session whose flags were used up, or that was given *)
(* none: a launch that fails leaves them (OneTimeFlagsAreGivenOnce), and   *)
(* -r, -c and --session-id are never used up.                              *)

ContinuesTheConversation ==
    [][spawned' # spawned /\ conversation # "unset" /\ claudeArgs = "none" =>
           IF conversation = NoId THEN runningId' \notin valid
           ELSE runningId' = conversation]_identityVars

\* What claudeLocalLauncher.ts says of the flags: "we don't want to pass --resume flag after
\* first spawn" - here, once Happy knows of a conversation. A local launch that throws is
\* followed by one that is told both the id Happy knows and the flags.
OneTimeFlagsAreGivenOnce ==
    [][spawned' # spawned /\ conversation # "unset" => told'.args \notin Long]_identityVars

====
