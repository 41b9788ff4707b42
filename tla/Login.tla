---- MODULE Login ----
(***************************************************************************)
(* The processes that share the Happy home directory while they start, log *)
(* in, log out or change a profile: authAndSetupMachineIfNeeded of src/ui/ *)
(* auth.ts, `happy auth` of src/commands/auth.ts, and updateSettings of    *)
(* src/persistence.ts, which guards the settings with a lock file. A       *)
(* process may crash inside updateSettings and leave the lock behind, and  *)
(* what is read of the settings may be less than they are.                 *)
(*                                                                         *)
(* A machine ID, and the credentials, stand for the process that made them.*)
(***************************************************************************)
EXTENDS Naturals

CONSTANTS
    Cli,           \* processes
    NoOne,         \* no process
    Earlier,       \* a process that ran before
    MaxLockAttempts \* attempts at the lock (50 in the code)

ASSUME LoginAssumption == MaxLockAttempts \in Nat \ {0} /\ NoOne \notin Cli /\ Earlier \notin Cli

VARIABLES
    command,          \* what each process runs
    at,               \* where it stands
    purpose,          \* what it updates the settings for
    attempts,         \* in updateSettings: the attempts it has made
    current,          \* in updateSettings: the settings it has read
    credentialsFile,  \* who has authenticated
    settingsFile,     \* the settings
    tmpFile,          \* what the next rename puts in their place, or NoOne
    lockFile,         \* who made the lock file
    lockIsOld,        \* whether it is older than STALE_LOCK_TIMEOUT_MS
    homeDir,          \* whether the directory is there
    landed,           \* history: the updates that were renamed into place
    unread,           \* history: those that an updater's reading left out
    lockRobbed        \* history: whether a live process has lost its lock

homeVars == <<credentialsFile, settingsFile, tmpFile, homeDir>>
lockVars == <<lockFile, lockIsOld, lockRobbed>>
updateVars == <<purpose, attempts, current>>
loginVars == <<command, at, updateVars, homeVars, lockVars, landed, unread>>

\* The settings: the machine ID, and the updates that went into them.
DefaultSettings == [machineId |-> NoOne, updates |-> {}]
Settings == [machineId : Cli \union {NoOne, Earlier},
             updates : SUBSET (Cli \X {"clear", "machine", "newMachine", "profile"})]

Inside == {"read", "write", "rename", "release", "abandon"}

LoginTypeOK ==
    /\ command \in [Cli -> {"start", "login", "force", "logout", "profile"}]
    /\ at \in [Cli -> Inside \union {"begin", "setup", "request", "polling", "confirm", "open",
                                     "waiting", "unlink", "done", "failed", "dead"}]
    /\ purpose \in [Cli -> {"clear", "machine", "newMachine", "profile"}]
    /\ attempts \in [Cli -> 0..MaxLockAttempts]
    /\ current \in [Cli -> Settings]
    /\ {credentialsFile, lockFile} \subseteq Cli \union {NoOne, Earlier}
    /\ settingsFile \in Settings
    /\ tmpFile = NoOne \/ tmpFile \in Settings
    /\ {lockIsOld, homeDir, lockRobbed} \subseteq BOOLEAN
    /\ {landed, unread} \subseteq SUBSET (Cli \X {"clear", "machine", "newMachine", "profile"})

\* Some earlier process may have authenticated, and one may have left its lock. The home
\* directory is made before any command runs.
LoginInit ==
    /\ command \in [Cli -> {"start", "login", "force", "logout", "profile"}]
    /\ at = [p \in Cli |-> IF command[p] = "start" THEN "setup" ELSE "begin"]
    /\ purpose = [p \in Cli |-> "profile"]
    /\ attempts = [p \in Cli |-> 0]
    /\ current = [p \in Cli |-> DefaultSettings]
    /\ credentialsFile \in {NoOne, Earlier}
    /\ settingsFile \in {DefaultSettings, [DefaultSettings EXCEPT !.machineId = Earlier]}
    /\ tmpFile = NoOne
    /\ lockFile \in {NoOne, Earlier}
    /\ lockIsOld = FALSE
    /\ homeDir = TRUE
    /\ landed = {} /\ unread = {}
    /\ lockRobbed = FALSE

\* readSettings: the defaults after any error, and profiles that do not validate left out.
Readings ==
    {DefaultSettings}
    \union {[settingsFile EXCEPT !.updates = @ \ invalid] : invalid \in SUBSET (Cli \X {"profile"})}

Goes(p, from, to) == at[p] = from /\ at' = [at EXCEPT ![p] = to]

\* p calls updateSettings.
CallsUpdate(p, what) ==
    /\ purpose' = [purpose EXCEPT ![p] = what]
    /\ attempts' = [attempts EXCEPT ![p] = 0]
    /\ UNCHANGED current

---------------------------------------------------------------------------
(* The commands.                                                           *)

\* handleAuthLogin has nothing to do for who is known, on a machine that has its ID.
LoginChecks(p) ==
    /\ command[p] = "login"
    /\ \E settings \in Readings :
          Goes(p, "begin", IF credentialsFile # NoOne /\ settings.machineId # NoOne
                           THEN "done" ELSE "setup")
    /\ UNCHANGED <<command, updateVars, homeVars, lockVars, landed, unread>>

\* With --force: the credentials go, then the machine ID.
ForceBegins(p) ==
    /\ command[p] = "force"
    /\ Goes(p, "begin", "open")
    /\ credentialsFile' = NoOne
    /\ CallsUpdate(p, "clear")
    /\ UNCHANGED <<command, settingsFile, tmpFile, homeDir, lockVars, landed, unread>>

\* updateProfiles and its like.
ProfileBegins(p) ==
    /\ command[p] = "profile"
    /\ Goes(p, "begin", "open")
    /\ CallsUpdate(p, "profile")
    /\ UNCHANGED <<command, homeVars, lockVars, landed, unread>>

LogoutBegins(p) ==
    /\ command[p] = "logout"
    /\ Goes(p, "begin", IF credentialsFile = NoOne THEN "done" ELSE "confirm")
    /\ UNCHANGED <<command, updateVars, homeVars, lockVars, landed, unread>>

\* A process that holds the lock, or believes so.
Robs(p) == \E q \in Cli \ {p} : lockFile = q /\ at[q] \in Inside

\* The whole home directory goes, whoever is at work in it.
LogsOut(p) ==
    /\ Goes(p, "confirm", "done")
    /\ credentialsFile' = NoOne
    /\ settingsFile' = DefaultSettings
    /\ tmpFile' = NoOne
    /\ homeDir' = FALSE
    /\ lockFile' = NoOne
    /\ lockRobbed' = (lockRobbed \/ \E q \in Cli : at[q] \in Inside)
    /\ landed' = {} /\ unread' = {}
    /\ UNCHANGED <<command, updateVars, lockIsOld>>

StaysLoggedIn(p) ==
    /\ Goes(p, "confirm", "done")
    /\ UNCHANGED <<command, updateVars, homeVars, lockVars, landed, unread>>

---------------------------------------------------------------------------
(* authAndSetupMachineIfNeeded.                                            *)

ReadsCredentials(p) ==
    /\ IF credentialsFile = NoOne
       THEN Goes(p, "setup", "request") /\ UNCHANGED updateVars
       ELSE Goes(p, "setup", "open") /\ CallsUpdate(p, "machine")
    /\ UNCHANGED <<command, homeVars, lockVars, landed, unread>>

\* doAuth: the request for authentication is made, or it fails or is not wanted.
RequestsAuth(p) ==
    /\ Goes(p, "request", "polling") \/ Goes(p, "request", "failed")
    /\ UNCHANGED <<command, updateVars, homeVars, lockVars, landed, unread>>

\* A device has authorized it: the credentials are written, whatever others have written,
\* and there is to be a machine ID to go with them.
IsAuthorized(p) ==
    /\ Goes(p, "polling", "open")
    /\ credentialsFile' = p
    /\ homeDir' = TRUE
    /\ CallsUpdate(p, "newMachine")
    /\ UNCHANGED <<command, settingsFile, tmpFile, lockVars, landed, unread>>

\* A request fails, or the user interrupts it.
IsNotAuthorized(p) ==
    /\ Goes(p, "polling", "failed")
    /\ UNCHANGED <<command, updateVars, homeVars, lockVars, landed, unread>>

---------------------------------------------------------------------------
(* updateSettings.                                                         *)

\* O_EXCL: the file is made, or it is there already.
OpensLock(p) ==
    /\ homeDir
    /\ attempts[p] < MaxLockAttempts
    /\ lockFile = NoOne
    /\ Goes(p, "open", "read")
    /\ lockFile' = p
    /\ lockIsOld' = FALSE
    /\ UNCHANGED <<command, updateVars, homeVars, lockRobbed, landed, unread>>

\* Variant: the attempts are not counted.
CountsNone(p) == UNCHANGED attempts

CountsAttempt(p) == attempts' = [attempts EXCEPT ![p] = @ + 1]

FindsLock(p) ==
    /\ homeDir
    /\ attempts[p] < MaxLockAttempts
    /\ lockFile # NoOne
    /\ Goes(p, "open", "waiting")
    /\ CountsAttempt(p)
    /\ UNCHANGED <<command, purpose, current, homeVars, lockVars, landed, unread>>

\* All attempts are made, or open fails for another reason: it throws.
GivesLockUp(p) ==
    /\ attempts[p] = MaxLockAttempts \/ ~homeDir
    /\ Goes(p, "open", "failed")
    /\ UNCHANGED <<command, updateVars, homeVars, lockVars, landed, unread>>

\* After its delay: stat.
LooksAtLock(p) ==
    /\ Goes(p, "waiting", IF lockFile # NoOne /\ lockIsOld THEN "unlink" ELSE "open")
    /\ UNCHANGED <<command, updateVars, homeVars, lockVars, landed, unread>>

\* The lock file goes, whoever has made it by now.
UnlinksStaleLock(p) ==
    /\ Goes(p, "unlink", "open")
    /\ lockRobbed' = (lockRobbed \/ Robs(p))
    /\ lockFile' = NoOne
    /\ UNCHANGED <<command, updateVars, homeVars, lockIsOld, landed, unread>>

ReadsSettings(p) ==
    /\ Goes(p, "read", "write")
    /\ \E settings \in Readings :
          /\ current' = [current EXCEPT ![p] = settings]
          /\ unread' = unread \union (settingsFile.updates \ settings.updates)
    /\ UNCHANGED <<command, purpose, attempts, homeVars, lockVars, landed>>

\* The updaters.
Updated(p) ==
    [machineId |-> CASE purpose[p] = "clear" -> NoOne
                     [] purpose[p] = "newMachine" -> p
                     [] purpose[p] = "machine" /\ current[p].machineId = NoOne -> p
                     [] OTHER -> current[p].machineId,
     updates |-> current[p].updates \union {<<p, purpose[p]>>}]

WritesTmpFile(p) ==
    /\ Goes(p, "write", "rename")
    /\ homeDir' = TRUE
    /\ tmpFile' = Updated(p)
    /\ UNCHANGED <<command, updateVars, credentialsFile, settingsFile, lockVars, landed, unread>>

\* The one temporary file may be another's, or gone with another's rename.
Renames(p) ==
    /\ IF tmpFile # NoOne
       THEN /\ Goes(p, "rename", "release")
            /\ settingsFile' = tmpFile
            /\ landed' = landed \union {<<p, purpose[p]>>}
       ELSE Goes(p, "rename", "abandon") /\ UNCHANGED <<settingsFile, landed>>
    /\ tmpFile' = NoOne
    /\ UNCHANGED <<command, updateVars, credentialsFile, homeDir, lockVars, unread>>

\* Variant: the lock is released before the settings are in place.
ReleasesEarly(p) ==
    /\ at[p] \in {"write", "release", "abandon"}
    /\ at' = [at EXCEPT ![p] = CASE at[p] = "write" -> "write"
                                 [] at[p] = "abandon" -> "failed"
                                 [] purpose[p] = "clear" -> "setup"
                                 [] OTHER -> "done"]
    /\ lockFile' = NoOne
    /\ UNCHANGED <<command, updateVars, homeVars, lockIsOld, lockRobbed, landed, unread>>

\* finally: the lock file goes, whoever has made it. handleAuthLogin goes on to
\* authenticate after clearMachineId.
Releases(p) ==
    /\ \/ Goes(p, "release", IF purpose[p] = "clear" THEN "setup" ELSE "done")
       \/ Goes(p, "abandon", "failed")
    /\ lockRobbed' = (lockRobbed \/ Robs(p))
    /\ lockFile' = NoOne
    /\ UNCHANGED <<command, updateVars, homeVars, lockIsOld, landed, unread>>

Dies(p) ==
    /\ at[p] \in Inside
    /\ at' = [at EXCEPT ![p] = "dead"]
    /\ UNCHANGED <<command, updateVars, homeVars, lockVars, landed, unread>>

\* Nobody is inside for as long as STALE_LOCK_TIMEOUT_MS: only a lock left behind gets old.
LockAges ==
    /\ lockFile = Earlier \/ \E p \in Cli : lockFile = p /\ at[p] \notin Inside
    /\ ~lockIsOld
    /\ lockIsOld' = TRUE
    /\ UNCHANGED <<command, at, updateVars, homeVars, lockFile, lockRobbed, landed, unread>>

---------------------------------------------------------------------------

UpdatesSettings(p) ==
    \/ OpensLock(p) \/ FindsLock(p) \/ GivesLockUp(p) \/ LooksAtLock(p) \/ UnlinksStaleLock(p)
    \/ ReadsSettings(p) \/ WritesTmpFile(p) \/ Renames(p) \/ Releases(p)

LoginNext ==
    \/ \E p \in Cli :
        \/ LoginChecks(p) \/ ForceBegins(p) \/ ProfileBegins(p)
        \/ LogoutBegins(p) \/ LogsOut(p) \/ StaysLoggedIn(p)
        \/ ReadsCredentials(p) \/ RequestsAuth(p) \/ IsAuthorized(p) \/ IsNotAuthorized(p)
        \/ UpdatesSettings(p)
        \/ Dies(p)
    \/ LockAges

LoginSpec == LoginInit /\ [][LoginNext]_loginVars

---------------------------------------------------------------------------
(* Properties.                                                             *)

\* As long as no process has lost its lock to another, the settings contain every update
\* that was ever renamed into place, but for those that an updater's own reading left out,
\* by an error or because a profile did not validate: none was made from settings that were
\* no longer current, and none took the temporary file of another. (persistence.ts:374-387)
NoUpdateIsLost == ~lockRobbed => landed \ unread \subseteq settingsFile.updates

====
