---- MODULE MachineSync ----
(***************************************************************************)
(* What the daemon shares with the Happy server about its machine: its     *)
(* state, or the machine's metadata (src/api/apiMachine.ts). Unlike a      *)
(* session (SessionState), the machine has no lock: each update asks the   *)
(* server, over the version known when it asks, and comes again until it   *)
(* is stored; and whatever version an update event brings is taken over,   *)
(* older ones too.                                                         *)
(*                                                                         *)
(* A value stands for the updates it was made by, in order. Updates 1, 2.. *)
(* are the daemon's; the devices' are numbered on.                         *)
(***************************************************************************)
EXTENDS Naturals, Sequences, FiniteSets, SequencesExt

CONSTANTS
    MaxMachineUpdates,  \* bound: the daemon's updates
    MaxWrites,          \* bound: the devices' updates
    MaxLosses           \* bound: broken connections

\* An update for each connection, and the last one.
ASSUME MachineSyncAssumption ==
    /\ {MaxMachineUpdates, MaxWrites, MaxLosses} \subseteq Nat
    /\ MaxMachineUpdates >= MaxLosses + 2

VARIABLES
    record,         \* what is shared: "daemonState" or "metadata"
    versions,       \* the server: the value stored under each version, from 1
    machine,        \* the daemon's copy and its version
    updates,        \* the daemon's updates, in the order they were asked for
    broadcasts,     \* versions whose update event is on its way
    strays,         \* requests whose connection broke: the server may still see them
    machineSocket,  \* "down", "up", or "closed"
    keepAlive,      \* whether the keep-alive interval runs
    stopping,       \* the update cleanupAndShutdown awaits, 0 before it
    writes, losses  \* history

machineVars == <<record, versions, machine, updates, broadcasts, strays, machineSocket,
                 keepAlive, stopping, writes, losses>>

MachineUpdate == 1..MaxMachineUpdates
MachineValue == Seq(1..(MaxMachineUpdates + MaxWrites))
Version == DOMAIN versions

MachineTypeOK ==
    /\ record \in {"daemonState", "metadata"}
    /\ versions \in Seq(MachineValue)
    /\ machine.version \in Version /\ machine.value \in MachineValue
    /\ updates \in Seq([at : {"asking", "stored", "refused", "backoff", "done"},
                        version : Nat, value : MachineValue])
    /\ broadcasts \subseteq Version
    /\ machineSocket \in {"down", "up", "closed"}
    /\ keepAlive = (machineSocket = "up")
    /\ stopping \in 0..Len(updates)

\* The server has a record: getOrCreateMachine has made it.
MachineInit ==
    /\ record \in {"daemonState", "metadata"}
    /\ versions = << << >> >>
    /\ machine = [version |-> 1, value |-> << >>]
    /\ updates = << >>
    /\ broadcasts = {}
    /\ strays = {}
    /\ machineSocket = "down"
    /\ keepAlive = FALSE
    /\ stopping = 0
    /\ writes = 0
    /\ losses = 0

Newest == Len(versions)

---------------------------------------------------------------------------
(* The daemon's updates.                                                   *)

\* The daemon's state is spread over the one before; the metadata that the version check
\* stores is made without a look at it.
Handler(u, value) == IF record = "daemonState" THEN Append(value, u) ELSE <<u>>

Asking(u) == [at |-> "asking", version |-> machine.version, value |-> Handler(u, machine.value)]

\* updateDaemonState and updateMachineMetadata: asked at once, with what is known now.
BeginUpdate ==
    /\ Len(updates) < MaxMachineUpdates
    /\ updates' = Append(updates, Asking(Len(updates) + 1))

\* Variant: the handler has run once, before the backoff.
AskAgainWithSameValue(u) ==
    /\ machineSocket # "closed"
    /\ updates[u].at = "backoff"
    /\ updates' = [updates EXCEPT ![u].at = "asking", ![u].version = machine.version]
    /\ UNCHANGED <<record, versions, machine, broadcasts, strays, machineSocket,
                   keepAlive, stopping, writes, losses>>

\* The delay of the backoff is over: the handler runs again on what is known by now.
AskAgain(u) ==
    /\ machineSocket # "closed"
    /\ updates[u].at = "backoff"
    /\ updates' = [updates EXCEPT ![u] = Asking(u)]
    /\ UNCHANGED <<record, versions, machine, broadcasts, strays, machineSocket,
                   keepAlive, stopping, writes, losses>>

\* The daemon looks for a newer Claude Code once.
VersionCheck ==
    /\ record = "metadata"
    /\ updates = << >>
    /\ stopping = 0
    /\ BeginUpdate
    /\ UNCHANGED <<record, versions, machine, broadcasts, strays, machineSocket,
                   keepAlive, stopping, writes, losses>>

StartKeepAlive == keepAlive' = TRUE

StopKeepAlive == keepAlive' = FALSE

\* 'connect': the daemon says that it runs.
MachineConnects ==
    /\ machineSocket = "down"
    /\ machineSocket' = "up"
    /\ StartKeepAlive
    /\ IF record = "daemonState" THEN BeginUpdate ELSE UNCHANGED updates
    /\ UNCHANGED <<record, versions, machine, broadcasts, strays, stopping, writes, losses>>

\* cleanupAndShutdown: the last update, which is awaited.
StopDaemon ==
    /\ record = "daemonState"
    /\ stopping = 0
    /\ BeginUpdate
    /\ stopping' = Len(updates')
    /\ UNCHANGED <<record, versions, machine, broadcasts, strays, machineSocket,
                   keepAlive, writes, losses>>

\* shutdown, a moment after that update is over.
ShutDown ==
    /\ stopping # 0
    /\ updates[stopping].at = "done"
    /\ machineSocket # "closed"
    /\ machineSocket' = "closed"
    /\ StopKeepAlive
    /\ UNCHANGED <<record, versions, machine, updates, broadcasts, strays, stopping, writes, losses>>

---------------------------------------------------------------------------
(* What the daemon hears.                                                  *)

MachineIsUp == machineSocket = "up"

\* Variant: only the version is taken over.
TakeOverVersionOnly(v) == machine' = [machine EXCEPT !.version = v]

TakeOver(v) == machine' = [version |-> v, value |-> versions[v]]

\* The answer to a stored request: it is the request's value, under its new version.
OnStored(u) ==
    /\ MachineIsUp
    /\ updates[u].at = "stored"
    /\ machine' = [version |-> updates[u].version, value |-> updates[u].value]
    /\ updates' = [updates EXCEPT ![u].at = "done"]
    /\ UNCHANGED <<record, versions, broadcasts, strays, machineSocket,
                   keepAlive, stopping, writes, losses>>

\* A mismatch is thrown, and backoff comes again; what the server has is taken over if it
\* is newer.
OnRefused(u) ==
    /\ MachineIsUp
    /\ updates[u].at = "refused"
    /\ IF updates[u].version > machine.version
       THEN TakeOver(updates[u].version) ELSE UNCHANGED machine
    /\ updates' = [updates EXCEPT ![u].at = "backoff"]
    /\ UNCHANGED <<record, versions, broadcasts, strays, machineSocket,
                   keepAlive, stopping, writes, losses>>

\* The answer 'error', which the server gives without storing anything: no branch takes it
\* up, so the update is over, and whoever asked for it is not told that it has failed.
OnError(u) ==
    /\ MachineIsUp
    /\ updates[u].at = "asking"
    /\ updates' = [updates EXCEPT ![u].at = "done"]
    /\ UNCHANGED <<record, versions, machine, broadcasts, strays, machineSocket,
                   keepAlive, stopping, writes, losses>>

\* The 'update' event takes over what it brings, whatever is known.
OnMachineUpdate(v) ==
    /\ MachineIsUp
    /\ v \in broadcasts
    /\ TakeOver(v)
    /\ broadcasts' = broadcasts \ {v}
    /\ UNCHANGED <<record, versions, updates, strays, machineSocket,
                   keepAlive, stopping, writes, losses>>

\* The connection breaks: events are lost, and whoever awaits an answer comes again.
MachineDisconnects ==
    /\ MachineIsUp
    /\ losses < MaxLosses
    /\ losses' = losses + 1
    /\ machineSocket' = "down"
    /\ StopKeepAlive
    /\ broadcasts' = {}
    /\ strays' = strays \union {[updates[u] EXCEPT !.at = "backoff"] :
                                  u \in {w \in DOMAIN updates : updates[w].at = "asking"}}
    /\ updates' = [u \in DOMAIN updates |->
                     IF updates[u].at \in {"asking", "stored", "refused"}
                     THEN [updates[u] EXCEPT !.at = "backoff"] ELSE updates[u]]
    /\ UNCHANGED <<record, versions, machine, stopping, writes>>

---------------------------------------------------------------------------
(* The server, as the client's code relies on it.                          *)

StoreOver(version, value) ==
    versions' = IF version = Newest THEN Append(versions, value) ELSE versions

\* A request is answered with the version that is stored now.
ServerAnswers(u) ==
    /\ MachineIsUp
    /\ updates[u].at = "asking"
    /\ StoreOver(updates[u].version, updates[u].value)
    /\ updates' = [updates EXCEPT ![u].at = IF updates[u].version = Newest THEN "stored" ELSE "refused",
                                  ![u].version = Len(versions')]
    /\ UNCHANGED <<record, machine, broadcasts, strays, machineSocket,
                   keepAlive, stopping, writes, losses>>

\* A request of a broken connection is handled late, and nobody hears the answer. Its
\* update may have been asked for again by then.
ServerAnswersStray(r) ==
    /\ r \in strays
    /\ strays' = strays \ {r}
    /\ StoreOver(r.version, r.value)
    /\ UNCHANGED <<record, machine, updates, broadcasts, machineSocket,
                   keepAlive, stopping, writes, losses>>

\* A device stores a value of its own over the newest one; it reaches a daemon that is
\* connected as an event.
DeviceWrites ==
    /\ writes < MaxWrites
    /\ writes' = writes + 1
    /\ versions' = Append(versions, Append(versions[Newest], MaxMachineUpdates + writes'))
    /\ broadcasts' = IF MachineIsUp THEN broadcasts \union {Newest + 1} ELSE broadcasts
    /\ UNCHANGED <<record, machine, updates, strays, machineSocket, keepAlive, stopping, losses>>

UpdateRuns(u) == AskAgain(u) \/ OnStored(u) \/ OnRefused(u) \/ OnError(u) \/ ServerAnswers(u)

MachineNext ==
    \/ \E u \in DOMAIN updates : UpdateRuns(u)
    \/ \E r \in strays : ServerAnswersStray(r)
    \/ \E v \in Version : OnMachineUpdate(v)
    \/ MachineConnects \/ MachineDisconnects \/ VersionCheck \/ StopDaemon \/ ShutDown
    \/ DeviceWrites

MachineSpec == MachineInit /\ [][MachineNext]_machineVars

---------------------------------------------------------------------------
(* Properties.                                                             *)

\* An update of the daemon's state undoes nothing that was stored before it, by whomever,
\* although several of them are under way at once, from copies that may be older than
\* the server's, and with older versions coming in between. (apiMachine.ts:189)
NothingIsUndone ==
    record = "daemonState" =>
        \A v \in 1..(Newest - 1) : IsPrefix(versions[v], versions[v + 1])

====
