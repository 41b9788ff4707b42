---- MODULE SessionState ----
(***************************************************************************)
(* The state a session shares with the Happy server: its metadata, or its  *)
(* agent state (updateMetadata and updateAgentState of src/api/            *)
(* apiSession.ts, which are alike, each with a lock of its own). A client  *)
(* applies an update to its local copy and asks the server to store the    *)
(* outcome over the version it knows; the server refuses when it has moved *)
(* on, and the client starts over from what it is told.                    *)
(*                                                                         *)
(* A session has one client for each socket: runClaude makes a second one  *)
(* (line 170), and the user's phone writes metadata too. Values stand for  *)
(* the set of updates they contain; an update keeps what it does not       *)
(* change (`...currentState`), so it only ever adds itself.                *)
(***************************************************************************)
EXTENDS Naturals, Sequences, FiniteSets

CONSTANTS
    Client,      \* the writers of this state
    MaxUpdates,  \* bound: updates ever asked for
    MaxDrops,    \* bound: lost connections
    MaxErrors    \* bound: hard errors of the server

ASSUME SessionStateAssumption == {MaxUpdates, MaxDrops, MaxErrors} \subseteq Nat

VARIABLES
    history,   \* the server: the value stored under each version, from 1
    local,     \* this.agentState and this.agentStateVersion, for each client
    line,      \* the jobs of the client's lock, the one that runs in front
    step,      \* where the job in front stands
    request,   \* the last request of the client
    answer,    \* the server's answer to it
    stray,     \* requests whose connection broke: the server may still see them
    made,      \* history: the client of each update asked for; updates are numbered
    done,      \* history: the updates whose job has ended with success
    dropped,   \* history: the updates whose job a hard error has ended
    drops      \* history: the number of lost connections

serverVars == <<history, stray>>
clientVars == <<local, line, step, request, answer>>
countVars == <<made, done, dropped, drops>>
stateVars == <<serverVars, clientVars, countVars>>

Update == 1..MaxUpdates
Value == SUBSET Update
Versioned == [version : Nat, value : Value]
Result == {"success", "version-mismatch", "error"}

StateTypeOK ==
    /\ history \in Seq(Value)
    /\ local \in [Client -> Versioned]
    /\ line \in [Client -> Seq(Update)]
    /\ step \in [Client -> {"idle", "asking", "answered", "backoff"}]
    /\ request \in [Client -> Versioned]
    /\ answer \in [Client -> [result : Result, version : Nat, value : Value]]
    /\ stray \subseteq Versioned
    /\ made \in Seq(Client)
    /\ done \subseteq Update
    /\ dropped \subseteq Update
    /\ drops \in 0..MaxDrops

Blank == [version |-> 1, value |-> {}]

\* The session as the server gave it when it was created or fetched.
StateInit ==
    /\ history = <<{}>>
    /\ local = [c \in Client |-> Blank]
    /\ line = [c \in Client |-> << >>]
    /\ step = [c \in Client |-> "idle"]
    /\ request = [c \in Client |-> Blank]
    /\ answer = [c \in Client |-> [result |-> "success", version |-> 1, value |-> {}]]
    /\ stray = {}
    /\ made = << >>
    /\ done = {}
    /\ dropped = {}
    /\ drops = 0

Stored == [version |-> Len(history), value |-> history[Len(history)]]

---------------------------------------------------------------------------
(* The client.                                                             *)

\* updateMetadata, updateAgentState: get in line for the lock. Nobody awaits the job.
UpdateState(c) ==
    /\ Len(made) < MaxUpdates
    /\ made' = Append(made, c)
    /\ line' = [line EXCEPT ![c] = Append(@, Len(made'))]
    /\ UNCHANGED <<serverVars, local, step, request, answer, done, dropped, drops>>

Send(c, version, value) ==
    /\ request' = [request EXCEPT ![c] = [version |-> version, value |-> value]]
    /\ step' = [step EXCEPT ![c] = "asking"]
    /\ UNCHANGED <<serverVars, local, line, answer, countVars>>

\* The callback of the backoff up to its await: the handler runs on the local copy.
Ask(c) == Send(c, local[c].version, local[c].value \union {Head(line[c])})

Begin(c) ==
    /\ step[c] = "idle"
    /\ line[c] # << >>
    /\ Ask(c)

\* Variant: the handler has run once, before the backoff.
RetrySameValue(c) ==
    /\ step[c] = "backoff"
    /\ Send(c, local[c].version, request[c].value)

Retry(c) ==
    /\ step[c] = "backoff"
    /\ Ask(c)

\* The job is over, and the lock goes to the next.
EndJob(c) ==
    /\ line' = [line EXCEPT ![c] = Tail(@)]
    /\ step' = [step EXCEPT ![c] = "idle"]

OnSuccess(c) ==
    /\ step[c] = "answered"
    /\ answer[c].result = "success"
    /\ local' = [local EXCEPT ![c] = [version |-> answer[c].version, value |-> answer[c].value]]
    /\ EndJob(c)
    /\ done' = done \union {Head(line[c])}
    /\ UNCHANGED <<serverVars, request, answer, made, dropped, drops>>

\* Adopt what the server says if it is news.
Adopt(c, version, value) ==
    local' = IF version > local[c].version
             THEN [local EXCEPT ![c] = [version |-> version, value |-> value]]
             ELSE local

\* Variant: the server's version is not adopted.
OnMismatchKeepingLocal(c) ==
    /\ step[c] = "answered"
    /\ answer[c].result = "version-mismatch"
    /\ step' = [step EXCEPT ![c] = "backoff"]
    /\ UNCHANGED <<serverVars, local, line, request, answer, countVars>>

\* Variant: the mismatch is not thrown, so backoff takes the job for done.
OnMismatchUnthrown(c) ==
    /\ step[c] = "answered"
    /\ answer[c].result = "version-mismatch"
    /\ Adopt(c, answer[c].version, answer[c].value)
    /\ EndJob(c)
    /\ done' = done \union {Head(line[c])}
    /\ UNCHANGED <<serverVars, request, answer, made, dropped, drops>>

\* Variant: the job gives up its place and gets in line again.
OnMismatchBackInLine(c) ==
    /\ step[c] = "answered"
    /\ answer[c].result = "version-mismatch"
    /\ Adopt(c, answer[c].version, answer[c].value)
    /\ line' = [line EXCEPT ![c] = Append(Tail(@), Head(@))]
    /\ step' = [step EXCEPT ![c] = "idle"]
    /\ UNCHANGED <<serverVars, request, answer, countVars>>

\* A mismatch is thrown, and backoff comes again.
OnMismatch(c) ==
    /\ step[c] = "answered"
    /\ answer[c].result = "version-mismatch"
    /\ Adopt(c, answer[c].version, answer[c].value)
    /\ step' = [step EXCEPT ![c] = "backoff"]
    /\ UNCHANGED <<serverVars, line, request, answer, countVars>>

\* A hard error is ignored: the update is given up, and nobody is told.
OnError(c) ==
    /\ step[c] = "answered"
    /\ answer[c].result = "error"
    /\ EndJob(c)
    /\ dropped' = dropped \union {Head(line[c])}
    /\ UNCHANGED <<serverVars, local, request, answer, made, done, drops>>

\* The 'update' event for a version the server stored, late, repeated or out of order.
OnUpdateSession(c, v) ==
    /\ Adopt(c, v, history[v])
    /\ UNCHANGED <<serverVars, line, step, request, answer, countVars>>

\* Variant: the promise of emitWithAck stays open for ever.
DisconnectUnheard(c) ==
    /\ drops < MaxDrops
    /\ step[c] \in {"asking", "answered"}
    /\ step' = [step EXCEPT ![c] = "lost"]
    /\ drops' = drops + 1
    /\ UNCHANGED <<serverVars, local, line, request, answer, made, done, dropped>>

\* The connection breaks under a request or its answer: emitWithAck fails, and backoff
\* comes again. What was under way to the server may still arrive.
Disconnect(c) ==
    /\ drops < MaxDrops
    /\ step[c] \in {"asking", "answered"}
    /\ stray' = IF step[c] = "asking" THEN stray \union {request[c]} ELSE stray
    /\ step' = [step EXCEPT ![c] = "backoff"]
    /\ drops' = drops + 1
    /\ UNCHANGED <<history, local, line, request, answer, made, done, dropped>>

---------------------------------------------------------------------------
(* The server, as the client's code relies on it.                          *)

Store(r) ==
    history' = IF r.version = Len(history) THEN Append(history, r.value) ELSE history

Handle(c) ==
    /\ step[c] = "asking"
    /\ Store(request[c])
    /\ step' = [step EXCEPT ![c] = "answered"]
    /\ answer' = [answer EXCEPT ![c] =
                    [result |-> IF request[c].version = Len(history)
                                THEN "success" ELSE "version-mismatch",
                     version |-> Stored'.version, value |-> Stored'.value]]
    /\ UNCHANGED <<stray, local, line, request, countVars>>

Refuse(c) ==
    /\ step[c] = "asking"
    /\ Cardinality(dropped) < MaxErrors
    /\ step' = [step EXCEPT ![c] = "answered"]
    /\ answer' = [answer EXCEPT ![c].result = "error"]
    /\ UNCHANGED <<serverVars, local, line, request, countVars>>

HandleStray(r) ==
    /\ r \in stray
    /\ stray' = stray \ {r}
    /\ Store(r)
    /\ UNCHANGED <<clientVars, countVars>>

---------------------------------------------------------------------------

Run(c) == Begin(c) \/ Retry(c) \/ OnSuccess(c) \/ OnMismatch(c) \/ OnError(c)

Serve(c) == Handle(c) \/ Refuse(c)

StateNext ==
    \/ \E c \in Client : UpdateState(c) \/ Run(c) \/ Serve(c) \/ Disconnect(c)
    \/ \E c \in Client : \E v \in DOMAIN history : OnUpdateSession(c, v)
    \/ \E r \in stray : HandleStray(r)

StateSpec == StateInit /\ [][StateNext]_stateVars

\* Timers and microtasks run, and the server answers whoever stays connected.
StateFairSpec ==
    /\ StateSpec
    /\ \A c \in Client : WF_stateVars(Run(c)) /\ WF_stateVars(Serve(c))

---------------------------------------------------------------------------
(* Properties.                                                             *)

\* No writer overwrites another: each version contains everything of the version before
\* it, whoever wrote it, over whatever copy, and however often the request was repeated.
NothingIsOverwritten ==
    \A v \in 1..(Len(history) - 1) : history[v] \subseteq history[v + 1]

\* An update whose job has ended is stored for good, unless a hard error ended it.
DoneIsStored == done \subseteq Stored.value

\* Every update is stored or given up in the end, whatever it meets on the way. (With
\* finitely many updates to compete with: nothing in the code makes the server fair.)
EveryUpdateIsSettled == []<>(DOMAIN made \subseteq done \union dropped)
====
