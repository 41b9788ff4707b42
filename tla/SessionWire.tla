---- MODULE SessionWire ----
(***************************************************************************)
(* The connection of a session with the Happy server (ApiSessionClient of  *)
(* src/api/apiSession.ts, without the updates of the session's state,      *)
(* which SessionState models) and the remote procedures it offers there    *)
(* (src/api/rpc/RpcHandlerManager.ts).                                     *)
(*                                                                         *)
(* socket.io reconnects by itself. What is emitted while there is no       *)
(* connection waits in its buffer and goes out first once there is one;    *)
(* what is on its way when the connection breaks is lost, in both          *)
(* directions, and the server forgets the procedures that were registered  *)
(* on it. The socket's listeners run in one go.                            *)
(***************************************************************************)
EXTENDS Naturals, Sequences, FiniteSets, SequencesExt

CONSTANTS
    Common,       \* the methods that registerCommonHandlers registers
    Method,       \* and those that are registered later
    MaxEvents     \* bound: messages sent and received, handlers registered, RPC
                  \* requests and broken connections, all together

ASSUME SessionWireAssumption == IsFiniteSet(Common) /\ MaxEvents \in Nat

VARIABLES
    socket,          \* "down", "up", or "closed"
    sendBuffer,      \* socket.io: packets emitted while the socket was down
    toServer,        \* packets on their way to the server
    toClient,        \* packets on their way to the client
    handlers,        \* the methods in RpcHandlerManager.handlers
    hasSocket,       \* whether RpcHandlerManager.socket is set
    registered,      \* server: the methods registered on the connection
    handling,        \* the requests whose handler runs, with their method
    pendingMessages, \* user messages nobody has asked for yet
    listening,       \* whether pendingMessageCallback is set
    flushing,        \* "no", "waiting" for the ping, "answered" or "late"
    arrived,         \* history: the user messages that arrived, in order
    given,           \* history: those given to the callback, in order
    events           \* history: the number of these, which numbers them

connectionVars == <<socket, sendBuffer, toServer, toClient, registered>>
rpcVars == <<handlers, hasSocket, handling>>
promptVars == <<pendingMessages, listening, arrived, given>>
wireVars == <<socket, sendBuffer, toServer, toClient, registered, handlers, hasSocket, handling,
              pendingMessages, listening, arrived, given, flushing, events>>

\* A packet, and the method or the number of the message or request it carries.
Packet(kind, what) == [kind |-> kind, what |-> what]

WireTypeOK ==
    /\ socket \in {"down", "up", "closed"}
    /\ socket = "up" => sendBuffer = << >>
    /\ Common \subseteq handlers /\ handlers \subseteq Common \union Method
    /\ registered \subseteq handlers
    /\ hasSocket = (socket = "up")
    /\ flushing \in {"no", "waiting", "answered", "late"}
    /\ events \in 0..MaxEvents

WireInit ==
    /\ socket = "down"
    /\ sendBuffer = << >>
    /\ toServer = << >>
    /\ toClient = << >>
    /\ handlers = Common
    /\ hasSocket = FALSE
    /\ registered = {}
    /\ handling = {}
    /\ pendingMessages = << >>
    /\ listening = FALSE
    /\ flushing = "no"
    /\ arrived = << >>
    /\ given = << >>
    /\ events = 0

Event == events < MaxEvents /\ events' = events + 1

---------------------------------------------------------------------------
(* Sending.                                                                *)

\* socket.emit.
Emit(packets) ==
    CASE socket = "up" -> toServer' = toServer \o packets /\ UNCHANGED sendBuffer
      [] socket = "down" -> sendBuffer' = sendBuffer \o packets /\ UNCHANGED toServer
      [] OTHER -> UNCHANGED <<sendBuffer, toServer>>

\* Messages of Codex and of agents, events, and the session's end: buffered if need be.
SendMessage ==
    /\ Event
    /\ Emit(<<Packet("message", events')>>)
    /\ UNCHANGED <<socket, toClient, registered, rpcVars, promptVars, flushing>>

\* Claude's messages, usage reports with them, and keep-alives are not sent at all while
\* the socket is down.
SendIfConnected ==
    /\ socket = "up"
    /\ Event
    /\ Emit(<<Packet("message", events')>>)
    /\ UNCHANGED <<socket, toClient, registered, rpcVars, promptVars, flushing>>

\* flush, which does nothing while the socket is down.
Flush ==
    /\ socket = "up"
    /\ flushing = "no"
    /\ flushing' = "waiting"
    /\ Emit(<<Packet("ping", 0)>>)
    /\ UNCHANGED <<socket, toClient, registered, rpcVars, promptVars, events>>

FlushLate ==
    /\ flushing = "waiting"
    /\ flushing' = "late"
    /\ UNCHANGED <<connectionVars, rpcVars, promptVars, events>>

\* close: what has been given to the connection still goes out, the buffer does not.
CloseSocket ==
    /\ socket # "closed"
    /\ flushing # "waiting"
    /\ socket' = "closed"
    /\ sendBuffer' = << >>
    /\ toClient' = << >>
    /\ hasSocket' = FALSE
    /\ UNCHANGED <<toServer, registered, handlers, handling, promptVars, flushing, events>>

---------------------------------------------------------------------------
(* RpcHandlerManager.                                                      *)

Registrations(methods) == [i \in 1..Cardinality(methods) |->
                             Packet("register", SetToSeq(methods)[i])]

\* registerHandler; before the connection, it only remembers the handler.
RegisterHandler(m) ==
    /\ Event
    /\ handlers' = handlers \union {m}
    /\ IF hasSocket THEN Emit(Registrations({m})) ELSE UNCHANGED <<sendBuffer, toServer>>
    /\ UNCHANGED <<socket, toClient, registered, hasSocket, handling, promptVars, flushing>>

\* Variant: a connection that has seen the registrations once is not told again.
ConnectionAnnouncesOnce == IF registered = {} /\ events = 0 THEN Registrations(handlers) ELSE << >>

\* onSocketConnect: every handler there is is registered on the new connection.
ConnectionAnnounces == Registrations(handlers)

\* The answer, unless the connection of the request is gone.
HandlerReturns(r) ==
    /\ r \in handling
    /\ handling' = handling \ {r}
    /\ Emit(<<Packet("answer", r.n)>>)
    /\ UNCHANGED <<socket, toClient, registered, handlers, hasSocket, promptVars, flushing, events>>

---------------------------------------------------------------------------
(* The connection.                                                         *)

\* 'connect': the buffer goes out, then the listener runs.
Connected ==
    /\ socket = "down"
    /\ socket' = "up"
    /\ toServer' = sendBuffer \o ConnectionAnnounces
    /\ sendBuffer' = << >>
    /\ hasSocket' = TRUE
    /\ UNCHANGED <<toClient, registered, handlers, handling, promptVars, flushing, events>>

\* 'disconnect', after which nobody waits for the answers of the handlers that run.
Disconnected ==
    /\ socket = "up"
    /\ Event
    /\ socket' = "down"
    /\ toServer' = << >>
    /\ toClient' = << >>
    /\ registered' = {}
    /\ hasSocket' = FALSE
    /\ handling' = {}
    /\ UNCHANGED <<sendBuffer, handlers, promptVars, flushing>>

\* Of what the server does, what comes back: it registers methods and answers pings.
ServerReceives ==
    /\ toServer # << >>
    /\ toServer' = Tail(toServer)
    /\ LET p == Head(toServer)
       IN  /\ registered' = IF p.kind = "register" THEN registered \union {p.what} ELSE registered
           /\ toClient' = IF p.kind = "ping" /\ socket = "up"
                          THEN Append(toClient, Packet("pong", 0)) ELSE toClient
    /\ UNCHANGED <<socket, sendBuffer, rpcVars, promptVars, flushing, events>>

\* A user message for the session, whether or not there is a connection to send it on:
\* the client never asks for those it has missed.
UserWrites ==
    /\ Event
    /\ toClient' = IF socket = "up" THEN Append(toClient, Packet("prompt", events'))
                   ELSE toClient
    /\ UNCHANGED <<socket, sendBuffer, toServer, registered, rpcVars, promptVars, flushing>>

\* A device calls a method that is registered.
DeviceCalls(m) ==
    /\ m \in registered
    /\ socket = "up"
    /\ Event
    /\ toClient' = Append(toClient, Packet("call", [method |-> m, n |-> events']))
    /\ UNCHANGED <<socket, sendBuffer, toServer, registered, rpcVars, promptVars, flushing>>

---------------------------------------------------------------------------
(* The listeners.                                                          *)

Takes(kind) == toClient # << >> /\ Head(toClient).kind = kind /\ toClient' = Tail(toClient)

\* 'update' with a user message: to the callback, or kept until there is one.
OnUpdate ==
    /\ Takes("prompt")
    /\ LET m == Head(toClient).what
       IN  /\ arrived' = Append(arrived, m)
           /\ IF listening
              THEN given' = Append(given, m) /\ UNCHANGED pendingMessages
              ELSE pendingMessages' = Append(pendingMessages, m) /\ UNCHANGED given
    /\ UNCHANGED <<socket, sendBuffer, toServer, registered, rpcVars, listening, flushing, events>>

DrainPending == pendingMessages' = << >> /\ given' = given \o pendingMessages

\* onUserMessage.
OnUserMessage ==
    /\ ~listening
    /\ listening' = TRUE
    /\ DrainPending
    /\ UNCHANGED <<connectionVars, rpcVars, arrived, flushing, events>>

\* 'rpc-request': handleRequest runs the handler, or answers that there is none.
OnRpcRequest ==
    /\ Takes("call")
    /\ LET r == Head(toClient).what
       IN  IF r.method \in handlers
           THEN handling' = handling \union {r} /\ UNCHANGED <<sendBuffer, toServer>>
           ELSE Emit(<<Packet("answer", r.n)>>) /\ UNCHANGED handling
    /\ UNCHANGED <<socket, registered, handlers, hasSocket, promptVars, flushing, events>>

OnPong ==
    /\ Takes("pong")
    /\ flushing' = IF flushing = "waiting" THEN "answered" ELSE flushing
    /\ UNCHANGED <<socket, sendBuffer, toServer, registered, rpcVars, promptVars, events>>

Listeners == OnUpdate \/ OnRpcRequest \/ OnPong

WireNext ==
    \/ SendMessage \/ SendIfConnected \/ Flush \/ FlushLate \/ CloseSocket
    \/ \E m \in Method : RegisterHandler(m)
    \/ \E r \in handling : HandlerReturns(r)
    \/ Connected \/ Disconnected \/ ServerReceives
    \/ UserWrites
    \/ \E m \in Common \union Method : DeviceCalls(m)
    \/ Listeners \/ OnUserMessage

WireSpec == WireInit /\ [][WireNext]_wireVars

---------------------------------------------------------------------------
(* Properties.                                                             *)

\* While the session is connected, the server knows, or is on its way to know, every
\* procedure of the session: those registered before the connection, while it was broken,
\* and between two of them. (RpcHandlerManager.ts:42-47, 89)
RegisteredWhenConnected ==
    socket = "up" =>
        handlers \subseteq registered
                   \union {p.what : p \in {q \in ToSet(toServer) : q.kind = "register"}}

\* A call on its way to the session finds its handler: "Method not found" is told to
\* nobody. (RpcHandlerManager.ts:61)
CallsFindHandlers ==
    \A i \in DOMAIN toClient :
        toClient[i].kind = "call" => toClient[i].what.method \in handlers

\* Whatever connections break, and whenever the session gets to registering: a session that
\* is connected can be called, and what is called there exists. Of the calls made while the
\* connection breaks it says nothing; the caller is told that they failed.
ReachableWhenConnected == RegisteredWhenConnected /\ CallsFindHandlers

\* Every user message that arrives is given to the callback once, in the order of arrival,
\* however late the callback is set. A message written while there is no connection, or on
\* its way when it breaks, does not arrive. (apiSession.ts:151, 195)
HeardInOrder ==
    /\ given \o pendingMessages = arrived
    /\ listening => pendingMessages = << >>
====
