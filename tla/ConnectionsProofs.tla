---- MODULE ConnectionsProofs ----
(***************************************************************************)
(* Proofs about what connects a session with its server and with Claude:   *)
(* OfflineStart, SessionWire, SdkStream and MachineSync. In each, the      *)
(* property that matters is not inductive; the invariant that is says      *)
(* where everything is that is still on its way.                           *)
(***************************************************************************)
EXTENDS OfflineStart, SessionWire, SdkStream, MachineSync, SequenceTheorems, FiniteSetTheorems, TLAPS

---------------------------------------------------------------------------
(* OfflineStart. The server makes one session more at most than requests   *)
(* have gone wrong, because only one of the start, the timer and the       *)
(* attempt is ever under way; that also keeps the swap from finding        *)
(* another.                                                                *)

\* A session can still be asked for.
StillAsks == starting \in {"machine", "session"} \/ retryTimer \/ tries \in {"health", "create"}

\* One thing at a time: the start, the timer, or an attempt; and none of them once there is
\* a session.
OneAtATime ==
    /\ AttemptsEnd
    /\ starting \in {"machine", "session"} =>
          ~retryTimer /\ tries = "none" /\ session = "none" /\ ~cancelled

\* Every session the server has made, but the last one, has cost a request that did not
\* succeed.
SessionsMade ==
    /\ serverSessions \in 0..(MaxTroubles + 1)
    /\ troubles \in 0..MaxTroubles
    /\ serverSessions <= troubles + 1
    /\ StillAsks => serverSessions <= troubles

\* Claude has no stub its handler could stay with; a scanner is Claude's, and awaiting the
\* set-up is Gemini's.
FlavorsDiffer ==
    /\ flavor = "claude" => handlerSession \in {"none", "real"}
    /\ tries = "scan" => flavor = "claude"
    /\ starting = "setup" => flavor = "gemini"

\* OfflineTypeOK without its numbers.
Kinds ==
    /\ flavor \in {"claude", "codex", "gemini"}
    /\ starting \in {"machine", "session", "setup", "running", "closing", "over"}
    /\ connectionState \in {"online", "offline"}
    /\ failures \subseteq {"Machine registration", "Session creation"}
    /\ warned \subseteq failures
    /\ session \in {"none", "stub", "real"} /\ handlerSession \in {"none", "stub", "real"}
    /\ hearing \subseteq {"stub", "real"} /\ titleSession \in {"none", "stub", "real"}
    /\ retryTimer \in BOOLEAN /\ cancelled \in BOOLEAN /\ reconnected \in BOOLEAN
    /\ tries \in {"none", "health", "create", "scan"}

OfflineInv == Kinds /\ SessionsMade /\ OneAtATime /\ FlavorsDiffer /\ HandlerFollowsTheSession

\* At the start there is no session, and one can be asked for.
LEMMA OfflineInitInv == OfflineInit => OfflineInv
<1>1. OfflineInit => Kinds
  BY DEF OfflineInit, Kinds
<1>2. OfflineInit => SessionsMade
  BY OfflineStartAssumption DEF OfflineInit, SessionsMade
<1>3. OfflineInit => OneAtATime /\ FlavorsDiffer /\ HandlerFollowsTheSession
  BY DEF OfflineInit, OneAtATime, AttemptsEnd, FlavorsDiffer, HandlerFollowsTheSession
<1>4. QED
  BY <1>1, <1>2, <1>3 DEF OfflineInv

\* What the requests may do to the numbers: one that succeeds is the last; one that does
\* not makes room for another.
LEMMA SessionsAreCounted ==
    ASSUME SessionsMade,
           \/ UNCHANGED <<serverSessions, troubles>> /\ (StillAsks' => StillAsks)
           \/ serverSessions' \in {serverSessions, Made} /\ Trouble /\ StillAsks
           \/ serverSessions' = Made /\ UNCHANGED troubles /\ StillAsks /\ ~StillAsks'
    PROVE  SessionsMade'
<1>1. Made \in {serverSessions, serverSessions + 1}
  BY DEF SessionsMade, Made
<1>2. QED
  BY <1>1, OfflineStartAssumption DEF SessionsMade, Trouble

\* A step of the start or of an attempt is one of the three.
LEMMA ConnectCounts ==
    ASSUME OfflineInv, Connect
    PROVE  SessionsMade'
<1> USE DEF StillAsks, OneAtATime, AttemptsEnd, Kinds, retryVars
<1>1. CASE RegisterMachine
  BY <1>1, SessionsAreCounted DEF RegisterMachine, OfflineInv
<1>2. CASE StartOnline
  BY <1>2, SessionsAreCounted DEF StartOnline, Obtained, SetUpOn, OfflineInv
<1>3. CASE StartOffline
  BY <1>3, SessionsAreCounted DEF StartOffline, Unreachable, OfflineInv
<1>4. CASE StartFails
  BY <1>4, SessionsAreCounted DEF StartFails, Thrown, OfflineInv
<1>5. CASE SetUpDone
  BY <1>5, SessionsAreCounted DEF SetUpDone, OfflineInv
<1>6. QED
  BY <1>1, <1>2, <1>3, <1>4, <1>5 DEF Connect

\* So is a step of the reconnection.
LEMMA ReconnectCounts ==
    ASSUME OfflineInv, Reconnect
    PROVE  SessionsMade'
<1> USE DEF StillAsks, OneAtATime, AttemptsEnd, Kinds, retryVars
<1>1. CASE AttemptBegins
  BY <1>1, SessionsAreCounted DEF AttemptBegins, OfflineInv
<1>2. CASE Healthy
  BY <1>2, SessionsAreCounted DEF Healthy, OfflineInv
<1>3. CASE HealthCheckFails
  BY <1>3, SessionsAreCounted DEF HealthCheckFails, OfflineInv
<1>4. CASE CreationFails
  BY <1>4, SessionsAreCounted DEF CreationFails, Unreachable, Thrown, OfflineInv
<1>5. CASE SessionComes
  BY <1>5, SessionsAreCounted DEF SessionComes, Obtained, OfflineInv
<1>6. CASE ScannerComes
  BY <1>6, SessionsAreCounted DEF ScannerComes, OfflineInv
<1>7. QED
  BY <1>1, <1>2, <1>3, <1>4, <1>5, <1>6 DEF Reconnect

\* The start leaves everybody on one session, or on none.
LEMMA ConnectKeepsOne ==
    ASSUME OfflineInv, Connect
    PROVE  (Kinds /\ OneAtATime /\ FlavorsDiffer /\ HandlerFollowsTheSession)'
<1> USE DEF OfflineInv, Kinds, OneAtATime, AttemptsEnd, FlavorsDiffer, HandlerFollowsTheSession, stateVars, heldVars, retryVars
<1>1. CASE RegisterMachine
  BY <1>1 DEF RegisterMachine, Report
<1>2. CASE StartOnline
  BY <1>2 DEF StartOnline, Obtained, SetUpOn
<1>3. CASE StartOffline
  BY <1>3 DEF StartOffline, Unreachable, Report, SetUpOn
<1>4. CASE StartFails
  BY <1>4 DEF StartFails, Thrown
<1>5. CASE SetUpDone
  BY <1>5 DEF SetUpDone
<1>6. QED
  BY <1>1, <1>2, <1>3, <1>4, <1>5 DEF Connect

\* And so does an attempt: the swap moves the handler with the rest, or finds none.
LEMMA ReconnectKeepsOne ==
    ASSUME OfflineInv, Reconnect
    PROVE  (Kinds /\ OneAtATime /\ FlavorsDiffer /\ HandlerFollowsTheSession)'
<1> USE DEF OfflineInv, Kinds, OneAtATime, AttemptsEnd, FlavorsDiffer, HandlerFollowsTheSession, stateVars, heldVars, retryVars
<1>1. CASE AttemptBegins
  BY <1>1 DEF AttemptBegins
<1>2. CASE Healthy
  BY <1>2 DEF Healthy
<1>3. CASE HealthCheckFails
  BY <1>3 DEF HealthCheckFails, TryAgain
<1>4. CASE CreationFails
  <2>1. Kinds'
    <3>1. CASE Unreachable
      BY <1>4, <3>1 DEF CreationFails, Unreachable, Report, TryAgain
    <3>2. CASE Thrown
      BY <1>4, <3>2 DEF CreationFails, Thrown, TryAgain
    <3>3. QED
      BY <1>4, <3>1, <3>2 DEF CreationFails
  <2>2. (OneAtATime /\ FlavorsDiffer /\ HandlerFollowsTheSession)'
    BY <1>4 DEF CreationFails, TryAgain
  <2>3. QED
    BY <2>1, <2>2
<1>5. CASE SessionComes
  BY <1>5 DEF SessionComes, Obtained, Swap
<1>6. CASE ScannerComes
  BY <1>6 DEF ScannerComes
<1>7. QED
  BY <1>1, <1>2, <1>3, <1>4, <1>5, <1>6 DEF Reconnect

\* Every step keeps the invariant.
LEMMA OfflineNextInv ==
    ASSUME OfflineInv, [OfflineNext]_offlineVars
    PROVE  OfflineInv'
<1>1. CASE Quit \/ Closed \/ UNCHANGED offlineVars
  <2>1. SessionsMade'
    BY <1>1, SessionsAreCounted DEF OfflineInv, StillAsks, Quit, Closed, offlineVars, retryVars
  <2>2. (Kinds /\ OneAtATime /\ FlavorsDiffer /\ HandlerFollowsTheSession)'
    <3> USE DEF OfflineInv, Kinds, OneAtATime, AttemptsEnd, FlavorsDiffer, HandlerFollowsTheSession, stateVars, heldVars, retryVars
    <3>1. CASE Quit
      BY <3>1 DEF Quit
    <3>2. CASE Closed
      BY <3>2 DEF Closed
    <3>3. CASE UNCHANGED offlineVars
      <4> USE <3>3 DEF offlineVars
      <4>1. Kinds'
        BY ZenonT(30)
      <4>2. OneAtATime'
        BY Zenon
      <4>3. FlavorsDiffer'
        BY Zenon
      <4>4. HandlerFollowsTheSession'
        BY Zenon
      <4>5. QED
        BY <4>1, <4>2, <4>3, <4>4
    <3>4. QED
      BY <1>1, <3>1, <3>2, <3>3
  <2>3. QED
    BY <2>1, <2>2 DEF OfflineInv
<1>2. CASE Connect \/ Reconnect
  BY <1>2, ConnectCounts, ConnectKeepsOne, ReconnectCounts, ReconnectKeepsOne DEF OfflineInv
<1>3. QED
  BY <1>1, <1>2 DEF OfflineNext

\* The invariant of the start and the reconnection.
LEMMA OfflineInvariance == OfflineSpec => []OfflineInv
BY OfflineInitInv, OfflineNextInv, PTL DEF OfflineSpec

\* The start and the reconnection keep their types, and no more sessions are made on the
\* server than requests have gone wrong, and one.
THEOREM OfflineTypeCorrect == OfflineSpec => []OfflineTypeOK
<1>1. OfflineInv => OfflineTypeOK
  BY DEF OfflineInv, Kinds, SessionsMade, OfflineTypeOK
<1>2. QED
  BY <1>1, OfflineInvariance, PTL

\* However often the server cannot be reached, and whenever the real session comes: what
\* the permission handler asks on is the session the program sends its messages to.
THEOREM HandlerIsSwappedToo == OfflineSpec => []HandlerFollowsTheSession
<1>1. OfflineInv => HandlerFollowsTheSession
  BY DEF OfflineInv
<1>2. QED
  BY <1>1, OfflineInvariance, PTL

\* Whatever goes wrong how often, at most one attempt is due or under way, and none is any
\* more once it is cancelled or the session is there.
THEOREM OneChainOfAttempts == OfflineSpec => []AttemptsEnd
<1>1. OfflineInv => AttemptsEnd
  BY DEF OfflineInv, OneAtATime
<1>2. QED
  BY <1>1, OfflineInvariance, PTL

---------------------------------------------------------------------------
(* SdkStream. What was printed is what was handled, what waits in the      *)
(* stream and what waits to be read, in this order.                        *)

\* The lines l still to be read hold the messages r and nothing else but requests. said
\* counts the messages among the first lines.
Hold(l, r) ==
    \E said \in [0..Len(l) -> 0..Len(r)] :
        /\ said[0] = 0 /\ said[Len(l)] = Len(r)
        /\ \A i, j \in 0..Len(l) : i <= j => said[i] <= said[j]
        /\ \A k \in 1..Len(l) :
              IF l[k] = "request" THEN said[k] = said[k - 1]
              ELSE said[k] = said[k - 1] + 1 /\ r[said[k]] = l[k]

Line == Message \union {"request"}

\* An empty output holds the messages of an empty list only.
LEMMA NothingHeld == ASSUME NEW r \in Seq(Message) PROVE Hold(<< >>, r) <=> r = << >>
<1>1. ASSUME Hold(<< >>, r) PROVE r = << >>
  BY <1>1 DEF Hold
<1>2. Hold(<< >>, << >>)
  <2> DEFINE said == [k \in 0..0 |-> 0]
  <2>1. said \in [0..Len(<< >>) -> 0..Len(<< >>)] /\ said[0] = 0
    OBVIOUS
  <2> HIDE DEF said
  <2>2. QED
    BY <2>1 DEF Hold
<1>3. QED
  BY <1>1, <1>2

\* A printed line, and the message it may be.
LEMMA HoldsPrinted ==
    ASSUME NEW l \in Seq(Line), NEW r \in Seq(Message), Hold(l, r), NEW x \in Line
    PROVE  Hold(Append(l, x), IF x = "request" THEN r ELSE Append(r, x))
<1>1. PICK said \in [0..Len(l) -> 0..Len(r)] :
        /\ said[0] = 0 /\ said[Len(l)] = Len(r)
        /\ \A i, j \in 0..Len(l) : i <= j => said[i] <= said[j]
        /\ \A k \in 1..Len(l) :
              IF l[k] = "request" THEN said[k] = said[k - 1]
              ELSE said[k] = said[k - 1] + 1 /\ r[said[k]] = l[k]
  BY DEF Hold
<1> DEFINE ll == Append(l, x)
           rr == IF x = "request" THEN r ELSE Append(r, x)
           sd == [k \in 0..Len(ll) |-> IF k <= Len(l) THEN said[k] ELSE Len(rr)]
<1>2. /\ Len(l) \in Nat /\ Len(r) \in Nat
      /\ Len(ll) = Len(l) + 1 /\ ll[Len(l) + 1] = x
      /\ \A i \in 1..Len(l) : ll[i] = l[i]
      /\ \A i \in 1..Len(r) : rr[i] = r[i]
  BY DEF Line
<1>3. IF x = "request" THEN Len(rr) = Len(r) ELSE Len(rr) = Len(r) + 1 /\ rr[Len(r) + 1] = x
  BY DEF Line
<1> HIDE DEF ll, rr
<1>4. sd \in [0..Len(ll) -> 0..Len(rr)] /\ sd[0] = 0 /\ sd[Len(ll)] = Len(rr)
  BY <1>1, <1>2, <1>3
<1>5. \A i, j \in 0..Len(ll) : i <= j => sd[i] <= sd[j]
  BY <1>1, <1>2, <1>3
<1>6. ASSUME NEW k \in 1..Len(ll)
      PROVE  IF ll[k] = "request" THEN sd[k] = sd[k - 1]
             ELSE sd[k] = sd[k - 1] + 1 /\ rr[sd[k]] = ll[k]
  <2>1. CASE k = Len(ll)
    BY <1>1, <1>2, <1>3, <2>1
  <2>2. CASE k # Len(ll)
    <3>1. /\ k \in 1..Len(l) /\ k - 1 \in 0..Len(l) /\ k \in 0..Len(l)
          /\ sd[k] = said[k] /\ sd[k - 1] = said[k - 1]
      BY <1>2, <2>2
    <3>2. ll[k] = l[k]
      BY <1>2, <3>1
    <3>3. CASE l[k] = "request"
      BY <1>1, <3>1, <3>2, <3>3
    <3>4. CASE l[k] # "request"
      <4>1. said[k] = said[k - 1] + 1 /\ r[said[k]] = l[k]
        BY <1>1, <3>1, <3>4
      <4>2. said[k] \in 1..Len(r)
        <5>1. said[k] \in 0..Len(r) /\ said[k - 1] \in 0..Len(r)
          BY <1>1, <3>1
        <5>2. QED
          BY <1>2, <4>1, <5>1
      <4>3. rr[said[k]] = r[said[k]]
        BY <1>2, <4>2
      <4>4. QED
        BY <3>1, <3>2, <3>4, <4>1, <4>3
    <3>5. QED
      BY <3>3, <3>4
  <2>3. QED
    BY <2>1, <2>2
<1> HIDE DEF sd
<1>7. QED
  BY <1>4, <1>5, <1>6 DEF Hold, ll, rr

\* Reading a line takes it from what is held; it is a message, or it is a request of the CLI and no
\* message is lost with it.
LEMMA HoldsAfterReading ==
    ASSUME NEW l \in Seq(Line), l # << >>, NEW r \in Seq(Message), Hold(l, r)
    PROVE  IF Head(l) = "request" THEN Hold(Tail(l), r)
           ELSE r # << >> /\ Head(r) = Head(l) /\ Hold(Tail(l), Tail(r))
<1>1. PICK said \in [0..Len(l) -> 0..Len(r)] :
        /\ said[0] = 0 /\ said[Len(l)] = Len(r)
        /\ \A i, j \in 0..Len(l) : i <= j => said[i] <= said[j]
        /\ \A k \in 1..Len(l) :
              IF l[k] = "request" THEN said[k] = said[k - 1]
              ELSE said[k] = said[k - 1] + 1 /\ r[said[k]] = l[k]
  BY DEF Hold
<1> DEFINE ll == Tail(l)
           rr == IF Head(l) = "request" THEN r ELSE Tail(r)
           sd == [k \in 0..Len(ll) |-> said[k + 1] - said[1]]
<1>2. /\ Len(l) \in Nat \ {0} /\ Len(r) \in Nat /\ Len(ll) = Len(l) - 1 /\ Head(l) = l[1]
      /\ \A i \in 1..Len(ll) : ll[i] = l[i + 1]
  OBVIOUS
<1>3. \A i \in 0..Len(l) : said[i] \in 0..Len(r)
  BY <1>1
<1>4. /\ said[1] = IF Head(l) = "request" THEN 0 ELSE 1
      /\ Head(l) # "request" => r # << >> /\ Head(r) = Head(l)
      /\ Len(rr) = Len(r) - said[1]
      /\ \A i \in 1..Len(rr) : rr[i] = r[i + said[1]]
  <2>1. 1 \in 1..Len(l) /\ 1 - 1 = 0 /\ said[1] \in 0..Len(r)
    BY <1>2, <1>3
  <2>2. CASE Head(l) = "request"
    BY <1>1, <1>2, <2>1, <2>2
  <2>3. CASE Head(l) # "request"
    <3>1. said[1] = 1 /\ r[1] = l[1] /\ Len(r) >= 1
      BY <1>1, <1>2, <2>1, <2>3
    <3>2. r # << >> /\ Head(r) = r[1] /\ rr = Tail(r)
      BY <3>1, <2>3
    <3>3. QED
      BY <1>2, <2>3, <3>1, <3>2
  <2>4. QED
    BY <2>2, <2>3
<1> HIDE DEF ll, rr
<1>5. \A k \in 0..Len(ll) : said[1] <= said[k + 1]
  BY <1>1, <1>2
<1>6. sd \in [0..Len(ll) -> 0..Len(rr)] /\ sd[0] = 0 /\ sd[Len(ll)] = Len(rr)
  <2>1. \A k \in 0..Len(ll) : k + 1 \in 0..Len(l)
    BY <1>2
  <2>2. said[1] \in 0..Len(r)
    BY <1>2, <1>3
  <2>3. \A k \in 0..Len(ll) : said[k + 1] - said[1] \in 0..(Len(r) - said[1])
    BY <1>2, <1>3, <1>5, <2>1, <2>2
  <2>4. sd \in [0..Len(ll) -> 0..Len(rr)]
    BY <1>4, <2>3
  <2>5. sd[0] = said[0 + 1] - said[1] /\ sd[Len(ll)] = said[Len(ll) + 1] - said[1]
    BY <1>2
  <2>6. sd[0] = 0 /\ sd[Len(ll)] = Len(rr)
    BY <1>1, <1>2, <1>4, <2>2, <2>5
  <2>7. QED
    BY <2>4, <2>6
<1>7. \A i, j \in 0..Len(ll) : i <= j => sd[i] <= sd[j]
  BY <1>1, <1>2, <1>3
<1>8. ASSUME NEW k \in 1..Len(ll)
      PROVE  IF ll[k] = "request" THEN sd[k] = sd[k - 1]
             ELSE sd[k] = sd[k - 1] + 1 /\ rr[sd[k]] = ll[k]
  <2>1. /\ k + 1 \in 1..Len(l) /\ k \in 1..Len(l) /\ (k + 1) - 1 = k /\ ll[k] = l[k + 1]
        /\ k - 1 \in 0..Len(ll) /\ k \in 0..Len(ll)
        /\ sd[k] = said[k + 1] - said[1] /\ sd[k - 1] = said[k] - said[1]
    BY <1>2
  <2>2. said[k] \in 0..Len(r) /\ said[k + 1] \in 0..Len(r) /\ said[1] \in 0..Len(r)
    BY <1>2, <1>3, <2>1
  <2>3. CASE l[k + 1] = "request"
    <3>1. said[k + 1] = said[k]
      BY <1>1, <2>1, <2>3
    <3>2. QED
      BY <2>1, <2>2, <2>3, <3>1
  <2>4. CASE l[k + 1] # "request"
    <3>1. said[k + 1] = said[k] + 1 /\ r[said[k + 1]] = l[k + 1]
      BY <1>1, <2>1, <2>4
    <3>2. sd[k] = sd[k - 1] + 1 /\ sd[k] + said[1] = said[k + 1]
      BY <2>1, <2>2, <3>1
    <3>3. sd[k] \in 0..Len(rr) /\ sd[k - 1] \in 0..Len(rr)
      BY <1>6, <2>1
    <3>4. sd[k] \in 1..Len(rr)
      BY <3>2, <3>3
    <3>5. QED
      BY <1>4, <2>1, <2>4, <3>1, <3>2, <3>4
  <2>5. QED
    BY <2>3, <2>4
<1> HIDE DEF sd
<1>9. Hold(ll, rr)
  BY <1>6, <1>7, <1>8 DEF Hold
<1>10. QED
  BY <1>4, <1>9 DEF ll, rr

---------------------------------------------------------------------------

\* SdkTypeOK in three parts.
StreamTypes ==
    /\ child \in {"runs", "failed", "closed"}
    /\ signalAborted \in BOOLEAN /\ exited \in BOOLEAN /\ readResolve \in BOOLEAN
    /\ isDone \in BOOLEAN /\ promptsDone \in BOOLEAN
    /\ lineReader \in {"reads", "asks", "ended"}
    /\ hasError \in Error \union {"none"}
    /\ consumer \in {"between", "waits", "handles", "told end", "returned"} \union Error
    /\ writer \in {"waits", "ended"}

MessageTypes ==
    /\ lines \in Seq(Line) /\ inputQueue \in Seq(Message)
    /\ printed \in Seq(Message) /\ got \in Seq(Message)

PromptTypes ==
    /\ prompts \in Seq(1..MaxPrompts) /\ stdin \in Seq(1..MaxPrompts)
    /\ promptsPushed \in 0..MaxPrompts

\* What the reader of the stream waits for, and what its end says of the rest.
StreamEnds ==
    /\ readResolve <=> consumer = "waits"
    /\ readResolve => inputQueue = << >>
    /\ exited => child = "closed"
    /\ isDone => consumer = "returned" \/ (lines = << >> /\ child = "closed")
    /\ consumer = "told end" => inputQueue = << >> /\ lines = << >> /\ child = "closed"

\* What was printed was handled, waits in the stream, or waits to be read, in this order.
InTransit ==
    \E rest \in Seq(Message) : printed = got \o (inputQueue \o rest) /\ Hold(lines, rest)

SdkInv == StreamTypes /\ MessageTypes /\ PromptTypes /\ StreamEnds /\ InTransit

\* At the start nothing is in transit.
LEMMA SdkInitInv == SdkInit => SdkInv
<1> SUFFICES ASSUME SdkInit PROVE SdkInv
  OBVIOUS
<1>1. StreamTypes /\ StreamEnds
  BY DEF SdkInit, StreamTypes, StreamEnds
<1>2. MessageTypes
  BY DEF SdkInit, MessageTypes
<1>3. PromptTypes
  BY SdkStreamAssumption DEF SdkInit, PromptTypes
<1>4. InTransit
  <2>1. << >> \in Seq(Message) /\ << >> = << >> \o (<< >> \o << >>)
    OBVIOUS
  <2>2. Hold(<< >>, << >>)
    BY <2>1, NothingHeld
  <2>3. QED
    BY <2>1, <2>2 DEF SdkInit, InTransit
<1>5. QED
  BY <1>1, <1>2, <1>3, <1>4 DEF SdkInv

\* No step gives a prompt or an answer a value of another kind.
LEMMA PromptTypesKept ==
    ASSUME PromptTypes, [SdkNext]_sdkVars
    PROVE  PromptTypes'
<1>1. CASE OnResult
  BY <1>1, SdkStreamAssumption DEF OnResult, PromptTypes, PushPrompt
<1>2. CASE WritePrompt
  <2>1. Head(prompts) \in 1..MaxPrompts /\ Tail(prompts) \in Seq(1..MaxPrompts)
    BY <1>2, HeadTailProperties DEF WritePrompt, HasNext, PromptTypes
  <2>2. stdin' \in Seq(1..MaxPrompts)
    <3>1. stdin \in Seq(1..MaxPrompts) /\ Append(stdin, Head(prompts)) \in Seq(1..MaxPrompts)
      BY <2>1, AppendProperties DEF PromptTypes
    <3>2. stdin' = stdin \/ stdin' = Append(stdin, Head(prompts))
      BY <1>2 DEF WritePrompt
    <3>3. QED
      BY <3>1, <3>2
  <2>3. prompts' \in Seq(1..MaxPrompts) /\ UNCHANGED promptsPushed
    BY <1>2, <2>1 DEF WritePrompt
  <2>4. QED
    BY <2>2, <2>3 DEF PromptTypes
<1>3. CASE UNCHANGED <<prompts, stdin, promptsPushed>>
  BY <1>3 DEF PromptTypes
<1>4. QED
  BY <1>1, <1>2, <1>3
     DEF SdkNext, Prints, AbortSignal, SpawnFails, Closes, ReadLine, Answered, ReaderEnds, NextMessage,
         Handles, OnText, NoNextPrompt, OnRefusedResult, Leaves, EndStdin, promptQueueVars, sdkVars

\* No step gives a message, in any of the lists, a value of another kind.
LEMMA MessageTypesKept ==
    ASSUME MessageTypes, [SdkNext]_sdkVars
    PROVE  MessageTypes'
<1>1. ASSUME NEW line \in Line, Prints(line) PROVE MessageTypes'
  BY <1>1 DEF Prints, Line, MessageTypes, streamVars
<1>2. CASE ReadLine
  <2>1. Head(lines) \in Line /\ Tail(lines) \in Seq(Line)
    BY <1>2 DEF ReadLine, MessageTypes
  <2>2. CASE Head(lines) = "request"
    BY <1>2, <2>1, <2>2 DEF ReadLine, MessageTypes
  <2>3. CASE Head(lines) # "request"
    <3>1. Head(lines) \in Message
      BY <2>1, <2>3 DEF Line
    <3>2. Append(got, Head(lines)) \in Seq(Message) /\ Append(inputQueue, Head(lines)) \in Seq(Message)
      BY <3>1, AppendProperties DEF MessageTypes
    <3>3. got' \in Seq(Message) /\ inputQueue' \in Seq(Message)
      BY <1>2, <2>3, <3>2 DEF ReadLine, Enqueued, MessageTypes
    <3>4. QED
      BY <1>2, <2>1, <3>3 DEF ReadLine, MessageTypes
  <2>4. QED
    BY <2>2, <2>3
<1>3. CASE NextMessage
  <2>1. CASE inputQueue # << >>
    <3>1. Head(inputQueue) \in Message /\ Tail(inputQueue) \in Seq(Message)
      BY <2>1 DEF MessageTypes
    <3>2. Append(got, Head(inputQueue)) \in Seq(Message)
      BY <3>1, AppendProperties DEF MessageTypes
    <3>3. /\ got' = Append(got, Head(inputQueue)) /\ inputQueue' = Tail(inputQueue)
          /\ lines' = lines /\ printed' = printed
      BY <1>3, <2>1 DEF NextMessage, outVars
    <3>4. QED
      BY <3>1, <3>2, <3>3 DEF MessageTypes
  <2>2. CASE inputQueue = << >>
    BY <1>3, <2>2 DEF NextMessage, MessageTypes, outVars
  <2>3. QED
    BY <2>1, <2>2
<1>4. CASE UNCHANGED <<lines, inputQueue, printed, got>>
  BY <1>4 DEF MessageTypes
<1>5. QED
  BY <1>1, <1>2, <1>3, <1>4
     DEF SdkNext, AbortSignal, SpawnFails, Closes, Answered, ReaderEnds, WritePrompt, EndStdin, Handles,
         OnText, OnResult, NoNextPrompt, OnRefusedResult, Leaves, outVars, streamVars, sdkVars, Line

\* The errors that the end of the process may raise.
LEMMA ErrorsRaised ==
    ASSUME NEW code \in {0, 1}
    PROVE  LET errors == (IF signalAborted THEN <<"abort">> ELSE <<>>)
                         \o (IF code # 0 THEN <<"exit">> ELSE <<>>)
           IN  errors = << >> \/ (Last(errors) \in Error /\ Head(errors) \in Error)
BY DEF Error, Last

\* The reader reads, and has an end to report, only while the stream is there.
LEMMA StreamKept ==
    ASSUME StreamTypes, MessageTypes, StreamEnds, [SdkNext]_sdkVars
    PROVE  StreamTypes' /\ StreamEnds'
<1> USE DEF StreamTypes, StreamEnds, streamVars, promptQueueVars, outVars
<1>1. ASSUME NEW line \in Line, Prints(line) PROVE StreamTypes' /\ StreamEnds'
  BY <1>1 DEF Prints
<1>2. CASE AbortSignal
  BY <1>2 DEF AbortSignal, Fails, Error
<1>3. CASE SpawnFails
  BY <1>3 DEF SpawnFails, Fails, Error
<1>4. ASSUME NEW code \in {0, 1}, Closes(code) PROVE StreamTypes' /\ StreamEnds'
  <2> DEFINE errors == (IF signalAborted THEN <<"abort">> ELSE <<>>)
                       \o (IF code # 0 THEN <<"exit">> ELSE <<>>)
  <2>1. errors = << >> \/ (Last(errors) \in Error /\ Head(errors) \in Error)
    BY ErrorsRaised
  <2>2. IF errors = << >> THEN UNCHANGED <<hasError, readResolve, consumer>>
        ELSE /\ hasError' = Last(errors) /\ readResolve' = FALSE
             /\ consumer' = IF readResolve THEN Head(errors) ELSE consumer
    BY <1>4 DEF Closes
  <2> HIDE DEF errors
  <2>3. child' = "closed" /\ exited' \in BOOLEAN
    BY <1>4 DEF Closes
  <2>4. UNCHANGED <<signalAborted, lines, lineReader, inputQueue, isDone>> /\ UNCHANGED <<promptsDone, writer>>
    BY <1>4 DEF Closes
  <2>5. StreamTypes'
    BY <2>1, <2>2, <2>3, <2>4
  <2>6. StreamEnds'
    BY <2>1, <2>2, <2>3, <2>4 DEF Error
  <2>7. QED
    BY <2>5, <2>6
<1>5. CASE ReadLine
  BY <1>5 DEF ReadLine, Enqueued
<1>6. CASE Answered
  BY <1>6 DEF Answered
<1>7. CASE ReaderEnds
  BY <1>7 DEF ReaderEnds, Done
<1>8. CASE NextMessage
  BY <1>8 DEF NextMessage, Error
<1>9. CASE OnText
  BY <1>9 DEF OnText, Handled
<1>10. CASE OnResult
  BY <1>10 DEF OnResult, Handled
<1>11. CASE NoNextPrompt
  BY <1>11 DEF NoNextPrompt, Leaves, EndPrompts, Handled
<1>12. CASE OnRefusedResult
  BY <1>12 DEF OnRefusedResult, Leaves, Handled
<1>13. CASE WritePrompt
  BY <1>13 DEF WritePrompt, EndPrompts
<1>14. CASE EndStdin
  BY <1>14 DEF EndStdin
<1>15. CASE UNCHANGED sdkVars
  <2>1. StreamTypes'
    BY <1>15 DEF sdkVars
  <2>2. StreamEnds'
    BY <1>15 DEF sdkVars
  <2>3. QED
    BY <2>1, <2>2
<1>16. QED
  BY <1>1, <1>2, <1>3, <1>4, <1>5, <1>6, <1>7, <1>8, <1>9, <1>10, <1>11, <1>12, <1>13, <1>14, <1>15
     DEF SdkNext, Handles, Line

\* The head of a sequence moves to the end of the one before it.
LEMMA MoveOne ==
    ASSUME NEW S, NEW s \in Seq(S), NEW t \in Seq(S), t # << >>
    PROVE  Append(s, Head(t)) \o Tail(t) = s \o t
  OBVIOUS

\* Appending to the second of two sequences appends to both.
LEMMA AppendLast ==
    ASSUME NEW S, NEW s \in Seq(S), NEW t \in Seq(S), NEW x \in S
    PROVE  s \o Append(t, x) = Append(s \o t, x)
  OBVIOUS

\* What the CLI has printed is what has been handled, read ahead and is still to be read: every step
\* moves messages along this line, and only an error cuts it.
LEMMA InTransitKept ==
    ASSUME MessageTypes, StreamEnds, InTransit, [SdkNext]_sdkVars
    PROVE  InTransit'
<1>1. PICK rest \in Seq(Message) : printed = got \o (inputQueue \o rest) /\ Hold(lines, rest)
  BY DEF InTransit
<1>2. /\ lines \in Seq(Line) /\ inputQueue \in Seq(Message) /\ got \in Seq(Message)
      /\ inputQueue \o rest \in Seq(Message)
  BY DEF MessageTypes
<1>3. ASSUME NEW line \in Line, Prints(line) PROVE InTransit'
  <2>1. CASE line = "request"
    <3>1. Hold(Append(lines, line), rest)
      BY <1>1, <1>2, <2>1, HoldsPrinted
    <3>2. QED
      BY <1>1, <1>3, <2>1, <3>1 DEF InTransit, Prints, streamVars
  <2>2. CASE line # "request"
    <3>1. line \in Message /\ Append(rest, line) \in Seq(Message)
      BY <2>2 DEF Line
    <3>2. Hold(Append(lines, line), Append(rest, line))
      BY <1>1, <1>2, <2>2, HoldsPrinted
    <3>3. Append(printed, line) = got \o (inputQueue \o Append(rest, line))
      <4>1. inputQueue \o Append(rest, line) = Append(inputQueue \o rest, line)
        BY <1>2, <3>1, AppendLast
      <4>2. got \o Append(inputQueue \o rest, line) = Append(got \o (inputQueue \o rest), line)
        BY <1>2, <3>1, AppendLast
      <4>3. QED
        BY <1>1, <4>1, <4>2
    <3>4. QED
      BY <1>3, <2>2, <3>1, <3>2, <3>3 DEF InTransit, Prints, streamVars
  <2>3. QED
    BY <2>1, <2>2
<1>4. CASE ReadLine
  <2>1. CASE Head(lines) = "request"
    BY <1>1, <1>2, <1>4, <2>1, HoldsAfterReading DEF InTransit, ReadLine
  <2>2. CASE Head(lines) # "request"
    <3>1. /\ rest # << >> /\ Head(rest) = Head(lines) /\ Hold(Tail(lines), Tail(rest))
          /\ Tail(rest) \in Seq(Message)
      BY <1>1, <1>2, <1>4, <2>2, HoldsAfterReading DEF ReadLine
    <3>2. CASE readResolve
      <4>1. inputQueue = << >>
        BY <3>2 DEF StreamEnds
      <4>2. printed = Append(got, Head(rest)) \o (inputQueue \o Tail(rest))
        <5>1. << >> \o rest = rest /\ << >> \o Tail(rest) = Tail(rest)
          BY <1>2, <3>1
        <5>2. Append(got, Head(rest)) \o Tail(rest) = got \o rest
          BY <1>1, <1>2, <3>1, MoveOne
        <5>3. inputQueue \o rest = rest /\ inputQueue \o Tail(rest) = Tail(rest)
          BY <4>1, <5>1, Zenon
        <5>4. QED
          BY <1>1, <1>2, <5>2, <5>3, Zenon
      <4>3. QED
        BY <1>4, <2>2, <3>1, <3>2, <4>2 DEF InTransit, ReadLine, Enqueued
    <3>3. CASE ~readResolve
      <4>1. printed = got \o (Append(inputQueue, Head(rest)) \o Tail(rest))
        BY <1>1, <1>2, <3>1, MoveOne
      <4>2. QED
        BY <1>4, <2>2, <3>1, <3>3, <4>1 DEF InTransit, ReadLine, Enqueued
    <3>4. QED
      BY <3>2, <3>3
  <2>3. QED
    BY <2>1, <2>2
<1>5. CASE NextMessage
  <2>1. CASE inputQueue # << >>
    <3>1. /\ Tail(inputQueue) \in Seq(Message)
          /\ inputQueue \o rest # << >> /\ Head(inputQueue \o rest) = Head(inputQueue)
          /\ Tail(inputQueue \o rest) = Tail(inputQueue) \o rest
      BY <1>2, <2>1
    <3>2. printed = Append(got, Head(inputQueue)) \o (Tail(inputQueue) \o rest)
      BY <1>1, <1>2, <3>1, MoveOne
    <3>3. QED
      BY <1>1, <1>5, <2>1, <3>2 DEF InTransit, NextMessage, outVars
  <2>2. CASE inputQueue = << >>
    BY <1>1, <1>5, <2>2 DEF InTransit, NextMessage, outVars
  <2>3. QED
    BY <2>1, <2>2
<1>6. CASE UNCHANGED <<lines, printed, got, inputQueue>>
  BY <1>1, <1>6 DEF InTransit
<1>7. CASE \/ AbortSignal \/ SpawnFails \/ (\E code \in {0, 1} : Closes(code))
           \/ Answered \/ ReaderEnds \/ WritePrompt \/ EndStdin \/ Handles \/ UNCHANGED sdkVars
  BY <1>6, <1>7
     DEF AbortSignal, SpawnFails, Closes, Answered, ReaderEnds, WritePrompt, EndStdin, Handles,
         OnText, OnResult, NoNextPrompt, OnRefusedResult, Leaves, outVars, streamVars, sdkVars
<1>8. QED
  BY <1>3, <1>4, <1>5, <1>7 DEF SdkNext, Line

\* The invariant of the SDK client.
LEMMA SdkInvariance == SdkSpec => []SdkInv
<1>1. SdkInv /\ [SdkNext]_sdkVars => SdkInv'
  BY PromptTypesKept, MessageTypesKept, StreamKept, InTransitKept DEF SdkInv
<1>2. QED
  BY SdkInitInv, <1>1, PTL DEF SdkSpec

\* The SDK client's state keeps its types (query.ts, stream.ts).
THEOREM SdkTypeCorrect == SdkSpec => []SdkTypeOK
<1>1. SdkInv => SdkTypeOK
  BY DEF SdkInv, StreamTypes, MessageTypes, PromptTypes, SdkTypeOK, Line
<1>2. QED
  BY <1>1, SdkInvariance, PTL

\* A sequence is a prefix of any sequence that continues it.
LEMMA PrefixOfConcat ==
    ASSUME NEW S, NEW s \in Seq(S), NEW t \in Seq(S)
    PROVE  IsPrefix(s, s \o t)
<1>1. CASE s = << >>
  BY <1>1 DEF IsPrefix
<1>2. CASE s # << >>
  BY <1>2, SubSeqOfConcat1 DEF IsPrefix
<1>3. QED
  BY <1>1, <1>2

\* However the reader, the iteration and the end of the process interleave: what claudeRemote handles
\* is a prefix of what Claude printed, and told that the process ended well it has handled all of it
\* (Query.readMessages and Stream.next).
THEOREM EverythingSaidIsHandled == SdkSpec => []NothingIsCutShort
<1>1. ASSUME SdkInv PROVE NothingIsCutShort
  <2>1. PICK rest \in Seq(Message) : printed = got \o (inputQueue \o rest) /\ Hold(lines, rest)
    BY <1>1 DEF SdkInv, InTransit
  <2>2. inputQueue \in Seq(Message) /\ got \in Seq(Message) /\ inputQueue \o rest \in Seq(Message)
    BY <1>1 DEF SdkInv, MessageTypes
  <2>3. IsPrefix(got, printed)
    BY <2>1, <2>2, PrefixOfConcat
  <2>4. ASSUME consumer = "told end" PROVE got = printed
    <3>1. inputQueue = << >> /\ rest = << >>
      BY <1>1, <2>1, <2>4, NothingHeld DEF SdkInv, StreamEnds
    <3>2. QED
      BY <2>1, <2>2, <3>1
  <2>5. QED
    BY <2>3, <2>4 DEF NothingIsCutShort
<1>2. QED
  BY <1>1, SdkInvariance, PTL

---------------------------------------------------------------------------
(* SessionWire. A name on its way to the server, in a buffer or in         *)
(* transit, is the name of a handler; while the socket is up, every        *)
(* handler is registered or in transit.                                    *)

AnyMethod == Common \union Method
ServerPacket == [kind : {"message", "ping", "answer", "register"}, what : Nat \union AnyMethod]
Request == [method : AnyMethod, n : Nat]
ClientPacket == [kind : {"prompt", "pong"}, what : Nat] \union [kind : {"call"}, what : Request]

\* The methods that the packets of q register.
Named(q) == {q[i].what : i \in {j \in DOMAIN q : q[j].kind = "register"}}

\* The methods that a queue registers, from the set of its packets.
LEMMA NamedInSet ==
    ASSUME NEW q \in Seq(ServerPacket)
    PROVE  Named(q) = {p.what : p \in {r \in ToSet(q) : r.kind = "register"}}
BY DEF Named, ToSet

\* An empty queue registers nothing.
LEMMA NamedNone == Named(<< >>) = {}
BY DEF Named

\* Two queues, one after the other, register what each registers.
LEMMA NamedConcat ==
    ASSUME NEW q \in Seq(ServerPacket), NEW r \in Seq(ServerPacket)
    PROVE  q \o r \in Seq(ServerPacket) /\ Named(q \o r) = Named(q) \union Named(r)
<1>1. /\ q \o r \in Seq(ServerPacket) /\ Len(q \o r) = Len(q) + Len(r)
      /\ \A i \in 1..(Len(q) + Len(r)) : (q \o r)[i] = IF i <= Len(q) THEN q[i] ELSE r[i - Len(q)]
  BY ConcatProperties
<1>2. Len(q) \in Nat /\ Len(r) \in Nat /\ DOMAIN q = 1..Len(q) /\ DOMAIN r = 1..Len(r)
      /\ DOMAIN (q \o r) = 1..(Len(q) + Len(r))
  BY <1>1
<1>3. \A m \in Named(q \o r) : m \in Named(q) \union Named(r)
  BY <1>1, <1>2 DEF Named
<1>4. \A m \in Named(q) : m \in Named(q \o r)
  BY <1>1, <1>2 DEF Named
<1>5. ASSUME NEW m \in Named(r) PROVE m \in Named(q \o r)
  <2>1. PICK i \in 1..Len(r) : r[i].kind = "register" /\ r[i].what = m
    BY <1>2 DEF Named
  <2>2. /\ i + Len(q) \in 1..(Len(q) + Len(r)) /\ ~(i + Len(q) <= Len(q))
        /\ (i + Len(q)) - Len(q) = i
    BY <1>2
  <2>3. (q \o r)[i + Len(q)] = r[i]
    BY <1>1, <2>2
  <2>4. QED
    BY <1>2, <2>1, <2>2, <2>3 DEF Named
<1>6. QED
  BY <1>1, <1>3, <1>4, <1>5

\* What a packet taken from a queue leaves registered by the rest.
LEMMA NamedTail ==
    ASSUME NEW q \in Seq(ServerPacket), q # << >>
    PROVE  /\ Tail(q) \in Seq(ServerPacket) /\ Head(q) \in ServerPacket
           /\ Named(q) = Named(Tail(q)) \union
                           (IF Head(q).kind = "register" THEN {Head(q).what} ELSE {})
<1>1. /\ Tail(q) \in Seq(ServerPacket) /\ Head(q) \in ServerPacket /\ Head(q) = q[1]
      /\ Len(q) \in Nat \ {0} /\ DOMAIN q = 1..Len(q) /\ DOMAIN Tail(q) = 1..(Len(q) - 1)
      /\ \A i \in 1..(Len(q) - 1) : Tail(q)[i] = q[i + 1]
  OBVIOUS
<1>2. ASSUME NEW m \in Named(q), m \notin Named(Tail(q))
      PROVE  Head(q).kind = "register" /\ m = Head(q).what
  <2>1. PICK i \in 1..Len(q) : q[i].kind = "register" /\ q[i].what = m
    BY <1>1 DEF Named
  <2>2. CASE i = 1
    BY <1>1, <2>1, <2>2
  <2>3. CASE i # 1
    <3>1. i - 1 \in 1..(Len(q) - 1) /\ (i - 1) + 1 = i
      BY <1>1, <2>3
    <3>2. Tail(q)[i - 1] = q[i]
      BY <1>1, <3>1
    <3>3. QED
      BY <1>1, <1>2, <2>1, <3>1, <3>2 DEF Named
  <2>4. QED
    BY <2>2, <2>3
<1>3. ASSUME NEW m \in Named(Tail(q)) PROVE m \in Named(q)
  <2>1. PICK i \in 1..(Len(q) - 1) : Tail(q)[i].kind = "register" /\ Tail(q)[i].what = m
    BY <1>1 DEF Named
  <2>2. i + 1 \in 1..Len(q) /\ Tail(q)[i] = q[i + 1]
    BY <1>1
  <2>3. QED
    BY <1>1, <2>1, <2>2 DEF Named
<1>4. Head(q).kind = "register" => Head(q).what \in Named(q)
  <2>1. 1 \in DOMAIN q
    BY <1>1
  <2>2. QED
    BY <1>1, <2>1 DEF Named
<1>5. QED
  BY <1>1, <1>2, <1>3, <1>4

\* A packet that is no registration adds none.
LEMMA NamedOther ==
    ASSUME NEW k \in {"message", "ping", "answer"}, NEW n \in Nat
    PROVE  <<Packet(k, n)>> \in Seq(ServerPacket) /\ Named(<<Packet(k, n)>>) = {}
<1>1. Packet(k, n) \in ServerPacket /\ Packet(k, n).kind # "register"
  BY DEF Packet, ServerPacket
<1>2. QED
  BY <1>1 DEF Named

\* SetToSeq goes through all of a finite set, and so do the registrations.
LEMMA NamedRegistrations ==
    ASSUME NEW S \in SUBSET AnyMethod, IsFiniteSet(S)
    PROVE  Registrations(S) \in Seq(ServerPacket) /\ Named(Registrations(S)) = S
<1> DEFINE n == Cardinality(S)
           f == SetToSeq(S)
<1>1. n \in Nat /\ \E g \in [1..n -> S] : IsInjective(g)
  BY FS_CardinalityType DEF ExistsBijection, Bijection, Injection
<1>2. f \in [1..n -> S] /\ IsInjective(f)
  BY <1>1 DEF SetToSeq
<1>3. f \in Surjection(1..n, S)
  <2>1. f \in Injection(1..n, S)
    BY <1>2 DEF Injection
  <2>2. Cardinality(1..n) = n
    BY <1>1, FS_Interval
  <2>3. QED
    BY <2>1, <2>2, FS_Injection
<1> HIDE DEF f, n
<1>4. Registrations(S) = [i \in 1..n |-> Packet("register", f[i])]
  BY DEF Registrations, f, n
<1>5. \A i \in 1..n : /\ Packet("register", f[i]) \in ServerPacket
                      /\ Packet("register", f[i]).kind = "register"
                      /\ Packet("register", f[i]).what = f[i]
  BY <1>2 DEF Packet, ServerPacket
<1>6. Registrations(S) \in Seq(ServerPacket)
  BY <1>1, <1>4, <1>5
<1>7. Named(Registrations(S)) = {f[i] : i \in 1..n}
  BY <1>4, <1>5 DEF Named
<1>8. QED
  BY <1>2, <1>3, <1>6, <1>7 DEF Surjection

---------------------------------------------------------------------------

\* What is on its way.
WirePackets ==
    /\ sendBuffer \in Seq(ServerPacket) /\ toServer \in Seq(ServerPacket)
    /\ toClient \in Seq(ClientPacket)
    /\ handling \subseteq Request
    /\ events \in 0..MaxEvents

WirePrompts ==
    /\ pendingMessages \in Seq(Nat) /\ arrived \in Seq(Nat) /\ given \in Seq(Nat)
    /\ flushing \in {"no", "waiting", "answered", "late"}

\* Only a method that has a handler is registered, or on its way to be.
NamesAreHandled ==
    /\ Common \subseteq handlers /\ handlers \subseteq AnyMethod /\ IsFiniteSet(handlers)
    /\ registered \union Named(toServer) \union Named(sendBuffer) \subseteq handlers

\* And while the session is connected, all of them are.
HandlersAreKnown ==
    /\ socket \in {"down", "up", "closed"}
    /\ hasSocket = (socket = "up")
    /\ socket = "up" => sendBuffer = << >> /\ handlers \subseteq registered \union Named(toServer)

WireInv == WirePackets /\ WirePrompts /\ NamesAreHandled /\ HandlersAreKnown /\ HeardInOrder

\* emit keeps all of this: what it sends names handlers, and every new one.
LEMMA EmitKeeps ==
    ASSUME WirePackets, NamesAreHandled, HandlersAreKnown,
           NEW ps \in Seq(ServerPacket), Emit(ps),
           handlers \union Named(ps) \subseteq handlers', handlers' \subseteq AnyMethod,
           IsFiniteSet(handlers'), socket = "up" => handlers' \subseteq handlers \union Named(ps),
           UNCHANGED <<socket, hasSocket, registered>>
    PROVE  /\ sendBuffer' \in Seq(ServerPacket) /\ toServer' \in Seq(ServerPacket)
           /\ NamesAreHandled' /\ HandlersAreKnown'
<1> USE DEF WirePackets, NamesAreHandled, HandlersAreKnown
<1>1. CASE socket = "up"
  <2>1. toServer' = toServer \o ps /\ sendBuffer' = sendBuffer
    BY <1>1 DEF Emit
  <2>2. toServer' \in Seq(ServerPacket) /\ Named(toServer') = Named(toServer) \union Named(ps)
    BY <2>1, NamedConcat
  <2>3. NamesAreHandled'
    BY <2>1, <2>2
  <2>4. HandlersAreKnown'
    BY <1>1, <2>1, <2>2
  <2>5. QED
    BY <2>1, <2>2, <2>3, <2>4
<1>2. CASE socket = "down"
  <2>1. sendBuffer' = sendBuffer \o ps /\ toServer' = toServer
    BY <1>2 DEF Emit
  <2>2. sendBuffer' \in Seq(ServerPacket) /\ Named(sendBuffer') = Named(sendBuffer) \union Named(ps)
    BY <2>1, NamedConcat
  <2>3. QED
    BY <1>2, <2>1, <2>2 DEF Named
<1>3. CASE socket = "closed"
  <2>1. sendBuffer' = sendBuffer /\ toServer' = toServer
    BY <1>3 DEF Emit
  <2>2. QED
    BY <1>3, <2>1 DEF Named
<1>4. QED
  BY <1>1, <1>2, <1>3

\* emit of any other packet adds no name.
LEMMA EmitOther ==
    ASSUME WirePackets, NamesAreHandled, HandlersAreKnown,
           NEW k \in {"message", "ping", "answer"}, NEW n \in Nat, Emit(<<Packet(k, n)>>),
           UNCHANGED <<socket, hasSocket, registered, handlers>>
    PROVE  /\ sendBuffer' \in Seq(ServerPacket) /\ toServer' \in Seq(ServerPacket)
           /\ NamesAreHandled' /\ HandlersAreKnown'
BY NamedOther, EmitKeeps DEF NamesAreHandled

---------------------------------------------------------------------------

\* At the start nothing is sent and nothing is heard.
LEMMA WireInitInv == WireInit => WireInv
<1> SUFFICES ASSUME WireInit PROVE WireInv
  OBVIOUS
<1>1. Named(<< >>) = {}
  BY NamedNone
<1>2. WirePackets /\ WirePrompts /\ HeardInOrder
  <2>1. WirePackets
    BY SessionWireAssumption DEF WireInit, WirePackets
  <2>2. WirePrompts
    BY DEF WireInit, WirePrompts
  <2>3. << >> \o << >> = << >>
    OBVIOUS
  <2>4. QED
    BY <2>1, <2>2, <2>3 DEF WireInit, HeardInOrder
<1>3. NamesAreHandled /\ HandlersAreKnown
  BY <1>1, SessionWireAssumption DEF WireInit, NamesAreHandled, HandlersAreKnown, AnyMethod
<1>4. QED
  BY <1>2, <1>3 DEF WireInv

\* Sending, and answering.
LEMMA SendingKeepsInv ==
    ASSUME WireInv,
           \/ SendMessage \/ SendIfConnected \/ Flush \/ FlushLate \/ CloseSocket
           \/ \E r \in handling : HandlerReturns(r)
    PROVE  WireInv'
<1> USE SessionWireAssumption DEF WireInv
<1>1. CASE SendMessage \/ SendIfConnected
  <2>1. /\ Event /\ Emit(<<Packet("message", events')>>)
        /\ UNCHANGED <<socket, toClient, registered, rpcVars, promptVars, flushing>>
    BY <1>1 DEF SendMessage, SendIfConnected
  <2>2. events' \in 0..MaxEvents /\ events' \in Nat
    BY <2>1, SessionWireAssumption DEF Event, WirePackets
  <2>3. /\ sendBuffer' \in Seq(ServerPacket) /\ toServer' \in Seq(ServerPacket)
        /\ NamesAreHandled' /\ HandlersAreKnown'
    BY <2>1, <2>2, EmitOther DEF rpcVars
  <2>4. WirePackets' /\ WirePrompts' /\ HeardInOrder'
    BY <2>1, <2>2, <2>3 DEF WirePackets, WirePrompts, HeardInOrder, rpcVars, promptVars
  <2>5. QED
    BY <2>3, <2>4
<1>2. CASE Flush
  <2>1. /\ sendBuffer' \in Seq(ServerPacket) /\ toServer' \in Seq(ServerPacket)
        /\ NamesAreHandled' /\ HandlersAreKnown'
    BY <1>2, EmitOther DEF Flush, rpcVars
  <2>2. WirePackets' /\ WirePrompts' /\ HeardInOrder'
    BY <1>2, <2>1 DEF Flush, WirePackets, WirePrompts, HeardInOrder, rpcVars, promptVars
  <2>3. QED
    BY <2>1, <2>2
<1>3. CASE FlushLate
  BY <1>3 DEF FlushLate, WirePackets, WirePrompts, HeardInOrder, NamesAreHandled, HandlersAreKnown,
              connectionVars, rpcVars, promptVars, Named
<1>4. CASE CloseSocket
  <2>1. WirePackets' /\ WirePrompts' /\ HeardInOrder'
    BY <1>4 DEF CloseSocket, WirePackets, WirePrompts, HeardInOrder, promptVars
  <2>2. NamesAreHandled'
    BY <1>4, NamedNone DEF CloseSocket, NamesAreHandled
  <2>3. HandlersAreKnown'
    BY <1>4 DEF CloseSocket, HandlersAreKnown
  <2>4. QED
    BY <2>1, <2>2, <2>3
<1>5. ASSUME NEW r \in handling, HandlerReturns(r) PROVE WireInv'
  <2>1. r.n \in Nat
    BY DEF WirePackets, Request
  <2>2. /\ sendBuffer' \in Seq(ServerPacket) /\ toServer' \in Seq(ServerPacket)
        /\ NamesAreHandled' /\ HandlersAreKnown'
    BY <1>5, <2>1, EmitOther DEF HandlerReturns
  <2>3. WirePackets' /\ WirePrompts' /\ HeardInOrder'
    BY <1>5, <2>2 DEF HandlerReturns, WirePackets, WirePrompts, HeardInOrder, promptVars
  <2>4. QED
    BY <2>2, <2>3
<1>6. QED
  BY <1>1, <1>2, <1>3, <1>4, <1>5

\* Registering, connecting and losing the connection.
LEMMA ConnectionKeepsInv ==
    ASSUME WireInv,
           \/ \E m \in Method : RegisterHandler(m)
           \/ Connected \/ Disconnected \/ ServerReceives
    PROVE  WireInv'
<1> USE SessionWireAssumption DEF WireInv
<1>1. ASSUME NEW m \in Method, RegisterHandler(m) PROVE WireInv'
  <2>1. /\ handlers' = handlers \union {m} /\ IsFiniteSet(handlers') /\ handlers' \subseteq AnyMethod
        /\ {m} \in SUBSET AnyMethod /\ IsFiniteSet({m})
    BY <1>1, FS_AddElement, FS_Singleton DEF RegisterHandler, NamesAreHandled, AnyMethod
  <2>2. /\ sendBuffer' \in Seq(ServerPacket) /\ toServer' \in Seq(ServerPacket)
        /\ NamesAreHandled' /\ HandlersAreKnown'
    <3>1. CASE hasSocket
      <4>1. Registrations({m}) \in Seq(ServerPacket) /\ Named(Registrations({m})) = {m}
        BY <2>1, NamedRegistrations
      <4>2. Emit(Registrations({m}))
        BY <1>1, <3>1 DEF RegisterHandler
      <4>3. QED
        BY <1>1, <2>1, <4>1, <4>2, EmitKeeps DEF RegisterHandler
    <3>2. CASE ~hasSocket
      <4>1. UNCHANGED <<sendBuffer, toServer, socket, hasSocket, registered>>
        BY <1>1, <3>2 DEF RegisterHandler
      <4>2. NamesAreHandled'
        BY <2>1, <4>1 DEF NamesAreHandled
      <4>3. HandlersAreKnown'
        BY <3>2, <4>1 DEF HandlersAreKnown
      <4>4. QED
        BY <4>1, <4>2, <4>3 DEF WirePackets
    <3>3. QED
      BY <3>1, <3>2 DEF HandlersAreKnown
  <2>3. WirePackets' /\ WirePrompts' /\ HeardInOrder'
    BY <1>1, <2>2 DEF RegisterHandler, Event, WirePackets, WirePrompts, HeardInOrder, promptVars
  <2>4. QED
    BY <2>2, <2>3
<1>2. CASE Connected
  <2>1. Registrations(handlers) \in Seq(ServerPacket) /\ Named(Registrations(handlers)) = handlers
    BY NamedRegistrations DEF NamesAreHandled
  <2>2. toServer' \in Seq(ServerPacket) /\ Named(toServer') = Named(sendBuffer) \union handlers
    BY <1>2, <2>1, NamedConcat DEF Connected, ConnectionAnnounces, WirePackets
  <2>3. sendBuffer' = << >> /\ Named(sendBuffer') = {}
    BY <1>2 DEF Connected, Named
  <2>4. NamesAreHandled' /\ HandlersAreKnown'
    BY <1>2, <2>2, <2>3 DEF Connected, NamesAreHandled, HandlersAreKnown
  <2>5. WirePackets' /\ WirePrompts' /\ HeardInOrder'
    BY <1>2, <2>2, <2>3 DEF Connected, WirePackets, WirePrompts, HeardInOrder, promptVars
  <2>6. QED
    BY <2>4, <2>5
<1>3. CASE Disconnected
  <2>1. WirePackets' /\ WirePrompts' /\ HeardInOrder'
    BY <1>3 DEF Disconnected, Event, WirePackets, WirePrompts, HeardInOrder, promptVars
  <2>2. NamesAreHandled'
    BY <1>3, NamedNone DEF Disconnected, NamesAreHandled
  <2>3. HandlersAreKnown'
    BY <1>3 DEF Disconnected, HandlersAreKnown
  <2>4. QED
    BY <2>1, <2>2, <2>3
<1>4. CASE ServerReceives
  <2>1. /\ Tail(toServer) \in Seq(ServerPacket) /\ Head(toServer) \in ServerPacket
        /\ Named(toServer) = Named(Tail(toServer)) \union
              (IF Head(toServer).kind = "register" THEN {Head(toServer).what} ELSE {})
    BY <1>4, NamedTail DEF ServerReceives, WirePackets
  <2>2. registered' = IF Head(toServer).kind = "register" THEN registered \union {Head(toServer).what}
                      ELSE registered
    BY <1>4 DEF ServerReceives
  <2>3. NamesAreHandled' /\ HandlersAreKnown'
    <3>1. /\ toServer' = Tail(toServer) /\ UNCHANGED <<socket, hasSocket, sendBuffer, handlers>>
      BY <1>4 DEF ServerReceives, rpcVars
    <3>2. NamesAreHandled'
      BY <2>1, <2>2, <3>1 DEF NamesAreHandled
    <3>3. HandlersAreKnown'
      BY <2>1, <2>2, <3>1 DEF HandlersAreKnown
    <3>4. QED
      BY <3>2, <3>3
  <2>4. toClient' \in Seq(ClientPacket)
    <3>1. Packet("pong", 0) \in ClientPacket
      BY DEF Packet, ClientPacket
    <3>2. QED
      BY <1>4, <3>1 DEF ServerReceives, WirePackets
  <2>5. WirePackets' /\ WirePrompts' /\ HeardInOrder'
    BY <1>4, <2>1, <2>4 DEF ServerReceives, WirePackets, WirePrompts, HeardInOrder, rpcVars, promptVars
  <2>6. QED
    BY <2>3, <2>5
<1>5. QED
  BY <1>1, <1>2, <1>3, <1>4

\* What the devices do.
LEMMA DevicesKeepInv ==
    ASSUME WireInv, UserWrites \/ \E m \in Common \union Method : DeviceCalls(m)
    PROVE  WireInv'
<1> USE SessionWireAssumption DEF WireInv
<1>1. toClient' \in Seq(ClientPacket) /\ events' \in 0..MaxEvents /\ events' \in Nat
  <2>1. CASE UserWrites
    <3>1. events' \in 0..MaxEvents /\ events' \in Nat /\ Packet("prompt", events') \in ClientPacket
      BY <2>1 DEF UserWrites, Event, WirePackets, Packet, ClientPacket
    <3>2. QED
      BY <2>1, <3>1 DEF UserWrites, WirePackets
  <2>2. ASSUME NEW m \in AnyMethod, DeviceCalls(m) PROVE toClient' \in Seq(ClientPacket) /\ events' \in 0..MaxEvents /\ events' \in Nat
    <3>1. events' \in 0..MaxEvents /\ events' \in Nat /\ Packet("call", [method |-> m, n |-> events']) \in ClientPacket
      BY <2>2 DEF DeviceCalls, Event, WirePackets, Packet, ClientPacket, Request
    <3>2. QED
      BY <2>2, <3>1 DEF DeviceCalls, WirePackets
  <2>3. QED
    BY <2>1, <2>2 DEF AnyMethod
<1>2. UNCHANGED <<socket, sendBuffer, toServer, registered, rpcVars, promptVars, flushing>>
  BY DEF UserWrites, DeviceCalls
<1>3. QED
  <2>1. WirePackets' /\ WirePrompts'
    BY <1>1, <1>2 DEF WirePackets, WirePrompts, rpcVars, promptVars
  <2>2. NamesAreHandled' /\ HandlersAreKnown'
    BY <1>2 DEF NamesAreHandled, HandlersAreKnown, rpcVars, Named
  <2>3. HeardInOrder'
    BY <1>1, <1>2 DEF HeardInOrder, promptVars
  <2>4. QED
    BY <2>1, <2>2, <2>3

\* What the session's listeners do with it.
LEMMA ListenersKeepInv ==
    ASSUME WireInv, Listeners \/ OnUserMessage
    PROVE  WireInv'
<1> USE SessionWireAssumption DEF WireInv
<1>1. ASSUME toClient # << >>
      PROVE  /\ Tail(toClient) \in Seq(ClientPacket)
             /\ Head(toClient).kind = "prompt" => Head(toClient).what \in Nat
             /\ Head(toClient).kind = "call" => Head(toClient).what \in Request
  <2>1. Head(toClient) \in ClientPacket /\ Tail(toClient) \in Seq(ClientPacket)
    BY <1>1 DEF WirePackets
  <2>2. QED
    BY <2>1 DEF ClientPacket
<1>2. CASE OnUpdate
  <2>1. toClient # << >> /\ Head(toClient).what \in Nat /\ toClient' = Tail(toClient)
    BY <1>1, <1>2 DEF OnUpdate, Takes
  <2> DEFINE m == Head(toClient).what
  <2>2. arrived' = Append(arrived, m)
    BY <1>2 DEF OnUpdate
  <2>3. \/ listening /\ given' = Append(given, m) /\ pendingMessages' = pendingMessages
        \/ ~listening /\ given' = given /\ pendingMessages' = Append(pendingMessages, m)
    BY <1>2 DEF OnUpdate
  <2>4. listening' = listening
    BY <1>2 DEF OnUpdate
  <2> HIDE DEF m
  <2>5. m \in Nat
    BY <2>1 DEF m
  <2>6. WirePrompts' /\ HeardInOrder'
    <3>1. /\ Append(arrived, m) \in Seq(Nat) /\ Append(given, m) \in Seq(Nat)
          /\ Append(pendingMessages, m) \in Seq(Nat)
          /\ given \o Append(pendingMessages, m) = Append(given \o pendingMessages, m)
          /\ given \o << >> = given /\ Append(given, m) \o << >> = Append(given, m)
      BY <2>5 DEF WirePrompts
    <3>2. flushing' \in {"no", "waiting", "answered", "late"}
      BY <1>2 DEF OnUpdate, WirePrompts
    <3>3. WirePrompts'
      BY <2>2, <2>3, <3>1, <3>2 DEF WirePrompts
    <3>4. CASE listening
      <4>1. pendingMessages = << >> /\ given = arrived
        BY <3>1, <3>4 DEF HeardInOrder
      <4>2. QED
        BY <2>2, <2>3, <2>4, <3>1, <3>3, <3>4, <4>1 DEF HeardInOrder
    <3>5. CASE ~listening
      BY <2>2, <2>3, <2>4, <3>1, <3>3, <3>5 DEF HeardInOrder
    <3>6. QED
      BY <3>4, <3>5
  <2>7. NamesAreHandled' /\ HandlersAreKnown' /\ WirePackets'
    BY <1>1, <1>2, <2>1 DEF OnUpdate, WirePackets, NamesAreHandled, HandlersAreKnown, rpcVars, Named
  <2>8. QED
    BY <2>6, <2>7
<1>3. CASE OnRpcRequest
  <2>1. toClient # << >> /\ Head(toClient).what \in Request /\ toClient' = Tail(toClient)
    BY <1>1, <1>3 DEF OnRpcRequest, Takes
  <2>2. WirePrompts' /\ HeardInOrder'
    BY <1>3 DEF OnRpcRequest, WirePrompts, HeardInOrder, promptVars
  <2>3. handling' \subseteq Request
    BY <1>3, <2>1 DEF OnRpcRequest, WirePackets
  <2>4. /\ sendBuffer' \in Seq(ServerPacket) /\ toServer' \in Seq(ServerPacket)
        /\ NamesAreHandled' /\ HandlersAreKnown'
    <3>1. CASE Head(toClient).what.method \in handlers
      BY <1>3, <3>1 DEF OnRpcRequest, WirePackets, NamesAreHandled, HandlersAreKnown, Named
    <3>2. CASE Head(toClient).what.method \notin handlers
      <4>1. Head(toClient).what.n \in Nat
        BY <2>1 DEF Request
      <4>2. Emit(<<Packet("answer", Head(toClient).what.n)>>)
            /\ UNCHANGED <<socket, hasSocket, registered, handlers>>
        BY <1>3, <3>2 DEF OnRpcRequest
      <4>3. QED
        BY <4>1, <4>2, EmitOther
    <3>3. QED
      BY <3>1, <3>2
  <2>5. WirePackets'
    BY <1>1, <1>3, <2>1, <2>3, <2>4 DEF OnRpcRequest, WirePackets
  <2>6. QED
    BY <2>2, <2>4, <2>5
<1>4. CASE OnPong
  <2>1. WirePackets'
    BY <1>1, <1>4 DEF OnPong, Takes, WirePackets, rpcVars
  <2>2. WirePrompts' /\ HeardInOrder'
    BY <1>4 DEF OnPong, WirePrompts, HeardInOrder, promptVars
  <2>3. NamesAreHandled' /\ HandlersAreKnown'
    BY <1>4 DEF OnPong, NamesAreHandled, HandlersAreKnown, rpcVars
  <2>4. QED
    BY <2>1, <2>2, <2>3
<1>5. CASE OnUserMessage
  <2>1. given \o pendingMessages \in Seq(Nat) /\ (given \o pendingMessages) \o << >> = given \o pendingMessages
    BY ConcatProperties, ConcatEmptySeq DEF WirePrompts
  <2>2. WirePrompts' /\ HeardInOrder'
    BY <1>5, <2>1 DEF OnUserMessage, DrainPending, WirePrompts, HeardInOrder
  <2>3. NamesAreHandled' /\ HandlersAreKnown' /\ WirePackets'
    BY <1>5 DEF OnUserMessage, WirePackets, NamesAreHandled, HandlersAreKnown, connectionVars, rpcVars, Named
  <2>4. QED
    BY <2>2, <2>3
<1>6. QED
  BY <1>2, <1>3, <1>4, <1>5 DEF Listeners

\* Every step keeps the invariant.
LEMMA WireNextInv ==
    ASSUME WireInv, [WireNext]_wireVars
    PROVE  WireInv'
<1>1. CASE UNCHANGED wireVars
  <2>1. WirePackets' /\ WirePrompts' /\ HeardInOrder'
    BY <1>1 DEF wireVars, WireInv, WirePackets, WirePrompts, HeardInOrder
  <2>2. NamesAreHandled' /\ HandlersAreKnown'
    BY <1>1 DEF wireVars, WireInv, NamesAreHandled, HandlersAreKnown
  <2>3. QED
    BY <2>1, <2>2 DEF WireInv
<1>2. QED
  BY <1>1, SendingKeepsInv, ConnectionKeepsInv, DevicesKeepInv, ListenersKeepInv DEF WireNext

\* The invariant of the session socket.
LEMMA WireInvariance == WireSpec => []WireInv
BY WireInitInv, WireNextInv, PTL DEF WireSpec

\* The session socket's state keeps its types (apiSession.ts, RpcHandlerManager.ts).
THEOREM WireTypeCorrect == WireSpec => []WireTypeOK
<1>1. WireInv => WireTypeOK
  BY DEF WireInv, WirePackets, WirePrompts, NamesAreHandled, HandlersAreKnown, WireTypeOK, AnyMethod
<1>2. QED
  BY <1>1, WireInvariance, PTL

\* Calls on their way to the session keep to methods it handles: a call is made of a
\* registered one, and no handler is ever taken away.
LEMMA CallsStayHandled ==
    ASSUME WireInv, CallsFindHandlers, [WireNext]_wireVars
    PROVE  CallsFindHandlers'
<1> USE DEF CallsFindHandlers
<1>1. toClient \in Seq(ClientPacket) /\ registered \subseteq handlers
  BY DEF WireInv, WirePackets, NamesAreHandled
<1>2. CASE UNCHANGED <<toClient, handlers>>
  BY <1>2
<1>3. CASE toClient' = << >>
  BY <1>3
<1>4. ASSUME NEW m \in Method, RegisterHandler(m) PROVE CallsFindHandlers'
  BY <1>4 DEF RegisterHandler
<1>5. CASE toClient' = Tail(toClient) /\ toClient # << >> /\ UNCHANGED handlers
  <2>1. /\ Len(toClient) \in Nat \ {0} /\ DOMAIN toClient = 1..Len(toClient)
        /\ DOMAIN toClient' = 1..(Len(toClient) - 1)
        /\ \A i \in 1..(Len(toClient) - 1) : toClient'[i] = toClient[i + 1]
    BY <1>1, <1>5
  <2>2. QED
    BY <1>5, <2>1
<1>6. ASSUME NEW p, toClient' = Append(toClient, p), UNCHANGED handlers,
             p.kind = "call" => p.what.method \in handlers
      PROVE  CallsFindHandlers'
  <2>1. /\ DOMAIN toClient = 1..Len(toClient) /\ Len(toClient) \in Nat
        /\ DOMAIN toClient' = 1..(Len(toClient) + 1)
        /\ toClient'[Len(toClient) + 1] = p
        /\ \A i \in 1..Len(toClient) : toClient'[i] = toClient[i]
    BY <1>1, <1>6
  <2>2. QED
    BY <1>6, <2>1
<1>7. CASE SendMessage \/ SendIfConnected \/ Flush \/ FlushLate \/ CloseSocket
  BY <1>2, <1>3, <1>7
     DEF SendMessage, SendIfConnected, Flush, FlushLate, CloseSocket, connectionVars, rpcVars
<1>8. CASE (\E r \in handling : HandlerReturns(r)) \/ Connected \/ Disconnected \/ OnUserMessage
  BY <1>2, <1>3, <1>8 DEF HandlerReturns, Connected, Disconnected, OnUserMessage, connectionVars, rpcVars
<1>9. CASE ServerReceives \/ UserWrites
  <2>1. Packet("pong", 0).kind # "call" /\ Packet("prompt", events').kind # "call"
    BY DEF Packet
  <2>2. QED
    BY <1>2, <1>6, <1>9, <2>1 DEF ServerReceives, UserWrites, rpcVars
<1>10. ASSUME NEW m \in Common \union Method, DeviceCalls(m) PROVE CallsFindHandlers'
  BY <1>1, <1>6, <1>10 DEF DeviceCalls, Packet, rpcVars
<1>11. CASE Listeners
  BY <1>5, <1>11 DEF Listeners, OnUpdate, OnRpcRequest, OnPong, Takes, rpcVars
<1>12. CASE UNCHANGED wireVars
  BY <1>2, <1>12 DEF wireVars
<1>13. QED
  BY <1>4, <1>7, <1>8, <1>9, <1>10, <1>11, <1>12 DEF WireNext

\* Whenever the connection is lost and comes back, and whenever the session gets to
\* registering: while it is connected every handler is registered or about to be, and a call
\* that reaches it finds its handler (RpcHandlerManager.onSocketConnect, handleRequest).
THEOREM ConnectedIsReachable == WireSpec => []ReachableWhenConnected
<1>1. WireInit => CallsFindHandlers
  BY DEF WireInit, CallsFindHandlers
<1>2. WireInv => RegisteredWhenConnected
  BY NamedInSet DEF WireInv, WirePackets, HandlersAreKnown, RegisteredWhenConnected
<1>3. QED
  BY <1>1, <1>2, CallsStayHandled, WireInvariance, PTL DEF WireSpec, ReachableWhenConnected

\* Whatever connections break: the prompts that arrive are given once and in the order they
\* came in, none left behind once somebody listens (ApiSessionClient.onUserMessage).
THEOREM ArrivedIsHeard == WireSpec => []HeardInOrder
<1>1. WireInv => HeardInOrder
  BY DEF WireInv
<1>2. QED
  BY <1>1, WireInvariance, PTL

---------------------------------------------------------------------------
(* MachineSync. Every value that is on its way to the server was made      *)
(* from the value of the version it names, so the one that is stored, and  *)
(* only if that version is the newest, adds to it.                         *)

Update == [at : {"asking", "stored", "refused", "backoff", "done"}, version : Nat, value : MachineValue]

\* What a request carries was made from the version it names.
MadeFrom(version, value) ==
    version \in Version /\ (record = "daemonState" => IsPrefix(versions[version], value))

RecordTypes ==
    /\ record \in {"daemonState", "metadata"}
    /\ versions \in Seq(MachineValue) /\ Len(versions) >= 1
    /\ machine \in [version : Nat, value : MachineValue]
    /\ updates \in Seq(Update) /\ Len(updates) <= MaxMachineUpdates
    /\ strays \subseteq [at : {"backoff"}, version : Nat, value : MachineValue]
    /\ writes \in 0..MaxWrites

SocketTypes ==
    /\ machineSocket \in {"down", "up", "closed"}
    /\ keepAlive = (machineSocket = "up")

\* The daemon's copy, and every answer on its way, is what some version holds; what was
\* asked and not answered was made from one.
Versioned ==
    /\ machine.version \in Version /\ machine.value = versions[machine.version]
    /\ broadcasts \subseteq Version
    /\ \A u \in DOMAIN updates :
          /\ updates[u].at = "asking" => MadeFrom(updates[u].version, updates[u].value)
          /\ updates[u].at = "stored" =>
                updates[u].version \in Version /\ updates[u].value = versions[updates[u].version]
          /\ updates[u].at = "refused" => updates[u].version \in Version
    /\ \A r \in strays : MadeFrom(r.version, r.value)

MachineInv == RecordTypes /\ SocketTypes /\ stopping \in 0..Len(updates) /\ Versioned /\ NothingIsUndone

---------------------------------------------------------------------------

\* Appending keeps a prefix.
LEMMA PrefixOfAppend ==
    ASSUME NEW S, NEW s \in Seq(S), NEW x \in S
    PROVE  IsPrefix(s, Append(s, x))
<1>1. Append(s, x) = s \o <<x>> /\ <<x>> \in Seq(S) /\ Len(Append(s, x)) = Len(s) + 1
  OBVIOUS
<1>2. CASE s = << >>
  BY <1>2 DEF IsPrefix
<1>3. CASE s # << >>
  BY <1>1, <1>3, SubSeqOfConcat1 DEF IsPrefix
<1>4. QED
  BY <1>2, <1>3

\* A value made from another has all that the other had.
LEMMA ValueGrows ==
    ASSUME NEW value \in MachineValue, NEW x \in 1..(MaxMachineUpdates + MaxWrites)
    PROVE  /\ Append(value, x) \in MachineValue /\ <<x>> \in MachineValue
           /\ IsPrefix(value, Append(value, x))
<1> DEFINE Id == 1..(MaxMachineUpdates + MaxWrites)
<1>1. value \in Seq(Id) /\ x \in Id /\ MachineValue = Seq(Id)
  BY DEF MachineValue
<1> HIDE DEF Id
<1>2. Append(value, x) \in Seq(Id) /\ <<x>> \in Seq(Id) /\ IsPrefix(value, Append(value, x))
  BY <1>1, PrefixOfAppend
<1>3. QED
  BY <1>1, <1>2

\* Storing a value that was made from the newest version adds to the record; nothing that
\* refers to a version is changed by it.
LEMMA Stored ==
    ASSUME MachineInv, NEW value \in MachineValue, MadeFrom(Newest, value),
           versions' = Append(versions, value), record' = record
    PROVE  /\ versions' \in Seq(MachineValue) /\ Len(versions') = Newest + 1
           /\ Version \subseteq Version' /\ Newest + 1 \in Version' /\ versions'[Newest + 1] = value
           /\ \A v \in Version : versions'[v] = versions[v]
           /\ NothingIsUndone'
<1>1. /\ versions' \in Seq(MachineValue) /\ Len(versions') = Newest + 1
      /\ Version = 1..Newest /\ Version' = 1..(Newest + 1) /\ Newest \in Nat
      /\ versions'[Newest + 1] = value
      /\ \A v \in 1..Newest : versions'[v] = versions[v]
  BY DEF MachineInv, RecordTypes, Newest, Version
<1>2. ASSUME record = "daemonState", NEW v \in 1..Newest
      PROVE  IsPrefix(versions'[v], versions'[v + 1])
  <2>1. CASE v = Newest
    BY <1>1, <1>2, <2>1 DEF MadeFrom
  <2>2. CASE v # Newest
    <3>1. v \in 1..(Newest - 1) /\ v + 1 \in 1..Newest
      BY <1>1, <2>2
    <3>2. QED
      BY <1>1, <1>2, <3>1 DEF MachineInv, NothingIsUndone
  <2>3. QED
    BY <2>1, <2>2
<1>3. NothingIsUndone'
  <2>1. Newest' - 1 = Newest
    BY <1>1 DEF Newest
  <2>2. QED
    BY <1>2, <2>1 DEF NothingIsUndone
<1>4. QED
  BY <1>1, <1>3

\* The value an update asks for.
LEMMA AskingIsMade ==
    ASSUME MachineInv, NEW u \in MachineUpdate
    PROVE  /\ Asking(u) \in Update /\ Asking(u).at = "asking"
           /\ MadeFrom(Asking(u).version, Asking(u).value)
<1>1. u \in 1..(MaxMachineUpdates + MaxWrites)
  BY MachineSyncAssumption DEF MachineUpdate
<1>2. machine.version \in Nat /\ machine.value \in MachineValue
  BY DEF MachineInv, RecordTypes
<1>3. /\ Handler(u, machine.value) \in MachineValue
      /\ record = "daemonState" => IsPrefix(machine.value, Handler(u, machine.value))
  BY <1>1, <1>2, ValueGrows DEF Handler
<1>4. QED
  BY <1>2, <1>3 DEF Asking, Update, MadeFrom, MachineInv, Versioned

\* At the start nothing is stored and nothing is asked.
LEMMA MachineInitInv == MachineInit => MachineInv
<1> SUFFICES ASSUME MachineInit PROVE MachineInv
  OBVIOUS
<1>1. << >> \in MachineValue
  BY DEF MachineValue
<1>2. versions \in Seq(MachineValue) /\ Len(versions) = 1 /\ Version = {1} /\ versions[1] = << >>
  BY <1>1 DEF MachineInit, Version
<1>3. updates = << >> /\ Len(updates) = 0 /\ DOMAIN updates = {} /\ updates \in Seq(Update)
  BY DEF MachineInit
<1>4. RecordTypes /\ stopping \in 0..Len(updates)
  BY <1>1, <1>2, <1>3, MachineSyncAssumption DEF MachineInit, RecordTypes
<1>5. SocketTypes
  BY DEF MachineInit, SocketTypes
<1>6. Versioned /\ NothingIsUndone
  BY <1>2, <1>3 DEF MachineInit, Versioned, NothingIsUndone, Newest
<1>7. QED
  BY <1>4, <1>5, <1>6 DEF MachineInv

\* Asking, for the first time.
LEMMA BeginUpdateKeepsInv ==
    ASSUME MachineInv, BeginUpdate, SocketTypes', stopping' \in {stopping, Len(updates')},
           UNCHANGED <<record, versions, machine, broadcasts, strays, writes>>
    PROVE  MachineInv'
<1> DEFINE u == Len(updates) + 1
<1>1. u \in MachineUpdate /\ Len(updates) \in Nat
  BY MachineSyncAssumption DEF BeginUpdate, MachineUpdate, MachineInv, RecordTypes
<1>2. Asking(u) \in Update /\ Asking(u).at = "asking" /\ MadeFrom(Asking(u).version, Asking(u).value)
  BY <1>1, AskingIsMade
<1>3. updates' = Append(updates, Asking(u))
  BY DEF BeginUpdate
<1> HIDE DEF u
<1>4. /\ updates' \in Seq(Update) /\ Len(updates') = u
      /\ updates'[u] = Asking(u) /\ \A w \in DOMAIN updates : updates'[w] = updates[w]
      /\ DOMAIN updates' = DOMAIN updates \union {u}
  BY <1>1, <1>2, <1>3 DEF MachineInv, RecordTypes, u
<1>5. RecordTypes'
  BY <1>1, <1>4 DEF MachineInv, RecordTypes, MachineUpdate
<1>6. stopping' \in 0..Len(updates')
  BY <1>1, <1>4 DEF MachineInv, u
<1>7. Versioned' /\ NothingIsUndone'
  BY <1>2, <1>4 DEF MachineInv, Versioned, MadeFrom, NothingIsUndone, Version, Newest
<1>8. QED
  BY <1>5, <1>6, <1>7 DEF MachineInv

\* One update of the daemon goes on, and nothing else does but the daemon's copy.
LEMMA UpdateKeepsInv ==
    ASSUME MachineInv, NEW u \in DOMAIN updates, NEW up \in Update,
           updates' = [updates EXCEPT ![u] = up],
           up.at = "asking" => MadeFrom(up.version, up.value),
           up.at \notin {"stored", "refused"},
           machine' = machine \/ \E v \in Version : machine' = [version |-> v, value |-> versions[v]],
           UNCHANGED <<record, versions, broadcasts, strays, machineSocket, keepAlive, stopping, writes>>
    PROVE  MachineInv'
<1>1. /\ updates' \in Seq(Update) /\ Len(updates') = Len(updates) /\ DOMAIN updates' = DOMAIN updates
      /\ updates'[u] = up /\ \A w \in DOMAIN updates : w # u => updates'[w] = updates[w]
  BY DEF MachineInv, RecordTypes
<1>2. /\ machine' \in [version : Nat, value : MachineValue]
      /\ machine'.version \in Version /\ machine'.value = versions[machine'.version]
  BY DEF MachineInv, RecordTypes, Versioned, Version
<1>3. RecordTypes'
  BY <1>1, <1>2 DEF MachineInv, RecordTypes
<1>4. SocketTypes' /\ stopping' \in 0..Len(updates')
  BY <1>1 DEF MachineInv, SocketTypes
<1>5. Versioned' /\ NothingIsUndone'
  BY <1>1, <1>2 DEF MachineInv, Versioned, MadeFrom, NothingIsUndone, Version, Newest
<1>6. QED
  BY <1>3, <1>4, <1>5 DEF MachineInv

\* The daemon's update loops.
LEMMA DaemonKeepsInv ==
    ASSUME MachineInv, NEW u \in DOMAIN updates, AskAgain(u) \/ OnStored(u) \/ OnRefused(u) \/ OnError(u)
    PROVE  MachineInv'
<1>1. updates[u] \in Update /\ u \in MachineUpdate
  BY MachineSyncAssumption DEF MachineInv, RecordTypes, MachineUpdate
<1>2. CASE AskAgain(u)
  BY <1>2, <1>1, AskingIsMade, UpdateKeepsInv DEF AskAgain
<1>3. CASE OnStored(u)
  <2> DEFINE up == [updates[u] EXCEPT !.at = "done"]
  <2>1. up \in Update /\ up.at = "done" /\ updates' = [updates EXCEPT ![u] = up]
    BY <1>1, <1>3 DEF OnStored, Update
  <2>2. \E v \in Version : machine' = [version |-> v, value |-> versions[v]]
    BY <1>3 DEF OnStored, MachineInv, Versioned
  <2> HIDE DEF up
  <2>3. QED
    BY <1>3, <2>1, <2>2, UpdateKeepsInv DEF OnStored
<1>4. CASE OnRefused(u)
  <2> DEFINE up == [updates[u] EXCEPT !.at = "backoff"]
  <2>1. up \in Update /\ up.at = "backoff" /\ updates' = [updates EXCEPT ![u] = up]
    BY <1>1, <1>4 DEF OnRefused, Update
  <2>2. machine' = machine \/ \E v \in Version : machine' = [version |-> v, value |-> versions[v]]
    BY <1>4 DEF OnRefused, TakeOver, MachineInv, Versioned
  <2> HIDE DEF up
  <2>3. QED
    BY <1>4, <2>1, <2>2, UpdateKeepsInv DEF OnRefused
<1>5. CASE OnError(u)
  <2> DEFINE up == [updates[u] EXCEPT !.at = "done"]
  <2>1. up \in Update /\ up.at = "done" /\ updates' = [updates EXCEPT ![u] = up]
    BY <1>1, <1>5 DEF OnError, Update
  <2> HIDE DEF up
  <2>2. QED
    BY <1>5, <2>1, UpdateKeepsInv DEF OnError
<1>6. QED
  BY <1>2, <1>3, <1>4, <1>5

\* The server: what is stored was made from the newest version, and what is refused is not.
LEMMA ServerKeepsInv ==
    ASSUME MachineInv, NEW u \in DOMAIN updates, ServerAnswers(u)
    PROVE  MachineInv'
<1>1. updates[u] \in Update /\ MadeFrom(updates[u].version, updates[u].value)
  BY DEF MachineInv, RecordTypes, Versioned, ServerAnswers
<1> DEFINE up == [updates[u] EXCEPT !.at = IF updates[u].version = Newest THEN "stored" ELSE "refused",
                                    !.version = Len(versions')]
<1>2. /\ updates' = [updates EXCEPT ![u] = up] /\ up.value = updates[u].value
      /\ up.version = Len(versions')
      /\ up.at = IF updates[u].version = Newest THEN "stored" ELSE "refused"
  BY <1>1 DEF ServerAnswers, Update
<1>3. /\ versions' \in Seq(MachineValue) /\ Len(versions') >= 1 /\ Len(versions') \in Version'
      /\ Version \subseteq Version' /\ \A v \in Version : versions'[v] = versions[v]
      /\ updates[u].version = Newest => versions'[Len(versions')] = updates[u].value
      /\ NothingIsUndone'
  <2>1. CASE updates[u].version = Newest
    <3>1. versions' = Append(versions, updates[u].value) /\ record' = record
      BY <2>1 DEF ServerAnswers, StoreOver
    <3>2. updates[u].value \in MachineValue /\ MadeFrom(Newest, updates[u].value)
      BY <1>1, <2>1 DEF Update
    <3>3. Newest \in Nat
      BY DEF MachineInv, RecordTypes, Newest
    <3>4. /\ versions' \in Seq(MachineValue) /\ Len(versions') = Newest + 1
          /\ Version \subseteq Version' /\ Newest + 1 \in Version'
          /\ versions'[Newest + 1] = updates[u].value
          /\ \A v \in Version : versions'[v] = versions[v]
          /\ NothingIsUndone'
      BY <3>1, <3>2, Stored
    <3>5. Len(versions') >= 1
      BY <3>3, <3>4
    <3>6. QED
      BY <2>1, <3>4, <3>5
  <2>2. CASE updates[u].version # Newest
    BY <1>1, <2>2 DEF ServerAnswers, StoreOver, MachineInv, RecordTypes, NothingIsUndone, Newest, Version
  <2>3. QED
    BY <2>1, <2>2
<1>4. up \in Update
  <2>1. Len(versions') \in Nat
    BY <1>3
  <2>2. QED
    BY <1>1, <2>1 DEF Update
<1> HIDE DEF up
<1>5. /\ updates' \in Seq(Update) /\ Len(updates') = Len(updates) /\ DOMAIN updates' = DOMAIN updates
      /\ updates'[u] = up /\ \A w \in DOMAIN updates : w # u => updates'[w] = updates[w]
  BY <1>2, <1>4 DEF MachineInv, RecordTypes
<1>6. UNCHANGED <<record, machine, broadcasts, strays, machineSocket, keepAlive, stopping, writes>>
  BY DEF ServerAnswers
<1>7. RecordTypes'
  BY <1>3, <1>5, <1>6 DEF MachineInv, RecordTypes
<1>8. Versioned'
  BY <1>2, <1>3, <1>5, <1>6 DEF MachineInv, Versioned, MadeFrom
<1>9. QED
  BY <1>3, <1>5, <1>6, <1>7, <1>8 DEF MachineInv, SocketTypes

\* What is stored by somebody else.
LEMMA OthersKeepInv ==
    ASSUME MachineInv, DeviceWrites \/ \E r \in strays : ServerAnswersStray(r)
    PROVE  MachineInv'
<1>1. /\ versions' \in Seq(MachineValue) /\ Len(versions') >= 1
      /\ Version \subseteq Version' /\ \A v \in Version : versions'[v] = versions[v]
      /\ broadcasts' \subseteq Version' /\ strays' \subseteq strays /\ writes' \in 0..MaxWrites
      /\ NothingIsUndone'
  <2>1. CASE DeviceWrites
    <3> DEFINE x == MaxMachineUpdates + writes'
               value == Append(versions[Newest], x)
    <3>1. writes' \in 0..MaxWrites /\ x \in 1..(MaxMachineUpdates + MaxWrites)
      <4>1. writes \in 0..MaxWrites /\ writes < MaxWrites /\ writes' = writes + 1
        BY <2>1 DEF DeviceWrites, MachineInv, RecordTypes
      <4>2. MaxMachineUpdates \in Nat /\ MaxWrites \in Nat
        BY MachineSyncAssumption
      <4>3. QED
        BY <4>1, <4>2
    <3> HIDE DEF x
    <3>2. Newest \in Version /\ Newest \in Nat /\ versions[Newest] \in MachineValue
      BY DEF MachineInv, RecordTypes, Newest, Version
    <3>3. value \in MachineValue /\ IsPrefix(versions[Newest], value)
      BY <3>1, <3>2, ValueGrows
    <3>4. versions' = Append(versions, value) /\ record' = record /\ strays' = strays
          /\ broadcasts' \subseteq broadcasts \union {Newest + 1}
      BY <2>1 DEF DeviceWrites, x
    <3> HIDE DEF value
    <3>5. MadeFrom(Newest, value)
      BY <3>2, <3>3 DEF MadeFrom
    <3>6. /\ versions' \in Seq(MachineValue) /\ Len(versions') = Newest + 1
          /\ Version \subseteq Version' /\ Newest + 1 \in Version'
          /\ \A v \in Version : versions'[v] = versions[v]
          /\ NothingIsUndone'
      BY <3>3, <3>4, <3>5, Stored
    <3>7. QED
      <4>1. broadcasts' \subseteq Version'
        BY <3>4, <3>6 DEF MachineInv, Versioned
      <4>2. Len(versions') >= 1
        BY <3>2, <3>6
      <4>3. QED
        BY <3>1, <3>4, <3>6, <4>1, <4>2
  <2>2. ASSUME NEW r \in strays, ServerAnswersStray(r)
        PROVE  /\ versions' \in Seq(MachineValue) /\ Len(versions') >= 1
               /\ Version \subseteq Version' /\ \A v \in Version : versions'[v] = versions[v]
               /\ broadcasts' \subseteq Version' /\ strays' \subseteq strays /\ writes' \in 0..MaxWrites
               /\ NothingIsUndone'
    <3>1. r.value \in MachineValue /\ MadeFrom(r.version, r.value)
      BY DEF MachineInv, RecordTypes, Versioned
    <3>2. CASE r.version = Newest
      <4>1. /\ versions' = Append(versions, r.value) /\ strays' \subseteq strays
            /\ UNCHANGED <<record, broadcasts, writes>>
        BY <2>2, <3>2 DEF ServerAnswersStray, StoreOver
      <4>2. /\ versions' \in Seq(MachineValue) /\ Len(versions') = Newest + 1
            /\ Version \subseteq Version' /\ \A v \in Version : versions'[v] = versions[v]
            /\ NothingIsUndone'
        BY <3>1, <3>2, <4>1, Stored
      <4>3. Newest \in Nat /\ broadcasts \subseteq Version /\ writes \in 0..MaxWrites
        BY DEF MachineInv, RecordTypes, Versioned, Newest
      <4>4. Len(versions') >= 1
        BY <4>2, <4>3
      <4>5. broadcasts' \subseteq Version' /\ writes' \in 0..MaxWrites
        BY <4>1, <4>2, <4>3
      <4>6. QED
        BY <4>1, <4>2, <4>4, <4>5
    <3>3. CASE r.version # Newest
      BY <2>2, <3>3 DEF ServerAnswersStray, StoreOver, MachineInv, RecordTypes, Versioned, NothingIsUndone,
                        Newest, Version
    <3>4. QED
      BY <3>2, <3>3
  <2>3. QED
    BY <2>1, <2>2
<1>2. UNCHANGED <<record, machine, updates, machineSocket, keepAlive, stopping>>
  BY DEF DeviceWrites, ServerAnswersStray
<1>3. RecordTypes'
  BY <1>1, <1>2 DEF MachineInv, RecordTypes
<1>4. Versioned'
  BY <1>1, <1>2 DEF MachineInv, Versioned, MadeFrom
<1>5. QED
  BY <1>1, <1>2, <1>3, <1>4 DEF MachineInv, SocketTypes

\* The connection, and the events it brings.
LEMMA SocketKeepsInv ==
    ASSUME MachineInv,
           \/ \E v \in Version : OnMachineUpdate(v)
           \/ MachineConnects \/ MachineDisconnects \/ VersionCheck \/ StopDaemon \/ ShutDown
    PROVE  MachineInv'
<1>1. ASSUME NEW v \in Version, OnMachineUpdate(v) PROVE MachineInv'
  <2>1. machine' = [version |-> v, value |-> versions[v]] /\ v \in Nat /\ versions[v] \in MachineValue
    BY <1>1 DEF OnMachineUpdate, TakeOver, MachineInv, RecordTypes, Version
  <2>2. QED
    BY <1>1, <2>1 DEF OnMachineUpdate, MachineInv, RecordTypes, SocketTypes, Versioned, MadeFrom,
                      NothingIsUndone, Version, Newest
<1>2. CASE MachineConnects
  <2>1. SocketTypes'
    BY <1>2 DEF MachineConnects, StartKeepAlive, SocketTypes
  <2>2. CASE record = "daemonState"
    BY <1>2, <2>1, <2>2, BeginUpdateKeepsInv DEF MachineConnects
  <2>3. CASE record # "daemonState"
    BY <1>2, <2>1, <2>3 DEF MachineConnects, MachineInv, RecordTypes, Versioned, MadeFrom,
                            NothingIsUndone, Version, Newest
  <2>4. QED
    BY <2>2, <2>3
<1>3. CASE VersionCheck
  BY <1>3, BeginUpdateKeepsInv DEF VersionCheck, MachineInv, SocketTypes
<1>4. CASE StopDaemon
  BY <1>4, BeginUpdateKeepsInv DEF StopDaemon, MachineInv, SocketTypes
<1>5. CASE ShutDown
  <2>1. SocketTypes'
    BY <1>5 DEF ShutDown, StopKeepAlive, SocketTypes
  <2>2. QED
    BY <1>5, <2>1 DEF ShutDown, MachineInv, RecordTypes, Versioned, MadeFrom, NothingIsUndone, Version, Newest
<1>6. CASE MachineDisconnects
  <2>1. SocketTypes'
    BY <1>6 DEF MachineDisconnects, StopKeepAlive, SocketTypes
  <2>2. \A u \in DOMAIN updates : /\ updates[u] \in Update
                                  /\ [updates[u] EXCEPT !.at = "backoff"] \in Update
                                  /\ [updates[u] EXCEPT !.at = "backoff"].at = "backoff"
    <3>1. \A u \in DOMAIN updates : updates[u] \in Update
      BY DEF MachineInv, RecordTypes
    <3>2. QED
      BY <3>1 DEF Update
  <2>3. /\ updates' \in Seq(Update) /\ Len(updates') = Len(updates) /\ DOMAIN updates' = DOMAIN updates
        /\ \A u \in DOMAIN updates : updates'[u].at \in {"backoff", "done"}
    <3>1. updates' = [u \in 1..Len(updates) |->
                        IF updates[u].at \in {"asking", "stored", "refused"}
                        THEN [updates[u] EXCEPT !.at = "backoff"] ELSE updates[u]]
      BY <1>6 DEF MachineDisconnects, MachineInv, RecordTypes
    <3>2. Len(updates) \in Nat /\ DOMAIN updates = 1..Len(updates)
      BY DEF MachineInv, RecordTypes
    <3>3. \A u \in 1..Len(updates) : updates'[u] \in Update /\ updates'[u].at \in {"backoff", "done"}
      BY <2>2, <3>1, <3>2 DEF Update
    <3>4. updates' \in [1..Len(updates) -> Update]
      BY <3>1, <3>3
    <3>5. QED
      BY <3>2, <3>3, <3>4
  <2>4. ASSUME NEW r \in strays' \ strays
        PROVE  r \in [at : {"backoff"}, version : Nat, value : MachineValue] /\ MadeFrom(r.version, r.value)
    <3>1. PICK u \in DOMAIN updates : updates[u].at = "asking" /\ r = [updates[u] EXCEPT !.at = "backoff"]
      BY <1>6 DEF MachineDisconnects
    <3>2. r.version = updates[u].version /\ r.value = updates[u].value
          /\ r \in [at : {"backoff"}, version : Nat, value : MachineValue]
      BY <2>2, <3>1 DEF Update
    <3>3. QED
      BY <3>1, <3>2 DEF MachineInv, Versioned
  <2>5. UNCHANGED <<record, versions, machine, stopping, writes>> /\ broadcasts' = {}
    BY <1>6 DEF MachineDisconnects
  <2>6. RecordTypes' /\ stopping' \in 0..Len(updates')
    BY <2>3, <2>4, <2>5 DEF MachineInv, RecordTypes
  <2>7. Versioned' /\ NothingIsUndone'
    BY <2>3, <2>4, <2>5 DEF MachineInv, Versioned, MadeFrom, NothingIsUndone, Version, Newest
  <2>8. QED
    BY <2>1, <2>6, <2>7 DEF MachineInv
<1>7. QED
  BY <1>1, <1>2, <1>3, <1>4, <1>5, <1>6

\* Every step keeps the invariant.
LEMMA MachineNextInv ==
    ASSUME MachineInv, [MachineNext]_machineVars
    PROVE  MachineInv'
<1>1. CASE UNCHANGED machineVars
  BY <1>1 DEF machineVars, MachineInv, RecordTypes, SocketTypes, Versioned, MadeFrom, NothingIsUndone,
              Version, Newest
<1>2. QED
  BY <1>1, DaemonKeepsInv, ServerKeepsInv, OthersKeepInv, SocketKeepsInv DEF MachineNext, UpdateRuns

\* The invariant of the machine record.
LEMMA MachineInvariance == MachineSpec => []MachineInv
BY MachineInitInv, MachineNextInv, PTL DEF MachineSpec

\* The machine record's state keeps its types (apiMachine.ts).
THEOREM MachineTypeCorrect == MachineSpec => []MachineTypeOK
<1>1. MachineInv => MachineTypeOK
  BY DEF MachineInv, RecordTypes, SocketTypes, Versioned, MachineTypeOK, Update, Version
<1>2. QED
  BY <1>1, MachineInvariance, PTL

\* However the two update loops of the daemon, the web application and the updates the socket brings
\* interleave: no version of the record loses what an earlier version had, so that nothing that was
\* stored is undone by an update that was made from an older value
\* (ApiMachineClient.updateMachineMetadata and updateDaemonState).
THEOREM UpdatesOnlyAdd == MachineSpec => []NothingIsUndone
<1>1. MachineInv => NothingIsUndone
  BY DEF MachineInv
<1>2. QED
  BY <1>1, MachineInvariance, PTL

====
