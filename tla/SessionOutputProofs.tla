---- MODULE SessionOutputProofs ----
(***************************************************************************)
(* Proofs about what a session has the server keep, for any bounds: its    *)
(* state (SessionState), its messages' chains (MessageLog), the order in   *)
(* which they are sent (RemoteOutput); and about the conversation that its *)
(* launches resume (SessionIdentity).                                      *)
(***************************************************************************)
EXTENDS RemoteOutput, MessageLog, SessionState, SessionIdentity, SharedLemmas, FiniteSetTheorems,
        SequenceTheorems

---------------------------------------------------------------------------
(* SessionState, for any set of writers. Every copy of the state that is   *)
(* about (a client's, an answer's) is a version the server has stored, and *)
(* every request under way, of a live or of a broken connection, contains  *)
(* the version it was built on (Built). The server takes a request only    *)
(* over that very version, so what it stores contains all that came        *)
(* before.                                                                 *)

IsStored(r) == r.version \in DOMAIN history /\ r.value = history[r.version]

IsBuilt(r) == r.version \in DOMAIN history /\ history[r.version] \subseteq r.value

\* Every version contains every one before it.
Growing == \A v, w \in DOMAIN history : v <= w => history[v] \subseteq history[w]

Copies ==
    /\ \A c \in Client : IsStored(local[c])
    /\ \A c \in Client : step[c] = "answered" /\ answer[c].result # "error" => IsStored(answer[c])

Built ==
    /\ \A c \in Client : step[c] = "asking" => IsBuilt(request[c])
    /\ \A r \in stray : IsBuilt(r)

\* The job in front is the one the request and its answer are about.
InFront ==
    \A c \in Client :
        /\ step[c] # "idle" => line[c] # << >>
        /\ step[c] = "asking" => Head(line[c]) \in request[c].value
        /\ step[c] = "answered" /\ answer[c].result = "success" =>
              Head(line[c]) \in answer[c].value

IInv ==
    /\ StateTypeOK
    /\ Len(history) >= 1
    /\ Growing
    /\ Copies
    /\ Built
    /\ InFront
    /\ DoneIsStored

---------------------------------------------------------------------------
(* The types, one step per action.                                         *)

LEMMA InitTypeOK == StateInit => StateTypeOK
BY SessionStateAssumption DEF StateInit, StateTypeOK, Blank, Versioned, Value, Update, Result

LEMMA SendTypeOK ==
    ASSUME StateTypeOK, NEW c \in Client, NEW n \in Nat, NEW x \in Value, Send(c, n, x)
    PROVE  StateTypeOK'
<1>1. request' \in [Client -> Versioned]
  BY DEF Send, StateTypeOK, Versioned
<1>2. step' \in [Client -> {"idle", "asking", "answered", "backoff"}]
  BY DEF Send, StateTypeOK
<1>3. QED
  BY <1>1, <1>2 DEF Send, StateTypeOK, serverVars, countVars

LEMMA AskTypeOK ==
    ASSUME StateTypeOK, NEW c \in Client, line[c] # << >>, Ask(c)
    PROVE  StateTypeOK'
<1>1. Head(line[c]) \in Update
  BY DEF StateTypeOK
<1>2. local[c].version \in Nat /\ local[c].value \in SUBSET Update
  BY DEF StateTypeOK, Versioned, Value
<1>3. local[c].value \union {Head(line[c])} \in Value
  BY <1>1, <1>2 DEF Value
<1>4. QED
  BY <1>2, <1>3, SendTypeOK DEF Ask

LEMMA EndJobTypes ==
    ASSUME StateTypeOK, NEW c \in Client, line[c] # << >>, EndJob(c)
    PROVE  /\ line' \in [Client -> Seq(Update)]
           /\ step' \in [Client -> {"idle", "asking", "answered", "backoff"}]
<1>1. Tail(line[c]) \in Seq(Update)
  BY DEF StateTypeOK
<1>2. QED
  BY <1>1 DEF EndJob, StateTypeOK

LEMMA AdoptTypes ==
    ASSUME StateTypeOK, NEW c \in Client, NEW n \in Nat, NEW x \in Value, Adopt(c, n, x)
    PROVE  local' \in [Client -> Versioned]
BY DEF Adopt, StateTypeOK, Versioned

LEMMA StoreTypes ==
    ASSUME StateTypeOK, NEW r \in Versioned, Store(r)
    PROVE  /\ history' \in Seq(Value)
           /\ Len(history') \in Nat
           /\ Len(history) >= 1 => Stored'.version \in Nat /\ Stored'.value \in Value
<1>1. r.value \in Value /\ history \in Seq(Value)
  BY DEF Versioned, StateTypeOK
<1>2. history' \in Seq(Value)
  BY <1>1 DEF Store
<1>3. Len(history) >= 1 => Len(history') >= 1
  BY <1>1 DEF Store
<1>4. QED
  BY <1>2, <1>3 DEF Stored

\* InFront and the length of the history come in because a job is taken from the front
\* of its line, and a value from the end of the history.
LEMMA NextTypeOK ==
    ASSUME StateTypeOK, InFront, Copies, Len(history) >= 1, [StateNext]_stateVars
    PROVE  StateTypeOK'
<1>1. ASSUME NEW c \in Client, UpdateState(c) PROVE StateTypeOK'
  <2>1. made' \in Seq(Client) /\ Len(made') \in Update
    BY <1>1, SessionStateAssumption DEF UpdateState, StateTypeOK, Update
  <2>2. line' \in [Client -> Seq(Update)]
    BY <1>1, <2>1 DEF UpdateState, StateTypeOK
  <2>3. QED
    BY <1>1, <2>1, <2>2 DEF UpdateState, StateTypeOK, serverVars
<1>2. ASSUME NEW c \in Client, Begin(c) \/ Retry(c) PROVE StateTypeOK'
  <2>1. line[c] # << >>
    BY <1>2 DEF Begin, Retry, InFront
  <2>2. QED
    BY <1>2, <2>1, AskTypeOK DEF Begin, Retry
<1>3. ASSUME NEW c \in Client, OnSuccess(c) PROVE StateTypeOK'
  <2>1. line[c] # << >> /\ EndJob(c)
    BY <1>3 DEF OnSuccess, InFront
  <2>2. Head(line[c]) \in Update
    BY <2>1 DEF StateTypeOK
  <2>3. local' \in [Client -> Versioned]
    BY <1>3 DEF OnSuccess, StateTypeOK, Versioned
  <2>4. QED
    BY <1>3, <2>1, <2>2, <2>3, EndJobTypes DEF OnSuccess, StateTypeOK, serverVars
<1>4. ASSUME NEW c \in Client, OnMismatch(c) PROVE StateTypeOK'
  <2>1. answer[c].version \in Nat /\ answer[c].value \in Value
    BY DEF StateTypeOK
  <2>2. local' \in [Client -> Versioned]
    BY <1>4, <2>1, AdoptTypes DEF OnMismatch
  <2>3. step' \in [Client -> {"idle", "asking", "answered", "backoff"}]
    BY <1>4 DEF OnMismatch, StateTypeOK
  <2>4. QED
    BY <1>4, <2>2, <2>3 DEF OnMismatch, StateTypeOK, serverVars, countVars
<1>5. ASSUME NEW c \in Client, OnError(c) PROVE StateTypeOK'
  <2>1. line[c] # << >> /\ EndJob(c)
    BY <1>5 DEF OnError, InFront
  <2>2. Head(line[c]) \in Update
    BY <2>1 DEF StateTypeOK
  <2>3. QED
    BY <1>5, <2>1, <2>2, EndJobTypes DEF OnError, StateTypeOK, serverVars
<1>6. ASSUME NEW c \in Client, Handle(c) PROVE StateTypeOK'
  <2>1. request[c] \in Versioned /\ Store(request[c])
    BY <1>6 DEF Handle, StateTypeOK
  <2>2. history' \in Seq(Value) /\ Stored'.version \in Nat /\ Stored'.value \in Value
    BY <2>1, StoreTypes
  <2>3. step' \in [Client -> {"idle", "asking", "answered", "backoff"}]
    BY <1>6 DEF Handle, StateTypeOK
  <2>4. answer' \in [Client -> [result : Result, version : Nat, value : Value]]
    BY <1>6, <2>2 DEF Handle, StateTypeOK, Result
  <2>5. QED
    BY <1>6, <2>2, <2>3, <2>4 DEF Handle, StateTypeOK, countVars
<1>7. ASSUME NEW c \in Client, Refuse(c) PROVE StateTypeOK'
  <2>1. step' \in [Client -> {"idle", "asking", "answered", "backoff"}]
    BY <1>7 DEF Refuse, StateTypeOK
  <2>2. answer' \in [Client -> [result : Result, version : Nat, value : Value]]
    BY <1>7 DEF Refuse, StateTypeOK, Result
  <2>3. QED
    BY <1>7, <2>1, <2>2 DEF Refuse, StateTypeOK, serverVars, countVars
<1>8. ASSUME NEW c \in Client, Disconnect(c) PROVE StateTypeOK'
  <2>1. step' \in [Client -> {"idle", "asking", "answered", "backoff"}]
    BY <1>8 DEF Disconnect, StateTypeOK
  <2>2. stray' \subseteq Versioned
    BY <1>8 DEF Disconnect, StateTypeOK
  <2>3. drops' \in 0..MaxDrops
    BY <1>8, SessionStateAssumption DEF Disconnect, StateTypeOK
  <2>4. QED
    BY <1>8, <2>1, <2>2, <2>3 DEF Disconnect, StateTypeOK
<1>9. ASSUME NEW c \in Client, NEW v \in DOMAIN history, OnUpdateSession(c, v) PROVE StateTypeOK'
  <2>1. v \in Nat /\ history[v] \in Value
    BY DEF StateTypeOK
  <2>2. local' \in [Client -> Versioned]
    BY <1>9, <2>1, AdoptTypes DEF OnUpdateSession
  <2>3. QED
    BY <1>9, <2>2 DEF OnUpdateSession, StateTypeOK, serverVars, countVars
<1>10. ASSUME NEW r \in stray, HandleStray(r) PROVE StateTypeOK'
  <2>1. r \in Versioned /\ Store(r)
    BY <1>10 DEF HandleStray, StateTypeOK
  <2>2. history' \in Seq(Value)
    BY <2>1, StoreTypes
  <2>3. QED
    BY <1>10, <2>2 DEF HandleStray, StateTypeOK, clientVars, countVars
<1>11. CASE UNCHANGED stateVars
  BY <1>11 DEF StateTypeOK, stateVars, serverVars, clientVars, countVars
<1>12. QED
  BY <1>1, <1>2, <1>3, <1>4, <1>5, <1>6, <1>7, <1>8, <1>9, <1>10, <1>11 DEF StateNext, Run, Serve

---------------------------------------------------------------------------
(* What the server stores.                                                 *)

\* The versions that were there are there, as they were.
Extends ==
    /\ DOMAIN history \subseteq DOMAIN history'
    /\ \A v \in DOMAIN history : history'[v] = history[v]

\* A request that contains the version it was built on is stored only over the last
\* version, so the versions go on growing.
LEMMA StoreGrows ==
    ASSUME StateTypeOK, Len(history) >= 1, Growing, NEW r \in Versioned, IsBuilt(r), Store(r)
    PROVE  /\ Extends
           /\ Growing'
           /\ Len(history') >= 1
           /\ Stored.value \subseteq Stored'.value
           /\ IsStored(Stored)'
           /\ r.version = Len(history) => Stored'.value = r.value
<1>1. history \in Seq(Value) /\ r.value \in Value
  BY DEF StateTypeOK, Versioned
<1>2. CASE r.version = Len(history)
  <2>1. history' = Append(history, r.value)
    BY <1>2 DEF Store
  <2>2. /\ Len(history') = Len(history) + 1
        /\ \A v \in 1..Len(history) : history'[v] = history[v]
        /\ history'[Len(history) + 1] = r.value
        /\ DOMAIN history = 1..Len(history)
        /\ DOMAIN history' = 1..(Len(history) + 1)
    BY <1>1, <2>1
  <2>3. \A v \in 1..Len(history) : history[v] \subseteq r.value
    BY <1>1, <1>2, <2>2 DEF IsBuilt, Growing
  <2>4. ASSUME NEW v \in DOMAIN history', NEW w \in DOMAIN history', v <= w
        PROVE  history'[v] \subseteq history'[w]
    <3>1. CASE w = Len(history) + 1
      BY <1>1, <2>2, <2>3, <2>4, <3>1
    <3>2. CASE w \in 1..Len(history)
      BY <1>1, <2>2, <2>4, <3>2 DEF Growing
    <3>3. QED
      BY <1>1, <2>2, <3>1, <3>2
  <2>5. Growing'
    BY <2>4 DEF Growing
  <2>6. Extends
    BY <1>1, <2>2 DEF Extends
  <2>7. Stored'.value = r.value /\ Stored.value = history[Len(history)]
    BY <1>1, <2>2 DEF Stored
  <2>8. IsStored(Stored)'
    BY <1>1, <2>2 DEF IsStored, Stored
  <2>9. QED
    BY <1>1, <2>2, <2>3, <2>5, <2>6, <2>7, <2>8
<1>3. CASE r.version # Len(history)
  <2>1. history' = history
    BY <1>3 DEF Store
  <2>2. IsStored(Stored)
    BY <1>1 DEF IsStored, Stored
  <2>3. QED
    BY <1>3, <2>1, <2>2 DEF Extends, Growing, Stored, IsStored
<1>4. QED
  BY <1>2, <1>3

---------------------------------------------------------------------------
(* The invariant.                                                          *)

LEMMA InitIInv == StateInit => IInv
<1> SUFFICES ASSUME StateInit PROVE IInv
  OBVIOUS
<1>1. history = <<{}>> /\ Len(history) = 1 /\ DOMAIN history = {1} /\ history[1] = {}
  BY DEF StateInit
<1>2. Growing
  BY <1>1 DEF Growing
<1>3. \A c \in Client : local[c] = Blank /\ step[c] = "idle"
  BY DEF StateInit
<1>4. Copies
  BY <1>1, <1>3 DEF Copies, IsStored, Blank
<1>5. Built /\ InFront
  BY <1>3 DEF StateInit, Built, InFront
<1>6. DoneIsStored
  BY DEF StateInit, DoneIsStored
<1>7. QED
  BY <1>1, <1>2, <1>4, <1>5, <1>6, InitTypeOK DEF IInv

\* A step that leaves the server's history alone keeps what is said of it alone.
LEMMA SameHistory ==
    ASSUME IInv, UNCHANGED history
    PROVE  /\ Growing' /\ Len(history') >= 1
           /\ Stored' = Stored
           /\ \A r : IsStored(r) => r.version \in DOMAIN history' /\ r.value = history'[r.version]
BY DEF IInv, Growing, Stored, IsStored

LEMMA AskKeeps ==
    ASSUME IInv, NEW c \in Client, line[c] # << >>, Ask(c)
    PROVE  IInv'
<1> DEFINE r == [version |-> local[c].version,
                 value |-> local[c].value \union {Head(line[c])}]
<1>1. /\ request' = [request EXCEPT ![c] = r]
      /\ step' = [step EXCEPT ![c] = "asking"]
      /\ UNCHANGED <<history, stray, local, line, answer, done>>
  BY DEF Ask, Send, serverVars, countVars
<1>2. request \in [Client -> Versioned] /\ DOMAIN step = Client
  BY DEF IInv, StateTypeOK
<1>3. \A d \in Client \ {c} : step'[d] = step[d] /\ request'[d] = request[d]
  BY <1>1, <1>2
<1>4. step'[c] = "asking" /\ request'[c] = r
  BY <1>1, <1>2
<1>5. StateTypeOK'
  BY AskTypeOK DEF IInv
<1>6. Copies'
  BY <1>1, <1>3, <1>4 DEF IInv, Copies, IsStored
<1>7. IsBuilt(r) /\ Head(line[c]) \in r.value
  BY DEF IInv, Copies, IsStored, IsBuilt
<1>8. Built'
  BY <1>1, <1>3, <1>4, <1>7 DEF IInv, Built, IsBuilt
<1> HIDE DEF r
<1>9. InFront'
  BY <1>1, <1>3, <1>4, <1>7 DEF IInv, InFront
<1>10. DoneIsStored'
  BY <1>1 DEF IInv, DoneIsStored, Stored
<1>11. QED
  BY <1>1, <1>5, <1>6, <1>8, <1>9, <1>10, SameHistory DEF IInv

\* What becomes of InFront when the job in front of c's line ends.
LEMMA EndJobKeepsInFront ==
    ASSUME IInv, NEW c \in Client, line[c] # << >>, EndJob(c), UNCHANGED <<request, answer>>
    PROVE  /\ InFront'
           /\ \A d \in Client \ {c} : step'[d] = step[d]
           /\ step'[c] = "idle"
<1>1. DOMAIN step = Client /\ DOMAIN line = Client
  BY DEF IInv, StateTypeOK
<1>2. \A d \in Client \ {c} : step'[d] = step[d] /\ line'[d] = line[d]
  BY <1>1 DEF EndJob
<1>3. step'[c] = "idle"
  BY <1>1 DEF EndJob
<1>4. QED
  BY <1>2, <1>3 DEF IInv, InFront

\* Adopting a version that the server has stored.
LEMMA AdoptKeepsCopies ==
    ASSUME IInv, NEW c \in Client, NEW v \in DOMAIN history, Adopt(c, v, history[v])
    PROVE  \A d \in Client : IsStored(local'[d])
<1>1. local \in [Client -> Versioned]
  BY DEF IInv, StateTypeOK
<1>2. QED
  BY <1>1 DEF Adopt, IInv, Copies, IsStored

\* The history grows by a request; c's step and answer may be about to change with it.
LEMMA StoreKeeps ==
    ASSUME IInv, NEW r \in Versioned, IsBuilt(r), Store(r),
           UNCHANGED <<local, request, done>>, stray' \subseteq stray
    PROVE  /\ Growing' /\ Len(history') >= 1
           /\ \A c \in Client : IsStored(local[c])'
           /\ \A c \in Client : step[c] = "answered" /\ answer[c].result # "error" =>
                 answer[c].version \in DOMAIN history' /\ answer[c].value = history'[answer[c].version]
           /\ \A c \in Client : step[c] = "asking" => IsBuilt(request[c])'
           /\ \A q \in stray' : IsBuilt(q)'
           /\ DoneIsStored'
<1>1. /\ Extends
      /\ Growing'
      /\ Len(history') >= 1
      /\ Stored.value \subseteq Stored'.value
  BY StoreGrows DEF IInv
<1>2. \A c \in Client : IsStored(local[c])'
  BY <1>1 DEF IInv, Copies, IsStored, Extends
<1>3. \A c \in Client : step[c] = "answered" /\ answer[c].result # "error" =>
         answer[c].version \in DOMAIN history' /\ answer[c].value = history'[answer[c].version]
  BY <1>1 DEF IInv, Copies, IsStored, Extends
<1>4. \A c \in Client : step[c] = "asking" => IsBuilt(request[c])'
  BY <1>1 DEF IInv, Built, IsBuilt, Extends
<1>5. \A q \in stray' : IsBuilt(q)'
  BY <1>1 DEF IInv, Built, IsBuilt, Extends
<1>6. DoneIsStored'
  BY <1>1 DEF IInv, DoneIsStored
<1>7. QED
  BY <1>1, <1>2, <1>3, <1>4, <1>5, <1>6

LEMMA HandleKeeps ==
    ASSUME IInv, NEW c \in Client, Handle(c), StateTypeOK'
    PROVE  IInv'
<1> DEFINE r == request[c]
           Answer == [result |-> IF r.version = Len(history)
                                 THEN "success" ELSE "version-mismatch",
                      version |-> Stored'.version, value |-> Stored'.value]
<1>1. r \in Versioned /\ IsBuilt(r) /\ Store(r) /\ Head(line[c]) \in r.value /\ line[c] # << >>
  BY DEF Handle, IInv, StateTypeOK, Built, InFront
<1>2. /\ UNCHANGED <<stray, local, line, request, done>>
      /\ step' = [step EXCEPT ![c] = "answered"]
      /\ answer' = [answer EXCEPT ![c] = Answer]
  BY DEF Handle, countVars
<1>3. DOMAIN step = Client /\ DOMAIN answer = Client
  BY DEF IInv, StateTypeOK
<1>4. \A d \in Client \ {c} : step'[d] = step[d] /\ answer'[d] = answer[d]
  BY <1>2, <1>3
<1>5. step'[c] = "answered" /\ answer'[c] = Answer
  BY <1>2, <1>3
<1>6. /\ IsStored(Stored)'
      /\ r.version = Len(history) => Stored'.value = r.value
  BY <1>1, StoreGrows DEF IInv
<1>7. /\ Growing' /\ Len(history') >= 1
      /\ \A d \in Client : IsStored(local[d])'
      /\ \A d \in Client : step[d] = "answered" /\ answer[d].result # "error" =>
            answer[d].version \in DOMAIN history' /\ answer[d].value = history'[answer[d].version]
      /\ \A d \in Client : step[d] = "asking" => IsBuilt(request[d])'
      /\ \A q \in stray' : IsBuilt(q)'
      /\ DoneIsStored'
  BY <1>1, <1>2, StoreKeeps
<1>8. Copies'
  <2>1. IsStored(answer[c])'
    BY <1>5, <1>6 DEF IsStored
  <2>2. ASSUME NEW d \in Client \ {c}, step'[d] = "answered", answer'[d].result # "error"
        PROVE  IsStored(answer[d])'
    BY <1>4, <1>7, <2>2 DEF IsStored
  <2>3. QED
    BY <1>7, <2>1, <2>2 DEF Copies
<1>9. Built'
  BY <1>4, <1>5, <1>7 DEF Built
<1>10. InFront'
  BY <1>1, <1>2, <1>4, <1>5, <1>6 DEF IInv, InFront
<1>11. QED
  BY <1>7, <1>8, <1>9, <1>10 DEF IInv

LEMMA NextIInv ==
    ASSUME IInv, [StateNext]_stateVars
    PROVE  IInv'
<1>1. StateTypeOK'
  BY NextTypeOK DEF IInv
<1>2. DOMAIN step = Client /\ DOMAIN line = Client /\ DOMAIN answer = Client /\ DOMAIN local = Client
  BY DEF IInv, StateTypeOK
<1>3. ASSUME NEW c \in Client, UpdateState(c) PROVE IInv'
  <2>1. UNCHANGED <<history, stray, local, step, request, answer, done>>
    BY <1>3 DEF UpdateState, serverVars
  <2>2. \A d \in Client : line[d] # << >> => line'[d] # << >> /\ Head(line'[d]) = Head(line[d])
    <3>1. line' = [line EXCEPT ![c] = Append(line[c], Len(made'))] /\ line[c] \in Seq(Update)
      BY <1>3 DEF UpdateState, IInv, StateTypeOK
    <3>2. made' \in Seq(Client) /\ Len(made') \in Update
      BY <1>3, SessionStateAssumption DEF UpdateState, IInv, StateTypeOK, Update
    <3>3. line[c] # << >> => /\ Append(line[c], Len(made')) # << >>
                             /\ Head(Append(line[c], Len(made'))) = Head(line[c])
      BY <3>1, <3>2
    <3>4. QED
      BY <1>2, <3>1, <3>3
  <2>3. InFront'
    BY <2>1, <2>2 DEF IInv, InFront
  <2>4. QED
    BY <1>1, <2>1, <2>3 DEF IInv, Growing, Copies, Built, IsStored, IsBuilt, DoneIsStored, Stored
<1>4. ASSUME NEW c \in Client, Begin(c) \/ Retry(c) PROVE IInv'
  <2>1. line[c] # << >> /\ Ask(c)
    BY <1>4 DEF Begin, Retry, IInv, InFront
  <2>2. QED
    BY <2>1, AskKeeps
<1>5. ASSUME NEW c \in Client, OnSuccess(c) PROVE IInv'
  <2>1. /\ line[c] # << >> /\ EndJob(c)
        /\ answer[c].version \in DOMAIN history /\ answer[c].value = history[answer[c].version]
        /\ Head(line[c]) \in answer[c].value
    BY <1>5 DEF OnSuccess, IInv, InFront, Copies, IsStored
  <2>2. /\ UNCHANGED <<history, stray, request, answer>>
        /\ done' = done \union {Head(line[c])}
        /\ local' = [local EXCEPT ![c] = [version |-> answer[c].version, value |-> answer[c].value]]
    BY <1>5 DEF OnSuccess, serverVars
  <2>3. InFront' /\ step'[c] = "idle" /\ \A d \in Client \ {c} : step'[d] = step[d]
    BY <2>1, <2>2, EndJobKeepsInFront
  <2>4. \A d \in Client : IsStored(local[d])'
    BY <1>2, <2>1, <2>2 DEF IInv, Copies, IsStored
  <2>5. Copies'
    BY <2>2, <2>3, <2>4 DEF IInv, Copies, IsStored
  <2>6. Built'
    BY <2>2, <2>3 DEF IInv, Built, IsBuilt
  <2>7. DoneIsStored'
    \* What the answer contains, the last version contains.
    <3>1. history \in Seq(Value) /\ Len(history) >= 1
      BY DEF IInv, StateTypeOK
    <3>2. answer[c].value \subseteq history[Len(history)]
      BY <2>1, <3>1 DEF IInv, Growing
    <3>3. QED
      BY <2>1, <2>2, <3>2 DEF IInv, DoneIsStored, Stored
  <2>8. QED
    BY <1>1, <2>2, <2>3, <2>5, <2>6, <2>7, SameHistory DEF IInv
<1>6. ASSUME NEW c \in Client, OnMismatch(c) PROVE IInv'
  <2>1. /\ answer[c].version \in DOMAIN history
        /\ Adopt(c, answer[c].version, history[answer[c].version])
    BY <1>6 DEF OnMismatch, IInv, Copies, IsStored
  <2>2. /\ UNCHANGED <<history, stray, line, request, answer, done>>
        /\ step' = [step EXCEPT ![c] = "backoff"]
    BY <1>6 DEF OnMismatch, serverVars, countVars
  <2>3. /\ step'[c] = "backoff" /\ step[c] = "answered"
        /\ \A d \in Client \ {c} : step'[d] = step[d]
    BY <1>2, <1>6, <2>2 DEF OnMismatch
  <2>4. Copies'
    BY <2>1, <2>2, <2>3, AdoptKeepsCopies DEF IInv, Copies, IsStored
  <2>5. Built' /\ InFront'
    BY <2>2, <2>3 DEF IInv, Built, IsBuilt, InFront
  <2>6. DoneIsStored'
    BY <2>2 DEF IInv, DoneIsStored, Stored
  <2>7. QED
    BY <1>1, <2>2, <2>4, <2>5, <2>6, SameHistory DEF IInv
<1>7. ASSUME NEW c \in Client, OnError(c) PROVE IInv'
  <2>1. line[c] # << >> /\ EndJob(c) /\ UNCHANGED <<history, stray, local, request, answer, done>>
    BY <1>7 DEF OnError, IInv, InFront, serverVars
  <2>2. InFront' /\ step'[c] = "idle" /\ \A d \in Client \ {c} : step'[d] = step[d]
    BY <2>1, EndJobKeepsInFront
  <2>3. Copies' /\ Built' /\ DoneIsStored'
    BY <2>1, <2>2 DEF IInv, Copies, IsStored, Built, IsBuilt, DoneIsStored, Stored
  <2>4. QED
    BY <1>1, <2>1, <2>2, <2>3, SameHistory DEF IInv
<1>8. ASSUME NEW c \in Client, Handle(c) PROVE IInv'
  BY <1>1, <1>8, HandleKeeps
<1>9. ASSUME NEW c \in Client, Refuse(c) PROVE IInv'
  <2>1. /\ UNCHANGED <<history, stray, local, line, request, done>>
        /\ step' = [step EXCEPT ![c] = "answered"]
        /\ answer' = [answer EXCEPT ![c].result = "error"]
        /\ step[c] = "asking"
    BY <1>9 DEF Refuse, serverVars, countVars
  <2>2. /\ step'[c] = "answered" /\ answer'[c].result = "error"
        /\ \A d \in Client \ {c} : step'[d] = step[d] /\ answer'[d] = answer[d]
    <3>1. answer[c] \in [result : Result, version : Nat, value : Value]
      BY DEF IInv, StateTypeOK
    <3>2. QED
      BY <1>2, <2>1, <3>1
  <2>3. Copies' /\ Built' /\ DoneIsStored'
    BY <2>1, <2>2 DEF IInv, Copies, IsStored, Built, IsBuilt, DoneIsStored, Stored
  <2>4. InFront'
    BY <2>1, <2>2 DEF IInv, InFront
  <2>5. QED
    BY <1>1, <2>1, <2>3, <2>4, SameHistory DEF IInv
<1>10. ASSUME NEW c \in Client, Disconnect(c) PROVE IInv'
  <2>1. /\ UNCHANGED <<history, local, line, request, answer, done>>
        /\ stray' = IF step[c] = "asking" THEN stray \union {request[c]} ELSE stray
        /\ step' = [step EXCEPT ![c] = "backoff"]
        /\ step[c] \in {"asking", "answered"}
    BY <1>10 DEF Disconnect
  <2>2. step'[c] = "backoff" /\ \A d \in Client \ {c} : step'[d] = step[d]
    BY <1>2, <2>1
  <2>3. Copies' /\ InFront' /\ DoneIsStored'
    BY <2>1, <2>2 DEF IInv, Copies, IsStored, InFront, DoneIsStored, Stored
  <2>4. Built'
    BY <2>1, <2>2 DEF IInv, Built, IsBuilt
  <2>5. QED
    BY <1>1, <2>1, <2>3, <2>4, SameHistory DEF IInv
<1>11. ASSUME NEW c \in Client, NEW v \in DOMAIN history, OnUpdateSession(c, v) PROVE IInv'
  <2>1. /\ Adopt(c, v, history[v])
        /\ UNCHANGED <<history, stray, line, step, request, answer, done>>
    BY <1>11 DEF OnUpdateSession, serverVars, countVars
  <2>2. Copies'
    BY <2>1, AdoptKeepsCopies DEF IInv, Copies, IsStored
  <2>3. Built' /\ InFront' /\ DoneIsStored'
    BY <2>1 DEF IInv, Built, IsBuilt, InFront, DoneIsStored, Stored
  <2>4. QED
    BY <1>1, <2>1, <2>2, <2>3, SameHistory DEF IInv
<1>12. ASSUME NEW r \in stray, HandleStray(r) PROVE IInv'
  <2>1. /\ r \in Versioned /\ IsBuilt(r) /\ Store(r)
        /\ stray' \subseteq stray
        /\ UNCHANGED <<local, line, step, request, answer, done>>
    BY <1>12 DEF HandleStray, IInv, StateTypeOK, Built, clientVars, countVars
  <2>2. /\ Growing' /\ Len(history') >= 1
        /\ \A d \in Client : IsStored(local[d])'
        /\ \A d \in Client : step[d] = "answered" /\ answer[d].result # "error" =>
              answer[d].version \in DOMAIN history' /\ answer[d].value = history'[answer[d].version]
        /\ \A d \in Client : step[d] = "asking" => IsBuilt(request[d])'
        /\ \A q \in stray' : IsBuilt(q)'
        /\ DoneIsStored'
    BY <2>1, StoreKeeps
  <2>3. Copies'
    BY <2>1, <2>2 DEF Copies, IsStored
  <2>4. Built'
    BY <2>1, <2>2 DEF Built
  <2>5. InFront'
    BY <2>1 DEF IInv, InFront
  <2>6. QED
    BY <1>1, <2>2, <2>3, <2>4, <2>5 DEF IInv
<1>13. CASE UNCHANGED stateVars
  BY <1>1, <1>13 DEF stateVars, serverVars, clientVars, countVars, IInv, Growing, Copies, Built,
     IsStored, IsBuilt, InFront, DoneIsStored, Stored
<1>14. QED
  BY <1>3, <1>4, <1>5, <1>6, <1>7, <1>8, <1>9, <1>10, <1>11, <1>12, <1>13 DEF StateNext, Run, Serve

LEMMA Invariance == StateSpec => []IInv
<1>1. IInv /\ [StateNext]_stateVars => IInv'
  BY NextIInv
<1>2. QED
  BY <1>1, InitIInv, PTL DEF StateSpec

---------------------------------------------------------------------------
(* The theorems.                                                           *)

\* The variables keep their types.
THEOREM StateTypeCorrect == StateSpec => []StateTypeOK
<1>1. IInv => StateTypeOK
  BY DEF IInv
<1>2. QED
  BY <1>1, Invariance, PTL

\* No writer overwrites another, however many they are and whatever is lost or repeated.
THEOREM NoLostUpdate == StateSpec => []NothingIsOverwritten
<1>1. IInv => NothingIsOverwritten
  <2> SUFFICES ASSUME IInv, NEW v \in 1..(Len(history) - 1)
               PROVE  history[v] \subseteq history[v + 1]
    BY DEF NothingIsOverwritten
  <2>2. history \in Seq(Value)
    BY DEF IInv, StateTypeOK
  <2>3. DOMAIN history = 1..Len(history) /\ Len(history) \in Nat
    BY <2>2
  <2>4. v \in DOMAIN history /\ v + 1 \in DOMAIN history /\ v <= v + 1
    BY <2>3
  <2>5. \A x, y \in DOMAIN history : x <= y => history[x] \subseteq history[y]
    BY DEF IInv, Growing
  <2>6. QED
    BY <2>4, <2>5
<1>2. QED
  BY <1>1, Invariance, PTL

\* An update whose job has ended with success is in every later version.
THEOREM SuccessIsForGood == StateSpec => []DoneIsStored
<1>1. IInv => DoneIsStored
  BY DEF IInv
<1>2. QED
  BY <1>1, Invariance, PTL

---------------------------------------------------------------------------
(* MessageLog. *)

\* In the log lg, e is what an entry of the chain t would have for a parent: the last of
\* its chain, or none.
ParentFor(lg, t, e) ==
    \/ e = 0 /\ \A k \in DOMAIN lg : lg[k].chain # t
    \/ e \in DOMAIN lg /\ lg[e].chain = t /\ \A k \in DOMAIN lg : lg[k].chain = t => k <= e

\* SidechainsAreChains, without the choice.
Linked(lg) ==
    \A n \in DOMAIN lg : lg[n].chain # Main =>
        \/ lg[n].parent = 0 /\ \A k \in 1..(n - 1) : lg[k].chain # lg[n].chain
        \/ /\ lg[n].parent \in 1..(n - 1) /\ lg[lg[n].parent].chain = lg[n].chain
           /\ \A k \in 1..(n - 1) : lg[k].chain = lg[n].chain => k <= lg[n].parent

\* What the converter leaves.
Chained(c) ==
    /\ c \in [last : Nat, sides : [Task -> Nat], log : Seq(Entry)]
    /\ c.last <= Len(c.log)
    /\ \A t \in Task : ParentFor(c.log, t, c.sides[t])
    /\ Linked(c.log)

\* What an entry is labelled with.
Labels ==
    /\ contextId \in Session \union {"unknown"}
    /\ {sessionId, previousSessionId} \subseteq Session \union {"none"}
    /\ claude \in Session \union {"none"}
    /\ greeted \in BOOLEAN
    /\ starts \in 0..MaxStarts

LogInv ==
    /\ Labels
    /\ ongoingCalls \in Seq([call : Task, parent : Chain])
    /\ Len(log) <= MaxEntries
    /\ Chained(Now)

\* An entry with the parent that is due to it.
LEMMA LinkedOn ==
    ASSUME NEW lg \in Seq(Entry), Linked(lg), NEW e \in Entry,
           e.chain # Main => ParentFor(lg, e.chain, e.parent)
    PROVE  /\ Append(lg, e) \in Seq(Entry) /\ Len(Append(lg, e)) = Len(lg) + 1
           /\ Linked(Append(lg, e))
           /\ ParentFor(Append(lg, e), e.chain, Len(lg) + 1)
           /\ \A t, x : t # e.chain /\ ParentFor(lg, t, x) => ParentFor(Append(lg, e), t, x)
<1> DEFINE lg2 == Append(lg, e)
<1>1. /\ lg2 \in Seq(Entry) /\ Len(lg2) = Len(lg) + 1 /\ Len(lg) \in Nat
      /\ DOMAIN lg = 1..Len(lg) /\ DOMAIN lg2 = 1..(Len(lg) + 1)
      /\ \A k \in 1..Len(lg) : lg2[k] = lg[k]
      /\ lg2[Len(lg) + 1] = e
  OBVIOUS
<1> HIDE DEF lg2
<1>2. Linked(lg2)
  <2> SUFFICES ASSUME NEW n \in DOMAIN lg2, lg2[n].chain # Main
               PROVE  \/ lg2[n].parent = 0 /\ \A k \in 1..(n - 1) : lg2[k].chain # lg2[n].chain
                      \/ /\ lg2[n].parent \in 1..(n - 1) /\ lg2[lg2[n].parent].chain = lg2[n].chain
                         /\ \A k \in 1..(n - 1) : lg2[k].chain = lg2[n].chain => k <= lg2[n].parent
    BY DEF Linked
  <2>1. CASE n \in 1..Len(lg)
    <3>1. lg2[n] = lg[n] /\ \A k \in 1..(n - 1) : lg2[k] = lg[k] /\ k \in DOMAIN lg
      BY <1>1, <2>1
    <3>2. QED
      BY <1>1, <2>1, <3>1 DEF Linked
  <2>2. CASE n = Len(lg) + 1
    BY <1>1, <2>2 DEF ParentFor
  <2>3. QED
    BY <1>1, <2>1, <2>2
<1>3. ParentFor(lg2, e.chain, Len(lg) + 1)
  BY <1>1 DEF ParentFor
<1>4. ASSUME NEW t, NEW x, t # e.chain, ParentFor(lg, t, x) PROVE ParentFor(lg2, t, x)
  BY <1>1, <1>4 DEF ParentFor
<1>5. QED
  BY <1>1, <1>2, <1>3, <1>4 DEF lg2

\* Both ways to make an entry.
LEMMA ConvertKeeps ==
    ASSUME Labels, claude # "none", NEW c, Chained(c), NEW chain \in Chain
    PROVE  Chained(Convert(c, chain))
<1> DEFINE e == [parent |-> ParentIn(c, chain), chain |-> chain, label |-> contextId, of |-> claude]
<1>1. c.last \in Nat /\ c.sides \in [Task -> Nat] /\ c.log \in Seq(Entry) /\ Linked(c.log)
      /\ Len(c.log) \in Nat
  BY DEF Chained
<1>2. ParentIn(c, chain) \in Nat
  BY <1>1 DEF ParentIn, Chain
<1>3. e \in Entry
  BY <1>2 DEF Entry, Labels
<1>4. chain # Main => ParentFor(c.log, chain, ParentIn(c, chain))
  BY DEF Chained, ParentIn, Chain
<1>5. e.chain = chain /\ e.parent = ParentIn(c, chain) /\ AppendTo(c, ParentIn(c, chain), chain) = Append(c.log, e)
  BY DEF AppendTo
<1> HIDE DEF e
<1>6. /\ Append(c.log, e) \in Seq(Entry) /\ Len(Append(c.log, e)) = Len(c.log) + 1
      /\ Linked(Append(c.log, e))
      /\ ParentFor(Append(c.log, e), chain, Len(c.log) + 1)
      /\ \A t, x : t # chain /\ ParentFor(c.log, t, x) => ParentFor(Append(c.log, e), t, x)
  BY <1>1, <1>3, <1>4, <1>5, LinkedOn
<1>7. SidesAfter(c, chain) \in [Task -> Nat]
  <2>1. Len(c.log) + 1 \in Nat
    BY <1>1
  <2>2. QED
    BY <1>1, <2>1 DEF SidesAfter
<1>8. ASSUME NEW t \in Task PROVE ParentFor(Append(c.log, e), t, SidesAfter(c, chain)[t])
  <2>1. Main # t
    BY MessageLogAssumption DEF Main
  <2>2. ParentFor(c.log, t, c.sides[t])
    BY DEF Chained
  <2>3. SidesAfter(c, chain)[t] = IF t = chain THEN Len(c.log) + 1 ELSE c.sides[t]
    BY <1>1, <2>1 DEF SidesAfter
  <2>4. QED
    BY <1>6, <2>2, <2>3
<1>9. QED
  BY <1>1, <1>5, <1>6, <1>7, <1>8 DEF Convert, Chained

LEMMA StartKeeps ==
    ASSUME Labels, claude # "none", NEW c, Chained(c), NEW t \in Task,
           \A k \in DOMAIN c.log : c.log[k].chain # t
    PROVE  Chained(ConvertSidechainUserMessage(c, t))
<1> DEFINE e == [parent |-> 0, chain |-> t, label |-> contextId, of |-> claude]
           d == ConvertSidechainUserMessage(c, t)
<1>1. c.last \in Nat /\ c.sides \in [Task -> Nat] /\ c.log \in Seq(Entry) /\ Linked(c.log)
      /\ Len(c.log) \in Nat /\ c \in [last : Nat, sides : [Task -> Nat], log : Seq(Entry)]
      /\ c.last <= Len(c.log)
  BY DEF Chained
<1>2. e \in Entry /\ e.chain = t /\ e.parent = 0 /\ AppendTo(c, 0, t) = Append(c.log, e)
  BY DEF Entry, Labels, Chain, AppendTo
<1>3. ParentFor(c.log, t, 0)
  BY DEF ParentFor
<1> HIDE DEF e
<1>4. /\ Append(c.log, e) \in Seq(Entry) /\ Len(Append(c.log, e)) = Len(c.log) + 1
      /\ Linked(Append(c.log, e))
      /\ ParentFor(Append(c.log, e), t, Len(c.log) + 1)
      /\ \A u, x : u # t /\ ParentFor(c.log, u, x) => ParentFor(Append(c.log, e), u, x)
  BY <1>1, <1>2, <1>3, LinkedOn
<1>5. SidesAfter(c, t) \in [Task -> Nat]
  BY <1>1 DEF SidesAfter
<1>6. ASSUME NEW u \in Task PROVE ParentFor(Append(c.log, e), u, SidesAfter(c, t)[u])
  <2>1. Main # t
    BY MessageLogAssumption DEF Main
  <2>2. ParentFor(c.log, u, c.sides[u])
    BY DEF Chained
  <2>3. SidesAfter(c, t)[u] = IF u = t THEN Len(c.log) + 1 ELSE c.sides[u]
    BY <1>1, <2>1 DEF SidesAfter
  <2>4. QED
    BY <1>4, <2>2, <2>3
<1>7. d \in [last : Nat, sides : [Task -> Nat], log : Seq(Entry)] /\ d.last = c.last
      /\ d.sides = SidesAfter(c, t) /\ d.log = Append(c.log, e)
  BY <1>1, <1>2, <1>4, <1>5 DEF ConvertSidechainUserMessage
<1> HIDE DEF d
<1>8. Chained(d)
  BY <1>1, <1>4, <1>6, <1>7 DEF Chained
<1>9. QED
  BY <1>8 DEF d

---------------------------------------------------------------------------
(* What an interruption leaves.                                            *)

LEMMA InterruptedIsChained ==
    ASSUME LogInv, claude # "none"
    PROVE  Chained(Interrupted)
<1> DEFINE q == ongoingCalls
           Step(f, i) == IF i = 0 THEN Now ELSE Convert(f[i - 1], q[i].parent)
           E(f, n) == f = [i \in 0..n |-> Step(f, i)]
           S == {n \in Nat : n <= Len(q) => \E f : E(f, n) /\ \A i \in 0..n : Chained(f[i])}
<1>1. Len(q) \in Nat /\ \A i \in 1..Len(q) : q[i].parent \in Chain
  <2> DEFINE Ongoing == [call : Task, parent : Chain]
  <2>1. q \in Seq(Ongoing)
    BY DEF LogInv
  <2> HIDE DEF Ongoing
  <2>2. Len(q) \in Nat /\ \A i \in 1..Len(q) : q[i] \in Ongoing
    BY <2>1
  <2>3. QED
    BY <2>2 DEF Ongoing
<1>2. 0 \in S
  <2> DEFINE f == [i \in 0..0 |-> Now]
  <2>1. E(f, 0) /\ \A i \in 0..0 : Chained(f[i])
    BY DEF LogInv
  <2>2. QED
    BY <2>1
<1>3. ASSUME NEW n \in Nat, n \in S PROVE n + 1 \in S
  <2> SUFFICES ASSUME n + 1 <= Len(q)
               PROVE  \E f : E(f, n + 1) /\ \A i \in 0..(n + 1) : Chained(f[i])
    OBVIOUS
  <2>1. PICK f : E(f, n) /\ \A i \in 0..n : Chained(f[i])
    BY <1>1, <1>3
  <2> DEFINE last == Convert(f[n], q[n + 1].parent)
             g == [i \in 0..(n + 1) |-> IF i = n + 1 THEN last ELSE f[i]]
  <2>2. Chained(last)
    <3>1. Chained(f[n]) /\ q[n + 1].parent \in Chain
      BY <1>1, <2>1
    <3>2. QED
      BY <3>1, ConvertKeeps DEF LogInv
  <2>3. \A i \in 0..(n + 1) : Chained(g[i])
    BY <2>1, <2>2
  <2>4. ASSUME NEW i \in 0..(n + 1) PROVE g[i] = Step(g, i)
    <3>1. CASE i = 0
      BY <2>1, <3>1
    <3>2. CASE i \in 1..n
      <4>1. g[i] = f[i] /\ g[i - 1] = f[i - 1]
        BY <3>2
      <4>2. f[i] = Step(f, i)
        BY <2>1, <3>2
      <4>3. QED
        BY <3>2, <4>1, <4>2
    <3>3. CASE i = n + 1
      <4>1. g[i] = last /\ g[i - 1] = f[n]
        BY <3>3
      <4>2. QED
        BY <3>3, <4>1
    <3>4. QED
      BY <3>1, <3>2, <3>3
  <2>5. g = [i \in 0..(n + 1) |-> g[i]]
    OBVIOUS
  <2> HIDE DEF g, Step
  <2>6. E(g, n + 1)
    BY <2>4, <2>5
  <2>7. QED
    BY <2>3, <2>6
<1>4. PICK f : E(f, Len(q))
  <2> HIDE DEF S
  <2>1. Len(q) \in S
    BY <1>1, <1>2, <1>3, SetInduction
  <2>2. QED
    BY <2>1, <1>1 DEF S
<1> DEFINE h == CHOOSE e : E(e, Len(q))
<1>5. E(h, Len(q))
  <2> HIDE DEF E
  <2>1. QED
    BY <1>4
<1>6. Interrupted = h[Len(q)]
  BY DEF Interrupted
<1> HIDE DEF h
<1>7. h[0] = Now /\ \A i \in 1..Len(q) : h[i] = Convert(h[i - 1], q[i].parent)
  BY <1>1, <1>5
<1> DEFINE C == {n \in Nat : n <= Len(q) => Chained(h[n])}
<1>8. 0 \in C
  BY <1>7 DEF LogInv
<1>9. ASSUME NEW n \in Nat, n \in C PROVE n + 1 \in C
  <2> SUFFICES ASSUME n + 1 <= Len(q) PROVE Chained(h[n + 1])
    OBVIOUS
  <2>1. Chained(h[n]) /\ n + 1 \in 1..Len(q) /\ (n + 1) - 1 = n
    BY <1>1, <1>9
  <2>2. QED
    BY <1>1, <1>7, <2>1, ConvertKeeps DEF LogInv
<1>10. QED
  <2> HIDE DEF C
  <2>1. Len(q) \in C
    BY <1>1, <1>8, <1>9, SetInduction
  <2>2. QED
    BY <2>1, <1>1, <1>6 DEF C

---------------------------------------------------------------------------
(* The invariant.                                                          *)

\* At the start there is no entry.
LEMMA LogInitInv == MessageLogInit => LogInv
<1> SUFFICES ASSUME MessageLogInit PROVE LogInv
  OBVIOUS
<1>1. Labels /\ ongoingCalls \in Seq([call : Task, parent : Chain]) /\ Len(log) <= MaxEntries
  <2>1. Labels
    <3>1. starts \in 0..MaxStarts
      BY MessageLogAssumption DEF MessageLogInit
    <3>2. QED
      BY <3>1, Zenon DEF MessageLogInit, Labels
  <2>2. ongoingCalls = << >> /\ log = << >>
    BY DEF MessageLogInit
  <2>3. QED
    BY <2>1, <2>2, MessageLogAssumption
<1>2. Now \in [last : Nat, sides : [Task -> Nat], log : Seq(Entry)]
  BY DEF MessageLogInit, Now
<1>3. Now.log = << >> /\ Now.last = 0 /\ \A t \in Task : Now.sides[t] = 0
  BY DEF MessageLogInit, Now
<1>4. QED
  BY <1>1, <1>2, <1>3 DEF LogInv, Chained, ParentFor, Linked

\* Taking over what the converter leaves.
LEMMA BecomesChained ==
    ASSUME NEW c, Chained(c), Becomes(c)
    PROVE  Chained(Now)' /\ Len(log') <= MaxEntries
<1>1. c \in [last : Nat, sides : [Task -> Nat], log : Seq(Entry)]
  BY DEF Chained
<1>2. Now' = c
  BY <1>1 DEF Becomes, Now
<1>3. QED
  BY <1>2 DEF Becomes, Chained, ParentFor, Linked

\* A launch may forget the last entry.
LEMMA ForgetsTheLast ==
    ASSUME LogInv, lastUuid' \in {0, lastUuid}, UNCHANGED <<sidechainLastUuid, log>>
    PROVE  Chained(Now)' /\ Len(log') <= MaxEntries
<1>1. lastUuid \in Nat /\ lastUuid <= Len(log) /\ log \in Seq(Entry) /\ sidechainLastUuid \in [Task -> Nat]
      /\ (\A t \in Task : ParentFor(log, t, sidechainLastUuid[t])) /\ Linked(log) /\ Len(log) <= MaxEntries
  BY DEF LogInv, Chained, Now
<1>2. Now' = [last |-> lastUuid', sides |-> sidechainLastUuid, log |-> log] /\ log' = log
  BY DEF Now
<1>3. lastUuid' \in Nat /\ lastUuid' <= Len(log)
  BY <1>1
<1>4. Chained([last |-> lastUuid', sides |-> sidechainLastUuid, log |-> log])
  BY <1>1, <1>3 DEF Chained
<1>5. QED
  BY <1>1, <1>2, <1>4 DEF Chained, ParentFor, Linked

\* The parts of the log that are not in a record.
LEMMA NowIsChained ==
    ASSUME LogInv
    PROVE  Chained(Now) /\ log \in Seq(Entry) /\ Now.log = log
BY DEF LogInv, Chained, Now

\* A Task call's prompt starts a chain that has no entry yet.
LEMMA TaskKeeps ==
    ASSUME LogInv, claude # "none", NEW chain \in Chain, NEW t \in Task, NEW prompted \in BOOLEAN,
           Speaks(chain), t \notin Made \union Calls,
           Becomes(IF prompted THEN ConvertSidechainUserMessage(Convert(Now, chain), t)
                               ELSE Convert(Now, chain))
    PROVE  Chained(Now)' /\ Len(log') <= MaxEntries
<1> DEFINE c == Convert(Now, chain)
           e == [parent |-> ParentIn(Now, chain), chain |-> chain, label |-> contextId, of |-> claude]
<1>1. Chained(c)
  BY NowIsChained, ConvertKeeps DEF LogInv
<1>2. chain # t
  BY MessageLogAssumption DEF Speaks, Main
<1>3. \A k \in DOMAIN c.log : c.log[k].chain # t
  <2>1. c.log = Append(log, e) /\ e.chain = chain
    BY NowIsChained DEF Convert, AppendTo
  <2>2. \A k \in DOMAIN log : log[k].chain # t
    BY DEF Made
  <2> HIDE DEF e
  <2>3. log \in Seq(Entry)
    BY NowIsChained
  <2>4. DOMAIN Append(log, e) = 1..(Len(log) + 1) /\ Append(log, e)[Len(log) + 1] = e
        /\ \A k \in 1..Len(log) : k \in DOMAIN log /\ Append(log, e)[k] = log[k]
    BY <2>3
  <2>5. \A k \in 1..(Len(log) + 1) : k = Len(log) + 1 \/ k \in 1..Len(log)
    BY <2>3
  <2> HIDE DEF c
  <2>6. QED
    BY <1>2, <2>1, <2>2, <2>4, <2>5
<1>4. Chained(ConvertSidechainUserMessage(c, t))
  <2> HIDE DEF c
  <2>1. QED
    BY <1>1, <1>3, StartKeeps DEF LogInv
<1>5. QED
  BY <1>1, <1>4, BecomesChained

\* One call less is a sequence of calls.
LEMMA OneRemoved ==
    ASSUME NEW S, NEW q \in Seq(S), NEW i \in DOMAIN q
    PROVE  RemoveAt(q, i) \in Seq(S)
<1>1. SubSeq(q, 1, i - 1) \in Seq(S) /\ SubSeq(q, i + 1, Len(q)) \in Seq(S)
  OBVIOUS
<1>2. QED
  BY <1>1 DEF RemoveAt

\* Every step keeps the invariant.
LEMMA LogNextInv ==
    ASSUME LogInv, [MessageLogNext]_messageLogVars
    PROVE  LogInv'
<1> DEFINE Ongoing == [call : Task, parent : Chain]
<1>1. Labels /\ ongoingCalls \in Seq(Ongoing)
  BY DEF LogInv
<1>2. \A i \in DOMAIN ongoingCalls : ongoingCalls[i] \in Ongoing
  <2> HIDE DEF Ongoing
  <2>1. QED
    BY <1>1
<1>3. Main \in Chain
  BY DEF Chain
<1>4. Labels'
  <2> USE <1>1 DEF Labels, launcherVars, converterVars
  <2>1. ASSUME NEW s \in Session, Launch(s) PROVE Labels'
    <3>1. starts' \in 0..MaxStarts
      BY <2>1, MessageLogAssumption DEF Launch
    <3>2. QED
      BY <2>1, <3>1 DEF Launch
  <2>2. CASE OnInit \/ SessionIdFound \/ LaunchEnds \/ OnSessionReset
    BY <2>2 DEF OnInit, SessionIdFound, LaunchEnds, OnSessionReset
  <2>3. CASE \/ \E chain \in Chain : OnText(chain)
             \/ \E chain \in Chain, t \in Task, prompted \in BOOLEAN : OnTask(chain, t, prompted)
             \/ \E i \in DOMAIN ongoingCalls : OnTaskResult(i)
    BY <2>3 DEF OnText, OnTask, OnTaskResult
  <2>4. CASE UNCHANGED messageLogVars
    BY <2>4 DEF messageLogVars
  <2>5. QED
    BY <2>1, <2>2, <2>3, <2>4 DEF MessageLogNext
<1>5. ongoingCalls' \in Seq(Ongoing)
  <2>1. CASE UNCHANGED ongoingCalls
    BY <1>1, <2>1
  <2>2. CASE LaunchEnds
    BY <2>2 DEF LaunchEnds
  <2>3. ASSUME NEW chain \in Chain, NEW t \in Task, NEW prompted \in BOOLEAN, OnTask(chain, t, prompted)
        PROVE  ongoingCalls' \in Seq(Ongoing)
    <3>1. [call |-> t, parent |-> chain] \in Ongoing
      OBVIOUS
    <3>2. ongoingCalls' = Append(ongoingCalls, [call |-> t, parent |-> chain])
      BY <2>3 DEF OnTask
    <3> HIDE DEF Ongoing
    <3>3. QED
      BY <1>1, <3>1, <3>2
  <2>4. ASSUME NEW i \in DOMAIN ongoingCalls, OnTaskResult(i) PROVE ongoingCalls' \in Seq(Ongoing)
    BY <1>1, <2>4, OneRemoved DEF OnTaskResult
  <2>5. QED
    BY <2>1, <2>2, <2>3, <2>4
    DEF MessageLogNext, Launch, OnInit, SessionIdFound, OnSessionReset, OnText, messageLogVars
<1>6. Chained(Now)' /\ Len(log') <= MaxEntries
  <2>1. ASSUME NEW s \in Session, Launch(s) PROVE Chained(Now)' /\ Len(log') <= MaxEntries
    BY <2>1, ForgetsTheLast DEF Launch
  <2>2. CASE SessionIdFound \/ OnSessionReset \/ UNCHANGED messageLogVars
    BY <2>2, ForgetsTheLast DEF SessionIdFound, OnSessionReset, messageLogVars, converterVars
  <2>3. CASE OnInit
    <3>1. claude # "none" /\ Becomes(Convert(Now, Main))
      BY <2>3 DEF OnInit
    <3>2. QED
      BY <1>1, <1>3, <3>1, NowIsChained, ConvertKeeps, BecomesChained
  <2>4. CASE LaunchEnds
    BY <2>4, InterruptedIsChained, BecomesChained DEF LaunchEnds
  <2>5. ASSUME NEW chain \in Chain, OnText(chain) PROVE Chained(Now)' /\ Len(log') <= MaxEntries
    <3>1. claude # "none" /\ Becomes(Convert(Now, chain))
      BY <2>5 DEF OnText, Speaks, Reads
    <3>2. QED
      BY <1>1, <3>1, NowIsChained, ConvertKeeps, BecomesChained
  <2>6. ASSUME NEW chain \in Chain, NEW t \in Task, NEW prompted \in BOOLEAN, OnTask(chain, t, prompted)
        PROVE  Chained(Now)' /\ Len(log') <= MaxEntries
    BY <2>6, TaskKeeps DEF OnTask, Speaks, Reads
  <2>7. ASSUME NEW i \in DOMAIN ongoingCalls, OnTaskResult(i)
        PROVE  Chained(Now)' /\ Len(log') <= MaxEntries
    <3>1. claude # "none" /\ Becomes(Convert(Now, ongoingCalls[i].parent))
      BY <2>7 DEF OnTaskResult, Reads
    <3>2. ongoingCalls[i].parent \in Chain
      BY <1>2
    <3>3. QED
      BY <1>1, <3>1, <3>2, NowIsChained, ConvertKeeps, BecomesChained
  <2>8. QED
    BY <2>1, <2>2, <2>3, <2>4, <2>5, <2>6, <2>7 DEF MessageLogNext
<1>7. QED
  BY <1>4, <1>5, <1>6 DEF LogInv

LEMMA LogInvariance == MessageLogSpec => []LogInv
BY LogInitInv, LogNextInv, PTL DEF MessageLogSpec

\* The converter, the launcher and the log keep their types.
THEOREM MessageLogTypeCorrect == MessageLogSpec => []MessageLogTypeOK
<1>1. LogInv => MessageLogTypeOK
  <2> SUFFICES ASSUME LogInv PROVE MessageLogTypeOK
    OBVIOUS
  <2>1. log \in Seq(Entry) /\ lastUuid \in 0..Len(log) /\ sidechainLastUuid \in [Task -> Nat]
        /\ \A t \in Task : ParentFor(log, t, sidechainLastUuid[t])
    BY DEF LogInv, Chained, Now
  <2>2. sidechainLastUuid \in [Task -> 0..Len(log)]
    BY <2>1 DEF ParentFor
  <2>3. \A i \in DOMAIN ongoingCalls : ongoingCalls[i] \in [call : Task, parent : Chain]
    <3> DEFINE Ongoing == [call : Task, parent : Chain]
    <3>1. ongoingCalls \in Seq(Ongoing)
      BY DEF LogInv
    <3> HIDE DEF Ongoing
    <3>2. \A i \in DOMAIN ongoingCalls : ongoingCalls[i] \in Ongoing
      BY <3>1
    <3>3. QED
      BY <3>2 DEF Ongoing
  <2>4. QED
    BY <2>1, <2>2, <2>3 DEF LogInv, Labels, MessageLogTypeOK
<1>2. QED
  BY <1>1, LogInvariance, PTL

\* Whatever sub-agents speak at once, and whatever launches, resets and interruptions come
\* between, each sidechain hangs together.
THEOREM SidechainsHangTogether == MessageLogSpec => []SidechainsAreChains
<1>1. LogInv => SidechainsAreChains
  <2> SUFFICES ASSUME LogInv, NEW n \in DOMAIN log, log[n].chain # Main
               PROVE  LET earlier == {k \in 1..(n - 1) : log[k].chain = log[n].chain}
                      IN  log[n].parent = IF earlier = {} THEN 0
                                          ELSE CHOOSE k \in earlier : \A j \in earlier : j <= k
    BY DEF SidechainsAreChains
  <2> DEFINE earlier == {k \in 1..(n - 1) : log[k].chain = log[n].chain}
  <2>1. \/ log[n].parent = 0 /\ earlier = {}
        \/ log[n].parent \in earlier /\ \A k \in earlier : k <= log[n].parent
    BY NowIsChained DEF LogInv, Chained, Linked
  <2>2. \A k \in earlier : k \in Int
    BY NowIsChained
  <2> HIDE DEF earlier
  <2>3. ASSUME log[n].parent \in earlier, \A k \in earlier : k <= log[n].parent
        PROVE  log[n].parent = CHOOSE k \in earlier : \A j \in earlier : j <= k
    <3> DEFINE last == CHOOSE k \in earlier : \A j \in earlier : j <= k
    <3>1. last \in earlier /\ \A j \in earlier : j <= last
      BY <2>3
    <3> HIDE DEF last
    <3>2. log[n].parent = last
      BY <2>2, <2>3, <3>1
    <3>3. QED
      BY <3>2 DEF last
  <2>4. log[n].parent = IF earlier = {} THEN 0
                        ELSE CHOOSE k \in earlier : \A j \in earlier : j <= k
    BY <2>1, <2>3
  <2>5. QED
    BY <2>4 DEF earlier
<1>2. QED
  BY <1>1, LogInvariance, PTL

---------------------------------------------------------------------------
(* RemoteOutput. *)

\* What is done under the queue's lock.
Job ==
    [op : {"enqueue"}, msg : Q!Message, delayed : BOOLEAN]
      \union [op : {"release"}, id : Nat]
      \union [op : {"releaseTool"}, tool : Tool]
      \union [op : {"process", "flush"}]

\* The items of q are in the order of their ids.
IdsAscend(q) == \A i, k \in DOMAIN q : i < k => q[i].id < q[k].id

\* One job at most has the permit, and nobody waits for one that is free.
Locked ==
    /\ permits \in {0, 1}
    /\ inside \subseteq Job /\ resolvers \in Seq(Job)
    /\ \A j, k \in inside : j = k
    /\ permits = 1 => inside = {} /\ resolvers = << >>

\* Messages get in line in the order they are handed over.
LineAscends ==
    /\ \A j \in inside : \A i \in DOMAIN resolvers :
          j.op = "enqueue" /\ resolvers[i].op = "enqueue" => j.msg.n < resolvers[i].msg.n
    /\ \A i, k \in DOMAIN resolvers :
          i < k /\ resolvers[i].op = "enqueue" /\ resolvers[k].op = "enqueue"
            => resolvers[i].msg.n < resolvers[k].msg.n

\* Everything sent or queued was handed over before message number n.
AllBefore(n) ==
    /\ \A i \in DOMAIN sent : sent[i].n < n \/ sent[i].n \in bypass
    /\ \A i \in DOMAIN queue : queue[i].msg.n < n

\* A message that waits for the lock comes after what was sent and what is queued, and
\* has a number for the id it will get.
LineIsBehind ==
    \A j \in InLine : j.op = "enqueue" =>
        /\ j.msg.n \in nextId..handed
        /\ AllBefore(j.msg.n)

\* The queue is in the order of the ids and of the numbers, and comes after what was sent.
QueueAscends ==
    /\ IdsAscend(queue)
    /\ \A i, k \in DOMAIN queue : i < k => queue[i].msg.n < queue[k].msg.n
    /\ \A i \in DOMAIN queue :
          /\ queue[i].id < nextId
          /\ \A k \in DOMAIN sent : sent[k].n < queue[i].msg.n \/ sent[k].n \in bypass

QueueKinds ==
    /\ queue \in Seq(Q!Item) /\ sent \in Seq(Q!Message)
    /\ handed \in 0..MaxMessages
    /\ nextId \in 1..(handed + 1)
    /\ delayTimers \subseteq 1..(nextId - 1)
    /\ bypass \subseteq 1..handed
    /\ \A i \in DOMAIN queue : queue[i].msg.n <= handed
    /\ \A i \in DOMAIN sent : sent[i].n <= handed

LaunchKinds ==
    /\ processTimer \in BOOLEAN
    /\ ongoing \subseteq used /\ used \subseteq Tool /\ asked \subseteq used
    /\ IsFiniteSet(ongoing)
    /\ phase \in {"running", "flushing", "flushed"}
    /\ launches \in 1..MaxLaunches

OutputInv ==
    /\ QueueKinds
    /\ LaunchKinds
    /\ Locked
    /\ LineAscends
    /\ LineIsBehind
    /\ QueueAscends
    /\ SentInOrder

---------------------------------------------------------------------------
(* The queue. *)

\* An interval grows with its end.
LEMMA IntervalGrows ==
    ASSUME NEW a \in Nat, NEW b \in Nat, a <= b, NEW n \in 1..(a + 1)
    PROVE  n \in 1..(b + 1)
OBVIOUS

\* The next number, and timers of the numbers before it.
LEMMA NextNumber ==
    ASSUME NEW h \in Nat, NEW n \in 1..(h + 1), NEW m \in n..h,
           NEW D, D \subseteq 1..(n - 1), NEW E, E \subseteq D \union {n}
    PROVE  n + 1 \in 1..(h + 1) /\ E \subseteq 1..((n + 1) - 1)
<1>1. n \in Nat /\ n >= 1 /\ n <= h
  OBVIOUS
<1>2. \A d \in E : d \in 1..n
  BY <1>1
<1>3. n + 1 \in 1..(h + 1) /\ (n + 1) - 1 = n
  BY <1>1
<1>4. QED
  BY <1>2, <1>3

\* One sequence after another.
LEMMA ConcatIs ==
    ASSUME NEW S, NEW s \in Seq(S), NEW t \in Seq(S)
    PROVE  /\ s \o t \in Seq(S) /\ Len(s \o t) = Len(s) + Len(t)
           /\ \A i \in 1..Len(s) : (s \o t)[i] = s[i]
           /\ \A i \in 1..Len(t) : (s \o t)[Len(s) + i] = t[i]
OBVIOUS

\* The queue counts as this module does.
LEMMA QCardinality == ASSUME NEW S PROVE Q!Cardinality(S) = Cardinality(S)
BY DEF Q!Cardinality, Cardinality

\* What is in the order of its ids already.
LEMMA SortedById ==
    ASSUME NEW q \in Seq(Q!Item), IdsAscend(q)
    PROVE  Q!ById(q) = q
<1> DEFINE Below(i) == {j \in DOMAIN q : q[j].id <= q[i].id}
<1>1. Len(q) \in Nat /\ DOMAIN q = 1..Len(q) /\ \A i \in 1..Len(q) : q[i].id \in Nat
  <2>1. Len(q) \in Nat /\ DOMAIN q = 1..Len(q) /\ \A i \in 1..Len(q) : q[i] \in Q!Item
    OBVIOUS
  <2>2. QED
    BY <2>1 DEF Q!Item
<1>2. ASSUME NEW i \in 1..Len(q) PROVE Q!Cardinality(Below(i)) = i
  <2>1. Below(i) = 1..i
    BY <1>1 DEF IdsAscend
  <2>2. Cardinality(1..i) = i
    BY FS_Interval
  <2>3. QED
    BY <2>1, <2>2, QCardinality
<1>3. Q!ById(q) = [k \in DOMAIN q |-> q[CHOOSE i \in DOMAIN q : Q!Cardinality(Below(i)) = k]]
  BY DEF Q!ById
<1> HIDE DEF Below
<1>4. ASSUME NEW k \in DOMAIN q
      PROVE  (CHOOSE i \in DOMAIN q : Q!Cardinality(Below(i)) = k) = k
  BY <1>1, <1>2
<1>5. q = [k \in DOMAIN q |-> q[k]]
  BY <1>1
<1>6. QED
  BY <1>3, <1>4, <1>5

\* There is a first item that is still held back, or none.
LEMMA TheFrontEnds ==
    ASSUME NEW q \in Seq(Q!Item)
    PROVE  \E n \in 0..Len(q) : /\ \A i \in 1..n : q[i].released
                                /\ n < Len(q) => ~q[n + 1].released
<1> DEFINE held == {i \in 1..Len(q) : ~q[i].released}
<1>1. Len(q) \in Nat
  OBVIOUS
<1>2. CASE held = {}
  <2>1. \A i \in 1..Len(q) : q[i].released
    BY <1>2
  <2> HIDE DEF held
  <2>2. QED
    BY <1>1, <2>1
<1>3. CASE held # {}
  <2>1. held \subseteq Nat
    BY <1>1
  <2>2. PICK m \in held : \A k \in held : m <= k
    BY <1>3, <2>1, LeastOf
  <2>3. m \in 1..Len(q) /\ ~q[m].released /\ m - 1 \in 0..Len(q) /\ (m - 1) + 1 = m
    BY <1>1, <2>2
  <2>4. \A i \in 1..(m - 1) : q[i].released
    BY <1>1, <2>2, <2>3
  <2> HIDE DEF held
  <2>5. QED
    BY <2>3, <2>4
<1>4. QED
  BY <1>2, <1>3

\* What processQueueInternal does to a queue in the order of its ids: the front of it
\* leaves, and some of that is sent, in this order.
LEMMA TheFrontIsSent ==
    ASSUME NEW q \in Seq(Q!Item), IdsAscend(q), sent \in Seq(Q!Message), Q!SendReleased(q)
    PROVE  \E n \in 0..Len(q), c \in Nat : \E at \in [1..c -> 1..n] :
             /\ \A i, k \in 1..c : i < k => at[i] < at[k]
             /\ sent' \in Seq(Q!Message) /\ Len(sent') = Len(sent) + c
             /\ \A i \in 1..Len(sent) : sent'[i] = sent[i]
             /\ \A i \in 1..c : sent'[Len(sent) + i] = q[at[i]].msg
             /\ queue' \in Seq(Q!Item) /\ Len(queue') = Len(q) - n
             /\ \A i \in 1..Len(queue') : queue'[i] = q[n + i]
<1> DEFINE Ends(n) == /\ \A i \in 1..n : q[i].released
                      /\ n < Len(q) => ~q[n + 1].released
           n == CHOOSE k \in 0..Len(q) : Ends(k)
           going == {i \in 1..n : Q!IsSent(q[i].msg)}
           c == Cardinality(going)
<1>1. n \in 0..Len(q)
  BY TheFrontEnds
<1>2. Q!Send(q, 1..n) /\ queue' = SubSeq(q, n + 1, Len(q))
  BY SortedById DEF Q!SendReleased
<1> HIDE DEF n
<1>3. Len(q) \in Nat /\ Len(sent) \in Nat /\ DOMAIN q = 1..Len(q)
  OBVIOUS
<1>4. going \subseteq 1..n /\ c \in Nat
  <2>1. IsFiniteSet(1..n)
    BY <1>1, FS_Interval
  <2>2. going \in SUBSET (1..n)
    OBVIOUS
  <2> HIDE DEF going
  <2>3. QED
    BY <2>1, <2>2, FS_Subset, FS_CardinalityType
<1>5. PICK at \in [1..c -> going] :
        /\ \A i, j \in DOMAIN at : i < j => at[i] < at[j]
        /\ sent' = sent \o [i \in DOMAIN at |-> q[at[i]].msg]
  BY <1>2, QCardinality, Zenon DEF Q!Send
<1> HIDE DEF going, c
<1>6. at \in [1..c -> 1..n] /\ DOMAIN at = 1..c
  BY <1>4, <1>5
<1> DEFINE out == [i \in 1..c |-> q[at[i]].msg]
<1>7. out \in Seq(Q!Message) /\ Len(out) = c
  <2>1. \A i \in 1..c : at[i] \in 1..Len(q)
    BY <1>1, <1>3, <1>6
  <2>2. \A i \in 1..Len(q) : q[i].msg \in Q!Message
    <3>1. \A i \in 1..Len(q) : q[i] \in Q!Item
      OBVIOUS
    <3>2. QED
      BY <3>1 DEF Q!Item
  <2>3. out \in [1..c -> Q!Message]
    BY <2>1, <2>2
  <2> HIDE DEF out
  <2>4. QED
    BY <1>4, <2>3
<1>8. sent' = sent \o out
  BY <1>5, <1>6
<1>9. \A i \in 1..c : out[i] = q[at[i]].msg
  OBVIOUS
<1> HIDE DEF out
<1>10. /\ sent' \in Seq(Q!Message) /\ Len(sent') = Len(sent) + c
       /\ \A i \in 1..Len(sent) : sent'[i] = sent[i]
       /\ \A i \in 1..c : sent'[Len(sent) + i] = out[i]
  BY <1>7, <1>8, ConcatIs
<1>11. /\ queue' \in Seq(Q!Item) /\ Len(queue') = Len(q) - n
       /\ \A i \in 1..Len(queue') : queue'[i] = q[n + i]
  <2>1. \A i \in (n + 1)..Len(q) : q[i] \in Q!Item
    BY <1>1
  <2>2. n + 1 \in Int /\ Len(q) \in Int
    BY <1>1
  <2>3. /\ queue' \in Seq(Q!Item)
        /\ Len(queue') = IF n + 1 <= Len(q) THEN Len(q) - (n + 1) + 1 ELSE 0
        /\ \A i \in 1..(Len(q) - (n + 1) + 1) : queue'[i] = q[n + 1 + i - 1]
    BY <1>2, <2>1, <2>2, SubSeqProperties
  <2>4. Len(queue') = Len(q) - n
    BY <1>1, <2>3
  <2>5. \A i \in 1..Len(queue') : queue'[i] = q[n + 1 + i - 1] /\ n + 1 + i - 1 = n + i
    BY <1>1, <2>3, <2>4
  <2>6. QED
    BY <2>3, <2>4, <2>5
<1>12. \A i, k \in 1..c : i < k => at[i] < at[k]
  BY <1>5, <1>6
<1>13. QED
  BY <1>1, <1>4, <1>6, <1>9, <1>10, <1>11, <1>12

---------------------------------------------------------------------------
(* The lock. *)

\* A job gets in line, behind the messages that wait.
LEMMA LockAdds ==
    ASSUME Locked, LineAscends, NEW job \in Job, Q!Lock(job),
           \A j \in InLine : j.op = "enqueue" /\ job.op = "enqueue" => j.msg.n < job.msg.n
    PROVE  Locked' /\ LineAscends' /\ InLine' = InLine \union {job}
<1>1. CASE permits > 0
  <2>1. permits = 1 /\ inside = {} /\ resolvers = << >>
    BY <1>1 DEF Locked
  <2>2. permits' = 0 /\ inside' = {job} /\ resolvers' = << >>
    BY <1>1, <2>1 DEF Q!Lock
  <2>3. QED
    BY <2>1, <2>2 DEF Locked, LineAscends, InLine
<1>2. CASE ~(permits > 0)
  <2>1. resolvers' = Append(resolvers, job) /\ permits' = permits /\ inside' = inside
    BY <1>2 DEF Q!Lock
  <2>2. resolvers \in Seq(Job) /\ permits = 0
    BY <1>2 DEF Locked
  <2>3. /\ Len(resolvers) \in Nat /\ DOMAIN resolvers = 1..Len(resolvers)
        /\ resolvers' \in Seq(Job) /\ DOMAIN resolvers' = 1..(Len(resolvers) + 1)
        /\ \A i \in 1..Len(resolvers) : resolvers'[i] = resolvers[i]
        /\ resolvers'[Len(resolvers) + 1] = job
    BY <2>1, <2>2
  <2>4. Locked'
    BY <2>1, <2>2, <2>3 DEF Locked
  <2>5. InLine' = InLine \union {job}
    BY <2>1, <2>3 DEF InLine
  <2>6. LineAscends'
    <3>1. \A i \in 1..Len(resolvers) : resolvers[i] \in InLine
      BY <2>3 DEF InLine
    <3>2. inside \subseteq InLine
      BY DEF InLine
    <3>3. QED
      BY <2>1, <2>3, <3>1, <3>2 DEF LineAscends
  <2>7. QED
    BY <2>4, <2>5, <2>6
<1>3. QED
  BY <1>1, <1>2

\* A job is through: the messages that still wait come after its own.
LEMMA UnlockRemoves ==
    ASSUME Locked, LineAscends, NEW j \in inside, Q!Unlock(j)
    PROVE  /\ Locked' /\ LineAscends' /\ InLine' \subseteq InLine
           /\ \A k \in InLine' : j.op = "enqueue" /\ k.op = "enqueue" => j.msg.n < k.msg.n
<1>1. permits = 0 /\ inside = {j} /\ inside \ {j} = {}
  BY DEF Locked
<1>2. CASE resolvers # << >>
  <2>1. resolvers' = Tail(resolvers) /\ inside' = {Head(resolvers)} /\ permits' = 0
    BY <1>1, <1>2 DEF Q!Unlock
  <2>2. resolvers \in Seq(Job)
    BY DEF Locked
  <2>3. /\ Len(resolvers) \in Nat \ {0} /\ DOMAIN resolvers = 1..Len(resolvers)
        /\ resolvers' \in Seq(Job) /\ DOMAIN resolvers' = 1..(Len(resolvers) - 1)
        /\ \A i \in 1..(Len(resolvers) - 1) : resolvers'[i] = resolvers[i + 1]
        /\ Head(resolvers) = resolvers[1] /\ resolvers[1] \in Job
    BY <1>2, <2>1, <2>2
  <2>4. Locked'
    BY <2>1, <2>3 DEF Locked
  <2>5. LineAscends'
    BY <2>1, <2>3 DEF LineAscends
  <2>6. \A k \in InLine' : \E i \in DOMAIN resolvers : k = resolvers[i]
    BY <2>1, <2>3 DEF InLine
  <2>7. QED
    BY <2>4, <2>5, <2>6 DEF LineAscends, InLine
<1>3. CASE resolvers = << >>
  <2>1. resolvers' = << >> /\ inside' = {} /\ permits' = 1
    BY <1>1, <1>3 DEF Q!Unlock
  <2>2. QED
    BY <2>1 DEF Locked, LineAscends, InLine
<1>4. QED
  BY <1>2, <1>3

---------------------------------------------------------------------------
(* The steps. *)

LEMMA OutputInitInv == OutputInit => OutputInv
<1> SUFFICES ASSUME OutputInit PROVE OutputInv
  OBVIOUS
<1> USE DEF OutputInit, Q!Init
<1>1. QueueKinds
  BY RemoteOutputAssumption DEF QueueKinds
<1>0. LaunchKinds
  <2>1. launches \in 1..MaxLaunches
    BY RemoteOutputAssumption
  <2>2. IsFiniteSet(ongoing) /\ ongoing \subseteq used /\ used \subseteq Tool /\ asked \subseteq used
    BY FS_EmptySet
  <2>3. processTimer \in BOOLEAN /\ phase \in {"running", "flushing", "flushed"}
    BY Zenon
  <2>4. QED
    BY <2>1, <2>2, <2>3, Zenon DEF LaunchKinds
<1>2. Locked /\ LineAscends /\ LineIsBehind /\ QueueAscends /\ SentInOrder
  BY DEF Locked, LineAscends, LineIsBehind, InLine, QueueAscends, IdsAscend, SentInOrder
<1>3. QED
  BY <1>0, <1>1, <1>2 DEF OutputInv

\* A step that neither fills nor empties the queue: who is new in line comes last.
LEMMA TheQueueStays ==
    ASSUME OutputInv, queue' = queue, nextId' = nextId, sent' = sent, bypass' = bypass,
           delayTimers' \subseteq delayTimers,
           handed' \in {handed, handed + 1}, handed' <= MaxMessages,
           \A j \in InLine' : j.op = "enqueue" /\ j \notin InLine
                                => handed' = handed + 1 /\ j.msg.n = handed + 1
    PROVE  QueueKinds' /\ LineIsBehind' /\ QueueAscends' /\ SentInOrder'
<1>1. handed \in Nat /\ nextId \in 1..(handed + 1) /\ queue \in Seq(Q!Item) /\ sent \in Seq(Q!Message)
      /\ (\A i \in DOMAIN queue : queue[i].msg.n <= handed)
      /\ (\A i \in DOMAIN sent : sent[i].n <= handed)
  BY RemoteOutputAssumption DEF OutputInv, QueueKinds
<1>2. /\ \A i \in DOMAIN queue : queue[i].msg.n \in Nat
      /\ \A i \in DOMAIN sent : sent[i].n \in Nat
  <2>1. /\ \A i \in DOMAIN queue : queue[i] \in Q!Item
        /\ \A i \in DOMAIN sent : sent[i] \in Q!Message
    BY <1>1
  <2>2. QED
    BY <2>1 DEF Q!Item, Q!Message
<1>3. LineIsBehind'
  <2> SUFFICES ASSUME NEW j \in InLine', j.op = "enqueue"
               PROVE  /\ j.msg.n \in nextId..handed'
                      /\ \A i \in DOMAIN sent : sent[i].n < j.msg.n \/ sent[i].n \in bypass
                      /\ \A i \in DOMAIN queue : queue[i].msg.n < j.msg.n
    BY DEF LineIsBehind, AllBefore
  <2>1. CASE j \in InLine
    BY <1>1, <2>1 DEF OutputInv, LineIsBehind, AllBefore
  <2>2. CASE j \notin InLine
    BY <1>1, <1>2, <2>2
  <2>3. QED
    BY <2>1, <2>2
<1>4. QueueAscends' /\ SentInOrder'
  BY DEF OutputInv, QueueAscends, IdsAscend, SentInOrder
<1>5. QueueKinds'
  <2>1. handed' \in 0..MaxMessages /\ nextId' \in 1..(handed' + 1) /\ handed <= handed'
    <3>1. MaxMessages \in Nat
      BY RemoteOutputAssumption
    <3>2. handed \in Nat /\ nextId \in 1..(handed + 1) /\ nextId' = nextId /\ handed' <= MaxMessages
      BY <1>1
    <3>3. handed' = handed \/ handed' = handed + 1
      OBVIOUS
    <3>4. QED
      <4>1. handed' \in Nat /\ handed <= handed'
        BY <3>2, <3>3
      <4>2. handed' \in 0..MaxMessages
        BY <3>1, <3>2, <4>1
      <4>3. nextId \in 1..(handed' + 1)
        BY <3>2, <4>1, IntervalGrows
      <4>4. QED
        BY <3>2, <4>1, <4>2, <4>3, Zenon
  <2>2. delayTimers' \subseteq 1..(nextId' - 1) /\ bypass' \subseteq 1..handed'
    BY <1>1, <2>1 DEF OutputInv, QueueKinds
  <2>3. /\ \A i \in DOMAIN queue' : queue'[i].msg.n <= handed'
        /\ \A i \in DOMAIN sent' : sent'[i].n <= handed'
    BY <1>1, <1>2, <2>1
  <2>4. queue' \in Seq(Q!Item) /\ sent' \in Seq(Q!Message)
    BY <1>1
  <2>5. QED
    BY <2>1, <2>2, <2>3, <2>4, Zenon DEF QueueKinds
<1>6. QED
  BY <1>3, <1>4, <1>5

\* What is handed over is a message, and comes after every message in line.
LEMMA HandedIsNew ==
    ASSUME OutputInv, NEW kind \in {"text", "system", "use", "result"},
           NEW t \in Tool \union {"none"}, NEW delayed \in BOOLEAN
    PROVE  LET job == Q!EnqueueJob(Handed(kind, t), delayed)
           IN  /\ job \in Job /\ job.op = "enqueue" /\ job.msg.n = handed + 1
               /\ \A j \in InLine : j.op = "enqueue" => j.msg.n < handed + 1
<1>1. handed \in Nat /\ nextId \in Nat
  BY RemoteOutputAssumption DEF OutputInv, QueueKinds
<1>2. \A j \in InLine : j.op = "enqueue" => j.msg.n < handed + 1
  BY <1>1 DEF OutputInv, LineIsBehind
<1>3. Handed(kind, t) \in Q!Message /\ Handed(kind, t).n = handed + 1
  BY <1>1 DEF Handed, Q!Message
<1> HIDE DEF Handed
<1>4. QED
  BY <1>2, <1>3 DEF Q!EnqueueJob, Job

\* A message from Claude.
LEMMA OnOtherKeeps ==
    ASSUME OutputInv, NEW kind \in OtherKind, OnOther(kind)
    PROVE  OutputInv'
<1> DEFINE job == Q!EnqueueJob(Handed(kind, "none"), FALSE)
<1>1. /\ job \in Job /\ job.op = "enqueue" /\ job.msg.n = handed + 1
      /\ \A j \in InLine : j.op = "enqueue" => j.msg.n < handed + 1
  <2>1. kind \in {"text", "system", "use", "result"}
    BY RemoteOutputAssumption
  <2>2. QED
    BY <2>1, HandedIsNew
<1>2. /\ Q!Lock(job) /\ processTimer' = TRUE
      /\ queue' = queue /\ nextId' = nextId /\ delayTimers' = delayTimers /\ sent' = sent
      /\ phase' = phase /\ handed < MaxMessages /\ handed' = handed + 1 /\ bypass' = bypass
      /\ asked' = asked /\ launches' = launches /\ ongoing' = ongoing /\ used' = used
  BY Zenon DEF OnOther, Say, Q!Enqueue
<1> HIDE DEF job
<1>3. Locked' /\ LineAscends' /\ InLine' = InLine \union {job}
  BY <1>1, <1>2, LockAdds DEF OutputInv
<1>4. QueueKinds' /\ LineIsBehind' /\ QueueAscends' /\ SentInOrder'
  <2>1. handed + 1 <= MaxMessages
    BY <1>2, RemoteOutputAssumption DEF OutputInv, QueueKinds
  <2>2. QED
    BY <1>1, <1>2, <1>3, <2>1, TheQueueStays
<1>5. LaunchKinds'
  BY <1>2 DEF OutputInv, LaunchKinds
<1>6. QED
  BY <1>3, <1>4, <1>5 DEF OutputInv

LEMMA OnToolUseKeeps ==
    ASSUME OutputInv, NEW t \in Tool, NEW isSidechain \in BOOLEAN, OnToolUse(t, isSidechain)
    PROVE  OutputInv'
<1> DEFINE job == Q!EnqueueJob(Handed("use", t), ~isSidechain)
<1>1. /\ job \in Job /\ job.op = "enqueue" /\ job.msg.n = handed + 1
      /\ \A j \in InLine : j.op = "enqueue" => j.msg.n < handed + 1
  <2>1. (~isSidechain) \in BOOLEAN
    <3>1. (~isSidechain) = TRUE \/ (~isSidechain) = FALSE
      BY Zenon
    <3>2. QED
      BY <3>1, Zenon
  <2>2. QED
    BY <2>1, HandedIsNew
<1>2. /\ Q!Lock(job) /\ processTimer' = TRUE
      /\ queue' = queue /\ nextId' = nextId /\ delayTimers' = delayTimers /\ sent' = sent
      /\ phase' = phase /\ handed < MaxMessages /\ handed' = handed + 1 /\ bypass' = bypass
      /\ asked' = asked /\ launches' = launches
      /\ ongoing' = ongoing \union {t} /\ used' = used \union {t}
  BY Zenon DEF OnToolUse, Say, Q!Enqueue
<1> HIDE DEF job
<1>3. Locked' /\ LineAscends' /\ InLine' = InLine \union {job}
  BY <1>1, <1>2, LockAdds DEF OutputInv
<1>4. QueueKinds' /\ LineIsBehind' /\ QueueAscends' /\ SentInOrder'
  <2>1. handed + 1 <= MaxMessages
    BY <1>2, RemoteOutputAssumption DEF OutputInv, QueueKinds
  <2>2. QED
    BY <1>1, <1>2, <1>3, <2>1, TheQueueStays
<1>5. LaunchKinds'
  <2>1. IsFiniteSet(ongoing')
    BY <1>2, FS_AddElement DEF OutputInv, LaunchKinds
  <2>2. QED
    BY <1>2, <2>1 DEF OutputInv, LaunchKinds
<1>6. QED
  BY <1>3, <1>4, <1>5 DEF OutputInv

LEMMA OnToolResultKeeps ==
    ASSUME OutputInv, NEW t \in Tool, OnToolResult(t)
    PROVE  OutputInv'
<1> DEFINE release == Q!ReleaseToolJob(t)
           job == Q!EnqueueJob(Handed("result", t), FALSE)
<1>1. /\ job \in Job /\ job.op = "enqueue" /\ job.msg.n = handed + 1
      /\ \A j \in InLine : j.op = "enqueue" => j.msg.n < handed + 1
  BY HandedIsNew
<1>2. release \in Job /\ release.op = "releaseTool"
  BY DEF Q!ReleaseToolJob, Job
<1>3. /\ processTimer' = TRUE
      /\ queue' = queue /\ nextId' = nextId /\ delayTimers' = delayTimers /\ sent' = sent
      /\ phase' = phase /\ handed < MaxMessages /\ handed' = handed + 1 /\ bypass' = bypass
      /\ asked' = asked /\ launches' = launches
      /\ ongoing' = ongoing \ {t} /\ used' = used
  BY Zenon DEF OnToolResult, Say
<1>4. IF permits > 0
      THEN permits' = permits - 1 /\ inside' = inside \union {release} /\ resolvers' = Append(resolvers, job)
      ELSE resolvers' = resolvers \o <<release, job>> /\ permits' = permits /\ inside' = inside
  BY DEF OnToolResult
<1> HIDE DEF release, job
<1>5. Locked' /\ LineAscends' /\ InLine' \subseteq InLine \union {release, job}
  <2>1. CASE permits > 0
    <3>1. permits = 1 /\ inside = {} /\ resolvers = << >>
      BY <2>1 DEF OutputInv, Locked
    <3>2. permits' = 0 /\ inside' = {release} /\ resolvers' = <<job>>
      BY <1>4, <2>1, <3>1
    <3>3. QED
      BY <1>1, <1>2, <3>1, <3>2 DEF Locked, LineAscends, InLine
  <2>2. CASE ~(permits > 0)
    <3>1. permits = 0 /\ resolvers \in Seq(Job)
      BY <2>2 DEF OutputInv, Locked
    <3>2. resolvers' = resolvers \o <<release, job>> /\ permits' = permits /\ inside' = inside
      BY <1>4, <2>2
    <3>3. /\ Len(resolvers) \in Nat /\ DOMAIN resolvers = 1..Len(resolvers)
          /\ resolvers' \in Seq(Job) /\ DOMAIN resolvers' = 1..(Len(resolvers) + 2)
          /\ \A i \in 1..Len(resolvers) : resolvers'[i] = resolvers[i]
          /\ resolvers'[Len(resolvers) + 1] = release
          /\ resolvers'[Len(resolvers) + 2] = job
      BY <1>1, <1>2, <3>1, <3>2
    <3>4. Locked'
      BY <3>1, <3>2, <3>3 DEF OutputInv, Locked
    <3>5. InLine' \subseteq InLine \union {release, job}
      BY <3>2, <3>3 DEF InLine
    <3>6. LineAscends'
      <4>1. (\A i \in 1..Len(resolvers) : resolvers[i] \in InLine) /\ inside \subseteq InLine
        BY <3>3 DEF InLine
      <4>2. QED
        <5>1. ASSUME NEW j \in inside', NEW i \in DOMAIN resolvers', j.op = "enqueue", resolvers'[i].op = "enqueue"
              PROVE  j.msg.n < resolvers'[i].msg.n
          <6>1. i \in 1..Len(resolvers) \/ i = Len(resolvers) + 2
            BY <1>2, <3>3, <5>1
          <6>2. QED
            BY <1>1, <3>2, <3>3, <4>1, <5>1, <6>1 DEF OutputInv, LineAscends
        <5>2. ASSUME NEW i \in DOMAIN resolvers', NEW k \in DOMAIN resolvers', i < k,
                     resolvers'[i].op = "enqueue", resolvers'[k].op = "enqueue"
              PROVE  resolvers'[i].msg.n < resolvers'[k].msg.n
          <6>1. i \in 1..Len(resolvers) /\ (k \in 1..Len(resolvers) \/ k = Len(resolvers) + 2)
            BY <1>2, <3>3, <5>2
          <6>2. QED
            BY <1>1, <3>2, <3>3, <4>1, <5>2, <6>1 DEF OutputInv, LineAscends
        <5>3. QED
          BY <5>1, <5>2 DEF LineAscends
    <3>7. QED
      BY <3>4, <3>5, <3>6
  <2>3. QED
    BY <2>1, <2>2
<1>6. QueueKinds' /\ LineIsBehind' /\ QueueAscends' /\ SentInOrder'
  <2>1. handed + 1 <= MaxMessages
    BY <1>3, RemoteOutputAssumption DEF OutputInv, QueueKinds
  <2>2. QED
    BY <1>1, <1>2, <1>3, <1>5, <2>1, TheQueueStays
<1>7. LaunchKinds'
  <2>1. IsFiniteSet(ongoing')
    BY <1>3, FS_RemoveElement DEF OutputInv, LaunchKinds
  <2>2. QED
    BY <1>3, <2>1 DEF OutputInv, LaunchKinds
<1>8. QED
  BY <1>5, <1>6, <1>7 DEF OutputInv

\* A job with no message of its own gets in line.
LEMMA OnPermissionRequestKeeps ==
    ASSUME OutputInv, NEW t \in Tool, OnPermissionRequest(t)
    PROVE  OutputInv'
<1> DEFINE job == Q!ReleaseToolJob(t)
<1>1. job \in Job /\ job.op = "releaseTool"
  BY DEF Q!ReleaseToolJob, Job
<1>2. /\ Q!Lock(job) /\ queue' = queue /\ nextId' = nextId /\ sent' = sent
      /\ delayTimers' = delayTimers /\ processTimer' = processTimer
      /\ handed' = handed /\ bypass' = bypass /\ ongoing' = ongoing /\ used' = used
      /\ phase' = phase /\ launches' = launches
      /\ t \in ongoing /\ asked' = asked \union {t}
  BY DEF OnPermissionRequest, Q!ReleaseToolCall, Q!queueVars
<1> HIDE DEF job
<1>3. Locked' /\ LineAscends' /\ InLine' = InLine \union {job}
  BY <1>1, <1>2, LockAdds DEF OutputInv
<1>4. handed' \in {handed, handed + 1} /\ handed' <= MaxMessages
  BY <1>2, RemoteOutputAssumption DEF OutputInv, QueueKinds
<1>5. QueueKinds' /\ LineIsBehind' /\ QueueAscends' /\ SentInOrder'
  BY <1>1, <1>2, <1>3, <1>4, TheQueueStays
<1>6. LaunchKinds'
  BY <1>2 DEF OutputInv, LaunchKinds
<1>7. QED
  BY <1>3, <1>5, <1>6 DEF OutputInv

LEMMA TimersKeep ==
    ASSUME OutputInv, Timers
    PROVE  OutputInv'
<1>1. PICK job \in Job :
        /\ Q!Lock(job) /\ job.op # "enqueue"
        /\ queue' = queue /\ nextId' = nextId /\ sent' = sent
        /\ delayTimers' \subseteq delayTimers /\ processTimer' \in BOOLEAN
  <2>1. CASE ProcessTimer
    <3>1. Q!ProcessJob \in Job /\ Q!ProcessJob.op # "enqueue"
      BY DEF Q!ProcessJob, Job
    <3>2. /\ Q!Lock(Q!ProcessJob) /\ queue' = queue /\ nextId' = nextId /\ sent' = sent
          /\ delayTimers' \subseteq delayTimers /\ processTimer' \in BOOLEAN
      BY <2>1 DEF ProcessTimer, Q!ProcessFires
    <3>3. QED
      BY <3>1, <3>2
  <2>2. ASSUME NEW n \in delayTimers, DelayTimer(n)
        PROVE  /\ Q!ReleaseJob(n) \in Job /\ Q!ReleaseJob(n).op # "enqueue"
               /\ Q!Lock(Q!ReleaseJob(n)) /\ queue' = queue /\ nextId' = nextId /\ sent' = sent
               /\ delayTimers' \subseteq delayTimers /\ processTimer' \in BOOLEAN
    <3>1. n \in Nat
      BY DEF OutputInv, QueueKinds
    <3>2. Q!ReleaseJob(n) \in Job /\ Q!ReleaseJob(n).op # "enqueue"
      BY <3>1 DEF Q!ReleaseJob, Job
    <3>3. /\ Q!Lock(Q!ReleaseJob(n)) /\ queue' = queue /\ nextId' = nextId /\ sent' = sent
          /\ delayTimers' \subseteq delayTimers /\ processTimer' = processTimer
      BY <2>2 DEF DelayTimer, Q!DelayFires
    <3>4. QED
      BY <3>2, <3>3 DEF OutputInv, LaunchKinds
  <2>3. QED
    BY <2>1, <2>2 DEF Timers
<1>2. /\ handed' = handed /\ bypass' = bypass /\ ongoing' = ongoing /\ used' = used
      /\ phase' = phase /\ launches' = launches /\ asked' = asked
  BY DEF Timers, ProcessTimer, DelayTimer, launchVars
<1>3. Locked' /\ LineAscends' /\ InLine' = InLine \union {job}
  BY <1>1, LockAdds DEF OutputInv
<1>4. handed' \in {handed, handed + 1} /\ handed' <= MaxMessages
  BY <1>2, RemoteOutputAssumption DEF OutputInv, QueueKinds
<1>5. QueueKinds' /\ LineIsBehind' /\ QueueAscends' /\ SentInOrder'
  BY <1>1, <1>2, <1>3, <1>4, TheQueueStays
<1>6. LaunchKinds'
  BY <1>1, <1>2 DEF OutputInv, LaunchKinds
<1>7. QED
  BY <1>3, <1>5, <1>6 DEF OutputInv

\* The next launch, with the queue as it is.
LEMMA RelaunchKeeps ==
    ASSUME OutputInv, DestroyAndRelaunch
    PROVE  OutputInv'
<1>1. /\ processTimer' = FALSE /\ delayTimers' = {} /\ queue' = queue /\ nextId' = nextId
      /\ sent' = sent /\ permits' = permits /\ inside' = inside /\ resolvers' = resolvers
      /\ phase' = "running" /\ launches < MaxLaunches /\ launches' = launches + 1
      /\ handed' = handed /\ bypass' = bypass /\ ongoing' = ongoing /\ used' = used /\ asked' = asked
  BY DEF DestroyAndRelaunch, Q!Destroy, Q!lockVars
<1>2. handed' \in {handed, handed + 1} /\ handed' <= MaxMessages
  BY <1>1, RemoteOutputAssumption DEF OutputInv, QueueKinds
<1>3. InLine' = InLine /\ Locked' /\ LineAscends'
  BY <1>1 DEF OutputInv, InLine, Locked, LineAscends
<1>4. QueueKinds' /\ LineIsBehind' /\ QueueAscends' /\ SentInOrder'
  BY <1>1, <1>2, <1>3, TheQueueStays
<1>5. launches' \in 1..MaxLaunches
  BY <1>1, RemoteOutputAssumption DEF OutputInv, LaunchKinds
<1>6. LaunchKinds'
  BY <1>1, <1>5, Zenon DEF OutputInv, LaunchKinds
<1>7. QED
  BY <1>3, <1>4, <1>6 DEF OutputInv

\* The end of a launch: the interrupted results are sent past the queue.
LEMMA EndLaunchKeeps ==
    ASSUME OutputInv, EndLaunch
    PROVE  OutputInv'
<1> DEFINE c == Cardinality(ongoing)
           job == Q!FlushJob
<1>1. job \in Job /\ job.op = "flush"
  BY DEF Q!FlushJob, Job
<1>2. /\ handed + c <= MaxMessages /\ handed' = handed + c
      /\ bypass' = bypass \union (handed + 1)..(handed + c)
      /\ ongoing' = {} /\ Q!Lock(job) /\ phase' = "flushing"
      /\ queue' = queue /\ nextId' = nextId /\ delayTimers' = delayTimers
      /\ processTimer' = processTimer /\ used' = used /\ asked' = asked /\ launches' = launches
  BY DEF EndLaunch
<1>3. PICK f \in [1..c -> ongoing] :
        sent' = sent \o [i \in DOMAIN f |-> [n |-> handed + i, kind |-> "result", tool |-> f[i]]]
  BY DEF EndLaunch, Orders
<1>4. c \in Nat
  BY FS_CardinalityType DEF OutputInv, LaunchKinds
<1> HIDE DEF c, job
<1>5. /\ handed \in Nat /\ nextId \in 1..(handed + 1)
      /\ queue \in Seq(Q!Item) /\ sent \in Seq(Q!Message) /\ bypass \subseteq 1..handed
      /\ (\A i \in DOMAIN queue : queue[i].msg.n <= handed)
      /\ (\A i \in DOMAIN sent : sent[i].n <= handed)
  BY RemoteOutputAssumption DEF OutputInv, QueueKinds
<1>6. /\ sent' \in Seq(Q!Message) /\ Len(sent') = Len(sent) + c
      /\ \A i \in 1..Len(sent) : sent'[i] = sent[i]
      /\ \A i \in (Len(sent) + 1)..Len(sent') : sent'[i].n \in (handed + 1)..(handed + c)
  <2> DEFINE results == [i \in 1..c |-> [n |-> handed + i, kind |-> "result", tool |-> f[i]]]
  <2>1. \A i \in 1..c : [n |-> handed + i, kind |-> "result", tool |-> f[i]] \in Q!Message
    BY <1>3, <1>4, <1>5 DEF OutputInv, LaunchKinds, Q!Message
  <2>2. results \in [1..c -> Q!Message] /\ \A i \in 1..c : results[i].n = handed + i
    BY <2>1
  <2>3. sent' = sent \o results
    BY <1>3
  <2> HIDE DEF results
  <2>4. results \in Seq(Q!Message) /\ Len(results) = c
    BY <1>4, <2>2
  <2>5. /\ sent' \in Seq(Q!Message) /\ Len(sent') = Len(sent) + c /\ Len(sent) \in Nat
        /\ \A i \in 1..Len(sent) : sent'[i] = sent[i]
        /\ \A i \in (Len(sent) + 1)..Len(sent') :
              i - Len(sent) \in 1..c /\ sent'[i] = results[i - Len(sent)]
    <3>1. /\ sent' \in Seq(Q!Message) /\ Len(sent') = Len(sent) + Len(results)
          /\ \A i \in 1..Len(sent) : sent'[i] = sent[i]
          /\ \A i \in 1..Len(results) : sent'[Len(sent) + i] = results[i]
      BY <1>5, <2>3, <2>4, ConcatIs
    <3>2. Len(sent) \in Nat
      BY <1>5
    <3>3. \A i \in (Len(sent) + 1)..(Len(sent) + c) : i - Len(sent) \in 1..c /\ Len(sent) + (i - Len(sent)) = i
      BY <1>4, <3>2
    <3>4. QED
      BY <2>4, <3>1, <3>2, <3>3
  <2>6. \A i \in (Len(sent) + 1)..Len(sent') : sent'[i].n \in (handed + 1)..(handed + c)
    <3>1. TAKE i \in (Len(sent) + 1)..Len(sent')
    <3>2. i - Len(sent) \in 1..c /\ sent'[i].n = handed + (i - Len(sent))
      BY <2>2, <2>5
    <3>3. handed \in Nat
      BY <1>5
    <3>4. QED
      BY <1>4, <3>2, <3>3
  <2>7. QED
    BY <2>5, <2>6
<1>7. Len(sent) \in Nat /\ DOMAIN sent = 1..Len(sent) /\ DOMAIN sent' = 1..Len(sent')
  BY <1>5, <1>6
<1>8. \A i \in DOMAIN sent' : \/ i \in DOMAIN sent /\ sent'[i] = sent[i]
                              \/ sent'[i].n \in bypass' /\ sent'[i].n \in (handed + 1)..(handed + c)
  BY <1>2, <1>4, <1>6, <1>7
<1>9. Locked' /\ LineAscends' /\ InLine' = InLine \union {job}
  BY <1>1, <1>2, LockAdds DEF OutputInv
<1>10. LineIsBehind'
  <2> SUFFICES ASSUME NEW j \in InLine', j.op = "enqueue"
               PROVE  /\ j.msg.n \in nextId..handed'
                      /\ \A i \in DOMAIN sent' : sent'[i].n < j.msg.n \/ sent'[i].n \in bypass'
                      /\ \A i \in DOMAIN queue : queue[i].msg.n < j.msg.n
    BY <1>2 DEF LineIsBehind, AllBefore
  <2>1. j \in InLine
    BY <1>1, <1>9
  <2>2. /\ j.msg.n \in nextId..handed
        /\ \A i \in DOMAIN sent : sent[i].n < j.msg.n \/ sent[i].n \in bypass
        /\ \A i \in DOMAIN queue : queue[i].msg.n < j.msg.n
    BY <2>1 DEF OutputInv, LineIsBehind, AllBefore
  <2>3. QED
    BY <1>2, <1>4, <1>5, <1>8, <2>2
<1>11. QueueAscends'
  BY <1>2, <1>8 DEF OutputInv, QueueAscends, IdsAscend
<1>12. SentInOrder'
  <2> SUFFICES ASSUME NEW i \in DOMAIN sent', NEW k \in DOMAIN sent', i < k,
                      sent'[i].n \notin bypass', sent'[k].n \notin bypass'
               PROVE  sent'[i].n < sent'[k].n
    BY DEF SentInOrder
  <2>1. /\ i \in DOMAIN sent /\ sent'[i] = sent[i] /\ sent[i].n \notin bypass
        /\ k \in DOMAIN sent /\ sent'[k] = sent[k] /\ sent[k].n \notin bypass
    BY <1>2, <1>8
  <2>2. QED
    BY <2>1 DEF OutputInv, SentInOrder
<1>13. QueueKinds'
  <2>1. /\ handed' \in 0..MaxMessages /\ nextId' \in 1..(handed' + 1) /\ bypass' \subseteq 1..handed'
        /\ handed <= handed'
    <3>1. handed' \in 0..MaxMessages /\ nextId' \in 1..(handed' + 1) /\ handed <= handed'
      BY <1>2, <1>4, <1>5, RemoteOutputAssumption
    <3>2. bypass' \subseteq 1..handed'
      BY <1>2, <1>4, <1>5
    <3>3. QED
      BY <3>1, <3>2
  <2>2. delayTimers' \subseteq 1..(nextId' - 1)
    BY <1>2 DEF OutputInv, QueueKinds
  <2>3. \A i \in DOMAIN queue' : queue'[i].msg.n \in Nat
    <3>1. \A i \in DOMAIN queue' : queue'[i] \in Q!Item
      BY <1>2, <1>5
    <3>2. QED
      BY <3>1 DEF Q!Item, Q!Message
  <2>4. \A i \in DOMAIN queue' : queue'[i].msg.n <= handed'
    BY <1>2, <1>5, <2>1, <2>3
  <2>5. \A i \in DOMAIN sent : sent[i].n \in Nat
    <3>1. \A i \in DOMAIN sent : sent[i] \in Q!Message
      BY <1>5
    <3>2. QED
      BY <3>1 DEF Q!Message
  <2>6. \A i \in DOMAIN sent' : sent'[i].n <= handed'
    BY <1>2, <1>4, <1>5, <1>8, <2>5
  <2>7. queue' \in Seq(Q!Item)
    BY <1>2, <1>5
  <2>8. QED
    BY <1>6, <2>1, <2>2, <2>4, <2>6, <2>7, Zenon DEF QueueKinds
<1>14. LaunchKinds'
  BY <1>2, FS_EmptySet DEF OutputInv, LaunchKinds
<1>15. QED
  BY <1>9, <1>10, <1>11, <1>12, <1>13, <1>14 DEF OutputInv

\* An item goes to the end of the queue.
LEMMA InsertKeeps ==
    ASSUME OutputInv, NEW j \in inside, j.op = "enqueue", Q!InsertItem(j.msg, j.delayed),
           InLine' \subseteq InLine, handed' = handed, bypass' = bypass,
           \A k \in InLine' : k.op = "enqueue" => j.msg.n < k.msg.n
    PROVE  QueueKinds' /\ LineIsBehind' /\ QueueAscends' /\ SentInOrder'
<1> DEFINE item == [id |-> nextId, msg |-> j.msg, released |-> ~j.delayed]
<1>1. /\ handed \in 0..MaxMessages /\ handed \in Nat /\ nextId \in 1..(handed + 1)
      /\ queue \in Seq(Q!Item) /\ sent \in Seq(Q!Message)
      /\ delayTimers \subseteq 1..(nextId - 1) /\ bypass \subseteq 1..handed
  BY RemoteOutputAssumption DEF OutputInv, QueueKinds
<1>2. /\ j.msg.n \in nextId..handed
      /\ \A i \in DOMAIN sent : sent[i].n < j.msg.n \/ sent[i].n \in bypass
      /\ \A i \in DOMAIN queue : queue[i].msg.n < j.msg.n
  BY DEF OutputInv, LineIsBehind, AllBefore, InLine
<1>3. item \in Q!Item /\ item.id = nextId /\ item.msg = j.msg
  <2>1. j.msg \in Q!Message /\ j.delayed \in BOOLEAN
    BY DEF OutputInv, Locked, Job
  <2>2. (~j.delayed) \in BOOLEAN
    <3>1. (~j.delayed) = TRUE \/ (~j.delayed) = FALSE
      BY Zenon
    <3>2. QED
      BY <3>1, Zenon
  <2>3. nextId \in Nat
    BY <1>1
  <2>4. QED
    BY <2>1, <2>2, <2>3 DEF Q!Item
<1>4. /\ queue' = Append(queue, item) /\ nextId' = nextId + 1 /\ sent' = sent
      /\ delayTimers' \subseteq delayTimers \union {nextId}
  BY DEF Q!InsertItem
<1> HIDE DEF item
<1>5. /\ queue' \in Seq(Q!Item) /\ Len(queue) \in Nat /\ DOMAIN queue = 1..Len(queue)
      /\ DOMAIN queue' = 1..(Len(queue) + 1) /\ queue'[Len(queue) + 1] = item
      /\ \A i \in 1..Len(queue) : queue'[i] = queue[i]
  BY <1>1, <1>3, <1>4
<1>6. \A i \in 1..Len(queue) : /\ queue[i].id \in Nat /\ queue[i].id < nextId
                               /\ queue[i].msg.n \in Nat
  <2>1. \A i \in 1..Len(queue) : queue[i] \in Q!Item
    BY <1>1
  <2>2. QED
    BY <1>5, <2>1 DEF Q!Item, Q!Message, OutputInv, QueueAscends
<1>7. LineIsBehind'
  <2> SUFFICES ASSUME NEW k \in InLine', k.op = "enqueue"
               PROVE  /\ k.msg.n \in (nextId + 1)..handed
                      /\ \A i \in DOMAIN sent : sent[i].n < k.msg.n \/ sent[i].n \in bypass
                      /\ \A i \in DOMAIN queue' : queue'[i].msg.n < k.msg.n
    BY <1>4 DEF LineIsBehind, AllBefore
  <2>1. /\ k.msg.n \in nextId..handed
        /\ \A i \in DOMAIN sent : sent[i].n < k.msg.n \/ sent[i].n \in bypass
        /\ \A i \in DOMAIN queue : queue[i].msg.n < k.msg.n
    BY DEF OutputInv, LineIsBehind, AllBefore
  <2>2. j.msg.n < k.msg.n
    OBVIOUS
  <2>3. k.msg.n \in (nextId + 1)..handed
    BY <1>1, <1>2, <2>1, <2>2
  <2>4. \A i \in DOMAIN queue' : queue'[i].msg.n < k.msg.n
    BY <1>3, <1>5, <2>1, <2>2
  <2>5. QED
    BY <2>1, <2>3, <2>4
<1>8. QueueAscends'
  <2>1. \A i, k \in DOMAIN queue' : i < k => /\ queue'[i].id < queue'[k].id
                                             /\ queue'[i].msg.n < queue'[k].msg.n
    BY <1>2, <1>3, <1>5, <1>6 DEF OutputInv, QueueAscends, IdsAscend
  <2>2. \A i \in DOMAIN queue' : queue'[i].id < nextId'
    BY <1>1, <1>3, <1>4, <1>5, <1>6
  <2>3. ASSUME NEW i \in DOMAIN queue', NEW k \in DOMAIN sent
        PROVE  sent[k].n < queue'[i].msg.n \/ sent[k].n \in bypass
    BY <1>2, <1>3, <1>5 DEF OutputInv, QueueAscends
  <2>4. QED
    BY <1>4, <2>1, <2>2, <2>3 DEF QueueAscends, IdsAscend
<1>9. SentInOrder'
  BY <1>4 DEF OutputInv, SentInOrder
<1>10. QueueKinds'
  <2>1. nextId' \in 1..(handed' + 1) /\ delayTimers' \subseteq 1..(nextId' - 1)
    <3>1. nextId + 1 \in 1..(handed + 1) /\ delayTimers' \subseteq 1..((nextId + 1) - 1)
      BY <1>1, <1>2, <1>4, NextNumber
    <3>2. QED
      BY <1>4, <3>1, Zenon
  <2>2. \A i \in DOMAIN queue' : queue'[i].msg.n <= handed'
    BY <1>1, <1>2, <1>3, <1>5 DEF OutputInv, QueueKinds
  <2>3. QED
    BY <1>1, <1>4, <1>5, <2>1, <2>2, Zenon DEF OutputInv, QueueKinds
<1>11. QED
  BY <1>7, <1>8, <1>9, <1>10

\* A released item is the item it was.
LEMMA ReleasedItem ==
    ASSUME NEW it \in Q!Item, NEW b \in BOOLEAN
    PROVE  /\ [it EXCEPT !.released = b] \in Q!Item
           /\ [it EXCEPT !.released = b].id = it.id /\ [it EXCEPT !.released = b].msg = it.msg
BY DEF Q!Item

\* Items are released where they are.
LEMMA ReleaseKeeps ==
    ASSUME OutputInv, queue' \in Seq(Q!Item), DOMAIN queue' = DOMAIN queue,
           \A i \in DOMAIN queue : queue'[i].id = queue[i].id /\ queue'[i].msg = queue[i].msg,
           delayTimers' \subseteq delayTimers, nextId' = nextId, sent' = sent,
           InLine' \subseteq InLine, handed' = handed, bypass' = bypass
    PROVE  QueueKinds' /\ LineIsBehind' /\ QueueAscends' /\ SentInOrder'
<1>1. LineIsBehind'
  BY DEF OutputInv, LineIsBehind, AllBefore
<1>2. QueueAscends'
  BY DEF OutputInv, QueueAscends, IdsAscend
<1>3. SentInOrder'
  BY DEF OutputInv, SentInOrder
<1>4. QueueKinds'
  <2>1. \A i \in DOMAIN queue' : queue'[i].msg.n <= handed'
    BY DEF OutputInv, QueueKinds
  <2>2. delayTimers' \subseteq 1..(nextId - 1)
    BY DEF OutputInv, QueueKinds
  <2>3. QED
    BY <2>1, <2>2, Zenon DEF OutputInv, QueueKinds
<1>5. QED
  BY <1>1, <1>2, <1>3, <1>4

\* The front of the queue, or of one with the same items, is sent.
LEMMA SendKeeps ==
    ASSUME OutputInv, NEW q \in Seq(Q!Item), DOMAIN q = DOMAIN queue,
           \A i \in DOMAIN queue : q[i].id = queue[i].id /\ q[i].msg = queue[i].msg,
           Q!SendReleased(q), delayTimers' \subseteq delayTimers, nextId' = nextId,
           InLine' \subseteq InLine, handed' = handed, bypass' = bypass
    PROVE  QueueKinds' /\ LineIsBehind' /\ QueueAscends' /\ SentInOrder'
<1>1. /\ handed \in Nat /\ nextId \in 1..(handed + 1)
      /\ queue \in Seq(Q!Item) /\ sent \in Seq(Q!Message)
  BY RemoteOutputAssumption DEF OutputInv, QueueKinds
<1>2. IdsAscend(q)
  BY DEF OutputInv, QueueAscends, IdsAscend
<1>13. PICK n \in 0..Len(q), c \in Nat : \E at \in [1..c -> 1..n] :
        /\ \A i, k \in 1..c : i < k => at[i] < at[k]
        /\ sent' \in Seq(Q!Message) /\ Len(sent') = Len(sent) + c
        /\ \A i \in 1..Len(sent) : sent'[i] = sent[i]
        /\ \A i \in 1..c : sent'[Len(sent) + i] = q[at[i]].msg
        /\ queue' \in Seq(Q!Item) /\ Len(queue') = Len(q) - n
        /\ \A i \in 1..Len(queue') : queue'[i] = q[n + i]
  BY <1>1, <1>2, TheFrontIsSent
<1>3. PICK at \in [1..c -> 1..n] :
        /\ \A i, k \in 1..c : i < k => at[i] < at[k]
        /\ sent' \in Seq(Q!Message) /\ Len(sent') = Len(sent) + c
        /\ \A i \in 1..Len(sent) : sent'[i] = sent[i]
        /\ \A i \in 1..c : sent'[Len(sent) + i] = q[at[i]].msg
        /\ queue' \in Seq(Q!Item) /\ Len(queue') = Len(q) - n
        /\ \A i \in 1..Len(queue') : queue'[i] = q[n + i]
  BY <1>13
<1>4. /\ Len(q) \in Nat /\ DOMAIN q = 1..Len(q) /\ DOMAIN queue = 1..Len(q)
      /\ Len(sent) \in Nat /\ DOMAIN sent = 1..Len(sent) /\ DOMAIN sent' = 1..(Len(sent) + c)
      /\ DOMAIN queue' = 1..(Len(q) - n)
  BY <1>1, <1>3
<1>5. \A i \in DOMAIN queue' : /\ n + i \in DOMAIN queue
                               /\ queue'[i].id = queue[n + i].id /\ queue'[i].msg = queue[n + i].msg
  BY <1>3, <1>4
<1>6. \A i \in (Len(sent) + 1)..(Len(sent) + c) :
        /\ i - Len(sent) \in 1..c
        /\ at[i - Len(sent)] \in 1..n /\ at[i - Len(sent)] \in DOMAIN queue
        /\ sent'[i] = queue[at[i - Len(sent)]].msg
  BY <1>3, <1>4
<1>7. \A i \in DOMAIN sent' : \/ i \in 1..Len(sent) /\ sent'[i] = sent[i]
                              \/ i \in (Len(sent) + 1)..(Len(sent) + c)
  BY <1>3, <1>4
<1>8. LineIsBehind'
  <2> SUFFICES ASSUME NEW k \in InLine', k.op = "enqueue"
               PROVE  /\ k.msg.n \in nextId..handed
                      /\ \A i \in DOMAIN sent' : sent'[i].n < k.msg.n \/ sent'[i].n \in bypass
                      /\ \A i \in DOMAIN queue' : queue'[i].msg.n < k.msg.n
    BY DEF LineIsBehind, AllBefore
  <2>1. /\ k.msg.n \in nextId..handed
        /\ \A i \in DOMAIN sent : sent[i].n < k.msg.n \/ sent[i].n \in bypass
        /\ \A i \in DOMAIN queue : queue[i].msg.n < k.msg.n
    BY DEF OutputInv, LineIsBehind, AllBefore
  <2>2. \A i \in DOMAIN sent' : sent'[i].n < k.msg.n \/ sent'[i].n \in bypass
    BY <1>4, <1>6, <1>7, <2>1
  <2>3. QED
    BY <1>5, <2>1, <2>2
<1>9. QueueAscends'
  <2>1. \A i, k \in DOMAIN queue' : i < k => /\ queue'[i].id < queue'[k].id
                                             /\ queue'[i].msg.n < queue'[k].msg.n
    <3>1. \A i, k \in DOMAIN queue' : i < k => n + i < n + k
      BY <1>3, <1>4
    <3>2. QED
      BY <1>5, <3>1 DEF OutputInv, QueueAscends, IdsAscend
  <2>2. \A i \in DOMAIN queue' : queue'[i].id < nextId
    BY <1>5 DEF OutputInv, QueueAscends
  <2>3. ASSUME NEW i \in DOMAIN queue', NEW k \in DOMAIN sent'
        PROVE  sent'[k].n < queue'[i].msg.n \/ sent'[k].n \in bypass
    <3>1. CASE k \in 1..Len(sent)
      BY <1>3, <1>4, <1>5, <3>1 DEF OutputInv, QueueAscends
    <3>2. CASE k \in (Len(sent) + 1)..(Len(sent) + c)
      <4>1. at[k - Len(sent)] < n + i
        <5>1. at[k - Len(sent)] \in 1..n
          BY <1>6, <3>2
        <5>2. i \in Nat /\ i >= 1 /\ n \in Nat
          BY <1>3, <1>4
        <5>3. QED
          BY <5>1, <5>2
      <4>2. QED
        BY <1>5, <1>6, <3>2, <4>1 DEF OutputInv, QueueAscends
    <3>3. QED
      BY <1>7, <3>1, <3>2
  <2>4. QED
    BY <2>1, <2>2, <2>3 DEF QueueAscends, IdsAscend
<1>10. SentInOrder'
  <2> SUFFICES ASSUME NEW i \in DOMAIN sent', NEW k \in DOMAIN sent', i < k,
                      sent'[i].n \notin bypass, sent'[k].n \notin bypass
               PROVE  sent'[i].n < sent'[k].n
    BY DEF SentInOrder
  <2>1. CASE k \in 1..Len(sent)
    <3>1. i \in DOMAIN sent /\ k \in DOMAIN sent /\ sent'[i] = sent[i] /\ sent'[k] = sent[k]
      BY <1>3, <1>4, <2>1
    <3>2. QED
      BY <3>1 DEF OutputInv, SentInOrder
  <2>2. CASE k \in (Len(sent) + 1)..(Len(sent) + c)
    <3>1. CASE i \in 1..Len(sent)
      <4>1. i \in DOMAIN sent /\ sent'[i] = sent[i]
        BY <1>3, <1>4, <3>1
      <4>2. at[k - Len(sent)] \in DOMAIN queue /\ sent'[k] = queue[at[k - Len(sent)]].msg
        BY <1>6, <2>2
      <4>3. QED
        BY <4>1, <4>2 DEF OutputInv, QueueAscends
    <3>2. CASE i \in (Len(sent) + 1)..(Len(sent) + c)
      <4>1. at[i - Len(sent)] < at[k - Len(sent)]
        <5>1. i - Len(sent) < k - Len(sent)
          BY <1>4, <2>2, <3>2
        <5>2. i - Len(sent) \in 1..c /\ k - Len(sent) \in 1..c
          BY <1>6, <2>2, <3>2
        <5>3. QED
          BY <1>3, <5>1, <5>2
      <4>2. QED
        BY <1>6, <2>2, <3>2, <4>1 DEF OutputInv, QueueAscends
    <3>3. QED
      BY <1>7, <3>1, <3>2
  <2>3. QED
    BY <1>7, <2>1, <2>2
<1>11. QueueKinds'
  <2>1. \A i \in DOMAIN queue' : queue'[i].msg.n <= handed'
    BY <1>5 DEF OutputInv, QueueKinds
  <2>2. \A i \in DOMAIN sent' : sent'[i].n <= handed'
    BY <1>4, <1>6, <1>7 DEF OutputInv, QueueKinds
  <2>3. delayTimers' \subseteq 1..(nextId' - 1)
    BY DEF OutputInv, QueueKinds
  <2>4. QED
    BY <1>3, <2>1, <2>2, <2>3, Zenon DEF OutputInv, QueueKinds
<1>12. QED
  BY <1>8, <1>9, <1>10, <1>11

\* A job that has the lock.
LEMMA RunJobKeeps ==
    ASSUME OutputInv, NEW j \in inside, RunJob(j)
    PROVE  OutputInv'
<1>1. /\ Q!Unlock(j) /\ handed' = handed /\ bypass' = bypass /\ ongoing' = ongoing
      /\ used' = used /\ asked' = asked /\ launches' = launches
      /\ phase' \in {"running", "flushing", "flushed"}
  BY DEF RunJob, Q!Run, OutputInv, LaunchKinds
<1>2. processTimer' \in BOOLEAN
  <2>1. processTimer' = (processTimer \/ Q!Reschedules(j.op))
    BY DEF RunJob, Q!Run
  <2>2. processTimer' = TRUE \/ processTimer' = FALSE
    BY <2>1, Zenon
  <2>3. QED
    BY <2>2, Zenon
<1>3. /\ Locked' /\ LineAscends' /\ InLine' \subseteq InLine
      /\ \A k \in InLine' : j.op = "enqueue" /\ k.op = "enqueue" => j.msg.n < k.msg.n
  BY <1>1, UnlockRemoves DEF OutputInv
<1>4. LaunchKinds'
  BY <1>1, <1>2, Zenon DEF OutputInv, LaunchKinds
<1>5. j.op \in {"enqueue", "release", "releaseTool", "process", "flush"}
  BY DEF OutputInv, Locked, Job
<1>6. queue \in Seq(Q!Item) /\ DOMAIN queue = 1..Len(queue) /\ Len(queue) \in Nat
  BY DEF OutputInv, QueueKinds
<1>7. QueueKinds' /\ LineIsBehind' /\ QueueAscends' /\ SentInOrder'
  <2>1. CASE j.op = "enqueue"
    <3>1. Q!InsertItem(j.msg, j.delayed)
      BY <2>1 DEF RunJob, Q!Run
    <3>2. QED
      BY <1>1, <1>3, <2>1, <3>1, InsertKeeps
  <2>2. CASE j.op = "release"
    <3>1. /\ queue' = [i \in DOMAIN queue |->
                         [queue[i] EXCEPT !.released = @ \/ queue[i].id = j.id]]
          /\ delayTimers' \subseteq delayTimers /\ nextId' = nextId /\ sent' = sent
      BY <2>2 DEF RunJob, Q!Run, Q!Release
    <3>2. /\ queue' \in Seq(Q!Item) /\ DOMAIN queue' = DOMAIN queue
          /\ \A i \in DOMAIN queue : queue'[i].id = queue[i].id /\ queue'[i].msg = queue[i].msg
      <4> DEFINE b == [i \in DOMAIN queue |-> (queue[i].released \/ queue[i].id = j.id)]
      <4>1. \A i \in DOMAIN queue : b[i] \in BOOLEAN
        <5>1. \A i \in DOMAIN queue : b[i] = TRUE \/ b[i] = FALSE
          BY Zenon
        <5>2. QED
          BY <5>1, Zenon
      <4>2. /\ DOMAIN queue' = 1..Len(queue) /\ queue' = [i \in 1..Len(queue) |-> queue'[i]]
            /\ \A i \in 1..Len(queue) : queue'[i] = [queue[i] EXCEPT !.released = b[i]]
        BY <1>6, <3>1
      <4> HIDE DEF b
      <4>3. ASSUME NEW i \in 1..Len(queue)
            PROVE  queue'[i] \in Q!Item /\ queue'[i].id = queue[i].id /\ queue'[i].msg = queue[i].msg
        <5>1. queue[i] \in Q!Item /\ b[i] \in BOOLEAN
          BY <1>6, <4>1
        <5>2. queue'[i] = [queue[i] EXCEPT !.released = b[i]]
          BY <4>2
        <5>3. QED
          BY <5>1, <5>2, ReleasedItem, Zenon
      <4>4. QED
        BY <1>6, <4>2, <4>3
    <3>3. QED
      BY <1>1, <1>3, <3>1, <3>2, ReleaseKeeps
  <2>3. CASE j.op = "releaseTool"
    <3>1. /\ queue' = [i \in DOMAIN queue |->
                         [queue[i] EXCEPT !.released = @ \/ (queue[i].msg.kind = "use" /\ queue[i].msg.tool = j.tool)]]
          /\ delayTimers' \subseteq delayTimers /\ nextId' = nextId /\ sent' = sent
      BY <2>3 DEF RunJob, Q!Run, Q!Release
    <3>2. /\ queue' \in Seq(Q!Item) /\ DOMAIN queue' = DOMAIN queue
          /\ \A i \in DOMAIN queue : queue'[i].id = queue[i].id /\ queue'[i].msg = queue[i].msg
      <4> DEFINE b == [i \in DOMAIN queue |->
                         (queue[i].released \/ (queue[i].msg.kind = "use" /\ queue[i].msg.tool = j.tool))]
      <4>1. \A i \in DOMAIN queue : b[i] \in BOOLEAN
        <5>1. \A i \in DOMAIN queue : b[i] = TRUE \/ b[i] = FALSE
          BY Zenon
        <5>2. QED
          BY <5>1, Zenon
      <4>2. /\ DOMAIN queue' = 1..Len(queue) /\ queue' = [i \in 1..Len(queue) |-> queue'[i]]
            /\ \A i \in 1..Len(queue) : queue'[i] = [queue[i] EXCEPT !.released = b[i]]
        BY <1>6, <3>1
      <4> HIDE DEF b
      <4>3. ASSUME NEW i \in 1..Len(queue)
            PROVE  queue'[i] \in Q!Item /\ queue'[i].id = queue[i].id /\ queue'[i].msg = queue[i].msg
        <5>1. queue[i] \in Q!Item /\ b[i] \in BOOLEAN
          BY <1>6, <4>1
        <5>2. queue'[i] = [queue[i] EXCEPT !.released = b[i]]
          BY <4>2
        <5>3. QED
          BY <5>1, <5>2, ReleasedItem, Zenon
      <4>4. QED
        BY <1>6, <4>2, <4>3
    <3>3. QED
      BY <1>1, <1>3, <3>1, <3>2, ReleaseKeeps
  <2>4. CASE j.op = "process"
    <3>1. Q!SendReleased(queue) /\ nextId' = nextId /\ delayTimers' = delayTimers
      BY <2>4 DEF RunJob, Q!Run
    <3>2. QED
      BY <1>1, <1>3, <1>6, <3>1, SendKeeps
  <2>5. CASE j.op = "flush"
    <3> DEFINE q == [i \in DOMAIN queue |-> [queue[i] EXCEPT !.released = TRUE]]
    <3>1. Q!SendReleased(q) /\ nextId' = nextId /\ delayTimers' = {}
      BY <2>5 DEF RunJob, Q!Run, Q!FlushBody
    <3>2. /\ q \in Seq(Q!Item) /\ DOMAIN q = DOMAIN queue
          /\ \A i \in DOMAIN queue : q[i].id = queue[i].id /\ q[i].msg = queue[i].msg
      <4> DEFINE b == [i \in DOMAIN queue |-> TRUE]
      <4>1. \A i \in DOMAIN queue : b[i] \in BOOLEAN
        OBVIOUS
      <4>2. /\ DOMAIN q = 1..Len(queue) /\ q = [i \in 1..Len(queue) |-> q[i]]
            /\ \A i \in 1..Len(queue) : q[i] = [queue[i] EXCEPT !.released = b[i]]
        BY <1>6
      <4> HIDE DEF b, q
      <4>3. ASSUME NEW i \in 1..Len(queue)
            PROVE  q[i] \in Q!Item /\ q[i].id = queue[i].id /\ q[i].msg = queue[i].msg
        <5>1. queue[i] \in Q!Item /\ b[i] \in BOOLEAN
          BY <1>6, <4>1
        <5>2. q[i] = [queue[i] EXCEPT !.released = b[i]]
          BY <4>2
        <5>3. QED
          BY <5>1, <5>2, ReleasedItem, Zenon
      <4>4. QED
        BY <1>6, <4>2, <4>3
    <3> HIDE DEF q
    <3>3. QED
      BY <1>1, <1>3, <3>1, <3>2, SendKeeps
  <2>6. QED
    BY <1>5, <2>1, <2>2, <2>3, <2>4, <2>5
<1>8. QED
  BY <1>3, <1>4, <1>7 DEF OutputInv

---------------------------------------------------------------------------

\* Every step keeps the invariant.
LEMMA OutputNextInv ==
    ASSUME OutputInv, [OutputNext]_outputVars
    PROVE  OutputInv'
<1>1. CASE OnMessage
  BY <1>1, OnOtherKeeps, OnToolUseKeeps, OnToolResultKeeps DEF OnMessage
<1>2. CASE \E t \in Tool : OnPermissionRequest(t)
  BY <1>2, OnPermissionRequestKeeps
<1>3. CASE EndLaunch
  BY <1>3, EndLaunchKeeps
<1>4. CASE DestroyAndRelaunch
  BY <1>4, RelaunchKeeps
<1>5. CASE Jobs
  BY <1>5, RunJobKeeps DEF Jobs
<1>6. CASE Timers
  BY <1>6, TimersKeep
<1>7. CASE UNCHANGED outputVars
  <2> USE <1>7 DEF outputVars, OutputInv
  <2>1. QueueKinds'
    BY Zenon DEF QueueKinds
  <2>2. LaunchKinds'
    BY Zenon DEF LaunchKinds
  <2>3. Locked' /\ LineAscends'
    BY Zenon DEF Locked, LineAscends
  <2>4. LineIsBehind'
    BY Zenon DEF LineIsBehind, AllBefore, InLine
  <2>5. QueueAscends' /\ SentInOrder'
    BY Zenon DEF QueueAscends, IdsAscend, SentInOrder
  <2>6. QED
    BY <2>1, <2>2, <2>3, <2>4, <2>5
<1>8. QED
  BY <1>1, <1>2, <1>3, <1>4, <1>5, <1>6, <1>7 DEF OutputNext

\* The invariant holds of the type.
LEMMA OutputInvType == OutputInv => OutputTypeOK
<1> SUFFICES ASSUME OutputInv PROVE OutputTypeOK
  OBVIOUS
<1>1. /\ nextId \in 1..(MaxMessages + 1) /\ delayTimers \subseteq 1..MaxMessages
      /\ handed \in 0..MaxMessages /\ bypass \subseteq 1..handed
      /\ queue \in Seq(Q!Item) /\ sent \in Seq(Q!Message)
  BY RemoteOutputAssumption DEF OutputInv, QueueKinds
<1>2. QED
  BY <1>1, Zenon DEF OutputInv, OutputTypeOK, LaunchKinds, Locked

\* The queue's items have the ids they were given, the permit is one, and the launch has
\* the tool calls that were made.
THEOREM OutputTypeCorrect == OutputSpec => []OutputTypeOK
<1>1. OutputInv /\ [OutputNext]_outputVars => OutputInv'
  BY OutputNextInv
<1>2. QED
  BY OutputInitInv, <1>1, OutputInvType, PTL DEF OutputSpec

\* However tool calls are held back, released by their permission request, their result or
\* their timer, and flushed at the end of a launch: what goes through the queue is sent in
\* the order it was handed over, and once.
THEOREM SentAsHanded == OutputSpec => []SentInOrder
<1>1. OutputInv /\ [OutputNext]_outputVars => OutputInv'
  BY OutputNextInv
<1>2. OutputInv => SentInOrder
  BY DEF OutputInv
<1>3. QED
  BY OutputInitInv, <1>1, <1>2, PTL DEF OutputSpec

---------------------------------------------------------------------------
(* SessionIdentity. Happy knows the conversation the user is in because no *)
(* Claude goes by another id without saying so; after a clear it knows     *)
(* none that could be resumed, and the flags were used up. What a remote   *)
(* launch settled before its prompt is still right when the prompt comes.  *)

\* IdentityTypeOK, what the flags may have become, that the id the user names can be
\* resumed, and that a process has an id.
IdentityTypes ==
    /\ IdentityTypeOK
    /\ claudeArgs = givenArgs \/ (claudeArgs = "none" /\ givenArgs \in Long)
    /\ Named \in valid
    /\ runs \in {"local", "remote"} => runningId \in Id

\* Once Claude has reported, Happy knows the id it goes by.
ReportedIsKnown == runs \in {"local", "remote"} /\ hooked => knownId = runningId

\* Happy knows the conversation, which can be resumed; so can what Claude goes by, were
\* it another.
KnowsTheConversation ==
    conversation \notin {"unset", NoId} =>
        /\ knownId = conversation /\ conversation \in valid
        /\ runs \in {"local", "remote"} => runningId \in valid

\* After a clear, until the user talks again, there is nothing to resume.
KnowsOfNone ==
    conversation = NoId /\ conversation # "unset" => claudeArgs = "none" /\ knownId \notin valid

\* What a waiting launch would resume is what it would settle on now.
StartIsSettled == runs = "waiting" => startFrom = RemoteStart

\* The flags that ConsumeOneTimeFlags knows, or none.
UsedOnce == givenArgs \in Long \union {"none"}

IdentityInv ==
    /\ IdentityTypes
    /\ ReportedIsKnown
    /\ StartIsSettled
    /\ UsedOnce => KnowsTheConversation /\ KnowsOfNone

\* At the start nothing has been told.
LEMMA IdentityInitInv == IdentityInit => IdentityInv
<1> SUFFICES ASSUME IdentityInit PROVE IdentityInv
  OBVIOUS
<1>1. IdentityTypes
  <2>1. told.resume = NoId /\ told.args = "none" /\ "none" \in Flags
    BY DEF IdentityInit, Flags
  <2>2. spawned \in 0..MaxSpawns
    BY IdentityAssumption DEF IdentityInit
  <2>3. QED
    BY <2>1, <2>2, IdentityAssumption DEF IdentityInit, IdentityTypes, IdentityTypeOK
<1>2. ReportedIsKnown /\ StartIsSettled /\ KnowsTheConversation /\ KnowsOfNone
  BY DEF IdentityInit, ReportedIsKnown, StartIsSettled, KnowsTheConversation, KnowsOfNone
<1>3. QED
  BY <1>1, <1>2 DEF IdentityInv

\* Whatever Claude is told, it goes by an id.
LEMMA GoesByAnId ==
    ASSUME IdentityTypeOK, NEW t, t.resume \in Id \union {NoId}
    PROVE  GoesBy(t) \subseteq Id
  BY IdentityAssumption DEF GoesBy, FreshId, IdentityTypeOK

\* What a launch is told: an id, and a flag.
LEMMA StartsAreTyped ==
    ASSUME IdentityTypeOK
    PROVE  LocalStart \in Id \union {NoId} /\ RemoteStart \in Id \union {NoId}
  BY IdentityAssumption
  DEF LocalStart, RemoteStart, CanBeResumed, LastSession, IdentityTypeOK

\* Without flags, Claude is told the conversation, or nothing that could be resumed.
LEMMA LaunchesContinue ==
    ASSUME IdentityInv, claudeArgs = "none", conversation # "unset",
           NEW r \in {LocalStart, RemoteStart}
    PROVE  IF conversation = NoId THEN r \notin valid ELSE r = conversation /\ r # NoId
<1>1. UsedOnce
  BY DEF IdentityInv, IdentityTypes, UsedOnce
<1>2. CASE conversation # NoId
  <2>1. knownId = conversation /\ knownId \in valid /\ knownId # NoId
    BY <1>1, <1>2 DEF IdentityInv, KnowsTheConversation
  <2>2. QED
    BY <1>2, <2>1 DEF LocalStart, RemoteStart, CanBeResumed
<1>3. CASE conversation = NoId
  <2>1. knownId \notin valid /\ NoId \notin valid
    BY <1>1, <1>3, IdentityAssumption DEF IdentityInv, KnowsOfNone, IdentityTypes, IdentityTypeOK
  <2>2. QED
    BY <1>3, <2>1 DEF LocalStart, RemoteStart, CanBeResumed, Names, Continues
<1>4. QED
  BY <1>2, <1>3

\* Types are kept.
LEMMA IdentityTypesKept ==
    ASSUME IdentityTypes, [IdentityNext]_identityVars
    PROVE  IdentityTypes'
<1> USE IdentityAssumption
<1>1. ASSUME NEW mode \in {"local", "remote"}, NEW t, t.resume \in Id \union {NoId},
             t.args \in Flags, Spawn(mode, t)
      PROVE  IdentityTypes'
  <2>1. GoesBy(t) \subseteq Id
    BY <1>1, GoesByAnId DEF IdentityTypes
  <2>2. runningId' \in Id
    BY <1>1, <2>1 DEF Spawn
  <2>3. spawned' \in 0..MaxSpawns
    BY <1>1 DEF Spawn, IdentityTypes, IdentityTypeOK
  <2>4. QED
    BY <1>1, <2>2, <2>3, Zenon DEF Spawn, IdentityTypes, IdentityTypeOK, filesVars
<1>2. CASE LaunchLocal
  BY <1>1, <1>2, StartsAreTyped DEF LaunchLocal, IdentityTypes, IdentityTypeOK, Flags
<1>3. CASE SpawnRemote
  BY <1>1, <1>3 DEF SpawnRemote, IdentityTypes, IdentityTypeOK, Flags
<1>4. CASE BeginRemote
  BY <1>4, StartsAreTyped DEF BeginRemote, IdentityTypes, IdentityTypeOK, claudeVars, filesVars
<1>4a. CASE NothingToSay \/ Returns \/ Throws \/ Exits \/ ClearSession
  BY <1>4a DEF NothingToSay, Returns, Throws, Exits, ClearSession, ConsumeOneTimeFlags, IdentityTypes,
               IdentityTypeOK, Flags, claudeVars, filesVars
<1>5. CASE OnSessionHook \/ OnSystemInit
  BY <1>5 DEF OnSessionHook, OnSystemInit, HookTells, OnSessionFound, IdentityTypes,
              IdentityTypeOK, claudeVars, filesVars
<1>6. CASE Talks \/ Forks
  <2>1. runningId' \in Id
    BY <1>6 DEF Talks, Forks, Works, FreshId, claudeVars, IdentityTypes, IdentityTypeOK
  <2>2. QED
    BY <1>6, <2>1 DEF Talks, Forks, Works, IdentityTypes, IdentityTypeOK, claudeVars
<1>7. CASE UNCHANGED identityVars
  BY <1>7 DEF identityVars, IdentityTypes, IdentityTypeOK
<1>8. QED
  BY <1>2, <1>3, <1>4, <1>4a, <1>5, <1>6, <1>7 DEF IdentityNext

\* While a launch waits, nothing that it went by changes.
LEMMA StartKept ==
    ASSUME IdentityInv, [IdentityNext]_identityVars
    PROVE  StartIsSettled'
<1>1. CASE runs = "waiting" /\ runs' = "waiting"
  <2>1. UNCHANGED <<startFrom, knownId, claudeArgs, valid>>
    BY <1>1 DEF IdentityNext, identityVars, LaunchLocal, BeginRemote, SpawnRemote, NothingToSay, Returns,
                Throws, Exits, ClearSession, OnSessionHook, OnSystemInit, Talks, Forks, Works, Spawn
  <2>2. QED
    BY <1>1, <2>1 DEF IdentityInv, StartIsSettled, RemoteStart, CanBeResumed
<1>2. CASE runs # "waiting" /\ runs' = "waiting"
  <2>1. BeginRemote
    BY <1>2 DEF IdentityNext, identityVars, LaunchLocal, SpawnRemote, NothingToSay, Returns,
                Throws, Exits, ClearSession, OnSessionHook, OnSystemInit, Talks, Forks, Spawn
  <2>2. QED
    BY <2>1 DEF BeginRemote, StartIsSettled, RemoteStart, CanBeResumed, filesVars
<1>3. CASE runs' # "waiting"
  BY <1>3 DEF StartIsSettled
<1>4. QED
  BY <1>1, <1>2, <1>3

\* What is known is kept.
LEMMA IdentityKept ==
    ASSUME IdentityInv, [IdentityNext]_identityVars
    PROVE  ReportedIsKnown' /\ (UsedOnce' => KnowsTheConversation' /\ KnowsOfNone')
<1> USE IdentityAssumption
<1> DEFINE Known == ReportedIsKnown' /\ (UsedOnce' => KnowsTheConversation' /\ KnowsOfNone')
<1>0. IdentityTypes
  BY DEF IdentityInv
<1>1. ASSUME NEW mode, NEW t, Spawn(mode, t), UsedOnce,
             conversation \notin {"unset", NoId} => t.resume \in valid,
             t.args \in Long \union {"none"}
      PROVE  KnowsTheConversation'
  <2>1. CASE conversation \in {"unset", NoId}
    BY <1>1, <2>1 DEF Spawn, KnowsTheConversation
  <2>2. CASE conversation \notin {"unset", NoId}
    <3>1. KnowsTheConversation /\ valid \subseteq Id /\ Named \in valid /\ latest \in valid \union {NoId}
      BY <1>0, <1>1 DEF IdentityInv, IdentityTypes, IdentityTypeOK
    <3>2. GoesBy(t) \subseteq valid
      BY <1>1, <2>2, <3>1 DEF GoesBy
    <3>3. QED
      BY <1>1, <2>2, <3>1, <3>2 DEF Spawn, KnowsTheConversation, filesVars
  <2>3. QED
    BY <2>1, <2>2
<1>2. ASSUME NEW mode, NEW t, Spawn(mode, t) PROVE ReportedIsKnown' /\ (UsedOnce' => UsedOnce /\ KnowsOfNone')
  BY <1>2 DEF Spawn, ReportedIsKnown, UsedOnce, KnowsOfNone, IdentityInv, filesVars
<1>3. UsedOnce /\ conversation \notin {"unset", NoId} => LocalStart \in valid /\ RemoteStart \in valid
  BY <1>0 DEF IdentityInv, UsedOnce, IdentityTypes, IdentityTypeOK, KnowsTheConversation, LocalStart,
              RemoteStart, CanBeResumed, Long
<1>4. CASE LaunchLocal \/ SpawnRemote
  <2>1. UsedOnce => claudeArgs \in Long \union {"none"}
    BY <1>0 DEF IdentityTypes, UsedOnce
  <2>2. SpawnRemote => startFrom = RemoteStart
    BY DEF SpawnRemote, IdentityInv, StartIsSettled
  <2>3. QED
    BY <1>1, <1>2, <1>3, <1>4, <2>1, <2>2 DEF LaunchLocal, SpawnRemote
<1>5. CASE BeginRemote \/ NothingToSay \/ Returns \/ Throws \/ Exits
  BY <1>0, <1>5 DEF BeginRemote, NothingToSay, Returns, Throws, Exits, ConsumeOneTimeFlags, IdentityInv, IdentityTypes, ReportedIsKnown,
              KnowsTheConversation, KnowsOfNone, UsedOnce, claudeVars, filesVars
<1>6. CASE ClearSession
  BY <1>0, <1>6 DEF ClearSession, ConsumeOneTimeFlags, IdentityInv, IdentityTypes, IdentityTypeOK, ReportedIsKnown,
              KnowsTheConversation, KnowsOfNone, UsedOnce, claudeVars, filesVars
<1>7. CASE OnSessionHook
  <2>1. knownId' = runningId /\ runningId' = runningId /\ valid' = valid /\ claudeArgs' = claudeArgs
        /\ givenArgs' = givenArgs /\ conversation' = IF runningId \in valid THEN runningId ELSE conversation
    BY <1>7 DEF OnSessionHook, HookTells, OnSessionFound, filesVars
  <2>2. ReportedIsKnown'
    BY <2>1 DEF ReportedIsKnown
  <2>3. runningId \in Id /\ valid \subseteq Id /\ runs \in {"local", "remote"}
    BY <1>0, <1>7 DEF OnSessionHook, Works, IdentityTypes, IdentityTypeOK
  <2>4. QED
    BY <2>1, <2>2, <2>3 DEF UsedOnce, IdentityInv, KnowsTheConversation, KnowsOfNone
<1>8. CASE OnSystemInit
  <2>1. knownId = runningId
    BY <1>8 DEF OnSystemInit, Works, IdentityInv, ReportedIsKnown
  <2>2. QED
    BY <1>8, <2>1 DEF OnSystemInit, OnSessionFound, ReportedIsKnown, UsedOnce, IdentityInv, KnowsTheConversation,
                      KnowsOfNone, claudeVars, filesVars
<1>9. CASE Talks
  <2>1. knownId = runningId /\ runningId \in Id
    BY <1>0, <1>9 DEF Talks, Works, IdentityInv, ReportedIsKnown, IdentityTypes
  <2>2. QED
    BY <1>9, <2>1 DEF Talks, ReportedIsKnown, UsedOnce, KnowsTheConversation, KnowsOfNone, claudeVars
<1>10. CASE Forks
  <2>1. knownId = runningId /\ runningId \in valid /\ knownId' = knownId
    BY <1>10 DEF Forks, Works, IdentityInv, ReportedIsKnown
  <2>2. QED
    BY <1>10, <2>1 DEF Forks, ReportedIsKnown, UsedOnce, IdentityInv, KnowsTheConversation, KnowsOfNone
<1>11. CASE UNCHANGED identityVars
  BY <1>11 DEF identityVars, ReportedIsKnown, UsedOnce, IdentityInv, KnowsTheConversation, KnowsOfNone
<1>12. QED
  BY <1>4, <1>5, <1>6, <1>7, <1>8, <1>9, <1>10, <1>11 DEF IdentityNext

LEMMA IdentityNextInv == IdentityInv /\ [IdentityNext]_identityVars => IdentityInv'
  BY IdentityTypesKept, StartKept, IdentityKept DEF IdentityInv

\* Happy's, the server's and Claude's ids are ids of Claude's, and the flags are those the
\* user gave, or what is left of them.
THEOREM IdentityTypeCorrect == IdentitySpec => []IdentityTypeOK
<1>1. IdentityInv => IdentityTypeOK
  BY DEF IdentityInv, IdentityTypes
<1>2. QED
  BY IdentityInitInv, IdentityNextInv, <1>1, PTL DEF IdentitySpec

\* Through forks, clears, hooks, failed launches, launches without a prompt and changes of
\* mode: once the flags were used up, each Claude that is spawned goes by the id of the
\* conversation the user is in, and after a clear by none that has anything to resume
\* (claudeLocal.ts, claudeRemote.ts, session.ts).
THEOREM LaunchesGoOn == IdentitySpec => ContinuesTheConversation
<1>1. IdentityInv /\ [IdentityNext]_identityVars =>
        [spawned' # spawned /\ conversation # "unset" /\ claudeArgs = "none" =>
            IF conversation = NoId THEN runningId' \notin valid
            ELSE runningId' = conversation]_identityVars
  <2> SUFFICES ASSUME IdentityInv, [IdentityNext]_identityVars, spawned' # spawned,
                      conversation # "unset", claudeArgs = "none"
               PROVE  IF conversation = NoId THEN runningId' \notin valid ELSE runningId' = conversation
    OBVIOUS
  <2>1. LaunchLocal \/ SpawnRemote
    BY DEF IdentityNext, identityVars, BeginRemote, NothingToSay, Returns, Throws, Exits, ClearSession,
           OnSessionHook, OnSystemInit, Talks, Forks, claudeVars
  <2>2. PICK r \in {LocalStart, RemoteStart} : runningId' \in GoesBy([resume |-> r, args |-> "none"])
    BY <2>1, Zenon DEF LaunchLocal, SpawnRemote, Spawn, IdentityInv, StartIsSettled
  <2>3. IF conversation = NoId THEN r \notin valid ELSE r = conversation /\ r # NoId
    BY <2>2, LaunchesContinue
  <2>4. runningId' = r \/ (r = NoId /\ runningId' \in FreshId)
    BY <2>2 DEF GoesBy, Names, Continues, Picks
  <2>5. QED
    BY <2>3, <2>4 DEF FreshId
<1>2. QED
  BY IdentityInitInv, IdentityNextInv, <1>1, PTL DEF IdentitySpec, ContinuesTheConversation
====
