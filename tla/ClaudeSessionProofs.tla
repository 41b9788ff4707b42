---- MODULE ClaudeSessionProofs ----
(***************************************************************************)
(* Proofs about what runs a Claude session: the loop that gives it the     *)
(* user's prompts (ClaudeLoop), the handler that asks the user for         *)
(* permissions (PermissionHandler) and the scanner that reads its logs     *)
(* (SessionScanner).                                                       *)
(***************************************************************************)
EXTENDS PermissionHandler, ClaudeLoop, SessionScanner, FiniteSetTheorems, TLAPS

---------------------------------------------------------------------------
(* ClaudeLoop. A batch is given after those that came before it because    *)
(* what was put aside comes before what is queued, and is put aside only   *)
(* while the next launch is due.                                           *)

\* LoopTypeOK in three parts.
LoopKinds ==
    /\ pc \in Local \union Remote \union {"left"}
    /\ exitReason \in Reason
    /\ aborted \in BOOLEAN
    /\ calls \subseteq {"abort", "switch"}

LoopNumbers ==
    /\ pushed \in 0..MaxPrompts
    /\ restarts \subseteq 1..MaxPrompts
    /\ dropped \subseteq 1..MaxPrompts
    /\ called \in 0..MaxCalls

Given == [items : Seq(Prompt), mode : Mode, runsAs : Mode]

LoopBatches ==
    /\ queue \in Seq(Prompt) /\ pending \in Seq(Prompt)
    /\ given \in Seq(Given)
    /\ modeHash \in Nat
    /\ runsAs \in Mode \union {0}

LoopTypes == LoopKinds /\ LoopNumbers /\ LoopBatches

\* The prompt x may be given before y.
Fits(x, y) == x # y /\ (x < y \/ x \in restarts \/ y \in restarts)

\* The prompts were accepted.
Accepted(S) == S \subseteq 1..pushed

\* What was given, what is put aside, and what waits come in this order; so does what waits.
ComeInOrder ==
    /\ \A i, j \in DOMAIN queue : i < j => Fits(queue[i].id, queue[j].id)
    /\ \A x \in Ids(pending), y \in Ids(queue) : Fits(x, y)
    /\ \A k \in DOMAIN given :
          \A x \in Ids(given[k].items), y \in Ids(pending) \union Ids(queue) : Fits(x, y)
    /\ Accepted(Ids(queue)) /\ Accepted(Ids(pending))
    /\ \A k \in DOMAIN given : Accepted(Ids(given[k].items))

\* What was put aside is the first thing the next launch is given.
PutAside == pc \in {"turn", "nextMessage"} => pending = << >>

LoopInv == LoopTypes /\ PutAside /\ ComeInOrder /\ GivenInOrder /\ LocalYields

---------------------------------------------------------------------------
(* The prompts of a queue.                                                 *)

\* No prompt has an id.
LEMMA IdsOfNone == Ids(<< >>) = {}
BY DEF Ids

\* One prompt has its own.
LEMMA IdsOfOne == ASSUME NEW p PROVE Ids(<<p>>) = {p.id}
BY DEF Ids

\* A prompt that is put last adds its id.
LEMMA IdsOfAppend ==
    ASSUME NEW q \in Seq(Prompt), NEW p \in Prompt
    PROVE  /\ Append(q, p) \in Seq(Prompt)
           /\ Ids(Append(q, p)) = Ids(q) \union {p.id}
<1>1. /\ Append(q, p) \in Seq(Prompt) /\ DOMAIN Append(q, p) = (DOMAIN q) \union {Len(q) + 1}
      /\ Append(q, p)[Len(q) + 1] = p
      /\ \A i \in DOMAIN q : Append(q, p)[i] = q[i]
  OBVIOUS
<1>2. QED
  BY <1>1 DEF Ids

\* So does one that is put first.
LEMMA IdsOfPrepend ==
    ASSUME NEW q \in Seq(Prompt), NEW p \in Prompt
    PROVE  /\ <<p>> \o q \in Seq(Prompt)
           /\ Ids(<<p>> \o q) = {p.id} \union Ids(q)
<1>1. /\ <<p>> \o q \in Seq(Prompt) /\ Len(<<p>> \o q) = Len(q) + 1
      /\ (<<p>> \o q)[1] = p
      /\ \A i \in 1..Len(q) : (<<p>> \o q)[i + 1] = q[i]
  OBVIOUS
<1>2. \A j \in 1..(Len(q) + 1) : j = 1 \/ \E i \in 1..Len(q) : j = i + 1
  <2>1. ASSUME NEW j \in 1..(Len(q) + 1), j # 1 PROVE j - 1 \in 1..Len(q) /\ j = (j - 1) + 1
    BY <2>1
  <2>2. QED
    BY <2>1
<1>3. \A i \in 1..Len(q) : i + 1 \in 1..(Len(q) + 1)
  OBVIOUS
<1>4. DOMAIN (<<p>> \o q) = 1..(Len(q) + 1) /\ DOMAIN q = 1..Len(q) /\ 1 \in 1..(Len(q) + 1)
  BY <1>1
<1> DEFINE r == <<p>> \o q
           D == 1..(Len(q) + 1)
<1> HIDE DEF r, D
<1>5. DOMAIN r = D /\ 1 \in D /\ r[1] = p
  BY <1>1, <1>4 DEF r, D
<1>6. \A i \in DOMAIN q : i + 1 \in D /\ r[i + 1] = q[i]
  BY <1>1, <1>3, <1>4 DEF r, D
<1>7. \A j \in D : j = 1 \/ \E i \in DOMAIN q : j = i + 1
  BY <1>2, <1>4 DEF D
<1>8. Ids(r) = {p.id} \union Ids(q)
  BY <1>5, <1>6, <1>7 DEF Ids
<1>9. QED
  BY <1>1, <1>8 DEF r

\* The first n and the others.
LEMMA IdsOfParts ==
    ASSUME NEW q \in Seq(Prompt), NEW n \in 1..Len(q)
    PROVE  /\ SubSeq(q, 1, n) \in Seq(Prompt) /\ SubSeq(q, 1, n) # << >>
           /\ SubSeq(q, n + 1, Len(q)) \in Seq(Prompt)
           /\ \A x \in Ids(SubSeq(q, 1, n)) : \E i \in 1..n : x = q[i].id
           /\ \A y \in Ids(SubSeq(q, n + 1, Len(q))) : \E j \in DOMAIN q : j > n /\ y = q[j].id
           /\ \A i \in DOMAIN SubSeq(q, n + 1, Len(q)) :
                 i + n \in DOMAIN q /\ SubSeq(q, n + 1, Len(q))[i] = q[i + n]
<1>1. /\ SubSeq(q, 1, n) \in Seq(Prompt) /\ Len(SubSeq(q, 1, n)) = n
      /\ \A i \in 1..n : SubSeq(q, 1, n)[i] = q[i]
  OBVIOUS
<1>2. /\ SubSeq(q, n + 1, Len(q)) \in Seq(Prompt) /\ Len(SubSeq(q, n + 1, Len(q))) = Len(q) - n
      /\ \A i \in 1..(Len(q) - n) : SubSeq(q, n + 1, Len(q))[i] = q[i + n]
  OBVIOUS
<1>3. \A i \in 1..(Len(q) - n) : i + n \in 1..Len(q) /\ i + n > n
  OBVIOUS
<1>4. SubSeq(q, 1, n) # << >>
  BY <1>1
<1>5. \A x \in Ids(SubSeq(q, 1, n)) : \E i \in 1..n : x = q[i].id
  BY <1>1 DEF Ids
<1>6. \A y \in Ids(SubSeq(q, n + 1, Len(q))) : \E j \in DOMAIN q : j > n /\ y = q[j].id
  BY <1>2, <1>3 DEF Ids
<1>7. \A i \in DOMAIN SubSeq(q, n + 1, Len(q)) :
        i + n \in DOMAIN q /\ SubSeq(q, n + 1, Len(q))[i] = q[i + n]
  BY <1>2, <1>3
<1>8. QED
  BY <1>1, <1>2, <1>4, <1>5, <1>6, <1>7

---------------------------------------------------------------------------

\* At the start nothing has come, and nothing was given.
LEMMA LoopInitInv == LoopInit => LoopInv
<1> SUFFICES ASSUME LoopInit PROVE LoopInv
  OBVIOUS
<1>1. LoopKinds
  BY ClaudeLoopAssumption DEF LoopInit, LoopKinds, Local, Remote, Reason
<1>2. LoopNumbers
  BY ClaudeLoopAssumption DEF LoopInit, LoopNumbers
<1>3. LoopBatches
  BY DEF LoopInit, LoopBatches
<1>4. ComeInOrder
  BY IdsOfNone DEF LoopInit, ComeInOrder, Accepted
<1>5. GivenInOrder /\ LocalYields /\ PutAside
  BY DEF LoopInit, GivenInOrder, LocalYields, PutAside
<1>6. QED
  BY <1>1, <1>2, <1>3, <1>4, <1>5 DEF LoopInv, LoopTypes

\* A new prompt fits behind every other; and the restart of a plan, anywhere.
LEMMA NewFits ==
    ASSUME LoopNumbers, pushed < MaxPrompts, pushed' = pushed + 1
    PROVE  /\ pushed' \in 0..MaxPrompts /\ pushed + 1 \in 1..MaxPrompts
           /\ \A m \in Mode : \A b \in BOOLEAN : Inbox!Prompt(pushed + 1, m, b) \in Prompt
           /\ \A m, b : Inbox!Prompt(pushed + 1, m, b).id = pushed + 1
           /\ \A x \in 1..pushed : x < pushed + 1 /\ x # pushed + 1 /\ x \in 1..pushed'
<1>1. pushed' \in 0..MaxPrompts /\ pushed + 1 \in 1..MaxPrompts
  BY ClaudeLoopAssumption DEF LoopNumbers
<1>2. \A x \in 1..pushed : x < pushed + 1 /\ x # pushed + 1 /\ x \in 1..pushed'
  BY ClaudeLoopAssumption DEF LoopNumbers
<1>3. \A m \in Mode : \A b \in BOOLEAN : Inbox!Prompt(pushed + 1, m, b) \in Prompt
  BY <1>1 DEF Inbox!Prompt, Prompt
<1>4. QED
  BY <1>1, <1>2, <1>3 DEF Inbox!Prompt

\* What was given stays in order when nothing is given, although more restarts come.
LEMMA SameGiven ==
    ASSUME GivenInOrder, given' = given, restarts \subseteq restarts'
    PROVE  GivenInOrder'
<1>1. \A k \in DOMAIN given : Ids(given[k].items)' = Ids(given[k].items)
  BY DEF Ids
<1>2. \A j, k \in DOMAIN given : j < k => \A x \in Ids(given[j].items), y \in Ids(given[k].items) : Fits(x, y)
  BY DEF GivenInOrder, Fits
<1>3. QED
  BY <1>1, <1>2 DEF GivenInOrder, Fits

\* Accepting a prompt keeps the order: it comes last, or alone.
LEMMA AcceptKeepsOrder ==
    ASSUME LoopInv, NEW m \in Mode, NEW b \in BOOLEAN, pushed < MaxPrompts, pushed' = pushed + 1,
           queue' \in {Append(queue, Inbox!Prompt(pushed + 1, m, b)),
                       <<Inbox!Prompt(pushed + 1, m, b)>>},
           UNCHANGED <<pending, given, restarts>>
    PROVE  queue' \in Seq(Prompt) /\ ComeInOrder' /\ GivenInOrder'
<1> DEFINE p == Inbox!Prompt(pushed + 1, m, b)
<1>1. p \in Prompt /\ p.id = pushed + 1 /\ queue \in Seq(Prompt)
  BY NewFits DEF LoopInv, LoopTypes, LoopBatches
<1>2. \A x \in 1..pushed : Fits(x, p.id) /\ x \in 1..pushed'
  BY <1>1, NewFits DEF LoopInv, LoopTypes, Fits
<1>3. p.id \in 1..pushed'
  BY <1>1, ClaudeLoopAssumption DEF LoopInv, LoopTypes, LoopNumbers
<1> HIDE DEF p
<1>4. queue' \in Seq(Prompt) /\ p.id \in Ids(queue') /\ Ids(queue') \subseteq Ids(queue) \union {p.id}
  <2>1. CASE queue' = <<p>>
    <3>1. <<p>> \in Seq(Prompt) /\ Ids(<<p>>) = {p.id}
      BY <1>1, IdsOfOne
    <3>2. QED
      BY <2>1, <3>1
  <2>2. CASE queue' = Append(queue, p)
    BY <1>1, <2>2, IdsOfAppend
  <2>3. QED
    BY <2>1, <2>2 DEF p
<1>5. \A i, j \in DOMAIN queue' : i < j => Fits(queue'[i].id, queue'[j].id)
  <2>1. CASE queue' = <<p>>
    BY <2>1
  <2>2. CASE queue' = Append(queue, p)
    <3>1. /\ DOMAIN queue' = (DOMAIN queue) \union {Len(queue) + 1}
          /\ queue'[Len(queue) + 1] = p
          /\ \A i \in DOMAIN queue : queue'[i] = queue[i] /\ i < Len(queue) + 1
      BY <1>1, <2>2
    <3>2. \A i \in DOMAIN queue : queue[i].id \in 1..pushed
      BY DEF LoopInv, ComeInOrder, Ids, Accepted
    <3>3. \A i, j \in DOMAIN queue : i < j => Fits(queue[i].id, queue[j].id)
      BY DEF LoopInv, ComeInOrder
    <3>4. \A i \in DOMAIN queue' : i \in Nat
      BY <1>4
    <3>5. QED
      BY <1>1, <1>2, <3>1, <3>2, <3>3, <3>4
  <2>3. QED
    BY <2>1, <2>2 DEF p
<1>6. \A x, y : Fits(x, y) => Fits(x, y)'
  BY DEF Fits
<1>7. ComeInOrder'
  <2>1. \A x \in Ids(pending), y \in Ids(queue') : Fits(x, y)
    BY <1>2, <1>4 DEF LoopInv, ComeInOrder, Accepted
  <2>2. \A k \in DOMAIN given :
          \A x \in Ids(given[k].items), y \in Ids(pending) \union Ids(queue') : Fits(x, y)
    BY <1>2, <1>4 DEF LoopInv, ComeInOrder, Accepted
  <2>3. Accepted(Ids(queue))' /\ Accepted(Ids(pending))'
    BY <1>2, <1>3, <1>4 DEF LoopInv, ComeInOrder, Accepted, Ids
  <2>4. \A k \in DOMAIN given : Accepted(Ids(given[k].items))'
    BY <1>2 DEF LoopInv, ComeInOrder, Accepted, Ids
  <2>5. Ids(pending)' = Ids(pending) /\ \A k \in DOMAIN given : Ids(given[k].items)' = Ids(given[k].items)
    BY DEF Ids
  <2>6. (\A i, j \in DOMAIN queue : i < j => Fits(queue[i].id, queue[j].id))'
    BY <1>5 DEF Fits
  <2>7. (\A x \in Ids(pending), y \in Ids(queue) : Fits(x, y))'
    BY <2>1, <2>5 DEF Fits
  <2>8. (\A k \in DOMAIN given :
           \A x \in Ids(given[k].items), y \in Ids(pending) \union Ids(queue) : Fits(x, y))'
    BY <2>2, <2>5 DEF Fits
  <2>9. QED
    BY <2>3, <2>4, <2>6, <2>7, <2>8 DEF ComeInOrder
<1>8. GivenInOrder
  BY DEF LoopInv
<1>9. GivenInOrder'
  BY <1>8, SameGiven
<1>10. QED
  BY <1>4, <1>7, <1>9

\* The restart of a plan comes first, and may.
LEMMA RestartKeepsOrder ==
    ASSUME LoopInv, pushed < MaxPrompts, pushed' = pushed + 1,
           restarts' = restarts \union {pushed + 1},
           queue' = <<Inbox!Prompt(pushed + 1, RestartMode, FALSE)>> \o queue,
           UNCHANGED <<pending, given>>
    PROVE  queue' \in Seq(Prompt) /\ ComeInOrder' /\ GivenInOrder'
<1> DEFINE p == Inbox!Prompt(pushed + 1, RestartMode, FALSE)
<1>1. p \in Prompt /\ p.id = pushed + 1 /\ queue \in Seq(Prompt)
  BY NewFits, ClaudeLoopAssumption DEF LoopInv, LoopTypes, LoopBatches
<1>2. \A x \in 1..pushed : x # p.id /\ x \in 1..pushed'
  BY <1>1, NewFits DEF LoopInv, LoopTypes
<1>3. p.id \in 1..pushed' /\ p.id \in restarts'
  <2>1. pushed \in Nat
    BY ClaudeLoopAssumption DEF LoopInv, LoopTypes, LoopNumbers
  <2>2. pushed + 1 \in restarts'
    OBVIOUS
  <2>3. pushed + 1 \in 1..pushed'
    BY <2>1
  <2>4. QED
    BY <1>1, <2>2, <2>3
<1> DEFINE Fits2(x, y) == x # y /\ (x < y \/ x \in restarts' \/ y \in restarts')
<1> HIDE DEF p
<1>4. queue' \in Seq(Prompt) /\ Ids(queue') = Ids(queue) \union {p.id}
  BY <1>1, IdsOfPrepend DEF p
<1>5. \A x \in 1..pushed : Fits2(x, p.id) /\ Fits2(p.id, x)
  BY <1>2, <1>3
<1>6. \A x, y : Fits(x, y) => Fits2(x, y)
  BY DEF Fits
<1> HIDE DEF Fits2
<1>7. \A i, j \in DOMAIN queue' : i < j => Fits2(queue'[i].id, queue'[j].id)
  <2>1. /\ Len(queue') = Len(queue) + 1 /\ DOMAIN queue' = 1..Len(queue') /\ queue'[1] = p
        /\ \A i \in 2..Len(queue') : i - 1 \in DOMAIN queue /\ queue'[i] = queue[i - 1]
    BY <1>1 DEF p
  <2>2. \A i \in DOMAIN queue : queue[i].id \in 1..pushed
    BY DEF LoopInv, ComeInOrder, Ids, Accepted
  <2>3. \A i, j \in DOMAIN queue : i < j => Fits2(queue[i].id, queue[j].id)
    BY <1>6 DEF LoopInv, ComeInOrder
  <2>4. Len(queue) \in Nat
    BY <1>1
  <2>5. ASSUME NEW i \in DOMAIN queue', NEW j \in DOMAIN queue', i < j
        PROVE  Fits2(queue'[i].id, queue'[j].id)
    <3>1. j \in 2..Len(queue') /\ (i = 1 \/ i \in 2..Len(queue'))
      BY <2>1, <2>4, <2>5
    <3>2. i # 1 => i - 1 < j - 1
      BY <2>1, <2>4, <2>5, <3>1
    <3>3. CASE i = 1
      BY <3>1, <3>3, <2>1, <2>2, <1>5
    <3>4. CASE i # 1
      BY <3>1, <3>2, <3>4, <2>1, <2>3
    <3>5. QED
      BY <3>3, <3>4
  <2>6. QED
    BY <2>5
<1>8. ComeInOrder'
  <2>1. \A x \in Ids(pending), y \in Ids(queue') : Fits2(x, y)
    BY <1>4, <1>5, <1>6 DEF LoopInv, ComeInOrder, Accepted
  <2>2. \A k \in DOMAIN given :
          \A x \in Ids(given[k].items), y \in Ids(pending) \union Ids(queue') : Fits2(x, y)
    BY <1>4, <1>5, <1>6 DEF LoopInv, ComeInOrder, Accepted
  <2>3. Ids(queue') \subseteq 1..pushed' /\ Ids(pending') \subseteq 1..pushed'
    BY <1>2, <1>3, <1>4 DEF LoopInv, ComeInOrder, Accepted
  <2>4. \A k \in DOMAIN given' : Ids(given'[k].items) \subseteq 1..pushed'
    BY <1>2 DEF LoopInv, ComeInOrder, Accepted
  <2>5. /\ \A x \in Ids(pending'), y \in Ids(queue') : Fits2(x, y)
        /\ \A k \in DOMAIN given' :
              \A x \in Ids(given'[k].items), y \in Ids(pending') \union Ids(queue') : Fits2(x, y)
    BY <2>1, <2>2
  <2>6. QED
    BY <1>7, <2>3, <2>4, <2>5 DEF ComeInOrder, Fits, Fits2, Ids, Accepted
<1>9. GivenInOrder
  BY DEF LoopInv
<1>10. QED
  BY <1>4, <1>8, <1>9, SameGiven

\* Prompts that are dropped leave the others in order.
LEMMA DropsKeepOrder ==
    ASSUME LoopInv, queue' \in {queue, << >>}, pending' \in {pending, << >>},
           UNCHANGED <<given, restarts, pushed>>
    PROVE  queue' \in Seq(Prompt) /\ pending' \in Seq(Prompt) /\ ComeInOrder' /\ GivenInOrder'
<1>1. \A x, y : Fits(x, y)' <=> Fits(x, y)
  BY DEF Fits
<1>2. /\ Ids(queue') \subseteq Ids(queue) /\ Ids(pending') \subseteq Ids(pending)
      /\ \A k \in DOMAIN given : Ids(given[k].items)' = Ids(given[k].items)
  BY IdsOfNone DEF Ids
<1>3. \A i, j \in DOMAIN queue' : i < j => Fits(queue'[i].id, queue'[j].id)
  BY DEF LoopInv, ComeInOrder
<1>4. ComeInOrder'
  <2>1. \A x \in Ids(pending'), y \in Ids(queue') : Fits(x, y)
    BY <1>2 DEF LoopInv, ComeInOrder
  <2>2. \A k \in DOMAIN given :
          \A x \in Ids(given[k].items), y \in Ids(pending') \union Ids(queue') : Fits(x, y)
    BY <1>2 DEF LoopInv, ComeInOrder
  <2>3. Accepted(Ids(queue))' /\ Accepted(Ids(pending))'
    BY <1>2 DEF LoopInv, ComeInOrder, Accepted, Ids
  <2>4. \A k \in DOMAIN given : Accepted(Ids(given[k].items))'
    BY DEF LoopInv, ComeInOrder, Accepted, Ids
  <2>5. QED
    BY <1>1, <1>2, <1>3, <2>1, <2>2, <2>3, <2>4 DEF ComeInOrder, Fits, Ids
<1>5. GivenInOrder
  BY DEF LoopInv
<1>6. GivenInOrder'
  BY <1>5, SameGiven
<1>7. queue' \in Seq(Prompt) /\ pending' \in Seq(Prompt)
  <2>1. queue \in Seq(Prompt) /\ pending \in Seq(Prompt) /\ << >> \in Seq(Prompt)
    BY DEF LoopInv, LoopTypes, LoopBatches
  <2>2. QED
    BY <2>1
<1>8. QED
  BY <1>4, <1>6, <1>7

\* A batch is given: it comes after what was given, and before what is left.
LEMMA GivingKeepsOrder ==
    ASSUME LoopInv, NEW b \in Given, queue' \in Seq(Prompt), pending' \in Seq(Prompt),
           given' = Append(given, b), UNCHANGED <<restarts, pushed>>,
           \A i, j \in DOMAIN queue' : i < j => Fits(queue'[i].id, queue'[j].id),
           \A x \in Ids(b.items), y \in Ids(pending') \union Ids(queue') : Fits(x, y),
           \A x \in Ids(pending'), y \in Ids(queue') : Fits(x, y),
           Ids(b.items) \union Ids(queue') \union Ids(pending') \subseteq Ids(queue) \union Ids(pending)
    PROVE  given' \in Seq(Given) /\ ComeInOrder' /\ GivenInOrder'
<1>1. \A x, y : Fits(x, y)' <=> Fits(x, y)
  BY DEF Fits
<1>2. given \in Seq(Given)
  BY DEF LoopInv, LoopTypes, LoopBatches
<1>3. /\ given' \in Seq(Given) /\ DOMAIN given' = (DOMAIN given) \union {Len(given) + 1}
      /\ given'[Len(given) + 1] = b
      /\ \A k \in DOMAIN given : given'[k] = given[k]
      /\ \A k \in DOMAIN given : k \in Nat /\ k < Len(given) + 1
  BY <1>2
<1>4. ComeInOrder'
  <2>1. \A k \in DOMAIN given' :
          \A x \in Ids(given'[k].items), y \in Ids(pending') \union Ids(queue') : Fits(x, y)
    BY <1>3 DEF LoopInv, ComeInOrder
  <2>2. \A k \in DOMAIN given' : Ids(given'[k].items) \subseteq 1..pushed'
    BY <1>3 DEF LoopInv, ComeInOrder, Accepted
  <2>3. Ids(queue') \subseteq 1..pushed' /\ Ids(pending') \subseteq 1..pushed'
    BY DEF LoopInv, ComeInOrder, Accepted
  <2> DEFINE Fits2(x, y) == x # y /\ (x < y \/ x \in restarts' \/ y \in restarts')
  <2>4. \A x, y : Fits(x, y) <=> Fits2(x, y)
    BY DEF Fits
  <2> HIDE DEF Fits2
  <2>5. /\ \A i, j \in DOMAIN queue' : i < j => Fits2(queue'[i].id, queue'[j].id)
        /\ \A x \in Ids(pending'), y \in Ids(queue') : Fits2(x, y)
        /\ \A k \in DOMAIN given' :
              \A x \in Ids(given'[k].items), y \in Ids(pending') \union Ids(queue') : Fits2(x, y)
    BY <2>1, <2>4
  <2>6. QED
    BY <2>2, <2>3, <2>5 DEF ComeInOrder, Fits, Fits2, Ids, Accepted
<1>5. GivenInOrder'
  <2>0. GivenInOrder
    BY DEF LoopInv
  <2>1. \A j, k \in DOMAIN given : j < k =>
          \A x \in Ids(given[j].items), y \in Ids(given[k].items) : Fits(x, y)
    BY <2>0 DEF GivenInOrder, Fits
  <2>2. \A k \in DOMAIN given : \A x \in Ids(given[k].items), y \in Ids(b.items) : Fits(x, y)
    BY DEF LoopInv, ComeInOrder
  <2>3. Len(given) \in Nat
    BY <1>2
  <2>4. \A j, k \in DOMAIN given' : j < k =>
          \A x \in Ids(given'[j].items), y \in Ids(given'[k].items) : Fits(x, y)
    BY <1>3, <2>1, <2>2, <2>3
  <2>5. QED
    BY <2>4 DEF GivenInOrder, Fits
<1>6. QED
  BY <1>3, <1>4, <1>5

---------------------------------------------------------------------------
(* The steps.                                                              *)

\* No step gives a control variable a value of another kind.
LEMMA LoopKindsKept ==
    ASSUME LoopTypes, [LoopNext]_loopVars
    PROVE  LoopKinds'
<1> USE DEF LoopTypes, LoopKinds, Local, Remote, Reason
<1>1. CASE Prompts
  BY <1>1 DEF Prompts, Push, PushCommand, Accept, YieldToPrompt
<1>2. CASE ClaudeLocal
  BY <1>2 DEF ClaudeLocal, ClaudeLocalReturns, ClaudeLocalFails, ClaudeLocalThrows, LocalEnds
<1>3. CASE Turn
  BY <1>3 DEF Turn, TurnEnds, LaunchEnds, PlanApproved
<1>4. CASE ScannerReady \/ LeaveLocal
  BY <1>4 DEF ScannerReady, LocalEnds, StartClaude, LeaveLocal, LeaveLocalTo
<1>5. CASE NextMessage
  BY <1>5 DEF NextMessage, TakePending, TakePendingLeaving, TakeBatch, WaitAborted, Give
<1>6. CASE Flushed
  BY <1>6 DEF Flushed, FlushedLeaving
<1>7. CASE Abort \/ Switch \/ ExitKey \/ Kill
  BY <1>7 DEF Abort, Switch, ExitKey, Kill, SetReason
<1>8. CASE UNCHANGED loopVars
  BY <1>8 DEF loopVars
<1>9. QED
  BY <1>1, <1>2, <1>3, <1>4, <1>5, <1>6, <1>7, <1>8 DEF LoopNext, Loop

\* The prompts, the restarts and the runs stay counted.
LEMMA LoopNumbersKept ==
    ASSUME LoopInv, [LoopNext]_loopVars
    PROVE  LoopNumbers'
<1>1. LoopNumbers /\ Ids(queue) \subseteq 1..MaxPrompts /\ Ids(pending) \subseteq 1..MaxPrompts
  BY ClaudeLoopAssumption DEF LoopInv, LoopTypes, LoopNumbers, ComeInOrder, Accepted
<1> USE <1>1, ClaudeLoopAssumption DEF LoopNumbers, queueVars
<1>2. CASE Prompts
  <2>1. pushed < MaxPrompts /\ pushed' = pushed + 1 /\ UNCHANGED <<restarts, called>>
    BY <1>2 DEF Prompts, Push, PushCommand, Accept
  <2>2. dropped' \in {dropped, dropped \union Ids(queue)}
    BY <1>2 DEF Prompts, Push, PushCommand
  <2>3. pushed' \in 0..MaxPrompts
    BY <2>1
  <2>4. QED
    BY <2>1, <2>2, <2>3
<1>3. CASE ClaudeLocal
  BY <1>3 DEF ClaudeLocal, ClaudeLocalReturns, ClaudeLocalFails, ClaudeLocalThrows, LocalEnds
<1>4. CASE Turn
  <2>1. CASE PlanApproved
    <3>1. pushed' \in 0..MaxPrompts /\ pushed + 1 \in 1..MaxPrompts
      BY <2>1 DEF PlanApproved
    <3>2. restarts' \subseteq 1..MaxPrompts
      BY <2>1, <3>1 DEF PlanApproved
    <3>3. QED
      BY <2>1, <3>1, <3>2 DEF PlanApproved
  <2>2. QED
    BY <1>4, <2>1 DEF Turn, TurnEnds, LaunchEnds
<1>5. CASE ScannerReady \/ LeaveLocal
  BY <1>5 DEF ScannerReady, LocalEnds, StartClaude, LeaveLocal, LeaveLocalTo
<1>6. CASE NextMessage
  BY <1>6 DEF NextMessage, TakePending, TakePendingLeaving, TakeBatch, WaitAborted, Give
<1>7. CASE Flushed
  BY <1>7 DEF Flushed, FlushedLeaving
<1>8. CASE Abort \/ Switch \/ ExitKey \/ Kill
  <2>1. called' \in 0..MaxCalls /\ UNCHANGED <<pushed, restarts>>
    BY <1>8 DEF Abort, Switch, ExitKey, Kill, Heard
  <2>2. dropped' \in {dropped, dropped \union Ids(queue)}
    BY <1>8 DEF Abort, Switch, ExitKey, Kill
  <2>3. QED
    BY <2>1, <2>2
<1>9. CASE UNCHANGED loopVars
  BY <1>9 DEF loopVars
<1>10. QED
  BY <1>2, <1>3, <1>4, <1>5, <1>6, <1>7, <1>8, <1>9 DEF LoopNext, Loop

\* Every way to a prompt that waits while Claude has the terminal tells Claude to stop.
LEMMA LocalYieldsKept ==
    ASSUME LoopKinds, LocalYields, [LoopNext]_loopVars
    PROVE  LocalYields'
<1> USE DEF LoopKinds, LocalYields, Local, Remote, Reason, queueVars
<1>1. CASE Prompts
  BY <1>1 DEF Prompts, Push, PushCommand, Accept, YieldToPrompt
<1>2. CASE ClaudeLocal
  BY <1>2 DEF ClaudeLocal, ClaudeLocalReturns, ClaudeLocalFails, ClaudeLocalThrows, LocalEnds
<1>3. CASE Turn
  BY <1>3 DEF Turn, TurnEnds, LaunchEnds, PlanApproved
<1>4. CASE ScannerReady \/ LeaveLocal
  BY <1>4 DEF ScannerReady, LocalEnds, StartClaude, LeaveLocal, LeaveLocalTo
<1>5. CASE NextMessage
  BY <1>5 DEF NextMessage, TakePending, TakePendingLeaving, TakeBatch, WaitAborted, Give
<1>6. CASE Flushed
  BY <1>6 DEF Flushed, FlushedLeaving
<1>7. CASE Abort \/ Switch \/ ExitKey \/ Kill
  BY <1>7 DEF Abort, Switch, ExitKey, Kill, SetReason
<1>8. CASE UNCHANGED loopVars
  BY <1>8 DEF loopVars
<1>9. QED
  BY <1>1, <1>2, <1>3, <1>4, <1>5, <1>6, <1>7, <1>8 DEF LoopNext, Loop

\* A batch is put aside only on the way to the launch that takes it.
LEMMA PutAsideKept ==
    ASSUME LoopKinds, PutAside, [LoopNext]_loopVars
    PROVE  PutAside'
<1> USE DEF LoopKinds, PutAside, Local, Remote, Reason, remoteVars
<1>1. CASE Prompts
  BY <1>1 DEF Prompts, Push, PushCommand, Accept, YieldToPrompt
<1>2. CASE ClaudeLocal
  BY <1>2 DEF ClaudeLocal, ClaudeLocalReturns, ClaudeLocalFails, ClaudeLocalThrows, LocalEnds
<1>3. CASE Turn
  BY <1>3 DEF Turn, TurnEnds, LaunchEnds, PlanApproved
<1>4. CASE ScannerReady \/ LeaveLocal
  BY <1>4 DEF ScannerReady, LocalEnds, StartClaude, LeaveLocal, LeaveLocalTo
<1>5. CASE NextMessage
  BY <1>5 DEF NextMessage, TakePending, TakePendingLeaving, TakeBatch, WaitAborted, Give
<1>6. CASE Flushed
  BY <1>6 DEF Flushed, FlushedLeaving
<1>7. CASE Abort \/ Switch \/ ExitKey \/ Kill
  BY <1>7 DEF Abort, Switch, ExitKey, Kill, SetReason
<1>8. CASE UNCHANGED loopVars
  BY <1>8 DEF loopVars
<1>9. QED
  BY <1>1, <1>2, <1>3, <1>4, <1>5, <1>6, <1>7, <1>8 DEF LoopNext, Loop

\* What Claude is given of a batch, and the mode it then runs in.
LEMMA GiveTyping ==
    ASSUME LoopBatches, NEW b \in Seq(Prompt), b # << >>, Give(b)
    PROVE  /\ \E g \in Given : g.items = b /\ given' = Append(given, g)
           /\ runsAs' \in Mode \union {0}
<1>1. b[1].mode \in Mode
  <2>1. b[1] \in Prompt
    OBVIOUS
  <2>2. QED
    BY <2>1 DEF Prompt
<1>2. runsAs = 0 \/ runsAs \in Mode
  BY DEF LoopBatches
<1> DEFINE started == IF runsAs = 0 THEN b[1].mode ELSE runsAs
           g == [items |-> b, mode |-> b[1].mode, runsAs |-> started]
<1>3. started \in Mode
  BY <1>1, <1>2
<1>4. g \in Given /\ g.items = b
  BY <1>1, <1>3 DEF Given
<1>5. given' = Append(given, g) /\ runsAs' = started
  BY DEF Give
<1>6. QED
  BY <1>3, <1>4, <1>5

\* The batch that was put aside is given first.
LEMMA TakePendingKeepsOrder ==
    ASSUME LoopInv, TakePending
    PROVE  LoopBatches' /\ ComeInOrder' /\ GivenInOrder'
<1> DEFINE one == [items |-> pending, mode |-> pending[1].mode, runsAs |-> pending[1].mode]
<1>1. /\ LoopBatches /\ pending # << >> /\ pending' = << >> /\ queue' = queue
      /\ UNCHANGED <<modeHash, pushed, restarts>>
      /\ Give(pending) \/ (given' = Append(given, one) /\ UNCHANGED runsAs)
  BY DEF LoopInv, LoopTypes, TakePending, TakePendingLeaving, queueVars
<1>2. pending \in Seq(Prompt) /\ pending[1].mode \in Mode
  <2>1. pending \in Seq(Prompt) /\ pending[1] \in Prompt
    BY <1>1 DEF LoopBatches
  <2>2. QED
    BY <2>1 DEF Prompt
<1>3. one \in Given /\ one.items = pending
  BY <1>2 DEF Given
<1>4. PICK g \in Given : g.items = pending /\ given' = Append(given, g) /\ runsAs' \in Mode \union {0}
  BY <1>1, <1>2, <1>3, GiveTyping DEF LoopBatches
<1>5. queue' \in Seq(Prompt) /\ pending' \in Seq(Prompt)
  BY <1>1 DEF LoopBatches
<1>6. /\ \A i, j \in DOMAIN queue' : i < j => Fits(queue'[i].id, queue'[j].id)
      /\ \A x \in Ids(g.items), y \in Ids(pending') \union Ids(queue') : Fits(x, y)
      /\ \A x \in Ids(pending'), y \in Ids(queue') : Fits(x, y)
      /\ Ids(g.items) \union Ids(queue') \union Ids(pending') \subseteq Ids(queue) \union Ids(pending)
  BY <1>1, <1>4, IdsOfNone DEF LoopInv, ComeInOrder
<1>7. given' \in Seq(Given) /\ ComeInOrder' /\ GivenInOrder'
  BY <1>1, <1>4, <1>5, <1>6, GivingKeepsOrder
<1>8. QED
  BY <1>1, <1>4, <1>5, <1>7 DEF LoopBatches

\* The first prompts of one mode are given, or put aside for the next launch.
LEMMA TakeBatchKeepsOrder ==
    ASSUME LoopInv, TakeBatch
    PROVE  LoopBatches' /\ ComeInOrder' /\ GivenInOrder'
<1> DEFINE Leaves(b) ==
             \/ pending' = b /\ UNCHANGED <<modeHash, runsAs, given>>
             \/ modeHash' = ModeHash[b[1].mode] /\ Give(b) /\ UNCHANGED pending
<1>1. PICK n \in 1..Len(queue) :
          queue' = SubSeq(queue, n + 1, Len(queue)) /\ Leaves(SubSeq(queue, 1, n))
  BY DEF TakeBatch
<1> HIDE DEF Leaves
<1> DEFINE b == SubSeq(queue, 1, n)
           q == SubSeq(queue, n + 1, Len(queue))
<1>2. queue \in Seq(Prompt) /\ pending \in Seq(Prompt)
  BY DEF LoopInv, LoopTypes, LoopBatches
<1>3. /\ b \in Seq(Prompt) /\ b # << >> /\ q \in Seq(Prompt)
      /\ \A x \in Ids(b) : \E i \in 1..n : x = queue[i].id
      /\ \A y \in Ids(q) : \E j \in DOMAIN queue : j > n /\ y = queue[j].id
      /\ \A i \in DOMAIN q : i + n \in DOMAIN queue /\ q[i] = queue[i + n]
  BY <1>2, IdsOfParts
<1>4. 1..n \subseteq DOMAIN queue /\ n \in Nat /\ DOMAIN queue \subseteq Nat
  BY <1>2
<1>5. pc = "firstMessage" \/ pc = "nextMessage" 
  BY DEF TakeBatch
<1>6. pending = << >>
  BY <1>5 DEF LoopInv, PutAside, TakeBatch
<1>7. queue' = q /\ UNCHANGED <<pushed, restarts>>
  BY <1>1 DEF TakeBatch
<1>8. Leaves(b)
  BY <1>1
<1> HIDE DEF b, q
<1>9. \A i, j \in DOMAIN queue : i < j => Fits(queue[i].id, queue[j].id)
  BY DEF LoopInv, ComeInOrder
<1>10. \A x \in Ids(b), y \in Ids(q) : Fits(x, y)
  BY <1>3, <1>4, <1>9
<1>11. \A i, j \in DOMAIN q : i < j => Fits(q[i].id, q[j].id)
  <2>1. \A i \in DOMAIN q : i \in Nat
    BY <1>3
  <2>2. ASSUME NEW i \in DOMAIN q, NEW j \in DOMAIN q, i < j PROVE Fits(q[i].id, q[j].id)
    <3>1. i + n < j + n
      BY <1>4, <2>1, <2>2
    <3>2. QED
      BY <1>3, <1>9, <3>1
  <2>3. QED
    BY <2>2
<1>12. Ids(b) \subseteq Ids(queue) /\ Ids(q) \subseteq Ids(queue)
  BY <1>3, <1>4 DEF Ids
<1>13. CASE pending' = b /\ UNCHANGED <<modeHash, runsAs, given>>
  <2> DEFINE Fits2(x, y) == x # y /\ (x < y \/ x \in restarts' \/ y \in restarts')
  <2>1. \A x, y : Fits(x, y) <=> Fits2(x, y)
    BY <1>7 DEF Fits
  <2> HIDE DEF Fits2
  <2>2. /\ \A i, j \in DOMAIN queue' : i < j => Fits2(queue'[i].id, queue'[j].id)
        /\ \A x \in Ids(pending'), y \in Ids(queue') : Fits2(x, y)
    BY <1>7, <1>10, <1>11, <1>13, <2>1
  <2>3. \A k \in DOMAIN given' :
          \A x \in Ids(given'[k].items), y \in Ids(pending') \union Ids(queue') : Fits2(x, y)
    BY <1>7, <1>12, <1>13, <2>1 DEF LoopInv, ComeInOrder
  <2>4. /\ Ids(queue') \subseteq 1..pushed' /\ Ids(pending') \subseteq 1..pushed'
        /\ \A k \in DOMAIN given' : Ids(given'[k].items) \subseteq 1..pushed'
    BY <1>7, <1>12, <1>13 DEF LoopInv, ComeInOrder, Accepted
  <2>5. ComeInOrder'
    BY <2>2, <2>3, <2>4 DEF ComeInOrder, Fits, Fits2, Ids, Accepted
  <2>6. GivenInOrder'
    BY <1>7, <1>13, SameGiven DEF LoopInv
  <2>7. LoopBatches'
    BY <1>3, <1>7, <1>13 DEF LoopInv, LoopTypes, LoopBatches
  <2>8. QED
    BY <2>5, <2>6, <2>7
<1>14. CASE modeHash' = ModeHash[b[1].mode] /\ Give(b) /\ UNCHANGED pending
  <2>1. PICK g \in Given : g.items = b /\ given' = Append(given, g) /\ runsAs' \in Mode \union {0}
    BY <1>3, <1>14, GiveTyping DEF LoopInv, LoopTypes
  <2>2. queue' \in Seq(Prompt) /\ pending' \in Seq(Prompt) /\ Ids(pending') = {}
    BY <1>2, <1>3, <1>6, <1>7, <1>14, IdsOfNone
  <2>3. /\ \A i, j \in DOMAIN queue' : i < j => Fits(queue'[i].id, queue'[j].id)
        /\ \A x \in Ids(g.items), y \in Ids(pending') \union Ids(queue') : Fits(x, y)
        /\ \A x \in Ids(pending'), y \in Ids(queue') : Fits(x, y)
        /\ Ids(g.items) \union Ids(queue') \union Ids(pending') \subseteq Ids(queue) \union Ids(pending)
    BY <1>7, <1>10, <1>11, <1>12, <2>1, <2>2
  <2>4. given' \in Seq(Given) /\ ComeInOrder' /\ GivenInOrder'
    BY <1>7, <2>1, <2>2, <2>3, GivingKeepsOrder
  <2>5. modeHash' \in Nat
    <3>1. b[1] \in Prompt
      BY <1>3
    <3>2. b[1].mode \in Mode
      BY <3>1 DEF Prompt
    <3>3. QED
      BY <1>14, <3>2, ClaudeLoopAssumption
  <2>6. QED
    BY <2>1, <2>2, <2>4, <2>5 DEF LoopBatches
<1>15. QED
  BY <1>8, <1>13, <1>14 DEF Leaves

\* Every step keeps the order of what was given, put aside and queued.
LEMMA LoopOrderKept ==
    ASSUME LoopInv, [LoopNext]_loopVars
    PROVE  LoopBatches' /\ ComeInOrder' /\ GivenInOrder'
<1>0. LoopBatches
  BY DEF LoopInv, LoopTypes
<1> USE DEF queueVars, remoteVars
<1>1. ASSUME NEW m \in Mode, Push(m) \/ PushCommand(m)
      PROVE  LoopBatches' /\ ComeInOrder' /\ GivenInOrder'
  <2>1. PICK b \in BOOLEAN :
          queue' \in {Append(queue, Inbox!Prompt(pushed + 1, m, b)), <<Inbox!Prompt(pushed + 1, m, b)>>}
    BY <1>1 DEF Push, PushCommand, Accept
  <2>2. pushed < MaxPrompts /\ pushed' = pushed + 1 /\ UNCHANGED <<given, restarts, remoteVars>>
    BY <1>1 DEF Push, PushCommand, Accept
  <2>3. queue' \in Seq(Prompt) /\ ComeInOrder' /\ GivenInOrder'
    BY <2>1, <2>2, AcceptKeepsOrder
  <2>4. QED
    BY <1>0, <2>2, <2>3 DEF LoopBatches
<1>2. CASE PlanApproved
  <2>1. queue' \in Seq(Prompt) /\ ComeInOrder' /\ GivenInOrder'
    BY <1>2, RestartKeepsOrder DEF PlanApproved
  <2>2. QED
    BY <1>0, <1>2, <2>1 DEF PlanApproved, LoopBatches
<1>3. CASE Flushed \/ Abort
  <2>1. /\ queue' \in {queue, << >>} /\ pending' \in {pending, << >>}
        /\ UNCHANGED <<given, restarts, pushed>>
    BY <1>3 DEF Flushed, FlushedLeaving, Kept, Abort
  <2>2. /\ modeHash' \in {modeHash, 0} /\ runsAs' \in {runsAs, 0}
    BY <1>3 DEF Flushed, FlushedLeaving, Abort
  <2>3. QED
    BY <1>0, <2>1, <2>2, DropsKeepOrder DEF LoopBatches
<1>4. CASE UNCHANGED <<queueVars, remoteVars, given>>
  <2>1. ComeInOrder' /\ GivenInOrder'
    BY <1>4, DropsKeepOrder
  <2>2. QED
    BY <1>0, <1>4, <2>1 DEF LoopBatches
<1>5. CASE TakePending \/ TakeBatch
  BY <1>5, TakePendingKeepsOrder, TakeBatchKeepsOrder
<1>6. CASE ClaudeLocal \/ TurnEnds \/ LaunchEnds \/ WaitAborted
  BY <1>4, <1>6 DEF ClaudeLocal, ClaudeLocalReturns, ClaudeLocalFails, ClaudeLocalThrows,
                    LocalEnds, TurnEnds, LaunchEnds, WaitAborted
<1>7. CASE ScannerReady \/ LeaveLocal
  BY <1>4, <1>7 DEF ScannerReady, LocalEnds, StartClaude, LeaveLocal, LeaveLocalTo
<1>8. CASE Switch \/ ExitKey \/ Kill \/ UNCHANGED loopVars
  BY <1>4, <1>8 DEF Switch, ExitKey, Kill, loopVars
<1>9. QED
  BY <1>1, <1>2, <1>3, <1>5, <1>6, <1>7, <1>8 DEF LoopNext, Loop, Prompts, Turn, NextMessage

\* The invariant of the loop.
LEMMA LoopInvariance == LoopSpec => []LoopInv
<1>1. LoopInv /\ [LoopNext]_loopVars => LoopInv'
  BY LoopKindsKept, LoopNumbersKept, PutAsideKept, LocalYieldsKept, LoopOrderKept
     DEF LoopInv, LoopTypes
<1>2. QED
  BY LoopInitInv, <1>1, PTL DEF LoopSpec

\* The loop and its launchers keep their types (loop.ts, claudeLocalLauncher.ts,
\* claudeRemoteLauncher.ts).
THEOREM LoopTypeCorrect == LoopSpec => []LoopTypeOK
<1>1. LoopInv => LoopTypeOK
  BY DEF LoopInv, LoopTypes, LoopKinds, LoopNumbers, LoopBatches, Given, LoopTypeOK
<1>2. QED
  BY <1>1, LoopInvariance, PTL

\* Whenever a prompt comes - while the scanner starts, while Claude runs in the terminal, or
\* while it ends: Claude does not keep the terminal from it.
THEOREM PromptsAreYieldedTo == LoopSpec => []LocalYields
<1>1. LoopInv => LocalYields
  BY DEF LoopInv
<1>2. QED
  BY <1>1, LoopInvariance, PTL

\* However prompts, aborts, switches, plans and ends of Claude interleave: Claude is
\* given no prompt twice, and none before one that came earlier, the restart of a plan
\* apart, although a batch is put aside for the next launch while others come.
THEOREM PromptsAreGivenInOrder == LoopSpec => []GivenInOrder
<1>1. LoopInv => GivenInOrder
  BY DEF LoopInv
<1>2. QED
  BY <1>1, LoopInvariance, PTL

---------------------------------------------------------------------------
(* PermissionHandler. Who waits is pending, under an id that no other      *)
(* call has: ids are spent once, because a call that is heard of is in     *)
(* the handler once.                                                       *)

ToolCall == [id : Call, used : BOOLEAN]

\* PermissionTypeOK in three parts.
CallTypes ==
    /\ toolCalls \in Seq(ToolCall)
    /\ stream \in Seq(Message)
    /\ input \in [Call -> Inputs] /\ input \in Asks
    /\ said \subseteq Call /\ ended \subseteq Call /\ cancelled \subseteq Call

RequestTypes ==
    /\ pendingRequests \subseteq [id : Call, by : Call]
    /\ asked \in [Call -> {"no"} \union Active \union Answers]
    /\ askedAs \in [Call -> Call \union {"none"}]
    /\ agentState \in [requests : SUBSET Call, completed : [Call -> Status]]
    /\ refused \subseteq Call

LaunchTypes ==
    /\ permissionMode \in PermissionMode
    /\ allowed \subseteq Inputs
    /\ launch \in 1..(MaxLaunches + 1)
    /\ process \in [Launch -> {"none", "running", "failed", "done"}]
    /\ home \in [Call -> 0..MaxLaunches]
    /\ effects \in [Call -> Nat]
    /\ relaunches \in [Call -> Nat]

\* A message of q names the call.
Names(q, id) == \E k \in DOMAIN q : q[k].what = "toolUse" /\ q[k].call = id

\* Claude names a call once: the handler hears of it once.
NamedOnce ==
    /\ \A i, j \in DOMAIN toolCalls : toolCalls[i].id = toolCalls[j].id => i = j
    /\ \A j, k \in DOMAIN stream :
          stream[j].what = "toolUse" /\ stream[k].what = "toolUse" /\ stream[j].call = stream[k].call
              => j = k
    /\ \A i \in DOMAIN toolCalls : toolCalls[i].id \in said /\ ~Names(stream, toolCalls[i].id)
    /\ \A k \in DOMAIN stream : stream[k].what = "toolUse" => stream[k].call \in said

\* The handler will find no question for this id any more.
Spent(id) ==
    /\ id \in said
    /\ ~Names(stream, id)
    /\ \A i \in DOMAIN toolCalls : toolCalls[i].id = id => toolCalls[i].used

\* An id is asked under once, for one call, with its input, and never after it was answered.
AskedOnce ==
    /\ \A c, id \in Call : askedAs[c] = id => Spent(id) /\ input[id] = input[c]
    /\ \A id \in Call : agentState.completed[id] # "none" => Spent(id)
    /\ \A c, d \in Call : askedAs[c] # "none" /\ askedAs[c] = askedAs[d] => c = d
    /\ \A c \in Call : asked[c] \in {"no", "resolving"} => askedAs[c] = "none"

\* The devices show the requests that are pending.
ShownArePending == agentState.requests = PendingIds

PermInv == CallTypes /\ RequestTypes /\ NamedOnce /\ AskedOnce /\ ShownArePending /\ NobodyIsForgotten /\ HistoryIsTrue

---------------------------------------------------------------------------
(* Messages and calls.                                                     *)

\* At the start nothing is asked and nothing is in the stream.
LEMMA PermissionInitInv == PermissionInit => PermInv /\ LaunchTypes
<1> SUFFICES ASSUME PermissionInit PROVE PermInv /\ LaunchTypes
  OBVIOUS
<1>1. CallTypes
  BY PermissionHandlerAssumption DEF PermissionInit, CallTypes, Inputs
<1>2. RequestTypes
  BY DEF PermissionInit, RequestTypes, Status
<1>3. LaunchTypes
  BY PermissionHandlerAssumption DEF PermissionInit, LaunchTypes, Launch
<1>4. NamedOnce /\ AskedOnce /\ ShownArePending
  BY PermissionHandlerAssumption
     DEF PermissionInit, NamedOnce, Names, AskedOnce, ShownArePending, PendingIds
<1>5. NobodyIsForgotten /\ HistoryIsTrue
  BY DEF PermissionInit, NobodyIsForgotten, HistoryIsTrue
<1>6. QED
  BY <1>1, <1>2, <1>3, <1>4, <1>5 DEF PermInv

\* What a step may do to the calls the handler knows and to those it will hear of: Spent
\* stays, and nothing is heard of twice.
HeardOnce == CallTypes' /\ NamedOnce' /\ \A id \in Call : Spent(id) => Spent(id)'

\* Steps that say nothing about calls leave what is heard of them alone.
LEMMA Unheard ==
    ASSUME CallTypes, NamedOnce, UNCHANGED <<toolCalls, stream, said, input>>,
           ended' \subseteq Call, cancelled' \subseteq Call
    PROVE  HeardOnce
<1>1. CallTypes'
  BY DEF CallTypes
<1>2. \A id : Names(stream', id) <=> Names(stream, id)
  BY DEF Names
<1>3. NamedOnce'
  BY <1>2 DEF NamedOnce
<1>4. \A id \in Call : Spent(id) => Spent(id)'
  BY <1>2 DEF Spent
<1>5. QED
  BY <1>1, <1>3, <1>4 DEF HeardOnce

\* A message is put in the stream.
LEMMA Enqueued ==
    ASSUME CallTypes, NEW l, NEW m \in Message, Enqueue(l, m)
    PROVE  /\ stream' \in Seq(Message)
           /\ \/ stream' = stream
              \/ /\ DOMAIN stream' = (DOMAIN stream) \union {Len(stream) + 1}
                 /\ stream'[Len(stream) + 1] = m
                 /\ \A k \in DOMAIN stream : stream'[k] = stream[k] /\ k # Len(stream) + 1
BY DEF CallTypes, Enqueue

\* The reader puts the announcement of a call in the stream, once.
LEMMA ReadToolUseHeard ==
    ASSUME CallTypes, NamedOnce, NEW l \in Launch, NEW c \in Call, ReadToolUse(l, c)
    PROVE  HeardOnce
<1> DEFINE m == [what |-> "toolUse", call |-> c]
<1>1. m \in Message /\ m.what = "toolUse" /\ m.call = c
  BY DEF Message
<1> HIDE DEF m
<1>2. /\ c \notin said /\ said' = said \union {c} /\ Enqueue(l, m)
      /\ UNCHANGED <<toolCalls, ended, cancelled, input>>
  BY DEF ReadToolUse, TakeLine, handlerVars, m
<1>3. /\ stream' \in Seq(Message)
      /\ \/ stream' = stream
         \/ /\ DOMAIN stream' = (DOMAIN stream) \union {Len(stream) + 1}
            /\ stream'[Len(stream) + 1] = m
            /\ \A k \in DOMAIN stream : stream'[k] = stream[k] /\ k # Len(stream) + 1
  BY <1>1, <1>2, Enqueued
<1>4. CallTypes'
  BY <1>2, <1>3 DEF CallTypes
<1>5. \A id : Names(stream', id) => Names(stream, id) \/ id = c
  BY <1>1, <1>3 DEF Names
<1>6. NamedOnce'
  <2>1. /\ \A i, j \in DOMAIN toolCalls' : toolCalls'[i].id = toolCalls'[j].id => i = j
        /\ \A i \in DOMAIN toolCalls' : toolCalls'[i].id \in said' /\ ~Names(stream', toolCalls'[i].id)
    BY <1>2, <1>5 DEF NamedOnce
  <2>2. \A j, k \in DOMAIN stream' :
          stream'[j].what = "toolUse" /\ stream'[k].what = "toolUse" /\ stream'[j].call = stream'[k].call
              => j = k
    BY <1>1, <1>2, <1>3 DEF NamedOnce
  <2>3. \A k \in DOMAIN stream' : stream'[k].what = "toolUse" => stream'[k].call \in said'
    BY <1>1, <1>2, <1>3 DEF NamedOnce
  <2>4. QED
    BY <2>1, <2>2, <2>3 DEF NamedOnce, Names
<1>7. \A id \in Call : Spent(id) => Spent(id)'
  BY <1>2, <1>5 DEF Spent
<1>8. QED
  BY <1>4, <1>6, <1>7 DEF HeardOnce

\* The reader puts the result of a call in the stream.
LEMMA ReadToolResultHeard ==
    ASSUME CallTypes, NamedOnce, NEW l \in Launch, NEW c \in Call, ReadToolResult(l, c)
    PROVE  HeardOnce
<1> DEFINE m == [what |-> "result", call |-> c]
<1>1. m \in Message /\ m.what # "toolUse"
  BY DEF Message
<1> HIDE DEF m
<1>2. /\ ended' = ended \union {c} /\ Enqueue(l, m)
      /\ UNCHANGED <<toolCalls, said, cancelled, input>>
  BY DEF ReadToolResult, TakeLine, handlerVars, m
<1>3. /\ stream' \in Seq(Message)
      /\ \/ stream' = stream
         \/ /\ DOMAIN stream' = (DOMAIN stream) \union {Len(stream) + 1}
            /\ stream'[Len(stream) + 1] = m
            /\ \A k \in DOMAIN stream : stream'[k] = stream[k] /\ k # Len(stream) + 1
  BY <1>1, <1>2, Enqueued
<1>4. CallTypes'
  BY <1>2, <1>3 DEF CallTypes
<1>5. \A id : Names(stream', id) => Names(stream, id)
  BY <1>1, <1>3 DEF Names
<1>6. NamedOnce'
  <2>1. /\ \A i, j \in DOMAIN toolCalls' : toolCalls'[i].id = toolCalls'[j].id => i = j
        /\ \A i \in DOMAIN toolCalls' : toolCalls'[i].id \in said' /\ ~Names(stream', toolCalls'[i].id)
    BY <1>2, <1>5 DEF NamedOnce
  <2>2. \A j, k \in DOMAIN stream' :
          stream'[j].what = "toolUse" /\ stream'[k].what = "toolUse" /\ stream'[j].call = stream'[k].call
              => j = k
    BY <1>1, <1>2, <1>3 DEF NamedOnce
  <2>3. \A k \in DOMAIN stream' : stream'[k].what = "toolUse" => stream'[k].call \in said'
    BY <1>1, <1>2, <1>3 DEF NamedOnce
  <2>4. QED
    BY <2>1, <2>2, <2>3 DEF NamedOnce, Names
<1>7. \A id \in Call : Spent(id) => Spent(id)'
  BY <1>2, <1>5 DEF Spent
<1>8. QED
  BY <1>4, <1>6, <1>7 DEF HeardOnce

\* The message a consumer takes.
LEMMA Consumed ==
    ASSUME CallTypes, NamedOnce, stream # << >>, stream' = Tail(stream)
    PROVE  /\ stream' \in Seq(Message) /\ Head(stream) \in Message
           /\ \A k \in DOMAIN stream' : k + 1 \in DOMAIN stream /\ k + 1 # 1 /\ stream'[k] = stream[k + 1]
           /\ \A j, k \in DOMAIN stream' : j + 1 = k + 1 => j = k
           /\ 1 \in DOMAIN stream /\ Head(stream) = stream[1]
BY DEF CallTypes

\* The handler hears of a call: it is the only one of its id.
LEMMA OnToolUseHeard ==
    ASSUME CallTypes, NamedOnce, OnToolUse
    PROVE  HeardOnce
<1> DEFINE c == Head(stream).call
           t == [id |-> c, used |-> FALSE]
<1>1. /\ stream # << >> /\ stream' = Tail(stream) /\ Head(stream).what = "toolUse"
      /\ UNCHANGED <<said, ended, cancelled, input>>
      /\ toolCalls' = Append(toolCalls, t)
  BY DEF OnToolUse, Consume
<1>2. /\ stream' \in Seq(Message) /\ Head(stream) \in Message
      /\ \A k \in DOMAIN stream' : k + 1 \in DOMAIN stream /\ k + 1 # 1 /\ stream'[k] = stream[k + 1]
      /\ \A j, k \in DOMAIN stream' : j + 1 = k + 1 => j = k
      /\ 1 \in DOMAIN stream /\ Head(stream) = stream[1]
  BY <1>1, Consumed
<1>3. c \in Call /\ t \in ToolCall /\ t.id = c
  BY <1>2 DEF Message, ToolCall
<1>4. Names(stream, c) /\ c \in said
  BY <1>1, <1>2 DEF Names, NamedOnce
<1>5. \A id : Names(stream', id) => Names(stream, id) /\ id # c
  BY <1>1, <1>2 DEF Names, NamedOnce
<1> HIDE DEF t, c
<1>6. /\ toolCalls' \in Seq(ToolCall) /\ DOMAIN toolCalls' = (DOMAIN toolCalls) \union {Len(toolCalls) + 1}
      /\ toolCalls'[Len(toolCalls) + 1] = t
      /\ \A i \in DOMAIN toolCalls : toolCalls'[i] = toolCalls[i] /\ i # Len(toolCalls) + 1
  BY <1>1, <1>3 DEF CallTypes
<1>7. CallTypes'
  BY <1>1, <1>2, <1>6 DEF CallTypes
<1>8. NamedOnce'
  <2>1. \A i \in DOMAIN toolCalls : toolCalls[i].id # c
    BY <1>4 DEF NamedOnce
  <2>2. \A i, j \in DOMAIN toolCalls' : toolCalls'[i].id = toolCalls'[j].id => i = j
    BY <1>3, <1>6, <2>1 DEF NamedOnce
  <2>3. \A i \in DOMAIN toolCalls' : toolCalls'[i].id \in said' /\ ~Names(stream', toolCalls'[i].id)
    BY <1>1, <1>3, <1>4, <1>5, <1>6 DEF NamedOnce
  <2>4. \A j, k \in DOMAIN stream' :
          stream'[j].what = "toolUse" /\ stream'[k].what = "toolUse" /\ stream'[j].call = stream'[k].call
              => j = k
    BY <1>2 DEF NamedOnce
  <2>5. \A k \in DOMAIN stream' : stream'[k].what = "toolUse" => stream'[k].call \in said'
    BY <1>1, <1>2 DEF NamedOnce
  <2>6. QED
    BY <2>2, <2>3, <2>4, <2>5 DEF NamedOnce, Names
<1>9. \A id \in Call : Spent(id) => Spent(id)'
  <2>1. ASSUME NEW id \in Call, Spent(id) PROVE Spent(id)'
    <3>1. id # c
      BY <1>4, <2>1 DEF Spent
    <3>2. QED
      BY <1>1, <1>3, <1>5, <1>6, <2>1, <3>1 DEF Spent
  <2>2. QED
    BY <2>1
<1>10. QED
  BY <1>7, <1>8, <1>9 DEF HeardOnce

\* Calls that come into use.
LEMMA UsedHeard ==
    ASSUME CallTypes, NamedOnce, toolCalls' \in Seq(ToolCall), DOMAIN toolCalls' = DOMAIN toolCalls,
           \A i \in DOMAIN toolCalls : toolCalls'[i].id = toolCalls[i].id
                                    /\ (toolCalls[i].used => toolCalls'[i].used),
           stream' = stream \/ (stream # << >> /\ stream' = Tail(stream)),
           UNCHANGED <<said, input>>, ended' \subseteq Call, cancelled' \subseteq Call
    PROVE  HeardOnce
<1>1. stream' \in Seq(Message)
  BY Consumed DEF CallTypes
<1>2. CallTypes'
  BY <1>1 DEF CallTypes
<1>3. \A id : Names(stream', id) => Names(stream, id)
  BY Consumed DEF Names
<1>4. NamedOnce'
  <2>1. /\ \A i, j \in DOMAIN toolCalls' : toolCalls'[i].id = toolCalls'[j].id => i = j
        /\ \A i \in DOMAIN toolCalls' : toolCalls'[i].id \in said' /\ ~Names(stream', toolCalls'[i].id)
    BY <1>3 DEF NamedOnce
  <2>2. \A j, k \in DOMAIN stream' :
          stream'[j].what = "toolUse" /\ stream'[k].what = "toolUse" /\ stream'[j].call = stream'[k].call
              => j = k
    BY Consumed DEF NamedOnce
  <2>3. \A k \in DOMAIN stream' : stream'[k].what = "toolUse" => stream'[k].call \in said'
    <3>1. \A k \in DOMAIN stream' : \E j \in DOMAIN stream : stream'[k] = stream[j]
      BY Consumed
    <3>2. QED
      BY <3>1 DEF NamedOnce
  <2>4. QED
    BY <2>1, <2>2, <2>3 DEF NamedOnce, Names
<1>5. \A id \in Call : Spent(id) => Spent(id)'
  BY <1>3 DEF Spent
<1>6. QED
  BY <1>2, <1>4, <1>5 DEF HeardOnce

\* The handler forgets, and the stream of a launch is left.
LEMMA ForgottenHeard ==
    ASSUME CallTypes, NamedOnce, toolCalls' = << >>, stream' = << >>,
           UNCHANGED <<said, ended, cancelled, input>>
    PROVE  HeardOnce
<1>1. CallTypes'
  BY DEF CallTypes
<1>2. \A id : ~Names(stream', id)
  BY DEF Names
<1>3. NamedOnce'
  BY DEF NamedOnce, Names
<1>4. \A id \in Call : Spent(id) => Spent(id)'
  BY <1>2 DEF Spent
<1>5. QED
  BY <1>1, <1>3, <1>4 DEF HeardOnce

---------------------------------------------------------------------------
(* The requests.                                                           *)

\* What the properties need of the handler's state.
AskedWell == AskedOnce /\ ShownArePending /\ NobodyIsForgotten /\ HistoryIsTrue

\* Calls that are let through, or for which no call is found.
LEMMA NotAskedWell ==
    ASSUME PermInv, HeardOnce, UNCHANGED <<pendingRequests, askedAs, agentState, input>>,
           asked' \in [Call -> {"no"} \union Active \union Answers],
           \A c \in Call : \/ asked'[c] = asked[c]
                          \/ /\ asked[c] \in {"no", "resolving"}
                             /\ asked'[c] \in {"resolving", "allow", "failed"}
    PROVE  AskedWell'
<1> USE DEF PermInv
<1>1. AskedOnce'
  BY DEF AskedOnce, HeardOnce
<1>2. ShownArePending'
  BY DEF ShownArePending, PendingIds
<1>3. \A c \in Call : asked'[c] = "waiting" <=> asked[c] = "waiting"
  OBVIOUS
<1>4. NobodyIsForgotten'
  BY <1>3 DEF NobodyIsForgotten
<1>5. HistoryIsTrue'
  <2>1. ASSUME NEW c \in Call, askedAs[c] # "none" PROVE asked'[c] = asked[c]
    BY <2>1 DEF AskedOnce
  <2>2. QED
    BY <2>1 DEF HistoryIsTrue
<1>6. QED
  BY <1>1, <1>2, <1>4, <1>5 DEF AskedWell

\* Marking a call as used.
LEMMA MarkedUsed ==
    ASSUME NEW t \in ToolCall
    PROVE  /\ [t EXCEPT !.used = TRUE] \in ToolCall
           /\ [t EXCEPT !.used = TRUE].id = t.id /\ [t EXCEPT !.used = TRUE].used = TRUE
BY DEF ToolCall

\* A request is made for a call that has none, under an id that was not spent.
LEMMA RequestWell ==
    ASSUME PermInv, NEW c \in Call, NEW i \in DOMAIN toolCalls, ResolvesTo(c, i), Request(c, i),
           asked[c] \in {"no", "resolving"}, UNCHANGED <<refused, stream, said, ended, cancelled, input>>
    PROVE  RequestTypes' /\ HeardOnce /\ AskedWell'
<1> USE DEF PermInv
<1>0. PICK id \in Call : id = toolCalls[i].id
  <2>1. toolCalls[i] \in ToolCall
    BY DEF CallTypes
  <2>2. QED
    BY <2>1 DEF ToolCall
<1>1. ~toolCalls[i].used /\ input[id] = input[c] /\ toolCalls \in Seq(ToolCall)
  BY <1>0 DEF CallTypes, ResolvesTo, Alike
<1>2. /\ toolCalls' = [toolCalls EXCEPT ![i].used = TRUE]
      /\ pendingRequests' = {p \in pendingRequests : p.id # id} \union {[id |-> id, by |-> c]}
      /\ asked' = [asked EXCEPT ![c] = "waiting"]
      /\ askedAs' = [askedAs EXCEPT ![c] = id]
      /\ agentState' = [agentState EXCEPT !.requests = @ \union {id}]
  BY <1>0 DEF Request, Add
<1> DEFINE t == [toolCalls[i] EXCEPT !.used = TRUE]
<1>3. t \in ToolCall /\ t.id = id /\ t.used = TRUE
  <2>1. toolCalls[i] \in ToolCall
    BY <1>1
  <2>2. QED
    BY <1>0, <2>1, MarkedUsed
<1> HIDE DEF t
<1>4. /\ toolCalls' \in Seq(ToolCall) /\ DOMAIN toolCalls' = DOMAIN toolCalls
      /\ \A k \in DOMAIN toolCalls : k # i => toolCalls'[k] = toolCalls[k]
      /\ toolCalls'[i].id = id /\ toolCalls'[i].used = TRUE
  <2>1. toolCalls' = [toolCalls EXCEPT ![i] = t]
    BY <1>2 DEF t
  <2>2. QED
    BY <1>1, <1>3, <2>1
<1>5. ~Spent(id)
  BY <1>0, <1>1 DEF Spent
<1>6. HeardOnce
  BY <1>0, <1>4, UsedHeard DEF CallTypes
<1>7. Spent(id)'
  <2>1. id \in said /\ ~Names(stream, id) /\ \A k \in DOMAIN toolCalls : toolCalls[k].id = id => k = i
    BY <1>0 DEF NamedOnce
  <2>2. QED
    BY <1>4, <2>1 DEF Spent
<1>8. \A p \in pendingRequests : p.id # id
  <2>1. \A p \in pendingRequests : p.by \in Call /\ p.id \in Call /\ askedAs[p.by] = p.id
    BY DEF RequestTypes, NobodyIsForgotten
  <2>2. \A p \in pendingRequests : p.id # "none"
    BY <2>1, PermissionHandlerAssumption
  <2>3. QED
    BY <1>5, <2>1, <2>2 DEF AskedOnce
<1>9. pendingRequests' = pendingRequests \union {[id |-> id, by |-> c]}
  BY <1>2, <1>8
<1>10. /\ agentState' = [requests |-> agentState.requests \union {id}, completed |-> agentState.completed]
       /\ agentState.requests \subseteq Call /\ agentState.completed \in [Call -> Status]
  BY <1>2 DEF RequestTypes
<1>11. RequestTypes'
  <2>1. pendingRequests' \subseteq [id : Call, by : Call] /\ refused' = refused
    BY <1>1, <1>9 DEF RequestTypes
  <2>2. asked' \in [Call -> {"no"} \union Active \union Answers]
    BY <1>2 DEF RequestTypes, Active
  <2>3. QED
    BY <1>1, <1>2, <1>10, <2>1, <2>2 DEF RequestTypes

<1>12. AskedOnce'
  <2>1. \A a \in Call : askedAs[a] # "none" => askedAs[a] \in Call /\ askedAs[a] # id
    BY <1>5 DEF RequestTypes, AskedOnce
  <2>2. \A a \in Call : a # c => askedAs'[a] = askedAs[a] /\ asked'[a] = asked[a]
    BY <1>2 DEF RequestTypes
  <2>3. askedAs'[c] = id /\ asked'[c] = "waiting"
    BY <1>2 DEF RequestTypes
  <2>4. \A a, x \in Call : askedAs'[a] = x => Spent(x)' /\ input[x] = input[a]
    <3>1. \A a, x \in Call : askedAs[a] = x => Spent(x)'
      BY <1>6 DEF AskedOnce, HeardOnce
    <3>2. QED
      BY <1>1, <1>7, <2>2, <2>3, <3>1 DEF AskedOnce
  <2>5. \A a \in Call : agentState'.completed[a] # "none" => Spent(a)'
    BY <1>6, <1>10 DEF AskedOnce, HeardOnce
  <2>6. \A a, d \in Call : askedAs'[a] # "none" /\ askedAs'[a] = askedAs'[d] => a = d
    BY <2>1, <2>2, <2>3 DEF AskedOnce
  <2>7. \A a \in Call : asked'[a] \in {"no", "resolving"} => askedAs'[a] = "none"
    BY <2>2, <2>3 DEF AskedOnce
  <2>8. QED
    BY <2>4, <2>5, <2>6, <2>7 DEF AskedOnce
<1> DEFINE r == [id |-> id, by |-> c]
<1>r. r.id = id /\ r.by = c /\ pendingRequests' = pendingRequests \union {r}
  BY <1>9
<1> HIDE DEF r
<1>13. ShownArePending'
  <2>1. agentState'.requests = agentState.requests \union {id}
    BY <1>10
  <2>2. QED
    BY <1>r, <2>1 DEF ShownArePending, PendingIds
<1>14. NobodyIsForgotten'
  <2>1. \A p \in pendingRequests : p.by \in Call /\ p.by # c
    BY DEF NobodyIsForgotten
  <2>2. {p.by : p \in pendingRequests'} = {a \in Call : asked'[a] = "waiting"}
    <3>1. {p.by : p \in pendingRequests'} = {p.by : p \in pendingRequests} \union {c}
      BY <1>r
    <3>2. {a \in Call : asked'[a] = "waiting"} = {a \in Call : asked[a] = "waiting"} \union {c}
      BY <1>2 DEF RequestTypes
    <3>3. QED
      BY <3>1, <3>2 DEF NobodyIsForgotten
  <2>3. \A p, q \in pendingRequests' : p.id = q.id \/ p.by = q.by => p = q
    BY <1>8, <1>9, <2>1 DEF NobodyIsForgotten
  <2>4. \A p \in pendingRequests' : askedAs'[p.by] = p.id
    BY <1>2, <1>9, <2>1 DEF NobodyIsForgotten, RequestTypes
  <2>5. QED
    BY <2>2, <2>3, <2>4 DEF NobodyIsForgotten
<1>15. HistoryIsTrue'
  <2>1. agentState.completed[id] = "none"
    BY <1>1, <1>5 DEF AskedOnce
  <2>2. QED
    BY <1>2, <1>10, <2>1 DEF HistoryIsTrue, RequestTypes
<1>16. QED
  BY <1>6, <1>11, <1>12, <1>13, <1>14, <1>15 DEF AskedWell

\* Whoever waits when the handler is reset gets an error, and the history says so.
LEMMA ResetWell ==
    ASSUME PermInv, HeardOnce, Reset, input' = input
    PROVE  RequestTypes' /\ AskedWell'
<1> USE DEF PermInv
<1>1. /\ pendingRequests' = {} /\ refused' = {} /\ askedAs' = askedAs
      /\ asked' = [c \in Call |-> IF \E p \in pendingRequests : p.by = c
                                   THEN Settle(c, "failed")[c] ELSE asked[c]]
      /\ agentState' = [requests |-> {},
                        completed |-> [c \in Call |-> IF c \in agentState.requests THEN "canceled"
                                                      ELSE agentState.completed[c]]]
  BY DEF Reset, CancelAll
<1>2. \A c \in Call : (\E p \in pendingRequests : p.by = c) <=> asked[c] = "waiting"
  BY DEF NobodyIsForgotten
<1>3. \A c \in Call : asked'[c] = IF asked[c] = "waiting" THEN "failed" ELSE asked[c]
  BY <1>1, <1>2 DEF Settle, RequestTypes
<1>4. asked' \in [Call -> {"no"} \union Active \union Answers]
  <2>1. asked' = [c \in Call |-> asked'[c]]
    BY <1>1
  <2>2. \A c \in Call : asked'[c] \in {"no"} \union Active \union Answers
    BY <1>3 DEF RequestTypes, Answers
  <2>3. QED
    BY <2>1, <2>2
<1>5. RequestTypes'
  BY <1>1, <1>4 DEF RequestTypes, Status
<1>6. \A id \in Call : id \in agentState.requests <=> \E p \in pendingRequests : p.id = id
  BY DEF ShownArePending, PendingIds
<1>7. AskedOnce'
  <2>1. \A id \in agentState.requests : Spent(id)
    <3>1. \A p \in pendingRequests : p.by \in Call /\ p.id \in Call /\ askedAs[p.by] = p.id
      BY DEF NobodyIsForgotten, RequestTypes
    <3>2. QED
      BY <3>1, PermissionHandlerAssumption DEF AskedOnce, ShownArePending, PendingIds
  <2>2. \A c \in Call : askedAs[c] # "none" => askedAs[c] \in Call
    BY DEF RequestTypes
  <2>3. \A id \in Call : agentState'.completed[id] # "none" => Spent(id)
    BY <1>1, <2>1 DEF AskedOnce
  <2>4. \A c \in Call : asked'[c] \in {"no", "resolving"} => asked[c] = asked'[c]
    BY <1>3
  <2>5. QED
    BY <1>1, <2>2, <2>3, <2>4 DEF AskedOnce, HeardOnce
<1>8. ShownArePending'
  BY <1>1 DEF ShownArePending, PendingIds
<1>9. NobodyIsForgotten'
  BY <1>1, <1>3 DEF NobodyIsForgotten
<1>10. HistoryIsTrue'
  <2>1. ASSUME NEW c \in Call, askedAs[c] # "none"
        PROVE  askedAs[c] \in agentState.requests <=> asked[c] = "waiting"
    <3>1. askedAs[c] \in Call
      BY <2>1 DEF RequestTypes
    <3>2. ASSUME NEW p \in pendingRequests, p.id = askedAs[c] PROVE p.by = c
      BY <2>1, <3>2 DEF NobodyIsForgotten, AskedOnce
    <3>3. ASSUME NEW p \in pendingRequests, p.by = c PROVE p.id = askedAs[c]
      BY <3>3 DEF NobodyIsForgotten
    <3>4. QED
      BY <1>2, <1>6, <3>1, <3>2, <3>3
  <2>2. ASSUME NEW c \in Call, askedAs[c] # "none"
        PROVE  agentState'.completed[askedAs[c]] =
                 IF asked[c] = "waiting" THEN "canceled" ELSE agentState.completed[askedAs[c]]
    BY <1>1, <2>1, <2>2 DEF RequestTypes
  <2> DEFINE StatusOf(c, completed) == IF askedAs[c] = "none" THEN "none" ELSE completed[askedAs[c]]
             Tells(c, status, became) ==
                 /\ status = "approved" => became = IF input[c] \in PlanInput THEN "deny" ELSE "allow"
                 /\ status = "denied" => became = "deny"
                 /\ status = "canceled" => became = "failed"
  <2>3. ASSUME NEW c \in Call PROVE Tells(c, StatusOf(c, agentState'.completed), asked'[c])
    <3>1. Tells(c, StatusOf(c, agentState.completed), asked[c])
      BY DEF HistoryIsTrue
    <3>2. CASE askedAs[c] = "none"
      BY <3>2
    <3>3. CASE askedAs[c] # "none" /\ asked[c] = "waiting"
      <4>1. StatusOf(c, agentState'.completed) = "canceled" /\ asked'[c] = "failed"
        BY <1>3, <2>2, <3>3
      <4>2. QED
        BY <4>1
    <3>4. CASE askedAs[c] # "none" /\ asked[c] # "waiting"
      BY <1>3, <2>2, <3>1, <3>4
    <3>5. QED
      BY <3>2, <3>3, <3>4
  <2>4. askedAs' = askedAs /\ input' = input
    BY <1>1
  <2>5. QED
    BY <2>3, <2>4 DEF HistoryIsTrue
<1>11. QED
  BY <1>5, <1>7, <1>8, <1>9, <1>10 DEF AskedWell

\* An answer settles the one call that waits under its id.
LEMMA ResponseWell ==
    ASSUME PermInv, NEW id \in Call, NEW approved \in BOOLEAN, NEW mode, NEW forInput,
           HeardOnce, PermissionResponse(id, approved, mode, forInput)
    PROVE  RequestTypes' /\ AskedWell'
<1> USE DEF PermInv
<1> DEFINE status == IF approved THEN "approved" ELSE "denied"
           outcome(c) == IF approved /\ input[id] \notin PlanInput THEN "allow" ELSE "deny"
<1>1. PICK p \in pendingRequests :
        /\ p.id = id
        /\ pendingRequests' = {q \in pendingRequests : q.id # id}
        /\ refused' = IF approved THEN refused ELSE refused \union {id}
        /\ asked' = Settle(p.by, outcome(p.by))
        /\ agentState' = Complete(id, status)
        /\ UNCHANGED <<askedAs, input>>
  BY DEF PermissionResponse, StillPending, claudeVars
<1> DEFINE c == p.by
<1>2. c \in Call /\ asked[c] = "waiting" /\ askedAs[c] = id /\ id \in agentState.requests
  BY <1>1 DEF NobodyIsForgotten, ShownArePending, PendingIds
<1>3. input[c] = input[id] /\ outcome(c) \in {"allow", "deny"} /\ status \in {"approved", "denied"}
  BY <1>2, PermissionHandlerAssumption DEF AskedOnce
<1>4. asked' = [asked EXCEPT ![c] = outcome(c)]
  BY <1>1, <1>2 DEF Settle
<1>5. agentState' = [requests |-> agentState.requests \ {id},
                    completed |-> [agentState.completed EXCEPT ![id] = status]]
  BY <1>1, <1>2 DEF Complete
<1>6. \A q \in pendingRequests : q.id = id \/ q.by = c => q = p
  BY <1>1 DEF NobodyIsForgotten
<1>7. pendingRequests' = pendingRequests \ {p}
  BY <1>1, <1>6
<1> HIDE DEF outcome, status, c
<1>8. RequestTypes'
  <2>1. asked' \in [Call -> {"no"} \union Active \union Answers]
    BY <1>3, <1>4 DEF RequestTypes, Answers
  <2>2. agentState' \in [requests : SUBSET Call, completed : [Call -> Status]]
    <3>1. agentState.requests \ {id} \in SUBSET Call
      BY DEF RequestTypes
    <3>2. [agentState.completed EXCEPT ![id] = status] \in [Call -> Status]
      BY <1>3 DEF RequestTypes, Status
    <3>3. QED
      BY <1>5, <3>1, <3>2
  <2>3. refused' \subseteq Call /\ pendingRequests' \subseteq [id : Call, by : Call]
    BY <1>1, <1>7 DEF RequestTypes
  <2>4. QED
    BY <1>1, <2>1, <2>2, <2>3 DEF RequestTypes
<1>9. AskedOnce'
  <2>1. \A a \in Call : askedAs[a] # "none" => askedAs[a] \in Call
    BY DEF RequestTypes
  <2>2. Spent(id)
    BY <1>2, PermissionHandlerAssumption DEF AskedOnce
  <2>3. \A a \in Call : agentState'.completed[a] # "none" => Spent(a)
    BY <1>5, <2>2 DEF AskedOnce, RequestTypes
  <2>4. \A a \in Call : asked'[a] \in {"no", "resolving"} => asked[a] = asked'[a]
    BY <1>2, <1>3, <1>4 DEF RequestTypes
  <2>5. QED
    BY <1>1, <2>1, <2>3, <2>4 DEF AskedOnce, HeardOnce
<1>10. ShownArePending'
  BY <1>1, <1>5, <1>6, <1>7 DEF ShownArePending, PendingIds
<1>11. NobodyIsForgotten'
  <2>1. {q.by : q \in pendingRequests'} = {a \in Call : asked'[a] = "waiting"}
    BY <1>2, <1>3, <1>4, <1>6, <1>7 DEF NobodyIsForgotten, RequestTypes, c
  <2>2. QED
    BY <1>1, <1>7, <2>1 DEF NobodyIsForgotten
<1>12. HistoryIsTrue'
  <2>1. ASSUME NEW a \in Call, a # c, askedAs[a] # "none"
        PROVE  askedAs[a] # id /\ asked'[a] = asked[a]
    BY <1>2, <1>4, <2>1 DEF AskedOnce, RequestTypes
  <2>2. asked'[c] = outcome(c) /\ agentState'.completed[id] = status
    BY <1>2, <1>4, <1>5 DEF RequestTypes
  <2>3. ASSUME NEW a \in Call, askedAs[a] # "none", a # c
        PROVE  agentState'.completed[askedAs[a]] = agentState.completed[askedAs[a]]
    BY <1>5, <2>1, <2>3 DEF RequestTypes
  <2>4. ASSUME NEW a \in Call
        PROVE  LET s == IF askedAs'[a] = "none" THEN "none" ELSE agentState'.completed[askedAs'[a]]
                   isPlan == input'[a] \in PlanInput
               IN  /\ s = "approved" => asked'[a] = IF isPlan THEN "deny" ELSE "allow"
                   /\ s = "denied" => asked'[a] = "deny"
                   /\ s = "canceled" => asked'[a] = "failed"
    <3>1. CASE a = c
      BY <1>1, <1>2, <1>3, <2>2, <3>1, PermissionHandlerAssumption DEF outcome, status
    <3>2. CASE a # c
      BY <1>1, <2>1, <2>3, <3>2 DEF HistoryIsTrue
    <3>3. QED
      BY <3>1, <3>2
  <2>5. QED
    BY <2>4 DEF HistoryIsTrue
<1>13. QED
  BY <1>8, <1>9, <1>10, <1>11, <1>12 DEF AskedWell

---------------------------------------------------------------------------
(* The steps.                                                              *)

\* The launches, the loop and the readers keep their types.
LEMMA LaunchTypesKept ==
    ASSUME PermInv, LaunchTypes, [PermissionNext]_permissionVars
    PROVE  LaunchTypes'
<1> USE PermissionHandlerAssumption DEF LaunchTypes, Launch, handlerVars
<1>1. ASSUME NEW l \in Launch, NEW c \in Call,
             ReadToolUse(l, c) \/ ReadToolResult(l, c) \/ ReadControlRequest(l, c)
      PROVE  LaunchTypes'
  <2>1. /\ home' = [home EXCEPT ![c] = l]
        /\ UNCHANGED <<launch, process, permissionMode, allowed, effects, relaunches>>
    BY <1>1 DEF ReadToolUse, ReadToolResult, ReadControlRequest, TakeLine, HandleToolCall
  <2>2. QED
    BY <2>1
<1>2. ASSUME NEW c \in Call, CancelRequest(c) \/ ResolveAgain(c)
      PROVE  LaunchTypes'
  BY <1>2 DEF CancelRequest, ResolveAgain, claudeVars
<1>3. CASE Fail \/ End
  <2>1. /\ process' \in {[process EXCEPT ![launch] = "failed"], [process EXCEPT ![launch] = "done"]}
        /\ UNCHANGED <<launch, home, permissionMode, allowed, effects, relaunches>>
    BY <1>3 DEF Fail, End
  <2>2. QED
    BY <2>1
<1>4. ASSUME EndLaunch, launch \in Launch
      PROVE  LaunchTypes'
  <2>1. launch' \in 1..(MaxLaunches + 1)
    BY <1>4 DEF EndLaunch
  <2>2. process' \in [Launch -> {"none", "running", "failed", "done"}]
    BY <1>4 DEF EndLaunch
  <2>3. permissionMode' \in PermissionMode /\ allowed' \subseteq Inputs /\ UNCHANGED <<home, effects, relaunches>>
    BY <1>4 DEF EndLaunch, Reset
  <2>4. QED
    BY <2>1, <2>2, <2>3
<1>5. CASE Consumer
  BY <1>4, <1>5 DEF Consumer, OnToolUse, OnToolResult, OutputEnds, Consume
<1>6. ASSUME NEW id \in Call, NEW approved \in BOOLEAN, NEW mode \in PermissionMode \union {"none"},
             NEW forInput, PermissionResponse(id, approved, mode, forInput)
      PROVE  LaunchTypes'
  <2>1. input[id] \in Inputs
    BY DEF PermInv, CallTypes
  <2>2. /\ allowed' \in {allowed, allowed \union {input[id]}}
        /\ permissionMode' \in PermissionMode
        /\ effects' = [effects EXCEPT ![id] = @ + 1]
        /\ relaunches' \in {relaunches, [relaunches EXCEPT ![id] = @ + 1]}
        /\ UNCHANGED <<launch, process, home>>
    BY <1>6 DEF PermissionResponse, claudeVars
  <2>3. effects' \in [Call -> Nat] /\ relaunches' \in [Call -> Nat]
    <3>1. effects[id] + 1 \in Nat /\ relaunches[id] + 1 \in Nat
      OBVIOUS
    <3>2. effects' \in [Call -> Nat]
      BY <2>2, <3>1
    <3>3. relaunches' \in [Call -> Nat]
      BY <2>2, <3>1
    <3>4. QED
      BY <3>2, <3>3
  <2>4. QED
    BY <2>1, <2>2, <2>3
<1>7. ASSUME NEW mode \in PermissionMode, HandleModeChange(mode)
      PROVE  LaunchTypes'
  BY <1>7 DEF HandleModeChange, claudeVars
<1>8. CASE UNCHANGED permissionVars
  BY <1>8 DEF permissionVars, claudeVars
<1>9. QED
  BY <1>1, <1>2, <1>3, <1>5, <1>6, <1>7, <1>8 DEF PermissionNext, ClaudeAsks, UserAnswers

\* Claude asks whether it may run a call: it is let through, or waits under an id of its
\* own, or fails.
LEMMA ClaudeAsksWell ==
    ASSUME PermInv, ClaudeAsks
    PROVE  PermInv'
<1> USE DEF PermInv
<1>1. ASSUME UNCHANGED <<pendingRequests, askedAs, agentState, asked, refused, input>>, HeardOnce
      PROVE  PermInv'
  BY <1>1, NotAskedWell DEF RequestTypes, HeardOnce, AskedWell
<1>2. ASSUME NEW l \in Launch, NEW c \in Call, ReadToolUse(l, c)
      PROVE  PermInv'
  BY <1>1, <1>2, ReadToolUseHeard DEF ReadToolUse, TakeLine, handlerVars
<1>3. ASSUME NEW l \in Launch, NEW c \in Call, ReadToolResult(l, c)
      PROVE  PermInv'
  BY <1>1, <1>3, ReadToolResultHeard DEF ReadToolResult, TakeLine, handlerVars
<1>4. ASSUME NEW l \in Launch, NEW c \in Call, ReadControlRequest(l, c)
      PROVE  PermInv'
  <2>1. /\ asked[c] = "no" /\ HandleToolCall(c)
        /\ UNCHANGED <<stream, said, ended, cancelled, input, refused>>
    BY <1>4 DEF ReadControlRequest, TakeLine, HandleToolCall
  <2>2. CASE \E i \in DOMAIN toolCalls : ResolvesTo(c, i) /\ Request(c, i)
    BY <2>1, <2>2, RequestWell DEF HeardOnce, AskedWell
  <2>3. CASE /\ asked' \in {[asked EXCEPT ![c] = "allow"], [asked EXCEPT ![c] = "resolving"]}
             /\ UNCHANGED <<toolCalls, pendingRequests, askedAs, agentState>>
    <3>1. HeardOnce
      BY <2>1, <2>3, Unheard DEF CallTypes
    <3>2. asked' \in [Call -> {"no"} \union Active \union Answers]
      BY <2>3 DEF RequestTypes, Active, Answers
    <3>3. RequestTypes'
      BY <2>1, <2>3, <3>2 DEF RequestTypes
    <3>4. AskedWell'
      BY <2>1, <2>3, <3>1, <3>2, NotAskedWell DEF RequestTypes
    <3>5. QED
      BY <3>1, <3>3, <3>4 DEF HeardOnce, AskedWell
  <2>4. QED
    BY <2>1, <2>2, <2>3 DEF HandleToolCall, Unresolved
<1>5. ASSUME NEW c \in Call, CancelRequest(c)
      PROVE  PermInv'
  BY <1>1, <1>5, Unheard DEF CancelRequest, handlerVars, CallTypes
<1>6. CASE Fail \/ End
  BY <1>1, <1>6, Unheard DEF Fail, End, handlerVars, CallTypes
<1>7. QED
  BY <1>2, <1>3, <1>4, <1>5, <1>6 DEF ClaudeAsks

\* The end of a launch resets the handler: whoever waits is told, and nothing is asked
\* any more.
LEMMA EndLaunchWell ==
    ASSUME PermInv, EndLaunch
    PROVE  PermInv'
<1>1. HeardOnce
  BY ForgottenHeard DEF PermInv, EndLaunch, Reset
<1>2. QED
  BY <1>1, ResetWell DEF EndLaunch, PermInv, HeardOnce, AskedWell

\* A call that is announced is kept, its result uses it up, and the end of the output
\* ends the launch.
LEMMA ConsumerWell ==
    ASSUME PermInv, Consumer
    PROVE  PermInv'
<1> USE DEF PermInv
<1>1. ASSUME UNCHANGED <<pendingRequests, askedAs, agentState, asked, refused, input>>, HeardOnce
      PROVE  PermInv'
  BY <1>1, NotAskedWell DEF RequestTypes, HeardOnce, AskedWell
<1>2. CASE OnToolUse
  BY <1>1, <1>2, OnToolUseHeard DEF OnToolUse
<1>3. CASE OnToolResult
  <2>1. CASE EndLaunch
    BY <2>1, EndLaunchWell
  <2>2. CASE ~EndLaunch
    <3>1. PICK c : /\ stream # << >> /\ stream' = Tail(stream)
                   /\ toolCalls' = [i \in DOMAIN toolCalls |->
                                      [toolCalls[i] EXCEPT !.used = @ \/ toolCalls[i].id = c]]
                   /\ UNCHANGED <<pendingRequests, askedAs, agentState, asked, refused, input>>
                   /\ UNCHANGED <<said, ended, cancelled>>
      BY <1>3, <2>2 DEF OnToolResult, Consume
    <3> DEFINE u(i) == [toolCalls[i] EXCEPT !.used = @ \/ toolCalls[i].id = c]
    <3>2. ASSUME NEW i \in DOMAIN toolCalls
          PROVE  u(i) \in ToolCall /\ u(i).id = toolCalls[i].id /\ (toolCalls[i].used => u(i).used)
      <4>1. toolCalls[i] \in ToolCall
        BY DEF CallTypes
      <4>2. QED
        BY <4>1 DEF ToolCall
    <3> HIDE DEF u
    <3>3. toolCalls' = [i \in DOMAIN toolCalls |-> u(i)]
      BY <3>1 DEF u
    <3>4. toolCalls' \in Seq(ToolCall) /\ DOMAIN toolCalls' = DOMAIN toolCalls
      BY <3>2, <3>3 DEF CallTypes
    <3>5. HeardOnce
      BY <3>1, <3>2, <3>3, <3>4, UsedHeard DEF CallTypes
    <3>6. QED
      BY <1>1, <3>1, <3>5
  <2>3. QED
    BY <2>1, <2>2
<1>4. CASE OutputEnds
  BY <1>4, EndLaunchWell DEF OutputEnds
<1>5. QED
  BY <1>2, <1>3, <1>4 DEF Consumer

\* Every step keeps the invariant.
LEMMA PermNextInv ==
    ASSUME PermInv, [PermissionNext]_permissionVars
    PROVE  PermInv'
<1> USE DEF PermInv
<1>1. ASSUME UNCHANGED <<pendingRequests, askedAs, agentState, asked, refused, input>>, HeardOnce
      PROVE  PermInv'
  BY <1>1, NotAskedWell DEF RequestTypes, HeardOnce, AskedWell
<1>2. ASSUME NEW c \in Call, ResolveAgain(c)
      PROVE  PermInv'
  <2>1. /\ asked[c] = "resolving"
        /\ UNCHANGED <<stream, said, ended, cancelled, input, refused>>
    BY <1>2 DEF ResolveAgain, claudeVars
  <2>2. CASE \E i \in DOMAIN toolCalls : ResolvesTo(c, i) /\ Request(c, i)
    BY <2>1, <2>2, RequestWell DEF HeardOnce, AskedWell
  <2>3. CASE /\ asked' = [asked EXCEPT ![c] = "failed"]
             /\ UNCHANGED <<toolCalls, pendingRequests, askedAs, agentState>>
    <3>1. HeardOnce
      BY <2>1, <2>3, Unheard DEF CallTypes
    <3>2. asked' \in [Call -> {"no"} \union Active \union Answers]
      BY <2>3 DEF RequestTypes, Answers
    <3>3. RequestTypes'
      BY <2>1, <2>3, <3>2 DEF RequestTypes
    <3>4. AskedWell'
      BY <2>1, <2>3, <3>1, <3>2, NotAskedWell DEF RequestTypes
    <3>5. QED
      BY <3>1, <3>3, <3>4 DEF HeardOnce, AskedWell
  <2>4. QED
    BY <1>2, <2>2, <2>3 DEF ResolveAgain, Unresolved
<1>3. ASSUME NEW id \in Call, NEW approved \in BOOLEAN, NEW mode, NEW forInput,
             PermissionResponse(id, approved, mode, forInput)
      PROVE  PermInv'
  <2>1. HeardOnce
    BY <1>3, Unheard DEF PermissionResponse, claudeVars, CallTypes
  <2>2. QED
    BY <1>3, <2>1, ResponseWell DEF HeardOnce, AskedWell
<1>4. ASSUME NEW mode \in PermissionMode, HandleModeChange(mode)
      PROVE  PermInv'
  BY <1>1, <1>4, Unheard DEF HandleModeChange, claudeVars, CallTypes
<1>5. CASE UNCHANGED permissionVars
  BY <1>1, <1>5, Unheard DEF permissionVars, handlerVars, claudeVars, CallTypes
<1>6. QED
  BY <1>2, <1>3, <1>4, <1>5, ClaudeAsksWell, ConsumerWell DEF PermissionNext, UserAnswers

\* The invariant of the permission handler.
LEMMA PermInvariance == PermissionSpec => [](PermInv /\ LaunchTypes)
BY PermissionInitInv, PermNextInv, LaunchTypesKept, PTL DEF PermissionSpec

\* The permission handler, its readers and its requests keep their types
\* (permissionHandler.ts, query.ts, claudeRemote.ts).
THEOREM PermissionTypeCorrect == PermissionSpec => []PermissionTypeOK
<1>1. PermInv /\ LaunchTypes => PermissionTypeOK
  BY DEF PermInv, CallTypes, RequestTypes, LaunchTypes, ToolCall, AskedOnce, PermissionTypeOK
<1>2. QED
  BY <1>1, PermInvariance, PTL

\* Questions, answers, resets and second tries, in any order: a promise that waits for
\* the user is in pendingRequests, once, under an id of its own; and what is in it waits.
THEOREM WaitingIsPending == PermissionSpec => []NobodyIsForgotten
<1>1. PermInv => NobodyIsForgotten
  BY DEF PermInv
<1>2. QED
  BY <1>1, PermInvariance, PTL

\* The history in the agent state tells what became of each call, although a reset writes it
\* for every request it finds, and a call can outlive the launch that asked for it.
THEOREM HistoryStaysTrue == PermissionSpec => []HistoryIsTrue
<1>1. PermInv => HistoryIsTrue
  BY DEF PermInv
<1>2. QED
  BY <1>1, PermInvariance, PTL

---------------------------------------------------------------------------
(* SessionScanner. What a run has to read, until it has, is in what it is  *)
(* to read; and of the lines of a log those that are new come after those  *)
(* that went out.                                                          *)

Awaiters == {"create", "cleanup"}

\* The sync, while the command never fails.
SyncKinds ==
    /\ invalidated \in BOOLEAN /\ invalidatedDouble \in BOOLEAN /\ stopped \in BOOLEAN
    /\ pendings \subseteq Awaiters /\ unserved \subseteq pendings
    /\ attempt \in {"none", "running", "returned"}
    /\ phase \in {"opening", "open", "closing", "closed"}

\* Who awaits a sync has a run that will come back; the mark says whether it runs. The
\* scanner stops the sync when it closes.
SyncServes ==
    /\ unserved # {} => invalidatedDouble /\ attempt # "none"
    /\ stopped => phase = "closed" /\ pendings = {}
    /\ Sync!InvalidatedWhileSyncing

\* The sessions of the scanner, and of the command under way.
FollowedTypes ==
    /\ opened \subseteq Session
    /\ currentSessionId \in opened \union {NoSession}
    /\ finishedSessions \subseteq opened /\ pendingSessions \subseteq opened
    /\ watchers \subseteq watched /\ watched \subseteq opened
    /\ sessions \subseteq opened /\ todo \subseteq sessions
    /\ reading.session \in todo \union {NoSession}
    /\ reading # NothingRead => reading.session \in todo

\* Every line of the current session is processed.
CurrentRead == \A s \in Current : ToSet(file[s]) \subseteq processedMessageKeys

\* The run under way, which began after the last line was written, reads it.
RunReads ==
    /\ attempt # "none"
    /\ attempt = "returned" => CurrentRead
    /\ \A s \in Current :
          \/ ToSet(file[s]) \subseteq processedMessageKeys
          \/ s \in todo /\ (reading.session = s => reading.lines = file[s])

\* While the scanner closes, the end is read, or the caller of cleanup still waits for
\* the run that does.
ReadAtLast ==
    /\ phase = "closed" => CurrentRead
    /\ phase = "closing" =>
          \/ CurrentRead
          \/ "cleanup" \in pendings /\ ("cleanup" \in unserved \/ RunReads)

\* Where the lines are, which are numbered as they are written.
LineTypes ==
    /\ written \in 0..MaxLines
    /\ file \in [Session -> Seq(1..MaxLines)]
    /\ reading.lines \in Seq(1..MaxLines)
    /\ delivered \in Seq(1..MaxLines)

LinesWritten ==
    /\ \A s \in Session : ToSet(file[s]) \subseteq 1..written
    /\ ToSet(reading.lines) \subseteq 1..written
    /\ processedMessageKeys \subseteq 1..written
    /\ known \subseteq processedMessageKeys

\* The lines of q are in the order they were written in.
Rising(q) == \A i, j \in DOMAIN q : i < j => q[i] < q[j]

\* With a line of a log, L has every line that comes before it there.
AllBefore(L) ==
    \A s \in Session : \A b \in L, a \in ToSet(file[s]) :
        b \in ToSet(file[s]) /\ a < b => a \in L

\* Logs that share a line share what comes before it; what was read of a log is its
\* beginning.
LinesShared ==
    /\ \A s \in Session : Rising(file[s]) /\ AllBefore(ToSet(file[s]))
    /\ Rising(reading.lines) /\ AllBefore(ToSet(reading.lines))
    /\ AllBefore(processedMessageKeys)

\* OncePerLineInOrder, by the numbers of the lines.
OnceInOrder ==
    /\ \A i, j \in DOMAIN delivered : delivered[i] = delivered[j] => i = j
    /\ ToSet(delivered) \subseteq processedMessageKeys \ known
    /\ \A s \in Session : \A i, j \in DOMAIN delivered :
          i < j /\ delivered[i] \in ToSet(file[s]) /\ delivered[j] \in ToSet(file[s])
              => delivered[i] < delivered[j]

ScanTypes == SyncKinds /\ SyncServes /\ FollowedTypes
ScanLines == LineTypes /\ LinesWritten /\ LinesShared /\ OnceInOrder
ScanInv == ScanTypes /\ ScanLines /\ ReadAtLast

---------------------------------------------------------------------------
(* The sync and the sets.                                                  *)

\* The sync and the phases of the scanner keep their kinds.
LEMMA SyncKindsKept ==
    ASSUME SyncKinds, [ScannerNext]_scannerVars
    PROVE  SyncKinds'
<1> USE DEF SyncKinds, Awaiters
<1>1. ASSUME NEW s \in Session, WriteLine(s) \/ OpenSession(s) \/ ReadSessionLog(s)
      PROVE  SyncKinds'
  BY <1>1 DEF WriteLine, OpenSession, ReadSessionLog, syncVars
<1>2. ASSUME Sync!Invalidate, UNCHANGED phase
      PROVE  SyncKinds'
  BY <1>2 DEF Sync!Invalidate, Sync!Mark, Sync!Begin
<1>3. CASE \E s \in Session : OnNewSession(s) \/ WatcherFires(s)
  BY <1>2, <1>3 DEF OnNewSession, WatcherFires, Invalidated
<1>4. CASE Interval
  BY <1>2, <1>4 DEF Interval, Invalidated
<1>5. CASE Created \/ DeliverNew
  BY <1>5 DEF Created, DeliverNew, syncVars
<1>6. CASE EndOfCommand
  BY <1>6 DEF EndOfCommand, Sync!Return
<1>7. CASE SyncFinish
  BY <1>7 DEF SyncFinish, Sync!Finish, Sync!Begin, Sync!NotifyPendings
<1>8. CASE Cleanup
  BY <1>8 DEF Cleanup, Sync!InvalidateAndAwait, Sync!Mark, Sync!Begin
<1>9. CASE Stop
  BY <1>9 DEF Stop, Sync!Stop, Sync!NotifyPendings
<1>10. CASE UNCHANGED scannerVars
  BY <1>10 DEF scannerVars, syncVars
<1>11. QED
  BY <1>1, <1>3, <1>4, <1>5, <1>6, <1>7, <1>8, <1>9, <1>10 DEF ScannerNext, ClaudeWrites, Command

\* While the scanner's create or cleanup awaits the sync, the sync runs for it.
LEMMA SyncServesKept ==
    ASSUME SyncKinds, SyncServes, [ScannerNext]_scannerVars
    PROVE  SyncServes'
<1> USE DEF SyncKinds, SyncServes, Sync!InvalidatedWhileSyncing
<1>1. ASSUME NEW s \in Session, WriteLine(s) \/ OpenSession(s) \/ ReadSessionLog(s)
      PROVE  SyncServes'
  BY <1>1 DEF WriteLine, OpenSession, ReadSessionLog, syncVars
<1>2. ASSUME Sync!Invalidate, UNCHANGED phase
      PROVE  SyncServes'
  BY <1>2 DEF Sync!Invalidate, Sync!Mark, Sync!Begin
<1>3. CASE \E s \in Session : OnNewSession(s) \/ WatcherFires(s)
  BY <1>2, <1>3 DEF OnNewSession, WatcherFires, Invalidated
<1>4. CASE Interval
  BY <1>2, <1>4 DEF Interval, Invalidated
<1>5. CASE Created \/ DeliverNew
  BY <1>5 DEF Created, DeliverNew, syncVars
<1>6. CASE EndOfCommand
  BY <1>6 DEF EndOfCommand, Sync!Return
<1>7. CASE SyncFinish
  BY <1>7 DEF SyncFinish, Sync!Finish, Sync!Begin, Sync!NotifyPendings
<1>8. CASE Cleanup
  BY <1>8 DEF Cleanup, Sync!InvalidateAndAwait, Sync!Mark, Sync!Begin
<1>9. CASE Stop
  BY <1>9 DEF Stop, Sync!Stop, Sync!NotifyPendings
<1>10. CASE UNCHANGED scannerVars
  BY <1>10 DEF scannerVars, syncVars
<1>11. QED
  BY <1>1, <1>3, <1>4, <1>5, <1>6, <1>7, <1>8, <1>9, <1>10 DEF ScannerNext, ClaudeWrites, Command

\* A run that begins collects sessions that were opened.
LEMMA CollectsOpened ==
    ASSUME FollowedTypes, CollectIfBegun, opened' = opened,
           pendingSessions' \subseteq opened, currentSessionId' \in opened \union {NoSession},
           watchers' \subseteq opened
    PROVE  /\ sessions' \subseteq opened /\ todo' \subseteq sessions'
           /\ reading'.session \in todo' \union {NoSession}
           /\ reading' # NothingRead => reading'.session \in todo'
<1>1. CASE attempt # "running" /\ attempt' = "running"
  BY <1>1 DEF CollectIfBegun, ToSync, NothingRead
<1>2. CASE UNCHANGED runVars
  BY <1>2 DEF FollowedTypes, runVars
<1>3. QED
  BY <1>1, <1>2 DEF CollectIfBegun

\* What is followed, watched and read are sessions that were opened.
LEMMA FollowedTypesKept ==
    ASSUME SyncKinds, FollowedTypes, [ScannerNext]_scannerVars
    PROVE  FollowedTypes'
<1> USE DEF FollowedTypes, setVars
<1>1. ASSUME NEW s \in Session, WriteLine(s) \/ OpenSession(s) \/ ReadSessionLog(s)
      PROVE  FollowedTypes'
  <2>1. CASE WriteLine(s)
    BY <2>1 DEF WriteLine, runVars
  <2>2. CASE OpenSession(s)
    BY <2>2 DEF OpenSession, runVars
  <2>3. CASE ReadSessionLog(s)
    BY <2>3 DEF ReadSessionLog, fileVars
  <2>4. QED
    BY <1>1, <2>1, <2>2, <2>3
<1>2. CASE \E s \in Session : OnNewSession(s) \/ WatcherFires(s)
  <2>1. PICK s \in Session : OnNewSession(s) \/ WatcherFires(s)
    BY <1>2
  <2>2. /\ opened' = opened /\ CollectIfBegun
        /\ pendingSessions' \subseteq opened /\ currentSessionId' \in opened \union {NoSession}
        /\ UNCHANGED <<finishedSessions, watchers, watched, phase, pendings>>
    BY <2>1 DEF OnNewSession, WatcherFires, Invalidated, Current, Sync!Invalidate, fileVars
  <2>3. QED
    BY <2>2, CollectsOpened
<1>3. CASE Interval
  BY <1>3, CollectsOpened DEF Interval, Invalidated, fileVars, Sync!Invalidate
<1>4. CASE Created
  BY <1>4 DEF Created, fileVars, syncVars, runVars
<1>5. CASE DeliverNew
  BY <1>5 DEF DeliverNew, fileVars, syncVars, NothingRead
<1>6. CASE EndOfCommand
  BY <1>6 DEF EndOfCommand, fileVars, runVars, Sync!Return
<1>7. CASE SyncFinish
  BY <1>7, CollectsOpened DEF SyncFinish, fileVars
<1>8. CASE Cleanup
  <2>1. UNCHANGED <<opened, finishedSessions, pendingSessions, currentSessionId>> /\ CollectIfBegun
        /\ watchers' = {} /\ watched' \subseteq opened
    BY <1>8 DEF Cleanup, fileVars
  <2>2. /\ sessions' \subseteq opened /\ todo' \subseteq sessions'
        /\ reading'.session \in todo' \union {NoSession}
        /\ reading' # NothingRead => reading'.session \in todo'
    BY <2>1, CollectsOpened
  <2>3. QED
    BY <2>1, <2>2
<1>9. CASE Stop
  BY <1>9 DEF Stop, fileVars, runVars
<1>10. CASE UNCHANGED scannerVars
  BY <1>10 DEF scannerVars, fileVars, runVars, syncVars
<1>11. QED
  BY <1>1, <1>2, <1>3, <1>4, <1>5, <1>6, <1>7, <1>8, <1>9, <1>10 DEF ScannerNext, ClaudeWrites, Command

---------------------------------------------------------------------------
(* The lines.                                                              *)

\* An empty log has no lines.
LEMMA LinesOfNone == ToSet(<< >>) = {} /\ Rising(<< >>)
BY DEF ToSet, Rising

\* What a sequence over a set holds, at each of its places.
LEMMA PlacesOf ==
    ASSUME NEW S, NEW q \in Seq(S)
    PROVE  DOMAIN q = 1..Len(q) /\ Len(q) \in Nat /\ \A i \in DOMAIN q : q[i] \in S
OBVIOUS

\* And what two of them hold, one after the other.
LEMMA PlacesOfConcat ==
    ASSUME NEW S, NEW p \in Seq(S), NEW q \in Seq(S)
    PROVE  /\ p \o q \in Seq(S) /\ Len(p \o q) = Len(p) + Len(q)
           /\ \A i \in 1..Len(p) : (p \o q)[i] = p[i]
           /\ \A i \in 1..(Len(p) + Len(q)) : i > Len(p) => (p \o q)[i] = q[i - Len(p)]
OBVIOUS

\* A line that is written last is one more, and the log stays in order when it is a new one.
LEMMA LinesOfAppend ==
    ASSUME NEW q \in Seq(1..MaxLines), NEW n \in 1..MaxLines
    PROVE  /\ Append(q, n) \in Seq(1..MaxLines)
           /\ ToSet(Append(q, n)) = ToSet(q) \union {n}
           /\ Rising(q) /\ (\A a \in ToSet(q) : a < n) => Rising(Append(q, n))
<1>1. /\ Append(q, n) \in Seq(1..MaxLines) /\ DOMAIN Append(q, n) = (DOMAIN q) \union {Len(q) + 1}
      /\ Append(q, n)[Len(q) + 1] = n
      /\ \A i \in DOMAIN q : Append(q, n)[i] = q[i]
  OBVIOUS
<1>2. \A i \in DOMAIN q : ~(Len(q) + 1 < i)
  OBVIOUS
<1>3. ToSet(Append(q, n)) = ToSet(q) \union {n}
  BY <1>1 DEF ToSet
<1>4. ASSUME Rising(q), \A a \in ToSet(q) : a < n PROVE Rising(Append(q, n))
  <2>1. \A i \in DOMAIN q : q[i] < n
    BY <1>4 DEF ToSet
  <2>2. ~(Len(q) + 1 < Len(q) + 1)
    OBVIOUS
  <2>3. QED
    BY <1>1, <1>2, <1>4, <2>1, <2>2 DEF Rising
<1>5. QED
  BY <1>1, <1>3, <1>4

\* Claude writes a line to a log.
LEMMA WriteLineKeepsLines ==
    ASSUME ScanLines, NEW s \in Session, WriteLine(s)
    PROVE  ScanLines'
<1> USE DEF ScanLines
<1> DEFINE n == written + 1
<1>1. /\ n \in 1..MaxLines /\ written' = n /\ n \in 0..MaxLines
      /\ file' = [file EXCEPT ![s] = Append(file[s], n)]
      /\ UNCHANGED <<known, reading, processedMessageKeys, delivered>>
      /\ \A a \in 1..written : a < n /\ a # n /\ a \in 1..n
      /\ 1..written \subseteq 1..n /\ n \in 1..n
  BY SessionScannerAssumption DEF WriteLine, runVars, LineTypes
<1> HIDE DEF n
<1>2. file[s] \in Seq(1..MaxLines) /\ file \in [Session -> Seq(1..MaxLines)]
  BY DEF LineTypes
<1>3. /\ Append(file[s], n) \in Seq(1..MaxLines)
      /\ ToSet(Append(file[s], n)) = ToSet(file[s]) \union {n}
      /\ Rising(Append(file[s], n))
  <2>1. Rising(file[s]) /\ \A a \in ToSet(file[s]) : a < n
    BY <1>1 DEF LinesShared, LinesWritten
  <2>2. QED
    BY <1>1, <1>2, <2>1, LinesOfAppend
<1>4. file' \in [Session -> Seq(1..MaxLines)] /\ file'[s] = Append(file[s], n)
      /\ \A t \in Session : t # s => file'[t] = file[t]
  BY <1>1, <1>2, <1>3
<1>5. /\ \A t \in Session : ToSet(file[t]) \subseteq ToSet(file'[t])
      /\ \A t \in Session : ToSet(file'[t]) \subseteq ToSet(file[t]) \union {n}
      /\ \A t \in Session : n \in ToSet(file'[t]) => t = s
      /\ \A t \in Session : Rising(file'[t])
  BY <1>1, <1>3, <1>4 DEF LinesWritten, LinesShared
<1>6. LineTypes'
  BY <1>1, <1>4 DEF LineTypes
<1>7. LinesWritten'
  BY <1>1, <1>5 DEF LinesWritten
<1>8. ASSUME NEW L \in SUBSET (1..written), AllBefore(L)
      PROVE  \A t \in Session : \A b \in L, a \in ToSet(file'[t]) : b \in ToSet(file'[t]) /\ a < b => a \in L
  <2>1. ASSUME NEW t \in Session, NEW b \in L, NEW a \in ToSet(file'[t]), b \in ToSet(file'[t]), a < b
        PROVE  a \in L
    <3>1. b # n /\ a # n
      <4>1. b \in Nat /\ n \in Nat /\ b < n
        BY <1>1
      <4>2. QED
        BY <2>1, <4>1
    <3>2. b \in ToSet(file[t]) /\ a \in ToSet(file[t])
      BY <1>5, <3>1, <2>1
    <3>3. QED
      BY <1>8, <2>1, <3>2 DEF AllBefore
  <2>2. QED
    BY <2>1
<1>9. \A L \in SUBSET (1..written) :
        AllBefore(L) => \A t \in Session : \A b \in L, a \in ToSet(file'[t]) :
                           b \in ToSet(file'[t]) /\ a < b => a \in L
  BY <1>8
<1>10. \A t \in Session : AllBefore(ToSet(file[t]))'
  <2>1. ASSUME NEW t \in Session,
               NEW u \in Session, NEW b \in ToSet(file'[t]), NEW a \in ToSet(file'[u]),
               b \in ToSet(file'[u]), a < b
        PROVE  a \in ToSet(file'[t])
    <3>1. CASE b = n
      BY <1>5, <2>1, <3>1
    <3>2. CASE b # n
      <4>1. b \in ToSet(file[t]) /\ ToSet(file[t]) \in SUBSET (1..written) /\ AllBefore(ToSet(file[t]))
        BY <1>5, <3>2 DEF LinesWritten, LinesShared
      <4>2. a \in ToSet(file[t])
        BY <4>1, <1>9, <2>1
      <4>3. QED
        BY <4>2, <1>5
    <3>3. QED
      BY <3>1, <3>2
  <2>2. QED
    BY <2>1 DEF AllBefore, ToSet
<1>11. AllBefore(ToSet(reading.lines))' /\ AllBefore(processedMessageKeys)'
  <2>1. /\ ToSet(reading.lines) \in SUBSET (1..written) /\ AllBefore(ToSet(reading.lines))
        /\ processedMessageKeys \in SUBSET (1..written) /\ AllBefore(processedMessageKeys)
    BY DEF LinesWritten, LinesShared
  <2> DEFINE Before(L) == \A t \in Session : \A b \in L, a \in ToSet(file'[t]) :
                             b \in ToSet(file'[t]) /\ a < b => a \in L
  <2>2. Before(ToSet(reading.lines)) /\ Before(processedMessageKeys)
    BY <2>1, <1>9
  <2>3. reading' = reading /\ processedMessageKeys' = processedMessageKeys
    BY <1>1
  <2>4. AllBefore(processedMessageKeys)' <=> Before(processedMessageKeys')
    BY DEF AllBefore, ToSet
  <2>5. AllBefore(ToSet(reading.lines))' <=> Before(ToSet(reading'.lines))
    BY DEF AllBefore, ToSet
  <2> HIDE DEF Before
  <2>6. QED
    BY <2>2, <2>3, <2>4, <2>5
<1>12. LinesShared'
  <2>1. Rising(reading.lines)' /\ \A t \in Session : Rising(file[t])'
    BY <1>1, <1>5 DEF LinesShared, Rising
  <2>2. QED
    BY <2>1, <1>10, <1>11 DEF LinesShared
<1>13. OnceInOrder'
  <2>1. \A i \in DOMAIN delivered : delivered[i] # n
    BY <1>1 DEF OnceInOrder, LinesWritten, ToSet
  <2>2. \A t \in Session, i \in DOMAIN delivered :
          delivered[i] \in ToSet(file'[t]) => delivered[i] \in ToSet(file[t])
    BY <2>1, <1>5
  <2>3. delivered' = delivered /\ known' = known /\ processedMessageKeys' = processedMessageKeys
    BY <1>1
  <2>4. QED
    BY <2>2, <2>3 DEF OnceInOrder, ToSet
<1>14. QED
  BY <1>6, <1>7, <1>12, <1>13

\* Claude opens a session, whose log may begin with the lines of another.
LEMMA OpenSessionKeepsLines ==
    ASSUME ScanLines, opened \subseteq Session, NEW s \in Session, OpenSession(s)
    PROVE  ScanLines'
<1> USE DEF ScanLines
<1>1. PICK history \in {<< >>} \union {file[r] : r \in opened} : file' = [file EXCEPT ![s] = history]
  BY DEF OpenSession
<1>2. UNCHANGED <<known, written, reading, processedMessageKeys, delivered>>
  BY DEF OpenSession, runVars
<1>3. file \in [Session -> Seq(1..MaxLines)] /\ history \in Seq(1..MaxLines)
  <2>1. file \in [Session -> Seq(1..MaxLines)] /\ << >> \in Seq(1..MaxLines)
    BY DEF LineTypes
  <2>2. history = << >> \/ \E r \in Session : history = file[r]
    OBVIOUS
  <2>3. QED
    BY <2>1, <2>2
<1>4. ToSet(history) = {} \/ \E r \in Session : ToSet(history) = ToSet(file[r])
  BY LinesOfNone
<1>5. Rising(history)
  BY LinesOfNone DEF LinesShared
<1>6. /\ file' \in [Session -> Seq(1..MaxLines)]
      /\ \A t \in Session : Rising(file'[t])
      /\ \A t \in Session : ToSet(file'[t]) = {} \/ \E r \in Session : ToSet(file'[t]) = ToSet(file[r])
  BY <1>1, <1>3, <1>4, <1>5 DEF LinesShared
<1>7. LineTypes'
  BY <1>2, <1>6 DEF LineTypes
<1>8. LinesWritten'
  <2>1. \A t \in Session : ToSet(file'[t]) \subseteq 1..written
    BY <1>6 DEF LinesWritten
  <2>2. QED
    BY <1>2, <2>1 DEF LinesWritten, ToSet
<1>9. \A L : AllBefore(L) => \A t \in Session : \A b \in L, a \in ToSet(file'[t]) :
                                b \in ToSet(file'[t]) /\ a < b => a \in L
  BY <1>6 DEF AllBefore
<1>10. \A t \in Session : AllBefore(ToSet(file'[t]))
  BY <1>6 DEF LinesShared, AllBefore
<1>11. LinesShared'
  <2>1. AllBefore(ToSet(reading'.lines)) /\ AllBefore(processedMessageKeys') /\ Rising(reading'.lines)
    BY <1>2 DEF LinesShared
  <2>2. QED
    BY <2>1, <1>6, <1>9, <1>10 DEF LinesShared, AllBefore, ToSet, Rising
<1>12. OnceInOrder'
  <2>1. ASSUME NEW t \in Session, NEW i \in DOMAIN delivered, NEW j \in DOMAIN delivered, i < j,
               delivered[i] \in ToSet(file'[t]), delivered[j] \in ToSet(file'[t])
        PROVE  delivered[i] < delivered[j]
    <3>1. PICK r \in Session : ToSet(file'[t]) = ToSet(file[r])
      BY <1>6, <2>1
    <3>2. QED
      BY <2>1, <3>1 DEF OnceInOrder
  <2>2. /\ \A i, j \in DOMAIN delivered : delivered[i] = delivered[j] => i = j
        /\ ToSet(delivered) \subseteq processedMessageKeys \ known
    BY DEF OnceInOrder
  <2>3. QED
    BY <1>2, <2>1, <2>2 DEF OnceInOrder, ToSet
<1>13. QED
  BY <1>7, <1>8, <1>11, <1>12

\* A step of the scanner itself: Claude writes nothing.
LEMMA ReadSessionLogKeepsLines ==
    ASSUME ScanLines, NEW s \in Session, ReadSessionLog(s)
    PROVE  ScanLines'
<1> USE DEF ScanLines
<1>1. /\ reading'.lines = file[s]
      /\ UNCHANGED <<file, known, written, processedMessageKeys, delivered>>
  BY DEF ReadSessionLog, fileVars
<1>2. LineTypes' /\ LinesWritten'
  BY <1>1 DEF LineTypes, LinesWritten, ToSet
<1>3. LinesShared'
  <2>1. AllBefore(ToSet(file[s])) /\ Rising(file[s])
    BY DEF LinesShared
  <2>2. AllBefore(ToSet(reading.lines))' <=> AllBefore(ToSet(file[s]))
    BY <1>1 DEF AllBefore, ToSet
  <2>3. Rising(reading.lines)' <=> Rising(file[s])
    BY <1>1 DEF Rising
  <2>4. /\ \A t \in Session : Rising(file[t])' /\ AllBefore(ToSet(file[t]))'
        /\ AllBefore(processedMessageKeys)'
    BY <1>1 DEF LinesShared, AllBefore, ToSet, Rising
  <2>5. QED
    BY <2>1, <2>2, <2>3, <2>4 DEF LinesShared
<1>4. OnceInOrder'
  BY <1>1 DEF OnceInOrder, ToSet
<1>5. QED
  BY <1>2, <1>3, <1>4

\* Nothing that lines are in moves, or what was read is put away.
LEMMA OthersKeepLines ==
    ASSUME ScanLines, UNCHANGED <<file, known, written, processedMessageKeys, delivered>>,
           reading' \in {reading, NothingRead}
    PROVE  ScanLines'
<1> USE DEF ScanLines
<1>1. reading'.lines \in {reading.lines, << >>}
  BY DEF NothingRead
<1>2. ToSet(reading'.lines) \in {ToSet(reading.lines), {}} /\ Rising(reading'.lines)
  BY <1>1, LinesOfNone DEF LinesShared
<1>3. << >> \in Seq(1..MaxLines)
  OBVIOUS
<1>4. LineTypes'
  BY <1>1, <1>3 DEF LineTypes
<1>5. LinesWritten'
  BY <1>2 DEF LinesWritten, ToSet
<1>6. LinesShared'
  <2>1. AllBefore(ToSet(reading'.lines))
    BY <1>2 DEF LinesShared, AllBefore
  <2>2. AllBefore(ToSet(reading.lines))' <=> AllBefore(ToSet(reading'.lines))
    BY DEF AllBefore, ToSet
  <2>3. Rising(reading.lines)' <=> Rising(reading'.lines)
    BY DEF Rising
  <2>4. /\ \A t \in Session : Rising(file[t])' /\ AllBefore(ToSet(file[t]))'
        /\ AllBefore(processedMessageKeys)'
    BY DEF LinesShared, AllBefore, ToSet, Rising
  <2>5. QED
    BY <1>2, <2>1, <2>2, <2>3, <2>4 DEF LinesShared
<1>7. OnceInOrder'
  BY DEF OnceInOrder, ToSet
<1>8. QED
  BY <1>4, <1>5, <1>6, <1>7

\* The new lines of a log that was read go out: none of them was handed on before.
LEMMA DeliverNewKeepsLines ==
    ASSUME ScanLines, DeliverNew
    PROVE  ScanLines'
<1> USE DEF ScanLines
<1> DEFINE q == reading.lines
           new == {n \in DOMAIN q : IsNew(q[n])}
<1>1. PICK at \in NewIn(q) : delivered' = delivered \o [i \in DOMAIN at |-> q[at[i]]]
  BY DEF DeliverNew
<1>2. /\ processedMessageKeys' = processedMessageKeys \union ToSet(q)
      /\ reading' = NothingRead /\ UNCHANGED <<file, known, written>>
  BY DEF DeliverNew, fileVars
<1>3. q \in Seq(1..MaxLines) /\ delivered \in Seq(1..MaxLines)
  BY DEF LineTypes
<1>4. at \in [1..Cardinality(new) -> new] /\ \A i, j \in DOMAIN at : i < j => at[i] < at[j]
  BY <1>1 DEF NewIn
<1> DEFINE c == Cardinality(new)
           d == [i \in DOMAIN at |-> q[at[i]]]
<1>5. c \in Nat
  <2>1. IsFiniteSet(new)
    <3>1. IsFiniteSet(DOMAIN q)
      BY <1>3, FS_Interval
    <3>2. QED
      BY <3>1, FS_Subset
  <2>2. QED
    BY <2>1, FS_CardinalityType
<1>6. /\ DOMAIN at = 1..c /\ \A i \in 1..c : at[i] \in DOMAIN q /\ q[at[i]] \notin processedMessageKeys
  BY <1>4 DEF IsNew
<1>7. \A i, j \in 1..c : i < j => q[at[i]] < q[at[j]]
  BY <1>4, <1>6 DEF LinesShared, Rising
<1>20. ASSUME NEW k \in DOMAIN q
       PROVE  q[k] \in ToSet(q) /\ q[k] \in 1..MaxLines /\ q[k] \in Nat
  <2>1. q[k] \in ToSet(q)
    BY DEF ToSet
  <2> HIDE DEF q
  <2>2. q[k] \in 1..MaxLines
    BY <1>3, PlacesOf
  <2>3. QED
    BY <2>1, <2>2
<1>8. d \in Seq(1..MaxLines) /\ Len(d) = c
  <2>1. \A i \in 1..c : q[at[i]] \in 1..MaxLines
    BY <1>6, <1>20
  <2> HIDE DEF q, c
  <2>2. d = [i \in 1..c |-> q[at[i]]]
    BY <1>6
  <2> HIDE DEF d
  <2>3. QED
    BY <1>5, <2>1, <2>2
<1> DEFINE L == Len(delivered)
<1>9. /\ delivered' \in Seq(1..MaxLines) /\ DOMAIN delivered' = 1..(L + c) /\ L \in Nat
      /\ DOMAIN delivered = 1..L
      /\ \A i \in 1..L : delivered'[i] = delivered[i]
      /\ \A i \in 1..(L + c) : i > L => i - L \in 1..c /\ delivered'[i] = q[at[i - L]]
  <2>1. delivered' = delivered \o d
    BY <1>1
  <2>2. \A i \in 1..c : d[i] = q[at[i]]
    BY <1>6
  <2> HIDE DEF d, c
  <2>7. d \in Seq(1..MaxLines) /\ Len(d) = c /\ delivered \in Seq(1..MaxLines)
    BY <1>3, <1>8
  <2>3. /\ delivered' \in Seq(1..MaxLines) /\ Len(delivered') = L + c /\ L \in Nat
        /\ \A i \in 1..L : delivered'[i] = delivered[i]
        /\ \A i \in 1..(L + c) : i > L => delivered'[i] = d[i - L]
    <3>1. L \in Nat
      BY <2>7, PlacesOf
    <3>2. QED
      BY <2>1, <2>7, <3>1, PlacesOfConcat
  <2>4. \A i \in 1..(L + c) : i > L => i - L \in 1..c
    BY <2>3, <1>5
  <2>5. DOMAIN delivered' = 1..(L + c) /\ DOMAIN delivered = 1..L
    BY <2>3, <1>3
  <2>6. QED
    BY <2>2, <2>3, <2>4, <2>5
<1> HIDE DEF d, c, L, q, new
<1>10. \A i \in 1..c : q[at[i]] \in ToSet(q) /\ q[at[i]] \in Nat
  BY <1>6, <1>20
<1>11. \A i \in 1..L : delivered[i] \in processedMessageKeys /\ delivered[i] \in Nat
  <2>1. \A i \in 1..L : delivered[i] \in processedMessageKeys
    BY <1>9 DEF OnceInOrder, ToSet
  <2>2. \A i \in 1..L : delivered[i] \in 1..MaxLines
    BY <1>9, <1>3, PlacesOf
  <2>3. QED
    BY <2>1, <2>2
<1>12. LineTypes'
  <2>1. << >> \in Seq(1..MaxLines)
    OBVIOUS
  <2>2. QED
    BY <1>2, <1>9, <2>1 DEF LineTypes, NothingRead
<1>13. ToSet(q) \subseteq 1..written
  BY DEF LinesWritten, q
<1>14. LinesWritten'
  <2>1. /\ \A t \in Session : ToSet(file[t]) \subseteq 1..written
        /\ processedMessageKeys' \subseteq 1..written /\ known \subseteq processedMessageKeys'
    BY <1>2, <1>13 DEF LinesWritten
  <2>2. ToSet(reading'.lines) \subseteq 1..written
    BY <1>2, LinesOfNone DEF NothingRead
  <2>3. QED
    BY <1>2, <2>1, <2>2 DEF LinesWritten, ToSet
<1>15. AllBefore(processedMessageKeys)'
  <2>1. AllBefore(processedMessageKeys) /\ AllBefore(ToSet(q))
    BY DEF LinesShared, q
  <2>2. AllBefore(processedMessageKeys')
    BY <1>2, <2>1 DEF AllBefore
  <2>3. QED
    BY <1>2, <2>2 DEF AllBefore, ToSet
<1>16. LinesShared'
  <2>1. reading'.lines = << >>
    BY <1>2 DEF NothingRead
  <2>2. AllBefore(ToSet(reading.lines))' /\ Rising(reading.lines)'
    BY <2>1 DEF AllBefore, ToSet, Rising
  <2>3. \A t \in Session : Rising(file[t])' /\ AllBefore(ToSet(file[t]))'
    BY <1>2 DEF LinesShared, AllBefore, ToSet, Rising
  <2>4. QED
    BY <1>15, <2>2, <2>3 DEF LinesShared
<1>17. \A i \in 1..(L + c) : i \in Nat /\ (i \in 1..L \/ i > L)
  BY <1>5, <1>9
<1>18. OnceInOrder'
  <2>1. ASSUME NEW i \in DOMAIN delivered', NEW j \in DOMAIN delivered', i < j
        PROVE  /\ delivered'[i] # delivered'[j]
               /\ \A s \in Session : delivered'[i] \in ToSet(file[s]) /\ delivered'[j] \in ToSet(file[s])
                     => delivered'[i] < delivered'[j]
    <3>1. CASE j \in 1..L
      <4>1. i \in 1..L
        BY <1>5, <1>9, <2>1, <3>1
      <4>2. QED
        BY <1>9, <2>1, <3>1, <4>1 DEF OnceInOrder
    <3>2. CASE j > L /\ i \in 1..L
      <4>1. /\ delivered'[i] \in processedMessageKeys /\ delivered'[j] \notin processedMessageKeys
            /\ delivered'[i] \in Nat /\ delivered'[j] \in Nat
        BY <1>6, <1>9, <1>10, <1>11, <3>2
      <4>2. AllBefore(processedMessageKeys)
        BY DEF LinesShared
      <4>3. \A s \in Session : delivered'[i] \in ToSet(file[s]) /\ delivered'[j] \in ToSet(file[s])
                     => ~(delivered'[j] < delivered'[i])
        BY <4>1, <4>2 DEF AllBefore
      <4>4. delivered'[i] # delivered'[j]
        BY <4>1
      <4>5. QED
        BY <4>1, <4>3, <4>4
    <3>3. CASE j > L /\ i > L
      <4>1. i - L < j - L /\ i - L \in 1..c /\ j - L \in 1..c
        BY <1>5, <1>9, <2>1, <3>3
      <4>2. delivered'[i] < delivered'[j] /\ delivered'[i] \in Nat
        BY <1>7, <1>9, <1>10, <3>3, <4>1
      <4>3. delivered'[i] # delivered'[j]
        <5>1. \A a \in Nat : ~(a < a)
          OBVIOUS
        <5>2. QED
          BY <4>2, <5>1
      <4>4. QED
        BY <4>2, <4>3
    <3>4. QED
      BY <1>9, <1>17, <3>1, <3>2, <3>3
  <2>2. \A i, j \in DOMAIN delivered' : delivered'[i] = delivered'[j] => i = j
    <3>1. \A i, j \in DOMAIN delivered' : i < j \/ j < i \/ i = j
      BY <1>9, <1>17
    <3>2. QED
      BY <2>1, <3>1
  <2>3. ToSet(delivered') \subseteq processedMessageKeys' \ known'
    <3>1. ASSUME NEW i \in DOMAIN delivered'
          PROVE  delivered'[i] \in processedMessageKeys' /\ delivered'[i] \notin known'
      <4>1. CASE i \in 1..L
        BY <1>2, <1>9, <4>1 DEF OnceInOrder, ToSet
      <4>2. CASE i > L
        BY <1>2, <1>6, <1>9, <1>10, <4>2 DEF LinesWritten
      <4>3. QED
        BY <1>9, <1>17, <4>1, <4>2
    <3>2. QED
      BY <3>1 DEF ToSet
  <2>4. \A s \in Session : \A i, j \in DOMAIN delivered' :
          i < j /\ delivered'[i] \in ToSet(file'[s]) /\ delivered'[j] \in ToSet(file'[s])
              => delivered'[i] < delivered'[j]
    BY <1>2, <2>1
  <2>5. QED
    BY <2>2, <2>3, <2>4 DEF OnceInOrder, ToSet
<1>19. QED
  BY <1>12, <1>14, <1>16, <1>18

---------------------------------------------------------------------------
(* The last run.                                                           *)

\* At the start no log is read, and the lines of the resumed session are known.
LEMMA ScanInit == ScannerInit => ScanInv
<1> SUFFICES ASSUME ScannerInit PROVE ScanInv
  OBVIOUS
<1>1. ScanTypes
  BY DEF ScannerInit, ScanTypes, SyncKinds, SyncServes, FollowedTypes, Awaiters, Current, NothingRead,
         Sync!InvalidatedWhileSyncing
<1>2. 1 \in 1..MaxLines /\ <<1>> \in Seq(1..MaxLines) /\ << >> \in Seq(1..MaxLines)
  BY SessionScannerAssumption
<1>3. ToSet(<<1>>) = {1} /\ Rising(<<1>>)
  BY DEF ToSet, Rising
<1>4. written \in 0..MaxLines /\ (currentSessionId \in Session => written = 1)
  BY SessionScannerAssumption DEF ScannerInit
<1>5. file \in [Session -> Seq(1..MaxLines)] /\ delivered = << >> /\ reading = NothingRead
      /\ NothingRead.lines = << >>
      /\ \A s \in Session : file[s] = IF s = currentSessionId THEN <<1>> ELSE << >>
  BY <1>2 DEF ScannerInit, NothingRead
<1>6. processedMessageKeys = known /\ known \subseteq {1} /\ (currentSessionId \in Session <=> 1 \in known)
  BY <1>3, <1>5, SessionScannerAssumption DEF ScannerInit, KnownAtStart
<1>7. \A s \in Session : ToSet(file[s]) = {} \/ (ToSet(file[s]) = {1} /\ currentSessionId = s)
  BY <1>3, <1>5, LinesOfNone
<1>8. LineTypes
  BY <1>2, <1>4, <1>5 DEF LineTypes
<1>9. LinesWritten
  <2>1. currentSessionId \in Session \union {NoSession} /\ (1 \in known => 1 \in 1..written)
    BY <1>4, <1>6 DEF ScannerInit
  <2>2. \A s \in Session : currentSessionId = s => 1 \in 1..written
    BY <1>4
  <2>3. QED
    BY <1>5, <1>6, <1>7, <2>1, <2>2, LinesOfNone DEF LinesWritten
<1>10. LinesShared
  <2>1. \A s \in Session : Rising(file[s])
    BY <1>3, <1>5, LinesOfNone
  <2>2. ~(1 < 1)
    OBVIOUS
  <2>3. \A L \in SUBSET {1} : AllBefore(L)
    BY <1>7, <2>2 DEF AllBefore
  <2>4. QED
    BY <1>5, <1>6, <1>7, <2>1, <2>3, LinesOfNone DEF LinesShared
<1>11. OnceInOrder
  BY <1>5, <1>6, LinesOfNone DEF OnceInOrder
<1>12. ReadAtLast
  BY DEF ScannerInit, ReadAtLast
<1>13. QED
  BY <1>1, <1>8, <1>9, <1>10, <1>11, <1>12 DEF ScanInv, ScanLines

\* A sync that is asked for again goes on with the run, or begins one that collects the
\* current session.
LEMMA InvalidatedReads ==
    ASSUME ScanTypes, ReadAtLast, Sync!Invalidate, CollectIfBegun,
           UNCHANGED <<phase, currentSessionId, file, processedMessageKeys>>
    PROVE  ReadAtLast'
<1> USE DEF ScanTypes
<1>1. CurrentRead' = CurrentRead
  BY DEF CurrentRead, Current, ToSet
<1>2. UNCHANGED <<attempt, unserved, pendings>> => UNCHANGED runVars /\ RunReads' = RunReads
  BY DEF CollectIfBegun, RunReads, CurrentRead, Current, ToSet, runVars
<1>3. CASE phase = "closing"
  <2>1. ~stopped
    BY <1>3 DEF SyncServes
  <2>2. CASE invalidated
    <3>1. UNCHANGED <<attempt, unserved, pendings>>
      BY <2>1, <2>2 DEF Sync!Invalidate, Sync!Mark, SyncKinds
    <3>2. QED
      BY <1>1, <1>2, <1>3, <3>1 DEF ReadAtLast
  <2>3. CASE ~invalidated
    <3>1. attempt = "none" /\ unserved = {}
      BY <2>1, <2>3 DEF SyncServes, SyncKinds, Sync!InvalidatedWhileSyncing
    <3>2. QED
      BY <1>1, <1>3, <3>1 DEF ReadAtLast, RunReads
  <2>4. QED
    BY <2>2, <2>3 DEF SyncKinds
<1>4. CASE phase # "closing"
  BY <1>1, <1>4 DEF ReadAtLast
<1>5. QED
  BY <1>3, <1>4

\* A run that begins after the last line was written reads the current session.
LEMMA BegunReads ==
    ASSUME CollectIfBegun, attempt # "running", attempt' = "running",
           UNCHANGED <<currentSessionId, file, processedMessageKeys>>
    PROVE  RunReads'
BY SessionScannerAssumption DEF CollectIfBegun, ToSync, Current, NothingRead, RunReads

\* The run that cleanup waits for reads the current session to its end.
LEMMA ReadAtLastKept ==
    ASSUME ScanInv, [ScannerNext]_scannerVars
    PROVE  ReadAtLast'
<1> USE DEF ScanInv, ScanTypes
<1>1. ASSUME NEW s \in Session, WriteLine(s) \/ OpenSession(s)
      PROVE  ReadAtLast'
  BY <1>1 DEF WriteLine, OpenSession, ClaudeRuns, ReadAtLast
<1>2. ASSUME NEW s \in Session, OnNewSession(s)
      PROVE  ReadAtLast'
  BY <1>2 DEF OnNewSession, ReadAtLast
<1>3. CASE Interval \/ \E s \in Session : WatcherFires(s)
  BY <1>3, InvalidatedReads DEF Interval, WatcherFires, Invalidated, fileVars, setVars
<1>4. CASE Created
  BY <1>4 DEF Created, ReadAtLast
<1>5. ASSUME NEW s \in Session, ReadSessionLog(s)
      PROVE  ReadAtLast'
  <2>1. /\ reading = NothingRead /\ s \in todo /\ reading' = [session |-> s, lines |-> file[s]]
        /\ UNCHANGED <<phase, file, currentSessionId, processedMessageKeys, todo, attempt, pendings, unserved>>
    BY <1>5 DEF ReadSessionLog, fileVars, setVars, syncVars
  <2>2. CurrentRead' = CurrentRead
    BY <2>1 DEF CurrentRead, Current, ToSet
  <2>3. reading'.session = s /\ reading'.lines = file[s]
    BY <2>1
  <2>4. RunReads => RunReads'
    BY <2>1, <2>2, <2>3 DEF RunReads, Current, ToSet
  <2>5. QED
    BY <2>1, <2>2, <2>4 DEF ReadAtLast
<1>6. CASE DeliverNew
  <2>1. /\ reading # NothingRead
        /\ processedMessageKeys' = processedMessageKeys \union ToSet(reading.lines)
        /\ todo' = todo \ {reading.session} /\ reading' = NothingRead
        /\ UNCHANGED <<phase, file, currentSessionId, attempt, pendings, unserved>>
    BY <1>6 DEF DeliverNew, fileVars, setVars, syncVars
  <2>2. CurrentRead => CurrentRead'
    BY <2>1 DEF CurrentRead, Current, ToSet
  <2>3. NoSession \notin Current /\ reading'.session = NoSession
    BY <2>1 DEF Current, NothingRead
  <2>4. RunReads => RunReads'
    <3>1. ASSUME RunReads, NEW s \in Current
          PROVE  \/ ToSet(file[s]) \subseteq processedMessageKeys'
                 \/ s \in todo' /\ reading'.session # s
      <4>1. CASE ToSet(file[s]) \subseteq processedMessageKeys
        BY <2>1, <4>1
      <4>2. CASE s \in todo /\ (reading.session = s => reading.lines = file[s])
        BY <2>1, <2>3, <4>2
      <4>3. QED
        BY <3>1, <4>1, <4>2 DEF RunReads
    <3>2. Current' = Current /\ \A s : ToSet(file[s])' = ToSet(file[s])
      BY <2>1 DEF Current, ToSet
    <3>3. QED
      BY <2>1, <2>2, <3>1, <3>2 DEF RunReads
  <2>5. QED
    BY <2>1, <2>2, <2>4 DEF ReadAtLast
<1>7. CASE EndOfCommand
  <2>1. /\ todo = {} /\ attempt' = "returned"
        /\ UNCHANGED <<phase, file, currentSessionId, processedMessageKeys, todo, reading, pendings, unserved>>
    BY <1>7 DEF EndOfCommand, fileVars, runVars, Sync!Return
  <2>2. CurrentRead' = CurrentRead
    BY <2>1 DEF CurrentRead, Current, ToSet
  <2>3. RunReads => CurrentRead /\ RunReads'
    BY <2>1, <2>2 DEF RunReads, CurrentRead, Current, ToSet
  <2>4. QED
    BY <2>1, <2>2, <2>3 DEF ReadAtLast
<1>8. CASE SyncFinish
  <2>1. UNCHANGED <<phase, file, currentSessionId, processedMessageKeys>> /\ CollectIfBegun
        /\ attempt = "returned"
    BY <1>8 DEF SyncFinish, fileVars, setVars, Sync!Finish
  <2>2. CurrentRead' = CurrentRead
    BY <2>1 DEF CurrentRead, Current, ToSet
  <2>3. CASE phase = "closing"
    <3>1. ~stopped
      BY <2>3 DEF SyncServes
    <3>2. CASE invalidatedDouble
      <4>1. attempt' = "running" /\ pendings' = pendings
        BY <1>8, <3>1, <3>2 DEF SyncFinish, Sync!Finish, Sync!Begin
      <4>2. RunReads'
        BY <2>1, <4>1, BegunReads
      <4>3. QED
        BY <2>1, <2>2, <2>3, <4>1, <4>2 DEF ReadAtLast
    <3>3. CASE ~invalidatedDouble
      <4>1. CurrentRead
        BY <2>1, <2>3, <3>3 DEF ReadAtLast, RunReads, SyncServes
      <4>2. QED
        BY <2>1, <2>2, <2>3, <4>1 DEF ReadAtLast
    <3>4. QED
      BY <3>2, <3>3 DEF SyncKinds
  <2>4. CASE phase # "closing"
    BY <2>1, <2>2, <2>4 DEF ReadAtLast
  <2>5. QED
    BY <2>3, <2>4
<1>9. CASE Cleanup
  <2>1. /\ phase' = "closing" /\ Sync!InvalidateAndAwait("cleanup") /\ CollectIfBegun
        /\ UNCHANGED <<file, currentSessionId, processedMessageKeys>>
    BY <1>9 DEF Cleanup, fileVars
  <2>2. "cleanup" \in pendings' /\ "cleanup" \notin pendings /\ ~stopped
    BY <2>1 DEF Sync!InvalidateAndAwait
  <2>3. CASE invalidated
    BY <2>1, <2>2, <2>3 DEF Sync!InvalidateAndAwait, Sync!Mark, ReadAtLast
  <2>4. CASE ~invalidated
    <3>1. attempt # "running" /\ attempt' = "running"
      BY <2>1, <2>2, <2>4 DEF Sync!InvalidateAndAwait, Sync!Mark, Sync!Begin, SyncServes, SyncKinds,
                              Sync!InvalidatedWhileSyncing
    <3>2. RunReads'
      BY <2>1, <3>1, BegunReads
    <3>3. QED
      BY <2>1, <2>2, <3>2 DEF ReadAtLast
  <2>5. QED
    BY <2>3, <2>4 DEF SyncKinds
<1>10. CASE Stop
  <2>1. CurrentRead /\ phase' = "closed" /\ UNCHANGED <<file, currentSessionId, processedMessageKeys>>
    BY <1>10 DEF Stop, ReadAtLast, fileVars, setVars
  <2>2. QED
    BY <2>1 DEF ReadAtLast, CurrentRead, Current, ToSet
<1>11. CASE UNCHANGED scannerVars
  BY <1>11 DEF scannerVars, fileVars, setVars, runVars, syncVars, ReadAtLast, CurrentRead, Current, RunReads, ToSet
<1>12. QED
  BY <1>1, <1>2, <1>3, <1>4, <1>5, <1>6, <1>7, <1>8, <1>9, <1>10, <1>11 DEF ScannerNext, ClaudeWrites, Command

\* Lines go out once, in the order of their log.
LEMMA ScanLinesKept ==
    ASSUME ScanInv, [ScannerNext]_scannerVars
    PROVE  ScanLines'
<1> USE DEF ScanInv, ScanTypes
<1>1. ASSUME NEW s \in Session, WriteLine(s) \/ OpenSession(s) \/ ReadSessionLog(s)
      PROVE  ScanLines'
  BY <1>1, WriteLineKeepsLines, OpenSessionKeepsLines, ReadSessionLogKeepsLines DEF FollowedTypes
<1>2. CASE DeliverNew
  BY <1>2, DeliverNewKeepsLines
<1>3. ASSUME CollectIfBegun
      PROVE  reading' \in {reading, NothingRead}
  BY <1>3 DEF CollectIfBegun, runVars
<1>4. CASE (\E s \in Session : OnNewSession(s) \/ WatcherFires(s)) \/ Interval \/ SyncFinish \/ Cleanup
  BY <1>3, <1>4, OthersKeepLines
     DEF OnNewSession, WatcherFires, Interval, Invalidated, SyncFinish, Cleanup, fileVars
<1>5. CASE Created \/ EndOfCommand \/ Stop \/ UNCHANGED scannerVars
  BY <1>5, OthersKeepLines DEF Created, EndOfCommand, Stop, scannerVars, fileVars, runVars
<1>6. QED
  BY <1>1, <1>2, <1>4, <1>5 DEF ScannerNext, ClaudeWrites, Command

\* The invariant of the scanner.
LEMMA ScanInvariance == ScannerSpec => []ScanInv
<1>1. ScanInv /\ [ScannerNext]_scannerVars => ScanInv'
  BY SyncKindsKept, SyncServesKept, FollowedTypesKept, ScanLinesKept, ReadAtLastKept DEF ScanInv, ScanTypes
<1>2. QED
  BY ScanInit, <1>1, PTL DEF ScannerSpec

\* The scanner, its sync and the logs it reads keep their types (sessionScanner.ts,
\* sync.ts).
THEOREM ScannerTypeCorrect == ScannerSpec => []ScannerTypeOK
<1>1. ScanInv => ScannerTypeOK
  BY DEF ScanInv, ScanTypes, ScanLines, SyncKinds, FollowedTypes, LineTypes, LinesWritten, Awaiters,
         ScannerTypeOK, Sync!SyncTypeOK
<1>2. QED
  BY <1>1, ScanInvariance, PTL

\* Although logs share lines, are read while they grow, and are read over and over: no
\* line is handed on twice, none that the resumed session had is, and those of a log go
\* out in its order.
THEOREM LinesGoOutOnce == ScannerSpec => []OncePerLineInOrder
<1>1. ASSUME ScanLines
      PROVE  OncePerLineInOrder
  <2>1. ASSUME NEW s \in Session, NEW i \in DOMAIN delivered, NEW j \in DOMAIN delivered, i < j,
               NEW a \in DOMAIN file[s], NEW b \in DOMAIN file[s],
               file[s][a] = delivered[i], file[s][b] = delivered[j]
        PROVE  a < b
    <3>1. delivered[i] \in ToSet(file[s]) /\ delivered[j] \in ToSet(file[s])
      BY <2>1 DEF ToSet
    <3>2. delivered[i] < delivered[j] /\ Rising(file[s])
      BY <1>1, <2>1, <3>1 DEF ScanLines, OnceInOrder, LinesShared
    <3>3. file[s] \in Seq(1..MaxLines)
      BY <1>1 DEF ScanLines, LineTypes
    <3>4. a \in Nat /\ b \in Nat /\ file[s][a] \in Nat /\ file[s][b] \in Nat
      <4>1. DOMAIN file[s] = 1..Len(file[s]) /\ file[s][a] \in 1..MaxLines /\ file[s][b] \in 1..MaxLines
        BY <3>3, PlacesOf
      <4>2. QED
        BY <4>1
    <3>5. ~(b < a) /\ a # b
      BY <2>1, <3>2, <3>4 DEF Rising
    <3>6. QED
      BY <3>4, <3>5
  <2>2. QED
    BY <1>1, <2>1 DEF ScanLines, OnceInOrder, OncePerLineInOrder
<1>2. ScanInv => OncePerLineInOrder
  BY <1>1 DEF ScanInv
<1>3. QED
  BY <1>2, ScanInvariance, PTL

\* When cleanup has stopped the sync, every line of the current session was read: a run
\* that began after the last line was written has read it, although cleanup may be called
\* in the middle of another.
THEOREM TheEndIsRead == ScannerSpec => []CurrentIsReadToTheEnd
<1>1. ScanInv => CurrentIsReadToTheEnd
  BY DEF ScanInv, ReadAtLast, CurrentRead, CurrentIsReadToTheEnd
<1>2. QED
  BY <1>1, ScanInvariance, PTL

====
