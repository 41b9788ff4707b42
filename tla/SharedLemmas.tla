---- MODULE SharedLemmas ----
(***************************************************************************)
(* Lemmas that the proofs of several components share: induction over the  *)
(* natural numbers, which proofs about recursive functions need, and       *)
(* Reasoning, whose processor two sessions feed. The invariant of that     *)
(* one: the only call a reader still waits for is the section's, and only  *)
(* a section with a title has one.                                         *)
(***************************************************************************)
EXTENDS Reasoning, WellFoundedInduction, TLAPS

---------------------------------------------------------------------------
(* Induction.                                                              *)

\* The order of the naturals, as the library's theorem has it.
LEMMA LessIsInTheOrder ==
    ASSUME NEW a \in Nat, NEW b \in Nat, a < b
    PROVE  <<a, b>> \in OpToRel(<, Nat)
BY Zenon DEF OpToRel

\* Induction: a set with zero, and with n + 1 when it has n, has every natural number.
LEMMA SetInduction ==
    ASSUME NEW S, 0 \in S, \A n \in Nat : n \in S => n + 1 \in S
    PROVE  Nat \subseteq S
<1> SUFFICES ASSUME Nat \ S # {} PROVE FALSE
  OBVIOUS
<1>1. \E m \in Nat \ S : \A k \in Nat \ S : ~(<<k, m>> \in OpToRel(<, Nat))
  <2>1. Nat \ S \subseteq Nat
    OBVIOUS
  <2>2. QED
    BY <2>1, NatLessThanWellFounded, WFMin, Zenon
<1>2. PICK m \in Nat \ S : \A k \in Nat \ S : ~(k < m)
  BY <1>1, LessIsInTheOrder, Zenon
<1>3. m # 0 /\ m - 1 \in Nat /\ m - 1 < m /\ m = (m - 1) + 1
  OBVIOUS
<1>4. QED
  BY <1>2, <1>3

\* A set of naturals that is not empty has a least one.
LEMMA LeastOf ==
    ASSUME NEW S, S \subseteq Nat, S # {}
    PROVE  \E m \in S : \A k \in S : m <= k
<1>1. \E m \in S : \A k \in S : ~(<<k, m>> \in OpToRel(<, Nat))
  BY NatLessThanWellFounded, WFMin, Zenon
<1>2. PICK m \in S : \A k \in S : ~(k < m)
  BY <1>1, LessIsInTheOrder, Zenon
<1>3. QED
  BY <1>2

---------------------------------------------------------------------------
(* Reasoning.                                                              *)

\* What a reader has seen, while the processor is at section s.
ThoughtsClosed(s, shown) ==
    /\ s \in Section /\ shown \in Seq(Nat) /\ s.call \in 0..Len(shown)
    /\ s.phase # "titled" => s.call = 0
    /\ \A c \in 1..Len(shown) : shown[c] = IF c = s.call THEN 0 ELSE 1

---------------------------------------------------------------------------
(* SeenAll of the few messages that are ever sent together: its recursion  *)
(* is unfolded by giving the function it defines.                          *)

\* Nothing is sent.
LEMMA SeenNone == ASSUME NEW sh PROVE SeenAll(sh, << >>) = sh
<1> DEFINE E(f) == f = [n \in 0..Len(<< >>) |-> IF n = 0 THEN sh ELSE Seen(f[n - 1], << >>[n])]
           g == [n \in 0..0 |-> sh]
           f == CHOOSE f : E(f)
<1>1. SeenAll(sh, << >>) = f[Len(<< >>)]
  BY DEF SeenAll
<1>2. E(g)
  OBVIOUS
<1> HIDE DEF g
<1>3. E(f)
  <2> HIDE DEF E
  <2>1. QED
    BY <1>2
<1> HIDE DEF f
<1>4. f[0] = sh
  BY <1>3
<1>5. QED
  BY <1>1, <1>4

\* One message is.
LEMMA SeenOne == ASSUME NEW sh, NEW a PROVE SeenAll(sh, <<a>>) = Seen(sh, a)
<1> DEFINE E(f) == f = [n \in 0..Len(<<a>>) |-> IF n = 0 THEN sh ELSE Seen(f[n - 1], <<a>>[n])]
           g == [n \in 0..1 |-> IF n = 0 THEN sh ELSE Seen(sh, a)]
           f == CHOOSE f : E(f)
<1>1. SeenAll(sh, <<a>>) = f[Len(<<a>>)]
  BY DEF SeenAll
<1>2. E(g)
  <2>1. ASSUME NEW n \in 0..1 PROVE g[n] = IF n = 0 THEN sh ELSE Seen(g[n - 1], <<a>>[n])
    <3>1. n = 0 \/ n = 1
      OBVIOUS
    <3>2. QED
      BY <3>1
  <2>2. Len(<<a>>) = 1 /\ g = [n \in 0..1 |-> g[n]]
    OBVIOUS
  <2> HIDE DEF g
  <2>3. QED
    BY <2>1, <2>2
<1> HIDE DEF g
<1>3. E(f)
  <2> HIDE DEF E
  <2>1. QED
    BY <1>2
<1> HIDE DEF f
<1>4. f[0] = sh /\ f[1] = Seen(f[0], a)
  BY <1>3
<1>5. QED
  BY <1>1, <1>4

\* Two are.
LEMMA SeenTwo == ASSUME NEW sh, NEW a, NEW b PROVE SeenAll(sh, <<a, b>>) = Seen(Seen(sh, a), b)
<1> DEFINE E(f) == f = [n \in 0..Len(<<a, b>>) |-> IF n = 0 THEN sh ELSE Seen(f[n - 1], <<a, b>>[n])]
           g == [n \in 0..2 |-> IF n = 0 THEN sh ELSE IF n = 1 THEN Seen(sh, a) ELSE Seen(Seen(sh, a), b)]
           f == CHOOSE f : E(f)
<1>1. SeenAll(sh, <<a, b>>) = f[Len(<<a, b>>)]
  BY DEF SeenAll
<1>2. E(g)
  <2>1. ASSUME NEW n \in 0..2 PROVE g[n] = IF n = 0 THEN sh ELSE Seen(g[n - 1], <<a, b>>[n])
    <3>1. n = 0 \/ n = 1 \/ n = 2
      OBVIOUS
    <3>2. QED
      BY <3>1
  <2>2. Len(<<a, b>>) = 2 /\ g = [n \in 0..2 |-> g[n]]
    OBVIOUS
  <2> HIDE DEF g
  <2>3. QED
    BY <2>1, <2>2
<1> HIDE DEF g
<1>3. E(f)
  <2> HIDE DEF E
  <2>1. QED
    BY <1>2
<1> HIDE DEF f
<1>4. f[0] = sh /\ f[1] = Seen(f[0], a) /\ f[2] = Seen(f[1], b)
  BY <1>3
<1>5. QED
  BY <1>1, <1>4

---------------------------------------------------------------------------
(* The reader, and what the processor does.                                *)

\* A call is opened: it comes last, and has no result.
LEMMA CallOpened ==
    ASSUME NEW sh \in Seq(Nat)
    PROVE  /\ Seen(sh, ToolCall(Fresh(sh))) \in Seq(Nat)
           /\ Len(Seen(sh, ToolCall(Fresh(sh)))) = Len(sh) + 1
           /\ Seen(sh, ToolCall(Fresh(sh)))[Fresh(sh)] = 0
           /\ \A c \in 1..Len(sh) : Seen(sh, ToolCall(Fresh(sh)))[c] = sh[c]
           /\ Fresh(sh) = Len(sh) + 1 /\ Len(sh) \in Nat
<1>1. Seen(sh, ToolCall(Fresh(sh))) = Append(sh, 0)
  BY DEF Seen, ToolCall
<1>2. Fresh(sh) = Len(sh) + 1 /\ Len(sh) \in Nat
  BY DEF Fresh
<1>3. /\ Append(sh, 0) \in Seq(Nat) /\ Len(Append(sh, 0)) = Len(sh) + 1
      /\ Append(sh, 0)[Len(sh) + 1] = 0
      /\ \A c \in 1..Len(sh) : Append(sh, 0)[c] = sh[c]
  OBVIOUS
<1>4. QED
  BY <1>1, <1>2, <1>3

\* A call gets a result.
LEMMA CallClosed ==
    ASSUME NEW sh \in Seq(Nat), NEW call \in 1..Len(sh), sh[call] = 0
    PROVE  /\ Seen(sh, ToolResult(call)) \in Seq(Nat)
           /\ Len(Seen(sh, ToolResult(call))) = Len(sh)
           /\ Seen(sh, ToolResult(call))[call] = 1
           /\ \A c \in 1..Len(sh) : c # call => Seen(sh, ToolResult(call))[c] = sh[c]
<1>1. Seen(sh, ToolResult(call)) = [sh EXCEPT ![call] = @ + 1]
  BY DEF Seen, ToolResult
<1>2. QED
  BY <1>1

\* No section, and every call closed.
LEMMA NoSectionIsSection == NoSection \in Section /\ NoSection.call = 0 /\ NoSection.phase = "new"
BY DEF NoSection, Section, Text, Phase

\* At the start nothing is shown.
LEMMA NothingThought == ThoughtsClosed(NoSection, << >>)
BY NoSectionIsSection DEF ThoughtsClosed

\* A section's text that grows is a text.
LEMMA GrownIsText ==
    ASSUME NEW text \in Text, NEW chunk \in Chunk
    PROVE  Grown(text, chunk) \in Text
BY DEF Grown, Text, Chunk

\* The result of a section's call, at the section's end.
LEMMA ClosingKeeps ==
    ASSUME NEW s, NEW sh, ThoughtsClosed(s, sh), s.call # 0
    PROVE  ThoughtsClosed(NoSection, SeenAll(sh, <<ToolResult(s.call)>>))
<1>1. sh \in Seq(Nat) /\ s.call \in 1..Len(sh) /\ sh[s.call] = 0
      /\ \A c \in 1..Len(sh) : c # s.call => sh[c] = 1
  BY DEF ThoughtsClosed, Section
<1> DEFINE r == Seen(sh, ToolResult(s.call))
<1>2. /\ r \in Seq(Nat) /\ Len(r) = Len(sh) /\ r[s.call] = 1
      /\ \A c \in 1..Len(sh) : c # s.call => r[c] = sh[c]
  BY <1>1, CallClosed
<1> HIDE DEF r
<1>3. \A c \in 1..Len(r) : r[c] = 1 /\ c # 0
  BY <1>1, <1>2
<1>4. 0 \in 0..Len(r)
  BY <1>2
<1>5. ThoughtsClosed(NoSection, r)
  BY <1>2, <1>3, <1>4, NoSectionIsSection DEF ThoughtsClosed
<1>6. QED
  BY <1>5, SeenOne DEF r

\* A call that is over at once leaves the section as it is.
LEMMA OverAtOnceKeeps ==
    ASSUME NEW s, NEW sh, ThoughtsClosed(s, sh)
    PROVE  ThoughtsClosed(s, SeenAll(sh, <<ToolCall(Fresh(sh)), ToolResult(Fresh(sh))>>))
<1> DEFINE o == Seen(sh, ToolCall(Fresh(sh)))
           r == Seen(o, ToolResult(Fresh(sh)))
<1>1. sh \in Seq(Nat) /\ s \in Section /\ s.call \in 0..Len(sh) /\ (s.phase # "titled" => s.call = 0)
      /\ \A c \in 1..Len(sh) : sh[c] = IF c = s.call THEN 0 ELSE 1
  BY DEF ThoughtsClosed
<1>2. /\ o \in Seq(Nat) /\ Len(o) = Len(sh) + 1 /\ o[Fresh(sh)] = 0
      /\ \A c \in 1..Len(sh) : o[c] = sh[c]
      /\ Fresh(sh) = Len(sh) + 1 /\ Len(sh) \in Nat
  BY <1>1, CallOpened
<1> HIDE DEF o
<1>3. /\ r \in Seq(Nat) /\ Len(r) = Len(sh) + 1 /\ r[Fresh(sh)] = 1
      /\ \A c \in 1..(Len(sh) + 1) : c # Fresh(sh) => r[c] = o[c]
  <2>1. Fresh(sh) \in 1..Len(o)
    BY <1>2
  <2>2. QED
    BY <1>2, <2>1, CallClosed
<1> HIDE DEF r
<1>4. \A c \in 1..Len(r) : c = Fresh(sh) \/ (c \in 1..Len(sh) /\ c # Fresh(sh))
  BY <1>2, <1>3
<1>5. s.call # Fresh(sh) /\ s.call \in 0..Len(r)
  BY <1>1, <1>2, <1>3
<1>6. \A c \in 1..Len(r) : r[c] = IF c = s.call THEN 0 ELSE 1
  BY <1>1, <1>2, <1>3, <1>4, <1>5
<1>7. ThoughtsClosed(s, r)
  BY <1>1, <1>3, <1>5, <1>6 DEF ThoughtsClosed
<1>8. QED
  BY <1>7, SeenTwo DEF o, r

\* A chunk opens a call when it completes a title, and only if the section has none.
LEMMA ProcessingKeeps ==
    ASSUME NEW s, NEW sh, NEW chunk \in Chunk, ThoughtsClosed(s, sh)
    PROVE  ThoughtsClosed(Processed(s, chunk, Fresh(sh)),
                          SeenAll(sh, SentByProcessing(s, chunk, Fresh(sh))))
<1> DEFINE text == Grown(s.text, chunk)
           p == Processed(s, chunk, Fresh(sh))
<1>1. sh \in Seq(Nat) /\ s \in Section /\ s.call \in 0..Len(sh) /\ (s.phase # "titled" => s.call = 0)
      /\ \A c \in 1..Len(sh) : sh[c] = IF c = s.call THEN 0 ELSE 1
  BY DEF ThoughtsClosed
<1>2. text \in Text
  BY <1>1, GrownIsText DEF Section
<1>3. Len(sh) \in Nat /\ Fresh(sh) = Len(sh) + 1
  BY <1>1 DEF Fresh
<1> HIDE DEF text
<1>4. CASE s.phase = "capture" /\ text = "titled"
  <2>1. p = [text |-> text, phase |-> "titled", call |-> Fresh(sh)]
    BY <1>4 DEF Processed, text
  <2>2. p \in Section /\ p.call = Fresh(sh) /\ p.phase = "titled"
    BY <1>2, <1>3, <2>1 DEF Section, Phase
  <2>3. s.call = 0 /\ Fresh(sh) # 0
    BY <1>1, <1>3, <1>4
  <2>4. SentByProcessing(s, chunk, Fresh(sh)) = <<ToolCall(Fresh(sh))>>
    BY <2>2, <2>3 DEF SentByProcessing
  <2> DEFINE o == Seen(sh, ToolCall(Fresh(sh)))
  <2>5. /\ o \in Seq(Nat) /\ Len(o) = Len(sh) + 1 /\ o[Fresh(sh)] = 0
        /\ \A c \in 1..Len(sh) : o[c] = sh[c]
    BY <1>1, CallOpened
  <2> HIDE DEF o
  <2>6. \A c \in 1..Len(o) : c = Fresh(sh) \/ (c \in 1..Len(sh) /\ c # Fresh(sh) /\ c # 0)
    BY <1>3, <2>5
  <2>7. \A c \in 1..Len(o) : o[c] = IF c = Fresh(sh) THEN 0 ELSE 1
    BY <1>1, <2>3, <2>5, <2>6
  <2>8. Fresh(sh) \in 0..Len(o)
    BY <1>3, <2>5
  <2>9. ThoughtsClosed(p, o)
    BY <2>2, <2>5, <2>7, <2>8 DEF ThoughtsClosed
  <2>10. QED
    BY <2>4, <2>9, SeenOne DEF o
<1>5. CASE ~(s.phase = "capture" /\ text = "titled")
  <2>1. /\ p \in Section /\ p.call = s.call
        /\ p.phase = "titled" \/ (p.phase # "titled" /\ s.phase # "titled")
    <3>1. CASE s.phase = "new"
      <4>1. p = [s EXCEPT !.text = text, !.phase = IF text = "plain" THEN "plain" ELSE "capture"]
        BY <3>1 DEF Processed, text
      <4>2. QED
        BY <1>1, <1>2, <3>1, <4>1 DEF Section, Phase
    <3>2. CASE s.phase # "new"
      <4>1. p = [s EXCEPT !.text = text]
        BY <1>5, <3>2 DEF Processed, text
      <4>2. QED
        BY <1>1, <1>2, <4>1 DEF Section
    <3>3. QED
      BY <3>1, <3>2
  <2>2. SentByProcessing(s, chunk, Fresh(sh)) = << >>
    BY <2>1 DEF SentByProcessing
  <2> HIDE DEF p
  <2>3. ThoughtsClosed(p, sh)
    BY <1>1, <2>1 DEF ThoughtsClosed
  <2>4. QED
    BY <2>2, <2>3, SeenNone DEF p
<1>6. QED
  BY <1>4, <1>5

\* The end of a section closes its call, or shows it as one that is over at once.
LEMMA CompletingKeeps ==
    ASSUME NEW s, NEW sh, NEW text \in Text, ThoughtsClosed(s, sh)
    PROVE  ThoughtsClosed(Completed(s, text), SeenAll(sh, SentByCompleting(s, text, Fresh(sh))))
<1>1. CASE s.call # 0
  BY <1>1, ClosingKeeps DEF Completed, SentByCompleting
<1>2. CASE s.call = 0
  <2>1. ThoughtsClosed(NoSection, sh)
    BY <1>2, NoSectionIsSection DEF ThoughtsClosed
  <2>2. CASE text = "empty"
    BY <1>2, <2>2, SeenNone DEF Completed, SentByCompleting
  <2>3. CASE text = "titled"
    BY <1>2, <2>1, <2>3, OverAtOnceKeeps DEF Completed, SentByCompleting
  <2>4. CASE text \in {"plain", "open"}
    <3>1. SeenAll(sh, <<Plain>>) = sh
      BY SeenOne DEF Seen, Plain
    <3>2. QED
      BY <1>2, <2>1, <2>4, <3>1 DEF Completed, SentByCompleting
  <2>5. QED
    BY <2>2, <2>3, <2>4 DEF Text
<1>3. QED
  BY <1>1, <1>2

\* So does breaking it off.
LEMMA BreakingOffKeeps ==
    ASSUME NEW s, NEW sh, ThoughtsClosed(s, sh)
    PROVE  ThoughtsClosed(NoSection, SeenAll(sh, SentByBreakingOff(s)))
<1>1. CASE s.call # 0
  BY <1>1, ClosingKeeps DEF SentByBreakingOff
<1>2. CASE s.call = 0
  <2>1. ThoughtsClosed(NoSection, sh)
    BY <1>2, NoSectionIsSection DEF ThoughtsClosed
  <2>2. QED
    BY <1>2, <2>1, SeenNone DEF SentByBreakingOff
<1>3. QED
  BY <1>1, <1>2
====
