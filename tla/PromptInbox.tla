---- MODULE PromptInbox ----
(***************************************************************************)
(* What a message queue of happy-cli promises to the agent that reads it,  *)
(* with nothing of how it waits: prompts arrive at the back, at the front, *)
(* or in place of everything that was there; they leave from the front,    *)
(* and the prompts that leave together are the longest run of prompts of   *)
(* one mode hash, an isolated prompt always leaving alone.                 *)
(* MessageQueue2 implements this specification.                            *)
(***************************************************************************)
EXTENDS Naturals, Sequences

CONSTANTS
    Mode,       \* what a prompt is to be run with (permission mode, model, ...)
    ModeHash    \* the hash of each mode, by which prompts are grouped

VARIABLES
    inbox,      \* the prompts not yet taken, in the order they will be
    sent,       \* the number of prompts that ever arrived
    taken       \* the batches taken so far

inboxVars == <<inbox, sent, taken>>

Prompt(n, m, b) == [id |-> n, mode |-> m, isolate |-> b]

\* The first n prompts of q can leave together.
Alike(q, n) ==
    \A i \in 1..n : ~q[i].isolate /\ ModeHash[q[i].mode] = ModeHash[q[1].mode]

\* They do: no longer run could.
LeaveTogether(q, n) ==
    \/ n = 1 /\ q[1].isolate
    \/ Alike(q, n) /\ ~(n < Len(q) /\ Alike(q, n + 1))

Init == inbox = << >> /\ sent = 0 /\ taken = << >>

Arrive(m) ==
    LET p == Prompt(sent + 1, m, FALSE)
    IN  /\ inbox' \in {Append(inbox, p), <<p>> \o inbox}
        /\ sent' = sent + 1
        /\ UNCHANGED taken

Replace(m) ==
    /\ inbox' = <<Prompt(sent + 1, m, TRUE)>>
    /\ sent' = sent + 1
    /\ UNCHANGED taken

Discard == inbox' = << >> /\ UNCHANGED <<sent, taken>>

Take ==
    \E n \in 1..Len(inbox) :
        /\ LeaveTogether(inbox, n)
        /\ inbox' = SubSeq(inbox, n + 1, Len(inbox))
        /\ taken' = Append(taken, [items |-> SubSeq(inbox, 1, n), mode |-> inbox[1].mode])
        /\ UNCHANGED sent

Next == (\E m \in Mode : Arrive(m) \/ Replace(m)) \/ Discard \/ Take

Spec == Init /\ [][Next]_inboxVars
====
