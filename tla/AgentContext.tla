---------------------------- MODULE AgentContext ----------------------------
(***************************************************************************)
(* What the AI agent feeds its model (src/cmd_chat/agent/bridge.py): the   *)
(* recent window of its transcript, and the message list of a native task, *)
(* which grows by every turn and is brought under a token budget before    *)
(* the next call: old tool outputs are digested first, then the oldest     *)
(* messages are dropped; the goal and the newest messages are kept.        *)
(*                                                                         *)
(* A message is its role, its cost in tokens and whether it is the pinned  *)
(* TASK; `no` tells messages apart.                                        *)
(***************************************************************************)
EXTENDS Naturals, Sequences, FiniteSets

CONSTANTS
    Costs,      \* token costs a message can have
    Digest,     \* cost of a digested tool output
    budget,     \* native_token_budget over the calibrated ratio
    keep_recent,
    context_window, token_budget,
    MaxMessages \* bound: messages ever appended

VARIABLES
    messages,   \* the message list of the running task
    count       \* messages appended so far

vars == <<messages, count>>

Message == [no : 1 .. MaxMessages, role : {"user", "assistant", "tool"},
            cost : Costs \cup {Digest}, task : BOOLEAN]

TypeOK == messages \in Seq(Message) /\ count \in 1 .. MaxMessages

\* The seeded context's head, then the pinned goal.
Init ==
    /\ count = 2
    /\ \E c, d \in Costs :
        messages = << [no |-> 1, role |-> "user", cost |-> c, task |-> FALSE],
                      [no |-> 2, role |-> "user", cost |-> d, task |-> TRUE] >>

\* What the messages of s with the numbers D cost: their tokens, one by one.
CostOf(s, D) == Cardinality(UNION {{i} \X (1 .. s[i].cost) : i \in D})
Cost(s) == CostOf(s, DOMAIN s)

\* Where a loop over 1 .. n stops that ends as soon as the steps it has taken
\* are in F.
Stop(F, n) == CHOOSE k \in 0 .. n : (k \in F \/ k = n) /\ \A j \in 0 .. k - 1 : j \notin F

---------------------------------------------------------------------------
(* _window: newest first while they fit, one message in any case. *)

Recent(s, n) == SubSeq(s, IF Len(s) > n THEN Len(s) - n + 1 ELSE 1, Len(s))

Window(s) ==
    LET all == Recent(s, context_window)
    IN  Recent(all, Stop({n \in 1 .. Len(all) - 1 : Cost(Recent(all, n + 1)) > token_budget},
                         Len(all)))

---------------------------------------------------------------------------
(* _prune_native_messages. *)

\* Mutant of Kept: the goal is pinned by its place, which pruning changes.
KeptByPlace(s, i) == i = 1 \/ i > Len(s) - keep_recent \/ i = 3

Kept(s, i) == i = 1 \/ i > Len(s) - keep_recent \/ s[i].task

\* Tool outputs are digested oldest first until the list fits.
Digested(s) ==
    LET upto(n) == [i \in DOMAIN s |->
            IF i <= n /\ ~Kept(s, i) /\ s[i].role = "tool" /\ s[i].cost > Digest
            THEN [s[i] EXCEPT !.cost = Digest] ELSE s[i]]
    IN  upto(Stop({n \in 0 .. Len(s) : Cost(upto(n)) <= budget}, Len(s)))

\* Then messages are dropped, oldest first, until it fits.
Dropped(s) ==
    LET upto(n) == {i \in 1 .. n : ~Kept(s, i)}
    IN  upto(Stop({n \in 0 .. Len(s) : CostOf(s, DOMAIN s \ upto(n)) <= budget}, Len(s)))

\* The k-th of a set of numbers.
Nth(S, k) == CHOOSE i \in S : Cardinality({j \in S : j <= i}) = k

Prune(s) ==
    LET t == Digested(s)
        left == DOMAIN t \ Dropped(t)
    IN  [k \in 1 .. Cardinality(left) |-> t[Nth(left, k)]]

---------------------------------------------------------------------------
\* A turn: the list is pruned for the call, then the reply and what came of it
\* (a tool's output, or a nudge) are appended.
Turn(c, d, role) ==
    /\ count + 2 <= MaxMessages
    /\ count' = count + 2
    /\ messages' = Prune(messages) \o
        << [no |-> count + 1, role |-> "assistant", cost |-> c, task |-> FALSE],
           [no |-> count + 2, role |-> role, cost |-> d, task |-> FALSE] >>

Next == \E c, d \in Costs : \E role \in {"tool", "user"} : Turn(c, d, role)

Spec == Init /\ [][Next]_vars

---------------------------------------------------------------------------
(* Properties. *)

\* The goal is never lost, however often the list was pruned, and a pruned list
\* fits the budget or has nothing left to drop; what is left is in order, and
\* the newest messages are as they were.
GoalKept ==
    LET p == Prune(messages) IN
    /\ \E i \in DOMAIN p : p[i].task
    /\ Cost(p) <= budget \/ \A i \in DOMAIN p : Kept(p, i)
    /\ \A i, j \in DOMAIN p : i < j => p[i].no < p[j].no
    /\ Recent(p, keep_recent) = Recent(messages, keep_recent)

\* The window is the longest run of newest messages within both limits, or the
\* newest message alone.
WindowIsLongest ==
    LET w == Window(messages)
        fits(n) == n <= context_window /\ (n = 1 \/ Cost(Recent(messages, n)) <= token_budget)
    IN  /\ w = Recent(messages, Len(w)) /\ fits(Len(w))
        /\ \A n \in 1 .. Len(messages) : fits(n) => n <= Len(w)
=============================================================================
