--------------------------- MODULE OperatorHarness ---------------------------
(***************************************************************************)
(* The loops that let a model be the operator: tool calls (harness.py) and *)
(* code blocks whose functions are the same verbs (codeact.py), both in    *)
(* src/cmd_chat/operator/.  Every verb is a call of the daemon's socket;   *)
(* what the reads between them see is OperatorInbox.                       *)
(*                                                                         *)
(* What a model says is a free choice: a DONE line, other text, or an      *)
(* action with up to MaxVerbs verbs.  Tokens are counted in units.         *)
(***************************************************************************)
EXTENDS Naturals

CONSTANTS
    max_turns, max_nudges, token_ceiling,
    MaxVerbs,   \* bound: verbs in one reply
    MaxCost     \* bound: tokens one model call may cost

VARIABLES
    style,      \* "tools" or "code"
    stage,      \* "seed", "turn", "acting" or "over"
    turns, nudges, tokens,
    did_action, \* has a verb been called?
    todo,       \* verbs of this reply still to call
    reason,     \* why the loop ended; "final" is a done by final_answer
    worked      \* history: tokens spent when a verb was last called

counters == <<turns, nudges, tokens, did_action>>
vars == <<style, stage, counters, todo, reason, worked>>

cap == max_turns + max_nudges
Unended == ""

TypeOK ==
    /\ style \in {"tools", "code"}
    /\ stage \in {"seed", "turn", "acting", "over"}
    /\ turns \in 0 .. cap /\ nudges \in 0 .. max_nudges
    /\ {tokens, worked} \subseteq 0 .. cap * MaxCost
    /\ did_action \in BOOLEAN
    /\ todo \in 0 .. MaxVerbs
    /\ reason \in {Unended, "bridge-unreachable", "tools-unsupported", "provider-error", "done",
                   "final", "stalled", "stalled-no-action", "token-ceiling", "turn-cap",
                   "raised"}

Init ==
    /\ style \in {"tools", "code"}
    /\ stage = "seed"
    /\ turns = 0 /\ nudges = 0 /\ tokens = 0 /\ did_action = FALSE
    /\ todo = 0 /\ reason = Unended /\ worked = 0

End(why) == stage' = "over" /\ reason' = why

\* The state of the room is read first; a model that takes no tools is refused.
Seed ==
    /\ stage = "seed"
    /\ \/ stage' = "turn" /\ UNCHANGED reason
       \/ End("bridge-unreachable")
       \/ style = "tools" /\ End("tools-unsupported")
    /\ UNCHANGED <<style, counters, todo, worked>>

Turning == stage = "turn" /\ turns < cap

ProviderFails ==
    /\ Turning
    /\ turns' = turns + 1
    /\ \/ End("provider-error")
       \/ style = "tools" /\ End("tools-unsupported")
    /\ UNCHANGED <<style, nudges, tokens, did_action, todo, worked>>

Paid(cost) == turns' = turns + 1 /\ tokens' = tokens + cost

\* An instant DONE is challenged, a later one believed; other text is met with
\* a nudge while there are any.
Text(claim, cost) ==
    /\ Turning /\ Paid(cost)
    /\ IF claim /\ (did_action \/ turns' > 1 \/ nudges >= max_nudges)
       THEN End("done") /\ UNCHANGED nudges
       ELSE IF nudges >= max_nudges
       THEN End(IF did_action THEN "stalled" ELSE "stalled-no-action") /\ UNCHANGED nudges
       ELSE nudges' = nudges + 1 /\ UNCHANGED <<stage, reason>>
    /\ UNCHANGED <<style, did_action, todo, worked>>

\* A reply with tool calls or a block of code is acted upon below the ceiling.
Act(n, cost) ==
    /\ Turning /\ Paid(cost)
    /\ IF tokens' >= token_ceiling
       THEN End("token-ceiling") /\ UNCHANGED todo
       ELSE stage' = "acting" /\ todo' = n /\ UNCHANGED reason
    /\ UNCHANGED <<style, nudges, did_action, worked>>

\* A verb is called.  A daemon that is gone raises: out of the loop from a tool
\* call, out of the block from code.
Verb ==
    /\ stage = "acting" /\ todo > 0
    /\ worked' = tokens
    /\ \/ todo' = todo - 1 /\ did_action' = TRUE /\ UNCHANGED <<stage, reason>>
       \/ style = "code" /\ todo' = 0 /\ did_action' = TRUE /\ UNCHANGED <<stage, reason>>
       \/ style = "tools" /\ todo' = 0 /\ End("raised") /\ UNCHANGED did_action
    /\ UNCHANGED <<style, turns, nudges, tokens>>

\* final_answer leaves a block anywhere, before its first verb as well.
FinalAnswer ==
    /\ stage = "acting" /\ style = "code"
    /\ todo' = 0 /\ End("final")
    /\ UNCHANGED <<style, counters, worked>>

\* The results, and what is new in the room, are put before the model.
Acted ==
    /\ stage = "acting" /\ todo = 0
    /\ stage' = "turn"
    /\ UNCHANGED <<style, counters, todo, reason, worked>>

TurnCap ==
    /\ stage = "turn" /\ turns = cap
    /\ End("turn-cap")
    /\ UNCHANGED <<style, counters, todo, worked>>

\* A model may not say what its tool calls cost; text is charged by its length.
Prices == IF style = "code" THEN 1 .. MaxCost ELSE 0 .. MaxCost

Next ==
    \/ Seed \/ ProviderFails \/ Verb \/ FinalAnswer \/ Acted \/ TurnCap
    \/ \E cost \in Prices :
          \/ \E claim \in BOOLEAN : Text(claim, cost)
          \/ \E n \in (IF style = "code" THEN 0 ELSE 1) .. MaxVerbs : Act(n, cost)

Spec == Init /\ [][Next]_vars

---------------------------------------------------------------------------
(* Properties. *)

\* The ceiling is looked at only when a reply acts; still no verb is called at
\* or above it, and talking past it can cost only as many replies as there are
\* nudges, and one (harness.py:391-441, codeact.py:236-275).
SpendBounded ==
    /\ did_action => worked < token_ceiling
    /\ tokens < token_ceiling + (max_nudges + 1) * MaxCost
=============================================================================
