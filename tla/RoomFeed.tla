------------------------------ MODULE RoomFeed ------------------------------
(***************************************************************************)
(* What the connection manager promises a connection, with no queue, no    *)
(* task and no socket in sight.  The snapshot a connection opens with      *)
(* shows every message so far; after that it is shown every message, once  *)
(* and in order, until it ends.  A connection that cannot take a frame is  *)
(* refused it, is promised nothing more, and has to be ended.              *)
(***************************************************************************)
EXTENDS Naturals

CONSTANT Conns

VARIABLES
    sent,       \* messages sent in the room so far, numbered from 1
    seen,       \* the last message a connection was shown
    state       \* of a connection: "off", "open", "refused", "ended"

vars == <<sent, seen, state>>

Init ==
    /\ sent = 0
    /\ seen = [c \in Conns |-> 0]
    /\ state = [c \in Conns |-> "off"]

Live == {c \in Conns : state[c] \in {"open", "refused"}}

\* Some live connections are refused a frame and some end, showing nothing.
Fate(refused, ended) ==
    /\ state' = [c \in Conns |-> IF c \in ended THEN "ended"
                                 ELSE IF c \in refused THEN "refused"
                                 ELSE state[c]]
    /\ seen' = [c \in Conns |-> IF c \in ended THEN 0 ELSE seen[c]]

\* Opening a connection may end the one it replaces.
Open(c) ==
    /\ state[c] = "off"
    /\ \E ended \in SUBSET Live :
           /\ state' = [x \in Conns |-> IF x = c THEN "open"
                                        ELSE IF x \in ended THEN "ended"
                                        ELSE state[x]]
           /\ seen' = [x \in Conns |-> IF x = c THEN sent
                                       ELSE IF x \in ended THEN 0
                                       ELSE seen[x]]
    /\ UNCHANGED sent

\* A message for every live connection; some cannot take it.
Send ==
    /\ \E refused \in SUBSET Live : \E ended \in SUBSET Live :
           Fate(refused, ended)
    /\ sent' = sent + 1

Show(c) ==
    /\ state[c] = "open" /\ seen[c] < sent
    /\ seen' = [seen EXCEPT ![c] = @ + 1]
    /\ UNCHANGED <<sent, state>>

\* What a refused connection is still shown may skip what it was refused.
ShowRefused(c) ==
    /\ state[c] = "refused"
    /\ \E n \in (seen[c] + 1)..sent : seen' = [seen EXCEPT ![c] = n]
    /\ UNCHANGED <<sent, state>>

\* A notice somebody cannot take; a connection left, kicked or evicted.
Settle ==
    /\ \E refused \in SUBSET Live : \E ended \in SUBSET Live :
           Fate(refused, ended)
    /\ UNCHANGED sent

Next == Send \/ Settle \/ \E c \in Conns : Open(c) \/ Show(c) \/ ShowRefused(c)

Spec == Init /\ [][Next]_vars

\* A connection that is behind is shown what it misses, unless it ends or is
\* refused something; and refusal is not for ever.
CatchesUp(c, n) ==
    (state[c] = "open" /\ sent >= n) ~> (state[c] # "open" \/ seen[c] >= n)
RefusedEnds(c) == (state[c] = "refused") ~> (state[c] = "ended")
=============================================================================
