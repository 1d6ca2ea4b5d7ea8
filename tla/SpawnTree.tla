----------------------------- MODULE SpawnTree -----------------------------
(***************************************************************************)
(* Operators that spawn operators (src/cmd_chat/operator/bridge.py         *)
(* _op_spawn, bootstrap.py).  A daemon checks its budget, works out the    *)
(* child's, and launches a model runner with a directive that states it;   *)
(* the runner starts the child's own daemon with the command line of the   *)
(* directive, which names host, port and name.                             *)
(***************************************************************************)
EXTENDS Naturals, Sequences, SequencesExt

CONSTANTS
    DEPTH, FANOUT,  \* the budget a daemon has by its command line's defaults
    MaxNodes        \* bound: operators in a behaviour

VARIABLE nodes      \* operators in the order of their launch

vars == nodes

\* An operator: its level in the tree, the budget its directive states, and its
\* daemon's own once that is up.
Node == [level : Nat, told : Nat, up : BOOLEAN, depth : Nat, fanout : Nat]

TypeOK == nodes \in Seq(Node) /\ Len(nodes) <= MaxNodes

Init == nodes = <<[level |-> 0, told |-> DEPTH, up |-> TRUE, depth |-> DEPTH,
                   fanout |-> FANOUT]>>

CanSpawn(n) == nodes[n].up /\ nodes[n].depth > 0 /\ nodes[n].fanout > 0

\* A launch consumes a slot; a dry run, a runner that is not installed and a
\* launch that fails leave everything as it is.
Spawn(n) ==
    /\ CanSpawn(n) /\ Len(nodes) < MaxNodes
    /\ nodes' = Append([nodes EXCEPT ![n].fanout = @ - 1],
                       [level |-> nodes[n].level + 1, told |-> nodes[n].depth - 1,
                        up |-> FALSE, depth |-> 0, fanout |-> 0])

\* The runner joins: `up host port name`.
Join(n) ==
    /\ ~nodes[n].up
    /\ nodes' = [nodes EXCEPT ![n].up = TRUE, ![n].depth = DEPTH, ![n].fanout = FANOUT]

Next == \E n \in DOMAIN nodes : Spawn(n) \/ Join(n)

Spec == Init /\ [][Next]_vars

---------------------------------------------------------------------------
(* Properties. *)

\* "the child inherits a decremented budget ... This is the hard stop against a
\* runaway tree" (bridge.py:587-589): nothing is spawned below the root's depth.
TreeStops == \A n \in DOMAIN nodes : nodes[n].level <= DEPTH
=============================================================================
