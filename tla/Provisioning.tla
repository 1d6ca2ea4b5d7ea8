---------------------------- MODULE Provisioning ----------------------------
(***************************************************************************)
(* How relays that start on one machine settle on a provisioning secret,   *)
(* and how a publisher on it finds that secret                             *)
(* (src/web-relay/relay/provisioning.py).  The file system is shared; each *)
(* system call is a step.  A process's own secret is its name.             *)
(***************************************************************************)
EXTENDS Naturals, FiniteSets

CONSTANTS Relays, Publishers, Nothing

Procs == Relays \cup Publishers
Missing == "missing"
Empty == "empty"

VARIABLES
    file,       \* what the secret file holds: Missing, Empty or a relay's secret
    writable,   \* can the state directory be written?
    at,
    secret,     \* the secret a process settled on
    origin      \* where a relay says it came from

vars == <<file, writable, at, secret, origin>>

TypeOK ==
    /\ file \in {Missing, Empty} \cup Relays
    /\ writable \in BOOLEAN
    /\ at \in [Procs -> {"new", "create", "write", "adopt", "done", "dead"}]
    /\ secret \in [Procs -> Relays \cup {Nothing}]
    /\ origin \in [Relays -> {"none", "state", "generated", "ephemeral"}]

Init ==
    /\ file \in {Missing, Empty}
    /\ writable \in BOOLEAN
    /\ at = [p \in Procs |-> "new"]
    /\ secret = [p \in Procs |-> Nothing]
    /\ origin = [p \in Relays |-> "none"]

\* What _read makes of a file that is not there or has nothing in it.
Content == IF file \in {Missing, Empty} THEN Nothing ELSE file

Settle(p, s, o) ==
    /\ secret' = [secret EXCEPT ![p] = s]
    /\ origin' = IF p \in Relays THEN [origin EXCEPT ![p] = o] ELSE origin
    /\ at' = [at EXCEPT ![p] = "done"]

\* resolve: first what is there.
LookUp(p) ==
    /\ p \in Relays /\ at[p] = "new"
    /\ IF Content # Nothing
       THEN Settle(p, Content, "state")
       ELSE /\ at' = [at EXCEPT ![p] = "create"]
            /\ UNCHANGED <<secret, origin>>
    /\ UNCHANGED <<file, writable>>

\* Mutant of Create: opens the file whether or not it is there.
CreateOver(p) ==
    /\ at[p] = "create"
    /\ IF ~writable
       THEN Settle(p, p, "ephemeral") /\ UNCHANGED file
       ELSE /\ file' = Empty
            /\ at' = [at EXCEPT ![p] = "write"]
            /\ UNCHANGED <<secret, origin>>
    /\ UNCHANGED writable

\* _write: exclusive creation decides a race.
Create(p) ==
    /\ at[p] = "create"
    /\ IF ~writable
       THEN Settle(p, p, "ephemeral") /\ UNCHANGED file
       ELSE /\ file' = IF file = Missing THEN Empty ELSE file
            /\ at' = [at EXCEPT ![p] = IF file = Missing THEN "write" ELSE "adopt"]
            /\ UNCHANGED <<secret, origin>>
    /\ UNCHANGED writable

\* A full disk leaves an empty file.
Write(p) ==
    /\ at[p] = "write"
    /\ \/ file' = p /\ Settle(p, p, "generated")
       \/ UNCHANGED file /\ Settle(p, p, "ephemeral")
    /\ UNCHANGED writable

\* The loser takes what the winner has written so far.
Adopt(p) ==
    /\ at[p] = "adopt"
    /\ IF Content # Nothing
       THEN Settle(p, Content, "state")
       ELSE Settle(p, p, "ephemeral")
    /\ UNCHANGED <<file, writable>>

\* load_local_secret: a publisher only reads.
Load(p) ==
    /\ p \in Publishers /\ at[p] = "new"
    /\ Settle(p, Content, "state")
    /\ UNCHANGED <<file, writable>>

\* A process is killed anywhere, and may be started again.
Die(p) ==
    /\ at[p] # "dead"
    /\ at' = [at EXCEPT ![p] = "dead"]
    /\ secret' = [secret EXCEPT ![p] = Nothing]
    /\ origin' = IF p \in Relays THEN [origin EXCEPT ![p] = "none"] ELSE origin
    /\ UNCHANGED <<file, writable>>

Restart(p) ==
    /\ at[p] = "dead"
    /\ at' = [at EXCEPT ![p] = "new"]
    /\ UNCHANGED <<file, writable, secret, origin>>

Next == \E p \in Procs :
    LookUp(p) \/ Create(p) \/ Write(p) \/ Adopt(p) \/ Load(p) \/ Die(p) \/ Restart(p)

Spec == Init /\ [][Next]_vars

---------------------------------------------------------------------------
(* Properties. *)

\* Every relay that says its secret is kept holds the one in the file, and so
\* do all publishers that found one: starts that race, die half way and come
\* again never leave two secrets in use (provisioning.py:68-117).
SecretsAgree ==
    /\ \A p \in Relays : origin[p] \in {"state", "generated"} => secret[p] = file
    /\ \A p \in Publishers : secret[p] # Nothing => secret[p] = file
=============================================================================
