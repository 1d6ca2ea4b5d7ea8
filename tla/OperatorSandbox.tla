--------------------------- MODULE OperatorSandbox ---------------------------
(***************************************************************************)
(* The containers operator daemons launch on one host and the commands     *)
(* they run in sandboxes (src/cmd_chat/operator/bridge.py, sandbox.py).    *)
(*                                                                         *)
(* The control socket serves its callers concurrently, so a daemon has     *)
(* several requests at work, each a job; every call of the engine is a     *)
(* step of its own.  A container carries the process id of its creator,    *)
(* and the id of a dead process may come to mean another one.              *)
(***************************************************************************)
EXTENDS Naturals, FiniteSets

CONSTANTS
    Daemons,    \* operator processes
    Jobs,       \* requests a daemon may have at work
    Names,      \* container names
    NoBox

ROOM == "room"      \* the room's own sandbox, when it can be reached directly

VARIABLES
    alive,      \* daemons that run
    taken,      \* ids of dead daemons that another process has by now
    boxes,      \* containers: name -> creator
    own,        \* _own_name, or NoBox
    job,        \* job[d][j]
    doomed      \* containers a job's listing found abandoned

vars == <<alive, taken, boxes, own, job, doomed>>

Idle == [pc |-> "idle", name |-> NoBox, left |-> {}]
Held == {n \in Names : boxes[n] # NoBox}

TypeOK ==
    /\ alive \subseteq Daemons /\ taken \subseteq Daemons \ alive
    /\ boxes \in [Names -> Daemons \cup {NoBox}]
    /\ own \in [Daemons -> Names \cup {NoBox}]
    /\ job \in [Daemons -> [Jobs ->
           [pc : {"idle", "sweep", "clear", "run", "record", "remove", "forget", "exec"},
            name : Names \cup {NoBox, ROOM}, left : SUBSET Names]]]
    /\ doomed \in [Daemons -> [Jobs -> SUBSET (Names \X Daemons)]]

Init ==
    /\ alive = Daemons
    /\ taken = {}
    /\ boxes = [n \in Names |-> NoBox]
    /\ own = [d \in Daemons |-> NoBox]
    /\ job = [d \in Daemons |-> [j \in Jobs |-> Idle]]
    /\ doomed = [d \in Daemons |-> [j \in Jobs |-> {}]]

At(d, j, pc) == d \in alive /\ job[d][j].pc = pc
Goto(d, j, pc, name, left) ==
    job' = [job EXCEPT ![d][j] = [pc |-> pc, name |-> name, left |-> left]]
Done(d, j) ==
    /\ job' = [job EXCEPT ![d][j] = Idle]
    /\ doomed' = [doomed EXCEPT ![d][j] = {}]
World == <<alive, taken>>

---------------------------------------------------------------------------
(* Launching. *)

\* Whose creator is gone, as far as /proc can tell.
Abandoned == {n \in Held : boxes[n] \notin alive \cup taken}

\* The sweep lists the host's sandboxes; an engine that refuses lists none.
Launch(d, j, name) ==
    /\ At(d, j, "idle")
    /\ \E left \in {Abandoned, {}} :
          /\ Goto(d, j, IF left = {} THEN "clear" ELSE "sweep", name, left)
          /\ doomed' = [doomed EXCEPT ![d][j] = {<<n, boxes[n]>> : n \in left}]
    /\ UNCHANGED World /\ UNCHANGED <<boxes, own>>

\* Mutant of Sweep: the container of the name to be launched is left to Clear.
SweepOthers(d, j) ==
    LET name == job[d][j].name
        left == job[d][j].left IN
    /\ At(d, j, "sweep")
    /\ \E n \in left :
          /\ boxes' = [boxes EXCEPT ![n] = IF n = name THEN NoBox ELSE @]
          /\ Goto(d, j, IF left = {n} THEN "clear" ELSE "sweep", name, left \ {n})
    /\ UNCHANGED World /\ UNCHANGED <<own, doomed>>

\* One after the other is removed by its name.
Sweep(d, j) ==
    LET name == job[d][j].name
        left == job[d][j].left IN
    /\ At(d, j, "sweep")
    /\ \E n \in left :
          /\ boxes' = [boxes EXCEPT ![n] = NoBox]
          /\ Goto(d, j, IF left = {n} THEN "clear" ELSE "sweep", name, left \ {n})
    /\ UNCHANGED World /\ UNCHANGED <<own, doomed>>

\* Whatever has the name goes, whose ever it is.
Clear(d, j) ==
    /\ At(d, j, "clear")
    /\ boxes' = [boxes EXCEPT ![job[d][j].name] = NoBox]
    /\ Goto(d, j, "run", job[d][j].name, {})
    /\ UNCHANGED World /\ UNCHANGED <<own, doomed>>

\* The engine refuses a name that is in use; the egress guard and the gateway
\* may refuse as well.
Run(d, j) ==
    LET name == job[d][j].name IN
    /\ At(d, j, "run")
    /\ \/ /\ boxes[name] = NoBox
          /\ boxes' = [boxes EXCEPT ![name] = d]
          /\ Goto(d, j, "record", name, {})
          /\ UNCHANGED doomed
       \/ /\ Done(d, j)
          /\ UNCHANGED boxes
    /\ UNCHANGED World /\ UNCHANGED own

\* The gateway is joined, then the container is on record.
Record(d, j) ==
    /\ At(d, j, "record")
    /\ own' = [own EXCEPT ![d] = job[d][j].name]
    /\ Done(d, j)
    /\ UNCHANGED World /\ UNCHANGED boxes

---------------------------------------------------------------------------
(* Tearing down. *)

TakeDown(d, j) ==
    /\ At(d, j, "idle") /\ own[d] # NoBox
    /\ Goto(d, j, "remove", own[d], {})
    /\ UNCHANGED World /\ UNCHANGED <<boxes, own, doomed>>

Remove(d, j) ==
    /\ At(d, j, "remove")
    /\ \/ /\ boxes' = [boxes EXCEPT ![job[d][j].name] = NoBox]
          /\ Goto(d, j, "forget", job[d][j].name, {})
          /\ UNCHANGED doomed
       \/ /\ Done(d, j)
          /\ UNCHANGED boxes
    /\ UNCHANGED World /\ UNCHANGED own

\* The record is cleared, whatever it has come to say.
Forget(d, j) ==
    /\ At(d, j, "forget")
    /\ own' = [own EXCEPT ![d] = NoBox]
    /\ Done(d, j)
    /\ UNCHANGED World /\ UNCHANGED boxes

---------------------------------------------------------------------------
(* Commands in a sandbox. *)

\* The daemon's own container first, else the room's, which it may drive or not
\* by what the room's broker said last: any answer.
Targets(d) == IF own[d] # NoBox THEN {own[d]} ELSE {ROOM}

\* exec, write, get and the manifest's reads and writes: the target is chosen
\* once, and every call of the engine goes there.
Command(d, j) ==
    /\ At(d, j, "idle")
    /\ \E target \in Targets(d) : Goto(d, j, "exec", target, {})
    /\ UNCHANGED World /\ UNCHANGED <<boxes, own, doomed>>

Ended(d, j) ==
    /\ At(d, j, "exec")
    /\ Done(d, j)
    /\ UNCHANGED World /\ UNCHANGED <<boxes, own>>

---------------------------------------------------------------------------
(* The world around. *)

Ends(d) ==
    /\ alive' = alive \ {d}
    /\ own' = [own EXCEPT ![d] = NoBox]
    /\ job' = [job EXCEPT ![d] = [j \in Jobs |-> Idle]]
    /\ doomed' = [doomed EXCEPT ![d] = [j \in Jobs |-> {}]]
    /\ UNCHANGED taken

\* The containers an engine may have created for a launch nobody waits for now.
Orphans(d) == {n \in Names : boxes[n] = NoBox /\ \E j \in Jobs :
                  job[d][j].pc = "run" /\ job[d][j].name = n}

\* A clean end removes the container on record; what else runs is cancelled.
Exit(d) ==
    /\ d \in alive
    /\ \E late \in SUBSET Orphans(d) :
          boxes' = [n \in Names |-> IF n \in late THEN d
                                    ELSE IF n = own[d] THEN NoBox ELSE boxes[n]]
    /\ Ends(d)

Kill(d) ==
    /\ d \in alive
    /\ \E late \in SUBSET Orphans(d) :
          boxes' = [n \in Names |-> IF n \in late THEN d ELSE boxes[n]]
    /\ Ends(d)

\* The system gives a dead daemon's id to another process, and later frees it.
PidReused(d) ==
    /\ d \notin alive
    /\ \/ taken' = taken \cup {d}
       \/ taken' = taken \ {d}
    /\ UNCHANGED <<alive, boxes, own, job, doomed>>

Next ==
    \/ \E d \in Daemons : Exit(d) \/ Kill(d) \/ PidReused(d)
    \/ \E d \in Daemons : \E j \in Jobs :
          \/ \E n \in Names : Launch(d, j, n)
          \/ Sweep(d, j) \/ Clear(d, j) \/ Run(d, j) \/ Record(d, j)
          \/ TakeDown(d, j) \/ Remove(d, j) \/ Forget(d, j)
          \/ Command(d, j) \/ Ended(d, j)

Spec == Init /\ [][Next]_vars

---------------------------------------------------------------------------
(* Properties. *)

\* A launch that has swept leaves nothing of what its listing found abandoned,
\* though other daemons launch, remove and die meanwhile (sandbox.py:122-143).
AbandonedReclaimed == \A d \in alive : \A j \in Jobs :
    job[d][j].pc \in {"clear", "run", "record"} =>
        \A n \in Held : <<n, boxes[n]>> \notin doomed[d][j]
=============================================================================
