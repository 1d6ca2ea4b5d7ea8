---------------------------- MODULE RegistryLock ----------------------------
(***************************************************************************)
(* The registry of saved VMs (src/hh/src/registry.rs): one JSON file that  *)
(* the clients of a machine read, change and rename into place, and the    *)
(* lock file that keeps them apart.  A lock older than LOCK_STALE_SECS is  *)
(* taken for that of a dead process and removed.                           *)
(*                                                                         *)
(* `Savers` save a VM each, under its own label (upsert); `Listers` list   *)
(* the saved ones and drop those whose artifact is gone (list_reconciled). *)
(* `publish` is an upsert here.  Who holds the lock is assumed to be done  *)
(* or dead before it is stale.                                             *)
(***************************************************************************)
EXTENDS Naturals, FiniteSets

CONSTANTS
    Savers, Listers,
    LOCK_STALE_SECS,
    NoProc,
    MaxNow,     \* bound on the clock
    MaxDead     \* bound on processes killed

Procs == Savers \cup Listers

VARIABLES
    now,
    lock,       \* whose lock file is there, or NoProc
    born,       \* when it was written
    pc,
    deadline,   \* of acquire_lock
    guarded,    \* has it a RegistryLock to drop?
    entries,    \* labels in the file
    gone,       \* labels whose artifact is gone
    reg,        \* the copy a process has loaded
    saw,        \* the lock a process has found stale: [of, born]
    saved,      \* history: labels whose upsert returned Ok
    trespass    \* history: has a lock been removed that nobody found stale, or
                \* the registry been changed without one?

vars == <<now, lock, born, pc, deadline, guarded, entries, gone, reg, saw, saved, trespass>>

TypeOK ==
    /\ now \in 0..MaxNow /\ born \in 0..MaxNow
    /\ lock \in Procs \cup {NoProc}
    /\ pc \in [Procs -> {"idle", "try", "stale", "load", "store", "drop", "done", "dead"}]
    /\ deadline \in [Procs -> 0 .. MaxNow + LOCK_STALE_SECS + 1]
    /\ guarded \subseteq Procs /\ entries \subseteq Savers /\ gone \subseteq Savers
    /\ reg \in [Procs -> SUBSET Savers]
    /\ saw \in [Procs -> [of : Procs \cup {NoProc}, born : 0..MaxNow]]
    /\ saved \subseteq Savers /\ trespass \in BOOLEAN

Nil == [of |-> NoProc, born |-> 0]

Init ==
    /\ now = 0 /\ lock = NoProc /\ born = 0
    /\ pc = [p \in Procs |-> "idle"] /\ deadline = [p \in Procs |-> 0]
    /\ guarded = {} /\ entries = {} /\ gone = {}
    /\ reg = [p \in Procs |-> {}] /\ saw = [p \in Procs |-> Nil]
    /\ saved = {} /\ trespass = FALSE

Goto(p, from, to) == pc[p] = from /\ pc' = [pc EXCEPT ![p] = to]
data == <<entries, gone, reg, saved>>

---------------------------------------------------------------------------
(* acquire_lock. *)

Start(p) ==
    /\ Goto(p, "idle", "try")
    /\ deadline' = [deadline EXCEPT ![p] = now + LOCK_STALE_SECS + 1]
    /\ UNCHANGED <<now, lock, born, guarded, saw, data, trespass>>

\* Mutant of Create: the file is opened, new or not.
CreateAnyway(p) ==
    /\ Goto(p, "try", "load")
    /\ lock' = p /\ born' = now /\ guarded' = guarded \cup {p}
    /\ UNCHANGED <<now, deadline, saw, data, trespass>>

Create(p) ==
    /\ lock = NoProc
    /\ Goto(p, "try", "load")
    /\ lock' = p /\ born' = now /\ guarded' = guarded \cup {p}
    /\ UNCHANGED <<now, deadline, saw, data, trespass>>

FindStale(p) ==
    /\ lock # NoProc /\ now - born > LOCK_STALE_SECS
    /\ Goto(p, "try", "stale")
    /\ saw' = [saw EXCEPT ![p] = [of |-> lock, born |-> born]]
    /\ UNCHANGED <<now, lock, born, deadline, guarded, data, trespass>>

\* By now the file may be gone, or another's.
Reclaim(p) ==
    /\ Goto(p, "stale", "try")
    /\ trespass' = (trespass \/ (lock # NoProc /\ saw[p] # [of |-> lock, born |-> born]))
    /\ lock' = NoProc
    /\ saw' = [saw EXCEPT ![p] = Nil]
    /\ UNCHANGED <<now, born, deadline, guarded, data>>

\* A save fails; a listing goes on without the lock.
GiveUp(p) ==
    /\ lock # NoProc /\ now - born <= LOCK_STALE_SECS /\ now > deadline[p]
    /\ Goto(p, "try", IF p \in Savers THEN "done" ELSE "load")
    /\ UNCHANGED <<now, lock, born, deadline, guarded, saw, data, trespass>>

---------------------------------------------------------------------------
(* The registry. *)

Load(p) ==
    /\ Goto(p, "load", "store")
    /\ reg' = [reg EXCEPT ![p] = entries]
    /\ UNCHANGED <<now, lock, born, deadline, guarded, entries, gone, saw, saved, trespass>>

\* The temporary file takes the place of the registry in one step.
StoreSave(p) ==
    /\ p \in Savers /\ Goto(p, "store", "drop")
    /\ entries' = reg[p] \cup {p}
    /\ saved' = saved \cup {p}
    /\ UNCHANGED <<now, lock, born, deadline, guarded, gone, reg, saw, trespass>>

StoreList(p) ==
    /\ p \in Listers /\ Goto(p, "store", "drop")
    /\ entries' = IF reg[p] \cap gone = {} THEN entries ELSE reg[p] \ gone
    /\ trespass' = (trespass \/ (p \notin guarded /\ reg[p] \cap gone # {}))
    /\ UNCHANGED <<now, lock, born, deadline, guarded, gone, reg, saw, saved>>

\* Drop removes the lock file, whosever it is.
Release(p) ==
    /\ Goto(p, "drop", "done")
    /\ lock' = IF p \in guarded THEN NoProc ELSE lock
    /\ guarded' = guarded \ {p}
    /\ trespass' = (trespass \/ (p \in guarded /\ lock \notin {p, NoProc}))
    /\ UNCHANGED <<now, born, deadline, saw, data>>

---------------------------------------------------------------------------
(* The machine. *)

Die(p) ==
    /\ pc[p] \notin {"idle", "done", "dead"}
    /\ Cardinality({q \in Procs : pc[q] = "dead"}) < MaxDead
    /\ pc' = [pc EXCEPT ![p] = "dead"]
    /\ guarded' = guarded \ {p}
    /\ UNCHANGED <<now, lock, born, deadline, saw, data, trespass>>

\* An image is pruned or a file deleted.
Vanish(p) ==
    /\ p \in saved \ gone
    /\ gone' = gone \cup {p}
    /\ UNCHANGED <<now, lock, born, pc, deadline, guarded, entries, reg, saw, saved, trespass>>

\* Time passes, at most LOCK_STALE_SECS while a live process holds the lock.
Tick ==
    /\ now < MaxNow
    /\ lock \in guarded => now - born < LOCK_STALE_SECS
    /\ now' = now + 1
    /\ UNCHANGED <<lock, born, pc, deadline, guarded, saw, data, trespass>>

Next ==
    \/ \E p \in Procs :
           \/ Start(p) \/ Create(p) \/ FindStale(p) \/ Reclaim(p) \/ GiveUp(p)
           \/ Load(p) \/ StoreSave(p) \/ StoreList(p) \/ Release(p) \/ Die(p) \/ Vanish(p)
    \/ Tick

Spec == Init /\ [][Next]_vars

---------------------------------------------------------------------------
(* Properties. *)

\* "lets concurrent /loop wave members serialize their registry writes instead
\* of clobbering each other" (registry.rs:134-136): what has been saved is in
\* the registry as long as its artifact is there, though processes die with the
\* lock in their hands, unless two of them reclaimed one stale lock or a listing
\* that gave up on the lock pruned the registry without it.
SavesKept == ~trespass => saved \ gone \subseteq entries
=============================================================================
