-------------------------- MODULE HostMembersProofs --------------------------
(***************************************************************************)
(* Proofs about the programs on the members' own machines (HostMembers;    *)
(* the definitions of each carry its prefix).  Each section has the        *)
(* inductive invariant of one program and a lemma per group of its steps;  *)
(* MembersProofs draws the theorems from them.                             *)
(***************************************************************************)
EXTENDS HostMembers, FiniteSetTheorems, TLAPS

----------------------------------------------------------------------------
(* RegistryLock. *)


Clocked == LOCK_STALE_SECS \in Nat /\ MaxNow \in Nat /\ NoProc \notin Reg!Procs

\* A lock in somebody's hands is not stale; one found stale is.
Ages ==
    /\ lock \in guarded => clock - born <= LOCK_STALE_SECS
    /\ \A p \in Reg!Procs : doing[p] = "stale" => clock - saw[p].born > LOCK_STALE_SECS

\* Who is going to save has taken the lock.
SaversGuarded ==
    \A p \in Savers : doing[p] \in {"load", "store", "drop"} => p \in guarded

\* Nobody else has the lock that a process is going to drop, and its copy of
\* the registry is the registry.
Exclusive ==
    \A p \in guarded : lock = p /\ (doing[p] = "store" => reg[p] = entries)

RegInv == Reg!TypeOK /\ Ages /\ SaversGuarded /\ (~trespass => Exclusive /\ Reg!SavesKept)

LEMMA RegStart ==
    ASSUME Clocked, Reg!Init
    PROVE  RegInv
<1>1. Reg!Nil \in [of : Reg!Procs \cup {NoProc}, born : 0..MaxNow]
  BY DEF Clocked, Reg!Nil
<1>2. 0 \in 0 .. MaxNow + LOCK_STALE_SECS + 1 /\ 0 \in 0..MaxNow
  BY DEF Clocked
<1>3. Reg!TypeOK
  BY <1>1, <1>2 DEF Reg!Init, Reg!TypeOK
<1>4. Ages /\ SaversGuarded /\ Exclusive /\ Reg!SavesKept
  BY DEF Reg!Init, Ages, SaversGuarded, Exclusive, Reg!SavesKept, Reg!Procs
<1> QED
  BY <1>3, <1>4 DEF RegInv

\* Types.
LEMMA RegTypeStep ==
    ASSUME Clocked, Reg!TypeOK, [Reg!Next]_(Reg!vars)
    PROVE  Reg!TypeOK'
<1> USE DEF Clocked, Reg!TypeOK, Reg!Goto, Reg!data
<1>1. CASE UNCHANGED Reg!vars
  BY <1>1 DEF Reg!vars
<1>2. ASSUME NEW p \in Reg!Procs, Reg!Start(p)
      PROVE  Reg!TypeOK'
  <2>1. clock + LOCK_STALE_SECS + 1 \in 0 .. MaxNow + LOCK_STALE_SECS + 1
    OBVIOUS
  <2> QED
    BY <1>2, <2>1 DEF Reg!Start
<1>3. ASSUME NEW p \in Reg!Procs, Reg!Create(p)
      PROVE  Reg!TypeOK'
  BY <1>3 DEF Reg!Create
<1>a. ASSUME NEW p \in Reg!Procs, Reg!GiveUp(p)
      PROVE  Reg!TypeOK'
  <2>1. (IF p \in Savers THEN "done" ELSE "load") \in {"done", "load"}
    OBVIOUS
  <2>2. doing' \in [Reg!Procs ->
                   {"idle", "try", "stale", "load", "store", "drop", "done", "dead"}]
    BY <1>a, <2>1 DEF Reg!GiveUp
  <2> QED
    BY <1>a, <2>2 DEF Reg!GiveUp
<1>b. ASSUME NEW p \in Reg!Procs, Reg!Release(p)
      PROVE  Reg!TypeOK'
  BY <1>b DEF Reg!Release
<1>4. ASSUME NEW p \in Reg!Procs, Reg!FindStale(p)
      PROVE  Reg!TypeOK'
  <2>1. [of |-> lock, born |-> born] \in [of : Reg!Procs \cup {NoProc}, born : 0..MaxNow]
    OBVIOUS
  <2> QED
    BY <1>4, <2>1 DEF Reg!FindStale
<1>c. ASSUME NEW p \in Reg!Procs, Reg!Reclaim(p)
      PROVE  Reg!TypeOK'
  <2>1. Reg!Nil \in [of : Reg!Procs \cup {NoProc}, born : 0..MaxNow]
    BY DEF Reg!Nil
  <2>2. trespass' \in BOOLEAN
    BY <1>c DEF Reg!Reclaim
  <2>3. saw' \in [Reg!Procs -> [of : Reg!Procs \cup {NoProc}, born : 0..MaxNow]]
    BY <1>c, <2>1 DEF Reg!Reclaim
  <2> QED
    BY <1>c, <2>2, <2>3 DEF Reg!Reclaim
<1>5. ASSUME NEW p \in Reg!Procs,
             Reg!Load(p) \/ Reg!StoreSave(p) \/ Reg!StoreList(p) \/ Reg!Vanish(p)
      PROVE  Reg!TypeOK'
  BY <1>5 DEF Reg!Load, Reg!StoreSave, Reg!StoreList, Reg!Vanish
<1>6. ASSUME NEW p \in Reg!Procs, Reg!Die(p)
      PROVE  Reg!TypeOK'
  BY <1>6 DEF Reg!Die
<1>7. CASE Reg!Tick
  BY <1>7 DEF Reg!Tick
<1> QED
  BY <1>1, <1>2, <1>3, <1>a, <1>b, <1>4, <1>c, <1>5, <1>6,
     <1>7 DEF Reg!Next

LEMMA AgesStep ==
    ASSUME Clocked, Reg!TypeOK, Reg!TypeOK', Ages, [Reg!Next]_(Reg!vars)
    PROVE  Ages'
<1> USE DEF Clocked, Reg!TypeOK, Ages, Reg!Goto, Reg!data
<1>1. CASE UNCHANGED Reg!vars
  BY <1>1 DEF Reg!vars
<1>2. ASSUME NEW p \in Reg!Procs, Reg!Start(p) \/ Reg!GiveUp(p) \/ Reg!Die(p)
      PROVE  Ages'
  BY <1>2 DEF Reg!Start, Reg!GiveUp, Reg!Die
<1>a. ASSUME NEW p \in Reg!Procs, Reg!Create(p)
      PROVE  Ages'
  <2>1. clock' - born' <= LOCK_STALE_SECS
    BY <1>a DEF Reg!Create
  <2>2. \A q \in Reg!Procs : doing'[q] = "stale" => doing[q] = "stale" /\ saw'[q] = saw[q]
    BY <1>a DEF Reg!Create
  <2> QED
    BY <1>a, <2>1, <2>2 DEF Reg!Create
<1>b. ASSUME NEW p \in Reg!Procs, Reg!Release(p)
      PROVE  Ages'
  <2>1. lock' \in guarded' => lock' = lock /\ lock \in guarded
    BY <1>b DEF Reg!Release
  <2>2. \A q \in Reg!Procs : doing'[q] = "stale" => doing[q] = "stale" /\ saw'[q] = saw[q]
    BY <1>b DEF Reg!Release
  <2> QED
    BY <1>b, <2>1, <2>2 DEF Reg!Release
<1>3. ASSUME NEW p \in Reg!Procs, Reg!FindStale(p)
      PROVE  Ages'
  BY <1>3 DEF Reg!FindStale
<1>4. ASSUME NEW p \in Reg!Procs, Reg!Reclaim(p)
      PROVE  Ages'
  BY <1>4 DEF Reg!Reclaim
<1>5. ASSUME NEW p \in Reg!Procs,
             Reg!Load(p) \/ Reg!StoreSave(p) \/ Reg!StoreList(p) \/ Reg!Vanish(p)
      PROVE  Ages'
  BY <1>5 DEF Reg!Load, Reg!StoreSave, Reg!StoreList, Reg!Vanish
<1>6. CASE Reg!Tick
  BY <1>6 DEF Reg!Tick
<1> QED
  BY <1>1, <1>2, <1>a, <1>b, <1>3, <1>4, <1>5, <1>6 DEF Reg!Next

LEMMA GuardedStep ==
    ASSUME Clocked, Reg!TypeOK, SaversGuarded, [Reg!Next]_(Reg!vars)
    PROVE  SaversGuarded'
<1> USE DEF Reg!TypeOK, SaversGuarded, Reg!Goto, Reg!data, Reg!Procs
<1>1. CASE UNCHANGED Reg!vars
  BY <1>1 DEF Reg!vars
<1>2. ASSUME NEW p \in Reg!Procs,
             \/ Reg!Start(p) \/ Reg!Create(p) \/ Reg!FindStale(p) \/ Reg!Reclaim(p)
             \/ Reg!GiveUp(p) \/ Reg!Load(p) \/ Reg!StoreSave(p) \/ Reg!StoreList(p)
             \/ Reg!Release(p) \/ Reg!Die(p) \/ Reg!Vanish(p)
      PROVE  SaversGuarded'
  BY <1>2 DEF Reg!Start, Reg!Create, Reg!FindStale, Reg!Reclaim, Reg!GiveUp, Reg!Load,
              Reg!StoreSave, Reg!StoreList,
              Reg!Release, Reg!Die, Reg!Vanish
<1>3. CASE Reg!Tick
  BY <1>3 DEF Reg!Tick
<1> QED
  BY <1>1, <1>2, <1>3 DEF Reg!Next

\* As long as nobody trespasses, the lock excludes and the registry keeps.
LEMMA KeptStep ==
    ASSUME Clocked, RegInv, ~trespass', [Reg!Next]_(Reg!vars)
    PROVE  Exclusive' /\ Reg!SavesKept'
<1> USE DEF RegInv, Reg!TypeOK, Reg!Goto, Reg!data, Reg!SavesKept
<1>0. ~trespass
  BY DEF Reg!Next, Reg!vars, Reg!Start, Reg!Create, Reg!FindStale, Reg!Reclaim, Reg!GiveUp,
         Reg!Load, Reg!StoreSave, Reg!StoreList,
         Reg!Release, Reg!Die, Reg!Vanish, Reg!Tick
<1>a. Exclusive /\ saved \ missing \subseteq entries
  BY <1>0
<1>1. CASE UNCHANGED Reg!vars
  BY <1>1, <1>a DEF Reg!vars, Exclusive
<1>2. ASSUME NEW p \in Reg!Procs,
             Reg!Start(p) \/ Reg!FindStale(p) \/ Reg!Vanish(p) \/ Reg!GiveUp(p)
               \/ Reg!Die(p)
      PROVE  Exclusive' /\ Reg!SavesKept'
  BY <1>2, <1>a DEF Reg!Start, Reg!FindStale, Reg!Vanish, Reg!GiveUp, Reg!Die, Exclusive,
                    Reg!Procs
<1>3. ASSUME NEW p \in Reg!Procs, Reg!Create(p)
      PROVE  Exclusive' /\ Reg!SavesKept'
  <2>1. guarded = {}
    BY <1>3, <1>a DEF Reg!Create, Exclusive, Clocked
  <2> QED
    BY <1>3, <1>a, <2>1 DEF Reg!Create, Exclusive
<1>4. ASSUME NEW p \in Reg!Procs, Reg!Reclaim(p)
      PROVE  Exclusive' /\ Reg!SavesKept'
  <2>1. lock = NoProc \/ saw[p] = [of |-> lock, born |-> born]
    BY <1>4 DEF Reg!Reclaim
  <2>2. guarded = {}
    BY <1>4, <1>a, <2>1 DEF Reg!Reclaim, Exclusive, Ages, Clocked
  <2> QED
    BY <1>4, <1>a, <2>2 DEF Reg!Reclaim, Exclusive
<1>5. ASSUME NEW p \in Reg!Procs, Reg!Load(p)
      PROVE  Exclusive' /\ Reg!SavesKept'
  BY <1>5, <1>a DEF Reg!Load, Exclusive, Reg!Procs
<1>6. ASSUME NEW p \in Reg!Procs, Reg!StoreSave(p)
      PROVE  Exclusive' /\ Reg!SavesKept'
  <2>1. p \in guarded
    BY <1>6 DEF Reg!StoreSave, SaversGuarded
  <2>2. reg[p] = entries /\ guarded = {p}
    BY <1>6, <1>a, <2>1 DEF Reg!StoreSave, Exclusive
  <2> QED
    BY <1>6, <1>a, <2>2 DEF Reg!StoreSave, Exclusive
<1>7. ASSUME NEW p \in Reg!Procs, Reg!StoreList(p)
      PROVE  Exclusive' /\ Reg!SavesKept'
  <2>1. CASE reg[p] \cap missing = {}
    BY <1>7, <1>a, <2>1 DEF Reg!StoreList, Exclusive
  <2>2. CASE reg[p] \cap missing # {}
    <3>1. p \in guarded
      BY <1>7, <2>2 DEF Reg!StoreList
    <3>2. reg[p] = entries /\ guarded = {p}
      BY <1>7, <1>a, <3>1 DEF Reg!StoreList, Exclusive
    <3> QED
      BY <1>7, <1>a, <2>2, <3>2 DEF Reg!StoreList, Exclusive
  <2> QED
    BY <2>1, <2>2
<1>8. ASSUME NEW p \in Reg!Procs, Reg!Release(p)
      PROVE  Exclusive' /\ Reg!SavesKept'
  <2>1. CASE p \in guarded
    <3>1. guarded = {p}
      BY <1>a, <2>1 DEF Exclusive
    <3> QED
      BY <1>8, <1>a, <3>1 DEF Reg!Release, Exclusive
  <2>2. CASE p \notin guarded
    BY <1>8, <1>a, <2>2 DEF Reg!Release, Exclusive
  <2> QED
    BY <2>1, <2>2
<1>9. CASE Reg!Tick
  BY <1>9, <1>a DEF Reg!Tick, Exclusive
<1> QED
  BY <1>1, <1>2, <1>3, <1>4, <1>5, <1>6, <1>7, <1>8, <1>9 DEF Reg!Next

----------------------------------------------------------------------------
(* DeviceBridge. *)


ProbeApart == Device!PROBE \notin Tasks /\ MaxShells \in Nat

(* Arming. *)

LEMMA ArmStep ==
    ASSUME Device!ArmedHasTimer, [Device!Next]_(Device!vars)
    PROVE  Device!ArmedHasTimer'
<1> USE DEF Device!ArmedHasTimer
<1>1. CASE UNCHANGED Device!vars
  BY <1>1 DEF Device!vars, Device!armVars
<1>2. ASSUME NEW m \in Humans,
             Device!Arm(m) \/ Device!Disarm(m) \/ Device!Stop(m) \/ Device!ConsoleGrants(m)
      PROVE  Device!ArmedHasTimer'
  BY <1>2 DEF Device!Arm, Device!Disarm, Device!Stop, Device!ConsoleGrants, Device!Rest,
              Device!armVars
<1>3. ASSUME NEW t \in Tasks, NEW m \in Humans,
             Device!Open(t, m) \/ \E v \in Device!Verbs : Device!Command(t, m, v)
      PROVE  Device!ArmedHasTimer'
  BY <1>3 DEF Device!Open, Device!Command, Device!Rest, Device!armVars
<1>4. ASSUME NEW t \in Tasks, Device!Dispatch(t) \/ Device!Ran(t) \/ Device!Opened(t)
      PROVE  Device!ArmedHasTimer'
  BY <1>4 DEF Device!Dispatch, Device!Ran, Device!Opened, Device!Rest, Device!armVars
<1>5. ASSUME NEW switch \in BOOLEAN, Device!ConsoleArms(switch)
      PROVE  Device!ArmedHasTimer'
  BY <1>5 DEF Device!ConsoleArms
<1>6. CASE \/ Device!AutoDisarm \/ Device!Probe \/ Device!Probed
           \/ Device!RelayDies \/ Device!EndOfFile \/ Device!CloseEnded
  BY <1>6 DEF Device!AutoDisarm, Device!Probe, Device!Probed, Device!RelayDies,
              Device!EndOfFile, Device!CloseEnded, Device!Rest, Device!armVars
<1>7. ASSUME NEW o \in Humans, NEW ds \in SUBSET Humans, Device!TakeAcl(o, ds)
      PROVE  Device!ArmedHasTimer'
  BY <1>7 DEF Device!TakeAcl, Device!armVars
<1> QED
  BY <1>1, <1>2, <1>3, <1>4, <1>5, <1>6, <1>7 DEF Device!Next

(* The shell: its inductive invariant. *)

ShellTypes ==
    /\ pty \in 0..MaxShells /\ relay \in 0..MaxShells /\ shells \in 0..MaxShells
    /\ status \in {"ready", "ended"}
    /\ command \in [Tasks -> [pc : {"idle", "acked", "port", "opening"}, verb :
         Device!Verbs,
                              shell : 0..MaxShells]]

\* Who is in the port's line waits for it, once.
Line ==
    /\ port \in Seq(Tasks \cup {Device!PROBE})
    /\ \A i \in DOMAIN port : port[i] \in Tasks => command[port[i]].pc = "port"
    /\ \A i, j \in DOMAIN port : port[i] = port[j] => i = j

\* A shell is announced, or about to be by the command that opened it.
ShellAnnounced ==
    /\ status = "ready" => pty # Device!NoShell
    /\ pty # Device!NoShell /\ status # "ready" =>
           \E t \in Tasks : command[t].pc = "opening" /\ command[t].shell = pty

ShellInv == ShellTypes /\ Line /\ ShellAnnounced

LEMMA ShellStart ==
    ASSUME ProbeApart, Device!Init
    PROVE  ShellInv
<1>1. Device!Idle \in [pc : {"idle", "acked", "port", "opening"}, verb :
        Device!Verbs, shell : 0..MaxShells]
  BY DEF ProbeApart, Device!Idle, Device!Verbs, Device!NoShell
<1> QED
  BY <1>1 DEF ProbeApart, Device!Init, ShellInv, ShellTypes, Line, ShellAnnounced,
              Device!NoShell

\* The next in line is served, or one joins it.
LEMMA LineMoves ==
    ASSUME Line, port # <<>>
    PROVE  /\ Tail(port) \in Seq(Tasks \cup {Device!PROBE})
           /\ \A i \in DOMAIN Tail(port) : /\ i + 1 \in DOMAIN port
                                           /\ Tail(port)[i] = port[i + 1]
                                           /\ Tail(port)[i] # Head(port)
           /\ \A i, j \in DOMAIN Tail(port) : Tail(port)[i] = Tail(port)[j] => i = j
<1>1. Tail(port) \in Seq(Tasks \cup {Device!PROBE}) /\ Len(Tail(port)) = Len(port) - 1
  BY DEF Line
<1>2. \A i \in 1 .. Len(port) - 1 : Tail(port)[i] = port[i + 1]
  BY DEF Line
<1>3. DOMAIN Tail(port) = 1 .. Len(port) - 1 /\ DOMAIN port = 1 .. Len(port)
      /\ Len(port) \in Nat /\ Head(port) = port[1]
  BY <1>1 DEF Line
<1> QED
  BY <1>1, <1>2, <1>3 DEF Line

LEMMA LineGrows ==
    ASSUME Line, NEW x \in Tasks \cup {Device!PROBE}, \A i \in DOMAIN port : port[i] # x
    PROVE  /\ Append(port, x) \in Seq(Tasks \cup {Device!PROBE})
           /\ \A i \in DOMAIN Append(port, x) :
                 \/ i \in DOMAIN port /\ Append(port, x)[i] = port[i]
                 \/ i = Len(port) + 1 /\ Append(port, x)[i] = x
           /\ \A i, j \in DOMAIN Append(port, x) :
                 Append(port, x)[i] = Append(port, x)[j] => i = j
<1>1. Append(port, x) \in Seq(Tasks \cup {Device!PROBE})
        /\ Len(Append(port, x)) = Len(port) + 1
  BY DEF Line
<1>2. \A i \in 1 .. Len(port) : Append(port, x)[i] = port[i]
  BY DEF Line
<1>3. Append(port, x)[Len(port) + 1] = x /\ Len(port) \in Nat
  BY DEF Line
<1>4. DOMAIN Append(port, x) = 1 .. Len(port) + 1 /\ DOMAIN port = 1 .. Len(port)
  BY <1>1, <1>3 DEF Line
<1> QED
  BY <1>1, <1>2, <1>3, <1>4 DEF Line

\* What leaves the shell alone, and the commands that open one, keeps what is
\* announced.
LEMMA ShellKept ==
    ASSUME ShellInv, UNCHANGED Device!shellVars, UNCHANGED <<command, port>>
    PROVE  ShellInv'
BY DEF ShellInv, ShellTypes, Line, ShellAnnounced, Device!shellVars

LEMMA CommandStep ==
    ASSUME ProbeApart, ShellInv, NEW t \in Tasks, NEW m \in Humans, NEW v \in Device!Verbs,
           Device!Command(t, m, v)
    PROVE  ShellInv'
<1> DEFINE c == [Device!Idle EXCEPT !.pc = "acked", !.verb = v]
<1>1. c \in [pc : {"idle", "acked", "port", "opening"}, verb : Device!Verbs, shell :
        0..MaxShells]
      /\ c.pc = "acked"
  <2> DEFINE T == [pc : {"idle", "acked", "port", "opening"}, verb : Device!Verbs,
                   shell : 0..MaxShells]
             d == [Device!Idle EXCEPT !.pc = "acked"]
  <2>1. Device!Idle \in T
    BY DEF ProbeApart, Device!Idle, Device!Verbs, Device!NoShell
  <2>2. d \in T /\ d.pc = "acked"
    BY <2>1
  <2>3. c = [d EXCEPT !.verb = v]
    OBVIOUS
  <2> HIDE DEF d
  <2>4. [d EXCEPT !.verb = v] \in T /\ [d EXCEPT !.verb = v].pc = "acked"
    BY <2>2
  <2> QED
    BY <2>3, <2>4
<1>2. command[t].pc = "idle" /\ command' = [command EXCEPT ![t] = c]
      /\ port' = port /\ UNCHANGED Device!shellVars
  BY DEF Device!Command
<1> HIDE DEF c
<1>3. ShellTypes'
  BY <1>1, <1>2 DEF ShellInv, ShellTypes, Device!shellVars
<1>4. Line'
  BY <1>1, <1>2 DEF ShellInv, Line, ShellTypes
<1>5. ShellAnnounced'
  BY <1>1, <1>2 DEF ShellInv, ShellTypes, ShellAnnounced, Device!shellVars
<1> QED
  BY <1>3, <1>4, <1>5 DEF ShellInv

LEMMA DispatchStep ==
    ASSUME ProbeApart, ShellInv, NEW t \in Tasks, Device!Dispatch(t)
    PROVE  ShellInv'
<1>1. Device!Idle \in [pc : {"idle", "acked", "port", "opening"}, verb :
        Device!Verbs, shell : 0..MaxShells]
      /\ Device!Idle.pc = "idle"
  BY DEF ProbeApart, Device!Idle, Device!Verbs, Device!NoShell
<1>2. command[t].pc = "acked" /\ UNCHANGED Device!shellVars
  BY DEF Device!Dispatch
<1>3. ASSUME command' = [command EXCEPT ![t] = Device!Idle], port' = port
      PROVE  ShellInv'
  <2>1. ShellTypes'
    BY <1>1, <1>2, <1>3 DEF ShellInv, ShellTypes, Device!shellVars
  <2>2. Line'
    BY <1>1, <1>2, <1>3 DEF ShellInv, Line, ShellTypes
  <2>3. ShellAnnounced'
    BY <1>1, <1>2, <1>3 DEF ShellInv, ShellTypes, ShellAnnounced, Device!shellVars
  <2> QED
    BY <2>1, <2>2, <2>3 DEF ShellInv
<1>4. ASSUME command' = [command EXCEPT ![t].pc = "port"], port' = Append(port, t)
      PROVE  ShellInv'
  <2>1. ShellTypes' /\ command'[t].pc = "port"
    BY <1>2, <1>4 DEF ShellInv, ShellTypes, Device!shellVars
  <2>2. \A i \in DOMAIN port : port[i] # t
    BY <1>2 DEF ShellInv, Line
  <2>3. \A u \in Tasks : u # t => command'[u] = command[u]
    BY <1>4 DEF ShellInv, ShellTypes
  <2>4. Line'
    BY <1>4, <2>1, <2>2, <2>3, LineGrows DEF ShellInv, Line
  <2>5. ShellAnnounced'
    BY <1>2, <2>3 DEF ShellInv, ShellAnnounced, Device!shellVars
  <2> QED
    BY <2>1, <2>4, <2>5 DEF ShellInv
<1> QED
  BY <1>3, <1>4 DEF Device!Dispatch

LEMMA RanStep ==
    ASSUME ProbeApart, ShellInv, NEW t \in Tasks, Device!Ran(t)
    PROVE  ShellInv'
<1>1. Device!Idle \in [pc : {"idle", "acked", "port", "opening"}, verb :
        Device!Verbs, shell : 0..MaxShells]
      /\ Device!Idle.pc = "idle"
  BY DEF ProbeApart, Device!Idle, Device!Verbs, Device!NoShell
<1>2. /\ port # <<>> /\ Head(port) = t /\ port' = Tail(port)
      /\ command' = [command EXCEPT ![t] = Device!Idle] /\ UNCHANGED Device!shellVars
  BY DEF Device!Ran
<1>3. command[t].pc = "port"
  BY <1>2 DEF ShellInv, Line
<1>4. ShellTypes'
  BY <1>1, <1>2 DEF ShellInv, ShellTypes, Device!shellVars
<1>5. \A u \in Tasks : u # t => command'[u] = command[u]
  BY <1>2 DEF ShellInv, ShellTypes
<1>6. Line'
  BY <1>2, <1>5, LineMoves DEF ShellInv, Line
<1>7. ShellAnnounced'
  BY <1>2, <1>3, <1>5 DEF ShellInv, ShellAnnounced, Device!shellVars
<1> QED
  BY <1>4, <1>6, <1>7 DEF ShellInv

LEMMA ProbeStep ==
    ASSUME ProbeApart, ShellInv, Device!Probe \/ Device!Probed
    PROVE  ShellInv'
<1>1. command' = command /\ UNCHANGED Device!shellVars
  BY DEF Device!Probe, Device!Probed
<1>2. ShellTypes' /\ ShellAnnounced'
  BY <1>1 DEF ShellInv, ShellTypes, ShellAnnounced, Device!shellVars
<1>3. CASE port' = port
  BY <1>1, <1>2, <1>3 DEF ShellInv, Line
<1>4. CASE Device!Probe /\ port' = Append(port, Device!PROBE)
  <2>1. \A i \in DOMAIN port : port[i] # Device!PROBE
    BY <1>4 DEF Device!Probe, Device!ToSet
  <2>2. Line'
    BY <1>1, <1>4, <2>1, LineGrows DEF ShellInv, Line, ProbeApart
  <2> QED
    BY <1>2, <2>2 DEF ShellInv
<1>5. CASE Device!Probed
  <2>1. Line'
    BY <1>1, <1>5, LineMoves DEF ShellInv, Line, Device!Probed
  <2> QED
    BY <1>2, <2>1 DEF ShellInv
<1> QED
  BY <1>3, <1>4, <1>5 DEF Device!Probe

LEMMA OpenStep ==
    ASSUME ProbeApart, ShellInv, NEW t \in Tasks, NEW m \in Humans, Device!Open(t, m)
    PROVE  ShellInv'
<1> DEFINE c == [Device!Idle EXCEPT !.pc = "opening", !.shell = shells']
<1>1. /\ command[t].pc = "idle" /\ shells' = shells + 1 /\ shells < MaxShells
      /\ pty = Device!NoShell /\ pty' = shells' /\ relay' = shells'
      /\ command' = [command EXCEPT ![t] = c] /\ port' = port /\ status' = status
  BY DEF Device!Open
<1>2. shells' \in 1..MaxShells
  BY <1>1 DEF ShellInv, ShellTypes, ProbeApart
<1>3. c \in [pc : {"idle", "acked", "port", "opening"}, verb : Device!Verbs, shell :
        0..MaxShells]
      /\ c.pc = "opening" /\ c.shell = shells'
  <2> DEFINE T == [pc : {"idle", "acked", "port", "opening"}, verb : Device!Verbs,
                   shell : 0..MaxShells]
             d == [Device!Idle EXCEPT !.pc = "opening"]
  <2>1. Device!Idle \in T
    BY DEF ProbeApart, Device!Idle, Device!Verbs, Device!NoShell
  <2>2. d \in T /\ d.pc = "opening"
    BY <2>1
  <2>3. c = [d EXCEPT !.shell = shells']
    OBVIOUS
  <2> HIDE DEF d
  <2>4. [d EXCEPT !.shell = shells'] \in T /\ [d EXCEPT !.shell = shells'].pc = "opening"
        /\ [d EXCEPT !.shell = shells'].shell = shells'
    BY <1>2, <2>2
  <2> QED
    BY <2>3, <2>4
<1> HIDE DEF c
<1>4. ShellTypes'
  BY <1>1, <1>2, <1>3 DEF ShellInv, ShellTypes, ProbeApart
<1>5. Line'
  BY <1>1, <1>3 DEF ShellInv, Line, ShellTypes
<1>6. command'[t].pc = "opening" /\ command'[t].shell = pty' /\ pty' # Device!NoShell
  BY <1>1, <1>2, <1>3 DEF ShellInv, ShellTypes, Device!NoShell
<1>7. ShellAnnounced'
  BY <1>6 DEF ShellAnnounced
<1> QED
  BY <1>4, <1>5, <1>7 DEF ShellInv

LEMMA OpenedStep ==
    ASSUME ProbeApart, ShellInv, NEW t \in Tasks, Device!Opened(t)
    PROVE  ShellInv'
<1>1. Device!Idle \in [pc : {"idle", "acked", "port", "opening"}, verb :
        Device!Verbs, shell : 0..MaxShells]
      /\ Device!Idle.pc = "idle"
  BY DEF ProbeApart, Device!Idle, Device!Verbs, Device!NoShell
<1>2. /\ command[t].pc = "opening" /\ command' = [command EXCEPT ![t] = Device!Idle]
      /\ UNCHANGED <<port, pty, relay, shells>>
  BY DEF Device!Opened
<1>3. \/ pty # Device!NoShell /\ status' = "ready"
      \/ pty # command[t].shell /\ status' = status
  BY DEF Device!Opened
<1>4. ShellTypes'
  BY <1>1, <1>2, <1>3 DEF ShellInv, ShellTypes
<1>5. Line'
  BY <1>1, <1>2 DEF ShellInv, Line, ShellTypes
<1>6. ShellAnnounced'
  BY <1>1, <1>2, <1>3 DEF ShellInv, ShellTypes, ShellAnnounced
<1> QED
  BY <1>4, <1>5, <1>6 DEF ShellInv

LEMMA CloseStep ==
    ASSUME ProbeApart, ShellInv,
           \/ Device!RelayDies \/ Device!EndOfFile \/ Device!CloseEnded
           \/ \E m \in Humans : Device!Stop(m)
    PROVE  ShellInv'
<1>1. UNCHANGED <<command, port, shells>>
  BY DEF Device!RelayDies, Device!EndOfFile, Device!CloseEnded, Device!Stop
<1>2. relay' \in {relay, Device!NoShell}
        /\ (<<pty, status>>' = <<pty, status>> \/ Device!Closed)
  BY DEF Device!RelayDies, Device!EndOfFile, Device!CloseEnded, Device!Stop, Device!Closed
<1> QED
  BY <1>1, <1>2 DEF ShellInv, ShellTypes, Line, ShellAnnounced, Device!Closed,
                    Device!NoShell, ProbeApart

LEMMA ShellStep ==
    ASSUME ProbeApart, ShellInv, [Device!Next]_(Device!vars)
    PROVE  ShellInv'
<1>1. CASE UNCHANGED Device!vars
  BY <1>1, ShellKept DEF Device!vars
<1>2. ASSUME NEW m \in Humans,
             Device!Arm(m) \/ Device!Disarm(m) \/ Device!ConsoleGrants(m)
      PROVE  ShellInv'
  BY <1>2, ShellKept DEF Device!Arm, Device!Disarm, Device!ConsoleGrants
<1>3. CASE Device!AutoDisarm \/ \E switch \in BOOLEAN : Device!ConsoleArms(switch)
  BY <1>3, ShellKept DEF Device!AutoDisarm, Device!ConsoleArms
<1>4. ASSUME NEW o \in Humans, NEW ds \in SUBSET Humans, Device!TakeAcl(o, ds)
      PROVE  ShellInv'
  BY <1>4, ShellKept DEF Device!TakeAcl
<1> QED
  BY <1>1, <1>2, <1>3, <1>4, CommandStep, DispatchStep, RanStep, ProbeStep, OpenStep,
     OpenedStep, CloseStep DEF Device!Next

\* Whoever commands, what is no shell keeps its type.
DeviceFlags ==
    /\ owner \in Humans \cup {Nobody} /\ drivers \subseteq Humans
    /\ armed \in BOOLEAN /\ armedBy \in {"chat", "console"}
    /\ timer \in {"none", "pending", "done"}
    /\ present \in BOOLEAN /\ ending \in BOOLEAN /\ watched \in BOOLEAN

LEMMA FlagsStart ==
    ASSUME Device!Init
    PROVE  DeviceFlags
<1>1. armed = FALSE /\ present = TRUE /\ ending = FALSE /\ watched = FALSE
  BY Zenon DEF Device!Init
<1>2. armed \in BOOLEAN /\ present \in BOOLEAN /\ ending \in BOOLEAN /\ watched \in BOOLEAN
  BY <1>1, Zenon
<1> QED
  BY <1>2 DEF Device!Init, DeviceFlags

LEMMA FlagsStep ==
    ASSUME DeviceFlags, [Device!Next]_(Device!vars)
    PROVE  DeviceFlags'
<1>1. ASSUME NEW m \in Humans,
             Device!Arm(m) \/ Device!Disarm(m) \/ Device!Stop(m) \/ Device!ConsoleGrants(m)
      PROVE  DeviceFlags'
  BY <1>1 DEF DeviceFlags, Device!Arm, Device!Disarm, Device!Stop, Device!ConsoleGrants,
              Device!Closed, Device!Rest, Device!armVars, Device!shellVars
<1>2. ASSUME NEW t \in Tasks, NEW m \in Humans,
             Device!Open(t, m) \/ \E v \in Device!Verbs : Device!Command(t, m, v)
      PROVE  DeviceFlags'
  BY <1>2 DEF DeviceFlags, Device!Open, Device!Command, Device!Rest, Device!armVars,
              Device!shellVars
<1>3. ASSUME NEW t \in Tasks, Device!Dispatch(t) \/ Device!Ran(t) \/ Device!Opened(t)
      PROVE  DeviceFlags'
  BY <1>3 DEF DeviceFlags, Device!Dispatch, Device!Ran, Device!Opened, Device!Rest,
              Device!armVars, Device!shellVars
<1>4. ASSUME NEW on \in BOOLEAN, Device!ConsoleArms(on) PROVE DeviceFlags'
  BY <1>4 DEF DeviceFlags, Device!ConsoleArms, Device!shellVars
<1>5. ASSUME Device!AutoDisarm \/ Device!Probe \/ Device!Probed PROVE DeviceFlags'
  BY <1>5 DEF DeviceFlags, Device!AutoDisarm, Device!Probe, Device!Probed, Device!armVars,
              Device!shellVars
<1>6. ASSUME Device!RelayDies \/ Device!EndOfFile \/ Device!CloseEnded PROVE DeviceFlags'
  BY <1>6 DEF DeviceFlags, Device!RelayDies, Device!EndOfFile, Device!CloseEnded,
              Device!Closed, Device!Rest, Device!armVars, Device!shellVars
<1>7. ASSUME NEW o \in Humans, NEW ds \in SUBSET Humans, Device!TakeAcl(o, ds)
      PROVE  DeviceFlags'
  BY <1>7 DEF DeviceFlags, Device!TakeAcl, Device!armVars, Device!shellVars
<1>8. CASE UNCHANGED Device!vars
  BY <1>8 DEF DeviceFlags, Device!vars, Device!armVars, Device!shellVars
<1> QED
  BY <1>1, <1>2, <1>3, <1>4, <1>5, <1>6, <1>7, <1>8 DEF Device!Next

LEMMA DeviceTyped ==
    ASSUME DeviceFlags, ShellInv
    PROVE  Device!TypeOK
BY DEF DeviceFlags, ShellInv, ShellTypes, Line, Device!TypeOK, Device!IsInjective

----------------------------------------------------------------------------
(* EgressGateway. *)

NoLaunchIsNone == NoLaunch \notin Launches

\* From its start until the sandbox runs or will not run.
Launching(l) == step[l] \in {"posture", "replace", "create", "boot", "write", "load", "run",
                           "resolve"}
Fronted(l) == step[l] \in {"replace", "create", "boot", "write", "load"}
\* The gateway a launch goes on with is the one it made.
Behind(l) ==
    \/ step[l] \in {"boot", "write", "load"}
    \/ step[l] = "run" /\ mode[l] \in Egress!Gated

\* Launches at work on one name have met.
Met ==
    \A k, l \in Launches :
        k # l /\ sandbox[k] = sandbox[l] /\ Launching(k) /\ Launching(l) =>
            k \in crossed /\ l \in crossed

\* What was asked for, or what it may come to.
Asked ==
    \A l \in Launches :
        /\ step[l] # "new" =>
               \/ mode[l] = "none"
               \/ mode[l] = posture[l] /\ posture[l] # "auto"
               \/ posture[l] = "auto" /\ mode[l] \in {"tor", "local"}
        /\ Fronted(l) => mode[l] \in Egress!Gated

\* Another's gateway in the place of the one made: the two have met.
OwnGateway ==
    \A l \in Launches : Behind(l) /\ Egress!Own(l) # l /\ Egress!Own(l) # NoLaunch =>
        l \in crossed /\ Egress!Own(l) \in crossed

\* The rules a launch wrote and loaded are those of what it has come to.
OwnRules ==
    \A l \in Launches \ crossed :
        /\ step[l] \in {"boot", "write", "load"} =>
             script[l] \in {"none", Egress!RulesOf(mode[l])}
        /\ step[l] = "run"
             /\ mode[l] \in Egress!Gated => Egress!RulesOf(mode[l]) \in rules[l]

\* Who made a sandbox has launched it.
Made ==
    \A n \in Sandboxes : \A l \in Launches :
        box[n] = l => step[l] \in {"resolve", "done", "down", "gone"}

EgressInv == Egress!TypeOK /\ Met /\ Asked /\ OwnGateway /\ OwnRules /\ Made
  /\ Egress!EgressKept

LEMMA EgressStart ==
    ASSUME NoLaunchIsNone, Egress!Init
    PROVE  EgressInv
<1>1. Egress!TypeOK
  BY DEF Egress!Init, Egress!TypeOK
<1> QED
  BY <1>1 DEF NoLaunchIsNone, Egress!Init, EgressInv, Met, Asked, OwnGateway, OwnRules,
              Made,
     Egress!EgressKept, Launching, Fronted, Behind

\* The moves of one launch that leave the filters and the sandboxes alone and
\* do not reach the gateway.
LEMMA EgressMoves ==
    ASSUME EgressInv, NEW l \in Launches, NEW to, Egress!Goto(l, to),
           to \in {"refused", "replace", "create", "run", "done", "gone", "down"},
           mode' \in [Launches -> Egress!Postures],
           \A k \in Launches : k # l => mode'[k] = mode[k],
           \/ mode'[l] = "none"
           \/ mode'[l] = mode[l] /\ step[l] # "new"
           \/ posture[l] = "auto" /\ mode'[l] \in {"tor", "local"},
           to \in {"replace", "create"} => mode'[l] \in Egress!Gated,
           to = "run" => mode'[l] \notin Egress!Gated,
           to \in {"replace", "create", "run"} => Launching(l),
           step[l] # "gone",
           to \in {"done", "gone", "down"} <=> step[l] \in {"resolve", "done", "down"},
           \A n \in Sandboxes : gateway'[n] \in {gateway[n], NoLaunch},
           gateway' \in [Sandboxes -> Launches \cup {NoLaunch}],
           \A n \in Sandboxes : box'[n] \in {box[n], NoLaunch},
           box' \in [Sandboxes -> Launches \cup {NoLaunch}], NoLaunchIsNone,
           UNCHANGED <<sandbox, posture, script, rules, net, crossed>>
    PROVE  EgressInv'
<1> USE DEF EgressInv, Egress!TypeOK, Egress!Goto
<1>1. Egress!TypeOK'
  OBVIOUS
<1>2. Met'
  BY DEF Met, Launching
<1>3. Asked'
  BY DEF Asked, Fronted
<1>4. OwnGateway'
  BY DEF OwnGateway, Behind, Egress!Own
<1>5. OwnRules'
  BY DEF OwnRules, Egress!RulesOf
<1>6. Made'
  BY DEF Made, NoLaunchIsNone
<1>7. Egress!EgressKept'
  BY DEF Egress!EgressKept, NoLaunchIsNone
<1> QED
  BY <1>1, <1>2, <1>3, <1>4, <1>5, <1>6, <1>7

\* Launches at work on one name when one more starts there.
LEMMA EgressStarts ==
    ASSUME NoLaunchIsNone, EgressInv, NEW l \in Launches, Egress!Start(l)
    PROVE  EgressInv'
<1> USE DEF EgressInv, Egress!TypeOK
<1>1. /\ step[l] = "new" /\ step' = [step EXCEPT ![l] = "posture"]
      /\ box' = [box EXCEPT ![sandbox[l]] = NoLaunch]
      /\ UNCHANGED <<sandbox, posture, gateway, script, rules, net>>
  BY DEF Egress!Start, Egress!Step, Egress!Goto, Egress!launched, Egress!filters
<1>2. PICK m \in Egress!Preferred(posture[l]) : mode' = [mode EXCEPT ![l] = m]
  BY DEF Egress!Start
<1>3. m \in Egress!Postures /\ m # "auto"
        /\ (m = posture[l] \/ (posture[l] = "auto" /\ m \in {"tor", "local"}))
  BY DEF Egress!Preferred, Egress!Postures
<1>4. /\ crossed \subseteq crossed' /\ crossed' \subseteq Launches
      /\ \A k \in Launches : k # l /\ Egress!Busy(k) /\ sandbox[k] = sandbox[l] =>
             k \in crossed' /\ l \in crossed'
  BY DEF Egress!Start
<1>5. Egress!TypeOK'
  BY <1>1, <1>2, <1>3, <1>4
<1>6. Met'
  BY <1>1, <1>4 DEF Met, Launching, Egress!Busy
<1>7. Asked'
  BY <1>1, <1>2, <1>3 DEF Asked, Fronted
<1>8. OwnGateway'
  BY <1>1, <1>2, <1>4 DEF OwnGateway, Behind, Egress!Own
<1>9. OwnRules'
  BY <1>1, <1>2, <1>4 DEF OwnRules, Egress!RulesOf
<1>10. Made'
  BY <1>1 DEF Made, NoLaunchIsNone
<1>11. Egress!EgressKept'
  BY <1>1, <1>4 DEF Egress!EgressKept, NoLaunchIsNone
<1> QED
  BY <1>5, <1>6, <1>7, <1>8, <1>9, <1>10, <1>11

\* What Refuse does to a launch whose gateway is not there yet.
LEMMA EgressRefuses ==
    ASSUME NoLaunchIsNone, EgressInv, NEW l \in Launches, Fronted(l), Egress!Refuse(l),
           UNCHANGED <<Egress!launched, script, rules, Egress!running, crossed>>,
           \/ UNCHANGED gateway
           \/ gateway' = [gateway EXCEPT ![sandbox[l]] = NoLaunch]
    PROVE  EgressInv'
<1> USE DEF EgressInv
<1>1. mode[l] \in Egress!Gated
  BY DEF Asked
<1>2. /\ gateway' \in [Sandboxes -> Launches \cup {NoLaunch}]
      /\ \A n \in Sandboxes : gateway'[n] \in {gateway[n], NoLaunch}
  BY DEF Egress!TypeOK
<1>3. UNCHANGED <<sandbox, posture, script, rules, box, net, crossed>>
  BY DEF Egress!launched, Egress!running
<1>4. step[l] \notin {"new", "gone", "resolve", "done", "down"}
  BY DEF Fronted
<1>5. CASE posture[l] = "auto" /\ mode[l] = "tor"
  <2>1. mode' = [mode EXCEPT ![l] = "local"] /\ Egress!Goto(l, "replace")
    BY <1>5 DEF Egress!Refuse
  <2>2. mode' \in [Launches -> Egress!Postures] /\ mode'[l] = "local"
    BY <2>1 DEF Egress!TypeOK, Egress!Postures
  <2>3. \A k \in Launches : k # l => mode'[k] = mode[k]
    BY <2>1 DEF Egress!TypeOK
  <2> QED
    BY <1>2, <1>3, <1>4, <1>5, <2>1, <2>2, <2>3, EgressMoves DEF Egress!TypeOK,
                                                                 Egress!Gated, Fronted,
                                                                 Launching
<1>6. CASE ~(posture[l] = "auto" /\ mode[l] = "tor")
  <2>1. UNCHANGED mode /\ Egress!Goto(l, "refused")
    BY <1>6 DEF Egress!Refuse
  <2> QED
    BY <1>2, <1>3, <1>4, <2>1, EgressMoves DEF Egress!TypeOK
<1> QED
  BY <1>5, <1>6

LEMMA Removed ==
    ASSUME Egress!TypeOK, NEW n \in Sandboxes, Egress!RemoveGateway(n)
    PROVE  /\ gateway' \in [Sandboxes -> Launches \cup {NoLaunch}]
           /\ \A m \in Sandboxes : gateway'[m] \in {gateway[m], NoLaunch}
           /\ \/ UNCHANGED gateway
              \/ gateway' = [gateway EXCEPT ![n] = NoLaunch]
BY DEF Egress!RemoveGateway, Egress!TypeOK

\* The steps before the gateway and after the sandbox.
LEMMA EgressRests ==
    ASSUME NoLaunchIsNone, EgressInv, NEW l \in Launches,
           \/ Egress!Harden(l) \/ Egress!Decide(l) \/ Egress!Replace(l)
                \/ Egress!PostJoin(l)
           \/ Egress!TakeDown(l) \/ Egress!Down(l)
    PROVE  EgressInv'
<1> USE DEF EgressInv
<1>0. Egress!TypeOK /\ sandbox[l] \in Sandboxes
  BY DEF Egress!TypeOK
<1>1. CASE Egress!Harden(l)
  <2>1. /\ step[l] = "posture" /\ Egress!Goto(l, "run")
             /\ mode' = [mode EXCEPT ![l] = "none"]
        /\ UNCHANGED <<sandbox, posture, gateway, script, rules, box, net, crossed>>
    BY <1>1 DEF Egress!Harden, Egress!Step, Egress!launched, Egress!filters, Egress!running
  <2>2. mode' \in [Launches -> Egress!Postures] /\ mode'[l] = "none"
        /\ \A k \in Launches : k # l => mode'[k] = mode[k]
    BY <1>0, <2>1 DEF Egress!TypeOK, Egress!Postures
  <2> QED
    BY <1>0, <2>1, <2>2, EgressMoves DEF Egress!TypeOK, Egress!Gated, Launching
<1>2. CASE Egress!Decide(l)
  <2>1. /\ step[l] = "posture"
        /\ UNCHANGED <<sandbox, posture, mode, gateway, script, rules, box, net, crossed>>
    BY <1>2 DEF Egress!Decide, Egress!launched, Egress!filters, Egress!running
  <2>2. PICK to \in {"replace", "run", "refused"} :
            Egress!Goto(l, to) /\ (to = "replace" => mode[l] \in Egress!Gated)
                               /\ (to = "run" => mode[l] \notin Egress!Gated)
    BY <1>2 DEF Egress!Decide
  <2> QED
    BY <1>0, <2>1, <2>2, EgressMoves DEF Egress!TypeOK, Launching
<1>3. CASE Egress!Replace(l)
  <2>1. /\ step[l] = "replace" /\ Egress!Goto(l, "create")
        /\ UNCHANGED <<sandbox, posture, mode, script, rules, box, net, crossed>>
    BY <1>3 DEF Egress!Replace, Egress!Step, Egress!launched, Egress!running
  <2>2. mode[l] \in Egress!Gated
    BY <2>1 DEF Asked, Fronted
  <2>3. /\ gateway' \in [Sandboxes -> Launches \cup {NoLaunch}]
        /\ \A m \in Sandboxes : gateway'[m] \in {gateway[m], NoLaunch}
    BY <1>0, <1>3, Removed DEF Egress!Replace
  <2> QED
    BY <1>0, <2>1, <2>2, <2>3, EgressMoves DEF Egress!TypeOK, Launching
<1>4. CASE Egress!PostJoin(l)
  <2>1. /\ step[l] = "resolve" /\ Egress!Goto(l, "done")
        /\ UNCHANGED <<sandbox, posture, mode, gateway, script, rules, box, net, crossed>>
    BY <1>4 DEF Egress!PostJoin, Egress!Step, Egress!launched, Egress!filters,
                Egress!running
  <2> QED
    BY <1>0, <2>1, EgressMoves DEF Egress!TypeOK
<1>5. CASE Egress!TakeDown(l)
  <2>1. /\ step[l] = "done" /\ Egress!Goto(l, "down")
        /\ UNCHANGED <<sandbox, posture, mode, gateway, script, rules, net, crossed>>
    BY <1>5 DEF Egress!TakeDown, Egress!Step, Egress!launched, Egress!filters
  <2>2. /\ box' \in [Sandboxes -> Launches \cup {NoLaunch}]
        /\ \A m \in Sandboxes : box'[m] \in {box[m], NoLaunch}
    BY <1>0, <1>5 DEF Egress!TakeDown, Egress!TypeOK
  <2> QED
    BY <1>0, <2>1, <2>2, EgressMoves DEF Egress!TypeOK
<1>6. CASE Egress!Down(l)
  <2>1. /\ step[l] = "down" /\ Egress!Goto(l, "gone")
        /\ UNCHANGED <<sandbox, posture, mode, script, rules, box, net, crossed>>
    BY <1>6 DEF Egress!Down, Egress!Step, Egress!launched, Egress!running
  <2>3. /\ gateway' \in [Sandboxes -> Launches \cup {NoLaunch}]
        /\ \A m \in Sandboxes : gateway'[m] \in {gateway[m], NoLaunch}
    BY <1>0, <1>6, Removed DEF Egress!Down
  <2> QED
    BY <1>0, <2>1, <2>3, EgressMoves DEF Egress!TypeOK
<1> QED
  BY <1>1, <1>2, <1>3, <1>4, <1>5, <1>6

\* The gateway comes up under the launch's own name, or it refuses.
LEMMA EgressCreates ==
    ASSUME NoLaunchIsNone, EgressInv, NEW l \in Launches, Egress!Create(l)
    PROVE  EgressInv'
<1> USE DEF EgressInv
<1>0. /\ step[l] = "create" /\ sandbox[l] \in Sandboxes
      /\ UNCHANGED <<sandbox, posture, box, net, crossed>>
  BY DEF Egress!Create, Egress!TypeOK, Egress!launched, Egress!running
<1>1. CASE Egress!Refuse(l) /\ UNCHANGED Egress!filters
  BY <1>0, <1>1, EgressRefuses DEF Fronted, Egress!filters, Egress!launched, Egress!running
<1>2. CASE /\ gateway' = [gateway EXCEPT ![sandbox[l]] = l]
           /\ script' = [script EXCEPT ![l] = "none"]
           /\ rules' = [rules EXCEPT ![l] = {}]
           /\ Egress!Goto(l, IF mode[l] = "tor" THEN "boot" ELSE "write")
           /\ UNCHANGED mode
  <2>1. PICK to \in {"boot", "write"} : step' = [step EXCEPT ![l] = to]
    BY <1>2 DEF Egress!Goto
  <2>2. Egress!TypeOK'
    BY <1>0, <1>2, <2>1 DEF Egress!TypeOK
  <2>3. Met'
    BY <1>0, <2>1 DEF Met, Launching, Egress!TypeOK
  <2>4. Asked'
    BY <1>0, <1>2, <2>1 DEF Asked, Fronted, Egress!TypeOK
  <2>5. OwnGateway'
    BY <1>0, <1>2, <2>1 DEF OwnGateway, Behind, Egress!Own, Met, Launching, Egress!TypeOK
  <2>6. OwnRules'
    BY <1>0, <1>2, <2>1 DEF OwnRules, Egress!RulesOf, Egress!TypeOK
  <2>7. Made'
    BY <1>0, <2>1 DEF Made, Egress!TypeOK
  <2>8. \A n \in Sandboxes : box[n] # l
    BY <1>0 DEF Made
  <2>9. Egress!EgressKept'
    BY <1>0, <1>2, <2>8 DEF Egress!EgressKept, Egress!TypeOK
  <2> QED
    BY <2>2, <2>3, <2>4, <2>5, <2>6, <2>7, <2>9
<1> QED
  BY <1>1, <1>2 DEF Egress!Create

\* The ruleset is written and loaded, wherever the name leads.
LEMMA EgressFilters ==
    ASSUME NoLaunchIsNone, EgressInv, NEW l \in Launches,
           Egress!Boot(l) \/ Egress!Write(l) \/ Egress!Load(l) \/ Egress!TimeOut(l)
    PROVE  EgressInv'
<1> USE DEF EgressInv
<1>0. sandbox[l] \in Sandboxes /\ Egress!TypeOK
  BY DEF Egress!TypeOK
<1>1. ASSUME Egress!GiveUp(l), Fronted(l),
             UNCHANGED <<Egress!launched, Egress!running, crossed>>
      PROVE  EgressInv'
  BY <1>0, <1>1, EgressRefuses, Removed DEF Egress!GiveUp
<1>2. CASE Egress!TimeOut(l)
  BY <1>2, EgressRefuses DEF Egress!TimeOut, Fronted, Egress!filters
<1>3. CASE Egress!Boot(l)
  <2>1. CASE Egress!GiveUp(l)
    BY <1>1, <1>3, <2>1 DEF Egress!Boot, Fronted
  <2>2. CASE Egress!Own(l) # NoLaunch /\ Egress!Goto(l, "write")
               /\ UNCHANGED <<mode, Egress!filters>>
    <3>1. /\ step[l] = "boot" /\ step' = [step EXCEPT ![l] = "write"]
          /\ UNCHANGED <<sandbox, posture, mode, gateway, script, rules, box, net, crossed>>
      BY <1>3, <2>2 DEF Egress!Boot, Egress!Goto, Egress!filters, Egress!launched,
                        Egress!running
    <3>2. Egress!TypeOK' /\ Met' /\ Asked' /\ Made'
      BY <1>0, <3>1 DEF Egress!TypeOK, Met, Asked, Made, Launching, Fronted
    <3>3. OwnGateway' /\ OwnRules' /\ Egress!EgressKept'
      BY <1>0, <3>1 DEF Egress!TypeOK, OwnGateway, OwnRules, Egress!EgressKept, Behind,
                        Egress!Own, Egress!RulesOf
    <3> QED
      BY <3>2, <3>3
  <2> QED
    BY <1>3, <2>1, <2>2 DEF Egress!Boot
<1>4. CASE Egress!Write(l)
  <2>1. /\ step[l] = "write" /\ step' = [step EXCEPT ![l] = "load"]
        /\ UNCHANGED <<sandbox, posture, mode, gateway, rules, box, net, crossed>>
    BY <1>4 DEF Egress!Write, Egress!Step, Egress!Goto, Egress!launched, Egress!running
  <2>2. \/ /\ Egress!Own(l) \in Launches
           /\ script' = [script EXCEPT ![Egress!Own(l)] = Egress!RulesOf(mode[l])]
        \/ UNCHANGED script
    BY <1>0, <1>4 DEF Egress!Write, Egress!Own, Egress!TypeOK
  <2>3. Egress!RulesOf(mode[l]) \in {"pivot", "tor"}
    BY DEF Egress!RulesOf
  <2>4. Egress!TypeOK' /\ Met' /\ Asked' /\ Made'
    BY <1>0, <2>1, <2>2, <2>3 DEF Egress!TypeOK, Met, Asked, Made, Launching, Fronted
  <2>5. OwnGateway' /\ Egress!EgressKept'
    BY <1>0, <2>1 DEF Egress!TypeOK, OwnGateway, Egress!EgressKept, Behind, Egress!Own
  <2>6. Egress!Own(l) = l \/ Egress!Own(l) = NoLaunch \/ Egress!Own(l) \in crossed
    BY <2>1 DEF OwnGateway, Behind
  <2>7. OwnRules'
    BY <1>0, <2>1, <2>2, <2>6 DEF Egress!TypeOK, OwnRules, Egress!RulesOf, NoLaunchIsNone
  <2> QED
    BY <2>4, <2>5, <2>7
<1>5. CASE Egress!Load(l)
  <2>1. CASE Egress!GiveUp(l)
    BY <1>1, <1>5, <2>1 DEF Egress!Load, Fronted
  <2>2. CASE /\ Egress!Own(l) # NoLaunch /\ script[Egress!Own(l)] # "none"
             /\ rules' = [rules EXCEPT ![Egress!Own(l)] = @ \cup {script[Egress!Own(l)]}]
             /\ Egress!Goto(l, "run")
             /\ UNCHANGED <<mode, gateway, script>>
    <3>1. /\ step[l] = "load" /\ step' = [step EXCEPT ![l] = "run"]
          /\ UNCHANGED <<sandbox, posture, mode, gateway, script, box, net, crossed>>
      BY <1>5, <2>2 DEF Egress!Load, Egress!Goto, Egress!launched, Egress!running
    <3>2. Egress!Own(l) \in Launches /\ script[Egress!Own(l)] \in {"pivot", "tor"}
      BY <1>0, <2>2 DEF Egress!TypeOK, Egress!Own
    <3>3. /\ rules' \in [Launches -> SUBSET {"pivot", "tor"}]
          /\ \A k \in Launches : rules[k] \subseteq rules'[k]
          /\ script[Egress!Own(l)] \in rules'[Egress!Own(l)]
      BY <1>0, <2>2, <3>2 DEF Egress!TypeOK
    <3>4. Egress!TypeOK'
      BY <1>0, <3>1, <3>3 DEF Egress!TypeOK
    <3>a. Met' /\ Asked' /\ Made'
      BY <1>0, <3>1 DEF Egress!TypeOK, Met, Asked, Made, Launching, Fronted
    <3>5. OwnGateway'
      BY <1>0, <3>1 DEF Egress!TypeOK, OwnGateway, Behind, Egress!Own
    <3>6. Egress!EgressKept'
      BY <1>0, <3>1, <3>3 DEF Egress!TypeOK, Egress!EgressKept
    <3>7. l \in crossed \/ (Egress!Own(l) = l /\ script[l] = Egress!RulesOf(mode[l]))
      BY <2>2, <3>1, <3>2 DEF OwnGateway, Behind, OwnRules
    <3>8. OwnRules'
      BY <1>0, <3>1, <3>3, <3>7 DEF Egress!TypeOK, OwnRules, Egress!RulesOf
    <3> QED
      BY <3>4, <3>a, <3>5, <3>6, <3>8
  <2> QED
    BY <1>5, <2>1, <2>2 DEF Egress!Load
<1> QED
  BY <1>2, <1>3, <1>4, <1>5

\* The sandbox joins the network, or the engine refuses it.
LEMMA EgressRuns ==
    ASSUME NoLaunchIsNone, EgressInv, NEW l \in Launches, Egress!Run(l)
    PROVE  EgressInv'
<1> USE DEF EgressInv
<1> DEFINE n == sandbox[l]
<1>0. /\ n \in Sandboxes /\ Egress!TypeOK /\ step[l] = "run"
      /\ UNCHANGED <<sandbox, posture, mode, gateway, script, rules, crossed>>
  BY DEF Egress!TypeOK, Egress!Run, Egress!launched, Egress!filters
<1>1. CASE Egress!Goto(l, "refused") /\ UNCHANGED Egress!running
  BY <1>0, <1>1, EgressMoves DEF Egress!TypeOK, Egress!running
<1>2. CASE /\ mode[l] \in Egress!Gated => Egress!Own(l) # NoLaunch
           /\ box' = [box EXCEPT ![n] = l]
           /\ net' = [net EXCEPT ![n] = IF mode[l] = "none" THEN Egress!Off
                                        ELSE IF mode[l]
                                          \in Egress!Gated
                                            THEN Egress!Own(l) ELSE Egress!Host]
           /\ Egress!Goto(l, "resolve")
  <2>1. step' = [step EXCEPT ![l] = "resolve"]
    BY <1>2 DEF Egress!Goto
  <2>2. PICK on \in Launches \cup {Egress!Host, Egress!Off} :
            /\ net' = [net EXCEPT ![n] = on]
            /\ mode[l] = "none" => on = Egress!Off
            /\ mode[l] # "none" /\ mode[l] \in Egress!Gated => on = Egress!Own(l)
            /\ mode[l] # "none" /\ mode[l] \notin Egress!Gated => on = Egress!Host
    BY <1>0, <1>2 DEF Egress!TypeOK, Egress!Own
  <2>3. Egress!TypeOK'
    BY <1>0, <1>2, <2>1, <2>2 DEF Egress!TypeOK
  <2>4. Met' /\ Asked'
    BY <1>0, <2>1 DEF Egress!TypeOK, Met, Asked, Launching, Fronted
  <2>5. OwnGateway' /\ OwnRules'
    BY <1>0, <2>1 DEF Egress!TypeOK, OwnGateway, OwnRules, Behind, Egress!Own,
                      Egress!RulesOf
  <2>6. Made'
    BY <1>0, <1>2, <2>1 DEF Egress!TypeOK, Made
  <2>7. ASSUME l \notin crossed, on # Egress!Off
        PROVE  CASE posture[l] = "tor" -> on = l /\ "tor" \in rules[l]
                 [] posture[l] \in {"local", "scope"} -> on = l /\ "pivot" \in rules[l]
                 [] posture[l] = "auto" -> on = l /\ rules[l] # {}
                 [] posture[l] \in {"guard", "open"} -> on = Egress!Host
                 [] OTHER -> FALSE
    <3>1. mode[l] # "none"
      BY <2>2, <2>7
    <3>2. /\ \/ mode[l] = posture[l] /\ posture[l] # "auto"
             \/ posture[l] = "auto" /\ mode[l] \in {"tor", "local"}
          /\ posture[l] \in Egress!Postures
      BY <1>0, <3>1 DEF Asked, Egress!TypeOK
    <3>3. CASE mode[l] \in Egress!Gated
      <4>1. on = Egress!Own(l) /\ Egress!Own(l) = l /\ Egress!RulesOf(mode[l]) \in rules[l]
        BY <1>0, <1>2, <2>2, <2>7, <3>1, <3>3 DEF OwnGateway, OwnRules, Behind
      <4> QED
        BY <3>2, <3>3, <4>1 DEF Egress!Gated, Egress!RulesOf
    <3>4. CASE mode[l] \notin Egress!Gated
      BY <2>2, <3>1, <3>2, <3>4 DEF Egress!Gated, Egress!Postures
    <3> QED
      BY <3>3, <3>4
  <2>8. Egress!EgressKept'
    <3> SUFFICES ASSUME NEW m \in Sandboxes, NEW k \in Launches, k \notin crossed,
                        box'[m] = k, net'[m] # Egress!Off
                 PROVE  CASE posture[k] = "tor" -> net'[m] = k /\ "tor" \in rules[k]
                          [] posture[k] \in {"local", "scope"} ->
                                 net'[m] = k /\ "pivot" \in rules[k]
                          [] posture[k] = "auto" -> net'[m] = k /\ rules[k] # {}
                          [] posture[k] \in {"guard", "open"} -> net'[m] = Egress!Host
                          [] OTHER -> FALSE
      BY <1>0 DEF Egress!EgressKept
    <3>1. CASE m = n
      BY <1>0, <1>2, <2>2, <2>7, <3>1 DEF Egress!TypeOK
    <3>2. CASE m # n
      BY <1>0, <1>2, <2>2, <3>2 DEF Egress!TypeOK, Egress!EgressKept
    <3> QED
      BY <3>1, <3>2
  <2> QED
    BY <2>3, <2>4, <2>5, <2>6, <2>8
<1> QED
  BY <1>1, <1>2 DEF Egress!Run

LEMMA EgressStep ==
    ASSUME NoLaunchIsNone, EgressInv, [Egress!Next]_(Egress!vars)
    PROVE  EgressInv'
<1>1. CASE UNCHANGED Egress!vars
  BY <1>1 DEF Egress!vars, EgressInv, Egress!TypeOK, Met, Asked, OwnGateway, OwnRules,
              Made, Egress!EgressKept,
     Launching, Fronted, Behind, Egress!Own
<1>2. CASE Egress!Next
  BY <1>2, EgressStarts, EgressRests, EgressCreates, EgressFilters,
     EgressRuns DEF Egress!Next
<1> QED
  BY <1>1, <1>2

----------------------------------------------------------------------------
(* OperatorSandbox. *)

\* What a job that launches or takes down is about is a container's name.
Named ==
    \A d \in Daemons : \A j \in Jobs :
        job[d][j].pc \in {"sweep", "clear", "run", "record", "remove", "forget"} =>
            job[d][j].name \in Boxes

\* Who made a container that a listing found abandoned is dead for good, and as
\* long as the container runs it is yet to be swept.
DoomedFor(d, j) ==
    \A n \in Boxes : \A c \in Daemons :
        <<n, c>> \in doomed[d][j] =>
            /\ c \notin alive
            /\ /\ job[d][j].pc \in {"sweep", "clear", "run", "record"}
               /\ boxes[n] = c /\ c # NoBox
               => job[d][j].pc = "sweep" /\ n \in job[d][j].left

Doomed == \A d \in Daemons : \A j \in Jobs : DoomedFor(d, j)

BoxInv == Box!TypeOK /\ Named /\ Doomed

JobRecord == [pc : {"idle", "sweep", "clear", "run", "record", "remove", "forget", "exec"},
              name : Boxes \cup {NoBox, Box!ROOM}, left : SUBSET Boxes]

\* One cell of a table of tables is replaced.
LEMMA Cell ==
    ASSUME NEW S, NEW f \in [Daemons -> [Jobs -> S]], NEW d \in Daemons, NEW j \in Jobs,
           NEW v \in S
    PROVE  /\ [f EXCEPT ![d][j] = v] \in [Daemons -> [Jobs -> S]]
           /\ [f EXCEPT ![d][j] = v][d][j] = v
           /\ \A e \in Daemons : \A k \in Jobs : e # d \/ k # j =>
                  [f EXCEPT ![d][j] = v][e][k] = f[e][k]
OBVIOUS

LEMMA IdleIsJob == Box!Idle \in JobRecord
BY DEF Box!Idle, JobRecord

LEMMA WentTo ==
    ASSUME BoxInv, NEW d \in Daemons, NEW j \in Jobs, NEW to, NEW name, NEW left,
           [pc |-> to, name |-> name, left |-> left] \in JobRecord,
           Box!Goto(d, j, to, name, left)
    PROVE  /\ job' \in [Daemons -> [Jobs -> JobRecord]]
           /\ job'[d][j].pc = to /\ job'[d][j].name = name /\ job'[d][j].left = left
           /\ \A e \in Daemons : \A k \in Jobs : e # d \/ k # j => job'[e][k] = job[e][k]
<1>1. job \in [Daemons -> [Jobs -> JobRecord]]
  BY DEF BoxInv, Box!TypeOK, JobRecord
<1> QED
  BY <1>1, Cell DEF Box!Goto

LEMMA WasDone ==
    ASSUME BoxInv, NEW d \in Daemons, NEW j \in Jobs, Box!Done(d, j)
    PROVE  /\ job' \in [Daemons -> [Jobs -> JobRecord]]
           /\ doomed' \in [Daemons -> [Jobs -> SUBSET (Boxes \X Daemons)]]
           /\ job'[d][j].pc = "idle" /\ doomed'[d][j] = {}
           /\ \A e \in Daemons : \A k \in Jobs : e # d \/ k # j =>
                  job'[e][k] = job[e][k] /\ doomed'[e][k] = doomed[e][k]
<1>1. job \in [Daemons -> [Jobs -> JobRecord]]
  BY DEF BoxInv, Box!TypeOK, JobRecord
<1>2. doomed \in [Daemons -> [Jobs -> SUBSET (Boxes \X Daemons)]]
  BY DEF BoxInv, Box!TypeOK
<1>3. {} \in SUBSET (Boxes \X Daemons)
  OBVIOUS
<1>4. job' = [job EXCEPT ![d][j] = Box!Idle] /\ doomed' = [doomed EXCEPT ![d][j] = {}]
  BY DEF Box!Done
<1>5. Box!Idle.pc = "idle"
  BY DEF Box!Idle
<1> QED
  BY <1>1, <1>2, <1>3, <1>4, <1>5, IdleIsJob, Cell

\* The containers that are there were, or are somebody's who runs.
Swap ==
    /\ boxes' \in [Boxes -> Daemons \cup {NoBox}]
    /\ \A n \in Boxes : boxes'[n] \in {boxes[n], NoBox} \cup alive

JobsTyped ==
    /\ job \in [Daemons -> [Jobs -> JobRecord]]
    /\ doomed \in [Daemons -> [Jobs -> SUBSET (Boxes \X Daemons)]]
    /\ own \in [Daemons -> Boxes \cup {NoBox}]

\* The other jobs stay where they are.
Only(d, j) ==
    \A e \in Daemons : \A k \in Jobs : e # d \/ k # j =>
        job'[e][k] = job[e][k] /\ doomed'[e][k] = doomed[e][k]

NamedFor(d, j) ==
    job[d][j].pc \in {"sweep", "clear", "run", "record", "remove", "forget"} =>
        job[d][j].name \in Boxes

LEMMA Stays ==
    ASSUME BoxInv, NEW d \in Daemons, NEW j \in Jobs, Swap, UNCHANGED Box!World,
           job'[d][j] = job[d][j], doomed'[d][j] = doomed[d][j]
    PROVE  DoomedFor(d, j)'
<1>1. DoomedFor(d, j) /\ alive' = alive
  BY DEF BoxInv, Doomed, Box!World
<1> QED
  BY <1>1 DEF DoomedFor, Swap

\* One job moves.
LEMMA BoxMoves ==
    ASSUME BoxInv, NEW d \in Daemons, NEW j \in Jobs, Swap, JobsTyped', Only(d, j),
           NamedFor(d, j)', DoomedFor(d, j)', UNCHANGED Box!World
    PROVE  BoxInv'
<1>1. Box!TypeOK'
  BY DEF BoxInv, Box!TypeOK, JobRecord, Box!World, Swap, JobsTyped
<1>2. Named'
  BY DEF BoxInv, Named, NamedFor, Only
<1>3. ASSUME NEW e \in Daemons, NEW k \in Jobs
      PROVE  DoomedFor(e, k)'
  <2>1. CASE e = d /\ k = j
    BY <2>1
  <2>2. CASE e # d \/ k # j
    BY <2>2, Stays DEF Only
  <2> QED
    BY <2>1, <2>2
<1> QED
  BY <1>1, <1>2, <1>3 DEF BoxInv, Doomed

\* Facts about a job that is at work.
LEMMA JobFacts ==
    ASSUME BoxInv, NEW d \in Daemons, NEW j \in Jobs
    PROVE  /\ boxes \in [Boxes -> Daemons \cup {NoBox}]
                /\ own \in [Daemons -> Boxes \cup {NoBox}]
           /\ doomed \in [Daemons -> [Jobs -> SUBSET (Boxes \X Daemons)]]
           /\ job[d][j].left \in SUBSET Boxes
           /\ job[d][j].name \in Boxes \cup {NoBox, Box!ROOM}
           /\ job[d][j].pc \in {"sweep", "clear", "run", "record", "remove", "forget"} =>
                  job[d][j].name \in Boxes
BY DEF BoxInv, Box!TypeOK, Named

LEMMA LaunchStep ==
    ASSUME BoxInv, NEW d \in Daemons, NEW j \in Jobs, NEW name \in Boxes,
           Box!Launch(d, j, name)
    PROVE  BoxInv'
<1>1. PICK left \in {Box!Abandoned, {}} :
          /\ Box!Goto(d, j, IF left = {} THEN "clear" ELSE "sweep", name, left)
          /\ doomed' = [doomed EXCEPT ![d][j] = {<<n, boxes[n]>> : n \in left}]
  BY DEF Box!Launch
<1>2. UNCHANGED Box!World /\ UNCHANGED <<boxes, own>>
  BY DEF Box!Launch
<1>3. PICK to \in {"clear", "sweep"} : to = (IF left = {} THEN "clear" ELSE "sweep")
  OBVIOUS
<1>4. left \subseteq Boxes /\ \A n \in left : boxes[n] \in Daemons /\ boxes[n] \notin alive
  BY JobFacts DEF Box!Abandoned, Box!Held
<1>5. [pc |-> to, name |-> name, left |-> left] \in JobRecord
  BY <1>4 DEF JobRecord
<1>6. /\ job' \in [Daemons -> [Jobs -> JobRecord]]
      /\ job'[d][j].pc = to /\ job'[d][j].name = name /\ job'[d][j].left = left
      /\ \A e \in Daemons : \A k \in Jobs : e # d \/ k # j => job'[e][k] = job[e][k]
  BY <1>1, <1>3, <1>5, WentTo
<1> DEFINE found == {<<n, boxes[n]>> : n \in left}
<1>7. found \in SUBSET (Boxes \X Daemons)
  BY <1>4
<1>8. /\ doomed' \in [Daemons -> [Jobs -> SUBSET (Boxes \X Daemons)]]
      /\ doomed'[d][j] = found
      /\ \A e \in Daemons : \A k \in Jobs : e # d \/ k # j => doomed'[e][k] = doomed[e][k]
  <2> HIDE DEF found
  <2> QED
    BY <1>1, <1>7, JobFacts, Cell DEF found
<1>9. DoomedFor(d, j)'
  BY <1>2, <1>3, <1>4, <1>6, <1>8 DEF DoomedFor, Box!World
<1> HIDE DEF found
<1>10. Swap /\ JobsTyped' /\ Only(d, j) /\ NamedFor(d, j)'
  BY <1>2, <1>6, <1>8, JobFacts DEF Swap, JobsTyped, Only, NamedFor
<1> QED
  BY <1>2, <1>9, <1>10, BoxMoves

LEMMA SweepStep ==
    ASSUME BoxInv, NEW d \in Daemons, NEW j \in Jobs, Box!Sweep(d, j)
    PROVE  BoxInv'
<1> DEFINE name == job[d][j].name
           left == job[d][j].left
<1>1. PICK n \in left : /\ boxes' = [boxes EXCEPT ![n] = NoBox]
                        /\ Box!Goto(d, j, IF left =
                             {n} THEN "clear" ELSE "sweep", name, left \ {n})
  BY DEF Box!Sweep
<1>2. UNCHANGED Box!World /\ UNCHANGED <<own, doomed>> /\ job[d][j].pc = "sweep"
  BY DEF Box!Sweep, Box!At
<1>3. PICK to \in {"clear", "sweep"} : to = (IF left = {n} THEN "clear" ELSE "sweep")
  OBVIOUS
<1>4. left \subseteq Boxes /\ n \in Boxes /\ name \in Boxes
  BY <1>2, JobFacts
<1>5. [pc |-> to, name |-> name, left |-> left \ {n}] \in JobRecord
  BY <1>4 DEF JobRecord
<1>a. Box!Goto(d, j, to, name, left \ {n})
  BY <1>1, <1>3
<1>6. /\ job' \in [Daemons -> [Jobs -> JobRecord]]
      /\ job'[d][j].pc = to /\ job'[d][j].name = name /\ job'[d][j].left = left \ {n}
      /\ \A e \in Daemons : \A k \in Jobs : e # d \/ k # j => job'[e][k] = job[e][k]
  BY <1>5, <1>a, WentTo
<1>7. /\ boxes' \in [Boxes -> Daemons \cup {NoBox}]
      /\ \A m \in Boxes : boxes'[m] \in {boxes[m], NoBox}
      /\ boxes'[n] = NoBox
  BY <1>1, <1>4, JobFacts
<1>8. DoomedFor(d, j) /\ alive' = alive /\ doomed'[d][j] = doomed[d][j]
  BY <1>2 DEF BoxInv, Doomed, Box!World
<1>9. ASSUME NEW m \in Boxes, NEW c \in Daemons, <<m, c>> \in doomed[d][j]
      PROVE  /\ c \notin alive
             /\ boxes'[m] = c /\ c # NoBox => to = "sweep" /\ m \in left \ {n}
  <2>1. c \notin alive /\ (boxes[m] = c /\ c # NoBox => m \in left)
    BY <1>2, <1>8, <1>9 DEF DoomedFor
  <2>2. CASE boxes'[m] = c /\ c # NoBox
    <3>1. m # n /\ boxes[m] = c
      BY <1>7, <2>2
    <3> QED
      BY <1>3, <2>1, <2>2, <3>1
  <2> QED
    BY <2>1, <2>2
<1>10. DoomedFor(d, j)'
  BY <1>6, <1>8, <1>9 DEF DoomedFor
<1>11. Swap /\ JobsTyped' /\ Only(d, j) /\ NamedFor(d, j)'
  BY <1>2, <1>4, <1>6, <1>7, JobFacts DEF Swap, JobsTyped, Only, NamedFor
<1> QED
  BY <1>2, <1>10, <1>11, BoxMoves

\* A job goes on to where its listing counts no more, or is swept.
LEMMA GoesOn ==
    ASSUME BoxInv, NEW d \in Daemons, NEW j \in Jobs,
           NEW to \in {"run", "record", "remove", "forget", "exec"},
           NEW name \in Boxes \cup {NoBox, Box!ROOM},
           to # "exec" => name \in Boxes,
           to \in {"run", "record"} => job[d][j].pc \in {"clear", "run"},
           Box!Goto(d, j, to, name, {}), Swap, UNCHANGED Box!World,
           UNCHANGED <<own, doomed>>
    PROVE  BoxInv'
<1>1. [pc |-> to, name |-> name, left |-> {}] \in JobRecord
  BY DEF JobRecord
<1>2. /\ job' \in [Daemons -> [Jobs -> JobRecord]]
      /\ job'[d][j].pc = to /\ job'[d][j].name = name
      /\ \A e \in Daemons : \A k \in Jobs : e # d \/ k # j => job'[e][k] = job[e][k]
  BY <1>1, WentTo
<1>3. DoomedFor(d, j) /\ alive' = alive /\ doomed'[d][j] = doomed[d][j]
  BY DEF BoxInv, Doomed, Box!World
<1>4. DoomedFor(d, j)'
  BY <1>2, <1>3 DEF DoomedFor, Swap
<1>5. JobsTyped' /\ Only(d, j) /\ NamedFor(d, j)'
  BY <1>2, JobFacts DEF JobsTyped, Only, NamedFor
<1> QED
  BY <1>4, <1>5, BoxMoves

\* A job ends.
LEMMA Over ==
    ASSUME BoxInv, NEW d \in Daemons, NEW j \in Jobs, Box!Done(d, j), UNCHANGED Box!World,
           UNCHANGED boxes, own' \in [Daemons -> Boxes \cup {NoBox}]
    PROVE  BoxInv'
<1>1. Swap /\ JobsTyped' /\ Only(d, j) /\ NamedFor(d, j)'
  BY WasDone, JobFacts DEF Swap, JobsTyped, Only, NamedFor
<1>2. DoomedFor(d, j)'
  BY WasDone DEF DoomedFor
<1> QED
  BY <1>1, <1>2, BoxMoves

\* A daemon ends, with what its engine calls may have made by then.
LEMMA EndStep ==
    ASSUME BoxInv, NEW d \in Daemons, Box!Exit(d) \/ Box!Kill(d)
    PROVE  BoxInv'
<1>1. PICK late \in SUBSET Box!Orphans(d) :
          \/ boxes' = [n \in Boxes |-> IF n \in late THEN d
                                     ELSE IF n = own[d] THEN NoBox ELSE boxes[n]]
          \/ boxes' = [n \in Boxes |-> IF n \in late THEN d ELSE boxes[n]]
  BY DEF Box!Exit, Box!Kill
<1>2. d \in alive /\ Box!Ends(d)
  BY DEF Box!Exit, Box!Kill
<1>3. /\ boxes \in [Boxes -> Daemons \cup {NoBox}]
      /\ own \in [Daemons -> Boxes \cup {NoBox}]
      /\ job \in [Daemons -> [Jobs -> JobRecord]]
      /\ doomed \in [Daemons -> [Jobs -> SUBSET (Boxes \X Daemons)]]
  BY DEF BoxInv, Box!TypeOK, JobRecord
<1>4. Swap
  BY <1>1, <1>2, <1>3 DEF Swap
<1>5. /\ job' \in [Daemons -> [Jobs -> JobRecord]]
      /\ \A j \in Jobs : job'[d][j] = Box!Idle
      /\ \A e \in Daemons : e # d => job'[e] = job[e]
  BY <1>2, <1>3, IdleIsJob DEF Box!Ends
<1>6. /\ doomed' \in [Daemons -> [Jobs -> SUBSET (Boxes \X Daemons)]]
      /\ \A j \in Jobs : doomed'[d][j] = {}
      /\ \A e \in Daemons : e # d => doomed'[e] = doomed[e]
  BY <1>2, <1>3 DEF Box!Ends
<1>7. Box!TypeOK'
  BY <1>2, <1>3, <1>4, <1>5, <1>6 DEF BoxInv, Box!TypeOK, Box!Ends, Swap, JobRecord
<1>8. Named'
  BY <1>5 DEF BoxInv, Named, Box!Idle
<1>9. ASSUME NEW e \in Daemons, NEW j \in Jobs
      PROVE  DoomedFor(e, j)'
  <2>1. CASE e = d
    BY <1>6, <2>1 DEF DoomedFor
  <2>2. CASE e # d
    <3>1. DoomedFor(e, j) /\ job'[e][j] = job[e][j] /\ doomed'[e][j] = doomed[e][j]
      BY <1>5, <1>6, <2>2 DEF BoxInv, Doomed
    <3>2. /\ alive' \subseteq alive
          /\ \A n \in Boxes : boxes'[n] \in {boxes[n], NoBox} \cup alive
      BY <1>2, <1>4 DEF Box!Ends, Swap
    <3> QED
      BY <3>1, <3>2 DEF DoomedFor
  <2> QED
    BY <2>1, <2>2
<1> QED
  BY <1>7, <1>8, <1>9 DEF BoxInv, Doomed

LEMMA BoxStep ==
    ASSUME BoxInv, [Box!Next]_(Box!vars)
    PROVE  BoxInv'
<1> USE DEF Box!At
<1>1. CASE UNCHANGED Box!vars
  BY <1>1 DEF Box!vars, BoxInv, Box!TypeOK, Named, Doomed, DoomedFor
<1>2. ASSUME NEW d \in Daemons, Box!PidReused(d)
      PROVE  BoxInv'
  BY <1>2 DEF Box!PidReused, BoxInv, Box!TypeOK, Named, Doomed, DoomedFor
<1>3. ASSUME NEW d \in Daemons, NEW j \in Jobs, Box!Clear(d, j)
      PROVE  BoxInv'
  <2>1. job[d][j].name \in Boxes /\ job[d][j].pc = "clear"
    BY <1>3, JobFacts DEF Box!Clear
  <2>2. Swap
    BY <1>3, <2>1, JobFacts DEF Box!Clear, Swap
  <2> QED
    BY <1>3, <2>1, <2>2, GoesOn DEF Box!Clear
<1>4. ASSUME NEW d \in Daemons, NEW j \in Jobs, Box!Run(d, j)
      PROVE  BoxInv'
  <2>1. job[d][j].name \in Boxes /\ job[d][j].pc = "run" /\ d \in alive
    BY <1>4, JobFacts DEF Box!Run
  <2>2. CASE /\ boxes' = [boxes EXCEPT ![job[d][j].name] = d]
             /\ Box!Goto(d, j, "record", job[d][j].name, {}) /\ UNCHANGED doomed
    <3>1. Swap
      BY <2>1, <2>2, JobFacts DEF Swap
    <3> QED
      BY <1>4, <2>1, <2>2, <3>1, GoesOn DEF Box!Run
  <2>3. CASE Box!Done(d, j) /\ UNCHANGED boxes
    BY <1>4, <2>3, Over, JobFacts DEF Box!Run
  <2> QED
    BY <1>4, <2>2, <2>3 DEF Box!Run
<1>5. ASSUME NEW d \in Daemons, NEW j \in Jobs, Box!Record(d, j) \/ Box!Forget(d, j)
      PROVE  BoxInv'
  <2>1. own' \in [Daemons -> Boxes \cup {NoBox}]
    BY <1>5, JobFacts DEF Box!Record, Box!Forget
  <2> QED
    BY <1>5, <2>1, Over DEF Box!Record, Box!Forget
<1>6. ASSUME NEW d \in Daemons, NEW j \in Jobs, Box!TakeDown(d, j)
      PROVE  BoxInv'
  <2>1. own[d] \in Boxes /\ Swap
    BY <1>6, JobFacts DEF Box!TakeDown, Swap
  <2> QED
    BY <1>6, <2>1, GoesOn DEF Box!TakeDown
<1>7. ASSUME NEW d \in Daemons, NEW j \in Jobs, Box!Remove(d, j)
      PROVE  BoxInv'
  <2>1. job[d][j].name \in Boxes
    BY <1>7, JobFacts DEF Box!Remove
  <2>2. CASE /\ boxes' = [boxes EXCEPT ![job[d][j].name] = NoBox]
             /\ Box!Goto(d, j, "forget", job[d][j].name, {}) /\ UNCHANGED doomed
    <3>1. Swap
      BY <2>1, <2>2, JobFacts DEF Swap
    <3> QED
      BY <1>7, <2>1, <2>2, <3>1, GoesOn DEF Box!Remove
  <2>3. CASE Box!Done(d, j) /\ UNCHANGED boxes
    BY <1>7, <2>3, Over, JobFacts DEF Box!Remove
  <2> QED
    BY <1>7, <2>2, <2>3 DEF Box!Remove
<1>8. ASSUME NEW d \in Daemons, NEW j \in Jobs, Box!Command(d, j)
      PROVE  BoxInv'
  <2>1. PICK target \in Boxes \cup {NoBox, Box!ROOM} : Box!Goto(d, j, "exec", target, {})
    BY <1>8, JobFacts DEF Box!Command, Box!Targets
  <2>2. Swap
    BY <1>8, JobFacts DEF Box!Command, Swap
  <2> QED
    BY <1>8, <2>1, <2>2, GoesOn DEF Box!Command
<1>9. ASSUME NEW d \in Daemons, NEW j \in Jobs, Box!Ended(d, j)
      PROVE  BoxInv'
  BY <1>9, Over, JobFacts DEF Box!Ended
<1> QED
  BY <1>1, <1>2, <1>3, <1>4, <1>5, <1>6, <1>7, <1>8, <1>9, EndStep, LaunchStep, SweepStep
     DEF Box!Next

LEMMA BoxStart ==
    ASSUME Box!Init
    PROVE  BoxInv
BY DEF Box!Init, BoxInv, Box!TypeOK, Named, Doomed, DoomedFor, Box!Idle

LEMMA Swept ==
    ASSUME BoxInv
    PROVE  Box!AbandonedReclaimed
<1>1. alive \subseteq Daemons /\ boxes \in [Boxes -> Daemons \cup {NoBox}]
  BY DEF BoxInv, Box!TypeOK
<1>2. ASSUME NEW d \in alive, NEW j \in Jobs, job[d][j].pc \in {"clear", "run", "record"},
             NEW n \in Box!Held
      PROVE  <<n, boxes[n]>> \notin doomed[d][j]
  <2>1. n \in Boxes /\ boxes[n] # NoBox /\ boxes[n] \in Daemons /\ DoomedFor(d, j)
    BY <1>1 DEF Box!Held, BoxInv, Doomed
  <2> QED
    BY <1>2, <2>1 DEF DoomedFor
<1> QED
  BY <1>2 DEF Box!AbandonedReclaimed

----------------------------------------------------------------------------
(* SbxDrive: the frames of a client. *)

OpsAreCounted == MaxOps \in Nat /\ MaxCuts \in Nat

IsList(f) == f.kind = "acl"
NoList(q) == \A k \in DOMAIN q : ~IsList(q[k])
NoStop(q) == \A k \in DOMAIN q : q[k] # Drive!Stopped

\* f is the last list in q.
LastList(q, f) ==
    \E k \in DOMAIN q : /\ q[k] = f /\ IsList(f)
                        /\ \A j \in DOMAIN q : j > k => ~IsList(q[j])

\* A list follows whatever shows the pane or takes it.
Closed(q) ==
    \A j \in DOMAIN q : q[j] \in {Drive!Ready, Drive!Stopped} =>
      \E k \in DOMAIN q : k > j /\ IsList(q[k])

\* The pane comes back after it was last taken.
Bright(q) ==
    \E k \in DOMAIN q : q[k] = Drive!Ready
      /\ \A j \in DOMAIN q : j > k => q[j] # Drive!Stopped

LEMMA FrameKinds ==
    /\ ~IsList(Drive!Ready) /\ ~IsList(Drive!Stopped) /\ ~IsList(Drive!Joined)
    /\ Drive!Ready # Drive!Stopped /\ Drive!Ready # Drive!Joined
         /\ Drive!Stopped # Drive!Joined
    /\ Drive!Ready \in Drive!Frame /\ Drive!Stopped \in Drive!Frame
         /\ Drive!Joined \in Drive!Frame
    /\ \A o \in Drive!Parties \cup {Drive!NoName} : \A ds \in SUBSET Drive!Parties :
           /\ IsList(Drive!Acl(o, ds)) /\ Drive!Acl(o, ds) \in Drive!Frame
           /\ Drive!Acl(o, ds).owner = o /\ Drive!Acl(o, ds).drivers = ds
           /\ Drive!Acl(o, ds) # Drive!Ready /\ Drive!Acl(o, ds) # Drive!Stopped
                /\ Drive!Acl(o, ds) # Drive!Joined
<1>1. Drive!Ready.kind = "ready" /\ Drive!Stopped.kind = "stopped"
        /\ Drive!Joined.kind = "joined"
  BY DEF Drive!Ready, Drive!Stopped, Drive!Joined
<1>2. \A o, ds : Drive!Acl(o, ds).kind = "acl" /\ Drive!Acl(o, ds).owner = o
        /\ Drive!Acl(o, ds).drivers = ds
  BY DEF Drive!Acl
<1>3. \A o \in Drive!Parties \cup {Drive!NoName} : \A ds \in SUBSET Drive!Parties :
        Drive!Acl(o, ds) \in Drive!Frame
  BY DEF Drive!Acl, Drive!Frame
<1> QED
  BY <1>1, <1>2, <1>3 DEF IsList, Drive!Frame

LEMMA ListFields ==
    ASSUME NEW f \in Drive!Frame, IsList(f)
    PROVE  /\ f.owner \in Drive!Parties \cup {Drive!NoName}
                /\ f.drivers \in SUBSET Drive!Parties
           /\ f = Drive!Acl(f.owner, f.drivers)
<1>1. f \notin {Drive!Ready, Drive!Stopped, Drive!Joined}
  BY FrameKinds
<1>2. f \in Drive!Frame \ {Drive!Ready, Drive!Stopped, Drive!Joined}
  BY <1>1
<1> HIDE DEF Drive!Ready, Drive!Stopped, Drive!Joined
<1> QED
  BY <1>2 DEF Drive!Frame, Drive!Acl

\* The frame handled, and the rest.
LEMMA FirstAndRest ==
    ASSUME NEW q \in Seq(Drive!Frame), q # <<>>
    PROVE  /\ Head(q) = q[1] /\ Head(q) \in Drive!Frame /\ Tail(q) \in Seq(Drive!Frame)
           /\ 1 \in DOMAIN q /\ DOMAIN q \subseteq Nat
           /\ \A k \in DOMAIN Tail(q) : k + 1 \in DOMAIN q /\ Tail(q)[k] = q[k + 1]
           /\ \A k \in DOMAIN q : k > 1 => k - 1 \in DOMAIN Tail(q) /\ Tail(q)[k - 1] = q[k]
<1>1. Len(q) \in Nat /\ Len(q) > 0 /\ DOMAIN q = 1 .. Len(q)
  OBVIOUS
<1>2. Tail(q) \in Seq(Drive!Frame) /\ Len(Tail(q)) = Len(q) - 1
      /\ DOMAIN Tail(q) = 1 .. Len(q) - 1
  BY <1>1
<1>3. \A k \in 1 .. Len(q) - 1 : Tail(q)[k] = q[k + 1]
  BY <1>1
<1> QED
  BY <1>1, <1>2, <1>3

\* What the rest keeps of a list that is to come, and of the pane.
LEMMA RestKeeps ==
    ASSUME NEW q \in Seq(Drive!Frame), q # <<>>
    PROVE  /\ NoList(q) => NoList(Tail(q)) /\ ~IsList(Head(q))
           /\ NoStop(q) => NoStop(Tail(q)) /\ Head(q) # Drive!Stopped
           /\ Closed(q) => Closed(Tail(q))
           /\ Bright(q) => \/ Bright(Tail(q))
                           \/ Head(q) = Drive!Ready /\ NoStop(Tail(q))
           /\ \A f : LastList(q, f) => \/ LastList(Tail(q), f)
                                       \/ NoList(Tail(q)) /\ Head(q) = f /\ IsList(f)
           /\ Closed(q) /\ Head(q) \in {Drive!Ready, Drive!Stopped} => ~NoList(q)
<1> DEFINE r == Tail(q)
<1>1. /\ Head(q) = q[1] /\ 1 \in DOMAIN q /\ DOMAIN q \subseteq Nat
      /\ \A k \in DOMAIN r : k + 1 \in DOMAIN q /\ r[k] = q[k + 1]
      /\ \A k \in DOMAIN q : k > 1 => k - 1 \in DOMAIN r /\ r[k - 1] = q[k]
      /\ \A k \in DOMAIN q : k >= 1
      /\ DOMAIN r \subseteq Nat
  <2>1. r \in Seq(Drive!Frame) /\ DOMAIN r = 1 .. Len(r) /\ DOMAIN q = 1 .. Len(q)
    BY FirstAndRest
  <2> QED
    BY <2>1, FirstAndRest
<1> HIDE DEF r
<1>2. NoList(q) => NoList(r) /\ ~IsList(Head(q))
  BY <1>1 DEF NoList
<1>3. NoStop(q) => NoStop(r) /\ Head(q) # Drive!Stopped
  BY <1>1 DEF NoStop
<1>4. ASSUME Closed(q)
      PROVE  Closed(r)
  <2> SUFFICES ASSUME NEW j \in DOMAIN r, r[j] \in {Drive!Ready, Drive!Stopped}
               PROVE  \E k \in DOMAIN r : k > j /\ IsList(r[k])
    BY DEF Closed
  <2>1. PICK k \in DOMAIN q : k > j + 1 /\ IsList(q[k])
    BY <1>1, <1>4 DEF Closed
  <2>2. k - 1 \in DOMAIN r /\ r[k - 1] = q[k] /\ k - 1 > j
    BY <1>1, <2>1
  <2> QED
    BY <2>1, <2>2
<1>5. ASSUME Bright(q)
      PROVE  Bright(r) \/ (Head(q) = Drive!Ready /\ NoStop(r))
  <2>1. PICK k \in DOMAIN q : q[k] = Drive!Ready
               /\ \A j \in DOMAIN q : j > k => q[j] # Drive!Stopped
    BY <1>5 DEF Bright
  <2>2. \A j \in DOMAIN r : j + 1 > k => r[j] # Drive!Stopped
    BY <1>1, <2>1
  <2>3. CASE k = 1
    <3>1. \A j \in DOMAIN r : j + 1 > k
      BY <1>1, <2>3
    <3> QED
      BY <1>1, <2>1, <2>2, <2>3, <3>1 DEF NoStop
  <2>4. CASE k # 1
    <3>1. k - 1 \in DOMAIN r /\ r[k - 1] = Drive!Ready
      BY <1>1, <2>1, <2>4
    <3>2. \A j \in DOMAIN r : j > k - 1 => r[j] # Drive!Stopped
      BY <1>1, <2>1, <2>2
    <3> QED
      BY <3>1, <3>2 DEF Bright
  <2> QED
    BY <2>3, <2>4
<1>6. ASSUME NEW f, LastList(q, f)
      PROVE  LastList(r, f) \/ (NoList(r) /\ Head(q) = f /\ IsList(f))
  <2>1. PICK k \in DOMAIN q : /\ q[k] = f /\ IsList(f)
                             /\ \A j \in DOMAIN q : j > k => ~IsList(q[j])
    BY <1>6 DEF LastList
  <2>2. \A j \in DOMAIN r : j + 1 > k => ~IsList(r[j])
    BY <1>1, <2>1
  <2>3. CASE k = 1
    <3>1. \A j \in DOMAIN r : j + 1 > k
      BY <1>1, <2>3
    <3> QED
      BY <1>1, <2>1, <2>2, <2>3, <3>1 DEF NoList
  <2>4. CASE k # 1
    <3>1. k - 1 \in DOMAIN r /\ r[k - 1] = f
      BY <1>1, <2>1, <2>4
    <3>2. \A j \in DOMAIN r : j > k - 1 => ~IsList(r[j])
      BY <1>1, <2>1, <2>2
    <3> QED
      BY <2>1, <3>1, <3>2 DEF LastList
  <2> QED
    BY <2>3, <2>4
<1>7. Closed(q) /\ Head(q) \in {Drive!Ready, Drive!Stopped} => ~NoList(q)
  BY <1>1 DEF Closed, NoList
<1> QED
  BY <1>2, <1>3, <1>4, <1>5, <1>6, <1>7 DEF r

\* More frames at the end.
LEMMA MoreFrames ==
    ASSUME NEW q \in Seq(Drive!Frame), NEW s \in Seq(Drive!Frame)
    PROVE  /\ q \o s \in Seq(Drive!Frame)
           /\ \A k \in DOMAIN q : k \in DOMAIN (q \o s) /\ (q \o s)[k] = q[k]
           /\ \A k \in DOMAIN s : /\ Len(q) + k \in DOMAIN (q \o s)
                                  /\ (q \o s)[Len(q) + k] = s[k]
           /\ \A k \in DOMAIN (q \o s) : k \in DOMAIN q \/ k - Len(q) \in DOMAIN s
           /\ Len(q) \in Nat /\ \A k \in DOMAIN q : k \in Nat /\ k <= Len(q) /\ k >= 1
           /\ \A k \in DOMAIN (q \o s) : k \in Nat
<1>1. /\ q \o s \in Seq(Drive!Frame) /\ Len(q \o s) = Len(q) + Len(s)
      /\ Len(q) \in Nat /\ Len(s) \in Nat
      /\ DOMAIN q = 1 .. Len(q) /\ DOMAIN s = 1 .. Len(s)
      /\ DOMAIN (q \o s) = 1 .. Len(q) + Len(s)
  OBVIOUS
<1>2. \A k \in 1 .. Len(q) + Len(s) :
        (q \o s)[k] = IF k <= Len(q) THEN q[k] ELSE s[k - Len(q)]
  BY <1>1
<1> QED
  BY <1>1, <1>2

\* Frames that end in a list: it is the last, and all is closed.
LEMMA ListAtEnd ==
    ASSUME NEW q \in Seq(Drive!Frame), NEW s \in Seq(Drive!Frame), NEW f \in Drive!Frame,
           s # <<>>,
           s[Len(s)] = f, IsList(f), NoStop(s)
    PROVE  /\ LastList(q \o s, f) /\ Closed(q \o s)
           /\ NoStop(q) => NoStop(q \o s)
           /\ Bright(q) => Bright(q \o s)
           /\ \A k \in DOMAIN s : s[k] = Drive!Ready => Bright(q \o s)
<1> DEFINE t == q \o s
           last == Len(q) + Len(s)
<1>1. /\ t \in Seq(Drive!Frame) /\ DOMAIN t = 1 .. last /\ last \in Nat
      /\ Len(q) \in Nat /\ DOMAIN q = 1 .. Len(q) /\ Len(s) \in DOMAIN s
  OBVIOUS
<1>2. t[last] = f /\ last \in DOMAIN t /\ \A k \in DOMAIN t : k <= last
  BY <1>1, MoreFrames
<1>3. /\ \A k \in DOMAIN q : k \in DOMAIN t /\ t[k] = q[k]
      /\ \A k \in DOMAIN t : k \in DOMAIN q
           \/ (k - Len(q) \in DOMAIN s /\ t[k] = s[k - Len(q)])
  <2>1. ASSUME NEW k \in DOMAIN t, k \notin DOMAIN q
        PROVE  k - Len(q) \in DOMAIN s /\ t[k] = s[k - Len(q)]
    <3>1. k - Len(q) \in DOMAIN s
      BY <2>1, MoreFrames
    <3>2. t[Len(q) + (k - Len(q))] = s[k - Len(q)]
      BY <3>1, MoreFrames
    <3>3. Len(q) + (k - Len(q)) = k
      BY <1>1, <2>1
    <3> QED
      BY <3>1, <3>2, <3>3
  <2> QED
    BY <2>1, MoreFrames
<1>4. \A k \in DOMAIN s : Len(q) + k \in DOMAIN t /\ t[Len(q) + k] = s[k] /\ k \in Nat
  BY MoreFrames
<1> HIDE DEF t, last
<1>5. LastList(t, f)
  BY <1>1, <1>2 DEF LastList
<1>6. Closed(t)
  <2>1. ASSUME NEW j \in DOMAIN t, t[j] \in {Drive!Ready, Drive!Stopped}
        PROVE  j < last
    BY <1>1, <1>2, <2>1, FrameKinds
  <2> QED
    BY <1>2, <2>1 DEF Closed
<1>7. ASSUME NoStop(q)
      PROVE  NoStop(t)
  BY <1>3, <1>7 DEF NoStop
<1>8. ASSUME Bright(q)
      PROVE  Bright(t)
  <2>1. PICK k \in DOMAIN q : q[k] = Drive!Ready
               /\ \A j \in DOMAIN q : j > k => q[j] # Drive!Stopped
    BY <1>8 DEF Bright
  <2>2. \A j \in DOMAIN t : j > k => t[j] # Drive!Stopped
    BY <1>3, <2>1 DEF NoStop
  <2> QED
    BY <1>3, <2>1, <2>2 DEF Bright
<1>9. ASSUME NEW k \in DOMAIN s, s[k] = Drive!Ready
      PROVE  Bright(t)
  <2>1. Len(q) + k \in DOMAIN t /\ t[Len(q) + k] = Drive!Ready
    BY <1>4, <1>9
  <2>2. \A j \in DOMAIN t : j > Len(q) + k => t[j] # Drive!Stopped
    <3>1. ASSUME NEW j \in DOMAIN t, j > Len(q) + k
          PROVE  t[j] # Drive!Stopped
      <4>1. j \notin DOMAIN q
        BY <1>1, <1>4, <3>1
      <4> QED
        BY <1>3, <4>1 DEF NoStop
    <3> QED
      BY <3>1
  <2> QED
    BY <2>1, <2>2 DEF Bright
<1> QED
  BY <1>5, <1>6, <1>7, <1>8, <1>9 DEF t

(* SbxDrive: who is told what. *)

Sole == ~collided => \A b, c \in broker : b = c

\* What m's list comes to once all is handled.
ComesTo(m, o, ds) ==
    \/ NoList(frames[m]) /\ superuser[m] = o /\ driving[m] = ds
    \/ LastList(frames[m], Drive!Acl(o, ds))

\* m comes to show the pane, with the list the broker comes to.
InStep(m, b) ==
    /\ Closed(frames[m])
    /\ \/ m \in pane /\ NoStop(frames[m])
       \/ Bright(frames[m])
    /\ \E o \in Drive!Parties \cup {Drive!NoName} : \E ds \in SUBSET Drive!Parties :
          ComesTo(m, o, ds) /\ ComesTo(b, o, ds)

\* The broker is going to hear of somebody who has come back.
Owes(b) == \E k \in DOMAIN frames[b] : frames[b][k] = Drive!Joined

ToldOf(b) == Owes(b) \/ \A m \in online \ {b} : InStep(m, b)

\* The lists in q are of owner o, and let in no more than ds.
OwnLists(q, o, ds) ==
    \A k \in DOMAIN q : IsList(q[k]) => q[k].owner = o /\ q[k].drivers \subseteq ds

\* The list the broker has, and those it may take for it, are its own.
Abides(b) ==
    /\ superuser[b] = Drive!Me(b) /\ driving[b] \subseteq meant[b]
    /\ OwnLists(frames[b], Drive!Me(b), meant[b])

DriveInv ==
    /\ Drive!TypeOK /\ Sole /\ broker \subseteq pane
    /\ ~collided => \A b \in broker \cap online : ToldOf(b)
    /\ ~collided /\ ~hasty => \A b \in broker : Abides(b)

LEMMA DriveStart ==
    ASSUME OpsAreCounted, Drive!Init
    PROVE  DriveInv
<1>1. frames \in [Peers -> Seq(Drive!Frame)]
  <2>1. <<>> \in Seq(Drive!Frame)
    OBVIOUS
  <2> QED
    BY <2>1 DEF Drive!Init
<1>2. 0 \in 0..MaxOps /\ 0 \in 0..MaxCuts
  BY DEF OpsAreCounted
<1>3. Drive!TypeOK
  BY <1>1, <1>2 DEF Drive!Init, Drive!TypeOK
<1> QED
  BY <1>3 DEF Drive!Init, DriveInv, Sole

\* Those whose frames and lists stay as they are are as much in step as before.
LEMMA StaysTold ==
    ASSUME DriveInv, ~collided, NEW b \in broker, b \in online, online' \subseteq online,
           b \in online', pane \subseteq pane',
           \A n \in online' : frames'[n] = frames[n] /\ superuser'[n] = superuser[n]
                                                  /\ driving'[n] = driving[n]
    PROVE  ToldOf(b)'
<1>1. ToldOf(b)
  BY DEF DriveInv
<1>2. CASE Owes(b)
  BY <1>2 DEF Owes, ToldOf
<1>3. ASSUME NEW m \in online' \ {b}, InStep(m, b)
      PROVE  InStep(m, b)'
  BY <1>3 DEF InStep, ComesTo
<1> QED
  BY <1>1, <1>2, <1>3 DEF ToldOf

\* Frames that end in one list for a client and the broker.
LEMMA TellsAll ==
    ASSUME Drive!TypeOK, NEW o \in Drive!Parties \cup {Drive!NoName},
           NEW ds \in SUBSET Drive!Parties,
           NEW s \in Seq(Drive!Frame), s # <<>>, s[Len(s)] = Drive!Acl(o, ds), NoStop(s),
           NEW b \in Peers, NEW m \in Peers,
           NEW p \in Seq(Drive!Frame), NEW q \in Seq(Drive!Frame),
           frames'[b] = p \o s, frames'[m] = q \o s,
           \/ \E k \in DOMAIN s : s[k] = Drive!Ready
           \/ m \in pane' /\ NoStop(q)
           \/ Bright(q)
    PROVE  InStep(m, b)'
<1> DEFINE f == Drive!Acl(o, ds)
<1>1. f \in Drive!Frame /\ IsList(f)
  BY FrameKinds
<1>2. LastList(frames'[b], f)
  BY <1>1, ListAtEnd
<1>3. LastList(frames'[m], f) /\ Closed(frames'[m])
  BY <1>1, ListAtEnd
<1>4. (m \in pane' /\ NoStop(frames'[m])) \/ Bright(frames'[m])
  BY <1>1, ListAtEnd
<1> HIDE DEF f
<1>5. ComesTo(m, o, ds)' /\ ComesTo(b, o, ds)'
  BY <1>2, <1>3 DEF ComesTo, f
<1> QED
  BY <1>3, <1>4, <1>5 DEF InStep

\* What a client's list comes to, it comes to after one more frame.
LEMMA TakesOn ==
    ASSUME Drive!TypeOK, NEW m \in Peers, frames[m] # <<>>, Drive!Take(m, Head(frames[m])),
           NEW o, NEW ds, ComesTo(m, o, ds), frames'[m] = Tail(frames[m]),
           Head(frames[m]) = Drive!Stopped /\ m \notin broker => ~NoList(frames[m])
    PROVE  ComesTo(m, o, ds)'
<1> DEFINE q == frames[m]
<1>1. q \in Seq(Drive!Frame) /\ Head(q) \in Drive!Frame
  BY FirstAndRest DEF Drive!TypeOK
<1>2. CASE NoList(q)
  <2>1. NoList(Tail(q)) /\ ~IsList(Head(q))
    BY <1>1, <1>2, RestKeeps
  <2>2. superuser'[m] = superuser[m] /\ driving'[m] = driving[m]
    BY <1>2, <2>1, FrameKinds DEF Drive!Take, Drive!app, IsList
  <2>3. superuser[m] = o /\ driving[m] = ds
    BY <1>2 DEF ComesTo, NoList, LastList
  <2> QED
    BY <2>1, <2>2, <2>3 DEF ComesTo
<1>3. CASE LastList(q, Drive!Acl(o, ds))
  <2>1. \/ LastList(Tail(q), Drive!Acl(o, ds))
        \/ NoList(Tail(q)) /\ Head(q) = Drive!Acl(o, ds) /\ IsList(Drive!Acl(o, ds))
    BY <1>1, <1>3, RestKeeps
  <2>2. CASE NoList(Tail(q)) /\ Head(q) = Drive!Acl(o, ds) /\ IsList(Drive!Acl(o, ds))
    <3>1. superuser' = [superuser EXCEPT ![m] = Drive!Acl(o, ds).owner]
          /\ driving' = [driving EXCEPT ![m] = Drive!Acl(o, ds).drivers]
      BY <2>2, FrameKinds DEF Drive!Take, IsList
    <3>2. superuser'[m] = o /\ driving'[m] = ds
      BY <3>1 DEF Drive!TypeOK, Drive!Acl
    <3> QED
      BY <2>2, <3>2 DEF ComesTo
  <2> QED
    BY <2>1, <2>2 DEF ComesTo
<1> QED
  BY <1>2, <1>3 DEF ComesTo

\* Frames reach everybody with a connection if the sender has one.
LEMMA SentTo ==
    ASSUME NEW boxed \in [Peers -> Seq(Drive!Frame)], NEW m \in Peers,
           NEW s \in Seq(Drive!Frame)
    PROVE  /\ Drive!Sent(m, s, boxed) \in [Peers -> Seq(Drive!Frame)]
           /\ m \in online =>
                \A n \in online \cap Peers : Drive!Sent(m, s, boxed)[n] = boxed[n] \o s
           /\ \A n \in Peers : n \notin online => Drive!Sent(m, s, boxed)[n] = boxed[n]
           /\ m \notin online => Drive!Sent(m, s, boxed) = boxed
BY MoreFrames DEF Drive!Sent

LEMMA TwoFrames ==
    ASSUME NEW f \in Drive!Frame, NEW g \in Drive!Frame
    PROVE  <<f>> \o <<g>> = <<f, g>> /\ <<>> \o <<g>> = <<g>>
<1> DEFINE a == <<f>> \o <<g>>
           b == <<f, g>>
           c == <<>> \o <<g>>
           d == <<g>>
<1>1. \A s, t \in Seq(Drive!Frame) :
        Len(s) = Len(t) /\ (\A k \in 1 .. Len(s) : s[k] = t[k]) => s = t
  OBVIOUS
<1>2. <<f>> \in Seq(Drive!Frame) /\ <<g>> \in Seq(Drive!Frame) /\ <<>> \in Seq(Drive!Frame)
  OBVIOUS
<1>3. a \in Seq(Drive!Frame) /\ Len(a) = 2 /\ a[1] = f /\ a[2] = g
  BY <1>2
<1>4. b \in Seq(Drive!Frame) /\ Len(b) = 2 /\ b[1] = f /\ b[2] = g
  OBVIOUS
<1>5. c \in Seq(Drive!Frame) /\ Len(c) = 1 /\ c[1] = g
  BY <1>2
<1>6. d \in Seq(Drive!Frame) /\ Len(d) = 1 /\ d[1] = g
  OBVIOUS
<1> HIDE DEF a, b, c, d
<1>7. a = b
  BY <1>1, <1>3, <1>4
<1>8. c = d
  BY <1>1, <1>5, <1>6
<1> QED
  BY <1>7, <1>8 DEF a, b, c, d

LEMMA AnnounceIs ==
    ASSUME Drive!TypeOK, NEW m \in Peers
    PROVE  /\ Drive!Announce(m) \in Seq(Drive!Frame) /\ Drive!Announce(m) # <<>>
           /\ Drive!Announce(m)[Len(Drive!Announce(m))] =
                Drive!Acl(superuser[m], driving[m])
           /\ NoStop(Drive!Announce(m))
           /\ m \in pane =>
                Drive!Announce(m) = <<Drive!Ready, Drive!Acl(superuser[m], driving[m])>>
           /\ m \notin pane => Drive!Announce(m) = <<Drive!Acl(superuser[m], driving[m])>>
<1> DEFINE f == Drive!Acl(superuser[m], driving[m])
<1>1. f \in Drive!Frame /\ f # Drive!Stopped /\ Drive!Ready \in Drive!Frame
        /\ Drive!Ready # Drive!Stopped
  BY FrameKinds DEF Drive!TypeOK
<1> HIDE DEF f
<1>2. CASE m \in pane
  <2>1. Drive!Announce(m) = <<Drive!Ready>> \o <<f>>
    BY <1>2 DEF Drive!Announce, f
  <2>2. Drive!Announce(m) = <<Drive!Ready, f>>
    BY <1>1, <2>1, TwoFrames
  <2> QED
    BY <1>1, <1>2, <2>2 DEF NoStop, f
<1>3. CASE m \notin pane
  <2>1. Drive!Announce(m) = <<>> \o <<f>>
    BY <1>3 DEF Drive!Announce, f
  <2>2. Drive!Announce(m) = <<f>>
    BY <1>1, <2>1, TwoFrames
  <2> QED
    BY <1>1, <1>3, <2>2 DEF NoStop, f
<1> QED
  BY <1>2, <1>3

LEMMA OneList ==
    ASSUME Drive!TypeOK, NEW m \in Peers, NEW ds \in SUBSET Drive!Parties
    PROVE  /\ Drive!Acl(superuser[m], ds) \in Drive!Frame
                /\ IsList(Drive!Acl(superuser[m], ds))
           /\ Drive!Acl(superuser[m], ds) # Drive!Stopped
           /\ <<Drive!Acl(superuser[m], ds)>> \in Seq(Drive!Frame)
                /\ <<Drive!Acl(superuser[m], ds)>> # <<>>
           /\ <<Drive!Acl(superuser[m], ds)>>[Len(<<Drive!Acl(superuser[m], ds)>>)] =
                Drive!Acl(superuser[m], ds)
           /\ NoStop(<<Drive!Acl(superuser[m], ds)>>)
<1> DEFINE f == Drive!Acl(superuser[m], ds)
<1>1. f \in Drive!Frame /\ f # Drive!Stopped /\ IsList(f)
  BY FrameKinds DEF Drive!TypeOK
<1> HIDE DEF f
<1>2. /\ <<f>> \in Seq(Drive!Frame) /\ <<f>> # <<>> /\ <<f>>[Len(<<f>>)] = f
      /\ NoStop(<<f>>)
  BY <1>1 DEF NoStop
<1> QED
  BY <1>1, <1>2 DEF f

\* Rewriting a list keeps to the types.
LEMMA RewriteTypes ==
    ASSUME Drive!TypeOK, NEW m \in Peers, NEW ds \in SUBSET Drive!Parties,
           Drive!Rewrite(m, ds)
    PROVE  /\ hasty' \in BOOLEAN
           /\ driving' \in [Peers -> SUBSET Drive!Parties]
           /\ frames' \in [Peers -> Seq(Drive!Frame)]
<1>1. <<Drive!Acl(superuser[m], ds)>> \in Seq(Drive!Frame)
  BY OneList
<1>2. Drive!Sent(m, <<Drive!Acl(superuser[m], ds)>>, frames) \in [Peers -> Seq(Drive!Frame)]
  BY <1>1, SentTo DEF Drive!TypeOK
<1> QED
  BY <1>2 DEF Drive!Rewrite, Drive!TypeOK

LEMMA NameTypes ==
    ASSUME NEW m \in Peers
    PROVE  Drive!Me(m) \in Drive!Parties /\ Drive!Agent(m) \in Drive!Parties
BY DEF Drive!Me, Drive!Agent, Drive!Parties

\* A command is one of those that are counted.
LEMMA CommandCounts ==
    ASSUME OpsAreCounted, Drive!TypeOK, Drive!Command
    PROVE  ops' \in 0..MaxOps
BY DEF OpsAreCounted, Drive!TypeOK, Drive!Command

\* What a handled frame does to the pane and the list.
LEMMA TakeIs ==
    ASSUME NEW m \in Peers, NEW f \in Drive!Frame, Drive!Take(m, f)
    PROVE  /\ f = Drive!Ready => /\ pane' = pane \cup IF m \in broker THEN {} ELSE {m}
                                 /\ superuser' = superuser /\ driving' = driving
           /\ f = Drive!Stopped /\ m \notin broker =>
                  /\ pane' = pane \ {m}
                  /\ superuser' = [superuser EXCEPT ![m] = Drive!NoName]
                  /\ driving' = [driving EXCEPT ![m] = {}]
           /\ IsList(f) => /\ superuser' = [superuser EXCEPT ![m] = f.owner]
                           /\ driving' = [driving EXCEPT ![m] = f.drivers]
                           /\ pane' = pane
           /\ f # Drive!Ready /\ ~(f = Drive!Stopped /\ m \notin broker) /\ ~IsList(f) =>
                  pane' = pane /\ superuser' = superuser /\ driving' = driving
<1>1. Drive!Ready # Drive!Stopped /\ ~IsList(Drive!Ready) /\ ~IsList(Drive!Stopped)
  BY FrameKinds
<1> HIDE DEF Drive!Ready, Drive!Stopped
<1>2. CASE f = Drive!Ready
  BY <1>1, <1>2 DEF Drive!Take, IsList
<1>3. CASE f # Drive!Ready /\ f = Drive!Stopped /\ m \notin broker
  BY <1>1, <1>3 DEF Drive!Take, IsList
<1>4. CASE f # Drive!Ready /\ ~(f = Drive!Stopped /\ m \notin broker) /\ IsList(f)
  BY <1>1, <1>4 DEF Drive!Take, IsList
<1>5. CASE f # Drive!Ready /\ ~(f = Drive!Stopped /\ m \notin broker) /\ ~IsList(f)
  BY <1>1, <1>5 DEF Drive!Take, IsList, Drive!app
<1> QED
  BY <1>1, <1>2, <1>3, <1>4, <1>5

LEMMA TakeTypes ==
    ASSUME Drive!TypeOK, NEW m \in Peers, NEW f \in Drive!Frame, Drive!Take(m, f)
    PROVE  /\ pane' \subseteq Peers
           /\ superuser' \in [Peers -> Drive!Parties \cup {Drive!NoName}]
           /\ driving' \in [Peers -> SUBSET Drive!Parties]
<1>1. CASE f = Drive!Ready
  BY <1>1, TakeIs DEF Drive!TypeOK
<1>2. CASE f = Drive!Stopped /\ m \notin broker
  BY <1>2, TakeIs DEF Drive!TypeOK
<1>3. CASE IsList(f)
  <2>1. f.owner \in Drive!Parties \cup {Drive!NoName} /\ f.drivers \in SUBSET Drive!Parties
    BY <1>3, ListFields
  <2>2. /\ superuser' = [superuser EXCEPT ![m] = f.owner]
        /\ driving' = [driving EXCEPT ![m] = f.drivers]
        /\ pane' = pane
    BY <1>3, TakeIs
  <2> QED
    BY <2>1, <2>2 DEF Drive!TypeOK
<1>4. CASE f # Drive!Ready /\ ~(f = Drive!Stopped /\ m \notin broker) /\ ~IsList(f)
  BY <1>4, TakeIs DEF Drive!TypeOK
<1> QED
  BY <1>1, <1>2, <1>3, <1>4

\* The frames a handled frame leaves, and those that answer it.
LEMMA RestTypes ==
    ASSUME Drive!TypeOK, NEW m \in Peers, frames[m] # <<>>
    PROVE  /\ Head(frames[m]) \in Drive!Frame
           /\ [frames EXCEPT ![m] = Tail(@)] \in [Peers -> Seq(Drive!Frame)]
           /\ Drive!Sent(m, Drive!Announce(m), [frames EXCEPT ![m] = Tail(@)])
                \in [Peers -> Seq(Drive!Frame)]
<1>1. Head(frames[m]) \in Drive!Frame /\ Tail(frames[m]) \in Seq(Drive!Frame)
  BY FirstAndRest DEF Drive!TypeOK
<1>2. [frames EXCEPT ![m] = Tail(@)] \in [Peers -> Seq(Drive!Frame)]
  BY <1>1 DEF Drive!TypeOK
<1> QED
  BY <1>1, <1>2, AnnounceIs, SentTo

LEMMA CommandTypes ==
    ASSUME OpsAreCounted, Drive!TypeOK, NEW m \in Peers,
           \/ Drive!Summon(m) \/ Drive!LaunchFailed(m) \/ Drive!Stop(m)
                \/ Drive!KillSwitch(m)
           \/ Drive!StartAgent(m, TRUE) \/ Drive!StartAgent(m, FALSE) \/ Drive!StopAgent(m)
           \/ \E n \in Drive!Parties : Drive!Grant(m, n) \/ Drive!Revoke(m, n)
    PROVE  Drive!TypeOK'
<1> USE NameTypes
<1> HIDE DEF Drive!Parties, Drive!Frame, Drive!Ready, Drive!Stopped, Drive!Joined
<1>1. CASE Drive!Summon(m)
  BY <1>1, CommandCounts DEF Drive!Summon, Drive!TypeOK, Drive!app
<1>2. CASE Drive!LaunchFailed(m)
  BY <1>2 DEF Drive!LaunchFailed, Drive!TypeOK, Drive!app
<1>3. CASE Drive!Stop(m)
  <2>1. Drive!Sent(m, <<Drive!Stopped>>, frames) \in [Peers -> Seq(Drive!Frame)]
    <3>1. <<Drive!Stopped>> \in Seq(Drive!Frame)
      BY FrameKinds
    <3> QED
      BY <3>1, SentTo DEF Drive!TypeOK
  <2> QED
    BY <1>3, <2>1, CommandCounts DEF Drive!Stop, Drive!TypeOK, Drive!app
<1>4. CASE Drive!KillSwitch(m)
  <2>1. driving[m] \cap {Drive!Me(m)} \in SUBSET Drive!Parties
          /\ Drive!Rewrite(m, driving[m] \cap {Drive!Me(m)})
    BY <1>4 DEF Drive!KillSwitch, Drive!TypeOK
  <2>2. meant' \in [Peers -> SUBSET Drive!Parties]
        /\ agent' \in [Peers -> {"none", "started", "allowed"}]
    BY <1>4 DEF Drive!KillSwitch, Drive!TypeOK
  <2> QED
    BY <1>4, <2>1, <2>2, RewriteTypes, CommandCounts DEF Drive!KillSwitch, Drive!TypeOK
<1>5. ASSUME NEW allow \in BOOLEAN, Drive!StartAgent(m, allow)
      PROVE  Drive!TypeOK'
  <2>1. agent' \in [Peers -> {"none", "started", "allowed"}] /\ ops' \in 0..MaxOps
    BY <1>5, CommandCounts DEF Drive!StartAgent, Drive!TypeOK
  <2>2. CASE allow /\ m \in pane /\ superuser[m] = Drive!Me(m)
    <3>1. /\ Drive!Rewrite(m, driving[m] \cup {Drive!Agent(m)})
          /\ meant' = [meant EXCEPT ![m] = @ \cup {Drive!Agent(m)}]
      BY <1>5, <2>2 DEF Drive!StartAgent
    <3>2. /\ driving[m] \cup {Drive!Agent(m)} \in SUBSET Drive!Parties
          /\ meant' \in [Peers -> SUBSET Drive!Parties]
      BY <3>1 DEF Drive!TypeOK
    <3> QED
      BY <1>5, <2>1, <3>1, <3>2, RewriteTypes DEF Drive!StartAgent, Drive!TypeOK
  <2>3. CASE ~(allow /\ m \in pane /\ superuser[m] = Drive!Me(m))
    BY <1>5, <2>1, <2>3 DEF Drive!StartAgent, Drive!TypeOK
  <2> QED
    BY <2>2, <2>3
<1>6. CASE Drive!StopAgent(m)
  <2>1. /\ agent' \in [Peers -> {"none", "started", "allowed"}] /\ ops' \in 0..MaxOps
        /\ meant' \in [Peers -> SUBSET Drive!Parties]
        /\ driving[m] \ {Drive!Agent(m)} \in SUBSET Drive!Parties
    BY <1>6, CommandCounts DEF Drive!StopAgent, Drive!TypeOK
  <2>2. CASE Drive!Agent(m) \in driving[m] /\ m \in pane
    <3>1. Drive!Rewrite(m, driving[m] \ {Drive!Agent(m)})
      BY <1>6, <2>2 DEF Drive!StopAgent
    <3> QED
      BY <1>6, <2>1, <3>1, RewriteTypes DEF Drive!StopAgent, Drive!TypeOK
  <2>3. CASE ~(Drive!Agent(m) \in driving[m] /\ m \in pane)
    <3>1. /\ driving' = [driving EXCEPT ![m] = @ \ {Drive!Agent(m)}]
          /\ hasty' = (hasty \/ ~Drive!Settled)
          /\ UNCHANGED frames
      BY <1>6, <2>3 DEF Drive!StopAgent
    <3>2. driving' \in [Peers -> SUBSET Drive!Parties] /\ hasty' \in BOOLEAN
      BY <3>1 DEF Drive!TypeOK
    <3> QED
      BY <1>6, <2>1, <3>1, <3>2 DEF Drive!StopAgent, Drive!TypeOK
  <2> QED
    BY <2>2, <2>3
<1>7. ASSUME NEW n \in Drive!Parties, Drive!Grant(m, n)
      PROVE  Drive!TypeOK'
  <2>1. /\ driving[m] \cup {n} \in SUBSET Drive!Parties
             /\ Drive!Rewrite(m, driving[m] \cup {n})
        /\ meant' \in [Peers -> SUBSET Drive!Parties]
    BY <1>7 DEF Drive!Grant, Drive!TypeOK
  <2> QED
    BY <1>7, <2>1, RewriteTypes, CommandCounts DEF Drive!Grant, Drive!TypeOK
<1>8. ASSUME NEW n \in Drive!Parties, Drive!Revoke(m, n)
      PROVE  Drive!TypeOK'
  <2>1. /\ driving[m] \ {n} \in SUBSET Drive!Parties /\ Drive!Rewrite(m, driving[m] \ {n})
        /\ meant' \in [Peers -> SUBSET Drive!Parties]
    BY <1>8 DEF Drive!Revoke, Drive!TypeOK
  <2> QED
    BY <1>8, <2>1, RewriteTypes, CommandCounts DEF Drive!Revoke, Drive!TypeOK
<1> QED
  BY <1>1, <1>2, <1>3, <1>4, <1>5, <1>6, <1>7, <1>8

LEMMA DriveTypes ==
    ASSUME OpsAreCounted, DriveInv, Drive!Next
    PROVE  Drive!TypeOK'
<1> HIDE DEF Drive!Parties, Drive!Frame, Drive!Ready, Drive!Stopped, Drive!Joined
<1>1. Drive!TypeOK
  BY DEF DriveInv
<1>2. ASSUME NEW m \in Peers, Drive!Launched(m)
      PROVE  Drive!TypeOK'
  <2> DEFINE may == {Drive!Me(m)} \cup IF agent[m] = "allowed" THEN {Drive!Agent(m)} ELSE {}
  <2>1. may \in SUBSET Drive!Parties /\ Drive!Me(m) \in Drive!Parties
    BY NameTypes
  <2> HIDE DEF may
  <2>2. <<Drive!Ready, Drive!Acl(Drive!Me(m), may)>> \in Seq(Drive!Frame)
    BY <2>1, FrameKinds
  <2>3. Drive!Sent(m, <<Drive!Ready, Drive!Acl(Drive!Me(m), may)>>, frames)
          \in [Peers -> Seq(Drive!Frame)]
    BY <1>1, <2>2, SentTo DEF Drive!TypeOK
  <2>4. /\ launching' = launching \ {m}
        /\ collided' = (collided \/ broker # {})
        /\ broker' = broker \cup {m} /\ pane' = pane \cup {m}
        /\ superuser' = [superuser EXCEPT ![m] = Drive!Me(m)]
        /\ driving' = [driving EXCEPT ![m] = may]
        /\ meant' = [meant EXCEPT ![m] = may]
        /\ frames' = Drive!Sent(m, <<Drive!Ready, Drive!Acl(Drive!Me(m), may)>>, frames)
        /\ hasty' = (hasty \/ ~Drive!Settled)
        /\ UNCHANGED <<online, agent, ops, cuts>>
    BY <1>2 DEF Drive!Launched, may
  <2> QED
    BY <1>1, <2>1, <2>3, <2>4 DEF Drive!TypeOK
<1>3. ASSUME NEW m \in Peers, Drive!Handle(m)
      PROVE  Drive!TypeOK'
  <2>1. frames[m] # <<>> /\ Drive!Take(m, Head(frames[m]))
    BY <1>3 DEF Drive!Handle
  <2>2. frames' \in [Peers -> Seq(Drive!Frame)] /\ Head(frames[m]) \in Drive!Frame
    BY <1>1, <1>3, <2>1, RestTypes DEF Drive!Handle
  <2>3. /\ pane' \subseteq Peers
        /\ superuser' \in [Peers -> Drive!Parties \cup {Drive!NoName}]
        /\ driving' \in [Peers -> SUBSET Drive!Parties]
    BY <1>1, <2>1, <2>2, TakeTypes
  <2> QED
    BY <1>1, <1>3, <2>2, <2>3 DEF Drive!Handle, Drive!TypeOK
<1>4. ASSUME NEW m \in Peers, Drive!Cut(m)
      PROVE  Drive!TypeOK'
  <2>1. PICK k \in 0 .. Len(frames[m]) : frames' = [frames EXCEPT ![m] = SubSeq(@, 1, k)]
    BY <1>4 DEF Drive!Cut
  <2>2. SubSeq(frames[m], 1, k) \in Seq(Drive!Frame)
    BY <1>1 DEF Drive!TypeOK
  <2>3. frames' \in [Peers -> Seq(Drive!Frame)] /\ cuts' \in 0..MaxCuts
    BY <1>1, <1>4, <2>1, <2>2 DEF Drive!Cut, Drive!TypeOK, OpsAreCounted
  <2> QED
    BY <1>1, <1>4, <2>3 DEF Drive!Cut, Drive!TypeOK, Drive!app
<1>5. ASSUME NEW m \in Peers, Drive!Rejoin(m)
      PROVE  Drive!TypeOK'
  <2> DEFINE says == IF m \in broker \cap pane THEN Drive!Announce(m) ELSE <<>>
  <2>1. says \in Seq(Drive!Frame) /\ <<Drive!Joined>> \in Seq(Drive!Frame)
    BY <1>1, AnnounceIs, FrameKinds
  <2> HIDE DEF says
  <2>2. \A n \in Peers : frames[n] \o <<Drive!Joined>> \o says \in Seq(Drive!Frame)
    BY <1>1, <2>1 DEF Drive!TypeOK
  <2>3. frames' = [n \in Peers |->
                     CASE n = m -> says
                       [] n \in online -> frames[n] \o <<Drive!Joined>> \o says
                       [] OTHER -> frames[n]]
        /\ m \notin online
    BY <1>5 DEF Drive!Rejoin, says
  <2>4. frames' \in [Peers -> Seq(Drive!Frame)]
    BY <1>1, <2>1, <2>2, <2>3 DEF Drive!TypeOK
  <2> QED
    BY <1>1, <1>5, <2>4 DEF Drive!Rejoin, Drive!TypeOK, Drive!app
<1> QED
  BY <1>1, <1>2, <1>3, <1>4, <1>5, CommandTypes DEF Drive!Next

LEMMA SentNow ==
    ASSUME Drive!TypeOK, NEW m \in Peers, NEW s \in Seq(Drive!Frame),
           frames' = Drive!Sent(m, s, frames)
    PROVE  \A n \in Peers :
              /\ frames[n] \in Seq(Drive!Frame)
              /\ m \in online /\ n \in online => frames'[n] = frames[n] \o s
              /\ ~(m \in online /\ n \in online) => frames'[n] = frames[n]
BY DEF Drive!TypeOK, Drive!Sent

LEMMA OwesStill ==
    ASSUME NEW b \in Peers, frames[b] \in Seq(Drive!Frame), NEW s \in Seq(Drive!Frame),
           frames'[b] = frames[b] \o s, Owes(b)
    PROVE  Owes(b)'
<1>1. PICK k \in DOMAIN frames[b] : frames[b][k] = Drive!Joined
  BY DEF Owes
<1>2. k \in DOMAIN frames'[b] /\ frames'[b][k] = Drive!Joined
  BY <1>1, MoreFrames
<1> QED
  BY <1>2 DEF Owes

\* A client that rewrites its list tells all of them, or nobody.
LEMMA RewriteTells ==
    ASSUME DriveInv, NEW m \in Peers, NEW ds \in SUBSET Drive!Parties, Drive!Rewrite(m, ds),
           UNCHANGED <<online, broker, pane, superuser, collided>>,
           ~collided, NEW b \in broker, b \in online
    PROVE  ToldOf(b)'
<1> HIDE DEF Drive!Parties, Drive!Frame, Drive!Ready, Drive!Stopped, Drive!Joined, Drive!Acl
<1> DEFINE s == <<Drive!Acl(superuser[m], ds)>>
<1>1. /\ Drive!TypeOK /\ ToldOf(b) /\ b \in Peers /\ online \subseteq Peers
      /\ online' = online /\ superuser' = superuser /\ pane' = pane
      /\ superuser[m] \in Drive!Parties \cup {Drive!NoName}
           /\ frames \in [Peers -> Seq(Drive!Frame)]
      /\ driving \in [Peers -> SUBSET Drive!Parties]
  BY DEF DriveInv, Drive!TypeOK
<1>2. s \in Seq(Drive!Frame) /\ s # <<>> /\ s[Len(s)] = Drive!Acl(superuser[m], ds)
        /\ NoStop(s)
  BY <1>1, OneList
<1>3. driving' = [driving EXCEPT ![m] = ds] /\ frames' = Drive!Sent(m, s, frames)
  BY DEF Drive!Rewrite
<1> HIDE DEF s
<1>4. CASE m \notin online
  <2>1. frames' = frames
    BY <1>1, <1>2, <1>3, <1>4, SentTo
  <2>2. \A n \in online : driving'[n] = driving[n]
    BY <1>1, <1>3, <1>4
  <2>3. \A n \in online' : frames'[n] = frames[n] /\ superuser'[n] = superuser[n]
                                              /\ driving'[n] = driving[n]
    BY <1>1, <2>1, <2>2
  <2> QED
    BY <1>1, <2>3, StaysTold
<1>5. CASE m \in online
  <2>1. \A n \in online : frames'[n] = frames[n] \o s /\ frames[n] \in Seq(Drive!Frame)
    <3>1. \A n \in online : n \in Peers
      BY <1>1
    <3> QED
      BY <1>1, <1>2, <1>3, <1>5, <3>1, SentNow
  <2>2. CASE Owes(b)
    <3>1. Owes(b)'
      BY <1>1, <1>2, <2>1, <2>2, OwesStill
    <3> QED
      BY <3>1 DEF ToldOf
  <2>3. CASE \A n \in online \ {b} : InStep(n, b)
    <3>1. ASSUME NEW n \in online \ {b}
          PROVE  InStep(n, b)'
      <4>1. (n \in pane' /\ NoStop(frames[n])) \/ Bright(frames[n])
        BY <1>1, <2>3 DEF InStep
      <4>2. frames'[n] = frames[n] \o s /\ frames'[b] = frames[b] \o s
            /\ frames[n] \in Seq(Drive!Frame) /\ frames[b] \in Seq(Drive!Frame)
                 /\ n \in Peers
        BY <1>1, <2>1
      <4> QED
        BY <1>1, <1>2, <4>1, <4>2, TellsAll
    <3> QED
      BY <1>1, <3>1 DEF ToldOf
  <2> QED
    BY <1>1, <2>2, <2>3 DEF ToldOf
<1> QED
  BY <1>4, <1>5

\* Frames that let in no more than these lists do.
LEMMA OwnMore ==
    ASSUME NEW q \in Seq(Drive!Frame), NEW s \in Seq(Drive!Frame), NEW o, NEW ds,
           OwnLists(q, o, ds), OwnLists(s, o, ds)
    PROVE  OwnLists(q \o s, o, ds)
<1>1. ASSUME NEW k \in DOMAIN (q \o s), IsList((q \o s)[k])
      PROVE  (q \o s)[k].owner = o /\ (q \o s)[k].drivers \subseteq ds
  <2>1. CASE k \in DOMAIN q
    <3>1. (q \o s)[k] = q[k]
      BY <2>1, MoreFrames
    <3> QED
      BY <1>1, <2>1, <3>1 DEF OwnLists
  <2>2. CASE k \notin DOMAIN q
    <3>1. k - Len(q) \in DOMAIN s /\ k \in Nat /\ Len(q) \in Nat
      BY <2>2, MoreFrames
    <3>2. (q \o s)[Len(q) + (k - Len(q))] = s[k - Len(q)] /\ Len(q) + (k - Len(q)) = k
      BY <3>1, MoreFrames
    <3> QED
      BY <1>1, <3>1, <3>2 DEF OwnLists
  <2> QED
    BY <2>1, <2>2
<1> QED
  BY <1>1 DEF OwnLists

LEMMA OwnOne ==
    ASSUME NEW o \in Drive!Parties \cup {Drive!NoName}, NEW ds \in SUBSET Drive!Parties,
           NEW es,
           ds \subseteq es
    PROVE  /\ OwnLists(<<Drive!Acl(o, ds)>>, o, es)
           /\ OwnLists(<<Drive!Ready, Drive!Acl(o, ds)>>, o, es)
           /\ OwnLists(<<Drive!Joined>>, o, es) /\ OwnLists(<<>>, o, es)
<1> DEFINE f == Drive!Acl(o, ds)
<1>1. f.owner = o /\ f.drivers = ds /\ ~IsList(Drive!Ready) /\ ~IsList(Drive!Joined)
  BY FrameKinds
<1> HIDE DEF f, Drive!Ready, Drive!Joined
<1>2. OwnLists(<<f>>, o, es)
  BY <1>1 DEF OwnLists
<1>3. OwnLists(<<Drive!Ready, f>>, o, es)
  BY <1>1 DEF OwnLists
<1>4. OwnLists(<<Drive!Joined>>, o, es)
  BY <1>1 DEF OwnLists
<1>5. OwnLists(<<>>, o, es)
  BY DEF OwnLists
<1> QED
  BY <1>2, <1>3, <1>4, <1>5 DEF f

\* With no list under way, nobody's inbox has one.
LEMMA SettledIs ==
    ASSUME Drive!Settled, NEW n \in Peers
    PROVE  /\ NoList(frames[n]) /\ ~Owes(n)
           /\ \A o, ds : OwnLists(frames[n], o, ds)
<1>1. \A k \in DOMAIN frames[n] : ~IsList(frames[n][k])
  BY DEF Drive!Settled, IsList
<1>2. \A k \in DOMAIN frames[n] : frames[n][k] # Drive!Joined
  <2>1. Drive!Joined.kind = "joined"
    BY DEF Drive!Joined
  <2> QED
    BY <2>1 DEF Drive!Settled
<1> QED
  BY <1>1, <1>2 DEF NoList, Owes, OwnLists

\* Then a list comes to the broker only from itself, or from one who has its list.
LEMMA RewriteAbides ==
    ASSUME DriveInv, NEW m \in Peers, NEW ds \in SUBSET Drive!Parties, Drive!Rewrite(m, ds),
           UNCHANGED <<online, broker, pane, superuser, collided>>,
           ~collided, ~hasty', NEW b \in broker,
           m = b => ds \subseteq meant'[b],
           m # b => meant'[b] = meant[b],
           m # b /\ superuser[m] = Drive!Me(b)
             /\ driving[m] \subseteq meant[b] => ds \subseteq meant[b]
    PROVE  Abides(b)'
<1> HIDE DEF Drive!Parties, Drive!Frame, Drive!Ready, Drive!Stopped, Drive!Joined, Drive!Acl
<1> DEFINE s == <<Drive!Acl(superuser[m], ds)>>
<1>1. /\ Drive!TypeOK /\ b \in Peers /\ online \subseteq Peers
      /\ online' = online /\ superuser' = superuser
      /\ superuser[m] \in Drive!Parties \cup {Drive!NoName}
           /\ frames \in [Peers -> Seq(Drive!Frame)]
      /\ driving \in [Peers -> SUBSET Drive!Parties]
  BY DEF DriveInv, Drive!TypeOK
<1>2. s \in Seq(Drive!Frame)
  BY <1>1, OneList
<1>3. /\ driving' = [driving EXCEPT ![m] = ds] /\ frames' = Drive!Sent(m, s, frames)
      /\ Drive!Settled /\ ~hasty
  BY DEF Drive!Rewrite
<1>4. Abides(b)
  BY <1>3 DEF DriveInv
<1>5. \A o, es : OwnLists(frames[b], o, es)
  BY <1>1, <1>3, SettledIs
<1>6. ASSUME superuser[m] = Drive!Me(b), ds \subseteq meant'[b]
      PROVE  OwnLists(frames'[b], Drive!Me(b), meant'[b])
  <2>1. OwnLists(s, Drive!Me(b), meant'[b])
    BY <1>1, <1>6, OwnOne
  <2>2. frames'[b] = frames[b] \o s \/ frames'[b] = frames[b]
    BY <1>1, <1>2, <1>3, SentNow
  <2> HIDE DEF s
  <2> QED
    BY <1>1, <1>2, <1>5, <2>1, <2>2, OwnMore
<1> HIDE DEF s
<1>7. CASE m = b
  <2>1. superuser'[b] = Drive!Me(b) /\ driving'[b] \subseteq meant'[b]
    BY <1>1, <1>3, <1>4, <1>7 DEF Abides
  <2>2. OwnLists(frames'[b], Drive!Me(b), meant'[b])
    BY <1>4, <1>6, <1>7 DEF Abides
  <2> QED
    BY <2>1, <2>2 DEF Abides, OwnLists
<1>8. CASE m # b
  <2>1. superuser'[b] = Drive!Me(b) /\ driving'[b] \subseteq meant'[b]
    BY <1>1, <1>3, <1>4, <1>8 DEF Abides
  <2>2. OwnLists(frames'[b], Drive!Me(b), meant'[b])
    <3>1. CASE m \in online /\ b \in online
      <4>1. InStep(m, b)
        <5>1. ToldOf(b) /\ ~Owes(b)
          BY <1>1, <1>3, <3>1, SettledIs DEF DriveInv
        <5> QED
          BY <1>8, <3>1, <5>1 DEF ToldOf
      <4>2. NoList(frames[m]) /\ NoList(frames[b])
        BY <1>1, <1>3, SettledIs
      <4>3. superuser[m] = superuser[b] /\ driving[m] = driving[b]
        <5>1. \A f : ~LastList(frames[m], f) /\ ~LastList(frames[b], f)
          BY <4>2 DEF NoList, LastList
        <5> QED
          BY <4>1, <5>1 DEF InStep, ComesTo
      <4>4. superuser[m] = Drive!Me(b) /\ ds \subseteq meant'[b]
        BY <1>4, <1>8, <4>3 DEF Abides
      <4> QED
        BY <1>6, <4>4
    <3>2. CASE ~(m \in online /\ b \in online)
      <4>1. frames'[b] = frames[b]
        BY <1>1, <1>2, <1>3, <3>2, SentNow
      <4> QED
        BY <1>5, <4>1
    <3> QED
      BY <3>1, <3>2
  <2> QED
    BY <2>1, <2>2 DEF Abides, OwnLists
<1> QED
  BY <1>7, <1>8

\* A list that m rewrites as ds lets in whom broker b means to.
Lets(m, ds, b) ==
    /\ m = b => ds \subseteq meant'[b]
    /\ m # b => meant'[b] = meant[b]
    /\ m # b /\ superuser[m] = Drive!Me(b)
         /\ driving[m] \subseteq meant[b] => ds \subseteq meant[b]

LEMMA RewriteKeeps ==
    ASSUME DriveInv, Drive!TypeOK', NEW m \in Peers, NEW ds \in SUBSET Drive!Parties,
           Drive!Rewrite(m, ds),
           UNCHANGED <<online, broker, pane, superuser, collided>>,
           \A b \in broker : ~collided /\ ~hasty' => Lets(m, ds, b)
    PROVE  DriveInv'
<1>1. Sole' /\ (broker \subseteq pane)'
  BY DEF DriveInv, Sole
<1>2. (~collided => \A b \in broker \cap online : ToldOf(b))'
  BY RewriteTells
<1>3. ASSUME ~collided', ~hasty', NEW b \in broker'
      PROVE  Abides(b)'
  BY <1>3, RewriteAbides DEF Lets
<1> QED
  BY <1>1, <1>2, <1>3 DEF DriveInv

LEMMA PartyNames ==
    \A a, b : /\ Drive!Me(a) = Drive!Me(b) => a = b
              /\ Drive!Agent(a) # Drive!Me(b)
              /\ Drive!Agent(a) = Drive!Agent(b) => a = b
BY DEF Drive!Me, Drive!Agent

LEMMA GrantKeeps ==
    ASSUME DriveInv, Drive!TypeOK', NEW m \in Peers, NEW n \in Drive!Parties,
           Drive!Grant(m, n) \/ Drive!Revoke(m, n)
    PROVE  DriveInv'
<1> HIDE DEF Drive!Parties
<1>1. Drive!TypeOK /\ superuser[m] = Drive!Me(m)
      /\ UNCHANGED <<online, broker, pane, superuser, collided>>
  BY DEF DriveInv, Drive!Grant, Drive!Revoke
<1>2. CASE Drive!Grant(m, n)
  <2>1. /\ Drive!Rewrite(m, driving[m] \cup {n})
        /\ meant' = [meant EXCEPT ![m] = @ \cup {n}]
        /\ driving[m] \cup {n} \in SUBSET Drive!Parties
    BY <1>1, <1>2 DEF Drive!Grant, Drive!TypeOK
  <2>2. ASSUME NEW b \in broker, ~collided, ~hasty'
        PROVE  Lets(m, driving[m] \cup {n}, b)
    <3>1. b \in Peers /\ Abides(b)
      BY <1>1, <2>1, <2>2 DEF DriveInv, Drive!TypeOK, Drive!Rewrite
    <3> QED
      BY <1>1, <2>1, <3>1, PartyNames DEF Lets, Abides, Drive!TypeOK
  <2> QED
    BY <1>1, <2>1, <2>2, RewriteKeeps
<1>3. CASE Drive!Revoke(m, n)
  <2>1. /\ Drive!Rewrite(m, driving[m] \ {n})
        /\ meant' = [meant EXCEPT ![m] = @ \ {n}]
        /\ driving[m] \ {n} \in SUBSET Drive!Parties
    BY <1>1, <1>3 DEF Drive!Revoke, Drive!TypeOK
  <2>2. ASSUME NEW b \in broker, ~collided, ~hasty'
        PROVE  Lets(m, driving[m] \ {n}, b)
    <3>1. b \in Peers /\ Abides(b)
      BY <1>1, <2>1, <2>2 DEF DriveInv, Drive!TypeOK, Drive!Rewrite
    <3> QED
      BY <1>1, <2>1, <3>1, PartyNames DEF Lets, Abides, Drive!TypeOK
  <2> QED
    BY <1>1, <2>1, <2>2, RewriteKeeps
<1> QED
  BY <1>2, <1>3

LEMMA KillKeeps ==
    ASSUME DriveInv, Drive!TypeOK', NEW m \in Peers, Drive!KillSwitch(m)
    PROVE  DriveInv'
<1> HIDE DEF Drive!Parties
<1> DEFINE ds == driving[m] \cap {Drive!Me(m)}
<1>1. /\ Drive!TypeOK /\ m \in broker /\ Drive!Rewrite(m, ds)
      /\ meant' = [meant EXCEPT ![m] = @ \cap {Drive!Me(m)}]
      /\ UNCHANGED <<online, broker, pane, superuser, collided>>
  BY DEF DriveInv, Drive!KillSwitch
<1>2. ds \in SUBSET Drive!Parties
  BY <1>1 DEF Drive!TypeOK
<1>3. ASSUME NEW b \in broker, ~collided, ~hasty'
      PROVE  Lets(m, ds, b)
  <2>1. b \in Peers /\ Abides(b) /\ m = b
    BY <1>1, <1>3 DEF DriveInv, Drive!TypeOK, Drive!Rewrite, Sole
  <2> QED
    BY <1>1, <2>1 DEF Lets, Abides, Drive!TypeOK
<1> QED
  BY <1>1, <1>2, <1>3, RewriteKeeps

LEMMA StartAgentKeeps ==
    ASSUME DriveInv, Drive!TypeOK', NEW m \in Peers, NEW allow \in BOOLEAN,
           Drive!StartAgent(m, allow)
    PROVE  DriveInv'
<1> HIDE DEF Drive!Parties
<1>1. Drive!TypeOK /\ UNCHANGED <<online, broker, pane, superuser, collided>>
  BY DEF DriveInv, Drive!StartAgent
<1>2. CASE allow /\ m \in pane /\ superuser[m] = Drive!Me(m)
  <2> DEFINE ds == driving[m] \cup {Drive!Agent(m)}
  <2>1. Drive!Rewrite(m, ds) /\ meant' = [meant EXCEPT ![m] = @ \cup {Drive!Agent(m)}]
    BY <1>2 DEF Drive!StartAgent
  <2>2. ds \in SUBSET Drive!Parties
    BY <1>1, NameTypes DEF Drive!TypeOK
  <2>3. ASSUME NEW b \in broker, ~collided, ~hasty'
        PROVE  Lets(m, ds, b)
    <3>1. b \in Peers /\ Abides(b)
      BY <1>1, <2>1, <2>3 DEF DriveInv, Drive!TypeOK, Drive!Rewrite
    <3> QED
      BY <1>1, <1>2, <2>1, <3>1, PartyNames DEF Lets, Abides, Drive!TypeOK
  <2> HIDE DEF ds
  <2> QED
    BY <1>1, <2>1, <2>2, <2>3, RewriteKeeps
<1>3. CASE ~(allow /\ m \in pane /\ superuser[m] = Drive!Me(m))
  <2>1. UNCHANGED <<driving, frames, meant, hasty>>
    BY <1>3 DEF Drive!StartAgent
  <2> QED
    BY <1>1, <2>1 DEF DriveInv, Sole, ToldOf, Owes, InStep, ComesTo, Abides
<1> QED
  BY <1>2, <1>3

LEMMA StopAgentKeeps ==
    ASSUME DriveInv, Drive!TypeOK', NEW m \in Peers, Drive!StopAgent(m)
    PROVE  DriveInv'
<1> HIDE DEF Drive!Parties, Drive!Frame, Drive!Ready, Drive!Stopped, Drive!Joined, Drive!Acl
<1> DEFINE ds == driving[m] \ {Drive!Agent(m)}
<1>1. /\ Drive!TypeOK /\ UNCHANGED <<online, broker, pane, superuser, collided>>
      /\ meant' = [meant EXCEPT ![m] = @ \ {Drive!Agent(m)}]
      /\ hasty' = (hasty \/ ~Drive!Settled)
  BY DEF DriveInv, Drive!StopAgent, Drive!Rewrite
<1>2. ds \in SUBSET Drive!Parties
  BY <1>1 DEF Drive!TypeOK
<1>3. ASSUME NEW b \in broker, ~collided, ~hasty'
      PROVE  Lets(m, ds, b)
  <2>1. b \in Peers /\ Abides(b)
    BY <1>1, <1>3 DEF DriveInv, Drive!TypeOK
  <2> QED
    BY <1>1, <2>1, PartyNames DEF Lets, Abides, Drive!TypeOK
<1>4. CASE Drive!Agent(m) \in driving[m] /\ m \in pane
  <2>1. Drive!Rewrite(m, ds)
    BY <1>4 DEF Drive!StopAgent
  <2> HIDE DEF ds
  <2> QED
    BY <1>1, <1>2, <1>3, <2>1, RewriteKeeps
<1>5. CASE ~(Drive!Agent(m) \in driving[m] /\ m \in pane)
  <2>1. driving' = [driving EXCEPT ![m] = ds] /\ frames' = frames
    BY <1>5 DEF Drive!StopAgent
  <2>2. Sole' /\ (broker \subseteq pane)'
    BY <1>1 DEF DriveInv, Sole
  <2>3. ASSUME ~collided', NEW b \in (broker \cap online)'
        PROVE  ToldOf(b)'
    <3>1. b \in broker /\ b \in online /\ ~collided /\ ToldOf(b) /\ b \in pane
      BY <1>1, <2>3 DEF DriveInv
    <3>2. CASE driving' = driving
      <4>1. \A n \in online' : frames'[n] = frames[n] /\ superuser'[n] = superuser[n]
                                                  /\ driving'[n] = driving[n]
        BY <1>1, <2>1, <3>2
      <4> QED
        BY <1>1, <3>1, <4>1, StaysTold
    <3>3. CASE driving' # driving
      <4>1. Drive!Agent(m) \in driving[m] /\ m \notin pane /\ m # b
        BY <1>1, <1>5, <2>1, <3>1, <3>3 DEF Drive!TypeOK
      <4>2. ASSUME NEW n \in online \ {b}, InStep(n, b)
            PROVE  InStep(n, b)'
        <5>1. CASE n # m
          BY <1>1, <2>1, <4>1, <4>2, <5>1 DEF InStep, ComesTo, Drive!TypeOK
        <5>2. CASE n = m
          <6>1. Closed(frames[m]) /\ Bright(frames[m])
            BY <4>1, <4>2, <5>2 DEF InStep
          <6>2. ~NoList(frames[m])
            BY <6>1 DEF Closed, Bright, NoList
          <6>3. \A o, es : ComesTo(m, o, es) => ComesTo(m, o, es)'
            BY <2>1, <6>2 DEF ComesTo
          <6>4. \A o, es : ComesTo(b, o, es) => ComesTo(b, o, es)'
            BY <1>1, <2>1, <4>1 DEF ComesTo, Drive!TypeOK
          <6> QED
            BY <1>1, <2>1, <4>2, <5>2, <6>1, <6>3, <6>4 DEF InStep
        <5> QED
          BY <5>1, <5>2
      <4> QED
        BY <1>1, <2>1, <3>1, <4>2 DEF ToldOf, Owes
    <3> QED
      BY <3>2, <3>3
  <2>4. ASSUME ~collided', ~hasty', NEW b \in broker'
        PROVE  Abides(b)'
    <3>1. b \in Peers /\ Abides(b) /\ Drive!Settled
      BY <1>1, <2>4 DEF DriveInv, Drive!TypeOK
    <3>2. \A o, es : OwnLists(frames[b], o, es)
      BY <3>1, SettledIs
    <3>3. superuser'[b] = Drive!Me(b) /\ driving'[b] \subseteq meant'[b]
      BY <1>1, <2>1, <3>1 DEF Abides, Drive!TypeOK
    <3> QED
      BY <2>1, <3>2, <3>3 DEF Abides
  <2> QED
    BY <2>2, <2>3, <2>4 DEF DriveInv
<1> QED
  BY <1>4, <1>5

LEMMA LaunchKeeps ==
    ASSUME DriveInv, Drive!TypeOK', NEW m \in Peers, Drive!Launched(m)
    PROVE  DriveInv'
<1> HIDE DEF Drive!Parties, Drive!Frame, Drive!Ready, Drive!Stopped, Drive!Joined, Drive!Acl
<1> DEFINE may == {Drive!Me(m)} \cup IF agent[m] = "allowed" THEN {Drive!Agent(m)} ELSE {}
           f == Drive!Acl(Drive!Me(m), may)
           s == <<Drive!Ready, f>>
<1>1. may \in SUBSET Drive!Parties /\ Drive!Me(m) \in Drive!Parties
  BY NameTypes
<1> HIDE DEF may
<1>2. /\ Drive!TypeOK /\ collided' = (collided \/ broker # {})
      /\ broker' = broker \cup {m} /\ pane' = pane \cup {m}
      /\ superuser' = [superuser EXCEPT ![m] = Drive!Me(m)]
      /\ driving' = [driving EXCEPT ![m] = may]
      /\ meant' = [meant EXCEPT ![m] = may]
      /\ frames' = Drive!Sent(m, s, frames)
      /\ hasty' = (hasty \/ ~Drive!Settled) /\ online' = online
  BY DEF DriveInv, Drive!Launched, may
<1>3. /\ s \in Seq(Drive!Frame) /\ s # <<>> /\ s[Len(s)] = f /\ NoStop(s)
      /\ 1 \in DOMAIN s /\ s[1] = Drive!Ready
  <2>1. f \in Drive!Frame /\ f # Drive!Stopped /\ Drive!Ready \in Drive!Frame
          /\ Drive!Ready # Drive!Stopped
    BY <1>1, FrameKinds
  <2> HIDE DEF f
  <2> QED
    BY <2>1 DEF NoStop
<1>4. OwnLists(s, Drive!Me(m), may)
  BY <1>1, OwnOne
<1> HIDE DEF s, f
<1>5. Sole' /\ (broker \subseteq pane)'
  BY <1>2 DEF DriveInv, Sole
<1>6. \A n \in Peers : /\ frames[n] \in Seq(Drive!Frame)
                       /\ m \in online /\ n \in online => frames'[n] = frames[n] \o s
                       /\ ~(m \in online /\ n \in online) => frames'[n] = frames[n]
  BY <1>2, <1>3, SentNow
<1>7. ASSUME ~collided', NEW b \in (broker \cap online)'
      PROVE  ToldOf(b)'
  <2>1. b = m /\ m \in online /\ online \subseteq Peers
    BY <1>2, <1>7 DEF Drive!TypeOK
  <2>2. ASSUME NEW n \in online \ {b}
        PROVE  InStep(n, b)'
    <3>1. frames'[b] = frames[b] \o s /\ frames'[n] = frames[n] \o s /\ n \in Peers
          /\ frames[b] \in Seq(Drive!Frame) /\ frames[n] \in Seq(Drive!Frame)
      BY <1>6, <2>1
    <3>2. b \in Peers /\ s[Len(s)] = Drive!Acl(Drive!Me(m), may)
      BY <1>3, <2>1 DEF f
    <3> QED
      BY <1>1, <1>2, <1>3, <3>1, <3>2, TellsAll
  <2> QED
    BY <1>2, <2>2 DEF ToldOf
<1>8. ASSUME ~collided', ~hasty', NEW b \in broker'
      PROVE  Abides(b)'
  <2>1. b = m /\ Drive!Settled
    BY <1>2, <1>8
  <2>2. OwnLists(frames[m], Drive!Me(m), may)
    BY <2>1, SettledIs
  <2>3. OwnLists(frames'[m], Drive!Me(m), may)
    <3>1. CASE m \in online
      BY <1>3, <1>4, <1>6, <2>2, <3>1, OwnMore
    <3>2. CASE m \notin online
      BY <1>6, <2>2, <3>2
    <3> QED
      BY <3>1, <3>2
  <2>4. superuser'[m] = Drive!Me(m) /\ driving'[m] = may /\ meant'[m] = may
    BY <1>2 DEF Drive!TypeOK
  <2> QED
    BY <2>1, <2>3, <2>4 DEF Abides
<1> QED
  BY <1>5, <1>7, <1>8 DEF DriveInv

LEMMA QuietKeeps ==
    ASSUME DriveInv, Drive!TypeOK', NEW m \in Peers,
           Drive!Summon(m) \/ Drive!LaunchFailed(m)
    PROVE  DriveInv'
<1>1. UNCHANGED <<online, frames, broker, pane, superuser, driving, meant, collided, hasty>>
  BY DEF Drive!Summon, Drive!LaunchFailed, Drive!app
<1> QED
  BY <1>1 DEF DriveInv, Sole, ToldOf, Owes, InStep, ComesTo, Abides

LEMMA StopKeeps ==
    ASSUME DriveInv, Drive!TypeOK', NEW m \in Peers, Drive!Stop(m)
    PROVE  DriveInv'
<1>1. /\ m \in broker /\ broker' = broker \ {m}
      /\ UNCHANGED <<pane, collided>>
  BY DEF Drive!Stop, Drive!app
<1>2. ~collided => broker' = {}
  BY <1>1 DEF DriveInv, Sole
<1> QED
  BY <1>1, <1>2 DEF DriveInv, Sole

\* A handled frame leaves the lists and panes of the others as they are.
LEMMA TakesOwn ==
    ASSUME Drive!TypeOK, NEW m \in Peers, NEW f \in Drive!Frame, Drive!Take(m, f)
    PROVE  \A n \in Peers : n # m => /\ superuser'[n] = superuser[n]
                                        /\ driving'[n] = driving[n]
                                     /\ n \in pane <=> n \in pane'
BY TakeIs DEF Drive!TypeOK

\* One more frame handled leaves a client in step.
LEMMA HandlesInStep ==
    ASSUME DriveInv, NEW m \in Peers, frames[m] # <<>>, Drive!Take(m, Head(frames[m])),
           frames' = [frames EXCEPT ![m] = Tail(@)], ~collided,
           NEW b \in broker, m = b => Head(frames[m]) # Drive!Joined, b \in online,
           online' = online
    PROVE  ToldOf(b)'
<1> HIDE DEF Drive!Parties, Drive!Frame, Drive!Ready, Drive!Stopped, Drive!Joined, Drive!Acl
<1> DEFINE q == frames[m]
<1>1. /\ Drive!TypeOK /\ q \in Seq(Drive!Frame) /\ Head(q) \in Drive!Frame /\ b \in Peers
      /\ broker \subseteq pane /\ ToldOf(b)
      /\ frames'[m] = Tail(q) /\ \A n \in Peers : n # m => frames'[n] = frames[n]
  BY FirstAndRest DEF DriveInv, Drive!TypeOK
<1>2. \A n \in Peers : n # m => /\ superuser'[n] = superuser[n] /\ driving'[n] = driving[n]
                                /\ n \in pane <=> n \in pane'
  BY <1>1, TakesOwn
<1>3. CASE Owes(b)
  <2>1. CASE m # b
    BY <1>1, <1>3, <2>1 DEF Owes, ToldOf
  <2>2. CASE m = b
    <3>1. PICK k \in DOMAIN q : q[k] = Drive!Joined
      BY <1>3, <2>2 DEF Owes
    <3>2. k > 1 /\ k - 1 \in DOMAIN Tail(q) /\ Tail(q)[k - 1] = q[k]
      <4>1. k # 1 /\ k \in 1 .. Len(q)
        BY <1>1, <2>2, <3>1, FirstAndRest
      <4> QED
        BY <1>1, <4>1, FirstAndRest
    <3> QED
      BY <1>1, <2>2, <3>1, <3>2 DEF Owes, ToldOf
  <2> QED
    BY <2>1, <2>2
<1>4. ASSUME NEW n \in online \ {b}, InStep(n, b)
      PROVE  InStep(n, b)'
  <2>0. n \in Peers
    BY <1>1 DEF Drive!TypeOK
  <2>1. PICK o \in Drive!Parties \cup {Drive!NoName}, ds \in SUBSET Drive!Parties :
            ComesTo(n, o, ds) /\ ComesTo(b, o, ds)
    BY <1>4 DEF InStep
  <2>2. Closed(frames[n]) /\ ((n \in pane /\ NoStop(frames[n])) \/ Bright(frames[n]))
    BY <1>4 DEF InStep
  <2>3. \A c \in {n, b} : c # m => ComesTo(c, o, ds)'
    BY <1>1, <1>2, <2>0, <2>1 DEF ComesTo
  <2>4. \A c \in {n, b} : c = m => ComesTo(c, o, ds)'
    <3>1. Head(q) = Drive!Stopped /\ m \notin broker /\ (m = n \/ m = b) => ~NoList(q)
      BY <1>1, <2>2, RestKeeps
    <3>2. ASSUME NEW c \in {n, b}, c = m
          PROVE  ComesTo(m, o, ds)'
      <4>1. ComesTo(m, o, ds)
        BY <2>1, <3>2
      <4>2. Head(frames[m]) = Drive!Stopped /\ m \notin broker => ~NoList(frames[m])
        BY <3>1, <3>2
      <4>3. frames'[m] = Tail(frames[m])
        BY <1>1
      <4> QED
        BY <1>1, <4>1, <4>2, <4>3, TakesOn
    <3> QED
      BY <3>2
  <2>5. Closed(frames'[n]) /\ ((n \in pane' /\ NoStop(frames'[n])) \/ Bright(frames'[n]))
    <3>1. CASE n # m
      BY <1>1, <1>2, <2>0, <2>2, <3>1
    <3>2. CASE n = m
      <4>1. Closed(Tail(q))
        BY <1>1, <2>2, <3>2, RestKeeps
      <4>2. CASE n \in pane /\ NoStop(q)
        <5>1. NoStop(Tail(q)) /\ Head(q) # Drive!Stopped
          BY <1>1, <4>2, RestKeeps
        <5>2. n \in pane'
          BY <1>1, <3>2, <4>2, <5>1, TakeIs
        <5> QED
          BY <1>1, <3>2, <4>1, <5>1, <5>2
      <4>3. CASE Bright(q)
        <5>1. Bright(Tail(q)) \/ (Head(q) = Drive!Ready /\ NoStop(Tail(q)))
          BY <1>1, <4>3, RestKeeps
        <5>2. Head(q) = Drive!Ready => m \in pane'
          BY <1>1, TakeIs
        <5> QED
          BY <1>1, <3>2, <4>1, <5>1, <5>2
      <4> QED
        BY <2>2, <3>2, <4>2, <4>3
    <3> QED
      BY <3>1, <3>2
  <2> QED
    BY <2>3, <2>4, <2>5 DEF InStep
<1> QED
  BY <1>1, <1>3, <1>4 DEF ToldOf

\* A frame of its own leaves the broker a list of its own.
LEMMA HandlesOwn ==
    ASSUME Drive!TypeOK, NEW b \in broker, frames[b] # <<>>,
           Drive!Take(b, Head(frames[b])), Abides(b),
           meant' = meant
    PROVE  /\ superuser'[b] = Drive!Me(b) /\ driving'[b] \subseteq meant'[b]
           /\ OwnLists(Tail(frames[b]), Drive!Me(b), meant[b])
<1> HIDE DEF Drive!Parties, Drive!Frame, Drive!Ready, Drive!Stopped, Drive!Joined, Drive!Acl
<1> DEFINE q == frames[b]
<1>1. /\ b \in Peers /\ q \in Seq(Drive!Frame) /\ Head(q) \in Drive!Frame /\ Head(q) = q[1]
      /\ 1 \in DOMAIN q
      /\ \A k \in DOMAIN Tail(q) : k + 1 \in DOMAIN q /\ Tail(q)[k] = q[k + 1]
  <2>1. b \in Peers /\ q \in Seq(Drive!Frame)
    BY DEF Drive!TypeOK
  <2> QED
    BY <2>1, FirstAndRest
<1>2. OwnLists(Tail(q), Drive!Me(b), meant[b])
  BY <1>1 DEF Abides, OwnLists
<1>3. CASE IsList(Head(q))
  <2>1. Head(q).owner = Drive!Me(b) /\ Head(q).drivers \subseteq meant[b]
    BY <1>1, <1>3 DEF Abides, OwnLists
  <2>2. superuser' = [superuser EXCEPT ![b] = Head(q).owner]
        /\ driving' = [driving EXCEPT ![b] = Head(q).drivers]
    BY <1>1, <1>3, TakeIs
  <2> QED
    BY <1>1, <1>2, <2>1, <2>2 DEF Drive!TypeOK
<1>4. CASE ~IsList(Head(q))
  <2>1. superuser' = superuser /\ driving' = driving
    BY <1>1, <1>4, TakeIs
  <2> QED
    BY <1>2, <2>1 DEF Abides
<1> QED
  BY <1>3, <1>4

LEMMA HandleKeeps ==
    ASSUME DriveInv, Drive!TypeOK', NEW m \in Peers, Drive!Handle(m)
    PROVE  DriveInv'
<1> HIDE DEF Drive!Parties, Drive!Frame, Drive!Ready, Drive!Stopped, Drive!Joined, Drive!Acl
<1> DEFINE q == frames[m]
           rest == [frames EXCEPT ![m] = Tail(@)]
           answers == Head(q) = Drive!Joined /\ m \in broker
<1>1. /\ Drive!TypeOK /\ q # <<>> /\ Drive!Take(m, Head(q)) /\ broker \subseteq pane
      /\ UNCHANGED <<online, broker, meant, collided, hasty>>
      /\ frames' = IF answers THEN Drive!Sent(m, Drive!Announce(m), rest) ELSE rest
  BY DEF DriveInv, Drive!Handle
<1>2. /\ q \in Seq(Drive!Frame) /\ Head(q) \in Drive!Frame /\ Tail(q) \in Seq(Drive!Frame)
      /\ rest \in [Peers -> Seq(Drive!Frame)] /\ rest[m] = Tail(q)
      /\ \A n \in Peers : n # m => rest[n] = frames[n]
  <2>1. q \in Seq(Drive!Frame)
    BY <1>1 DEF Drive!TypeOK
  <2>2. Head(q) \in Drive!Frame /\ Tail(q) \in Seq(Drive!Frame)
    BY <1>1, <2>1, FirstAndRest
  <2> QED
    BY <1>1, <2>1, <2>2 DEF Drive!TypeOK
<1>3. Sole' /\ (broker \subseteq pane)'
  <2>1. broker \subseteq pane'
    BY <1>1, <1>2, TakeIs
  <2> QED
    BY <1>1, <2>1 DEF DriveInv, Sole
<1>4. answers => pane' = pane /\ superuser' = superuser /\ driving' = driving
  <2>1. ~IsList(Drive!Joined) /\ Drive!Joined # Drive!Ready
    BY FrameKinds
  <2> QED
    BY <1>1, <1>2, <2>1, TakeIs
<1>5. /\ Drive!Announce(m) \in Seq(Drive!Frame) /\ Drive!Announce(m) # <<>>
      /\ Drive!Announce(m)[Len(Drive!Announce(m))] = Drive!Acl(superuser[m], driving[m])
      /\ NoStop(Drive!Announce(m))
      /\ m \in pane =>
           Drive!Announce(m) = <<Drive!Ready, Drive!Acl(superuser[m], driving[m])>>
  BY <1>1, AnnounceIs
<1>6. ASSUME answers
      PROVE  \A n \in Peers :
                /\ m \in online /\ n \in online => frames'[n] = rest[n] \o Drive!Announce(m)
                /\ ~(m \in online /\ n \in online) => frames'[n] = rest[n]
  BY <1>1, <1>2, <1>6 DEF Drive!Sent
<1> HIDE DEF rest
<1>7. ASSUME ~collided', NEW b \in (broker \cap online)'
      PROVE  ToldOf(b)'
  <2>1. b \in broker /\ b \in online /\ ~collided /\ online \subseteq Peers
        /\ online' = online /\ \A c \in broker : c = b
    BY <1>1, <1>7 DEF DriveInv, Drive!TypeOK, Sole
  <2>2. CASE answers
    <3>1. b = m /\ m \in pane
      BY <1>1, <2>1, <2>2
    <3>2. ASSUME NEW n \in online \ {b}
          PROVE  InStep(n, b)'
      <4>1. /\ frames'[b] = Tail(q) \o Drive!Announce(m)
                 /\ frames'[n] = frames[n] \o Drive!Announce(m)
            /\ n \in Peers /\ frames[n] \in Seq(Drive!Frame) /\ b \in Peers
        BY <1>1, <1>2, <1>6, <2>1, <2>2, <3>1 DEF Drive!TypeOK
      <4>2. 1 \in DOMAIN Drive!Announce(m) /\ Drive!Announce(m)[1] = Drive!Ready
        BY <1>5, <3>1
      <4>3. superuser[m] \in Drive!Parties \cup {Drive!NoName}
              /\ driving[m] \in SUBSET Drive!Parties
        BY <1>1 DEF Drive!TypeOK
      <4> QED
        BY <1>1, <1>2, <1>5, <4>1, <4>2, <4>3, TellsAll
    <3> QED
      BY <2>1, <3>2 DEF ToldOf
  <2>3. CASE ~answers
    <3>1. frames' = [frames EXCEPT ![m] = Tail(@)]
      BY <1>1, <2>3 DEF rest
    <3>2. m = b => Head(frames[m]) # Drive!Joined
      BY <2>1, <2>3
    <3> QED
      BY <1>1, <2>1, <3>1, <3>2, HandlesInStep
  <2> QED
    BY <2>2, <2>3
<1>8. ASSUME ~collided', ~hasty', NEW b \in broker'
      PROVE  Abides(b)'
  <2>1. /\ b \in broker /\ b \in Peers /\ ~collided /\ meant' = meant
        /\ \A c \in broker : c = b
        /\ Abides(b)
    BY <1>1, <1>8 DEF DriveInv, Drive!TypeOK, Sole
  <2>2. CASE m # b
    <3>1. frames'[b] = frames[b]
      BY <1>1, <1>2, <2>1, <2>2
    <3>2. superuser'[b] = superuser[b] /\ driving'[b] = driving[b]
      BY <1>1, <1>2, <2>1, <2>2, TakesOwn
    <3> QED
      BY <2>1, <3>1, <3>2 DEF Abides
  <2>3. CASE m = b
    <3>1. /\ superuser'[b] = Drive!Me(b) /\ driving'[b] \subseteq meant'[b]
          /\ OwnLists(Tail(q), Drive!Me(b), meant[b])
      BY <1>1, <2>1, <2>3, HandlesOwn
    <3>2. ASSUME answers
          PROVE  OwnLists(Drive!Announce(m), Drive!Me(b), meant[b])
      <4>1. superuser[m] = Drive!Me(b) /\ driving[m] \subseteq meant[b] /\ m \in pane
            /\ superuser[m] \in Drive!Parties \cup {Drive!NoName}
                 /\ driving[m] \in SUBSET Drive!Parties
        BY <1>1, <2>1, <2>3 DEF Abides, Drive!TypeOK
      <4> QED
        BY <1>5, <4>1, OwnOne
    <3>3. OwnLists(frames'[b], Drive!Me(b), meant[b])
      <4>1. frames'[b] = Tail(q) \/ (answers /\ frames'[b] = Tail(q) \o Drive!Announce(m))
        BY <1>1, <1>2, <1>6, <2>3
      <4> HIDE DEF answers
      <4> QED
        BY <1>2, <1>5, <3>1, <3>2, <4>1, OwnMore
    <3> QED
      BY <2>1, <3>1, <3>3 DEF Abides
  <2> QED
    BY <2>2, <2>3
<1> QED
  BY <1>3, <1>7, <1>8 DEF DriveInv

\* What is lost from some frame on.
LEMMA CutTail ==
    ASSUME NEW q \in Seq(Drive!Frame), NEW k \in 0 .. Len(q), NEW o, NEW ds,
           OwnLists(q, o, ds)
    PROVE  OwnLists(SubSeq(q, 1, k), o, ds)
<1>1. \A j \in DOMAIN SubSeq(q, 1, k) : j \in DOMAIN q /\ SubSeq(q, 1, k)[j] = q[j]
  OBVIOUS
<1> QED
  BY <1>1 DEF OwnLists

LEMMA CutKeeps ==
    ASSUME DriveInv, Drive!TypeOK', NEW m \in Peers, Drive!Cut(m)
    PROVE  DriveInv'
<1> HIDE DEF Drive!Parties, Drive!Frame, Drive!Ready, Drive!Stopped, Drive!Joined, Drive!Acl
<1>1. /\ Drive!TypeOK /\ online' = online \ {m}
      /\ UNCHANGED <<broker, pane, superuser, driving, meant, collided, hasty>>
  BY DEF DriveInv, Drive!Cut, Drive!app
<1>2. PICK k \in 0 .. Len(frames[m]) : frames' = [frames EXCEPT ![m] = SubSeq(@, 1, k)]
  BY DEF Drive!Cut
<1>3. Sole' /\ (broker \subseteq pane)'
  BY <1>1 DEF DriveInv, Sole
<1>4. ASSUME ~collided', NEW b \in (broker \cap online)'
      PROVE  ToldOf(b)'
  <2>1. \A n \in online' : frames'[n] = frames[n] /\ superuser'[n] = superuser[n]
                                              /\ driving'[n] = driving[n]
    BY <1>1, <1>2 DEF Drive!TypeOK
  <2>2. /\ b \in broker /\ b \in online /\ b \in online' /\ online' \subseteq online
        /\ pane \subseteq pane' /\ ~collided
    BY <1>1, <1>4
  <2> QED
    BY <2>1, <2>2, StaysTold
<1>5. ASSUME ~collided', ~hasty', NEW b \in broker'
      PROVE  Abides(b)'
  <2>1. b \in Peers /\ Abides(b) /\ frames[b] \in Seq(Drive!Frame)
    BY <1>1, <1>5 DEF DriveInv, Drive!TypeOK
  <2>2. OwnLists(frames'[b], Drive!Me(b), meant[b])
    <3>1. CASE b = m
      <4>1. frames'[b] = SubSeq(frames[b], 1, k)
        BY <1>1, <1>2, <2>1, <3>1 DEF Drive!TypeOK
      <4>2. OwnLists(SubSeq(frames[b], 1, k), Drive!Me(b), meant[b])
        BY <1>2, <2>1, <3>1, CutTail DEF Abides
      <4> QED
        BY <4>1, <4>2
    <3>2. CASE b # m
      BY <1>1, <1>2, <2>1, <3>2 DEF Abides, Drive!TypeOK
    <3> QED
      BY <3>1, <3>2
  <2> QED
    BY <1>1, <2>1, <2>2 DEF Abides
<1> QED
  BY <1>3, <1>4, <1>5 DEF DriveInv

LEMMA RejoinKeeps ==
    ASSUME DriveInv, Drive!TypeOK', NEW m \in Peers, Drive!Rejoin(m)
    PROVE  DriveInv'
<1> HIDE DEF Drive!Parties, Drive!Frame, Drive!Ready, Drive!Stopped, Drive!Joined, Drive!Acl
<1> DEFINE says == IF m \in broker \cap pane THEN Drive!Announce(m) ELSE <<>>
<1>1. /\ Drive!TypeOK /\ m \notin online /\ online' = online \cup {m}
      /\ UNCHANGED <<broker, pane, superuser, driving, meant, collided, hasty>>
      /\ frames' = [n \in Peers |->
                      CASE n = m -> says
                        [] n \in online -> frames[n] \o <<Drive!Joined>> \o says
                        [] OTHER -> frames[n]]
      /\ broker \subseteq pane
  BY DEF DriveInv, Drive!Rejoin, Drive!app
<1>2. says \in Seq(Drive!Frame) /\ <<Drive!Joined>> \in Seq(Drive!Frame)
  BY <1>1, AnnounceIs, FrameKinds
<1>3. ASSUME m \in broker
      PROVE  /\ says = <<Drive!Ready, Drive!Acl(superuser[m], driving[m])>>
             /\ says # <<>> /\ says[Len(says)] = Drive!Acl(superuser[m], driving[m])
                  /\ NoStop(says)
             /\ 1 \in DOMAIN says /\ says[1] = Drive!Ready
  <2>1. m \in pane /\ says = Drive!Announce(m)
    BY <1>1, <1>3
  <2>2. says = <<Drive!Ready, Drive!Acl(superuser[m], driving[m])>>
    BY <1>1, <2>1, AnnounceIs
  <2> QED
    BY <1>1, <2>1, <2>2, AnnounceIs
<1>4. m \notin broker => says = <<>>
  OBVIOUS
<1> HIDE DEF says
<1>5. /\ frames'[m] = says
      /\ \A n \in Peers : n # m
           /\ n \in online => frames'[n] = (frames[n] \o <<Drive!Joined>>) \o says
      /\ \A n \in Peers : n # m /\ n \notin online => frames'[n] = frames[n]
      /\ \A n \in Peers : frames[n] \in Seq(Drive!Frame)
  BY <1>1 DEF Drive!TypeOK
<1>6. \A n \in Peers : frames[n] \o <<Drive!Joined>> \in Seq(Drive!Frame)
  BY <1>2, <1>5, MoreFrames
<1>7. Sole' /\ (broker \subseteq pane)'
  BY <1>1 DEF DriveInv, Sole
<1>8. ASSUME ~collided', NEW b \in (broker \cap online)'
      PROVE  ToldOf(b)'
  <2>1. b \in broker /\ b \in Peers /\ online \subseteq Peers
    BY <1>1, <1>8 DEF Drive!TypeOK
  <2>2. CASE b = m
    <3>1. ASSUME NEW n \in online' \ {b}
          PROVE  InStep(n, b)'
      <4>1. n \in online /\ n # m /\ n \in Peers
        BY <1>1, <2>1, <2>2, <3>1
      <4>2. frames'[b] = <<>> \o says /\ <<>> \in Seq(Drive!Frame)
        BY <1>2, <1>5, <2>2
      <4>3. frames'[n] = (frames[n] \o <<Drive!Joined>>) \o says
              /\ frames[n] \o <<Drive!Joined>> \in Seq(Drive!Frame)
        BY <1>5, <1>6, <4>1
      <4>4. superuser[m] \in Drive!Parties \cup {Drive!NoName}
              /\ driving[m] \in SUBSET Drive!Parties
        BY <1>1 DEF Drive!TypeOK
      <4>5. says[Len(says)] = Drive!Acl(superuser[m], driving[m]) /\ says # <<>>
              /\ NoStop(says)
            /\ \E k \in DOMAIN says : says[k] = Drive!Ready
        BY <1>3, <2>1, <2>2
      <4> QED
        BY <1>1, <1>2, <2>1, <4>1, <4>2, <4>3, <4>4, <4>5, TellsAll
    <3> QED
      BY <3>1 DEF ToldOf
  <2>3. CASE b # m
    <3>1. b \in online /\ frames'[b] = (frames[b] \o <<Drive!Joined>>) \o says
      BY <1>1, <1>5, <1>8, <2>1, <2>3
    <3>2. PICK k \in DOMAIN (frames[b] \o <<Drive!Joined>>) :
                 (frames[b] \o <<Drive!Joined>>)[k] = Drive!Joined
      <4>1. 1 \in DOMAIN <<Drive!Joined>> /\ <<Drive!Joined>>[1] = Drive!Joined
        OBVIOUS
      <4>2. Len(frames[b]) + 1 \in DOMAIN (frames[b] \o <<Drive!Joined>>)
            /\ (frames[b] \o <<Drive!Joined>>)[Len(frames[b]) + 1] = Drive!Joined
        BY <1>2, <1>5, <2>1, <4>1, MoreFrames
      <4> QED
        BY <4>2
    <3>3. k \in DOMAIN frames'[b] /\ frames'[b][k] = Drive!Joined
      BY <1>2, <1>6, <2>1, <3>1, <3>2, MoreFrames
    <3> QED
      BY <3>3 DEF ToldOf, Owes
  <2> QED
    BY <2>2, <2>3
<1>9. ASSUME ~collided', ~hasty', NEW b \in broker'
      PROVE  Abides(b)'
  <2>1. /\ b \in broker /\ b \in Peers /\ Abides(b) /\ \A c \in broker : c = b
        /\ superuser[b] \in Drive!Parties \cup {Drive!NoName}
             /\ driving[b] \in SUBSET Drive!Parties
        /\ superuser[b] = Drive!Me(b) /\ driving[b] \subseteq meant[b]
        /\ OwnLists(frames[b], Drive!Me(b), meant[b])
    BY <1>1, <1>9 DEF DriveInv, Drive!TypeOK, Sole, Abides
  <2>2. OwnLists(says, Drive!Me(b), meant[b])
          /\ OwnLists(<<Drive!Joined>>, Drive!Me(b), meant[b])
    <3>1. /\ OwnLists(<<Drive!Ready, Drive!Acl(superuser[b], driving[b])>>, Drive!Me(b), meant[b])
          /\ OwnLists(<<>>, Drive!Me(b), meant[b])
               /\ OwnLists(<<Drive!Joined>>, Drive!Me(b), meant[b])
      BY <2>1, OwnOne
    <3> QED
      BY <1>3, <1>4, <2>1, <3>1
  <2>3. OwnLists((frames[b] \o <<Drive!Joined>>) \o says, Drive!Me(b), meant[b])
    <3>1. OwnLists(frames[b] \o <<Drive!Joined>>, Drive!Me(b), meant[b])
      BY <1>2, <1>5, <2>1, <2>2, OwnMore
    <3> QED
      BY <1>2, <1>6, <2>1, <2>2, <3>1, OwnMore
  <2>4. OwnLists(frames'[b], Drive!Me(b), meant[b])
    BY <1>5, <2>1, <2>2, <2>3
  <2> QED
    BY <1>1, <2>1, <2>4 DEF Abides
<1> QED
  BY <1>7, <1>8, <1>9 DEF DriveInv

LEMMA DriveStep ==
    ASSUME OpsAreCounted, DriveInv, [Drive!Next]_(Drive!vars)
    PROVE  DriveInv'
<1>1. CASE Drive!Next
  <2>1. Drive!TypeOK'
    BY <1>1, DriveTypes
  <2>2. PICK m \in Peers :
            \/ Drive!Summon(m) \/ Drive!Launched(m) \/ Drive!LaunchFailed(m)
                 \/ Drive!Stop(m)
            \/ \E n \in Drive!Parties : Drive!Grant(m, n) \/ Drive!Revoke(m, n)
            \/ Drive!KillSwitch(m) \/ Drive!StartAgent(m, TRUE)
                 \/ Drive!StartAgent(m, FALSE) \/ Drive!StopAgent(m)
            \/ Drive!Handle(m) \/ Drive!Cut(m) \/ Drive!Rejoin(m)
    BY <1>1 DEF Drive!Next
  <2> QED
    BY <2>1, <2>2, QuietKeeps, LaunchKeeps, StopKeeps, GrantKeeps, KillKeeps,
       StartAgentKeeps,
       StopAgentKeeps, HandleKeeps, CutKeeps, RejoinKeeps
<1>2. CASE UNCHANGED Drive!vars
  <2>1. Drive!TypeOK'
    BY <1>2 DEF Drive!vars, Drive!app, DriveInv, Drive!TypeOK
  <2>2. UNCHANGED <<online, frames, broker, pane, superuser, driving, meant, collided, hasty>>
    BY <1>2 DEF Drive!vars, Drive!app
  <2> QED
    BY <2>1, <2>2 DEF DriveInv, Sole, ToldOf, Owes, InStep, ComesTo, Abides
<1> QED
  BY <1>1, <1>2

LEMMA DriveImplies ==
    ASSUME DriveInv
    PROVE  Drive!BadgesEnforced /\ Drive!RevokedStaysOut
<1>1. Drive!BadgesEnforced
  <2>1. ASSUME Drive!AtRest, ~collided, NEW b \in broker, NEW m \in Peers, m # b
        PROVE  m \in pane /\ superuser[m] = superuser[b] /\ driving[m] = driving[b]
    <3>1. frames[m] = <<>> /\ frames[b] = <<>> /\ b \in online /\ m \in online
      BY <2>1 DEF Drive!AtRest, DriveInv, Drive!TypeOK
    <3>2. ToldOf(b) /\ ~Owes(b)
      BY <2>1, <3>1 DEF DriveInv, Owes
    <3>3. InStep(m, b)
      BY <2>1, <3>1, <3>2 DEF ToldOf
    <3>4. ~Bright(frames[m])
      BY <3>1 DEF Bright
    <3>5. \A f : ~LastList(frames[m], f) /\ ~LastList(frames[b], f)
      BY <3>1 DEF LastList
    <3> QED
      BY <3>3, <3>4, <3>5 DEF InStep, ComesTo
  <2> QED
    BY <2>1 DEF Drive!BadgesEnforced, DriveInv
<1>2. Drive!RevokedStaysOut
  BY DEF Drive!RevokedStaysOut, DriveInv, Abides
<1> QED
  BY <1>1, <1>2
=============================================================================
