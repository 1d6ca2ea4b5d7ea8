---------------------------- MODULE DeviceBridge ----------------------------
(***************************************************************************)
(* A device in a room (src/cmd_chat/device/bridge.py) behind the serial    *)
(* adapter (adapters/base.py, flipper.py, serial_conn.py): its verbs, the  *)
(* arming that some of them need, and the raw shell.                       *)
(*                                                                         *)
(* Every command of a member is a task of its own; they meet in the port   *)
(* lock, the shell and the arm flag.  Frames to the room leave in the      *)
(* order they are asked for (the bridge's _lock is first come, first       *)
(* served), so the model notes a frame where it is asked for.              *)
(***************************************************************************)
EXTENDS Naturals, Sequences, SequencesExt, FiniteSets

CONSTANTS
    Humans,     \* members of the room, without the device
    Tasks,      \* commands that may be running at once
    MaxShells,  \* bound: shells opened in a behaviour
    Nobody

PROBE == "probe"    \* the presence loop, as a user of the port
Verbs == {"read", "push", "hid"}    \* open, owner-only, armed
NoShell == 0

VARIABLES
    owner,      \* Nobody until an access list names one
    drivers,
    armed,
    armedBy,    \* who armed last: "chat" or "console" (history)
    timer,      \* _disarm_task: "none", "pending" or "done"
    present,    \* does the device answer (adapter.online)?
    command,    \* a command: [pc, verb, shell]
    port,       \* the port lock: its holder, then who waits
    pty,        \* the open shell, or NoShell
    relay,      \* the shell whose serial relay runs, or NoShell
    shells,     \* shells opened so far
    ending,     \* end-of-file callbacks that have scheduled a close
    watched,    \* is the terminal's reader registered, and the pump running?
    told        \* the last status the room was sent: "ready" or "ended"

armVars == <<armed, armedBy, timer>>
shellVars == <<pty, relay, shells, ending, watched, told>>
vars == <<owner, drivers, armVars, present, command, port, shellVars>>

Idle == [pc |-> "idle", verb |-> "read", shell |-> NoShell]

TypeOK ==
    /\ owner \in Humans \cup {Nobody}
    /\ drivers \subseteq Humans
    /\ armed \in BOOLEAN /\ armedBy \in {"chat", "console"}
    /\ timer \in {"none", "pending", "done"}
    /\ present \in BOOLEAN
    /\ command \in [Tasks -> [pc : {"idle", "acked", "port", "opening"}, verb : Verbs,
                           shell : 0 .. MaxShells]]
    /\ port \in Seq(Tasks \cup {PROBE}) /\ IsInjective(port)
    /\ pty \in 0 .. MaxShells /\ relay \in 0 .. MaxShells /\ shells \in 0 .. MaxShells
    /\ ending \in BOOLEAN
    /\ watched \in BOOLEAN
    /\ told \in {"ready", "ended"}

Init ==
    /\ owner \in Humans \cup {Nobody}
    /\ drivers = {}
    /\ armed = FALSE /\ armedBy = "chat" /\ timer = "none"
    /\ present = TRUE
    /\ command = [t \in Tasks |-> Idle]
    /\ port = <<>>
    /\ pty = NoShell /\ relay = NoShell /\ shells = 0
    /\ ending = FALSE
    /\ watched = FALSE
    /\ told = "ended"

Authorized(m) == m = owner \/ m \in drivers

---------------------------------------------------------------------------
(* Arming. *)

\* Mutant of Arm: the timer is started if there has not been one.
ArmOneTimer(m) ==
    /\ Authorized(m)
    /\ armed' = TRUE /\ armedBy' = "chat"
    /\ timer' = IF timer = "none" THEN "pending" ELSE timer
    /\ UNCHANGED <<owner, drivers, present, command, port>> /\ UNCHANGED shellVars

\* The running timer is cancelled, and a new one started.
Arm(m) ==
    /\ Authorized(m)
    /\ armed' = TRUE /\ armedBy' = "chat"
    /\ timer' = "pending"
    /\ UNCHANGED <<owner, drivers, present, command, port>> /\ UNCHANGED shellVars

Disarm(m) ==
    /\ Authorized(m)
    /\ armed' = FALSE
    /\ timer' = IF timer = "none" THEN timer ELSE "done"
    /\ UNCHANGED <<owner, drivers, armedBy, present, command, port>> /\ UNCHANGED shellVars

AutoDisarm ==
    /\ timer = "pending"
    /\ timer' = "done" /\ armed' = FALSE
    /\ UNCHANGED <<owner, drivers, armedBy, present, command, port>> /\ UNCHANGED shellVars

\* The operator's terminal touches neither the timer nor the authorisation.
ConsoleArms(on) ==
    /\ armed' = on /\ armedBy' = IF on THEN "console" ELSE armedBy
    /\ UNCHANGED <<owner, drivers, timer, present, command, port>> /\ UNCHANGED shellVars

---------------------------------------------------------------------------
(* Verbs and the port. *)

Privileged(v) == v \in {"push", "hid"}
Rest == <<owner, drivers, armVars, present>>

\* A verb is refused or acknowledged; sending the acknowledgement suspends.
Command(t, m, v) ==
    /\ command[t].pc = "idle"
    /\ present
    /\ Privileged(v) => Authorized(m)
    /\ command' = [command EXCEPT ![t] = [Idle EXCEPT !.pc = "acked", !.verb = v]]
    /\ UNCHANGED <<Rest, port>> /\ UNCHANGED shellVars

\* The adapter looks at the shell and at the arm flag, then asks for the port.
Dispatch(t) ==
    /\ command[t].pc = "acked"
    /\ IF relay # NoShell \/ (command[t].verb = "hid" /\ ~armed)
       THEN /\ command' = [command EXCEPT ![t] = Idle]
            /\ UNCHANGED port
       ELSE /\ command' = [command EXCEPT ![t].pc = "port"]
            /\ port' = Append(port, t)
    /\ UNCHANGED Rest /\ UNCHANGED shellVars

\* The command on the port ends, or is killed when its time is out.
Ran(t) ==
    /\ port # <<>> /\ Head(port) = t
    /\ port' = Tail(port)
    /\ command' = [command EXCEPT ![t] = Idle]
    /\ UNCHANGED Rest /\ UNCHANGED shellVars

\* The presence loop asks for the port too, unless the shell has it.
Probe ==
    /\ PROBE \notin ToSet(port)
    /\ IF relay # NoShell
       THEN present' = TRUE /\ UNCHANGED port
       ELSE \/ port' = Append(port, PROBE) /\ UNCHANGED present
            \/ present' = FALSE /\ UNCHANGED port
    /\ UNCHANGED <<owner, drivers, armVars, command>> /\ UNCHANGED shellVars

Probed ==
    /\ port # <<>> /\ Head(port) = PROBE
    /\ port' = Tail(port)
    /\ present' \in BOOLEAN
    /\ UNCHANGED <<owner, drivers, armVars, command>> /\ UNCHANGED shellVars

---------------------------------------------------------------------------
(* The shell. *)

\* The relay is started at once, without the port lock; then a line is posted.
Open(t, m) ==
    /\ command[t].pc = "idle" /\ Authorized(m) /\ present
    /\ pty = NoShell /\ shells < MaxShells
    /\ shells' = shells + 1
    /\ pty' = shells' /\ relay' = shells'
    /\ drivers' = drivers \cup {m}
    /\ command' = [command EXCEPT ![t] = [Idle EXCEPT !.pc = "opening", !.shell = shells']]
    /\ UNCHANGED <<owner, armVars, present, port, ending, watched, told>>

\* Posted.  The terminal of a shell closed meanwhile cannot be watched any more,
\* unless its number has become that of another shell's terminal.
Opened(t) ==
    /\ command[t].pc = "opening"
    /\ \/ /\ pty # NoShell
          /\ watched' = TRUE
          /\ told' = "ready"
       \/ /\ pty # command[t].shell
          /\ UNCHANGED <<watched, told>>
    /\ command' = [command EXCEPT ![t] = Idle]
    /\ UNCHANGED <<Rest, port, pty, relay, shells, ending>>

Closed ==
    /\ pty' = NoShell
    /\ relay' = IF relay = pty THEN NoShell ELSE relay
    /\ watched' = FALSE
    /\ told' = "ended"

\* `shell stop`.
Stop(m) ==
    /\ Authorized(m) /\ present /\ pty # NoShell
    /\ Closed
    /\ UNCHANGED <<Rest, command, port, shells, ending>>

\* The relay dies; its terminal is at its end, and a close is scheduled.
RelayDies ==
    /\ relay # NoShell
    /\ relay' = NoShell
    /\ UNCHANGED <<Rest, command, port, pty, shells, ending, watched, told>>

EndOfFile ==
    /\ pty # NoShell /\ relay # pty /\ watched /\ ~ending
    /\ ending' = TRUE
    /\ UNCHANGED <<Rest, command, port, pty, relay, shells, watched, told>>

\* It closes whatever shell is open by then.
CloseEnded ==
    /\ ending
    /\ ending' = FALSE
    /\ IF pty = NoShell THEN UNCHANGED <<pty, relay, watched, told>> ELSE Closed
    /\ UNCHANGED <<Rest, command, port, shells>>

---------------------------------------------------------------------------
(* Who may. *)

\* An access list from the room: the first owner named is kept; the drivers
\* are adopted while no shell is open.
TakeAcl(o, ds) ==
    /\ owner' = IF owner = Nobody THEN o ELSE owner
    /\ drivers' = IF pty = NoShell THEN ds ELSE drivers
    /\ UNCHANGED <<armVars, present, command, port>> /\ UNCHANGED shellVars

ConsoleGrants(m) ==
    /\ \/ drivers' = drivers \cup {m}
       \/ drivers' = drivers \ {m}
    /\ UNCHANGED <<owner, armVars, present, command, port>> /\ UNCHANGED shellVars

Next ==
    \/ \E m \in Humans : Arm(m) \/ Disarm(m) \/ Stop(m) \/ ConsoleGrants(m)
    \/ \E t \in Tasks, m \in Humans : Open(t, m) \/ \E v \in Verbs : Command(t, m, v)
    \/ \E t \in Tasks : Dispatch(t) \/ Ran(t) \/ Opened(t)
    \/ \E on \in BOOLEAN : ConsoleArms(on)
    \/ AutoDisarm \/ Probe \/ Probed \/ RelayDies \/ EndOfFile \/ CloseEnded
    \/ \E o \in Humans : \E ds \in SUBSET Humans : TakeAcl(o, ds)

Spec == Init /\ [][Next]_vars

---------------------------------------------------------------------------
(* Properties. *)

\* A device armed over chat has a disarm timer running, through any order of
\* arming, disarming, expiry and the console's own (device/bridge.py:199-206,
\* 245-267).
ArmedHasTimer == armed /\ armedBy = "chat" => timer = "pending"

\* Unless one is just being opened, the last the room heard of the shell is
\* right: no opening, stopping and dying in any order leaves a pane on a shell
\* that is not there (device/bridge.py:102-171).
StatusTold ==
    (\A t \in Tasks : command[t].pc # "opening") => (told = "ready") = (pty # NoShell)
=============================================================================
