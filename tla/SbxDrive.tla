------------------------------ MODULE SbxDrive ------------------------------
(***************************************************************************)
(* The shared sandbox among TUI clients (src/hh/src/app.rs).  One client   *)
(* runs it, its broker: it lets into the shell the input of whoever is in  *)
(* its `drivers`.  Every client has a copy of the access list, the broker  *)
(* like the others, and takes over each one that is broadcast; the server  *)
(* hands a broadcast to its sender too.                                    *)
(*                                                                         *)
(* A name is a member's or that of the AI agent a member started.  The     *)
(* superusers (`sudoers`) travel with the drivers and are left out.        *)
(***************************************************************************)
EXTENDS Naturals, Sequences, FiniteSets

CONSTANTS
    Members,
    MaxOps,     \* bound on commands
    MaxCuts     \* bound on lost connections

Parties == {"member", "agent"} \X Members
Me(m) == <<"member", m>>
Agent(m) == <<"agent", m>>
NoName == <<"no", "one">>

VARIABLES
    linked,     \* clients with a connection
    inbox,      \* frames a client has not handled yet
    broker,     \* clients that run a sandbox (broker, broker_meta)
    launching,
    sandbox,    \* clients that show the pane (app.sandbox)
    owner, drivers,     \* app.owner, app.drivers
    agent,      \* "none", "started", or "allowed": with drive (agent_sbx_allow)
    meant,      \* history: who may drive by the broker's own commands
    collided,   \* history: have two sandboxes run at once?
    hasty,      \* history: has a list been changed while the room was not Settled?
    ops, cuts

vars == <<linked, inbox, broker, launching, sandbox, owner, drivers, agent, meant,
          collided, hasty, ops, cuts>>
app == <<sandbox, owner, drivers>>

Acl(o, ds) == [kind |-> "acl", owner |-> o, drivers |-> ds]
Ready == [kind |-> "ready"]
Stopped == [kind |-> "stopped"]
Joined == [kind |-> "joined"]
Frame == {Ready, Stopped, Joined}
             \cup [kind : {"acl"}, owner : Parties \cup {NoName}, drivers : SUBSET Parties]

TypeOK ==
    /\ linked \subseteq Members /\ broker \subseteq Members
    /\ launching \subseteq Members /\ sandbox \subseteq Members
    /\ inbox \in [Members -> Seq(Frame)]
    /\ owner \in [Members -> Parties \cup {NoName}]
    /\ drivers \in [Members -> SUBSET Parties]
    /\ agent \in [Members -> {"none", "started", "allowed"}]
    /\ meant \in [Members -> SUBSET Parties]
    /\ collided \in BOOLEAN /\ hasty \in BOOLEAN
    /\ ops \in 0..MaxOps /\ cuts \in 0..MaxCuts

Init ==
    /\ linked = Members /\ inbox = [m \in Members |-> <<>>]
    /\ broker = {} /\ launching = {} /\ sandbox = {}
    /\ owner = [m \in Members |-> NoName] /\ drivers = [m \in Members |-> {}]
    /\ agent = [m \in Members |-> "none"]
    /\ meant = [m \in Members |-> {}] /\ collided = FALSE /\ hasty = FALSE
    /\ ops = 0 /\ cuts = 0

\* `box` after the server has passed on what m sends; a dead connection
\* swallows it.
Sent(m, frames, box) ==
    IF m \in linked
    THEN [n \in Members |-> IF n \in linked THEN box[n] \o frames ELSE box[n]]
    ELSE box

\* No list is under way, and none is owed to somebody who came back.
Settled ==
    \A n \in Members : \A k \in DOMAIN inbox[n] : inbox[n][k].kind \notin {"acl", "joined"}

Command == ops < MaxOps /\ ops' = ops + 1

---------------------------------------------------------------------------
(* The life of a sandbox. *)

Summon(m) ==
    /\ Command
    /\ m \notin sandbox \cup broker \cup launching
    /\ launching' = launching \cup {m}
    /\ UNCHANGED <<linked, inbox, broker, app, agent, meant, collided, hasty, cuts>>

\* BrokerMsg::Ready: the owner alone may drive, and an agent it has allowed.
Launched(m) ==
    LET may == {Me(m)} \cup IF agent[m] = "allowed" THEN {Agent(m)} ELSE {} IN
    /\ m \in launching
    /\ launching' = launching \ {m}
    /\ collided' = (collided \/ broker # {})
    /\ broker' = broker \cup {m} /\ sandbox' = sandbox \cup {m}
    /\ owner' = [owner EXCEPT ![m] = Me(m)]
    /\ drivers' = [drivers EXCEPT ![m] = may]
    /\ meant' = [meant EXCEPT ![m] = may]
    /\ inbox' = Sent(m, <<Ready, Acl(Me(m), may)>>, inbox)
    /\ hasty' = (hasty \/ ~Settled)
    /\ UNCHANGED <<linked, agent, ops, cuts>>

LaunchFailed(m) ==
    /\ m \in launching
    /\ launching' = launching \ {m}
    /\ UNCHANGED <<linked, inbox, broker, app, agent, meant, collided, hasty, ops, cuts>>

\* The pane of the owner goes with the echo of this frame.
Stop(m) ==
    /\ Command
    /\ m \in broker
    /\ broker' = broker \ {m}
    /\ inbox' = Sent(m, <<Stopped>>, inbox)
    /\ UNCHANGED <<linked, launching, app, agent, meant, collided, hasty, cuts>>

---------------------------------------------------------------------------
(* The access list. *)

\* Change the client's own list and broadcast it.
Rewrite(m, ds) ==
    /\ hasty' = (hasty \/ ~Settled)
    /\ drivers' = [drivers EXCEPT ![m] = ds]
    /\ inbox' = Sent(m, <<Acl(owner[m], ds)>>, inbox)

\* /grant; `/web allow` grants the publisher in the same way.
Grant(m, n) ==
    /\ Command
    /\ owner[m] = Me(m)
    /\ Rewrite(m, drivers[m] \cup {n})
    /\ meant' = [meant EXCEPT ![m] = @ \cup {n}]
    /\ UNCHANGED <<linked, broker, launching, sandbox, owner, agent, collided, cuts>>

Revoke(m, n) ==
    /\ Command
    /\ owner[m] = Me(m) /\ n # Me(m)
    /\ Rewrite(m, drivers[m] \ {n})
    /\ meant' = [meant EXCEPT ![m] = @ \ {n}]
    /\ UNCHANGED <<linked, broker, launching, sandbox, owner, agent, collided, cuts>>

\* Ctrl-X.
KillSwitch(m) ==
    /\ Command
    /\ m \in broker
    /\ Rewrite(m, drivers[m] \cap {Me(m)})
    /\ meant' = [meant EXCEPT ![m] = @ \cap {Me(m)}]
    /\ agent' = [agent EXCEPT ![m] = IF @ = "allowed" THEN "started" ELSE @]
    /\ UNCHANGED <<linked, broker, launching, sandbox, owner, collided, cuts>>

\* /ai start, with drive for the agent or without.
StartAgent(m, allow) ==
    /\ Command
    /\ agent[m] = "none"
    /\ agent' = [agent EXCEPT ![m] = IF allow THEN "allowed" ELSE "started"]
    /\ IF allow /\ m \in sandbox /\ owner[m] = Me(m)
       THEN /\ Rewrite(m, drivers[m] \cup {Agent(m)})
            /\ meant' = [meant EXCEPT ![m] = @ \cup {Agent(m)}]
       ELSE UNCHANGED <<drivers, inbox, meant, hasty>>
    /\ UNCHANGED <<linked, broker, launching, sandbox, owner, collided, cuts>>

\* /ai stop: whoever started the agent broadcasts the list it has, without it.
StopAgent(m) ==
    /\ Command
    /\ agent[m] # "none"
    /\ agent' = [agent EXCEPT ![m] = "none"]
    /\ IF Agent(m) \in drivers[m] /\ m \in sandbox
       THEN Rewrite(m, drivers[m] \ {Agent(m)})
       ELSE /\ drivers' = [drivers EXCEPT ![m] = @ \ {Agent(m)}]
            /\ hasty' = (hasty \/ ~Settled)
            /\ UNCHANGED inbox
    /\ meant' = [meant EXCEPT ![m] = @ \ {Agent(m)}]
    /\ UNCHANGED <<linked, broker, launching, sandbox, owner, collided, cuts>>

---------------------------------------------------------------------------
(* The frames of the room and the connection. *)

\* A broker says where its sandbox is and who may drive it.
Announce(m) ==
    (IF m \in sandbox THEN <<Ready>> ELSE <<>>) \o <<Acl(owner[m], drivers[m])>>

Take(m, f) ==
    CASE f = Ready ->
            /\ sandbox' = sandbox \cup IF m \in broker THEN {} ELSE {m}
            /\ UNCHANGED <<owner, drivers>>
      [] f = Stopped /\ m \notin broker ->
            /\ sandbox' = sandbox \ {m}
            /\ owner' = [owner EXCEPT ![m] = NoName]
            /\ drivers' = [drivers EXCEPT ![m] = {}]
      [] f.kind = "acl" ->
            /\ owner' = [owner EXCEPT ![m] = f.owner]
            /\ drivers' = [drivers EXCEPT ![m] = f.drivers]
            /\ UNCHANGED sandbox
      [] OTHER -> UNCHANGED app

\* Mutant of Handle: who came back is shown the pane and not the list.
HandleForgetful(m) ==
    /\ inbox[m] # <<>>
    /\ LET rest == [inbox EXCEPT ![m] = Tail(@)] IN
        inbox' = IF Head(inbox[m]) = Joined /\ m \in broker
                 THEN Sent(m, <<Ready>>, rest) ELSE rest
    /\ Take(m, Head(inbox[m]))
    /\ UNCHANGED <<linked, broker, launching, agent, meant, collided, hasty, ops, cuts>>

Handle(m) ==
    /\ inbox[m] # <<>>
    /\ LET rest == [inbox EXCEPT ![m] = Tail(@)] IN
        inbox' = IF Head(inbox[m]) = Joined /\ m \in broker
                 THEN Sent(m, Announce(m), rest) ELSE rest
    /\ Take(m, Head(inbox[m]))
    /\ UNCHANGED <<linked, broker, launching, agent, meant, collided, hasty, ops, cuts>>

\* What was under way to the client may be lost from some frame on.
Cut(m) ==
    /\ m \in linked /\ cuts < MaxCuts
    /\ cuts' = cuts + 1
    /\ linked' = linked \ {m}
    /\ \E k \in 0 .. Len(inbox[m]) : inbox' = [inbox EXCEPT ![m] = SubSeq(@, 1, k)]
    /\ UNCHANGED <<broker, launching, app, agent, meant, collided, hasty, ops>>

\* It has handled all of the old connection, up to its end; a broker announces
\* its sandbox again.
Rejoin(m) ==
    /\ m \notin linked /\ inbox[m] = <<>>
    /\ linked' = linked \cup {m}
    /\ LET own == IF m \in broker \cap sandbox THEN Announce(m) ELSE <<>> IN
        inbox' = [n \in Members |->
                    CASE n = m -> own
                      [] n \in linked -> inbox[n] \o <<Joined>> \o own
                      [] OTHER -> inbox[n]]
    /\ UNCHANGED <<broker, launching, app, agent, meant, collided, hasty, ops, cuts>>

Next == \E m \in Members :
    \/ Summon(m) \/ Launched(m) \/ LaunchFailed(m) \/ Stop(m)
    \/ \E n \in Parties : Grant(m, n) \/ Revoke(m, n)
    \/ KillSwitch(m) \/ StartAgent(m, TRUE) \/ StartAgent(m, FALSE) \/ StopAgent(m)
    \/ Handle(m) \/ Cut(m) \/ Rejoin(m)

Spec == Init /\ [][Next]_vars

---------------------------------------------------------------------------
(* Properties. *)

AtRest == linked = Members /\ \A m \in Members : inbox[m] = <<>>

\* "a rendered badge can never claim a power the room won't actually enforce"
\* (app.rs:520-522): once all frames have arrived, every client shows the list
\* the broker goes by, whatever was granted, lost, rejoined and overwritten, as
\* long as only one sandbox runs at a time.
BadgesEnforced ==
    AtRest /\ ~collided =>
        \A b \in broker : \A m \in Members :
            m \in sandbox /\ owner[m] = owner[b] /\ drivers[m] = drivers[b]

\* /revoke and the kill switch last, and so does what /ai stop takes back: once
\* all frames have arrived, nobody drives whom the broker has not granted or has
\* since revoked, if no list was replaced while another was under way or owed to
\* somebody who came back.  (If one was, the broker takes its own older list, as
\* it comes back, for the newer, or that of a member who had not heard.)
RevokedStaysOut ==
    AtRest /\ ~collided /\ ~hasty => \A b \in broker : drivers[b] \subseteq meant[b]
=============================================================================
