---------------------------- MODULE AgentBridge ----------------------------
(***************************************************************************)
(* The serve loop of an AI agent (src/cmd_chat/agent/bridge.py): who may   *)
(* ask it, prompts held for approval, a destructive plan waiting for       *)
(* `confirm`, and its copy of the room's drive grant.                      *)
(*                                                                         *)
(* One frame is handled at a time, and a question may keep the agent busy  *)
(* for minutes: `task` is the work it awaits, and the frames that arrive   *)
(* meanwhile wait.  The control frames among them are kept in `control`;   *)
(* a person's line is chosen when it is handled, which is the same, since  *)
(* nothing below asks when it was said.  What a model answers is a free    *)
(* choice; the steps of a native task are NativeLoop.                      *)
(***************************************************************************)
EXTENDS Naturals, Sequences, FiniteSets, SequencesExt

CONSTANTS
    People,     \* members that talk to the agent
    Named,      \* members that management lines are about
    Owner,      \* the member who started it, or Nobody (an unowned agent)
    Harness,    \* "native" or "simple"
    MaxPrompts, \* bound: prompts ever held
    MaxControl, \* bound: control frames the agent has not read
    Nobody

ASSUME AgentBridgeAssumption ==
    /\ Named \subseteq People
    /\ Owner \in People \cup {Nobody} /\ Nobody \notin People
    /\ Harness \in {"native", "simple"}
    /\ MaxPrompts \in Nat /\ MaxControl \in Nat

VARIABLES
    \* the room, as its sandbox's owner has it (hh, external)
    sbxUp,      \* is a sandbox running?
    acl,        \* does the last access list name the agent as a driver?
    rejoined,   \* has the agent joined and not been told the above yet?
    \* the agent
    online,     \* is its socket open?
    control,    \* control frames it has not read
    granted,    \* its copy of acl
    sbx,        \* does it know where the sandbox is (sbx_engine, sbx_name)?
    mode,       \* query_mode: "public" or "private"
    allowed, denied, managers,
    ask_mode,
    prompts,    \* _prompts: held, each [id, by, ask]; only ids find them
    _prompt_seq,
    pending,    \* _pending: who asked for the destructive plan, or Nobody
    task        \* the work being awaited: [kind, by]

world == <<sbxUp, acl, rejoined>>
lists == <<mode, allowed, denied, managers, ask_mode>>
held == <<prompts, _prompt_seq>>
vars == <<world, online, control, granted, sbx, lists, held, pending, task>>

Idle == [kind |-> "idle", by |-> Nobody]
Asks == {"plain", "task"}       \* a question, or a `!task` for the sandbox

TypeOK ==
    /\ sbxUp \in BOOLEAN /\ acl \in BOOLEAN /\ rejoined \in BOOLEAN
    /\ online \in BOOLEAN /\ granted \in BOOLEAN /\ sbx \in BOOLEAN
    /\ control \in Seq([of : {"acl", "sbx"}, on : BOOLEAN])
    /\ Len(control) <= MaxControl + 2
    /\ mode \in {"public", "private"} /\ ask_mode \in BOOLEAN
    /\ allowed \subseteq People /\ denied \subseteq People /\ managers \subseteq People
    /\ prompts \subseteq [id : 1 .. MaxPrompts, by : People, ask : Asks]
    /\ _prompt_seq \in 0 .. MaxPrompts
    /\ pending \in People \cup {Nobody}
    /\ task \in [kind : {"idle", "answer", "advise", "plan", "native", "inject"},
                 by : People \cup {Nobody}]

Init ==
    /\ sbxUp = FALSE /\ acl = FALSE /\ rejoined = FALSE
    /\ online = TRUE /\ control = <<>> /\ granted = FALSE /\ sbx = FALSE
    /\ mode \in {"public", "private"} /\ ask_mode \in BOOLEAN
    /\ allowed = {} /\ denied = {} /\ managers = {}
    /\ prompts = {} /\ _prompt_seq = 0 /\ pending = Nobody /\ task = Idle

---------------------------------------------------------------------------
(* Who may ask. *)

IsManager(who) == who = Owner \/ who \in managers

MayQuery(who) ==
    \/ Owner = Nobody
    \/ who \notin denied /\ (IsManager(who) \/ who \in allowed \/ mode = "public")

\* What an authorised question starts (_dispatch_question, _run_in_sandbox,
\* _run_native): an answer; advice when the agent holds no drive; a plan with
\* the simple harness; the native loop if it can locate the sandbox.
Started(who, ask) ==
    [kind |-> CASE ask = "plain" -> "answer"
                [] ask = "task" /\ ~granted -> "advise"
                [] ask = "task" /\ granted /\ Harness = "simple" -> "plan"
                [] ask = "task" /\ granted /\ Harness = "native" /\ sbx -> "native"
                [] OTHER -> "idle",
     by |-> who]

Begin(t) == task' = IF t.kind = "idle" THEN Idle ELSE t

\* The agent takes the next line out of its socket.
Serving == online /\ task = Idle

---------------------------------------------------------------------------
(* Questions. *)

Ask(who, ask) ==
    /\ Serving /\ MayQuery(who) /\ (ask_mode => IsManager(who))
    /\ Begin(Started(who, ask))
    /\ UNCHANGED <<world, online, control, granted, sbx, lists, held, pending>>

\* Ask mode keeps the question of anybody else for approval.
Hold(who, ask) ==
    /\ Serving /\ MayQuery(who) /\ ask_mode /\ ~IsManager(who)
    /\ _prompt_seq < MaxPrompts
    /\ _prompt_seq' = _prompt_seq + 1
    /\ prompts' = prompts \cup {[id |-> _prompt_seq + 1, by |-> who, ask |-> ask]}
    /\ UNCHANGED <<world, online, control, granted, sbx, lists, pending, task>>

\* `confirm` runs the pending plan, past the gate.
Confirm(who) ==
    /\ Serving /\ pending # Nobody
    /\ pending' = Nobody
    /\ task' = [kind |-> "inject", by |-> who]
    /\ UNCHANGED <<world, online, control, granted, sbx, lists, held>>

---------------------------------------------------------------------------
(* Management by the owner and the managers. *)

Managing(m) == Serving /\ IsManager(m)
NotLists == <<world, online, control, granted, sbx, _prompt_seq, pending, task>>

Allow(m, who) ==
    /\ Managing(m)
    /\ allowed' = allowed \cup {who} /\ denied' = denied \ {who}
    /\ UNCHANGED <<NotLists, prompts, mode, managers, ask_mode>>

\* Mutant of RejectWho: leaves what was held.
RejectKeepsPrompts(m, who) ==
    /\ Managing(m)
    /\ denied' = denied \cup {who} /\ allowed' = allowed \ {who}
    /\ UNCHANGED <<NotLists, prompts, mode, managers, ask_mode>>

RejectWho(m, who) ==
    /\ Managing(m)
    /\ denied' = denied \cup {who} /\ allowed' = allowed \ {who}
    /\ prompts' = {p \in prompts : p.by # who}
    /\ UNCHANGED <<NotLists, mode, managers, ask_mode>>

\* grant and revoke of management are the owner's alone.
Delegate(m, who) ==
    /\ Managing(m) /\ m = Owner
    /\ \/ managers' = managers \cup {who}
       \/ managers' = managers \ {who}
    /\ UNCHANGED <<NotLists, prompts, mode, allowed, denied, ask_mode>>

SetMode(m) ==
    /\ Managing(m)
    /\ mode' \in {"public", "private"}
    /\ UNCHANGED <<NotLists, prompts, allowed, denied, managers, ask_mode>>

SetAsk(m) ==
    /\ Managing(m)
    /\ ask_mode' \in BOOLEAN
    /\ UNCHANGED <<NotLists, prompts, mode, allowed, denied, managers>>

\* The prompt leaves the list before its question is dispatched.
Approve(m, p) ==
    /\ Managing(m)
    /\ prompts' = prompts \ {p}
    /\ Begin(Started(p.by, p.ask))
    /\ UNCHANGED <<world, online, control, granted, sbx, lists, _prompt_seq, pending>>

Deny(m, p) ==
    /\ Managing(m)
    /\ prompts' = prompts \ {p}
    /\ UNCHANGED <<NotLists, lists>>

---------------------------------------------------------------------------
(* Control frames. *)

\* Mutant of OnControl: a grant is remembered for ever.
OnControlGrantSticks ==
    /\ Serving /\ control # <<>>
    /\ control' = Tail(control)
    /\ IF Head(control).of = "acl"
       THEN granted' = (granted \/ Head(control).on) /\ UNCHANGED sbx
       ELSE sbx' = Head(control).on /\ UNCHANGED granted
    /\ UNCHANGED <<world, online, lists, held, pending, task>>

OnControl ==
    /\ Serving /\ control # <<>>
    /\ control' = Tail(control)
    /\ IF Head(control).of = "acl"
       THEN granted' = Head(control).on /\ UNCHANGED sbx
       ELSE sbx' = Head(control).on /\ UNCHANGED granted
    /\ UNCHANGED <<world, online, lists, held, pending, task>>

---------------------------------------------------------------------------
(* The work itself. *)

\* A reply, advice, the end of a native loop, or a provider that failed.
Replied ==
    /\ online /\ task.kind \in {"answer", "advise", "native", "plan"}
    /\ task' = Idle
    /\ UNCHANGED <<world, online, control, granted, sbx, lists, held, pending>>

\* The model takes no tools: the native harness falls back to the simple one.
ToolsUnsupported ==
    /\ online /\ task.kind = "native"
    /\ task' = [task EXCEPT !.kind = "plan"]
    /\ UNCHANGED <<world, online, control, granted, sbx, lists, held, pending>>

\* A plan within the caps; a destructive one waits for confirm.
Planned ==
    /\ online /\ task.kind = "plan"
    /\ \/ task' = [task EXCEPT !.kind = "inject"] /\ UNCHANGED pending
       \/ task' = Idle /\ pending' = task.by
    /\ UNCHANGED <<world, online, control, granted, sbx, lists, held>>

\* All commands are typed; whatever plan was pending is forgotten.
Injected ==
    /\ online /\ task.kind = "inject"
    /\ task' = Idle /\ pending' = Nobody
    /\ UNCHANGED <<world, online, control, granted, sbx, lists, held>>

\* The socket closes under whatever is being done (run_async).
Drop ==
    /\ online
    /\ online' = FALSE /\ control' = <<>> /\ task' = Idle /\ rejoined' = FALSE
    /\ UNCHANGED <<sbxUp, acl, granted, sbx, lists, held, pending>>

Reconnect ==
    /\ ~online
    /\ online' = TRUE /\ rejoined' = TRUE
    /\ UNCHANGED <<sbxUp, acl, control, granted, sbx, lists, held, pending, task>>

---------------------------------------------------------------------------
(* The client that holds the sandbox (external). *)

Sent(frames) == control' = IF online THEN control \o frames ELSE control
Room == Len(control) < MaxControl
Agent == <<online, granted, sbx, lists, held, pending, task>>

Frame(of, on) == [of |-> of, on |-> on]

\* A new sandbox resets the drivers, except for an agent that was started with
\* a grant.
SbxStart ==
    /\ ~sbxUp /\ Room
    /\ sbxUp' = TRUE /\ acl' \in BOOLEAN /\ rejoined' = FALSE
    /\ Sent(<<Frame("sbx", TRUE), Frame("acl", acl')>>)
    /\ UNCHANGED Agent

SbxStop ==
    /\ sbxUp /\ Room
    /\ sbxUp' = FALSE /\ Sent(<<Frame("sbx", FALSE)>>)
    /\ UNCHANGED <<acl, rejoined, Agent>>

GrantOrRevoke ==
    /\ sbxUp /\ Room
    /\ acl' = ~acl /\ Sent(<<Frame("acl", acl')>>)
    /\ UNCHANGED <<sbxUp, rejoined, Agent>>

\* Somebody joined: the holder says again what it has.
Reannounce ==
    /\ rejoined /\ online /\ Room
    /\ rejoined' = FALSE
    /\ Sent(IF sbxUp THEN <<Frame("sbx", TRUE), Frame("acl", acl)>> ELSE <<>>)
    /\ UNCHANGED <<sbxUp, acl, Agent>>

---------------------------------------------------------------------------
Line ==
    \/ \E who \in People :
        \/ \E ask \in Asks : Ask(who, ask) \/ Hold(who, ask)
        \/ Confirm(who)
    \/ \E m \in People :
        \/ \E who \in Named : Allow(m, who) \/ RejectWho(m, who) \/ Delegate(m, who)
        \/ SetMode(m) \/ SetAsk(m)
        \/ \E p \in prompts : Approve(m, p) \/ Deny(m, p)

Work == Replied \/ ToolsUnsupported \/ Planned \/ Injected

Next ==
    \/ Line \/ OnControl \/ Work \/ Drop \/ Reconnect
    \/ SbxStart \/ SbxStop \/ GrantOrRevoke \/ Reannounce

\* Work ends: a provider call returns or raises, the native loop is bounded.
\* A frame is read in its turn, so lines said later do not hold it up for ever
\* (strong fairness: the agent may be busy in between).
Fairness ==
    /\ WF_vars(Work) /\ SF_vars(OnControl)
    /\ WF_vars(Reconnect) /\ SF_vars(Reannounce)

Spec == Init /\ [][Next]_vars /\ Fairness

---------------------------------------------------------------------------
(* Properties. *)

\* "Denylist always wins" (bridge.py:486): nothing of a rejected member is left
\* in the queue to be approved later, whatever was held, in whatever mode and
\* order, before the rejection.
NoDeniedPrompt == \A p \in prompts : p.by \notin denied

Starts(kinds) == task.kind \notin kinds /\ task'.kind \in kinds

\* A task is begun in the sandbox only while the room grants the drive, or its
\* revocation is still on the way to the agent.
DriveIsFresh == [][
    Starts({"native"}) =>
        acl \/ ~sbxUp \/ rejoined \/ Frame("acl", FALSE) \in Range(control)
    ]_vars

\* A grant or a revocation that stands is in the end the agent's own view,
\* across drops and long tasks.
MirrorConverges ==
    /\ <>[](online /\ sbxUp /\ acl) => <>[]granted
    /\ <>[](online /\ sbxUp /\ ~acl) => <>[]~granted
=============================================================================
