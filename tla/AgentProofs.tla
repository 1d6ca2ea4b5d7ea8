---------------------------- MODULE AgentProofs ----------------------------
(***************************************************************************)
(* Proofs about the agent in a room (AgentBridge) and about files sent     *)
(* between members (FileTransfer), as MCAgent puts them side by side.      *)
(***************************************************************************)
EXTENDS MCAgent, TLAPS

(* AgentBridge. *)

Control == [of : {"acl", "sbx"}, on : BOOLEAN]
Granting == Frame("acl", TRUE)
Revoking == Frame("acl", FALSE)

\* An agent nobody owns has no managers, so nobody is ever rejected.
Unowned == Owner = Nobody => managers = {} /\ denied = {}

\* Once the room has taken the drive back, a grant the agent has still to read
\* is followed by the revocation ...
Followed(q) == \A i \in DOMAIN q : q[i] = Granting =>
    \E j \in DOMAIN q : i < j /\ q[j] = Revoking
Trail == online /\ ~acl /\ sbxUp /\ ~rejoined => Followed(control)

\* ... and an agent that still believes in the drive has the revocation to read.
Mirror == online /\ granted /\ ~acl /\ sbxUp /\ ~rejoined =>
    \E j \in DOMAIN control : control[j] = Revoking

AgentInv == TypeOK /\ Unowned /\ NoDeniedPrompt /\ Trail /\ Mirror

LEMMA AgentStart ==
    ASSUME Init
    PROVE  AgentInv
<1>1. TypeOK
  <2>1. <<>> \in Seq(Control) /\ Len(<<>>) = 0 /\ 0 \in 0 .. MaxPrompts
        /\ 0 <= MaxControl + 2
    BY AgentBridgeAssumption
  <2> QED
    BY <2>1 DEF Init, TypeOK, Idle, Control
<1>2. Unowned /\ NoDeniedPrompt
  BY DEF Init, Unowned, NoDeniedPrompt
<1>3. ~sbxUp
  BY DEF Init
<1> QED
  BY <1>1, <1>2, <1>3 DEF AgentInv, Trail, Mirror

\* Lines: nobody but a manager manages, and nothing about the drive changes.
LEMMA BeginsGranted ==
    ASSUME TypeOK, NEW who \in People, NEW ask \in Asks, Begin(Started(who, ask))
    PROVE  /\ task' \in [kind : {"idle", "answer", "advise", "plan", "native", "inject"},
                         by : People \cup {Nobody}]
           /\ task'.kind = "native" => granted
<1>1. Started(who, ask).by = who
      /\ Started(who, ask).kind \in {"idle", "answer", "advise", "plan", "native"}
      /\ (Started(who, ask).kind = "native" => granted)
  BY DEF Started, Asks
<1> QED
  BY <1>1 DEF Begin, Idle, Started

LEMMA LineStep ==
    ASSUME AgentInv, Line
    PROVE  AgentInv' /\ (Starts({"native"}) => online /\ granted)
<1>1. UNCHANGED <<world, online, control, granted, sbx>>
  BY DEF Line, Ask, Hold, Confirm, Allow, RejectWho, Delegate, SetMode, SetAsk, Approve,
         Deny, NotLists
<1>2. Trail' /\ Mirror'
  BY <1>1 DEF AgentInv, Trail, Mirror, Followed, world
<1>3. ASSUME NEW who \in People, NEW ask \in Asks, Ask(who, ask)
      PROVE  /\ TypeOK' /\ Unowned' /\ NoDeniedPrompt'
             /\ Starts({"native"}) => online /\ granted
  BY <1>1, <1>3, BeginsGranted DEF Ask, AgentInv, TypeOK, Unowned, NoDeniedPrompt, Serving,
     Starts, world, lists, held
<1>4. ASSUME NEW who \in People, NEW ask \in Asks, Hold(who, ask)
      PROVE  /\ TypeOK' /\ Unowned' /\ NoDeniedPrompt'
             /\ Starts({"native"}) => online /\ granted
  <2>1. /\ UNCHANGED <<mode, allowed, denied, managers, ask_mode, pending, task>>
        /\ prompts' = prompts \cup {[id |-> _prompt_seq + 1, by |-> who, ask |-> ask]}
        /\ _prompt_seq' = _prompt_seq + 1 /\ _prompt_seq < MaxPrompts
    BY <1>4 DEF Hold, lists
  <2>2. _prompt_seq + 1 \in 1 .. MaxPrompts /\ _prompt_seq + 1 \in 0 .. MaxPrompts
    BY <2>1, AgentBridgeAssumption DEF AgentInv, TypeOK
  <2>3. who \notin denied
    BY <1>4 DEF Hold, MayQuery, AgentInv, Unowned
  <2> QED
    BY <1>1, <2>1, <2>2, <2>3 DEF AgentInv, TypeOK, Unowned, NoDeniedPrompt, Starts, world
<1>5. ASSUME NEW who \in People, Confirm(who)
      PROVE  /\ TypeOK' /\ Unowned' /\ NoDeniedPrompt'
             /\ Starts({"native"}) => online /\ granted
  BY <1>1, <1>5 DEF Confirm, AgentInv, TypeOK, Unowned, NoDeniedPrompt, Starts, world,
     lists, held
<1>6. ASSUME NEW m \in People, NEW who \in Named,
             Allow(m, who) \/ RejectWho(m, who) \/ Delegate(m, who)
      PROVE  /\ TypeOK' /\ Unowned' /\ NoDeniedPrompt'
             /\ Starts({"native"}) => online /\ granted
  <2>1. who \in People /\ IsManager(m)
    BY <1>6, AgentBridgeAssumption DEF Allow, RejectWho, Delegate, Managing
  <2>2. Owner # Nobody
    BY <2>1, AgentBridgeAssumption DEF IsManager, AgentInv, Unowned
  <2>3. Unowned'
    BY <2>2 DEF Unowned
  <2> QED
    BY <1>1, <1>6, <2>1, <2>3 DEF Allow, RejectWho, Delegate, NotLists, AgentInv, TypeOK,
       NoDeniedPrompt, Starts, world
<1>7. ASSUME NEW m \in People, SetMode(m) \/ SetAsk(m)
      PROVE  /\ TypeOK' /\ Unowned' /\ NoDeniedPrompt'
             /\ Starts({"native"}) => online /\ granted
  BY <1>1, <1>7 DEF SetMode, SetAsk, NotLists, AgentInv, TypeOK, Unowned, NoDeniedPrompt,
     Starts, world
<1>8. ASSUME NEW m \in People, NEW p \in prompts, Approve(m, p)
      PROVE  /\ TypeOK' /\ Unowned' /\ NoDeniedPrompt'
             /\ Starts({"native"}) => online /\ granted
  <2>1. p.by \in People /\ p.ask \in Asks
    BY DEF AgentInv, TypeOK
  <2>2. prompts' \subseteq prompts
    BY <1>8 DEF Approve
  <2> QED
    BY <1>1, <1>8, <2>1, <2>2, BeginsGranted DEF Approve, Managing, Serving, AgentInv,
                                                 TypeOK,
       Unowned, NoDeniedPrompt, Starts, world, lists
<1>9. ASSUME NEW m \in People, NEW p \in prompts, Deny(m, p)
      PROVE  /\ TypeOK' /\ Unowned' /\ NoDeniedPrompt'
             /\ Starts({"native"}) => online /\ granted
  BY <1>1, <1>9 DEF Deny, NotLists, AgentInv, TypeOK, Unowned, NoDeniedPrompt, Starts,
     world, lists
<1> QED
  BY <1>2, <1>3, <1>4, <1>5, <1>6, <1>7, <1>8, <1>9 DEF Line, AgentInv

\* The next control frame.
LEMMA ControlStep ==
    ASSUME AgentInv, OnControl
    PROVE  AgentInv' /\ ~Starts({"native"})
<1> DEFINE q == control
           f == Head(q)
<1>1. /\ q # <<>> /\ control' = Tail(q) /\ online
      /\ UNCHANGED <<sbxUp, acl, rejoined, online, mode, allowed, denied, managers, ask_mode,
                     prompts, _prompt_seq, pending, task>>
      /\ IF f.of = "acl" THEN granted' = f.on /\ UNCHANGED sbx
                         ELSE sbx' = f.on /\ UNCHANGED granted
  BY DEF OnControl, Serving, world, lists, held
<1>2. q \in Seq(Control) /\ Len(q) <= MaxControl + 2
  BY DEF AgentInv, TypeOK, Control
<1>3. /\ f = q[1] /\ f \in Control /\ Tail(q) \in Seq(Control)
      /\ Len(Tail(q)) <= MaxControl + 2
      /\ \A i \in DOMAIN Tail(q) : Tail(q)[i] = q[i + 1]
      /\ \A i \in DOMAIN q : i # 1 => i - 1 \in DOMAIN Tail(q)
      /\ DOMAIN q \subseteq Nat /\ DOMAIN Tail(q) \subseteq Nat /\ 1 \in DOMAIN q
      /\ \A i \in DOMAIN Tail(q) : i + 1 \in DOMAIN q
  <2> HIDE DEF q, Control
  <2>1. Len(q) \in Nat /\ Len(q) > 0 /\ DOMAIN q = 1 .. Len(q)
        /\ Tail(q) \in Seq(Control) /\ Len(Tail(q)) = Len(q) - 1
        /\ DOMAIN Tail(q) = 1 .. (Len(q) - 1)
    BY <1>1, <1>2
  <2>2. Len(q) - 1 <= MaxControl + 2
    BY <1>2, <2>1, AgentBridgeAssumption
  <2> QED
    BY <1>1, <1>2, <2>1, <2>2
<1>4. f.on \in BOOLEAN /\ f.of \in {"acl", "sbx"}
  BY <1>3 DEF Control
<1>5. TypeOK'
  BY <1>1, <1>3, <1>4 DEF AgentInv, TypeOK, Control
<1>6. (f = Granting <=> f.of = "acl" /\ f.on) /\ (f = Revoking <=> f.of = "acl" /\ ~f.on)
      /\ Granting # Revoking
  BY <1>3 DEF Control, Granting, Revoking, Frame
<1> HIDE DEF f, q
<1>7. Followed(q) => Followed(Tail(q))
  <2> SUFFICES ASSUME Followed(q), NEW i \in DOMAIN Tail(q), Tail(q)[i] = Granting
               PROVE  \E j \in DOMAIN Tail(q) : i < j /\ Tail(q)[j] = Revoking
    BY DEF Followed
  <2>1. PICK j \in DOMAIN q : i + 1 < j /\ q[j] = Revoking
    BY <1>3 DEF Followed
  <2>2. j - 1 \in DOMAIN Tail(q) /\ i < j - 1 /\ (j - 1) + 1 = j
    BY <1>3, <2>1
  <2>3. Tail(q)[j - 1] = q[j]
    BY <1>3, <2>2
  <2> QED
    BY <2>1, <2>2, <2>3
<1>8. Trail'
  BY <1>1, <1>7 DEF AgentInv, Trail, q
<1>9. Mirror'
  <2> SUFFICES ASSUME granted', ~acl, sbxUp, ~rejoined
               PROVE  \E j \in DOMAIN Tail(q) : Tail(q)[j] = Revoking
    BY <1>1 DEF Mirror
  <2>1. \E j \in DOMAIN q : j # 1 /\ q[j] = Revoking
    <3>1. CASE f = Granting
      <4>1. Followed(q)
        BY <1>1 DEF AgentInv, Trail, q
      <4>2. PICK j \in DOMAIN q : 1 < j /\ q[j] = Revoking
        BY <1>3, <3>1, <4>1 DEF Followed
      <4> QED
        BY <1>3, <4>2
    <3>2. CASE f # Granting
      <4>1. granted /\ f # Revoking
        BY <1>1, <1>4, <1>6, <3>2
      <4> QED
        BY <1>1, <1>3, <4>1 DEF AgentInv, Mirror, q
    <3> QED
      BY <3>1, <3>2
  <2>2. PICK j \in DOMAIN q : j # 1 /\ q[j] = Revoking
    BY <2>1
  <2>3. j - 1 \in DOMAIN Tail(q) /\ (j - 1) + 1 = j
    BY <1>3, <2>2
  <2> QED
    BY <1>3, <2>2, <2>3
<1> QED
  BY <1>1, <1>5, <1>8, <1>9 DEF AgentInv, Unowned, NoDeniedPrompt, Starts

\* The agent works, loses the room, or is back.
LEMMA WorkStep ==
    ASSUME AgentInv, Work \/ Drop \/ Reconnect
    PROVE  AgentInv' /\ ~Starts({"native"})
<1>1. CASE Work
  <2>1. UNCHANGED <<world, online, control, granted, sbx, lists, held>>
    BY <1>1 DEF Work, Replied, ToolsUnsupported, Planned, Injected
  <2>2. Trail' /\ Mirror' /\ Unowned' /\ NoDeniedPrompt'
    BY <2>1 DEF AgentInv, Trail, Mirror, Followed, Unowned, NoDeniedPrompt, world, lists,
       held
  <2>3. TypeOK' /\ ~Starts({"native"})
    BY <1>1, <2>1 DEF Work, Replied, ToolsUnsupported, Planned, Injected, AgentInv, TypeOK,
       Starts, Idle, world, lists, held
  <2> QED
    BY <2>2, <2>3 DEF AgentInv
<1>2. CASE Drop
  <2>1. <<>> \in Seq(Control) /\ Len(<<>>) = 0 /\ 0 <= MaxControl + 2
    BY AgentBridgeAssumption
  <2> QED
    BY <1>2, <2>1 DEF Drop, AgentInv, TypeOK, Trail, Mirror, Unowned, NoDeniedPrompt,
                      Starts,
       Idle, lists, held, Control
<1>3. CASE Reconnect
  BY <1>3 DEF Reconnect, AgentInv, TypeOK, Trail, Mirror, Unowned, NoDeniedPrompt, Starts,
     lists, held
<1> QED
  BY <1>1, <1>2, <1>3

\* Frames are added to the control frames that wait.
LEMMA Tells ==
    ASSUME NEW q \in Seq(Control), NEW fs \in Seq(Control), NEW n \in Nat, Len(fs) <= 2,
           Len(q) < n
    PROVE  /\ q \o fs \in Seq(Control) /\ Len(q \o fs) <= n + 2
           /\ \A i \in DOMAIN q : i \in DOMAIN (q \o fs) /\ (q \o fs)[i] = q[i]
           /\ \A i \in DOMAIN fs : Len(q) + i \in DOMAIN (q \o fs)
                                   /\ (q \o fs)[Len(q) + i] = fs[i]
           /\ \A i \in DOMAIN (q \o fs) : i \in DOMAIN q \/ i - Len(q) \in DOMAIN fs
<1> HIDE DEF Control
<1> QED
  OBVIOUS

\* A frame or two.
LEMMA One ==
    ASSUME NEW S, NEW e \in S
    PROVE  <<e>> \in Seq(S) /\ Len(<<e>>) = 1 /\ DOMAIN <<e>> = {1} /\ <<e>>[1] = e
OBVIOUS

LEMMA Couple ==
    ASSUME NEW S, NEW d \in S, NEW e \in S
    PROVE  /\ <<d, e>> \in Seq(S) /\ Len(<<d, e>>) = 2 /\ DOMAIN <<d, e>> = {1, 2}
           /\ <<d, e>>[2] = e
OBVIOUS

\* The revocation is the last of some frames.
Ends(fs) == \E k \in DOMAIN fs : fs[k] = Revoking /\ \A i \in DOMAIN fs : i <= k

\* The client that holds the sandbox acts.
LEMMA RoomStep ==
    ASSUME AgentInv, SbxStart \/ SbxStop \/ GrantOrRevoke \/ Reannounce
    PROVE  AgentInv' /\ ~Starts({"native"})
<1>1. /\ UNCHANGED <<online, granted, sbx, mode, allowed, denied, managers, ask_mode, prompts,
                     _prompt_seq, pending, task>>
      /\ Len(control) < MaxControl /\ control \in Seq(Control)
  BY DEF SbxStart, SbxStop, GrantOrRevoke, Reannounce, Agent, Room, lists, held, AgentInv,
     TypeOK, Control
<1>2. Frame("sbx", TRUE) \in Control /\ Frame("sbx", FALSE) \in Control
      /\ Granting \in Control /\ Revoking \in Control
      /\ \A on \in BOOLEAN : Frame("acl", on) \in Control
      /\ Frame("sbx", TRUE) # Granting /\ Frame("sbx", FALSE) # Granting
      /\ Revoking # Granting
  BY DEF Frame, Control, Granting, Revoking
<1>3. \E fs \in Seq(Control) :
          /\ Len(fs) <= 2 /\ Sent(fs)
          /\ ~acl' /\ sbxUp' /\ ~rejoined' => Ends(fs)
  <2>1. CASE SbxStart
    <3> DEFINE fs == <<Frame("sbx", TRUE), Frame("acl", acl')>>
    <3>1. Sent(fs) /\ acl' \in BOOLEAN
      BY <2>1 DEF SbxStart
    <3>2. Frame("acl", acl') \in Control
      BY <1>2, <3>1
    <3>3. fs \in Seq(Control) /\ Len(fs) = 2 /\ DOMAIN fs = {1, 2}
            /\ fs[2] = Frame("acl", acl')
      <4> HIDE DEF Control
      <4> QED
        BY <1>2, <3>2, Couple
    <3>4. ~acl' => Frame("acl", acl') = Revoking
      BY <3>1 DEF Revoking
    <3> HIDE DEF fs
    <3>5. ~acl' => Ends(fs)
      BY <3>3, <3>4 DEF Ends
    <3>6. Len(fs) <= 2
      BY <3>3
    <3> QED
      BY <3>1, <3>3, <3>5, <3>6, Zenon
  <2>2. CASE SbxStop
    <3> DEFINE fs == <<Frame("sbx", FALSE)>>
    <3>1. Sent(fs) /\ ~sbxUp'
      BY <2>2 DEF SbxStop
    <3>2. fs \in Seq(Control) /\ Len(fs) = 1
      <4> HIDE DEF Control
      <4> QED
        BY <1>2, One
    <3> HIDE DEF fs
    <3>3. Len(fs) <= 2
      BY <3>2
    <3> QED
      BY <3>1, <3>2, <3>3, Zenon
  <2>3. CASE GrantOrRevoke
    <3> DEFINE fs == <<Frame("acl", acl')>>
    <3>1. Sent(fs) /\ acl' \in BOOLEAN
      BY <2>3 DEF GrantOrRevoke, AgentInv, TypeOK
    <3>2. Frame("acl", acl') \in Control
      BY <1>2, <3>1
    <3>3. fs \in Seq(Control) /\ Len(fs) = 1 /\ DOMAIN fs = {1}
            /\ fs[1] = Frame("acl", acl')
      <4> HIDE DEF Control
      <4> QED
        BY <3>2, One
    <3>4. ~acl' => Frame("acl", acl') = Revoking
      BY <3>1 DEF Revoking
    <3> HIDE DEF fs
    <3>5. ~acl' => Ends(fs)
      BY <3>3, <3>4 DEF Ends
    <3>6. Len(fs) <= 2
      BY <3>3
    <3> QED
      BY <3>1, <3>3, <3>5, <3>6, Zenon
  <2>4. CASE Reannounce /\ sbxUp
    <3> DEFINE fs == <<Frame("sbx", TRUE), Frame("acl", acl)>>
    <3>1. Sent(fs) /\ acl' \in BOOLEAN /\ acl' = acl
      BY <2>4 DEF Reannounce, AgentInv, TypeOK
    <3>2. Frame("acl", acl) \in Control
      BY <1>2, <3>1
    <3>3. fs \in Seq(Control) /\ Len(fs) = 2 /\ DOMAIN fs = {1, 2}
            /\ fs[2] = Frame("acl", acl)
      <4> HIDE DEF Control
      <4> QED
        BY <1>2, <3>2, Couple
    <3>4. ~acl' => Frame("acl", acl) = Revoking
      BY <3>1 DEF Revoking
    <3> HIDE DEF fs
    <3>5. ~acl' => Ends(fs)
      BY <3>3, <3>4 DEF Ends
    <3>6. Len(fs) <= 2
      BY <3>3
    <3> QED
      BY <3>1, <3>3, <3>5, <3>6, Zenon
  <2>5. CASE Reannounce /\ ~sbxUp
    <3> DEFINE fs == <<>>
    <3>1. Sent(fs) /\ ~sbxUp'
      BY <2>5 DEF Reannounce
    <3>2. fs \in Seq(Control) /\ Len(fs) = 0
      OBVIOUS
    <3> HIDE DEF fs
    <3>3. Len(fs) <= 2
      BY <3>2
    <3> QED
      BY <3>1, <3>2, <3>3, Zenon
  <2> QED
    BY <2>1, <2>2, <2>3, <2>4, <2>5
<1>4. PICK fs \in Seq(Control) :
          /\ Len(fs) <= 2 /\ Sent(fs)
          /\ ~acl' /\ sbxUp' /\ ~rejoined' => Ends(fs)
  BY <1>3
<1> DEFINE q == control
<1>5. control' = IF online THEN q \o fs ELSE q
  BY <1>4 DEF Sent
<1>6. q \in Seq(Control) /\ MaxControl \in Nat /\ Len(q) < MaxControl
  BY <1>1, AgentBridgeAssumption
<1> HIDE DEF q, Control
<1>7. /\ q \o fs \in Seq(Control) /\ Len(q \o fs) <= MaxControl + 2
      /\ \A i \in DOMAIN fs : /\ Len(q) + i \in DOMAIN (q \o fs)
                              /\ (q \o fs)[Len(q) + i] = fs[i]
      /\ \A i \in DOMAIN (q \o fs) : i \in DOMAIN q \/ i - Len(q) \in DOMAIN fs
  BY <1>4, <1>6, Tells
<1>8. control' \in Seq(Control) /\ Len(control') <= MaxControl + 2
  BY <1>5, <1>6, <1>7
<1>9. TypeOK'
  <2>1. acl' \in BOOLEAN /\ sbxUp' \in BOOLEAN /\ rejoined' \in BOOLEAN
    BY DEF SbxStart, SbxStop, GrantOrRevoke, Reannounce, AgentInv, TypeOK
  <2> QED
    BY <1>1, <1>8, <2>1 DEF AgentInv, TypeOK, Control
<1>10. ASSUME online, ~acl', sbxUp', ~rejoined'
       PROVE  Followed(control') /\ \E j \in DOMAIN control' : control'[j] = Revoking
  <2>1. PICK k \in DOMAIN fs : fs[k] = Revoking /\ \A i \in DOMAIN fs : i <= k
    BY <1>4, <1>10 DEF Ends
  <2>2. control' = q \o fs
    BY <1>5, <1>10
  <2>3. /\ Len(q) + k \in DOMAIN control' /\ control'[Len(q) + k] = Revoking
        /\ \A i \in DOMAIN control' : i \in DOMAIN q \/ i - Len(q) \in DOMAIN fs
        /\ \A i \in DOMAIN fs : control'[Len(q) + i] = fs[i]
    BY <1>7, <2>1, <2>2
  <2>4. /\ DOMAIN fs \subseteq Nat \ {0} /\ DOMAIN q = 1 .. Len(q) /\ Len(q) \in Nat
        /\ DOMAIN control' \subseteq Nat
    BY <1>6, <1>8
  <2>5. ASSUME NEW i \in DOMAIN control', control'[i] = Granting
        PROVE  i < Len(q) + k
    <3>1. CASE i \in DOMAIN q
      BY <2>1, <2>4, <3>1
    <3>2. CASE i - Len(q) \in DOMAIN fs
      <4>1. i - Len(q) <= k /\ Len(q) + (i - Len(q)) = i /\ i - Len(q) \in Nat
        BY <2>1, <2>4, <3>2
      <4>2. i - Len(q) # k
        BY <1>2, <2>1, <2>3, <2>5, <3>2, <4>1
      <4> QED
        BY <2>1, <2>4, <4>1, <4>2
    <3> QED
      BY <2>3, <3>1, <3>2
  <2> QED
    BY <2>3, <2>5 DEF Followed
<1>11. Trail' /\ Mirror'
  BY <1>1, <1>10 DEF Trail, Mirror, Followed
<1> QED
  BY <1>1, <1>9, <1>11 DEF AgentInv, Unowned, NoDeniedPrompt, Starts

LEMMA AgentStep ==
    ASSUME AgentInv, [Next]_vars
    PROVE  AgentInv' /\ (Starts({"native"}) => online /\ granted)
<1>1. CASE UNCHANGED vars
  BY <1>1 DEF vars, world, lists, held, AgentInv, TypeOK, Unowned, NoDeniedPrompt, Trail,
     Followed, Mirror, Starts
<1>2. CASE Next
  BY <1>2, LineStep, ControlStep, WorkStep, RoomStep DEF Next
<1> QED
  BY <1>1, <1>2

\* In the composition the agent goes as AgentBridge says, or rests.
LEMMA AgentSteps ==
    /\ MCInit => Init
    /\ [MCNext]_<<part, vars, fileVars>> => [Next]_vars
BY DEF MCInit, MCNext

\* For any number of members and prompts, and whoever owns the agent: nothing a
\* rejected member asked is left to be approved later, in whatever order modes,
\* lists, delegations and approvals change (bridge.py _handle_management,
\* _drop_prompts_from, _may_query).
THEOREM RejectionForgets == MCSpec => []NoDeniedPrompt
<1>1. MCInit => AgentInv
  BY AgentStart, AgentSteps
<1>2. AgentInv /\ [MCNext]_<<part, vars, fileVars>> => AgentInv'
  BY AgentStep, AgentSteps
<1>3. AgentInv => NoDeniedPrompt
  BY DEF AgentInv
<1> QED
  BY <1>1, <1>2, <1>3, PTL DEF MCSpec

\* However many control frames are under way, and whatever drops and rejoins:
\* the agent begins a task in the sandbox only while the room grants it the
\* drive or the revocation is still among the frames it has to read (bridge.py
\* _run_in_sandbox, _handle_control).
THEOREM TasksFollowTheGrant == MCSpec => DriveIsFresh
<1>1. MCInit => AgentInv
  BY AgentStart, AgentSteps
<1>2. AgentInv /\ [MCNext]_<<part, vars, fileVars>> => AgentInv'
  BY AgentStep, AgentSteps
<1>3. AgentInv /\ [MCNext]_<<part, vars, fileVars>> =>
          [Starts({"native"}) =>
              acl \/ ~sbxUp \/ rejoined \/ Frame("acl", FALSE) \in Range(control)]_vars
  <2> SUFFICES ASSUME AgentInv, [MCNext]_<<part, vars, fileVars>>, Starts({"native"}),
                      ~acl, sbxUp, ~rejoined
               PROVE  Frame("acl", FALSE) \in Range(control)
    OBVIOUS
  <2>1. online /\ granted
    BY AgentStep, AgentSteps
  <2> QED
    BY <2>1 DEF AgentInv, Mirror, Revoking, Range
<1> QED
  BY <1>1, <1>2, <1>3, PTL DEF MCSpec, DriveIsFresh

----------------------------------------------------------------------------
(* FileTransfer. *)

FileBounds == Chunks \in Nat /\ MaxOffers \in Nat

Sends == [id : File!Ids, at : 1 .. Chunks + 2]
Buffers == UNION {[ids -> Seq(File!Piece)] : ids \in SUBSET File!Ids}
Saves == File!Ids \X Seq(File!Piece)

\* What is under way, and what is collected: never more than was declared.
WayOK ==
    /\ inbox \in [File!Members -> Seq(File!Frame)]
    /\ offerer \in Seq(File!Members) /\ Len(offerer) <= MaxOffers
    /\ version \in [File!Ids -> 0 .. 2]
    /\ tasks \in [File!Members -> Seq(Sends)]
CollectedOK ==
    /\ buffer \in [File!Members -> Buffers]
    /\ \A m \in File!Members : \A i \in DOMAIN buffer[m] : Len(buffer[m][i]) <= Chunks
    /\ saved \in [File!Members -> SUBSET Saves]
    /\ File!SavedAsOffered
SaidOK ==
    /\ active \in [File!Members -> File!Ids \cup {File!None}]
    /\ sending \in [File!Members -> SUBSET File!Ids]
    /\ pending_offer \in [File!Members -> File!Ids \cup {File!None}]
    /\ accepted \in [File!Members -> SUBSET File!Ids] /\ refused \in SUBSET File!Ids
FileInv == WayOK /\ CollectedOK /\ SaidOK

\* What a member's buffers are.
LEMMA BufferIs ==
    ASSUME NEW b \in Buffers
    PROVE  /\ DOMAIN b \subseteq File!Ids /\ b = [i \in DOMAIN b |-> b[i]]
           /\ \A i \in DOMAIN b : b[i] \in Seq(File!Piece)
<1>1. PICK ids \in SUBSET File!Ids : b \in [ids -> Seq(File!Piece)]
  BY DEF Buffers
<1>2. DOMAIN b = ids /\ b = [i \in DOMAIN b |-> b[i]]
  BY <1>1
<1> HIDE DEF File!Piece, File!Ids
<1> QED
  BY <1>1, <1>2

LEMMA IsBuffer ==
    ASSUME NEW ids \in SUBSET File!Ids, NEW b \in [ids -> Seq(File!Piece)]
    PROVE  b \in Buffers
BY DEF Buffers

LEMMA FileTyped ==
    ASSUME FileInv
    PROVE  File!TypeOK /\ File!SavedAsOffered
<1>1. \A m \in File!Members : buffer[m] \in Buffers
  BY DEF FileInv, CollectedOK
<1>2. \A m \in File!Members : /\ DOMAIN buffer[m] \subseteq File!Ids
                               /\ \A i \in DOMAIN buffer[m] :
                                      /\ buffer[m][i] \in Seq(File!Piece)
                                      /\ Len(buffer[m][i]) <= Chunks
  BY <1>1, BufferIs DEF FileInv, CollectedOK
<1> QED
  BY <1>2 DEF FileInv, WayOK, CollectedOK, SaidOK, File!TypeOK, Sends, Saves

LEMMA FileStart ==
    ASSUME FileBounds, File!Init
    PROVE  FileInv
<1>1. <<>> \in Buffers /\ DOMAIN <<>> = {}
  <2>1. {} \in SUBSET File!Ids /\ <<>> \in [{} -> Seq(File!Piece)]
    OBVIOUS
  <2> QED
    BY <2>1, IsBuffer
<1>2. <<>> \in Seq(File!Frame) /\ <<>> \in Seq(File!Members) /\ <<>> \in Seq(Sends)
      /\ Len(<<>>) <= MaxOffers /\ 0 \in 0 .. 2
  BY DEF FileBounds
<1>3. WayOK
  BY <1>2 DEF File!Init, WayOK
<1>4. CollectedOK
  BY <1>1 DEF File!Init, CollectedOK, File!SavedAsOffered
<1>5. SaidOK
  BY DEF File!Init, SaidOK
<1> QED
  BY <1>3, <1>4, <1>5 DEF FileInv

LEMMA Sequences ==
    ASSUME NEW S, NEW q \in Seq(S)
    PROVE  /\ \A e \in S : Append(q, e) \in Seq(S) /\ Len(Append(q, e)) = Len(q) + 1
           /\ q # <<>> => Head(q) \in S /\ Tail(q) \in Seq(S)
           /\ Len(q) \in Nat
           /\ \A k \in DOMAIN q : q[k] \in S /\ \A e \in S : [q EXCEPT ![k] = e] \in Seq(S)
OBVIOUS

LEMMA Removed ==
    ASSUME NEW S, NEW q \in Seq(S), NEW k \in DOMAIN q
    PROVE  File!RemoveAt(q, k) \in Seq(S)
<1>1. k \in 1 .. Len(q) /\ Len(q) \in Nat
  OBVIOUS
<1>2. SubSeq(q, 1, k - 1) \in Seq(S) /\ SubSeq(q, k + 1, Len(q)) \in Seq(S)
  BY <1>1
<1> QED
  BY <1>2 DEF File!RemoveAt

LEMMA FramesGo ==
    ASSUME WayOK, NEW m, NEW f \in File!Frame, inbox' = File!Broadcast(m, f)
    PROVE  inbox' \in [File!Members -> Seq(File!Frame)]
<1>1. \A n \in File!Members : inbox[n] \in Seq(File!Frame)
                             /\ Append(inbox[n], f) \in Seq(File!Frame)
  BY Sequences DEF WayOK
<1> HIDE DEF File!Frame, File!Members
<1> QED
  BY <1>1 DEF File!Broadcast

LEMMA Plain ==
    ASSUME FileBounds, NEW id \in File!Ids
    PROVE  \A ft \in {"offer", "accept", "reject", "done"} : File!F(ft, id) \in File!Frame
BY DEF File!F, File!Frame, File!Piece, FileBounds

\* A file is offered, edited or streamed.
LEMMA SendStep ==
    ASSUME FileBounds, FileInv, NEW m \in File!Members
    PROVE  /\ File!SendOffer(m) => FileInv'
           /\ \A id \in File!Ids : File!Edit(id) => FileInv'
           /\ \A k \in DOMAIN tasks[m] : File!StreamStep(m, k) => FileInv'
<1>1. ASSUME File!SendOffer(m)
      PROVE  FileInv'
  <2> DEFINE id == Len(offerer) + 1
  <2>1. /\ id \in File!Ids /\ offerer' = Append(offerer, m)
        /\ active' = [active EXCEPT ![m] = id]
        /\ inbox' = File!Broadcast(m, File!F("offer", id))
        /\ UNCHANGED <<version, sending, tasks, pending_offer, buffer, accepted, refused, saved>>
    BY <1>1 DEF File!SendOffer, File!recvVars
  <2>2. Append(offerer, m) \in Seq(File!Members) /\ Len(Append(offerer, m)) = id
    BY Sequences DEF FileInv, WayOK
  <2>3. id <= MaxOffers
    BY <2>1 DEF File!Ids, FileBounds
  <2> HIDE DEF id
  <2>4. inbox' \in [File!Members -> Seq(File!Frame)]
    BY <2>1, Plain, FramesGo DEF FileInv
  <2> QED
    BY <2>1, <2>2, <2>3, <2>4 DEF FileInv, WayOK, CollectedOK, SaidOK, File!SavedAsOffered
<1>2. ASSUME NEW id \in File!Ids, File!Edit(id)
      PROVE  FileInv'
  BY <1>2 DEF File!Edit, File!recvVars, FileInv, WayOK, CollectedOK, SaidOK,
     File!SavedAsOffered
<1>3. ASSUME NEW k \in DOMAIN tasks[m], File!StreamStep(m, k)
      PROVE  FileInv'
  <2> DEFINE id == tasks[m][k].id
             at == tasks[m][k].at
             f == [ft |-> "chunk", id |-> id, piece |-> <<version[id], at>>]
  <2>1. tasks[m] \in Seq(Sends)
    BY DEF FileInv, WayOK
  <2>2. tasks[m][k] \in Sends
    BY <2>1, Sequences
  <2>3. id \in File!Ids /\ at \in 1 .. Chunks + 2 /\ version[id] \in 0 .. 2
    BY <2>2 DEF Sends, FileInv, WayOK
  <2>4. /\ UNCHANGED <<offerer, version, sending, pending_offer, buffer, accepted, refused, saved>>
        /\ \/ /\ at <= File!Length(id) /\ inbox' = File!Broadcast(m, f)
              /\ tasks' = [tasks EXCEPT ![m][k].at = at + 1] /\ UNCHANGED active
           \/ /\ inbox' = File!Broadcast(m, File!F("done", id))
              /\ tasks' = [tasks EXCEPT ![m] = File!RemoveAt(@, k)]
              /\ active' \in {active, [active EXCEPT ![m] = File!None]}
    BY <1>3 DEF File!StreamStep, File!recvVars
  <2>5. CASE at <= File!Length(id) /\ inbox' = File!Broadcast(m, f)
             /\ tasks' = [tasks EXCEPT ![m][k].at = at + 1] /\ UNCHANGED active
    <3>1. at <= Chunks + 1 /\ at \in 1 .. Chunks + 1 /\ at + 1 \in 1 .. Chunks + 2
      <4>1. File!Length(id) <= Chunks + 1 /\ File!Length(id) \in Nat
        BY DEF File!Length, FileBounds
      <4> QED
        BY <2>3, <2>5, <4>1 DEF FileBounds
    <3>2. f \in File!Frame
      BY <2>3, <3>1 DEF File!Frame, File!Piece
    <3> HIDE DEF f
    <3>3. inbox' \in [File!Members -> Seq(File!Frame)]
      BY <2>5, <3>2, FramesGo DEF FileInv
    <3>4. [tasks[m][k] EXCEPT !.at = at + 1] \in Sends
      BY <2>2, <3>1 DEF Sends
    <3>5. tasks' = [tasks EXCEPT ![m] =
            [tasks[m] EXCEPT ![k] = [tasks[m][k] EXCEPT !.at = at + 1]]]
      BY <2>5
    <3>6. [tasks[m] EXCEPT ![k] = [tasks[m][k] EXCEPT !.at = at + 1]] \in Seq(Sends)
      BY <2>1, <3>4, Sequences
    <3>7. tasks' \in [File!Members -> Seq(Sends)]
      BY <3>5, <3>6 DEF FileInv, WayOK
    <3> QED
      BY <2>4, <2>5, <3>3, <3>7 DEF FileInv, WayOK, CollectedOK, SaidOK, File!SavedAsOffered
  <2>6. CASE /\ inbox' = File!Broadcast(m, File!F("done", id))
             /\ tasks' = [tasks EXCEPT ![m] = File!RemoveAt(@, k)]
             /\ active' \in {active, [active EXCEPT ![m] = File!None]}
    <3>1. inbox' \in [File!Members -> Seq(File!Frame)]
      BY <2>3, <2>6, Plain, FramesGo DEF FileInv
    <3>2. tasks' \in [File!Members -> Seq(Sends)]
      BY <2>1, <2>6, Removed DEF FileInv, WayOK
    <3> QED
      BY <2>4, <2>6, <3>1, <3>2 DEF FileInv, WayOK, CollectedOK, SaidOK, File!SavedAsOffered
  <2> QED
    BY <2>4, <2>5, <2>6
<1> QED
  BY <1>1, <1>2, <1>3

\* A frame is handled.
LEMMA HandleStep ==
    ASSUME FileBounds, FileInv, NEW m \in File!Members, File!Handle(m)
    PROVE  FileInv'
<1> DEFINE f == Head(inbox[m])
           b == buffer[m]
<1>1. f \in File!Frame /\ inbox' \in [File!Members -> Seq(File!Frame)]
  <2>1. /\ inbox[m] # <<>> /\ inbox' = [inbox EXCEPT ![m] = Tail(@)]
        /\ inbox[m] \in Seq(File!Frame)
    BY DEF File!Handle, File!OnOffer, File!OnAccept, File!OnReject, File!OnChunk,
           File!OnDone,
       File!Take, FileInv, WayOK
  <2>2. f \in File!Frame /\ Tail(inbox[m]) \in Seq(File!Frame)
    BY <2>1, Sequences
  <2> QED
    BY <2>1, <2>2 DEF FileInv, WayOK
<1>2. f.id \in File!Ids /\ f.piece \in File!Piece
  BY <1>1 DEF File!Frame
<1>3. /\ b \in Buffers /\ DOMAIN b \subseteq File!Ids /\ b = [i \in DOMAIN b |-> b[i]]
      /\ \A i \in DOMAIN b : b[i] \in Seq(File!Piece) /\ Len(b[i]) <= Chunks
  BY BufferIs DEF FileInv, CollectedOK
<1> HIDE DEF f, b
<1>4. ASSUME NEW id
      PROVE  File!Without(b, id) \in Buffers
             /\ \A i \in DOMAIN File!Without(b, id) : Len(File!Without(b, id)[i]) <= Chunks
  <2> DEFINE w == [i \in DOMAIN b \ {id} |-> b[i]]
  <2>1. w \in [DOMAIN b \ {id} -> Seq(File!Piece)] /\ DOMAIN b \ {id} \in SUBSET File!Ids
    BY <1>3
  <2>2. \A i \in DOMAIN w : Len(w[i]) <= Chunks
    BY <1>3
  <2> HIDE DEF w
  <2>3. w \in Buffers
    BY <2>1, IsBuffer
  <2> QED
    BY <2>2, <2>3 DEF File!Without, w
<1>5. CASE File!OnOffer(m)
  <2> DEFINE w == File!With(b, f.id, <<>>)
  <2>1. w \in [DOMAIN b \cup {f.id} -> Seq(File!Piece)]
        /\ DOMAIN b \cup {f.id} \in SUBSET File!Ids
        /\ \A i \in DOMAIN w : Len(w[i]) <= Chunks
    BY <1>2, <1>3 DEF File!With, FileBounds
  <2> HIDE DEF w
  <2>2. w \in Buffers
    BY <2>1, IsBuffer
  <2>3. buffer' = [buffer EXCEPT ![m] = w]
    BY <1>5 DEF File!OnOffer, w, b, f
  <2>4. CollectedOK'
    BY <1>5, <2>1, <2>2, <2>3 DEF File!OnOffer, FileInv, CollectedOK, File!SavedAsOffered
  <2> QED
    BY <1>1, <1>2, <1>5, <2>4 DEF File!OnOffer, File!sendVars, FileInv, WayOK, SaidOK, f
<1>6. CASE File!OnAccept(m)
  <2>1. [id |-> f.id, at |-> 1] \in Sends
    BY <1>2 DEF Sends, FileBounds
  <2>2. Append(tasks[m], [id |-> f.id, at |-> 1]) \in Seq(Sends)
    BY <2>1, Sequences DEF FileInv, WayOK
  <2>3. tasks' \in [File!Members -> Seq(Sends)]
          /\ sending' \in [File!Members -> SUBSET File!Ids]
    BY <1>2, <1>6, <2>2 DEF File!OnAccept, FileInv, WayOK, SaidOK, f
  <2> QED
    BY <1>1, <1>6, <2>3 DEF File!OnAccept, File!recvVars, FileInv, WayOK, CollectedOK,
                            SaidOK,
       File!SavedAsOffered
<1>7. CASE File!OnReject(m)
  BY <1>1, <1>7 DEF File!OnReject, FileInv, WayOK, CollectedOK, SaidOK, File!SavedAsOffered
<1>8. CASE File!OnChunk(m)
  <2>1. buffer' \in [File!Members -> Buffers]
        /\ \A i \in DOMAIN buffer'[m] : Len(buffer'[m][i]) <= Chunks
    <3>1. CASE ~File!Collects(m, f.id)
      BY <1>3, <1>8, <3>1 DEF File!OnChunk, f, b, FileInv, CollectedOK
    <3>2. CASE File!Collects(m, f.id) /\ Len(b[f.id]) + 1 <= Chunks
      <4> DEFINE p == Append(b[f.id], f.piece)
                 w == [b EXCEPT ![f.id] = p]
      <4>1. f.id \in DOMAIN b
        BY <3>2 DEF File!Collects, b
      <4>2. p \in Seq(File!Piece) /\ Len(p) = Len(b[f.id]) + 1
        BY <1>2, <1>3, <4>1, Sequences
      <4> HIDE DEF p
      <4>3. w \in [DOMAIN b -> Seq(File!Piece)] /\ \A i \in DOMAIN w : Len(w[i]) <= Chunks
        BY <1>3, <3>2, <4>1, <4>2
      <4>4. w \in Buffers
        BY <1>3, <4>3, IsBuffer
      <4>5. buffer' = [buffer EXCEPT ![m] = w]
        BY <1>8, <3>2 DEF File!OnChunk, f, b, p
      <4> HIDE DEF w
      <4> QED
        BY <4>3, <4>4, <4>5 DEF FileInv, CollectedOK
    <3>3. CASE File!Collects(m, f.id) /\ ~(Len(b[f.id]) + 1 <= Chunks)
      <4>1. buffer' = [buffer EXCEPT ![m] = File!Without(b, f.id)]
        BY <1>8, <3>3 DEF File!OnChunk, f, b
      <4> QED
        BY <1>4, <4>1 DEF FileInv, CollectedOK
    <3> QED
      BY <3>1, <3>2, <3>3
  <2>2. \A n \in File!Members \ {m} : buffer'[n] = buffer[n]
    BY <1>8 DEF File!OnChunk, FileInv, CollectedOK
  <2>3. CollectedOK'
    BY <1>8, <2>1, <2>2 DEF File!OnChunk, FileInv, CollectedOK, File!SavedAsOffered
  <2> QED
    BY <1>1, <1>8, <2>3 DEF File!OnChunk, File!sendVars, FileInv, WayOK, SaidOK
<1>9. CASE File!OnDone(m)
  <2>1. buffer' = IF f.id \in DOMAIN b THEN [buffer EXCEPT ![m] = File!Without(b, f.id)]
                  ELSE buffer
    BY <1>9 DEF File!OnDone, f, b
  <2>2. buffer' \in [File!Members -> Buffers]
        /\ \A n \in File!Members : \A i \in DOMAIN buffer'[n] : Len(buffer'[n][i]) <= Chunks
    BY <1>4, <2>1 DEF FileInv, CollectedOK
  <2>3. /\ saved' = IF File!Collects(m, f.id) /\ b[f.id] = File!Offered
                    THEN [saved EXCEPT ![m] = @ \cup {<<f.id, b[f.id]>>}] ELSE saved
    BY <1>9 DEF File!OnDone, f, b
  <2>4. File!Collects(m, f.id) => f.id \in DOMAIN b
    BY DEF File!Collects, b
  <2>5. File!Collects(m, f.id) => <<f.id, b[f.id]>> \in Saves
    BY <1>2, <1>3, <2>4 DEF Saves
  <2>6. saved' \in [File!Members -> SUBSET Saves]
    BY <2>3, <2>5 DEF FileInv, CollectedOK
  <2>7. File!SavedAsOffered'
    BY <2>3 DEF FileInv, CollectedOK, File!SavedAsOffered
  <2>8. CollectedOK'
    BY <2>2, <2>6, <2>7 DEF CollectedOK
  <2> QED
    BY <1>1, <1>9, <2>8 DEF File!OnDone, File!sendVars, FileInv, WayOK, SaidOK
<1> QED
  BY <1>5, <1>6, <1>7, <1>8, <1>9 DEF File!Handle

\* The person at the keyboard answers.
LEMMA AnswerStep ==
    ASSUME FileBounds, FileInv, NEW m \in File!Members, File!Accept(m) \/ File!Reject(m)
    PROVE  FileInv'
<1> DEFINE id == pending_offer[m]
           b == buffer[m]
<1>1. id \in File!Ids
  BY DEF File!Accept, File!Reject, FileInv, SaidOK
<1>2. inbox' \in [File!Members -> Seq(File!Frame)]
  <2>1. \E ft \in {"accept", "reject"} : inbox' = File!Broadcast(m, File!F(ft, id))
    BY DEF File!Accept, File!Reject
  <2> QED
    BY <1>1, <2>1, Plain, FramesGo DEF FileInv
<1>3. /\ DOMAIN b \subseteq File!Ids
      /\ \A i \in DOMAIN b : b[i] \in Seq(File!Piece) /\ Len(b[i]) <= Chunks
  BY BufferIs DEF FileInv, CollectedOK
<1> HIDE DEF id, b
<1>4. CASE File!Accept(m)
  BY <1>1, <1>2, <1>4 DEF File!Accept, File!sendVars, FileInv, WayOK, CollectedOK, SaidOK,
     File!SavedAsOffered, id
<1>5. CASE File!Reject(m)
  <2> DEFINE w == [i \in DOMAIN b \ {id} |-> b[i]]
  <2>1. w \in [DOMAIN b \ {id} -> Seq(File!Piece)] /\ DOMAIN b \ {id} \in SUBSET File!Ids
        /\ \A i \in DOMAIN w : Len(w[i]) <= Chunks
    BY <1>3
  <2>2. buffer' = [buffer EXCEPT ![m] = w]
    BY <1>5 DEF File!Reject, File!Without, id, b
  <2> HIDE DEF w
  <2>3. w \in Buffers
    BY <2>1, IsBuffer
  <2>4. CollectedOK'
    BY <1>5, <2>1, <2>2, <2>3 DEF File!Reject, FileInv, CollectedOK, File!SavedAsOffered
  <2> QED
    BY <1>1, <1>2, <1>5, <2>4 DEF File!Reject, File!sendVars, FileInv, WayOK, SaidOK, id
<1> QED
  BY <1>4, <1>5

LEMMA FileStep ==
    ASSUME FileBounds, FileInv, [File!Next]_fileVars
    PROVE  FileInv'
<1>1. CASE UNCHANGED fileVars
  BY <1>1 DEF fileVars, FileInv, WayOK, CollectedOK, SaidOK, File!SavedAsOffered
<1>2. CASE File!Next
  <2>1. {py1} \subseteq File!Members
    BY DEF File!Members
  <2> QED
    BY <1>2, <2>1, SendStep, HandleStep, AnswerStep DEF File!Next
<1> QED
  BY <1>1, <1>2

\* In the composition files go as FileTransfer says, or rest.
LEMMA FileSteps ==
    /\ MCInit => File!Init
    /\ [MCNext]_<<part, vars, fileVars>> => [File!Next]_fileVars
BY DEF MCInit, MCNext

\* However many pieces and offers: all the agent and a file's way consist of has
\* its type; above all no receiver ever collects more than the offer declared
\* (client.py and app.rs, the size check of a chunk).
THEOREM AgentAndFilesTyped ==
    ASSUME FileBounds
    PROVE  MCSpec => []TypesOK
<1>1. MCInit => AgentInv /\ FileInv
  BY AgentStart, AgentSteps, FileStart, FileSteps
<1>2. AgentInv /\ FileInv /\ [MCNext]_<<part, vars, fileVars>> => AgentInv' /\ FileInv'
  BY AgentStep, AgentSteps, FileStep, FileSteps
<1>3. AgentInv /\ FileInv => TypesOK
  BY FileTyped DEF AgentInv, TypesOK
<1> QED
  BY <1>1, <1>2, <1>3, PTL DEF MCSpec

\* However many pieces and offers, and however streams mix, files change and
\* people change their minds: what a member saves is what was offered (client.py
\* _finalize_receive, app.rs handle_ft).
THEOREM SavedIsOffered ==
    ASSUME FileBounds
    PROVE  MCSpec => []SavedAsOffered
<1>1. MCInit => FileInv
  BY FileStart, FileSteps
<1>2. FileInv /\ [MCNext]_<<part, vars, fileVars>> => FileInv'
  BY FileStep, FileSteps
<1>3. FileInv => SavedAsOffered
  BY FileTyped DEF SavedAsOffered
<1> QED
  BY <1>1, <1>2, <1>3, PTL DEF MCSpec
=============================================================================
