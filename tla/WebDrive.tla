------------------------------ MODULE WebDrive ------------------------------
(***************************************************************************)
(* Who may type into the sandbox from a browser.  The publisher            *)
(* (cmd_chat/web/publisher.py) forwards a keystroke only when two gates    *)
(* are open: the sandbox's owner granted the publisher the drive (gate A,  *)
(* learned from the room) and the operator approved the browser (gate B).  *)
(* The operator points at a viewer id, a label the relay gave out; what is *)
(* approved is the identity (vsid) the browser behind it announced.        *)
(*                                                                         *)
(* A browser is its vsid, which outlives its sockets and its viewer ids.   *)
(* Viewer ids are numbers, 0 is none.  Three channels lose frames: the     *)
(* room to the publisher (roomq), the relay to the publisher (up) and the  *)
(* publisher to the relay (outq).                                          *)
(***************************************************************************)
EXTENDS Naturals, Sequences, FiniteSets

CONSTANTS
    Browsers,      \* browser tabs, each with the vsid it keeps
    Owners,        \* members who may run a sandbox
    NoOne,         \* no owner, no vsid
    MaxPlaces,     \* bound on viewer ids minted by the relay
    MaxFrames,     \* bound on input frames of a browser
    RoomMax,       \* bound on frames under way from the room
    UpMax,         \* bound on frames under way from the relay
    OutMax         \* capacity of the publisher's out queue

VARIABLES
    running,    \* owners whose broker runs a sandbox
    gives,      \* gives[o]: the publisher is in o's set of drivers
    roomq,      \* frames of the room on their way to the publisher
    roomWs,     \* the publisher has a room socket
    place,      \* place[b]: the viewer id the relay holds for b, 0 if none
    minted,     \* viewer ids handed out so far
    on,         \* on[b]: b has a socket to the relay
    badge,      \* Room.driver: the viewer id shown as driving
    pub,        \* the relay has a publisher socket
    up,         \* frames of the relay on their way to the publisher
    live,       \* _sbx_live
    owner,      \* room_owner, the owner pinned for the session
    granted,    \* gate A
    approved,   \* approved_viewer, gate B
    pinned,     \* _approved_vsid
    bound,      \* _vsid_by_vid, and its inverse _vid_by_vsid
    seen,       \* _in_ctr: highest counter accepted from a vsid
    effective,  \* _effective_driver
    outq,       \* driver frames in the out queue
    clock,      \* clock[b]: counter of b's input frames
    typed       \* history: the keystroke frame passed on to the room last

room      == <<running, gives, roomq, roomWs>>
relay     == <<place, minted, on, badge, pub, up>>
gates     == <<granted, approved, pinned, effective, outq>>
session   == <<live, owner>>
identity  == <<bound, seen>>
pages     == <<clock, typed>>
vars == <<room, relay, gates, session, identity, pages>>

Vids == 1..MaxPlaces

InFrame == [kind : {"in"}, vid : Vids, vsid : Browsers, ctr : 1..MaxFrames, key : BOOLEAN]
NoFrame == [kind |-> "none"]
UpFrame == InFrame \cup [kind : {"allow", "release", "left"}, vid : Vids]
                   \cup [kind : {"revoke"}]
RoomFrame == [kind : {"alive", "stopped"}]
        \cup [kind : {"acl"}, by : Owners, has : BOOLEAN]
        \cup [kind : {"allow", "deny"}, by : Owners, vid : Vids]

TypeOK ==
    /\ running \subseteq Owners /\ gives \in [Owners -> BOOLEAN]
    /\ roomq \in Seq(RoomFrame) /\ roomWs \in BOOLEAN
    /\ place \in [Browsers -> 0..MaxPlaces] /\ minted \in 0..MaxPlaces
    /\ on \in [Browsers -> BOOLEAN] /\ badge \in 0..MaxPlaces
    /\ pub \in BOOLEAN /\ up \in Seq(UpFrame)
    /\ live \in BOOLEAN /\ owner \in Owners \cup {NoOne}
    /\ granted \in BOOLEAN /\ approved \in 0..MaxPlaces
    /\ pinned \in Browsers \cup {NoOne}
    /\ bound \in [Vids -> Browsers \cup {NoOne}]
    /\ seen \in [Browsers -> 0..MaxFrames]
    /\ effective \in 0..MaxPlaces
    /\ outq \in Seq(0..MaxPlaces) /\ Len(outq) <= OutMax
    /\ clock \in [Browsers -> 0..MaxFrames] /\ typed \in InFrame \cup {NoFrame}

Init ==
    /\ running = {} /\ gives = [o \in Owners |-> FALSE]
    /\ roomq = <<>> /\ roomWs = TRUE
    /\ place = [b \in Browsers |-> 0] /\ minted = 0
    /\ on = [b \in Browsers |-> FALSE] /\ badge = 0
    /\ pub = TRUE /\ up = <<>> 
    /\ live = FALSE /\ owner = NoOne
    /\ granted = FALSE /\ approved = 0 /\ pinned = NoOne
    /\ bound = [v \in Vids |-> NoOne] /\ seen = [b \in Browsers |-> 0]
    /\ effective = 0 /\ outq = <<>>
    /\ clock = [b \in Browsers |-> 0] /\ typed = NoFrame

----------------------------------------------------------------------------
(* The publisher's gates. *)

\* The bounded out queue gives up its oldest frame for a new one.
Enqueue(q, v) == IF Len(q) < OutMax THEN Append(q, v) ELSE Append(Tail(q), v)

\* New values of the gates, and _recompute_driver: a change of the effective
\* driver, counted from `was`, is announced to the relay.
Decide(g, a, p, was) ==
    LET now == IF g THEN a ELSE 0
    IN  /\ granted' = g /\ approved' = a /\ pinned' = p /\ effective' = now
        /\ outq' = IF now # was THEN Enqueue(outq, now) ELSE outq

\* Approval pins the identity bound to the viewer id, and fails without one.
ApplyAllow(v) ==
    IF bound[v] = NoOne THEN UNCHANGED gates
    ELSE Decide(granted, v, bound[v], effective)

ApplyRevoke == Decide(granted, 0, NoOne, effective)

\* Mutant of MayBind: an identity may stand behind two viewer ids.
MayBindTwice(v, b) == bound[v] \in {NoOne, b}

\* A viewer id keeps the first identity it announces, and an identity speaks
\* for one viewer id.
MayBind(v, b) ==
    \/ bound[v] = b
    \/ bound[v] = NoOne /\ \A w \in Vids : bound[w] # b

----------------------------------------------------------------------------
(* The room. *)

\* What the room sends is lost on a publisher that has no socket.
Tell(frames) ==
    IF roomWs THEN Len(roomq) + Len(frames) <= RoomMax /\ roomq' = roomq \o frames
              ELSE UNCHANGED roomq

Acl(o, has) == [kind |-> "acl", by |-> o, has |-> has]

\* o's sandbox is up: status and access list, drivers being o alone.
Summon(o) ==
    /\ o \notin running
    /\ running' = running \cup {o}
    /\ gives' = [gives EXCEPT ![o] = FALSE]
    /\ Tell(<<[kind |-> "alive"], Acl(o, FALSE)>>)
    /\ UNCHANGED <<roomWs, relay, gates, session, identity, pages>>

\* The sandbox of o writes to the screen, which is proof of life.
Output(o) ==
    /\ o \in running /\ Tell(<<[kind |-> "alive"]>>)
    /\ UNCHANGED <<running, gives, roomWs, relay, gates, session, identity, pages>>

\* o grants the publisher the drive, or takes it back.
Grant(o) ==
    /\ o \in running
    /\ gives' = [gives EXCEPT ![o] = ~@]
    /\ Tell(<<Acl(o, ~gives[o])>>)
    /\ UNCHANGED <<running, roomWs, relay, gates, session, identity, pages>>

\* o stops the sandbox, or is gone with it and says nothing.
Stop(o) ==
    /\ o \in running
    /\ running' = running \ {o}
    /\ gives' = [gives EXCEPT ![o] = FALSE]
    /\ \/ Tell(<<[kind |-> "stopped"]>>)
       \/ UNCHANGED roomq
    /\ UNCHANGED <<roomWs, relay, gates, session, identity, pages>>

\* The owner types /web allow, /web deny or /web revoke in the room's chat
\* (a deny of the approved viewer is a revoke).
Command(o, v) ==
    /\ \E k \in {"allow", "deny"} : Tell(<<[kind |-> k, by |-> o, vid |-> v]>>)
    /\ UNCHANGED <<running, gives, roomWs, relay, gates, session, identity, pages>>

\* The room socket is lost: gate A closes until the room says otherwise.
RoomLost ==
    /\ roomWs
    /\ roomWs' = FALSE /\ roomq' = <<>>
    /\ Decide(FALSE, approved, pinned, effective)
    /\ UNCHANGED <<running, gives, relay, session, identity, pages>>

\* Rejoined: whoever runs a sandbox greets the newcomer with the status, the
\* screen and the access list.
RoomRejoined ==
    /\ ~roomWs /\ roomWs' = TRUE
    /\ \E o \in Owners :
         roomq' = IF o \in running
                  THEN <<[kind |-> "alive"], Acl(o, gives[o])>>
                  ELSE <<>>
    /\ UNCHANGED <<running, gives, relay, gates, session, identity, pages>>

\* _set_sbx_live: the end of a session closes gate A and releases the pin.
SetLive(now) ==
    /\ live' = now
    /\ IF live /\ ~now
       THEN owner' = NoOne /\ Decide(FALSE, approved, pinned, effective)
       ELSE UNCHANGED <<owner, gates>>

\* An access list counts when it comes from the pinned owner, or pins one.
TakeAcl(f) ==
    /\ UNCHANGED live
    /\ IF owner \in {NoOne, f.by}
       THEN owner' = f.by /\ Decide(f.has, approved, pinned, effective)
       ELSE UNCHANGED <<owner, gates>>

\* A command counts when it comes from the pinned owner.
TakeCommand(f) ==
    /\ UNCHANGED session
    /\ CASE f.by # owner                              -> UNCHANGED gates
         [] f.by = owner /\ f.kind = "allow"          -> ApplyAllow(f.vid)
         [] f.by = owner /\ f.kind = "deny"           ->
              IF f.vid = approved THEN ApplyRevoke ELSE UNCHANGED gates

\* _handle_room_frame on the next frame.
RoomFrameIn ==
    /\ roomq # <<>> /\ roomq' = Tail(roomq)
    /\ LET f == Head(roomq)
       IN  \/ f.kind = "alive" /\ SetLive(TRUE)
           \/ f.kind = "stopped" /\ SetLive(FALSE)
           \/ f.kind = "acl" /\ TakeAcl(f)
           \/ f.kind \in {"allow", "deny"} /\ TakeCommand(f)
    /\ UNCHANGED <<running, gives, roomWs, relay, identity, pages>>

----------------------------------------------------------------------------
(* The operator's terminal, and the host console through the relay. *)

ConsoleAllow(v) ==
    /\ ApplyAllow(v)
    /\ UNCHANGED <<room, relay, session, identity, pages>>

ConsoleRevoke ==
    /\ ApplyRevoke
    /\ UNCHANGED <<room, relay, session, identity, pages>>

\* _notify_publisher: what the relay has to say is lost without a publisher.
Notify(frames) ==
    IF pub THEN Len(up) + Len(frames) <= UpMax /\ up' = up \o frames
           ELSE UNCHANGED up

HostCommand ==
    /\ \/ \E v \in 1..minted : Notify(<<[kind |-> "allow", vid |-> v]>>)
       \/ Notify(<<[kind |-> "revoke"]>>)
    /\ UNCHANGED <<room, place, minted, on, badge, pub, gates, session, identity,
                   pages>>

----------------------------------------------------------------------------
(* Browsers and the relay. *)

\* A browser connects: back in its place within the grace, or in a new one.
Enter(b) ==
    /\ ~on[b] /\ on' = [on EXCEPT ![b] = TRUE]
    /\ \/ place[b] # 0 /\ UNCHANGED <<place, minted>>
       \/ /\ place[b] = 0 /\ minted < MaxPlaces
          /\ minted' = minted + 1 /\ place' = [place EXCEPT ![b] = minted']
    /\ UNCHANGED <<room, badge, pub, up, gates, session, identity, pages>>

Leave(b) ==
    /\ on[b] /\ on' = [on EXCEPT ![b] = FALSE]
    /\ UNCHANGED <<room, place, minted, badge, pub, up, gates, session, identity,
                   pages>>

\* The grace is over: _grace_evict.
Evict(b) ==
    /\ ~on[b] /\ place[b] # 0
    /\ place' = [place EXCEPT ![b] = 0]
    /\ badge' = IF badge = place[b] THEN 0 ELSE badge
    /\ Notify((IF badge = place[b] THEN <<[kind |-> "release", vid |-> place[b]]>> ELSE <<>>)
              \o <<[kind |-> "left", vid |-> place[b]]>>)
    /\ UNCHANGED <<room, minted, on, pub, gates, session, identity, pages>>

\* An input frame: an announcement (no key) or a keystroke.  The page types
\* only while it is shown as driving; it may be late to learn otherwise.
SendInput(b) ==
    /\ on[b] /\ clock[b] < MaxFrames
    /\ clock' = [clock EXCEPT ![b] = @ + 1]
    /\ \E key \in BOOLEAN :
         Notify(<<[kind |-> "in", vid |-> place[b], vsid |-> b, ctr |-> clock[b] + 1,
                   key |-> key]>>)
    /\ UNCHANGED <<room, place, minted, on, badge, pub, gates, session, identity,
                   typed>>

ReleaseDrive(b) ==
    /\ on[b] /\ badge = place[b]
    /\ Notify(<<[kind |-> "release", vid |-> place[b]]>>)
    /\ UNCHANGED <<room, place, minted, on, badge, pub, gates, session, identity,
                   pages>>

----------------------------------------------------------------------------
(* The publisher and its relay connection. *)

\* _forward_input: bind, refuse a counter already used, then the gates.
ForwardInput(f) ==
    /\ IF MayBind(f.vid, f.vsid)
       THEN /\ bound' = [bound EXCEPT ![f.vid] = f.vsid]
            /\ IF f.ctr > seen[f.vsid]
               THEN /\ seen' = [seen EXCEPT ![f.vsid] = f.ctr]
                    /\ typed' = IF f.key /\ roomWs /\ granted /\ pinned = f.vsid
                                THEN f ELSE typed
               ELSE UNCHANGED <<seen, typed>>
       ELSE UNCHANGED <<identity, typed>>
    /\ UNCHANGED gates

\* drive_release and viewer_left; the latter also frees the label.
Released(f) ==
    /\ bound' = IF f.kind = "left" THEN [bound EXCEPT ![f.vid] = NoOne] ELSE bound
    /\ IF f.vid = approved THEN ApplyRevoke ELSE UNCHANGED gates
    /\ UNCHANGED <<seen, typed>>

\* _read_from_relay on the next frame.
RelayFrameIn ==
    /\ up # <<>> /\ up' = Tail(up)
    /\ LET f == Head(up)
       IN  \/ f.kind = "in" /\ ForwardInput(f)
           \/ f.kind \in {"release", "left"} /\ Released(f)
           \/ f.kind = "allow" /\ ApplyAllow(f.vid) /\ UNCHANGED <<identity, typed>>
           \/ f.kind = "revoke" /\ ApplyRevoke /\ UNCHANGED <<identity, typed>>
    /\ UNCHANGED <<room, place, minted, on, badge, pub, session, clock>>

\* _drain_to_relay on a driver frame, and publish_ws on it: the badge goes to
\* a viewer that is there.
Drain ==
    /\ pub /\ outq # <<>> /\ outq' = Tail(outq)
    /\ badge' = IF \E b \in Browsers : place[b] = Head(outq) THEN Head(outq) ELSE 0
    /\ UNCHANGED <<room, place, minted, on, pub, up, granted, approved, pinned, effective,
                   session, identity, pages>>

\* The publish socket is lost, with what the relay was sending and with the
\* frames already taken off the out queue.
Cut ==
    /\ pub /\ pub' = FALSE /\ up' = <<>>
    /\ \E n \in 0..Len(outq) : outq' = SubSeq(outq, n + 1, Len(outq))
    /\ UNCHANGED <<room, place, minted, on, badge, granted, approved, pinned, effective,
                   session, identity, pages>>

\* Mutant of Connect: the driver announced last counts as announced.
ConnectTrusting ==
    /\ ~pub /\ pub' = TRUE
    /\ Decide(granted, approved, pinned, effective)
    /\ UNCHANGED <<room, place, minted, on, badge, up, session, identity, pages>>

\* Reconnected: the driver is forgotten and computed anew, to be announced.
Connect ==
    /\ ~pub /\ pub' = TRUE
    /\ Decide(granted, approved, pinned, 0)
    /\ UNCHANGED <<room, place, minted, on, badge, up, session, identity, pages>>

\* The relay forgot the room: a new one, with new viewer ids and a new key,
\* and nothing known of whoever was watching.
Reprovision ==
    /\ ~pub /\ minted < MaxPlaces
    /\ place' = [b \in Browsers |-> 0] /\ on' = [b \in Browsers |-> FALSE] /\ badge' = 0
    /\ approved' = 0 /\ pinned' = NoOne /\ effective' = 0
    /\ bound' = [v \in Vids |-> NoOne] /\ seen' = [b \in Browsers |-> 0]
    /\ UNCHANGED <<room, minted, pub, up, granted, outq, session, pages>>

Next ==
    \/ \E o \in Owners : Summon(o) \/ Output(o) \/ Grant(o) \/ Stop(o)
    \/ \E o \in Owners : \E v \in 1..minted : Command(o, v)
    \/ RoomLost \/ RoomRejoined \/ RoomFrameIn
    \/ \E v \in 1..minted : ConsoleAllow(v)
    \/ ConsoleRevoke \/ HostCommand
    \/ \E b \in Browsers : Enter(b) \/ Leave(b) \/ Evict(b) \/ SendInput(b) \/ ReleaseDrive(b)
    \/ RelayFrameIn \/ Drain \/ Cut \/ Connect \/ Reprovision

Spec == Init /\ [][Next]_vars

----------------------------------------------------------------------------
(* Properties. *)

\* Nothing is under way between the publisher, the room and the relay.
Settled == pub /\ roomWs /\ up = <<>> /\ outq = <<>> /\ roomq = <<>>

\* A keystroke reaches the room only from the place that is approved at that
\* moment.  The gate compares identities and not places: a browser that lost
\* its place without the publisher being told comes back in another one that
\* nobody approved, with the identity that was approved.
DrivesFromApproved ==
    [][typed' # typed => granted /\ typed'.vid = approved]_vars

\* Once things have settled, the badge shows the browser that drives, if it is
\* still in its place, whatever was lost on the way (publisher.py _relay_loop).
DriverShown ==
    (Settled /\ \E b \in Browsers : place[b] = effective /\ effective # 0)
        => badge = effective
=============================================================================
