------------------------------ MODULE WebRoom ------------------------------
(***************************************************************************)
(* One room of the web relay (src/web-relay/relay): the browsers that      *)
(* watch it, the publisher that feeds it, the grace a dropped browser is   *)
(* given to come back as the same viewer, the driver badge, and the four   *)
(* ways the room goes away.                                                *)
(*                                                                         *)
(* A handler is cut where it waits for a socket: the first frame, the PIN, *)
(* the close of the socket it supersedes, a frame to the publisher.  All   *)
(* between two such points is one action.  What the frames contain is not  *)
(* modelled here; the replay of output is WebStream.                       *)
(*                                                                         *)
(* A viewer_id is named by the socket it was minted for: the relay never   *)
(* mints the same one twice.                                               *)
(***************************************************************************)
EXTENDS Naturals, FiniteSets, Sequences, SequencesExt

CONSTANTS
    Socks,      \* sockets of browsers
    Clients,    \* persistent browser identities (client_id)
    ClientOf,   \* [Socks -> Clients \cup {NULL}], NULL: the browser sends none
    Pubs,       \* sockets of the publisher
    MaxViewers, \* MAX_VIEWERS_PER_ROOM
    LossCancels,\* sockets whose loss makes Sanic cancel the handler at its await
    NULL

ASSUME WebRoomAssumption ==
    /\ ClientOf \in [Socks -> Clients \cup {NULL}]
    /\ MaxViewers \in Nat \ {0}
    /\ LossCancels \subseteq Socks
    /\ NULL \notin Socks \cup Clients \cup Pubs

VARIABLES
    room,       \* the registry has it ("live"), or "ended" or "reaped" it
    quiet,      \* has nothing touched the room for ROOM_IDLE_TIMEOUT?
    publisher,  \* Room.publisher
    driver,     \* Room.driver, a viewer_id
    viewers,    \* Room.viewers: viewer_id -> socket of its Viewer, or NULL
    clients,    \* Room.clients: client_id -> viewer_id, or NULL
    vid,        \* the viewer_id a socket's handler works for, or NULL
    cid,        \* the client_id its first frame gave, or NULL
    connected,  \* Viewer.connected
    task,       \* the Viewer's sender task: "none", "on", "off"
    prev,       \* the socket a handler is superseding, or NULL
    grace,      \* sockets whose _grace_evict sleeps
    pc,         \* a browser's handler: "none","hello","close","notify","loop","done"
    sock,       \* is a browser's socket "up" or "down"?
    ppc,        \* a publisher's handler: "none", "auth", "loop", "done"
    psock,      \* is a publisher's socket "up" or "down"?
    closing     \* viewers _teardown_room still has to close, head first

vars == <<room, quiet, publisher, driver, viewers, clients, vid, cid,
          connected, task, prev, grace, pc, sock, ppc, psock, closing>>
roomVars == <<room, publisher, driver, viewers, clients, ppc, psock>>
handlerVars == <<vid, cid, connected, task, prev, grace, pc>>

TypeOK ==
    /\ room \in {"live", "ended", "reaped"}
    /\ quiet \in BOOLEAN
    /\ publisher \in Pubs \cup {NULL}
    /\ driver \in Socks \cup {NULL}
    /\ viewers \in [Socks -> Socks \cup {NULL}]
    /\ clients \in [Clients -> Socks \cup {NULL}]
    /\ vid \in [Socks -> Socks \cup {NULL}]
    /\ cid \in [Socks -> Clients \cup {NULL}]
    /\ connected \in [Socks -> BOOLEAN]
    /\ task \in [Socks -> {"none", "on", "off"}]
    /\ prev \in [Socks -> Socks \cup {NULL}]
    /\ grace \subseteq Socks
    /\ pc \in [Socks -> {"none", "hello", "close", "notify", "loop", "done"}]
    /\ sock \in [Socks -> {"up", "down"}]
    /\ ppc \in [Pubs -> {"none", "auth", "loop", "done"}]
    /\ psock \in [Pubs -> {"up", "down"}]
    /\ closing \in Seq(Socks)

\* The viewer_ids in the room.
Present == {v \in Socks : viewers[v] # NULL}

Stopped(t) == IF t = "on" THEN "off" ELSE t

-----------------------------------------------------------------------------
(* subscribe_ws.                                                           *)

\* The handler looks the room up and waits for the first frame (and the PIN).
SubOpen(s) ==
    /\ pc[s] = "none"
    /\ pc' = [pc EXCEPT ![s] = IF room = "live" THEN "hello" ELSE "done"]
    /\ sock' = [sock EXCEPT ![s] = IF room = "live" THEN @ ELSE "down"]
    /\ UNCHANGED <<roomVars, quiet, vid, cid, connected, task, prev, grace, closing>>

\* The socket fails, or the PIN is wrong or does not come.
SubRefused(s) ==
    /\ pc[s] = "hello"
    /\ pc' = [pc EXCEPT ![s] = "done"]
    /\ sock' = [sock EXCEPT ![s] = "down"]
    /\ UNCHANGED <<roomVars, quiet, vid, cid, connected, task, prev, grace, closing>>

\* The handler has a Viewer and its task, and tells the publisher.  Without a
\* publisher there is nothing to wait for.
Announce(s) ==
    pc' = [pc EXCEPT ![s] = IF publisher = NULL THEN "loop" ELSE "notify"]

\* Mutant of Attach: a full room only refuses when it is over its limit.
AttachOverfull(s, c) ==
    LET known == IF c = NULL THEN FALSE ELSE clients[c] # NULL
        id    == IF known THEN clients[c] ELSE s
        old   == viewers[id] IN
    /\ known \/ Cardinality(Present) <= MaxViewers
    /\ vid' = [vid EXCEPT ![s] = id]
    /\ cid' = [cid EXCEPT ![s] = c]
    /\ clients' = IF c = NULL THEN clients ELSE [clients EXCEPT ![c] = id]
    /\ viewers' = [viewers EXCEPT ![id] = s]
    /\ prev' = [prev EXCEPT ![s] = old]
    /\ connected' = [x \in Socks |-> IF x = s THEN TRUE
                                     ELSE x # old /\ connected[x]]
    /\ IF old = NULL
       THEN task' = [task EXCEPT ![s] = "on"] /\ Announce(s)
       ELSE task' = [task EXCEPT ![old] = Stopped(@)]
            /\ pc' = [pc EXCEPT ![s] = "close"]

\* new_viewer and attach_viewer: a client_id the room knows gets its viewer_id
\* back, whatever the room holds, and supersedes the Viewer that has it.
Attach(s, c) ==
    LET known == IF c = NULL THEN FALSE ELSE clients[c] # NULL
        id    == IF known THEN clients[c] ELSE s
        old   == viewers[id] IN
    /\ known \/ Cardinality(Present) < MaxViewers
    /\ vid' = [vid EXCEPT ![s] = id]
    /\ cid' = [cid EXCEPT ![s] = c]
    /\ clients' = IF c = NULL THEN clients ELSE [clients EXCEPT ![c] = id]
    /\ viewers' = [viewers EXCEPT ![id] = s]
    /\ prev' = [prev EXCEPT ![s] = old]
    /\ connected' = [x \in Socks |-> IF x = s THEN TRUE
                                     ELSE x # old /\ connected[x]]
    /\ IF old = NULL
       THEN task' = [task EXCEPT ![s] = "on"] /\ Announce(s)
       ELSE task' = [task EXCEPT ![old] = Stopped(@)]
            /\ pc' = [pc EXCEPT ![s] = "close"]

\* The first frame is in, or took longer than two seconds and goes unread, its
\* client_id with it.  The room is not looked up again.
SubHello(s) ==
    /\ pc[s] = "hello"
    /\ \E c \in {ClientOf[s], NULL} : Attach(s, c)
    /\ quiet' = FALSE
    /\ UNCHANGED <<room, publisher, driver, grace, sock, ppc, psock, closing>>

SubFull(s) ==
    /\ pc[s] = "hello" /\ Cardinality(Present) >= MaxViewers
    /\ \E c \in {ClientOf[s], NULL} :
           IF c = NULL THEN TRUE ELSE clients[c] = NULL
    /\ pc' = [pc EXCEPT ![s] = "done"]
    /\ sock' = [sock EXCEPT ![s] = "down"]
    /\ UNCHANGED <<roomVars, quiet, vid, cid, connected, task, prev, grace, closing>>

\* The close of the superseded socket returns; only now the task is started.
Superseded(s) ==
    /\ pc[s] = "close"
    /\ sock' = [sock EXCEPT ![prev[s]] = "down"]
    /\ prev' = [prev EXCEPT ![s] = NULL]
    /\ task' = [task EXCEPT ![s] = "on"]
    /\ Announce(s)
    /\ UNCHANGED <<roomVars, quiet, vid, cid, connected, grace, closing>>

\* viewer_joined is with the publisher, or lost: the handler enters its loop.
Announced(s) ==
    /\ pc[s] = "notify"
    /\ pc' = [pc EXCEPT ![s] = "loop"]
    /\ UNCHANGED <<roomVars, quiet, vid, cid, connected, task, prev, grace, sock,
                   closing>>

\* _viewer_sender fails on a socket that is down.
SenderFails(s) ==
    /\ task[s] = "on" /\ sock[s] = "down"
    /\ task' = [task EXCEPT ![s] = "off"]
    /\ UNCHANGED <<roomVars, quiet, vid, cid, connected, prev, grace, pc, sock,
                   closing>>

\* The finally clause: the teardown waits for the grace reaper.
Dropped(s) ==
    /\ connected' = [connected EXCEPT ![s] = FALSE]
    /\ task' = [task EXCEPT ![s] = Stopped(@)]
    /\ pc' = [pc EXCEPT ![s] = "done"]
    /\ grace' = IF viewers[vid[s]] = s THEN grace \cup {s} ELSE grace

\* The receive loop ends with the socket.
SubEnds(s) ==
    /\ pc[s] = "loop" /\ sock[s] = "down"
    /\ Dropped(s)
    /\ UNCHANGED <<roomVars, quiet, vid, cid, prev, sock, closing>>

\* A handler cancelled while it waits for its first frame, or for the sends
\* that come before its try statement: no finally clause runs.
SubCancelled(s) ==
    /\ s \in LossCancels /\ sock[s] = "down"
    /\ pc[s] \in {"hello", "close", "notify"}
    /\ pc' = [pc EXCEPT ![s] = "done"]
    /\ UNCHANGED <<roomVars, quiet, vid, cid, connected, task, prev, grace, sock,
                   closing>>

BrowserGone(s) ==
    /\ sock[s] = "up" /\ pc[s] # "none"
    /\ sock' = [sock EXCEPT ![s] = "down"]
    /\ UNCHANGED <<roomVars, quiet, handlerVars, closing>>

-----------------------------------------------------------------------------
(* _grace_evict.                                                           *)

\* Mutants of GraceOver: does not look whether the viewer is superseded; keeps
\* the client's mapping; leaves the badge with the viewer.
GraceOverBlind(s) ==
    /\ s \in grace /\ grace' = grace \ {s}
    /\ viewers' = [viewers EXCEPT ![vid[s]] = NULL]
    /\ clients' = [c \in Clients |-> IF c = cid[s] THEN NULL ELSE clients[c]]
    /\ driver' = IF driver = vid[s] THEN NULL ELSE driver
    /\ quiet' = FALSE
    /\ UNCHANGED <<room, publisher, vid, cid, connected, task, prev, pc, sock, ppc,
                   psock, closing>>

GraceOverRemembers(s) ==
    /\ s \in grace /\ grace' = grace \ {s}
    /\ IF viewers[vid[s]] = s /\ ~connected[s]
       THEN /\ viewers' = [viewers EXCEPT ![vid[s]] = NULL]
            /\ driver' = IF driver = vid[s] THEN NULL ELSE driver
            /\ quiet' = FALSE
       ELSE UNCHANGED <<viewers, driver, quiet>>
    /\ UNCHANGED <<room, publisher, clients, vid, cid, connected, task, prev, pc,
                   sock, ppc, psock, closing>>

GraceOverKeepsDriver(s) ==
    /\ s \in grace /\ grace' = grace \ {s}
    /\ IF viewers[vid[s]] = s /\ ~connected[s]
       THEN /\ viewers' = [viewers EXCEPT ![vid[s]] = NULL]
            /\ clients' = [c \in Clients |-> IF c = cid[s] THEN NULL
                                             ELSE clients[c]]
            /\ quiet' = FALSE
       ELSE UNCHANGED <<viewers, clients, quiet>>
    /\ UNCHANGED <<room, publisher, driver, vid, cid, connected, task, prev, pc,
                   sock, ppc, psock, closing>>

\* The window is over: unless another socket has the viewer_id by now, the
\* viewer goes, its client_id is forgotten and drive is released.
GraceOver(s) ==
    /\ s \in grace /\ grace' = grace \ {s}
    /\ IF viewers[vid[s]] = s /\ ~connected[s]
       THEN /\ viewers' = [viewers EXCEPT ![vid[s]] = NULL]
            /\ clients' = [c \in Clients |-> IF c = cid[s] THEN NULL
                                             ELSE clients[c]]
            /\ driver' = IF driver = vid[s] THEN NULL ELSE driver
            /\ quiet' = FALSE
       ELSE UNCHANGED <<viewers, clients, driver, quiet>>
    /\ UNCHANGED <<room, publisher, vid, cid, connected, task, prev, pc, sock, ppc,
                   psock, closing>>

-----------------------------------------------------------------------------
(* publish_ws.                                                             *)

PubOpen(p) ==
    /\ ppc[p] = "none"
    /\ ppc' = [ppc EXCEPT ![p] = IF room = "live" THEN "auth" ELSE "done"]
    /\ psock' = [psock EXCEPT ![p] = IF room = "live" THEN @ ELSE "down"]
    /\ UNCHANGED <<room, quiet, publisher, driver, viewers, clients,
                   handlerVars, sock, closing>>

\* The token is right: the newest publisher is the publisher.
PubAuth(p) ==
    /\ ppc[p] = "auth"
    /\ ppc' = [ppc EXCEPT ![p] = "loop"]
    /\ publisher' = p
    /\ quiet' = FALSE
    /\ UNCHANGED <<room, driver, viewers, clients, handlerVars, sock, psock,
                   closing>>

PubRefused(p) ==
    /\ ppc[p] = "auth"
    /\ ppc' = [ppc EXCEPT ![p] = "done"]
    /\ psock' = [psock EXCEPT ![p] = "down"]
    /\ UNCHANGED <<room, quiet, publisher, driver, viewers, clients,
                   handlerVars, sock, closing>>

\* An output or chat frame.
PubFrame(p) ==
    /\ ppc[p] = "loop" /\ quiet
    /\ quiet' = FALSE
    /\ UNCHANGED <<roomVars, handlerVars, sock, closing>>

\* A driver frame names a viewer_id the publisher has heard of, or none.
PubDriver(p) ==
    /\ ppc[p] = "loop"
    /\ \E v \in {x \in Socks : vid[x] = x} \cup {NULL} :
           driver' = IF v \in Present THEN v ELSE NULL
    /\ UNCHANGED <<room, quiet, publisher, viewers, clients, handlerVars, sock,
                   ppc, psock, closing>>

\* The loop ends, by an `end` frame or with the socket: whoever is the
\* publisher by now, the room has none.
PubEnds(p) ==
    /\ ppc[p] = "loop"
    /\ ppc' = [ppc EXCEPT ![p] = "done"]
    /\ psock' = [psock EXCEPT ![p] = "down"]
    /\ publisher' = NULL
    /\ UNCHANGED <<room, quiet, driver, viewers, clients, handlerVars, sock,
                   closing>>

PublisherGone(p) ==
    /\ psock[p] = "up" /\ ppc[p] # "none"
    /\ psock' = [psock EXCEPT ![p] = "down"]
    /\ UNCHANGED <<room, quiet, publisher, driver, viewers, clients,
                   handlerVars, sock, ppc, closing>>

-----------------------------------------------------------------------------
(* The end of the room.                                                    *)

\* Mutant of EndRoom: walks every viewer_id, also those that left.
EndRoomAll ==
    /\ room = "live"
    /\ room' = "ended"
    /\ closing' \in SetToSeqs({viewers[v] : v \in Socks})
    /\ UNCHANGED <<quiet, publisher, driver, viewers, clients, handlerVars,
                   sock, ppc, psock>>

\* DELETE with the publish token, or by the operator: the room leaves the
\* registry, then its viewers of that moment are told and closed in turn.
EndRoom ==
    /\ room = "live"
    /\ room' = "ended"
    /\ closing' \in SetToSeqs({viewers[v] : v \in Present})
    /\ UNCHANGED <<quiet, publisher, driver, viewers, clients, handlerVars,
                   sock, ppc, psock>>

\* `end` is sent, the task cancelled and the socket closed.
TeardownNext ==
    /\ closing # <<>>
    /\ task' = [task EXCEPT ![Head(closing)] = Stopped(@)]
    /\ sock' = [sock EXCEPT ![Head(closing)] = "down"]
    /\ closing' = Tail(closing)
    /\ UNCHANGED <<roomVars, quiet, vid, cid, connected, prev, grace, pc>>

\* purge_idle.
Reap ==
    /\ room = "live" /\ quiet /\ publisher = NULL /\ Present = {}
    /\ room' = "reaped"
    /\ UNCHANGED <<quiet, publisher, driver, viewers, clients, handlerVars,
                   sock, ppc, psock, closing>>

\* ROOM_IDLE_TIMEOUT passes without a touch.
FallQuiet ==
    /\ ~quiet /\ quiet' = TRUE
    /\ UNCHANGED <<roomVars, handlerVars, sock, closing>>

-----------------------------------------------------------------------------
Init ==
    /\ room = "live" /\ quiet = FALSE
    /\ publisher = NULL /\ driver = NULL
    /\ viewers = [s \in Socks |-> NULL]
    /\ clients = [c \in Clients |-> NULL]
    /\ vid = [s \in Socks |-> NULL]
    /\ cid = [s \in Socks |-> NULL]
    /\ connected = [s \in Socks |-> FALSE]
    /\ task = [s \in Socks |-> "none"]
    /\ prev = [s \in Socks |-> NULL]
    /\ grace = {}
    /\ pc = [s \in Socks |-> "none"]
    /\ sock = [s \in Socks |-> "up"]
    /\ ppc = [p \in Pubs |-> "none"]
    /\ psock = [p \in Pubs |-> "up"]
    /\ closing = <<>>

SubNext(s) ==
    \/ SubOpen(s) \/ SubRefused(s) \/ SubHello(s) \/ SubFull(s)
    \/ Superseded(s) \/ Announced(s) \/ SenderFails(s) \/ SubEnds(s)
    \/ SubCancelled(s) \/ BrowserGone(s) \/ GraceOver(s)

PubNext(p) ==
    \/ PubOpen(p) \/ PubAuth(p) \/ PubRefused(p) \/ PubFrame(p)
    \/ PubDriver(p) \/ PubEnds(p) \/ PublisherGone(p)

Next ==
    \/ \E s \in Socks : SubNext(s)
    \/ \E p \in Pubs : PubNext(p)
    \/ EndRoom \/ TeardownNext \/ Reap \/ FallQuiet

\* Coroutines that can run do; closes and sends time out in the library; the
\* grace and teardown timers fire.
Fairness ==
    /\ \A s \in Socks :
           /\ WF_vars(Superseded(s) \/ Announced(s) \/ SubEnds(s))
           /\ WF_vars(GraceOver(s))
    /\ WF_vars(TeardownNext)

Spec == Init /\ [][Next]_vars /\ Fairness

-----------------------------------------------------------------------------
(* Properties.                                                             *)

\* A room never holds more viewers than its cap, although a known client_id
\* goes past the check: reconnects reclaim a place and never add one.
ViewersBounded == Cardinality(Present) <= MaxViewers

\* A client_id the room remembers leads to a viewer that is in the room and
\* whose socket belongs to that browser: nobody reclaims another's drive, and
\* nobody is waved past the cap to a place that is gone.
ReclaimsOwnPlace ==
    \A c \in Clients : clients[c] # NULL =>
        /\ clients[c] \in Present
        /\ cid[viewers[clients[c]]] = c

\* The driver the roster shows is in the room.
DriverPresent == driver \in Present \cup {NULL}

\* A viewer whose browser is back keeps its place, and its drive, through the
\* end of the grace window of its former socket: what a window removes has no
\* open socket.
FlapKeepsPlace ==
    [][\A v \in Present : viewers'[v] = NULL => sock[viewers[v]] = "down"]_vars

\* rooms.py:335-336: "a room with a publisher attached never idle-reaps".
PublisherKeepsRoom ==
    [][room' = "reaped" /\ room = "live" =>
           \A p \in Pubs : ~(ppc[p] = "loop" /\ psock[p] = "up")]_vars
=============================================================================
