------------------------------ MODULE ChatRoom ------------------------------
(***************************************************************************)
(* The chat server of hack-house (src/cmd_chat/server): SRP handshakes,    *)
(* the session store, the live websockets, the room host and its /kick,    *)
(* which rotates the room password under everybody's feet.                 *)
(*                                                                         *)
(* The server is one asyncio event loop.  A handler gives the loop up only *)
(* where it awaits a socket: reading the next frame, sending a kick's      *)
(* frames, closing a peer.  `await` on the connection manager's lock never *)
(* suspends (no body under the lock awaits), so everything between two     *)
(* socket awaits is one action here.  A broadcast only enqueues, and       *)
(* suspends exactly when some peer's queue is full and must be closed.     *)
(*                                                                         *)
(* A password is the number of the rotation that made it: the room starts  *)
(* with password 0, each kick moves to the next.  A member's content key   *)
(* is derived from the password it authenticated with (key[i]).            *)
(***************************************************************************)
EXTENDS Integers, FiniteSets, Sequences, SequencesExt

CONSTANTS
    Clients,       \* people (programs) who may join the room
    Ids,           \* the user_ids the server hands out, each to one client
    Owner,         \* [Ids -> Clients], the client an id is handed to
    Name,          \* username of each client; two clients may share one
    MaxUsers,      \* app.ctx.max_users
    StoreMax,      \* MessageStore._max
    MaxEpoch,      \* bound on the number of password rotations
    MaxWedge,      \* bound on the peers one broadcast finds wedged
    LongIdle,      \* who may be silent for an hour: subset of {"token","member"}
    LossCancels,   \* does Sanic cancel a handler whose connection is lost?
    NULL

ASSUME ConstantsAssumption ==
    /\ Owner \in [Ids -> Clients]
    /\ MaxUsers \in Nat \ {0}
    /\ StoreMax \in Nat \ {0}
    /\ MaxEpoch \in Nat
    /\ MaxWedge \in Nat
    /\ LongIdle \subseteq {"token", "member"}
    /\ LossCancels \in BOOLEAN
    /\ NULL \notin Ids

VARIABLES
    epoch,      \* SRPAuthManager.password, as the number of its rotation
    handshake,  \* SRPAuthManager.sessions not yet authenticated: id -> password
    sessions,   \* UserSessionStore._sessions in insertion order
    active,     \* ConnectionManager.active_connections in insertion order
    host,       \* app.ctx.host_user_id
    store,      \* MessageStore._messages, each as the key it is encrypted with
    roster,     \* the last roster frame broadcast
    sock,       \* is the websocket of an id "up" or "closed"?
    pc,         \* where the id's chat_ws handler is
    evict,      \* the wedged peers the handler is dropping, head being closed
    kick,       \* the _handle_kick the handler is running, or NoKick
    key,        \* the password an id's client authenticated with
    uid,        \* the id a client is using, or NULL
    stage,      \* how far the client is: "idle", "hello", "token", "live"
    pw          \* the password a client knows

vars == <<epoch, handshake, sessions, active, host, store, roster, sock, pc,
          evict, kick, key, uid, stage, pw>>
serverVars == <<epoch, handshake, host, store, kick>>
clientVars == <<key, uid, stage, pw>>

Epochs == 0..MaxEpoch
None == -1          \* no handshake is open for the id

NoKick == [phase |-> "off", key |-> 0, order |-> <<>>, left |-> {},
           targets |-> {}]

KickRecords ==
    [phase : {"off", "next", "deliver", "close", "free"}, key : Epochs,
     order : Seq(Ids), left : SUBSET Ids, targets : SUBSET Ids]

TypeOK ==
    /\ epoch \in Epochs
    /\ handshake \in [Ids -> Epochs \cup {None}]
    /\ sessions \in Seq(Ids)
    /\ active \in Seq(Ids)
    /\ host \in Ids \cup {NULL}
    /\ store \in Seq(Epochs) /\ Len(store) <= StoreMax
    /\ roster \in [users : Seq(Ids), host : Ids \cup {NULL}]
    /\ sock \in [Ids -> {"up", "closed"}]
    /\ pc \in [Ids -> {"none", "join", "read", "kick", "leave"}]
    /\ evict \in [Ids -> Seq(Ids)]
    /\ kick \in [Ids -> KickRecords]
    /\ key \in [Ids -> Epochs]
    /\ uid \in [Clients -> Ids \cup {NULL}]
    /\ stage \in [Clients -> {"idle", "hello", "token", "live"}]
    /\ pw \in [Clients -> Epochs]

-----------------------------------------------------------------------------
(* Insertion-ordered dictionaries, as sequences without duplicates.        *)

Position(s, x) == CHOOSE k \in DOMAIN s : s[k] = x

\* `dict.pop(x, None)`: the other entries keep their order.
Without(s, x) ==
    IF x \in ToSet(s) THEN RemoveAt(s, Position(s, x)) ELSE s

NameOf(i) == Name[Owner[i]]

\* The kicks in progress still have to free these ids.
Doomed == UNION {kick[h].left : h \in Ids}

\* A user_id nothing in the program mentions any more: uuid4 hands out an id
\* that was never used, the model hands out one that is forgotten.
Fresh(i) ==
    /\ i \notin ToSet(sessions) \cup ToSet(active) \cup Doomed
    /\ i \notin ToSet(roster.users) \cup {roster.host, host}
    /\ pc[i] = "none" /\ evict[i] = <<>>
    /\ \A h \in Ids : i \notin ToSet(evict[h])
    /\ uid[Owner[i]] # i

\* The handler of _handle_kick between two sends holds the event loop.
Busy == \E h \in Ids : kick[h].phase = "next"

Full == Len(sessions) >= MaxUsers

NameTaken(n) == \E i \in ToSet(sessions) : NameOf(i) = n

\* _current_host: sticky while present, else the oldest live connection.
CurrentHost(act, h) ==
    IF h \in ToSet(act) THEN h
    ELSE IF act = <<>> THEN NULL ELSE Head(act)

RosterFrame(ses, h) ==
    [users |-> ses, host |-> IF h \in ToSet(ses) THEN h ELSE NULL]

-----------------------------------------------------------------------------
(* Broadcasting.                                                           *)

\* The peers whose queue a broadcast to `targets` may find full, oldest first.
Wedged(targets) ==
    {q \in SeqOf(ToSet(targets), MaxWedge) :
        \A j, k \in DOMAIN q :
            j < k => Position(targets, q[j]) < Position(targets, q[k])}

\* ConnectionManager.broadcast by i's handler, which continues at `next`: the
\* frame is enqueued everywhere, then the wedged peers q are disconnected and
\* closed one by one, the first disconnect coming before any suspension.
Broadcast(i, next, act, q) ==
    /\ evict' = [evict EXCEPT ![i] = q]
    /\ active' = IF q = <<>> THEN act ELSE Without(act, Head(q))
    /\ pc' = [pc EXCEPT ![i] = next]

\* broadcast(_roster_frame(app)): the frame recomputes the host.
BroadcastRoster(i, next, act, ses) ==
    /\ host' = CurrentHost(act, host)
    /\ roster' = RosterFrame(ses, CurrentHost(act, host))
    /\ \E q \in Wedged(act) : Broadcast(i, next, act, q)

-----------------------------------------------------------------------------
(* POST /srp/init and /srp/verify.                                         *)

\* srp_init for a name not taken in a room not full.  init_auth first evicts
\* unverified handshakes that are too old (any of them, time being abstract).
SrpInit(c, i) ==
    /\ stage[c] = "idle" /\ Owner[i] = c /\ Fresh(i)
    /\ ~NameTaken(Name[c]) /\ ~Full
    /\ \E stale \in SUBSET {j \in Ids : handshake[j] # None} :
           handshake' = [j \in Ids |-> IF j = i THEN epoch
                                       ELSE IF j \in stale THEN None
                                       ELSE handshake[j]]
    /\ key' = [key EXCEPT ![i] = pw[c]]
    /\ uid' = [uid EXCEPT ![c] = i]
    /\ stage' = [stage EXCEPT ![c] = "hello"]
    /\ UNCHANGED <<epoch, sessions, active, host, store, roster, sock, pc,
                   evict, kick, pw>>

\* srp_verify with the right proof: the seat is taken here.  The authenticated
\* entry stays in SRPAuthManager.sessions, where no code reads it again.
SrpVerify(c) ==
    LET i == uid[c] IN
    /\ stage[c] = "hello" /\ ~Full
    /\ handshake[i] # None /\ handshake[i] = key[i]
    /\ handshake' = [handshake EXCEPT ![i] = None]
    /\ sessions' = Append(sessions, i)
    /\ stage' = [stage EXCEPT ![c] = "token"]
    /\ UNCHANGED <<epoch, active, host, store, roster, sock, pc, evict, kick,
                   key, uid, pw>>

\* srp_verify refused: the room filled up, the handshake is gone (rotated or
\* evicted), or the proof is wrong, which deletes the handshake.
SrpVerifyRefused(c) ==
    LET i == uid[c] IN
    /\ stage[c] = "hello"
    /\ Full \/ handshake[i] # key[i]
    /\ handshake' = IF Full THEN handshake
                    ELSE [handshake EXCEPT ![i] = None]
    /\ uid' = [uid EXCEPT ![c] = NULL]
    /\ stage' = [stage EXCEPT ![c] = "idle"]
    /\ UNCHANGED <<epoch, sessions, active, host, store, roster, sock, pc,
                   evict, kick, key, pw>>

\* The client dies, or gives up, between two of its requests.  A handshake it
\* leaves behind is taken as evicted: nobody else could complete it.
GiveUp(c) ==
    /\ stage[c] \in {"hello", "token"}
    /\ handshake' = [handshake EXCEPT ![uid[c]] = None]
    /\ uid' = [uid EXCEPT ![c] = NULL]
    /\ stage' = [stage EXCEPT ![c] = "idle"]
    /\ UNCHANGED <<epoch, sessions, active, host, store, roster, sock, pc,
                   evict, kick, key, pw>>

-----------------------------------------------------------------------------
(* chat_ws.                                                                *)

\* The websocket is accepted: connect, _current_host, the user_joined
\* broadcast to the others and, unless one of them is wedged, the roster.
OpenWs(c) ==
    LET i   == uid[c]
        act == Append(active, i) IN
    /\ stage[c] = "token" /\ i \in ToSet(sessions)
    /\ sock' = [sock EXCEPT ![i] = "up"]
    /\ stage' = [stage EXCEPT ![c] = "live"]
    /\ \/ \E q \in Wedged(active) \ {<<>>} :
              /\ Broadcast(i, "join", act, q)
              /\ host' = CurrentHost(act, host)
              /\ UNCHANGED roster
       \/ BroadcastRoster(i, "read", act, sessions)
    /\ UNCHANGED <<epoch, handshake, sessions, store, kick, key, uid, pw>>

\* The session was swept before the socket came: closed with 4002.
OpenWsRefused(c) ==
    /\ stage[c] = "token" /\ uid[c] \notin ToSet(sessions)
    /\ uid' = [uid EXCEPT ![c] = NULL]
    /\ stage' = [stage EXCEPT ![c] = "idle"]
    /\ UNCHANGED <<serverVars, sessions, active, roster, sock, pc, evict,
                   key, pw>>

\* The close of a wedged peer returns in i's handler, which disconnects the
\* next one or, after the last, goes on to what follows the broadcast.
DropWedged(i) ==
    /\ evict[i] # <<>>
    /\ sock' = [sock EXCEPT ![Head(evict[i])] = "closed"]
    /\ \/ /\ Len(evict[i]) > 1
          /\ evict' = [evict EXCEPT ![i] = Tail(@)]
          /\ active' = Without(active, evict[i][2])
          /\ UNCHANGED <<host, roster, pc>>
       \/ /\ Len(evict[i]) = 1 /\ pc[i] \in {"read", "none"}
          /\ evict' = [evict EXCEPT ![i] = <<>>]
          /\ UNCHANGED <<active, host, roster, pc>>
       \/ /\ Len(evict[i]) = 1 /\ pc[i] = "join"
          /\ BroadcastRoster(i, "read", active, sessions)
       \/ /\ Len(evict[i]) = 1 /\ pc[i] = "leave"
          /\ BroadcastRoster(i, "none", active, sessions)
    /\ UNCHANGED <<epoch, handshake, sessions, store, kick, clientVars>>

Reading(i) == pc[i] = "read" /\ evict[i] = <<>>

\* Mutant of RelayFrame: trims the backlog one message too late.
RelayFrameLateTrim(i) ==
    /\ Reading(i)
    /\ LET all == Append(store, key[i]) IN
       store' = IF Len(all) > StoreMax + 1 THEN Tail(all) ELSE all
    /\ \E q \in Wedged(active) : Broadcast(i, "read", active, q)
    /\ UNCHANGED <<epoch, handshake, sessions, host, roster, sock, kick,
                   clientVars>>

\* An encrypted frame: kept in the backlog, relayed to every connection.
RelayFrame(i) ==
    /\ Reading(i)
    /\ LET all == Append(store, key[i]) IN
       store' = IF Len(all) > StoreMax
                THEN SubSeq(all, Len(all) - StoreMax + 1, Len(all))
                ELSE all
    /\ \E q \in Wedged(active) : Broadcast(i, "read", active, q)
    /\ UNCHANGED <<epoch, handshake, sessions, host, roster, sock, kick,
                   clientVars>>

\* Mutants of Depart: forget to disconnect; send the roster before freeing the
\* seat.
DepartKeepsConnection(i) ==
    /\ sessions' = Without(sessions, i)
    /\ kick' = [kick EXCEPT ![i] = NoKick]
    /\ BroadcastRoster(i, "none", active, Without(sessions, i))
    /\ UNCHANGED <<epoch, handshake, store, sock, clientVars>>

DepartAnnouncesFirst(i) ==
    /\ sessions' = Without(sessions, i)
    /\ kick' = [kick EXCEPT ![i] = NoKick]
    /\ BroadcastRoster(i, "none", Without(active, i), sessions)
    /\ UNCHANGED <<epoch, handshake, store, sock, clientVars>>

\* The finally clause: disconnect, free the seat, tell the others.
Depart(i) ==
    LET act == Without(active, i)
        ses == Without(sessions, i) IN
    /\ sessions' = ses
    /\ kick' = [kick EXCEPT ![i] = NoKick]
    /\ \/ \E q \in Wedged(act) \ {<<>>} :
              /\ Broadcast(i, "leave", act, q)
              /\ UNCHANGED <<host, roster>>
       \/ BroadcastRoster(i, "none", act, ses)
    /\ UNCHANGED <<epoch, handshake, store, sock, clientVars>>

\* The read loop ends: its socket is closed, by either side.
Leave(i) == Reading(i) /\ sock[i] = "closed" /\ Depart(i)

\* Sanic cancels the handler of a lost connection at the await it is suspended
\* in; the finally clause still runs, unless it is what was cancelled.
Cancelled(i) ==
    /\ LossCancels /\ sock[i] = "closed"
    /\ evict[i] # <<>> \/ pc[i] = "kick"
    /\ \/ pc[i] \in {"join", "read", "kick"} /\ Depart(i)
       \/ /\ pc[i] \in {"leave", "none"}
          /\ evict' = [evict EXCEPT ![i] = <<>>]
          /\ pc' = [pc EXCEPT ![i] = "none"]
          /\ UNCHANGED <<serverVars, sessions, active, roster, sock,
                         clientVars>>

-----------------------------------------------------------------------------
(* _handle_kick.                                                           *)

Targets(i, n) == {u \in ToSet(sessions) : NameOf(u) = n /\ u # i}

\* Refused: the sender is not the host, or nobody else has that name.
KickDenied(i, n) ==
    /\ Reading(i)
    /\ CurrentHost(active, host) # i \/ Targets(i, n) = {}
    /\ host' = CurrentHost(active, host)
    /\ UNCHANGED <<epoch, handshake, sessions, active, store, roster, sock, pc,
                   evict, kick, clientVars>>

StartedKick(i, n) ==
    [phase |-> "next", key |-> epoch + 1, order |-> sessions,
     left |-> ToSet(sessions), targets |-> Targets(i, n)]

\* Mutants of KickStart: rotate() keeps the open handshakes; the host on record
\* is trusted without asking whether it is still connected.
KickStartKeepsHandshakes(i, n) ==
    /\ Reading(i) /\ epoch < MaxEpoch
    /\ CurrentHost(active, host) = i /\ Targets(i, n) # {}
    /\ host' = i
    /\ epoch' = epoch + 1
    /\ store' = <<>>
    /\ kick' = [kick EXCEPT ![i] = StartedKick(i, n)]
    /\ pc' = [pc EXCEPT ![i] = "kick"]
    /\ UNCHANGED <<handshake, sessions, active, roster, sock, evict,
                   clientVars>>

KickStartTrustsRecord(i, n) ==
    /\ Reading(i) /\ epoch < MaxEpoch
    /\ host = i /\ Targets(i, n) # {}
    /\ epoch' = epoch + 1
    /\ handshake' = [j \in Ids |-> None]
    /\ store' = <<>>
    /\ kick' = [kick EXCEPT ![i] = StartedKick(i, n)]
    /\ pc' = [pc EXCEPT ![i] = "kick"]
    /\ UNCHANGED <<sessions, active, host, roster, sock, evict, clientVars>>

\* The password rotates, open handshakes and the backlog are dropped, and
\* everybody present is put on the list of connections to close.
KickStart(i, n) ==
    /\ Reading(i) /\ epoch < MaxEpoch
    /\ CurrentHost(active, host) = i /\ Targets(i, n) # {}
    /\ host' = i
    /\ epoch' = epoch + 1
    /\ handshake' = [j \in Ids |-> None]
    /\ store' = <<>>
    /\ kick' = [kick EXCEPT ![i] = StartedKick(i, n)]
    /\ pc' = [pc EXCEPT ![i] = "kick"]
    /\ UNCHANGED <<sessions, active, roster, sock, evict, clientVars>>

\* The order of the two loops: the remaining members, then the targets, each
\* in the order of the session store.
Before(k, u, v) ==
    IF u \in k.targets <=> v \in k.targets
    THEN Position(k.order, u) < Position(k.order, v)
    ELSE v \in k.targets

NextUp(i, u) ==
    /\ u \in kick[i].left
    /\ \A v \in kick[i].left \ {u} : Before(kick[i], u, v)

\* deliver_and_close takes the connection out first.
KickPop(i, u) ==
    /\ kick[i].phase = "next" /\ NextUp(i, u) /\ u \in ToSet(active)
    /\ active' = Without(active, u)
    /\ kick' = [kick EXCEPT ![i].phase = "deliver"]
    /\ UNCHANGED <<epoch, handshake, sessions, host, store, roster, sock, pc,
                   evict, clientVars>>

\* It does nothing for a member without a connection; its session is freed.
KickSkip(i, u) ==
    /\ kick[i].phase = "next" /\ NextUp(i, u) /\ u \notin ToSet(active)
    /\ sessions' = Without(sessions, u)
    /\ kick' = [kick EXCEPT ![i].left = @ \ {u}]
    /\ UNCHANGED <<epoch, handshake, active, host, store, roster, sock, pc,
                   evict, clientVars>>

\* Mutant of KickDeliver: a send to a peer that is gone never returns.
KickDeliverWaits(i, u) ==
    LET c == Owner[u] IN
    /\ kick[i].phase = "deliver" /\ NextUp(i, u) /\ sock[u] = "up"
    /\ pw' = IF u \notin kick[i].targets /\ uid[c] = u
             THEN [pw EXCEPT ![c] = kick[i].key]
             ELSE pw
    /\ kick' = [kick EXCEPT ![i].phase = "close"]
    /\ UNCHANGED <<epoch, handshake, sessions, active, host, store, roster,
                   sock, pc, evict, key, uid, stage>>

\* The frames arrive: the kick notice and, for who may stay, the password.
KickDeliver(i, u) ==
    LET c == Owner[u] IN
    /\ kick[i].phase = "deliver" /\ NextUp(i, u)
    /\ pw' = IF u \notin kick[i].targets /\ uid[c] = u /\ sock[u] = "up"
             THEN [pw EXCEPT ![c] = kick[i].key]
             ELSE pw
    /\ kick' = [kick EXCEPT ![i].phase = "close"]
    /\ UNCHANGED <<epoch, handshake, sessions, active, host, store, roster,
                   sock, pc, evict, key, uid, stage>>

KickClose(i, u) ==
    /\ kick[i].phase = "close" /\ NextUp(i, u)
    /\ sock' = [sock EXCEPT ![u] = "closed"]
    /\ kick' = [kick EXCEPT ![i].phase = "free"]
    /\ UNCHANGED <<epoch, handshake, sessions, active, host, store, roster, pc,
                   evict, clientVars>>

KickFree(i, u) ==
    /\ kick[i].phase = "free" /\ NextUp(i, u)
    /\ sessions' = Without(sessions, u)
    /\ kick' = [kick EXCEPT ![i].phase = "next", ![i].left = @ \ {u}]
    /\ UNCHANGED <<epoch, handshake, active, host, store, roster, sock, pc,
                   evict, clientVars>>

\* The list is done; the host is derived anew when the members come back.
KickEnd(i) ==
    /\ kick[i].phase = "next" /\ kick[i].left = {}
    /\ host' = NULL
    /\ kick' = [kick EXCEPT ![i] = NoKick]
    /\ pc' = [pc EXCEPT ![i] = "read"]
    /\ UNCHANGED <<epoch, handshake, sessions, active, store, roster, sock,
                   evict, clientVars>>

-----------------------------------------------------------------------------
(* The clients' sockets, the sweep and the admin call.                     *)

\* The client closes its socket, crashes or loses the network.
ClientCloses(c) ==
    /\ stage[c] = "live" /\ sock[uid[c]] = "up"
    /\ sock' = [sock EXCEPT ![uid[c]] = "closed"]
    /\ uid' = [uid EXCEPT ![c] = NULL]
    /\ stage' = [stage EXCEPT ![c] = "idle"]
    /\ UNCHANGED <<serverVars, sessions, active, roster, pc, evict, key, pw>>

\* The client notices that the server closed its socket.
ClientSeesClose(c) ==
    /\ stage[c] = "live" /\ sock[uid[c]] = "closed"
    /\ uid' = [uid EXCEPT ![c] = NULL]
    /\ stage' = [stage EXCEPT ![c] = "idle"]
    /\ UNCHANGED <<serverVars, sessions, active, roster, sock, pc, evict,
                   key, pw>>

\* cleanup_stale_sessions: an hour without a frame, connected or not.
CleanupStale(i) ==
    /\ i \in ToSet(sessions)
    /\ IF pc[i] = "none" THEN "token" \in LongIdle ELSE "member" \in LongIdle
    /\ sessions' = Without(sessions, i)
    /\ UNCHANGED <<serverVars, active, roster, sock, pc, evict, clientVars>>

\* DELETE /clear with the admin token.
ClearMessages ==
    /\ store # <<>>
    /\ store' = <<>>
    /\ UNCHANGED <<epoch, handshake, sessions, active, host, roster, sock, pc,
                   evict, kick, clientVars>>

-----------------------------------------------------------------------------
Init ==
    /\ epoch = 0
    /\ handshake = [i \in Ids |-> None]
    /\ sessions = <<>>
    /\ active = <<>>
    /\ host = NULL
    /\ store = <<>>
    /\ roster = [users |-> <<>>, host |-> NULL]
    /\ sock = [i \in Ids |-> "closed"]
    /\ pc = [i \in Ids |-> "none"]
    /\ evict = [i \in Ids |-> <<>>]
    /\ kick = [i \in Ids |-> NoKick]
    /\ key = [i \in Ids |-> 0]
    /\ uid = [c \in Clients |-> NULL]
    /\ stage = [c \in Clients |-> "idle"]
    /\ pw = [c \in Clients |-> 0]

\* A kick that has the event loop runs to its next send before anything else.
KickStep(i) ==
    \/ \E u \in Ids : KickPop(i, u) \/ KickSkip(i, u)
    \/ KickEnd(i)
    \/ ~Busy /\ \E u \in Ids :
           KickDeliver(i, u) \/ KickClose(i, u) \/ KickFree(i, u)

\* A handler goes on by itself: a send or a close returns, the loop ends.
Resume(i) == ~Busy /\ (DropWedged(i) \/ Leave(i))

ServerStep(i) == KickStep(i) \/ Resume(i)

Next ==
    \/ \E i \in Ids : ServerStep(i)
    \/ /\ ~Busy
       /\ \/ \E c \in Clients, i \in Ids : SrpInit(c, i)
          \/ \E c \in Clients :
                 \/ SrpVerify(c) \/ SrpVerifyRefused(c) \/ GiveUp(c)
                 \/ OpenWs(c) \/ OpenWsRefused(c)
                 \/ ClientCloses(c) \/ ClientSeesClose(c)
          \/ \E i \in Ids : RelayFrame(i) \/ Cancelled(i) \/ CleanupStale(i)
          \/ \E i \in Ids, c \in Clients :
                 KickDenied(i, Name[c]) \/ KickStart(i, Name[c])
          \/ ClearMessages

Spec == Init /\ [][Next]_vars

\* The event loop runs a handler that can go on, and no send or close blocks
\* for ever: Sanic's ping timeout fails the socket of a peer that stopped
\* reading, which makes the pending send raise and the handler continue.  A
\* closed socket has finitely many frames left to read, so its handler, however
\* often it relays one of them, comes to the end of them: strong fairness.
FairSpec ==
    /\ Spec
    /\ \A i \in Ids : /\ WF_vars(KickStep(i))
                      /\ WF_vars(~Busy /\ DropWedged(i))
                      /\ SF_vars(~Busy /\ Leave(i))

-----------------------------------------------------------------------------
(* Properties.                                                             *)

\* No race between srp_init, srp_verify, kicks and sweeps seats more members
\* than max_users: the count is checked again where the seat is taken.
SeatsBounded == Len(sessions) <= MaxUsers

\* The purpose of /kick: whoever still holds a seat or a connection under an
\* old password is on the list of a kick that is still closing connections,
\* so once the kicks are over nobody in the room has an old key, however
\* handshakes, joins, departures and other kicks interleave with them.
NoStaleMember ==
    \A i \in ToSet(sessions) \cup ToSet(active) : key[i] = epoch \/ i \in Doomed

\* A connection that receives the room's frames is on the roster and counted
\* against the capacity, as long as connected members do not idle for an hour.
ConnectedIsSeated == ToSet(active) \subseteq ToSet(sessions)

\* The password is only ever rotated for the oldest live connection, also when
\* the host on record was evicted, left or was itself just closed by a kick.
OnlyOldestRekeys ==
    [][epoch' # epoch =>
           /\ active # <<>>
           /\ pc[Head(active)] = "read" /\ pc'[Head(active)] = "kick"]_vars

\* Whichever way a handler ends, nothing of its member stays behind: no seat,
\* no name, no connection (comment at views.py:290).
LeavesNothing ==
    [][\A i \in Ids : pc[i] # "none" /\ pc'[i] = "none" =>
           i \notin ToSet(sessions)' \cup ToSet(active)']_vars

\* Nothing is under way: every handler waits for a frame, and the seats are
\* those of the live connections.
Quiet ==
    /\ active # <<>>
    /\ ToSet(sessions) = ToSet(active)
    /\ \A i \in Ids : /\ evict[i] = <<>>
                      /\ pc[i] = IF i \in ToSet(active) THEN "read" ELSE "none"

\* "Authoritative presence snapshot - all clergy members converge on this"
\* (views.py:41): once the room is quiet, the last roster everybody received
\* names exactly the seated members, in order, and the host in force.
RosterConverges ==
    Quiet => roster = RosterFrame(sessions, CurrentHost(active, host))

\* "Remaining members are handed the new password ... and reconnect
\* seamlessly" (views.py:92): a remaining member still there when its socket
\* has been closed knows the password in force.
RemainingHandedPassword ==
    \A i, u \in Ids :
        /\ kick[i].phase = "free" /\ NextUp(i, u)
        /\ u \notin kick[i].targets /\ uid[Owner[u]] = u
        => pw[Owner[u]] = epoch

\* A kick reaches the end of its list.
KickCompletes == \A i \in Ids : (pc[i] = "kick") ~> (pc[i] # "kick")
=============================================================================
