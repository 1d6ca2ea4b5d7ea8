---------------------------- MODULE ConnManager ----------------------------
(***************************************************************************)
(* ConnectionManager of the chat server: a bounded queue and a writer task *)
(* for each websocket, so that no slow peer holds up the room.             *)
(*                                                                         *)
(* One action is what a coroutine does between two points where it really  *)
(* suspends: queue.get on an empty queue, ws.send, ws.close.  The lock of  *)
(* the manager is never held across a suspension, so acquiring it never    *)
(* waits.  The callers are the chat_ws handlers, one for each connection:  *)
(* a handler is in one call at a time and otherwise calls what it likes,   *)
(* which includes all that views.py does.  A message is stored before it   *)
(* is broadcast, so the snapshot a connection starts with shows every      *)
(* message broadcast before.                                               *)
(***************************************************************************)
EXTENDS Integers, FiniteSets, Sequences, SequencesExt

CONSTANTS
    Conns,      \* websockets
    UserOf,     \* the user_id each was opened for
    QueueMax,   \* SEND_QUEUE_MAX
    MaxSent,    \* bound on the messages broadcast
    MaxCalls,   \* bound on the other calls of the manager
    MaxParting, \* frames one deliver_and_close is given at most
    NULL

ASSUME ConnAssumption ==
    /\ QueueMax \in Nat \ {0}
    /\ MaxSent \in Nat /\ MaxCalls \in Nat /\ MaxParting \in Nat
    /\ NULL \notin Conns

VARIABLES
    active,     \* active_connections: the connections in insertion order
    queue,      \* _Conn.queue
    task,       \* is _Conn.task "none" yet, "get", "send" or "stopped"?
    sending,    \* the frame the task is handing to ws.send
    ws,         \* a websocket is "new", "open" or "closed"
    shown,      \* the last message the socket was given, -1 for none
    at,         \* a connection's handler is "none", "run" or "left"
    drop,       \* the connections the handler is closing, head first
    parting,    \* frames deliver_and_close still has to send to that head
    sent,       \* messages broadcast so far
    calls       \* other calls so far

vars == <<active, queue, task, sending, ws, shown, at, drop, parting,
          sent, calls>>

\* Frames: the init snapshot, which shows messages 1 to n; message n; and a
\* presence notice or a denial.
Snapshot(n) == <<"init", n>>
Message(n) == <<"message", n>>
Notice == <<"notice", 0>>
Frames == ({"init", "message"} \X (0..MaxSent)) \cup {Notice}

TypeOK ==
    /\ active \in Seq(Conns)
    /\ queue \in [Conns -> Seq(Frames)]
    /\ \A c \in Conns : Len(queue[c]) <= QueueMax
    /\ task \in [Conns -> {"none", "get", "send", "stopped"}]
    /\ sending \in [Conns -> Frames \cup {<<>>}]
    /\ ws \in [Conns -> {"new", "open", "closed"}]
    /\ shown \in [Conns -> -1..MaxSent]
    /\ at \in [Conns -> {"none", "run", "left"}]
    /\ drop \in [Conns -> Seq(Conns)]
    /\ parting \in [Conns -> 0..MaxParting]
    /\ sent \in 0..MaxSent
    /\ calls \in 0..MaxCalls

-----------------------------------------------------------------------------
(* The dictionary, and what popping a connection from it does.             *)

Position(s, x) == CHOOSE k \in DOMAIN s : s[k] = x

\* `dict.pop(x, None)`: the entries after it move up.
Without(s, x) ==
    IF x \in ToSet(s)
    THEN [k \in 1 .. Len(s) - 1 |-> IF k < Position(s, x) THEN s[k] ELSE s[k + 1]]
    ELSE s

\* active_connections.get(user_id)
ConnOf(u) ==
    IF \E c \in ToSet(active) : UserOf[c] = u
    THEN CHOOSE c \in ToSet(active) : UserOf[c] = u
    ELSE NULL

\* pop and cancel: the task stops at once, whether it waits for a frame or is
\* in the middle of a send, and nothing refers to the queue any more.
Pop(c, queues) ==
    /\ active' = Without(active, c)
    /\ queue' = [x \in Conns |-> IF x = c THEN <<>> ELSE queues[x]]
    /\ task' = [x \in Conns |-> IF x = c THEN "stopped" ELSE task[x]]
    /\ sending' = [x \in Conns |-> IF x = c THEN <<>> ELSE sending[x]]

\* The caller runs, and is not inside another call.
Free(h) == at[h] # "none" /\ drop[h] = <<>>

\* connect: a new connection takes the place of the one its user had, whose
\* task stops and whose socket nobody closes.
Connect(c) ==
    LET old == ConnOf(UserOf[c]) IN
    /\ ws[c] = "new"
    /\ active' = IF old = NULL THEN Append(active, c)
                 ELSE [k \in DOMAIN active |->
                           IF active[k] = old THEN c ELSE active[k]]
    /\ queue' = [x \in Conns |-> IF x = c THEN <<Snapshot(sent)>>
                                 ELSE IF x = old THEN <<>> ELSE queue[x]]
    /\ task' = [x \in Conns |-> IF x = c THEN "get"
                                ELSE IF x = old THEN "stopped" ELSE task[x]]
    /\ sending' = [x \in Conns |-> IF x = old THEN <<>> ELSE sending[x]]
    /\ ws' = [ws EXCEPT ![c] = "open"]
    /\ at' = [at EXCEPT ![c] = "run"]
    /\ UNCHANGED <<shown, drop, parting, sent, calls>>

-----------------------------------------------------------------------------
(* _writer.                                                                *)

TakeFrame(c) ==
    /\ task[c] = "get" /\ queue[c] # <<>>
    /\ task' = [task EXCEPT ![c] = "send"]
    /\ sending' = [sending EXCEPT ![c] = Head(queue[c])]
    /\ queue' = [queue EXCEPT ![c] = Tail(@)]
    /\ UNCHANGED <<active, ws, shown, at, drop, parting, sent, calls>>

\* Mutant of SendReturns: the writer does not loop.
SendReturnsOnce(c) ==
    /\ task[c] = "send"
    /\ task' = [task EXCEPT ![c] = "stopped"]
    /\ sending' = IF ws[c] = "open" THEN [sending EXCEPT ![c] = <<>>]
                  ELSE sending
    /\ shown' = IF ws[c] = "closed" \/ sending[c] = Notice THEN shown
                ELSE [shown EXCEPT ![c] = sending[c][2]]
    /\ UNCHANGED <<active, queue, ws, at, drop, parting, sent, calls>>

\* ws.send returns, or raises because the socket is closed: the task ends, and
\* the connection stays in the dictionary until its handler disconnects it.
SendReturns(c) ==
    /\ task[c] = "send"
    /\ \/ /\ ws[c] = "open"
          /\ sending' = [sending EXCEPT ![c] = <<>>]
          /\ task' = [task EXCEPT ![c] = "get"]
          /\ shown' = IF sending[c] = Notice THEN shown
                      ELSE [shown EXCEPT ![c] = sending[c][2]]
       \/ /\ ws[c] = "closed"
          /\ task' = [task EXCEPT ![c] = "stopped"]
          /\ UNCHANGED <<sending, shown>>
    /\ UNCHANGED <<active, queue, ws, at, drop, parting, sent, calls>>

\* A peer that goes away, or that the ping timeout gives up.
PeerDies(c) ==
    /\ ws[c] = "open"
    /\ ws' = [ws EXCEPT ![c] = "closed"]
    /\ UNCHANGED <<active, queue, task, sending, shown, at, drop, parting,
                   sent, calls>>

-----------------------------------------------------------------------------
(* Sending.                                                                *)

\* _enqueue of one frame to every connection of `to`, as far as they have room.
Enqueued(f, to) ==
    [c \in Conns |-> IF c \in to /\ Len(queue[c]) < QueueMax
                     THEN Append(queue[c], f) ELSE queue[c]]

\* Mutant of WedgedBy: an overflow is ignored, as in send_to.
WedgedByNone(to) == {<<>>}

\* The targets without room, in dictionary order (one sequence, in a set).
WedgedBy(to) ==
    LET full == {c \in to : Len(queue[c]) >= QueueMax} IN
    {s \in [1 .. Cardinality(full) -> full] :
        /\ ToSet(s) = full
        /\ \A i, j \in DOMAIN s :
              i < j => Position(active, s[i]) < Position(active, s[j])}

\* _drop_wedged for each of `full`: the first is popped before the first close
\* suspends, each of the others (by user_id) when the close before it returns.
EvictAll(h, full, queues) ==
    /\ drop' = [drop EXCEPT ![h] = full]
    /\ IF full = <<>>
       THEN queue' = queues /\ UNCHANGED <<active, task, sending>>
       ELSE Pop(Head(full), queues)

Broadcast(h, f, to) ==
    /\ \E full \in WedgedBy(to) : EvictAll(h, full, Enqueued(f, to))
    /\ UNCHANGED <<ws, shown, at, parting>>

\* broadcast of a message the handler has just read and stored.
BroadcastMessage(h) ==
    /\ at[h] = "run" /\ Free(h) /\ sent < MaxSent
    /\ sent' = sent + 1
    /\ Broadcast(h, Message(sent + 1), ToSet(active))
    /\ UNCHANGED calls

\* broadcast of a presence notice, perhaps with exclude_user.
BroadcastNotice(h) ==
    /\ Free(h) /\ calls < MaxCalls
    /\ calls' = calls + 1
    /\ \E skip \in {{}, {c \in Conns : UserOf[c] = UserOf[h]}} :
           Broadcast(h, Notice, ToSet(active) \ skip)
    /\ UNCHANGED sent

\* send_to: a denial that finds the queue full is lost.
SendTo(h, c) ==
    /\ Free(h) /\ calls < MaxCalls /\ c \in ToSet(active)
    /\ calls' = calls + 1
    /\ queue' = Enqueued(Notice, {c})
    /\ UNCHANGED <<active, task, sending, ws, shown, at, drop, parting, sent>>

\* send_personal: here it costs the connection.
SendPersonal(h, c) ==
    /\ Free(h) /\ calls < MaxCalls /\ c \in ToSet(active)
    /\ calls' = calls + 1
    /\ Broadcast(h, Notice, {c})
    /\ UNCHANGED sent

-----------------------------------------------------------------------------
(* Closing.                                                                *)

\* kick: pop, cancel, close.
Kick(h, c) ==
    /\ Free(h) /\ calls < MaxCalls /\ c \in ToSet(active)
    /\ calls' = calls + 1
    /\ EvictAll(h, <<c>>, queue)
    /\ UNCHANGED <<ws, shown, at, parting, sent>>

\* deliver_and_close with n frames, which go round the queue.
DeliverAndClose(h, c, n) ==
    /\ Free(h) /\ calls < MaxCalls /\ c \in ToSet(active)
    /\ calls' = calls + 1
    /\ EvictAll(h, <<c>>, queue)
    /\ parting' = [parting EXCEPT ![h] = n]
    /\ UNCHANGED <<ws, shown, at, sent>>

\* One of its sends returns; if it raised, the next is tried all the same.
PartingSent(h) ==
    /\ parting[h] > 0
    /\ parting' = [parting EXCEPT ![h] = @ - 1]
    /\ UNCHANGED <<active, queue, task, sending, ws, shown, at, drop, sent,
                   calls>>

\* Mutants of CloseReturns: goes on without a close; gives up the others.
CloseReturnsOpen(h) ==
    /\ drop[h] # <<>> /\ parting[h] = 0
    /\ drop' = [drop EXCEPT ![h] = Tail(@)]
    /\ IF Len(drop[h]) > 1
       THEN Pop(ConnOf(UserOf[drop[h][2]]), queue)
       ELSE UNCHANGED <<active, queue, task, sending>>
    /\ UNCHANGED <<ws, shown, at, parting, sent, calls>>

CloseReturnsFirstOnly(h) ==
    /\ drop[h] # <<>> /\ parting[h] = 0
    /\ ws' = [ws EXCEPT ![Head(drop[h])] = "closed"]
    /\ drop' = [drop EXCEPT ![h] = <<>>]
    /\ UNCHANGED <<active, queue, task, sending, shown, at, parting, sent,
                   calls>>

\* ws.close returns; the next wedged peer's user is disconnected, whichever
\* connection that user has by now.
CloseReturns(h) ==
    /\ drop[h] # <<>> /\ parting[h] = 0
    /\ ws' = [ws EXCEPT ![Head(drop[h])] = "closed"]
    /\ drop' = [drop EXCEPT ![h] = Tail(@)]
    /\ IF Len(drop[h]) > 1
       THEN Pop(ConnOf(UserOf[drop[h][2]]), queue)
       ELSE UNCHANGED <<active, queue, task, sending>>
    /\ UNCHANGED <<shown, at, parting, sent, calls>>

\* The handler of a closed socket ends: disconnect(user_id).
Disconnect(h) ==
    /\ at[h] = "run" /\ Free(h) /\ ws[h] = "closed"
    /\ Pop(ConnOf(UserOf[h]), queue)
    /\ at' = [at EXCEPT ![h] = "left"]
    /\ UNCHANGED <<ws, shown, drop, parting, sent, calls>>

-----------------------------------------------------------------------------
Init ==
    /\ active = <<>>
    /\ queue = [c \in Conns |-> <<>>]
    /\ task = [c \in Conns |-> "none"]
    /\ sending = [c \in Conns |-> <<>>]
    /\ ws = [c \in Conns |-> "new"]
    /\ shown = [c \in Conns |-> -1]
    /\ at = [c \in Conns |-> "none"]
    /\ drop = [c \in Conns |-> <<>>]
    /\ parting = [c \in Conns |-> 0]
    /\ sent = 0
    /\ calls = 0

Next ==
    \/ \E c \in Conns :
           \/ Connect(c) \/ TakeFrame(c) \/ SendReturns(c) \/ PeerDies(c)
           \/ BroadcastMessage(c) \/ BroadcastNotice(c)
           \/ PartingSent(c) \/ CloseReturns(c) \/ Disconnect(c)
    \/ \E h, c \in Conns :
           \/ SendTo(h, c) \/ SendPersonal(h, c) \/ Kick(h, c)
           \/ \E n \in 1..MaxParting : DeliverAndClose(h, c, n)

\* Tasks that can run do run; a send or a close that can only wait is ended by
\* the websocket library's ping and close timeouts.
Fairness ==
    \A c \in Conns :
        /\ WF_vars(TakeFrame(c) \/ SendReturns(c))
        /\ WF_vars(PartingSent(c) \/ CloseReturns(c))
        /\ WF_vars(Disconnect(c))

Spec == Init /\ [][Next]_vars /\ Fairness

-----------------------------------------------------------------------------
(* Properties.                                                             *)

\* The connection was refused a frame, and its eviction is on some handler's
\* list.
Refused(c) == \E h \in Conns : c \in ToSet(drop[h])

\* What a live connection was shown, or will be by the snapshot it waits for.
FeedSeen ==
    [c \in Conns |-> IF c \notin ToSet(active) THEN 0
                     ELSE IF shown[c] >= 0 THEN shown[c]
                     ELSE IF sending[c] # <<>> THEN sending[c][2]
                     ELSE IF queue[c] # <<>> THEN queue[c][1][2] ELSE 0]

FeedState ==
    [c \in Conns |-> IF ws[c] = "new" THEN "off"
                     ELSE IF c \notin ToSet(active) THEN "ended"
                     ELSE IF Refused(c) THEN "refused" ELSE "open"]

Feed == INSTANCE RoomFeed WITH seen <- FeedSeen, state <- FeedState

\* Queues, writers and evictions together feed every connection as RoomFeed
\* says: after its snapshot it is shown every message once and in order, even
\* while others are evicted, replaced, kicked and disconnected.
FeedSpec == Feed!Spec

\* A connection that is behind is shown what it misses, however slow or dead
\* the others are, unless it ends or is refused a frame.
FeedCatchesUp ==
    \A c \in Conns : \A n \in 1..MaxSent : Feed!CatchesUp(c, n)

\* A wedged peer is evicted in the end, also when the broadcast that found it
\* is held up closing others before it.
WedgedEvicted == \A c \in Conns : Feed!RefusedEnds(c)

\* No peer is left with an open socket that nothing will be sent on: a socket
\* taken out of the dictionary is closed.  (Not if its user has another one:
\* connect leaves a replaced socket to its peer.)
NoneLeftSilent ==
    \A c \in Conns :
        (\A d \in Conns \ {c} : UserOf[d] # UserOf[c]) =>
            (ws[c] = "open" /\ c \notin ToSet(active)) ~> (ws[c] = "closed")

\* managers.py:19-21: a peer that overflows is closed rather than fed a stream
\* with gaps.
NoGaps ==
    [][\A c \in Conns :
           shown[c] >= 0 => shown'[c] \in {shown[c], shown[c] + 1}]_vars
=============================================================================
