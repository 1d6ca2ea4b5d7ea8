---------------------------- MODULE OperatorInbox ----------------------------
(***************************************************************************)
(* The operator daemon's inbox (src/cmd_chat/operator/bridge.py), the      *)
(* command line that starts daemons and reads from them through a socket   *)
(* (__main__.py, session.py, cli_client.py), and a harness that reads on   *)
(* behalf of a model (harness.py, codeact.py).                             *)
(*                                                                         *)
(* All of it belongs to one session: one socket path, one file with the    *)
(* read cursor, one name in the room.  A daemon that is started again is   *)
(* another member of Daemons; each numbers its events from 1 and keeps the *)
(* last EVENTS_MAX of them.  An event is its number.                       *)
(***************************************************************************)
EXTENDS Naturals, Sequences, SequencesExt, FiniteSetsExt

CONSTANTS
    Daemons,    \* processes `serve` may become
    Cli,        \* `read` commands that may be running at once
    Harnesses,  \* model-driven readers, each with a cursor of its own
    EVENTS_MAX, \* OperatorBridge.MAX_EVENTS
    MaxSeq,     \* bound: how many events each daemon emits
    Nobody

Readers == Cli \cup Harnesses
Streams == {"cli"} \cup Harnesses       \* who has a cursor
Stream(r) == IF r \in Cli THEN "cli" ELSE r

VARIABLES
    life,       \* a daemon: "unborn", "spawned", "up", "stopping" or "gone"
    bound,      \* the daemon whose socket the path leads to, or Nobody
    joined,     \* daemons with a live websocket (_ws)
    backfill,   \* history messages of an init frame still to be emitted
    seeded,     \* _seeded
    seq,
    events,     \* the ring
    pc,         \* a reader: "idle", "sent", "waiting", "woken", "answered", "printed"
    from,       \* the daemon it is connected to
    since,      \* the cursor it asked from
    answer,     \* what it was answered: events, and the daemon's seq
    cursor,     \* of a stream: the cursor file, or a harness's _cursor
    shown       \* events a stream has printed or put before its model

daemonVars == <<life, bound, joined, backfill, seeded>>
readVars == <<from, since, answer, cursor, shown>>
vars == <<daemonVars, seq, events, pc, readVars>>

Numbers == 0 .. Max({MaxSeq[d] : d \in Daemons})

TypeOK ==
    /\ life \in [Daemons -> {"unborn", "spawned", "up", "stopping", "gone"}]
    /\ bound \in Daemons \cup {Nobody}
    /\ joined \in SUBSET Daemons
    /\ backfill \in [Daemons -> 0 .. 1]
    /\ seeded \in SUBSET Daemons
    /\ seq \in [Daemons -> Numbers]
    /\ \A d \in Daemons : events[d] \in Seq(Numbers) /\ Len(events[d]) <= EVENTS_MAX
    /\ pc \in [Readers -> {"idle", "sent", "waiting", "woken", "answered", "printed"}]
    /\ from \in [Readers -> Daemons \cup {Nobody}]
    /\ since \in [Readers -> Numbers]
    /\ \A r \in Readers : answer[r].new \in Seq(Numbers) /\ answer[r].seq \in Numbers
    /\ cursor \in [Streams -> Numbers]
    /\ shown \in [Streams -> SUBSET Numbers]

NoAnswer == [new |-> <<>>, seq |-> 0]

Init ==
    /\ life = [d \in Daemons |-> "unborn"]
    /\ bound = Nobody
    /\ joined = {}
    /\ backfill = [d \in Daemons |-> 0]
    /\ seeded = {}
    /\ seq = [d \in Daemons |-> 0]
    /\ events = [d \in Daemons |-> <<>>]
    /\ pc = [r \in Readers |-> "idle"]
    /\ from = [r \in Readers |-> Nobody]
    /\ since = [r \in Readers |-> 0]
    /\ answer = [r \in Readers |-> NoAnswer]
    /\ cursor = [s \in Streams |-> 0]
    /\ shown = [s \in Streams |-> {}]

Running(d) == life[d] \in {"up", "stopping"}

---------------------------------------------------------------------------
(* Emitting. *)

Trim(s) == IF Len(s) > EVENTS_MAX THEN Tail(s) ELSE s

\* Mutant of Emit: wakes one of the waiting readers.
EmitWakesOne(d) ==
    LET asleep == {r \in Readers : from[r] = d /\ pc[r] = "waiting"} IN
    /\ seq[d] < MaxSeq[d]
    /\ seq' = [seq EXCEPT ![d] = @ + 1]
    /\ events' = [events EXCEPT ![d] = Trim(Append(@, seq[d] + 1))]
    /\ IF asleep = {} THEN UNCHANGED pc
       ELSE \E r \in asleep : pc' = [pc EXCEPT ![r] = "woken"]

\* A numbered event enters the ring; everybody who waits is woken.
Emit(d) ==
    /\ seq[d] < MaxSeq[d]
    /\ seq' = [seq EXCEPT ![d] = @ + 1]
    /\ events' = [events EXCEPT ![d] = Trim(Append(@, seq[d] + 1))]
    /\ pc' = [r \in Readers |->
                 IF from[r] = d /\ pc[r] = "waiting" THEN "woken" ELSE pc[r]]

---------------------------------------------------------------------------
(* The life of a daemon. *)

\* `up` looks for a daemon that answers and is in the room; a path nobody
\* listens on is removed.  Otherwise it starts another process.
Up(d) ==
    /\ life[d] = "unborn"
    /\ bound = Nobody \/ bound \notin joined
    /\ life' = [life EXCEPT ![d] = "spawned"]
    /\ bound' = IF bound # Nobody /\ Running(bound) THEN bound ELSE Nobody
    /\ UNCHANGED <<joined, backfill, seeded, seq, events, pc>> /\ UNCHANGED readVars

\* The process gets to run_async: it takes the path, whoever holds it.
Start(d) ==
    /\ life[d] = "spawned"
    /\ life' = [life EXCEPT ![d] = "up"]
    /\ bound' = d
    /\ Emit(d)
    /\ UNCHANGED <<joined, backfill, seeded>> /\ UNCHANGED readVars

\* The room admits one member of a name.
Join(d) ==
    /\ life[d] = "up" /\ joined = {}
    /\ joined' = {d}
    /\ Emit(d)
    /\ UNCHANGED <<life, bound, backfill, seeded>> /\ UNCHANGED readVars

\* An attempt that fails is reported, and repeated after a pause.
JoinFails(d) ==
    /\ life[d] = "up" /\ d \notin joined
    /\ Emit(d)
    /\ UNCHANGED daemonVars /\ UNCHANGED readVars

Drop(d) ==
    /\ life[d] = "up" /\ d \in joined /\ backfill[d] = 0
    /\ joined' = joined \ {d}
    /\ Emit(d)
    /\ UNCHANGED <<life, bound, backfill, seeded>> /\ UNCHANGED readVars

\* The first frame after joining: the roster, and on the first joining of a
\* process the history, message by message.
OnInit(d) ==
    /\ Running(d) /\ d \in joined /\ backfill[d] = 0
    /\ \E n \in IF d \in seeded THEN {0} ELSE 0 .. 1 :
          /\ backfill' = [backfill EXCEPT ![d] = n]
          /\ seeded' = IF n = 0 THEN seeded \cup {d} ELSE seeded
    /\ Emit(d)
    /\ UNCHANGED <<life, bound, joined>> /\ UNCHANGED readVars

Backfill(d) ==
    /\ Running(d) /\ backfill[d] > 0
    /\ backfill' = [backfill EXCEPT ![d] = @ - 1]
    /\ seeded' = IF backfill[d] = 1 THEN seeded \cup {d} ELSE seeded
    /\ Emit(d)
    /\ UNCHANGED <<life, bound, joined>> /\ UNCHANGED readVars

\* A message, a roster, an access list or a sandbox status from the room.
OnFrame(d) ==
    /\ Running(d) /\ d \in joined /\ backfill[d] = 0
    /\ Emit(d)
    /\ UNCHANGED daemonVars /\ UNCHANGED readVars

\* Something said, typed or run through the socket, when it has been sent or
\* has ended.
OnRequest(d) ==
    /\ Running(d)
    /\ Emit(d)
    /\ UNCHANGED daemonVars /\ UNCHANGED readVars

\* `down` reaches the daemon the path leads to.
Down(d) ==
    /\ bound = d /\ life[d] = "up"
    /\ life' = [life EXCEPT ![d] = "stopping"]
    /\ UNCHANGED <<bound, joined, backfill, seeded, seq, events, pc>>
    /\ UNCHANGED readVars

\* The memory and the connections of a process that ends are lost with it.
Hangup(d) ==
    LET lost == {r \in Readers : from[r] = d /\ pc[r] \in {"sent", "waiting", "woken"}} IN
    /\ pc' = [r \in Readers |-> IF r \in lost THEN "idle" ELSE pc[r]]
    /\ from' = [r \in Readers |-> IF r \in lost THEN Nobody ELSE from[r]]
    /\ since' = [r \in Readers |-> IF r \in lost THEN 0 ELSE since[r]]
    /\ events' = [events EXCEPT ![d] = <<>>]
    /\ backfill' = [backfill EXCEPT ![d] = 0]
    /\ seeded' = seeded \ {d}
    /\ UNCHANGED <<seq, answer, cursor, shown>>

\* A daemon that ends in order removes the path, whoever has bound it since.
Finish(d) ==
    /\ life[d] = "stopping"
    /\ life' = [life EXCEPT ![d] = "gone"]
    /\ joined' = joined \ {d}
    /\ bound' = Nobody
    /\ Hangup(d)

\* Killed: the path stays.
Crash(d) ==
    /\ life[d] \in {"spawned", "up", "stopping"}
    /\ life' = [life EXCEPT ![d] = "gone"]
    /\ joined' = joined \ {d}
    /\ Hangup(d)
    /\ UNCHANGED bound

---------------------------------------------------------------------------
(* Reading. *)

\* The cursor is read first, then the socket is called.
Read(r) ==
    /\ pc[r] = "idle"
    /\ bound # Nobody /\ Running(bound)
    /\ pc' = [pc EXCEPT ![r] = "sent"]
    /\ from' = [from EXCEPT ![r] = bound]
    /\ since' = [since EXCEPT ![r] = cursor[Stream(r)]]
    /\ UNCHANGED daemonVars /\ UNCHANGED <<seq, events, answer, cursor, shown>>

\* What a ring, which ascends, holds past a cursor.
After(ring, n) ==
    LET first == CHOOSE k \in 1 .. Len(ring) + 1 :
                     /\ \A i \in 1 .. k - 1 : ring[i] <= n
                     /\ k <= Len(ring) => ring[k] > n
    IN  SubSeq(ring, first, Len(ring))

New(r) == After(events[from[r]], since[r])

Answered(r) ==
    /\ pc' = [pc EXCEPT ![r] = "answered"]
    /\ answer' = [answer EXCEPT ![r] = [new |-> New(r), seq |-> seq[from[r]]]]
    /\ UNCHANGED daemonVars /\ UNCHANGED <<seq, events, from, since, cursor, shown>>

\* The daemon takes the request: it answers, or has the reader wait.
Serve(r, wait) ==
    /\ pc[r] = "sent"
    /\ IF New(r) = <<>> /\ wait
       THEN /\ pc' = [pc EXCEPT ![r] = "waiting"]
            /\ UNCHANGED daemonVars /\ UNCHANGED <<seq, events>> /\ UNCHANGED readVars
       ELSE Answered(r)

\* A reader that was woken, or has waited long enough, looks again.
Resume(r) == pc[r] \in {"waiting", "woken"} /\ Answered(r)

\* The reader is back, and what it held is forgotten.
Back(r) ==
    /\ pc' = [pc EXCEPT ![r] = "idle"]
    /\ from' = [from EXCEPT ![r] = Nobody]
    /\ since' = [since EXCEPT ![r] = 0]
    /\ answer' = [answer EXCEPT ![r] = NoAnswer]
    /\ UNCHANGED daemonVars /\ UNCHANGED <<seq, events>>

\* A command prints its events and then moves the cursor file past them.
PrintOut(r) ==
    /\ r \in Cli /\ pc[r] = "answered"
    /\ shown' = [shown EXCEPT !["cli"] = @ \cup ToSet(answer[r].new)]
    /\ pc' = [pc EXCEPT ![r] = "printed"]
    /\ UNCHANGED daemonVars /\ UNCHANGED <<seq, events, from, since, answer, cursor>>

Save(r) ==
    /\ pc[r] = "printed"
    /\ cursor' = [cursor EXCEPT !["cli"] =
                      IF answer[r].new = <<>> THEN @ ELSE Last(answer[r].new)]
    /\ Back(r) /\ UNCHANGED shown

\* A harness puts them before its model and moves its cursor in one go; an
\* empty answer moves it to the daemon's seq.
Observe(r) ==
    /\ r \in Harnesses /\ pc[r] = "answered"
    /\ shown' = [shown EXCEPT ![r] = @ \cup ToSet(answer[r].new)]
    /\ cursor' = [cursor EXCEPT ![r] =
                      IF answer[r].new # <<>> THEN Last(answer[r].new)
                      ELSE Max({@, answer[r].seq})]
    /\ Back(r)

\* A reader is interrupted, or its own timeout runs out first.
ReaderDies(r) ==
    /\ pc[r] # "idle"
    /\ Back(r) /\ UNCHANGED <<cursor, shown>>

Next ==
    \/ \E d \in Daemons :
          \/ Up(d) \/ Start(d) \/ Join(d) \/ JoinFails(d) \/ Drop(d)
          \/ OnInit(d) \/ Backfill(d) \/ OnFrame(d) \/ OnRequest(d)
          \/ Down(d) \/ Finish(d) \/ Crash(d)
    \/ \E r \in Readers :
          \/ Read(r) \/ Serve(r, TRUE) \/ Serve(r, FALSE) \/ Resume(r)
          \/ PrintOut(r) \/ Save(r) \/ Observe(r) \/ ReaderDies(r)

Spec == Init /\ [][Next]_vars

---------------------------------------------------------------------------
(* Properties. *)

\* Nobody sleeps on an event: a reader that waits and has not been woken has
\* seen everything in its daemon's ring, however emissions, timeouts and other
\* readers fall (bridge.py:94-107, 359-371).
NoMissedWakeup == \A r \in Readers :
    pc[r] = "waiting" => \A n \in ToSet(events[from[r]]) : n <= since[r]

\* While one daemon has served the session, what a cursor has passed was shown,
\* unless it fell out of the ring first: readers that share a cursor file,
\* overlap and die lose nothing (session.py:85-93, __main__.py:336-353,
\* harness.py:287-296).
NothingSkipped == \A d \in Daemons :
    (\A e \in Daemons : seq[e] > 0 <=> e = d) =>
        \A s \in Streams : \A n \in 1 .. cursor[s] :
            n \in shown[s] \/ n + EVENTS_MAX <= seq[d]
=============================================================================
