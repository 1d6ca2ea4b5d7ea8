----------------------------- MODULE WebStream -----------------------------
(***************************************************************************)
(* The screen of a sandbox on its way to the browsers that watch a web     *)
(* room: the publisher's buffer, queue and numbering (publisher.py), the   *)
(* relay's ring, snapshot and viewer queues (rooms.py, app.py), and what a *)
(* browser draws, and says it missed (room.html).                          *)
(*                                                                         *)
(* The n-th change of the screen is called event n.  A frame [kind, seq,   *)
(* pt] carries the screen's output up to event pt: an "out" frame what is  *)
(* new in it, a "snapshot" all that is still on the screen.  Only "out"    *)
(* frames are numbered; a snapshot's seq is the number it has caught up    *)
(* with.  Cipher, dimensions, chat and files are left out.                 *)
(*                                                                         *)
(* What the sender of a viewer has sent is on the browser's write chain    *)
(* (writeChain): a frame lost on the way to the browser and one still in   *)
(* its queue when the socket fails are the same to both ends.              *)
(***************************************************************************)
EXTENDS Naturals, Sequences, SequencesExt

CONSTANTS
    Viewers,    \* browsers, each with one page
    OutMax,     \* maxsize of the publisher's _out_q
    RingMax,    \* frames the relay's ring holds
    QueueMax,   \* VIEWER_QUEUE_MAX
    MaxEvents,  \* bound: changes of the screen
    MaxMints,   \* bound: snapshots
    MaxCuts,    \* bound: publisher connections lost
    MaxFlaps,   \* bound: browser sockets lost
    MaxRooms,   \* bound: rooms registered
    NULL, RESYNC

ASSUME WebStreamAssumption ==
    /\ {OutMax, RingMax, QueueMax, MaxRooms} \subseteq Nat \ {0}
    /\ {MaxEvents, MaxMints, MaxCuts, MaxFlaps} \subseteq Nat
    /\ NULL # RESYNC

VARIABLES
    events,     \* changes of the screen so far
    live,       \* _sbx_live
    pending,    \* is anything in _pending?
    screen,     \* is anything in _screen?
    outq,       \* _out_q
    sent,       \* sent[n]: pt of the frame numbered n; _seq is its length
    up,         \* is the publisher connected?
    link,       \* what it has sent on this connection and the relay not read
    oldLink,    \* the same, of the connection before
    ring,       \* Room.ring
    snapshot,   \* Room.snapshot, or NULL
    last_seq,   \* Room.last_seq
    conn,       \* a browser's socket: "off", "hello", "on"
    asked,      \* the last_seq its hello gave, 0 for null
    queue,      \* Viewer.queue: what each entry makes the browser apply, or RESYNC
    chain,      \* writeChain: frames the browser has yet to apply
    lastSeq,    \* a browser's lastSeq
    gapWarned,  \* a browser's gapWarned
    drawn,      \* history: numbers drawn since the last reset
    warned,     \* history: numbers reported missing since the last reset
    base,       \* history: pt of the snapshot the picture rests on, or NULL
    first,      \* history: number drawn while lastSeq was 0, or 0
    recorded,   \* history: numbers the relay has recorded
    gone,       \* history: numbers it skipped, or has evicted
    stamped,    \* history: the highest number it gave a snapshot that had none
    lapsed,     \* history: numbers a snapshot had reached, and the next had not
    mints, cuts, flaps, rooms

publisherVars == <<events, live, pending, screen, outq, sent>>
linkVars      == <<up, link, oldLink>>
relayVars     == <<ring, snapshot, last_seq, recorded, gone, stamped, lapsed>>
socketVars    == <<conn, asked, queue>>
pageVars      == <<lastSeq, gapWarned, drawn, warned, base, first>>
vars == <<publisherVars, linkVars, relayVars, socketVars, chain, pageVars,
          mints, cuts, flaps, rooms>>

Frame  == [kind: {"out", "snapshot"}, seq: Nat, pt: Nat]
Nums   == 1..Len(sent)

\* No screen, and no mark of a viewer's queue, is taken for a frame.
ASSUME WebStreamMarks == NULL \notin Frame \cup Nat /\ RESYNC \notin Seq(Frame)

TypeOK ==
    /\ events \in Nat /\ sent \in Seq(Nat)
    /\ {live, pending, screen, up} \subseteq BOOLEAN
    /\ outq \in Seq(Frame) /\ Len(outq) <= OutMax
    /\ link \in Seq(Frame) /\ oldLink \in Seq(Frame)
    /\ ring \in Seq(Frame) /\ Len(ring) <= RingMax
    /\ snapshot \in Frame \cup {NULL}
    /\ last_seq \in Nat
    /\ conn \in [Viewers -> {"off", "hello", "on"}]
    /\ asked \in [Viewers -> Nat]
    /\ queue \in [Viewers -> Seq(Seq(Frame) \cup {RESYNC})]
    /\ \A v \in Viewers : Len(queue[v]) <= QueueMax
    /\ chain \in [Viewers -> Seq(Frame)]
    /\ lastSeq \in [Viewers -> Nat] /\ gapWarned \in [Viewers -> Nat]
    /\ drawn \in [Viewers -> SUBSET Nums] /\ warned \in [Viewers -> SUBSET Nums]
    /\ base \in [Viewers -> Nat \cup {NULL}] /\ first \in [Viewers -> Nat]
    /\ recorded \subseteq Nums /\ gone \subseteq Nums /\ lapsed \subseteq Nums
    /\ stamped \in Nat
    /\ mints \in 0..MaxMints /\ cuts \in 0..MaxCuts
    /\ flaps \in 0..MaxFlaps /\ rooms \in 1..MaxRooms

-----------------------------------------------------------------------------
(* The publisher.                                                          *)

\* _enqueue: a full queue loses its oldest frame.
Enqueued(f) == Append(IF Len(outq) < OutMax THEN outq ELSE Tail(outq), f)

\* An "out" frame has no number before it leaves the queue.
Unnumbered(n) == [kind |-> "out", seq |-> 0, pt |-> n]

\* _sbx data: output of the sandbox, which is proof that there is one.
Data ==
    /\ events < MaxEvents
    /\ events' = events + 1
    /\ live' = TRUE /\ pending' = TRUE /\ screen' = TRUE
    /\ UNCHANGED <<outq, sent, linkVars, relayVars, socketVars, chain, pageVars,
                   mints, cuts, flaps, rooms>>

\* _sbx status "ready": the tail of the sandbox before is discarded.
Ready ==
    /\ ~live
    /\ live' = TRUE /\ pending' = FALSE /\ screen' = FALSE
    /\ UNCHANGED <<events, outq, sent, linkVars, relayVars, socketVars, chain,
                   pageVars, mints, cuts, flaps, rooms>>

\* _sbx status "stopped": those who watch are shown the idle notice.
Stopped ==
    /\ live /\ events < MaxEvents
    /\ live' = FALSE /\ pending' = FALSE /\ screen' = FALSE
    /\ events' = events + 1
    /\ outq' = Enqueued(Unnumbered(events + 1))
    /\ UNCHANGED <<sent, linkVars, relayVars, socketVars, chain, pageVars,
                   mints, cuts, flaps, rooms>>

\* _coalesce_loop.
Coalesce ==
    /\ pending
    /\ pending' = FALSE
    /\ outq' = Enqueued(Unnumbered(events))
    /\ UNCHANGED <<events, live, screen, sent, linkVars, relayVars, socketVars,
                   chain, pageVars, mints, cuts, flaps, rooms>>

\* _snapshot_loop: the idle notice, or the tail of the screen if there is any.
Mint ==
    /\ mints < MaxMints
    /\ ~live \/ screen
    /\ outq' = Enqueued([kind |-> "snapshot", seq |-> Len(sent), pt |-> events])
    /\ mints' = mints + 1
    /\ UNCHANGED <<events, live, pending, screen, sent, linkVars, relayVars,
                   socketVars, chain, pageVars, cuts, flaps, rooms>>

\* _drain_to_relay: an "out" frame is numbered now; a snapshot minted before
\* anything was numbered takes the number of now.
Numbered(f) ==
    IF f.kind = "out" THEN [f EXCEPT !.seq = Len(sent) + 1]
    ELSE [f EXCEPT !.seq = IF @ = 0 THEN Len(sent) ELSE @]

Drain ==
    /\ up /\ outq # <<>>
    /\ LET f == Numbered(Head(outq)) IN
       /\ link' = Append(link, f)
       /\ sent' = IF f.kind = "out" THEN Append(sent, f.pt) ELSE sent
    /\ outq' = Tail(outq)
    /\ UNCHANGED <<events, live, pending, screen, up, oldLink, relayVars,
                   socketVars, chain, pageVars, mints, cuts, flaps, rooms>>
\* The connection fails: what the relay has not read is lost from some point
\* on, the frame just taken from the queue included.  (What an earlier
\* connection left behind is lost for good.)
Cut ==
    /\ up /\ cuts < MaxCuts
    /\ up' = FALSE
    /\ \E n \in 0..Len(link) : oldLink' = SubSeq(link, 1, n)
    /\ link' = <<>>
    /\ cuts' = cuts + 1
    /\ UNCHANGED <<publisherVars, relayVars, socketVars, chain, pageVars,
                   mints, flaps, rooms>>

Connect ==
    /\ ~up
    /\ up' = TRUE
    /\ UNCHANGED <<publisherVars, link, oldLink, relayVars, socketVars, chain,
                   pageVars, mints, cuts, flaps, rooms>>

\* _reprovision: the relay has no such room any more (it was reaped, ended, or
\* the relay restarted).  A new one is registered and browsers open the new
\* link; the queue and the numbers go on.
Reprovision ==
    /\ ~up /\ rooms < MaxRooms
    /\ rooms' = rooms + 1
    /\ oldLink' = <<>>
    /\ ring' = <<>> /\ snapshot' = NULL /\ last_seq' = 0
    /\ recorded' = {} /\ gone' = {} /\ stamped' = 0 /\ lapsed' = {}
    /\ conn' = [v \in Viewers |-> "off"]
    /\ asked' = [v \in Viewers |-> 0]
    /\ queue' = [v \in Viewers |-> <<>>]
    /\ chain' = [v \in Viewers |-> <<>>]
    /\ lastSeq' = [v \in Viewers |-> 0] /\ gapWarned' = [v \in Viewers |-> 0]
    /\ drawn' = [v \in Viewers |-> {}] /\ warned' = [v \in Viewers |-> {}]
    /\ base' = [v \in Viewers |-> NULL] /\ first' = [v \in Viewers |-> 0]
    /\ UNCHANGED <<publisherVars, up, link, mints, cuts, flaps>>

-----------------------------------------------------------------------------
(* The relay.                                                              *)

Numbers(frames) == {frames[i].seq : i \in DOMAIN frames}

\* record_out: the oldest frames make room.
Recorded(f) ==
    LET longer == Append(ring, f) IN
    IF Len(longer) > RingMax THEN Tail(longer) ELSE longer

record_out(f) ==
    /\ last_seq' = f.seq
    /\ ring' = Recorded(f)
    /\ recorded' = recorded \cup {f.seq}
    /\ gone' = gone \cup {n \in 1..f.seq : n \notin recorded' /\ n # f.seq}
                    \cup (Numbers(ring) \ Numbers(ring'))

\* Mutant of Fanned: the backlog is dropped and nothing asks for a sync.
FannedForget(v, f) ==
    IF conn[v] # "on" THEN queue[v]
    ELSE IF Len(queue[v]) < QueueMax THEN Append(queue[v], <<f>>)
    ELSE <<>>

\* _fanout: a viewer whose queue is full loses its backlog for one RESYNC.
Fanned(v, f) ==
    IF conn[v] # "on" THEN queue[v]
    ELSE IF Len(queue[v]) < QueueMax THEN Append(queue[v], <<f>>)
    ELSE <<RESYNC>>

\* publish_ws, one message of either connection: both are read until they
\* fail, whichever of them the room's publisher is.
Receive(f) ==
    IF f.kind = "out"
    THEN /\ record_out(f)
         /\ queue' = [v \in Viewers |-> Fanned(v, f)]
         /\ UNCHANGED <<snapshot, stamped, lapsed>>
    ELSE /\ snapshot' = [f EXCEPT !.seq = IF @ = 0 THEN last_seq ELSE @]
         /\ stamped' = IF f.seq = 0 /\ last_seq > stamped THEN last_seq ELSE stamped
         /\ lapsed' = IF snapshot = NULL THEN lapsed
                      ELSE lapsed \cup (snapshot'.seq + 1 .. snapshot.seq)
         /\ UNCHANGED <<ring, last_seq, recorded, gone, queue>>

Recv ==
    /\ link # <<>>
    /\ Receive(Head(link))
    /\ link' = Tail(link)
    /\ UNCHANGED <<publisherVars, up, oldLink, conn, asked, chain, pageVars,
                   mints, cuts, flaps, rooms>>

RecvOld ==
    /\ oldLink # <<>>
    /\ Receive(Head(oldLink))
    /\ oldLink' = Tail(oldLink)
    /\ UNCHANGED <<publisherVars, up, link, conn, asked, chain, pageVars,
                   mints, cuts, flaps, rooms>>

\* The frames of the ring that are numbered above n, in the ring's order.
RingAfter(n) ==
    LET later == {i \in DOMAIN ring : ring[i].seq > n}
        order == CHOOSE o \in UNION {[1 .. m -> later] : m \in 0 .. Len(ring)} :
                     /\ \A i \in later : \E k \in DOMAIN o : o[k] = i
                     /\ \A j, k \in DOMAIN o : j < k => o[j] < o[k]
    IN  [k \in DOMAIN order |-> ring[order[k]]]

\* Mutant of SyncPayload: the ring is not cut at the snapshot's number but
\* one later.
SyncPayloadSkips ==
    IF snapshot = NULL THEN ring ELSE <<snapshot>> \o RingAfter(snapshot.seq + 1)

\* sync_payload: the snapshot and what the ring holds after it.
SyncPayload ==
    IF snapshot = NULL THEN ring ELSE <<snapshot>> \o RingAfter(snapshot.seq)

\* can_resume, for a browser that gave a last_seq.
CanResume(n) ==
    \/ n = last_seq
    \/ ring # <<>> /\ n + 1 >= Head(ring).seq

\* subscribe_ws: a resume and its delta if that fits the queue, else a sync.
Subscribe(v) ==
    /\ conn[v] = "hello"
    /\ conn' = [conn EXCEPT ![v] = "on"]
    /\ LET n     == asked[v]
           delta == RingAfter(n) IN
       queue' = [queue EXCEPT ![v] =
           IF n > 0 /\ CanResume(n) /\ Len(delta) < QueueMax - 1
           THEN <<(<<>>)>> \o [i \in DOMAIN delta |-> <<delta[i]>>]
           ELSE <<SyncPayload>>]
    /\ asked' = [asked EXCEPT ![v] = 0]
    /\ UNCHANGED <<publisherVars, linkVars, relayVars, chain, pageVars,
                   mints, cuts, flaps, rooms>>

\* _viewer_sender: a RESYNC becomes the sync of the moment it is sent.
Send(v) ==
    /\ conn[v] = "on" /\ queue[v] # <<>>
    /\ LET item == Head(queue[v]) IN
       chain' = [chain EXCEPT ![v] =
                    @ \o (IF item = RESYNC THEN SyncPayload ELSE item)]
    /\ queue' = [queue EXCEPT ![v] = Tail(@)]
    /\ UNCHANGED <<publisherVars, linkVars, relayVars, conn, asked, pageVars,
                   mints, cuts, flaps, rooms>>

-----------------------------------------------------------------------------
(* The browser.                                                            *)

\* connect, onopen: the hello says how far the page has drawn by now.
Hello(v) ==
    /\ conn[v] = "off"
    /\ conn' = [conn EXCEPT ![v] = "hello"]
    /\ asked' = [asked EXCEPT ![v] = lastSeq[v]]
    /\ UNCHANGED <<publisherVars, linkVars, relayVars, queue, chain, pageVars,
                   mints, cuts, flaps, rooms>>

\* The socket fails.  What has reached the page is still applied.
Flap(v) ==
    /\ conn[v] # "off" /\ flaps < MaxFlaps
    /\ conn' = [conn EXCEPT ![v] = "off"]
    /\ asked' = [asked EXCEPT ![v] = 0]
    /\ queue' = [queue EXCEPT ![v] = <<>>]
    /\ flaps' = flaps + 1
    /\ UNCHANGED <<publisherVars, linkVars, relayVars, chain, pageVars,
                   mints, cuts, rooms>>

\* Mutant of DrawSnapshot: lastSeq is kept when it is the greater.
DrawSnapshotKeepsSeq(v, f) ==
    /\ lastSeq' = [lastSeq EXCEPT ![v] = IF f.seq > @ THEN f.seq ELSE @]
    /\ gapWarned' = [gapWarned EXCEPT ![v] = 0]
    /\ drawn' = [drawn EXCEPT ![v] = {}]
    /\ warned' = [warned EXCEPT ![v] = {}]
    /\ base' = [base EXCEPT ![v] = f.pt]
    /\ first' = [first EXCEPT ![v] = 0]

\* applySync: the screen is reset and drawn from the snapshot.
DrawSnapshot(v, f) ==
    /\ lastSeq' = [lastSeq EXCEPT ![v] = f.seq]
    /\ gapWarned' = [gapWarned EXCEPT ![v] = 0]
    /\ drawn' = [drawn EXCEPT ![v] = {}]
    /\ warned' = [warned EXCEPT ![v] = {}]
    /\ base' = [base EXCEPT ![v] = f.pt]
    /\ first' = [first EXCEPT ![v] = 0]

\* noteGap: the numbers the page says never arrived, when it draws frame n.
NotedGap(v, n) ==
    IF lastSeq[v] = 0 \/ gapWarned[v] = n THEN {} ELSE (lastSeq[v] + 1)..(n - 1)

\* applyOut, applyOutBinary: a number that is not new is not drawn.
DrawOut(v, f) ==
    IF f.seq <= lastSeq[v] THEN UNCHANGED pageVars
    ELSE LET gap == NotedGap(v, f.seq) IN
         /\ lastSeq' = [lastSeq EXCEPT ![v] = f.seq]
         /\ gapWarned' = [gapWarned EXCEPT ![v] = IF gap = {} THEN @ ELSE f.seq]
         /\ drawn' = [drawn EXCEPT ![v] = @ \cup {f.seq}]
         /\ warned' = [warned EXCEPT ![v] = @ \cup gap]
         /\ first' = [first EXCEPT ![v] = IF lastSeq[v] = 0 THEN f.seq ELSE @]
         /\ UNCHANGED base

Apply(v) ==
    /\ chain[v] # <<>>
    /\ LET f == Head(chain[v]) IN
       IF f.kind = "snapshot" THEN DrawSnapshot(v, f) ELSE DrawOut(v, f)
    /\ chain' = [chain EXCEPT ![v] = Tail(@)]
    /\ UNCHANGED <<publisherVars, linkVars, relayVars, socketVars,
                   mints, cuts, flaps, rooms>>

-----------------------------------------------------------------------------
Init ==
    /\ events = 0 /\ live = FALSE /\ pending = FALSE /\ screen = FALSE
    /\ outq = <<>> /\ sent = <<>>
    /\ up = FALSE /\ link = <<>> /\ oldLink = <<>>
    /\ ring = <<>> /\ snapshot = NULL /\ last_seq = 0
    /\ conn = [v \in Viewers |-> "off"]
    /\ asked = [v \in Viewers |-> 0]
    /\ queue = [v \in Viewers |-> <<>>]
    /\ chain = [v \in Viewers |-> <<>>]
    /\ lastSeq = [v \in Viewers |-> 0] /\ gapWarned = [v \in Viewers |-> 0]
    /\ drawn = [v \in Viewers |-> {}] /\ warned = [v \in Viewers |-> {}]
    /\ base = [v \in Viewers |-> NULL] /\ first = [v \in Viewers |-> 0]
    /\ recorded = {} /\ gone = {} /\ stamped = 0 /\ lapsed = {}
    /\ mints = 0 /\ cuts = 0 /\ flaps = 0 /\ rooms = 1

Next ==
    \/ Data \/ Ready \/ Stopped \/ Coalesce \/ Mint \/ Drain
    \/ Cut \/ Connect \/ Reprovision
    \/ Recv \/ RecvOld
    \/ \E v \in Viewers : \/ Subscribe(v) \/ Send(v)
                          \/ Hello(v) \/ Flap(v) \/ Apply(v)

\* Every loop goes on as long as it has something to do, and both ends dial
\* again after a loss.  Nothing makes a sandbox speak, and a lost connection
\* need not be read to its end.
Fairness ==
    /\ WF_vars(Coalesce) /\ WF_vars(Drain) /\ WF_vars(Connect) /\ WF_vars(Recv)
    /\ \A v \in Viewers : /\ WF_vars(Hello(v)) /\ WF_vars(Subscribe(v))
                          /\ WF_vars(Send(v)) /\ WF_vars(Apply(v))

Spec == Init /\ [][Next]_vars /\ Fairness

-----------------------------------------------------------------------------
(* Properties.                                                             *)

\* A picture that rests on a snapshot misses nothing in silence: whatever was
\* numbered up to the frame it shows was drawn, was reported missing, or is in
\* the snapshot ("a joiner may re-apply a few frames, never miss any").  Two
\* cases are excepted: the page reports nothing while lastSeq is 0, and a
\* snapshot numbered 0 that comes late over an older connection is given the
\* relay's last number, though it is behind it.
NothingMissedInSilence ==
    \A v \in Viewers : base[v] # NULL =>
        \A n \in 1..lastSeq[v] :
            \/ n \in drawn[v] \cup warned[v]
            \/ sent[n] <= base[v]
            \/ n < first[v] \/ n <= stamped

\* What a page reports missing the relay has really skipped or evicted: queues
\* that overflow, reconnections and resumes never make it report a frame that
\* was there to be had.  One case is excepted: a page asks by what it has drawn,
\* though a sync it has still to draw may go back to a lower snapshot, which
\* came late over an older connection.
NoFalseGap == \A v \in Viewers : warned[v] \subseteq gone \cup lapsed

\* A browser that keeps up or falls behind, drops and comes back ends up with
\* all the relay holds: when things settle no frame of the ring is ahead of it.
ViewersCatchUp ==
    <>[](\A v \in Viewers : \A n \in Numbers(ring) : n <= lastSeq[v])
=============================================================================
