# hack-house in TLA+

hack-house is an end-to-end encrypted terminal chat. A Python server (Sanic)
seats people who prove that they know the room's password; a Rust TUI is the
usual client. A member can share a sandbox, let an AI agent or an operator drive
it, send files, bring a device into the room, and publish the screen to browsers
through a relay on the web. This directory models the control of those programs,
checks it with TLC and proves parts of it with TLAPS. Paths below are relative to
`src/`.

The server, the relay, the publisher, the agent, the operator and the device
bridge are each one asyncio event loop. A coroutine gives the loop up only where
it really waits, so an action of a model is what a handler does between two such
points, and every order of such steps is explored. (Awaiting a lock whose holders
never await inside it does not wait: `managers.py` is the example. A write to an
open websocket is a point where others run, where the order of what they do can
be told apart.) What runs in a thread or in another process, an engine call or a
system call, is a step of its own.

## 1. Inventory

| part | state it keeps | operations | talks to | modules |
|---|---|---|---|---|
| **chat server** `cmd_chat/server/views.py`, `factory.py`, `stores.py`, `srp_auth.py`, `models.py` | open handshakes and the password, the session store (seats and names), the message backlog, the host | `srp_init`, `srp_verify`, `chat_ws` (join, relay, leave), `/kick` with re-key, `/clear`, stale sweeps | clients over HTTP and websockets, the connection manager by call | `ChatRoom` |
| **connection manager** `cmd_chat/server/managers.py` | live connections, a bounded queue and a writer task for each | `connect`, `disconnect`, `broadcast`, `send_to`, `send_personal`, `kick`, `deliver_and_close` | called by all `chat_ws` handlers at once, writes to the sockets | `ConnManager`, `RoomFeed` |
| **web relay: rooms** `web-relay/relay/app.py`, `rooms.py` | rooms, viewers, client ids, publisher slot, driver badge, grace timers | `subscribe_ws`, `publish_ws`, `_grace_evict`, `end_room`, idle reaper | browsers, publisher, host console | `WebRoom` |
| **web relay: stream** `rooms.py`, `app.py` | ring of output frames, last snapshot, a queue for each viewer | `record_out`, `_fanout`, resume and resync, routing of input, chat, files | the same | `WebStream` |
| web relay: limits `limits.py` | sliding windows, PIN failures, rooms of each source | `allow`, `record_failure`, lockout, creation and refund of rooms | the handlers | `RelayLimits` |
| web relay: secret `provisioning.py` | a file shared by the relays and publishers of a machine | create, read, fall back | the file system | `Provisioning` |
| **web publisher** `cmd_chat/web/publisher.py` | screen, output queue and numbering; the two gates of drive; guests; offers and uploads; room, key and share file | stream, snapshot, grant and approve, forward input, names and presence, file delivery, re-provision, reconnect | chat server (as a member), relay | `WebStream`, `WebDrive`, `WebGuests`, `WebDownloads`, `WebUploads`, `WebShare` |
| browser pages `web-relay/static/` | last number seen, gap state, own upload | resume, resync, drive, upload, answer offers | relay | the same |
| clients and files `cmd_chat/client/client.py`, `hh/src/ft.rs`, `app.rs` | offers, partial files | offer, accept, chunk, verify | other members through the room | `FileTransfer` |
| **AI agent** `cmd_chat/agent/bridge.py` | query lists, held prompts, pending plan, mirror of grants; a task's messages, work set and budgets | serve frames, hold and approve, drive, native tool loop | chat server (as a member), models, sandbox | `AgentBridge`, `NativeLoop`, `AgentContext` |
| **operator** `cmd_chat/operator/` | event ring, waiting readers, cursor on disk, containers, spawn budget | collect, read with wait, reconnect, launch and sweep, spawn, let a model act | chat server, local readers, container engine | `OperatorInbox`, `OperatorSandbox`, `OperatorHarness`, `SpawnTree` |
| operator egress `egress.py`, `egress_gw.py`, `scripts/hh-sbx-egress.py` | gateway containers and their rules | raise, route, refuse, tear down | container engine | `EgressGateway` |
| device bridge `cmd_chat/device/` | owner, drivers, arm flag and timer, port lock, one shell | arm, verbs, shell, presence probe | chat server, a serial device | `DeviceBridge` |
| TUI client `hh/src/app.rs`, `net.rs`, `sbx.rs`, `registry.rs` | keys, roster, pending re-key, the running sandbox and its access list, saved VMs | `apply` on each frame, re-key, reconnect, summon, grant | chat server, engines, the file system | `SbxDrive`, `RegistryLock` |
| the rest | see PROJECT.json | start-up, rendering, themes, music, cards, scripts, onion service | | |

What is hard, and what has to hold:

- *Chat server.* A kick is a loop of some dozens of suspensions in which people
  join, leave, verify and kick again. No member may be left in the room with an
  old key; seats never exceed the capacity; a seat and a name are freed however a
  handler ends; everybody ends up with one roster and one host.
- *Connection manager.* One peer that does not read must hold up nobody else.
  Every connection is shown each message once and in order, starting from its
  snapshot, or is closed; the direct frames of a kick are the last a socket gets.
- *Relay rooms.* Browsers flap: a socket that comes back supersedes one whose
  handler, sender and grace timer are still running. A place and its drive
  survive the flap, a place that is really lost is freed, the cap holds, and a
  room is not taken away under its publisher.
- *Stream.* Numbering, dropping, snapshots, a ring and resumption have to add up
  to the same screen with no gap or repetition that is not reported.
- *Drive.* Input reaches a sandbox only from the granted and approved viewer,
  across lost frames and reconnects; the badge shown is the power in force.
- *Guests and their files.* A name that overtakes an announcement, a number that
  must never mean another guest, one accepted offer for many browsers, an upload
  loop that outlives its upload.
- *Limits and secrets.* Guesses already under way when a lock falls; windows at
  their edges; processes that create one file at the same time, and crash.
- *Files.* Several receivers, several senders, files that change under a stream.
- *Agent.* Authority read before a task that lasts minutes; prompts held for
  approval; a model that loops; a context that must fit.
- *Operator.* A reader that must not sleep on an event; cursors shared between
  processes; containers and gateways that share names; calls that fail half-way.
- *Device.* An arm flag with timers racing its commands; a shell that dies while
  it is being opened or closed.
- *TUI.* Every client has a copy of the access list and takes over each that is
  broadcast, its own included; processes that share one file and may die in it.

PROJECT.json lists these at their lines as `hazards`, with the properties that
cover them or the reason why none does.

## 2. Modules

Every module has one action for each handler, operation or step, and the comment
before a definition says what it stands for. `MC...` modules instantiate:
`MCChatRoom`, `MCConnManager`, `MCWebRoom` and `MCWebStream` hold the people,
sockets and symmetry of the instances of one module. `MCWebRoomDrive`, `MCAgent`
and `MCMembers` explore several modules *side by side*: a variable `part` says
which of them a behaviour is about, the others rest in one initial state, and a
property of a part is the property of its module. The parts share nothing, so
this says about each exactly what a run of its own would. `MCMembers` extends
`HostMembers` and `WebMembers`, which hold the variables and instances of the
programs of a host (sandboxes, egress, device, shared sandbox, registry) and of
those around the web relay (guests, files, limits, secret, share). The
`...Proofs` modules hold what TLAPS checks (section 5).

**ChatRoom** (`cmd_chat/server` without the queues, and the clients that use it).
`sessions`, `active` and `host` are the dictionaries and the field of the same
names, dictionaries being sequences in insertion order, because the host is the
*oldest* connection. A password is the number of the rotation that made it
(`epoch`), `key[i]` the one the holder of id `i` authenticated with. `pc[i]`,
`evict[i]` and `kick[i]` are the place, and the local lists, of the `chat_ws`
handler of `i`; `sock[i]` is its websocket. `uid`, `stage` and `pw` are the client
program: which id it uses, how far its join is and which password it knows.
`SrpInit`, `SrpVerify` and `SrpVerifyRefused` are the two HTTP handlers; `OpenWs`,
`RelayFrame`, `Leave` and `Cancelled` are `chat_ws`; `KickStart` to `KickEnd` are
`_handle_kick`, one action for each send, close and removal; `DropWedged` is the
eviction a broadcast may have to wait for. Whether a queue is full is a choice
here (`Wedged`): the queues are `ConnManager`'s. A kick that holds the event loop
(`Busy`) runs to its next send before anything else happens.

**ConnManager** (`managers.py` in full, below `ChatRoom`). `active`, `queue`,
`task` and `sending` are the registry, the bounded queues and the writer of each
connection; `drop[h]` and `parting[h]` are what the call made by handler `h` still
has to close and to send. A handler is in one call at a time and otherwise calls
whatever it likes, which includes every order `views.py` produces. Message frames
carry their number, the snapshot the number of messages it shows; notices carry
nothing. **RoomFeed** is the abstract specification: a number per connection and
no queue; after the snapshot each message is shown once and in order until the
connection ends or is refused a frame, after which it is promised only that it
will be ended. `FeedSeen` and `FeedState` are the refinement mapping, and
`Feed == INSTANCE RoomFeed WITH ...` the refinement.

**WebRoom** (one room of the relay). `viewers` and `clients` are the two
dictionaries of `Room`; `viewer_id`s are named after the socket they were minted
for, since the relay never mints one twice. `vid[s]`, `cid[s]` and `pc[s]` are the
locals and the place of the `subscribe_ws` handler of a socket, `connected[s]` and
`task[s]` its `Viewer`, `prev[s]` the socket it is superseding, `grace` the
sleeping `_grace_evict` tasks. `Attach` is `new_viewer` with `attach_viewer`;
`SubHello` takes the first frame, or gives up on it after two seconds, in which
case a known browser comes in as a guest. Time is abstract: a window may end, and
the idle limit may pass (`quiet`), at any moment.

**WebStream** (the screen, from the publisher's buffer to the pages). A frame is a
number and how far the screen had got when it was made (`pt`): what output looks
like does not matter, what is missing does. `outq`, `sent` (whose length is
`_seq`), `ring`, `snapshot` and `last_seq` are the fields of the publisher and of
`Room`; `link` and `oldLink` are the present and the former publisher connection,
each read by a `publish_ws` handler of its own, so that a frame of the former may
come after one of the latter. `queue[v]` is `Viewer.queue`; `chain[v]`,
`lastSeq[v]` and `gapWarned[v]` are the page's `writeChain` and variables of those
names, and survive its socket. `Data` to `Drain` are the publisher's loops, `Cut`,
`Connect` and `Reprovision` its connection, `Receive` is `publish_ws` for the two
kinds of frames, `Subscribe` the replay part of `subscribe_ws` (who the viewer is,
is `WebRoom`'s part), `Send` is `_viewer_sender`. The ring is bounded by frames and
not by bytes; flushes of more than one chunk are flushes in a row. Variables
marked "history", here and below, record what happened and decide nothing.

**WebDrive** (`publisher.py`, who may type). `granted` is gate A, learned from the
owner's access list in the room; `approved`, the viewer id the operator pointed
at, with the identity pinned behind it, is gate B; `effective` and `badge` are the
publisher's and the relay's idea of the driver. Three channels lose frames: room
to publisher, relay to publisher, publisher to relay. A browser is its identity,
which outlives its sockets and viewer ids; keystrokes carry the counter that
`_on_input` demands to grow. Actions: the owner's frames and their `Take`, the
console's approve and revoke, joins, releases, departures with and without notice,
input and replayed input, each loss and reconnection.

**WebGuests** (names and presence). The roster the publisher keeps from what the
relay tells it, chosen names, the settle window in which a name may overtake the
announcement of a newcomer (`settling`), the number an owner types for a guest
(`alias`, with its bounded inverse), and the presence frames, which a broken room
socket swallows.

**WebDownloads** (files towards browsers). A file is an offer; `_web_offers`,
`_web_ft`, `order` and `requester` are the publisher's tables, `sent` the room
member that streams once at the first acceptance, and may stop after any number
of chunks. `ChunkIn` and `DoneIn` stream to the viewers that accepted and retain
the bytes for late ones, within two bounds; `AcceptFirst`, `AcceptEarly` and
`AcceptLate` are the three ways into a stream; `SaveVm` asks the room for the VM.

**WebUploads** (files from browsers). `uploads` is the staging table, `loops` the
asynchronous loops of the page, one for each upload it ever started: a loop that
still runs sends its chunks under the token of the *present* upload, as the page
does. Members accept or reject, slots expire, the links to relay and room drop.

**WebShare** (the life of a publisher). `run()` provisions, writes the share file,
publishes, is thrown out by the relay, asks for a new room in a thread
(`register_room`), rotates the key and writes again; the console shows links
meanwhile; interrupts end it at every await. Rooms nobody can end any more are
`stray` and belong to the idle reaper.

**RelayLimits**, **Provisioning**. Sliding windows with their sweep, standing
rooms with their refund, the PIN gate with sockets that passed it before the lock
fell, time being a counter; and the system calls (`O_EXCL` create, write, read) by
which relays and publishers of one machine settle on a secret, with crashes
between them.

**AgentBridge** (the serve loop). One frame is handled at a time, and a question
may keep the agent busy for minutes: `task` is the work it awaits, `control` the
control frames that wait meanwhile. `allowed`, `denied`, `mode`, `prompts`,
`pending` and `granted` are its fields; the room (`acl`, `sbxUp`, `online`) is
around it. **NativeLoop** is one task of its tool loop: turns, calls of a reply,
the verdict on a claim to be done, nudges, the loop detector over the work set,
the command budget. **AgentContext** holds its two pure algorithms, `Window` and
`Prune`, over every message list that can arise.

**FileTransfer** (`client.py` and its Rust twin). Members have an inbox in the
order of the server. Python and Rust members differ where the programs do: one or
several offers at once, unaddressed or addressed streams, when a receiver saves. A
file may be edited or grow after its digest was taken.

**OperatorInbox** (daemons, the socket path, readers). A daemon emits events into
a ring of `EVENTS_MAX`; `read` waits on a condition variable; command-line readers
share one cursor file, a harness keeps its own. Daemons are started twice, die,
reconnect, stop; a second start takes the path over when the first is not in the
room at that moment. **OperatorSandbox**: launches with their sweep of abandoned containers,
teardown and commands, every engine call a step, several daemons on one host,
process ids that are used again. **OperatorHarness**: the turns, nudges, token
ceiling and honesty gate of `harness.py` and `codeact.py`. **SpawnTree**: the
spawn budget down the generations.

**EgressGateway**. A launch resolves a posture, raises a gateway by the calls of
`hh-sbx-egress.py`, joins the sandbox to its network; every call may fail, time
out or be retried over what an earlier launch left; launches meet in a name.

**DeviceBridge** with the serial adapter. Every command of a member is a task;
tasks meet in the port lock (`port`), the shell (`pty`, with the relay process
behind it) and the arm flag with its timer.

**SbxDrive** (`app.rs`, the sandbox that TUI clients share). `sandbox`, `owner` and
`drivers` are fields of each client's `App`, `broker` the clients that run a
sandbox. Its commands change the client's own copy and broadcast it; `Handle` is
`apply` with what the run loop does before it for a broker; connections are lost
with what was under way, and a broker announces again to whoever comes in. `meant`
is a history: whom the broker's own commands let in. **RegistryLock**
(`registry.rs`): the steps of `acquire_lock`, `upsert` and `list_reconciled` of
several processes, a clock for the stale limit, and deaths at every step.

## 3. Runs

`pass` runs are exhaustive for their bounds.

| run | instance | shows |
|---|---|---|
| `room` | four people, three seats, one rotation, backlog of one | `TypeOK`, `NoStaleMember`, `ConnectedIsSeated`, `RosterConverges` |
| `room_lossy` | two people, two rotations, up to two wedged peers, hourly sweeps, cancelled handlers | `LeavesNothing`, `OnlyOldestRekeys`, `KickCompletes`, no deadlock |
| `room_handed` | three people, two rotations | violated: `RemainingHandedPassword` |
| `conn` | three sockets, two of them of one user, queues of one frame, two messages, one other call | `FeedSpec` |
| `conn_live` | two sockets, queues of two, three messages, one other call | `FeedCatchesUp`, `WedgedEvicted`, `NoneLeftSilent` |
| `conn_gaps` | two sockets, queues of one | violated: `NoGaps` |
| `web_room` | `WebRoom`: three sockets of one browser, one place, one publisher, one socket whose loss cancels its handler; beside it `WebDrive`: one browser that may hold two places in turn, one owner, channels of one or two frames | `TypeOK`, `ViewersBounded`, `ReclaimsOwnPlace`, `DriverPresent`, `FlapKeepsPlace`; `DriverShown`, `DrivesFromApproved` |
| `web_idle` | one browser, two publisher sockets | violated: `PublisherKeepsRoom` |
| `web_stream` | one browser, three changes of the screen, a snapshot, output queue and ring of two, viewer queue of three, the publisher and the browser each lose a socket, two rooms | `NothingMissedInSilence`, `NoFalseGap`, `ViewersCatchUp` |
| `agent` | `AgentBridge`: two people, one of them the owner, one held prompt, one waiting control frame; beside it `FileTransfer`: two Python members and a Rust one, files of one piece that may grow, one offer | `TypesOK`, `NoDeniedPrompt`, `DriveIsFresh`, `MirrorConverges`; `SavedAsOffered`, `AcceptedArrives` |
| `members` | sixteen parts, table below | `TypesOK` and one property for each subject |
| `spawn_depth` | depth one, fan-out two, four nodes | violated: `TreeStops` |

| part of `members` | instance | property |
|---|---|---|
| `WebGuests` | two viewer ids, one name, tables of one name and one number | `GuestsShown` |
| `WebDownloads` | two browsers, a file and the VM, two chunks; a retention of one chunk, so that files are too big to keep and keep each other out | `DownloadsAlike`, `BudgetsKept` |
| `WebUploads` | one guest that picks twice, two members, one slot | `UploadsInOrder` |
| `RelayLimits` | one source, two connections in a window of two, two wrong PINs, two sockets guessing, four ticks | `RatesBounded` |
| `Provisioning` | three relays, a publisher, a directory that may not be writable | `SecretsAgree` |
| `NativeLoop` | two commands, one destructive, one file; two turns of two calls, three commands in all | `BudgetsKept` |
| `OperatorHarness` | both styles, a ceiling of three units, two verbs in an action, replies of up to two units | `BudgetsKept` |
| `AgentContext` | messages of one or three tokens in both roles, ten at most, a budget of seven, a window of four | `BudgetsKept` |
| `OperatorInbox` | one instance, two parts: two daemons with two command-line readers that share the cursor, a ring of one; a harness alone, four events | `InboxSound` |
| `OperatorSandbox` | two daemons of one job each, three names | `SandboxesReclaimed` |
| `EgressGateway` | two launches that meet in one name, every posture | `EgressKept` |
| `WebShare` | three rooms, three keys | `SharesSound` |
| `DeviceBridge` | one member beside the console, two commands at a time, two shells | `DeviceGuarded` |
| `SbxDrive` | two clients and their agents, three commands, one lost connection | `TuiKept` |
| `RegistryLock` | two processes that save and one that lists, one death, three ticks and a stale limit of one | `TuiKept` |

Why these bounds are enough for what they are asked:

- Four people and three seats are the least in which somebody is refused for
  want of a seat while a host, a target of the kick and a remaining member are
  in the room. One rotation makes an old and a new key; `room_handed` and
  `room_lossy` have two, so that two kicks overlap. Ids are handed out again once
  nothing mentions them (`Fresh`), so people come and go without limit. With two
  wedged peers the list of evictions is itself cut.
- Queues of one frame overflow at once and queues of two keep a frame behind the
  one in flight; two messages are what it takes to skip one. `MaxCalls` counts
  kicks, notices and denials; the evictions that follow are not counted.
- Three sockets are a place, the one that supersedes it and the one that
  supersedes that; one place makes every newcomer a question of the cap. The
  `phone` of `web_room` also comes as a guest, which makes a second person of it.
  In `WebDrive` a second place is what it takes for an approval to be pointed at
  a place that is gone; channels of two can hold a release before an input.
- Browsers share the ring and none of them writes it, so one is enough for
  `web_stream`. Three frames overflow a queue of two (before they are numbered),
  a ring of two (after), and a viewer queue of three that still holds its first
  sync; a viewer queue of three also lets a resume carry a frame.
- In `members`, tables of one entry evict at the second; two of everything that
  races (browsers, commands, daemons, launches), three relays because the third
  reads what two that raced have left.
- `agent`: the room's owner, and one who is not; two Python receivers and a Rust
  one give an untargeted stream, addressed streams and both at once. The file of
  one piece grows by another.

The bounds that cap counters are `MaxEpoch`, `MaxWedge` (ChatRoom), `MaxSent`,
`MaxCalls`, `MaxParting` (ConnManager), `MaxEvents`, `MaxMints`, `MaxCuts`,
`MaxFlaps`, `MaxRooms` (WebStream), `MaxPlaces`, `MaxFrames`, `RoomMax`, `UpMax`
(WebDrive), `MaxPrompts`, `MaxControl`, `MaxOffers` (MCAgent) and the `Max...`,
`Picks`, `Chunks`, `LineMax`, `BackMax`, `CliSeq`, `HarnessSeq` of `MCMembers`.
`MaxUsers`, `StoreMax`, `QueueMax`, `MaxViewers`, `OutMax`, `RingMax` and the
capitalised names of `MCMembers.cfg` are limits of the program itself, made small.
Symmetry is used in `room`, which checks invariants only: `bob`, `cat` and `dan` may
be exchanged, together with their ids. Deadlock is not checked where the bounds
stop the system (rotations, messages, sockets used up); `room_lossy` checks it.

**Fairness.** `ChatRoom!FairSpec`: the event loop runs a handler that can go on,
and a send or close returns because Sanic's ping timeout fails the socket of a
peer that stopped reading. A handler whose socket is closed may still find frames
to read, finitely many, hence strong fairness for the end of its loop. Nothing is
assumed of clients, of the host or of time. `ConnManager!Fairness`: writers, the
sends and closes of a call, and the handlers of closed sockets go on.
`WebRoom!Fairness`: the same for subscribe handlers and the teardown, and grace
timers fire. No browser or publisher is assumed to come, to send or to leave.
`WebStream!Fairness`: the publisher's and the viewers' loops, the page's chain
and the redialling of both ends go on; no sandbox is assumed to speak, and a lost
connection need not be read to its end. `AgentBridge!Fairness`: the work the agent
awaits ends (its model calls and commands have timeouts), it dials again when it
is out, and the broker announces itself again, as its timer does; control frames
are read in spite of drops, hence strong fairness for both of the latter.
`FileTransfer!Fairness`: members handle what they are sent and running streams go
on; nobody has to type anything. The parts of `members` are checked for safety only.

**Sanic's cancellation** is outside `src/`. Whether the loss of a connection
cancels its handler at the await it is suspended in is a constant
(`LossCancels`), and both answers are checked.

## 4. What the properties say

*Chat server.*

- `NoStaleMember`: whoever has a seat or a connection under an old password is
  still on the list of a kick in progress. It is the purpose of `/kick`, and it
  holds because `rotate()` drops open handshakes and the list is taken in the
  same step; the mutant that keeps the handshakes breaks it.
- `ConnectedIsSeated`, `SeatsBounded`, `OnlyOldestRekeys`: seats, connections and
  authority agree. The host is a record re-derived in four places; the last says
  that only the oldest live connection ever rotates. `SeatsBounded` is proved.
- `RosterConverges`: when nothing is under way, the last roster broadcast is the
  truth. Announcing a departure before freeing the seat breaks it. It is checked
  where no peer wedges and no handler is cancelled: a handler cancelled between
  freeing a seat and announcing it leaves the others with an old roster.
- `LeavesNothing`, `KickCompletes`: handlers that end, by whichever exception or
  cancellation, leave no seat or connection; a kick reaches the end of its list.
- `FeedSpec`, `FeedCatchesUp`, `WedgedEvicted`, `NoneLeftSilent`: the feed of a
  connection, as `RoomFeed` promises it, and its liveness.

*Relay and publisher.*

- `ViewersBounded`, `ReclaimsOwnPlace`, `FlapKeepsPlace`: a known browser goes past
  the cap, so the memory of a browser must never outlive its place; a window
  removes no viewer whose browser is back. `DriverPresent`: the badge names
  somebody who is in the room.
- `NothingMissedInSilence`: numbers are given after the queue has dropped, a
  snapshot is ahead of the number it carries, a resync goes back to it, and a
  page draws with a delay; still, on a screen that rests on a snapshot every
  frame was drawn, is in the snapshot or was reported. Two exceptions are written
  into it, both met while checking and both from a 0 that is taken for "none".
  `room.html:1594` reports nothing while `lastSeq` is 0, so when the snapshot is
  numbered 0 and the first frames are lost with a connection, the page says
  nothing. And `app.py:758` replaces the number of a snapshot numbered 0 by the
  relay's last one: if that snapshot comes over the old connection after a frame
  of the new one, who joins on it never gets that frame, against
  `publisher.py:744` ("never miss any").
- `NoFalseGap`: what a page reports missing, the relay never had in order or has
  evicted, or a snapshot had passed it and the next went back behind it
  (`lapsed`; the scenario is among what was noticed below). (It is not always
  withheld by the relay, as `noteGap` says: a frame lost with the publisher's
  connection keeps its number.) `ViewersCatchUp`: after
  any overflow, resync, flap or new room, a page ends up with all the ring holds.
- `DrivesFromApproved`: a keystroke is passed on only while the grant stands and
  from the place that is approved, although the gate compares identities and a
  browser may come back in another place unannounced. `DriverShown`: once things
  have settled, the badge shows the browser that drives, whatever was lost.
- `GuestsShown`: whatever the order of joining, naming, settling, leaving and
  losing the room socket, the room ends up with the publisher's roster (except
  for the empty one after a new room), and a number never means another guest.
- `DownloadsAlike`: every browser told that a file is done got the same bytes,
  once and in order, whenever it accepted.
- `UploadsInOrder`: what the room gets of an upload is chunks 1, 2, ... to the
  member that accepted first, whatever loops run on; slots are bounded.
- `SharesSound`: every room of the relay is the publisher's, a request's under way
  or stray; and the share file opens the stream that runs, slug and key.
- `RatesBounded`: no window of time, wherever it begins, sees more than the limit;
  enough wrong PINs lock, whoever passed the gate before. `SecretsAgree`: races,
  crashes and restarts never leave two secrets in use.

*Members of the room.*

- `NoDeniedPrompt`: nothing of a rejected member stays in the queue to be approved
  later ("Denylist always wins"). `DriveIsFresh`: a task begins only under a grant,
  or with its revocation on the way. `MirrorConverges`: a grant or revocation that
  stands reaches the agent across drops and long tasks.
- `SavedAsOffered`, `AcceptedArrives`: what is saved is what was offered, though
  streams mix and files change; an undisturbed offer arrives.
- `BudgetsKept`: no command is repeated after it failed often enough, however the
  failures differ; no verb is called above the token ceiling; the goal and the
  newest messages survive every pruning, which reaches the budget if it can; the
  window is the longest that fits, a reference definition; and what a publisher
  retains of files fits its bound.
- `InboxSound`: no reader sleeps on an event, none of one daemon's readers skips
  one. `SandboxesReclaimed`: a launch that has swept leaves nothing its listing
  found abandoned. `EgressKept`: a sandbox that runs is behind the rules of the
  posture asked for, however the gateway failed.
- `DeviceGuarded`: a device armed over chat has a disarm timer running, and the
  room's last word about the shell is true.
- `TuiKept`: once all frames have arrived, every client shows the access list the
  broker goes by, and a revocation stands, if no list was replaced while another
  was under way, or owed to somebody who came back (`BadgesEnforced`,
  `RevokedStaysOut`); a saved VM stays in the
  registry though processes die holding its lock, as long as no two reclaim one
  stale lock and no listing prunes without it (`SavesKept`).

Every property has a mutant, a plausible bug in a definition that stands for
code, which makes TLC find it violated under the same configuration; mutants
stand before the definition they change and are used nowhere else.

**Disagreements with what the repository says** (the four `violated` runs, whose
findings in PROJECT.json quote the sentence):

1. `room_handed`: the kicking host is closed first, so the next member is host
   while that kick is suspended; if that member kicks too, the first kick goes on
   handing out a password that is no longer valid.
2. `conn_gaps`: a second wedged peer, waiting for the close of the first, is fed
   later frames after the one it lost.
3. `web_idle`: the handler of an old publisher socket clears the slot that its
   successor has taken, and the room is then reaped with a publisher attached.
4. `spawn_depth`: the directive a child operator is started with does not carry
   its budget, so every generation starts with the default one.

**Noticed while modelling.** Behaviour of the code that the models contain and
that its maintainers may want to look at; no run is spent on it.

- *Room.* Names are checked when a handshake opens and not when the seat is taken,
  so two handshakes for one name are both seated (`views.py:142`;
  `docs/spec-collaborative-sandbox.md:172` has names unique). A kick closes the
  members of the session store, and a member swept from it after an hour of
  silence keeps its connection through the kick (`views.py:101` and the docstring
  above it): `LongIdle` is the constant, and a condition of two theorems. A member
  that a kick has not reached can still send, and its frame, under the old key,
  goes into the cleared backlog (`views.py:275`). The TUI takes the first name of
  the roster for the host (`app.rs:511`).
- *Relay.* A handler cancelled while it joins leaves its viewer; the room looked
  up before the first frame and PIN are awaited may have ended (`app.py:972`).
  A snapshot read late from an older connection replaces a newer one
  (`rooms.py:208`). If a page that had drawn the newer one has the older still
  to apply when its socket drops, it asks to resume from the newer
  (`room.html:1706`), applies the older, and then reports as lost a frame between
  the two that the ring holds, against `room.html:1576-1581`; and it does not get
  that frame.
- *Publisher.* A new room empties the roster of guests without a presence frame.
  Upload loops of an abandoned pick go on under the next token. `upload_done` does
  not compare sizes. Between `register_room`'s return and the key rotation, a
  console link is written with the new slug and the old key; the rewrite heals it
  unless it fails. Each new room leaves the former `share-<slug>.url` behind
  (against the comment at `publisher.py:569-573`). An interrupt during the banner,
  a lost answer or a failed DELETE leaves a room to the idle reaper. The page's
  PIN-protected room stays with a crashed owner (`publisher.py:711-738`).
- *Files.* A sender streams an untargeted offer once, so a second accepter may get
  the tail; a Python client saves what it did not accept; any member's rejection
  ends an upload another has accepted.
- *Agent.* `confirm` runs whatever plan is pending, whoever asked for it
  (`agent/bridge.py:1771`).
- *Operator.* The cursor on disk outlives the daemon whose numbers it counts
  (`__main__.py:343-348`), so after a restart events are skipped in silence. A
  second `up` while the first daemon reconnects takes its socket path. `watch`
  without a cursor misses events between its calls. Two launches of one name at
  once can take each other's container, or leave a sandbox on a gateway that has
  no rules yet. A killed launch leaves its gateway, and nothing sweeps those. In
  code style, a `final_answer` or a block that only computes passes the honesty
  gate. `auto` is "NEVER refused for egress reasons" (`egress.py:50-53`), but
  `launch_container` refuses when the local gateway cannot come up
  (`sandbox.py:212-213`). The guard looks at the route at launch only.
- *Device.* The shell opens the port without the lock that verbs hold
  (`serial_conn.py:37-39` and `:79`). A verb that waits for the port runs though
  the device was disarmed meanwhile (`base.py:101`). Arming at the console has no
  timer.
- *TUI.* A broker applies the access lists it has sent as they come back from the
  room (`app.rs:735`). One that is still under way undoes a newer change on the
  broker itself, and the next command broadcasts the undone list: `/grant` and
  `/revoke` of one member, then `/grant` of another, within a round trip, leave the
  first with the drive; an agent dismissed in the same window keeps it, though
  "Drop any sandbox drive the agent held so a dead handle can't act" (`app.rs:3416`).
  A sandbox launched while the list of the one before is under way ends up with the
  former owner in its list. Two sandboxes at once fight over one list. A member who
  leaves or is kicked stays in the list by name (`app.rs:610`). A rotation that
  arrives during a reconnect starts none of its own (`app.rs:2017`), and the server
  frees the old session after its close frame, not before, as `app.rs:2010-2012`
  has it, so an automatic re-key can meet its own name and is not tried again.
- *Registry.* The age of a lock is read and the file removed in two steps, so of two
  processes that find one stale lock the second removes the first's fresh one
  (`registry.rs:157-159`); `list_reconciled` waits two minutes for the lock it is
  said never to block on, then prunes without it (`registry.rs:241-243`).
- *Secret, limits.* The loser of a race that reads between the winner's create
  and write goes on with a secret of its own, marked ephemeral, though the comment
  says both agree; a crash there leaves an empty file. Guesses under way when a
  lock falls still count towards the next.

## 5. What is proved

For every value of the constants that satisfies the assumptions named; those are
definitions of the proof modules and say that bounds are numbers, that a limit is
not zero where the program's is not, and that a mark such as "nobody" is no member.

| theorem | statement | assumes |
|---|---|---|
| *`ChatRoomProofs`* | | |
| `TypeCorrect` | `Spec => []TypeOK` | |
| `SeatsStayBounded` | `Spec => []SeatsBounded` | |
| `KickLeavesNoStaleMember` | `Spec => []NoStaleMember` | `~LossCancels`, `"member" \notin LongIdle` |
| `ConnectionsHoldSeats` | `Spec => []ConnectedIsSeated` | the same |
| `RosterIsCurrent` | `Spec => []RosterConverges` | `~LossCancels`, `LongIdle = {}` |
| `OldestRekeys` | `Spec => OnlyOldestRekeys` | |
| `HandlersLeaveNothing` | `Spec => LeavesNothing` | |
| *`ConnManagerProofs`* | | |
| `LinesHold` | `Spec => []FeedInv` | |
| `FeedRefined` | `Spec => FeedSpec`: `ConnManager` implements `RoomFeed` | |
| *`WebRoomDriveProofs`* | | |
| `WebTypeCorrect` | `Spec => []TypeOK` | |
| `ViewersStayBounded` | `Spec => []ViewersBounded` | |
| `ClientsReclaimTheirOwn` | `Spec => []ReclaimsOwnPlace` | |
| `DriverStaysPresent` | `Spec => []DriverPresent` | |
| `FlapsKeepTheirPlace` | `Spec => FlapKeepsPlace` | |
| `KeysFromTheApprovedPlace` | `MCSpec => DrivesFromApproved` | `Bounds` |
| `BadgeShowsTheDriver` | `MCSpec => []DriverShown` | `Bounds`, `RoomToSend`: `OutMax >= 1` |
| *`WebStreamProofs`* | | |
| `NothingMissed` | `Spec => []NothingMissedInSilence` | `WebStreamMarks` |
| `NoFalseReport` | `Spec => []NoFalseGap` | `WebStreamMarks` |
| *`AgentProofs`* | | |
| `RejectionForgets` | `MCSpec => []NoDeniedPrompt` | |
| `TasksFollowTheGrant` | `MCSpec => DriveIsFresh` | |
| `AgentAndFilesTyped` | `MCSpec => []TypesOK` | `FileBounds` |
| `SavedIsOffered` | `MCSpec => []SavedAsOffered` | `FileBounds` |
| *`MembersProofs`* | | |
| `GuestsAreShown` | `MCSpec => []GuestsShown` | `GuestBounds` |
| `BrowsersGetAlike` | `MCSpec => []DownloadsAlike` | `DownBounds` |
| `UploadsStayInOrder` | `MCSpec => []UploadsInOrder` | `UploadBounds` |
| `RoomsAndLinksMatch` | `MCSpec => []SharesSound` | `ShareBounds` |
| `RatesAreBounded` | `MCSpec => []RatesBounded` | `LimitNumbers` |
| `OneSecretInUse` | `MCSpec => []SecretsAgree` | `SecretDistinct` |
| `EgressFailsClosed` | `MCSpec => []EgressKept` | `NoLaunchIsNone` |
| `SweepsReclaim` | `MCSpec => []SandboxesReclaimed` | |
| `ReadersMissNothing` | `MCSpec => []InboxSound` | `InboxBounds` |
| `DeviceStaysGuarded` | `MCSpec => []DeviceGuarded` | `ProbeApart` |
| `WhatClientsShare` | `MCSpec => []TuiKept` | `OpsAreCounted`, `Clocked` |
| `RetriesAreBounded` | `MCSpec => []Loop!RetriesBounded` | `LoopLimits` |
| `SpendIsBounded` | `MCSpec => []Model!SpendBounded` | `TokensCounted` |
| `BudgetsAreKept` | `MCSpec => []BudgetsKept` | `LoopLimits`, `TokensCounted`, `ContextNumbers`, `DownBounds`, `RetainBound` |
| `TypesAreKept` | `MCSpec => []TypesOK` | `GuestBounds`, `DownBounds`, `RetainBound`, `DownSizes`, `UploadBounds`, `LimitSizes`, `SecretDistinct`, `ShareBounds`, `NoLaunchIsNone`, `OpsAreCounted`, `Clocked`, `ProbeApart`, `InboxBounds`, `InboxSizes`, `LoopSizes`, `TurnsCounted`, `ContextNumbers`, `ContextSizes` |

`MCSpec` is the side-by-side specification that the run checks: a theorem about one
of its parts first shows that a step of the whole is a step of that part or leaves
it alone (`...Steps`, the composition lemmas), and then is about the part only.
`HostMembersProofs` and `WebMembersProofs` hold the lemmas of the parts of
`members`, one section each.

Every argument is an inductive invariant: the property, strengthened by what the
handlers rely on without saying so. They are worth reading as the reasons why the
code works.

**The chat room.** `TypeOK` is not inductive: it is strengthened by the fact that
a client past its first request has an id of its own (`TypeInv`).
`SeatsStayBounded` needs no more than that: the lemma `SeatSteps` finds that a step
leaves the number of sessions, lowers it, or adds one where it was below
`MaxUsers`, in `SrpVerify`; so it holds in every regime, with wedged peers, sweeps
and cancellation. `NoStaleMember` needs `KickInv`: both dictionaries have no
repeated key and connections are seated (`Claims`, `Seats`); open handshakes are
under the current password (`Handshakes`), so a seat taken after a rotation is not
stale; a handler has a list exactly while it kicks (`KickShape`); the member a kick
is closing is out of the connections and its client cannot return under that id
(`Popped`), so it can be taken off the list when its seat is freed; and every stale
seat is on some list (`StaleDoomed`). The two conditions are needed: a member
silent for an hour is swept from the store that the list is taken from, and a kick
whose handler is cancelled half-way leaves the rest of its list behind.
`OldestRekeys` and `HandlersLeaveNothing` hold in every regime, too (`RoomInv`): a
connection has a handler short of its `finally` clause (`Handlers`), nobody on its
way in is the host on record (`Newcomers`), and the host on record, while
connected, is the oldest connection (`Eldest`). For `RosterIsCurrent` the roster in
the room is the truth, or somebody has still to send one (`Settling`), where
whoever kicks is on its own list until it is closed (`KickerListed`).

**The connection manager.** `FeedInv` says of each live connection that its line,
the frame its writer holds and those in its queue, carries the messages after what
it was shown once, in increasing order (`Orderly`), and all of them unless one was
refused it (`Complete`); a socket nobody opened is in no list (`Untouched`), the
connection a handler is closing has left the dictionary (`Gone`), and a writer holds
a frame just while it sends (`Holding`). From it every step maps to a step of
`RoomFeed` or to a stutter.

**The relay room.** `RoomInv` adds to the properties: the socket of a viewer
works for that viewer, and neither is before its hello (`Places`), so a hello
disturbs no other place; a handler past its hello has a viewer_id (`Handlers`);
a window runs only for a socket that is down (`Windows`), which is
`FlapKeepsPlace`. The cap follows because `ReclaimsOwnPlace` makes the browser
that passes it re-enter a place that is counted already. Nothing is assumed of
`LossCancels`, nor that the sockets are finitely many: that the viewers of a
room are is part of the invariant.

**The drive.** An identity stands behind one viewer id at most, and the pinned
identity behind the approved one (`GateInv`); frames on their way name viewer ids
the relay has minted (`RelayInv`, `RoomInv`). An input frame that binds cannot take
an identity from another viewer id (`MayBind`), so a frame whose identity is the
pinned one comes from the approved viewer id. For the badge (`BadgeInv`): viewer ids
are minted upwards and one browser has each (`PlaceInv`), and the driver in force is
the last in the publisher's queue or, once that is empty, on the badge, unless its
place is gone (`DriverAnnounced`). Nothing is assumed of what is lost on the three
channels.

**The stream.** `StreamInv` follows a frame from the publisher's queue to the page
and says of each stretch what it may lack. In the publisher's queue the order is that
of the screen (`Waits`); on its two connections are numbers not yet recorded, growing,
those of the former below those of the present (`LinksOK`). In the ring, what stands
behind a greater number, and what is below a recorded one but not there, has been lost
(`RingOK`); a snapshot passed on shows all up to its number, unless the relay gave it
that number (`Claims`). Of a page `Path` speaks of what is still to come: the chain,
the first item of its queue, which may be a whole replay, and the single frames after
it leap, read in a row, over nothing but lost numbers (`Clean`, `Follows`), what a
snapshot on the way takes back is drawn again or lost (`Settles`), and they end no
earlier than the ring does (`Reaches`), unless a resync is due, whose replay starts
afresh. So what a page finds missing when it draws is lost, which is `NoFalseGap`, and
what it has passed it has drawn or reported, or its snapshot shows (`PageOK`). Except
for `Reprovision`, which empties everything, a step takes nothing back from what is
lost or recorded (`Grows`), so what is on its way to the other pages stays sound. A
resumed or resynced page is given the ring in the order of its numbers; that there is
such an order is shown by least numbers (`RestInOrder`, `RingAfterPicks`).
`WebStreamMarks` says that no screen and no queue mark is mistaken for a frame.

**The agent and the files.** A room that has taken the drive back leaves the
revocation behind every grant that the agent has still to read (`Trail`), and an
agent that still believes in the drive has it to read (`Mirror`); both are void when
a drop loses control frames, and then the agent has lost its belief as well. An agent
nobody owns rejects nobody (`Unowned`). No receiver collects more pieces than were
declared (`CollectedOK`), which with the digest is what `SavedAsOffered` needs.

**Guests and their files.** Numbers go upwards, and those still in the bounded book
mean whom they were first given to (`BooksKept`); what the room was shown last is the
roster but for guests held back (`Painted`). Of a file (`Served`) nobody has anything
before the first chunk, what is retained is what was heard, and a browser has all
that was heard, or nothing. Of an upload (`Followed`) what is staged agrees with what
went into the room, a pick is offered once (`OfferedOnce`), and an offer still on the
line is for an upload nobody has heard of (`OffersFresh`), so no late frame opens a
finished one again; the caps need that what is staged is a finite set (`SlotsKept`).

**The relay's share, limits and secret.** Rooms are numbered as they are made
(`RoomsNumbered`), and one is replaced only after the relay has lost it
(`RoomReplaced`), so the thread that asks for a new room never takes away a live one;
the file is that of the room known until the thread learns another (`LinkCurrent`).
What has fallen off the front of a window's deque is older than the window
(`Remembered`), so counting the deque counts the window. At most one relay is
between creating the file and writing it, and until it has written the file is empty
(`OneWriter`); whoever took a secret from the file, or wrote it there, finds that
the file holds one (`SecretKept`).

**The operator.** A ring holds the last numbers given out, in a row, and all of them
or as many as fit while its daemon runs (`RingsOK`); a reader that waits has seen all
of it (`ServedOK`); what is below a cursor, or below what a reader asked from, was
printed or fell out, and an answer under way skips nothing (`CursorsOK`). A job's list
of abandoned containers names only those of daemons that are dead for good, and what
is still running of it is still to be swept (`Doomed`). A launch that has met no other
of its name has a gateway of its own (`OwnGateway`) with the rules of the posture it
has come to (`OwnRules`), and two that work on one name have met (`Met`). A task that
runs has failed less often, with any action, than breaks it off (`LoopInv`); of the
replies beyond the token ceiling there are only as many as nudges were spent, and one
more ends the loop (`SpendInv`).

**What fits a bound.** What messages cost and what files are retained are counted as
sets of pieces, a token of a message or a chunk of a file each: one fits below another
when its pieces map into the other's one to one (`CostsNoMore`). The messages of a
task come in the order they were said, and its goal is one of them (`ContextInv`);
the rest of `GoalKept` and `WindowIsLongest` is about one call of the pruning, for
any list: the loops stop at the first length that fits (`Stops`), digesting touches
nothing that is kept (`DigestedOnly`), what is left keeps its order (`Nths`,
`Pruned`), and the newest keep their distance from the end, whatever is dropped
before them (`LastRanks`, `NewestStay`). Of the files, what is retained and has ended
always fits (`EndedFit`, in `RetainInv`): chunks come only to a transfer that has not ended, and
whatever ends one evicts.

**The device.** `ArmedHasTimer` is inductive. For `StatusTold` a shell that has not
been announced is being opened by a command that knows it (`ShellAnnounced`); such a
command is not in the port's line, whose entries are distinct and wait (`Line`), so
serving the line forgets no announcement.

**What clients share.** As long as no two sandboxes have collided there is one broker
(`Sole`); every client comes, by what it has still to handle, to the same list as the
broker (`InStep`), or the broker has still to hear of somebody who came back
(`Owes`); and as long as nothing was hasty, the list the broker has, and all those of
its own that are still to come back to it, let in no more than its commands meant
(`Abides`). In the registry, as long as nobody has trespassed, whoever has a lock to
drop is the holder and its copy is the registry (`Exclusive`); a lock in the hands of
a live process is not stale (`Ages`, the assumption of `Tick`), so a process that
found one stale removes a dead one's, or trespasses.

**The types.** Seven of the parts of `members` have types that are not inductive, or that
need more than the invariants above. Of the files, those in the order of eviction are
retained, each once (`InTable`, `NoTwice`). The times in the relay's tables are times
there have been (`LimitTyped`). Numbers in rings, cursors, answers and transcripts are
numbers some daemon has given out (`InboxTyped`). A task that runs has met no result as
often as breaks it off (`LoopTyped`), so the count that the type bounds is passed by
nobody; a run has spent no more than its turns can have cost (`ModelTyped`). A message is
numbered within the bound on messages, and costs what it cost when it was said or what a
digest costs (`ContextTyped`). The device's flags keep their types whatever its shells do
(`DeviceFlags`), and so do its shells from `ShellInv` on.

**How the models help the proofs.** The provers have no induction over data, so the
result of `SelectSeq` or a fold is beyond them. Where a definition that proofs need
filters a sequence it is in closed form: the kept frames are named by the rule that
selects them, not by going through them (`RelayLimits!Recent`,
`OperatorInbox!After`, `WebDownloads!Ordered` and `Evicted`, `NativeLoop!TimesFailed`),
a loop that ends early is its first stop (`AgentContext!Stop`), and a sum is the number
of the pieces (`AgentContext!CostOf`, `WebDownloads!Held`); the held prompts of the
agent are a set, their order deciding nothing. Where an argument does need
induction on a number, it takes the least counterexample (`LeastNumber`, from the
well-foundedness of `<`).

**Only model-checked.** All liveness (`KickCompletes`, `FeedCatchesUp`,
`WedgedEvicted`, `NoneLeftSilent`, `ViewersCatchUp`, `MirrorConverges`,
`AcceptedArrives`): fairness and ENABLED are out of the prover's reach. Every
safety property of the passing runs has its theorem.

## 6. Plan

Still to be written, in this order:

1. **TuiSession** (`app.rs`, `net.rs`, with `ChatRoom`): `apply`, the pending
   re-key, reconnect and the writer task. A member who may stay ends up in the
   room under the new key; frames queued under the old key are not sent.
2. The steps of a transfer from the registry: publish, request, hand over, import.

## 7. What is not modelled

- *Abstracted in the modelled parts.* The arithmetic of SRP (a proof is right
  exactly when it was made with the current password), tokens, encryption and
  frame contents, TLS; sizes in bytes (a queue, a ring or a retained file is
  bounded by pieces); what a model says and how a command ends, which are free
  choices; what an nftables ruleset lets through. In the relay: the fan-out of
  chat and dimensions (which take room in the viewer queues of `WebStream` too);
  `_drain_rooms` at shutdown, which is `_teardown_room` with another reason while
  the process ends.
- *Left out altogether* (`not_modelled` in PROJECT.json, with reasons): the re-key
  and reconnect of the TUI (section 6), the server's HTTP rate limiter (the
  window of `RelayLimits` without its sweep), start-up and wiring, rendering,
  themes, music, cards, pane layout, the engines behind `sbx.rs`, the SSH adapter,
  model providers, memory and recipes of the agent, the operator's MCP and HTTP
  front ends and manifests, the onion service, scripts and documentation. They are
  input and output, static data, sequential calculations or external commands;
  docs and tests are used as statements of intent.
