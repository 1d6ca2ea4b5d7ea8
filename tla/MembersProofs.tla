---------------------------- MODULE MembersProofs ----------------------------
(***************************************************************************)
(* What holds of the programs around a room as MCMembers composes them,    *)
(* for every value of the constants: a step of the composition is a step   *)
(* of a part or leaves it alone, so an invariant of the part is one of the *)
(* composition.                                                            *)
(***************************************************************************)
EXTENDS MCMembers, HostMembersProofs, WebMembersProofs

----------------------------------------------------------------------------
\* In the composition the registry is used as RegistryLock says, or rests.
LEMMA RegSteps ==
    /\ MCInit => Reg!Init
    /\ [MCNext]_allVars => [Reg!Next]_(Reg!vars)
BY DEF MCInit, MCNext, allVars, hostVars, registryVars, Reg!vars, Reg!data

LEMMA RegInvStep ==
    ASSUME Clocked, RegInv, [Reg!Next]_(Reg!vars)
    PROVE  RegInv'
<1>1. Reg!TypeOK'
  BY RegTypeStep DEF RegInv
<1>2. Ages'
  BY <1>1, AgesStep DEF RegInv
<1>3. SaversGuarded'
  BY GuardedStep DEF RegInv
<1>4. ~trespass' => Exclusive' /\ Reg!SavesKept'
  BY KeptStep
<1> QED
  BY <1>1, <1>2, <1>3, <1>4 DEF RegInv

----------------------------------------------------------------------------
\* In the composition the device goes its way as DeviceBridge says, or rests.
LEMMA DeviceSteps ==
    /\ MCInit => Device!Init
    /\ [MCNext]_allVars => [Device!Next]_(Device!vars)
BY DEF MCInit, MCNext, allVars, hostVars, deviceVars, Device!vars, Device!armVars,
       Device!shellVars

\* However the members arm and disarm, the timer expires and the console
\* switches, a device armed over chat is going to be disarmed; and however
\* commands, the relay's death, late callbacks and stops interleave, the room
\* has been told what there is, unless a shell is just being opened
\* (device/bridge.py _handle_command, _auto_disarm_after, _open_shell,
\* _on_pty_readable, _close_shell).
THEOREM DeviceStaysGuarded ==
    ASSUME ProbeApart
    PROVE  MCSpec => []DeviceGuarded
<1>1. MCInit => Device!ArmedHasTimer /\ ShellInv
  BY ShellStart, DeviceSteps DEF Device!Init, Device!ArmedHasTimer
<1>2. Device!ArmedHasTimer /\ ShellInv /\ [MCNext]_allVars
          => (Device!ArmedHasTimer /\ ShellInv)'
  BY ArmStep, ShellStep, DeviceSteps
<1>3. Device!ArmedHasTimer /\ ShellInv => DeviceGuarded
  BY DEF ShellInv, ShellAnnounced, Device!StatusTold, DeviceGuarded
<1> QED
  BY <1>1, <1>2, <1>3, PTL DEF MCSpec

----------------------------------------------------------------------------
\* In the composition launches go on as EgressGateway says, or rest.
LEMMA EgressSteps ==
    /\ MCInit => Egress!Init
    /\ [MCNext]_allVars => [Egress!Next]_(Egress!vars)
BY DEF MCInit, MCNext, allVars, hostVars, egressVars, Egress!vars

\* Fail-closed, for any number of launches and names: however the gateway of a
\* launch fails, is refused, times out or is tried again, a sandbox that runs is
\* behind the rules of the posture asked for, unless launches met on its name
\* (operator/sandbox.py launch_container, scripts/hh-sbx-egress.py).
THEOREM EgressFailsClosed ==
    ASSUME NoLaunchIsNone
    PROVE  MCSpec => []EgressKept
<1>1. MCInit => EgressInv
  BY EgressStart, EgressSteps
<1>2. EgressInv /\ [MCNext]_allVars => EgressInv'
  BY EgressStep, EgressSteps
<1>3. EgressInv => EgressKept
  BY DEF EgressInv, EgressKept
<1> QED
  BY <1>1, <1>2, <1>3, PTL DEF MCSpec

----------------------------------------------------------------------------
\* In the composition the daemons' requests go on as OperatorSandbox says, or
\* rest.
LEMMA BoxSteps ==
    /\ MCInit => Box!Init
    /\ [MCNext]_allVars => [Box!Next]_(Box!vars)
BY DEF MCInit, MCNext, allVars, hostVars, boxVars, Box!vars

\* For any number of daemons, of requests they have at work and of containers: a
\* launch that has swept leaves nothing of what it found abandoned, though other
\* daemons launch, remove, die and their ids are used again meanwhile
\* (operator/sandbox.py sweep_stale, launch_container).
THEOREM SweepsReclaim == MCSpec => []SandboxesReclaimed
<1>1. MCInit => BoxInv
  BY BoxStart, BoxSteps
<1>2. BoxInv /\ [MCNext]_allVars => BoxInv'
  BY BoxStep, BoxSteps
<1>3. BoxInv => SandboxesReclaimed
  BY Swept DEF SandboxesReclaimed
<1> QED
  BY <1>1, <1>2, <1>3, PTL DEF MCSpec

----------------------------------------------------------------------------
\* In the composition the clients share a sandbox as SbxDrive says, or rest.
LEMMA DriveSteps ==
    /\ MCInit => Drive!Init
    /\ [MCNext]_allVars => [Drive!Next]_(Drive!vars)
BY DEF MCInit, MCNext, allVars, hostVars, driveVars, Drive!vars, Drive!app

\* However commands, launches, frames, cuts and rejoins interleave: once all
\* frames have arrived every client shows the list the broker goes by, and nobody
\* drives whom the broker has revoked; and what was saved stays in the registry
\* (app.rs, the access list; registry.rs).
THEOREM WhatClientsShare ==
    ASSUME OpsAreCounted, Clocked
    PROVE  MCSpec => []TuiKept
<1>1. MCInit => DriveInv /\ RegInv
  BY DriveStart, DriveSteps, RegStart, RegSteps
<1>2. DriveInv /\ RegInv /\ [MCNext]_allVars => (DriveInv /\ RegInv)'
  BY DriveStep, DriveSteps, RegInvStep, RegSteps
<1>3. DriveInv /\ RegInv => TuiKept
  <2>1. DriveInv => Drive!BadgesEnforced /\ Drive!RevokedStaysOut
    BY DriveImplies
  <2>2. RegInv => Reg!SavesKept
    BY DEF RegInv, Reg!SavesKept
  <2> QED
    BY <2>1, <2>2 DEF TuiKept
<1> QED
  BY <1>1, <1>2, <1>3, PTL DEF MCSpec

----------------------------------------------------------------------------
\* In the composition the secret is made as Provisioning says, or rests.
LEMMA SecretSteps ==
    /\ MCInit => Secret!Init
    /\ [MCNext]_allVars => [Secret!Next]_(Secret!vars)
BY DEF MCInit, MCNext, allVars, webVars, secretVars, Secret!vars

\* However many relays and publishers start, race, die and come again, all that
\* call their secret kept, and all publishers that found one, hold the secret in
\* the file (provisioning.py resolve, _write, load_local_secret).
THEOREM OneSecretInUse ==
    ASSUME SecretDistinct
    PROVE  MCSpec => []SecretsAgree
<1>1. MCInit => SecretInv
  BY SecretStart, SecretSteps
<1>2. SecretInv /\ [MCNext]_allVars => SecretInv'
  BY SecretStep, SecretSteps
<1>3. SecretInv => SecretsAgree
  BY DEF SecretInv, SecretsAgree
<1> QED
  BY <1>1, <1>2, <1>3, PTL DEF MCSpec

----------------------------------------------------------------------------
\* In the composition a source is limited as RelayLimits says, or rests.
LEMMA LimitSteps ==
    /\ MCInit => Limit!Init
    /\ [MCNext]_allVars => [Limit!Next]_(Limit!vars)
BY DEF MCInit, MCNext, allVars, webVars, limitVars, Limit!vars

\* Whatever the limits: no window of time, wherever it starts, sees more than
\* LIMIT connections of a source granted, though the table is swept in between
\* and a refused connection counts for nothing; and whoever has used up the
\* wrong PINs has a lock, whichever sockets passed the gate before it fell
\* (limits.py allow, sweep, fail, locked, clear).
THEOREM RatesAreBounded ==
    ASSUME LimitNumbers
    PROVE  MCSpec => []RatesBounded
<1>1. MCInit => LimitInv
  BY LimitStart, LimitSteps
<1>2. LimitInv /\ [MCNext]_allVars => LimitInv'
  BY LimitStep, LimitSteps
<1>3. LimitInv => RatesBounded
  BY DEF LimitInv, RatesBounded
<1> QED
  BY <1>1, <1>2, <1>3, PTL DEF MCSpec

----------------------------------------------------------------------------
\* In the composition the publisher keeps its guests as WebGuests says, or rests.
LEMMA GuestSteps ==
    /\ MCInit => Guest!Init
    /\ [MCNext]_allVars => [Guest!Next]_(Guest!guestVars)
BY DEF MCInit, MCNext, allVars, webVars, guestVars, Guest!guestVars, Guest!link,
   Guest!books

\* For any number of guests, names and numbers, and whatever the tables hold:
\* once no guest is held back the room sees the publisher's roster, in whatever
\* order guests join, are named, settle and leave and whatever the room's
\* socket lost; and a number an owner may type never comes to mean another
\* guest, although the oldest numbers are forgotten (publisher.py
\* _apply_web_name, _broadcast_web_presence, _alias_for).
THEOREM GuestsAreShown ==
    ASSUME GuestBounds
    PROVE  MCSpec => []GuestsShown
<1>1. MCInit => GuestInv
  BY GuestStart, GuestSteps
<1>2. GuestInv /\ [MCNext]_allVars => GuestInv'
  BY GuestStep, GuestSteps
<1>3. GuestInv => GuestsShown
  BY GuestShows DEF GuestsShown
<1> QED
  BY <1>1, <1>2, <1>3, PTL DEF MCSpec

----------------------------------------------------------------------------
\* In the composition files go to the browsers as WebDownloads says, or rest.
LEMMA DownSteps ==
    /\ MCInit => Down!Init
    /\ [MCNext]_allVars => [Down!Next]_(Down!fileVars)
BY DEF MCInit, MCNext, allVars, webVars, fileVars, Down!fileVars, Down!web, Down!traces

\* For any number of browsers, files and chunks, and whatever is evicted: who
\* is told that a file is done was handed just what the publisher heard of it,
\* whether it accepted before the stream, during it or after its end
\* (publisher.py _web_ft_accept, _web_ft_chunk, _web_ft_done,
\* _web_ft_serve_retained).
THEOREM BrowsersGetAlike ==
    ASSUME DownBounds
    PROVE  MCSpec => []DownloadsAlike
<1>1. MCInit => DownInv
  BY DownStart, DownSteps
<1>2. DownInv /\ [MCNext]_allVars => DownInv'
  BY DownStep, DownSteps
<1>3. DownInv => DownloadsAlike
  BY DownShows DEF DownloadsAlike
<1> QED
  BY <1>1, <1>2, <1>3, PTL DEF MCSpec

----------------------------------------------------------------------------
\* In the composition uploads go as WebUploads says, or rest.
LEMMA UploadSteps ==
    /\ MCInit => Upl!Init
    /\ [MCNext]_allVars => [Upl!Next]_(Upl!uploadVars)
BY DEF MCInit, MCNext, allVars, webVars, uploadVars, Upl!uploadVars, Upl!page, Upl!ways,
   Upl!traces

\* For any number of guests, members, files and chunks, and whatever loops of a
\* page run on, frames are lost with the link, members answer and expired slots
\* are swept: the room gets the chunks of an upload one after the other and
\* perhaps its end, all for the member who accepted it first; and no guest and
\* no room holds more uploads than its cap (publisher.py _web_upload_offer,
\* _web_upload_chunk, _web_upload_done, _upload_answered).
THEOREM UploadsStayInOrder ==
    ASSUME UploadBounds
    PROVE  MCSpec => []UploadsInOrder
<1>1. MCInit => UploadInv
  BY UploadStart, UploadSteps
<1>2. UploadInv /\ [MCNext]_allVars => UploadInv'
  BY UploadStep, UploadSteps
<1>3. UploadInv => UploadsInOrder
  BY UploadsShow DEF UploadsInOrder
<1> QED
  BY <1>1, <1>2, <1>3, PTL DEF MCSpec

----------------------------------------------------------------------------
\* In the composition the life of the publisher is WebShare's, or it rests.
LEMMA ShareSteps ==
    /\ MCInit => Share!Init
    /\ [MCNext]_allVars => [Share!Next]_(Share!vars)
BY DEF MCInit, MCNext, allVars, webVars, shareVars, Share!vars

\* For any number of rooms and keys: a room of the relay is the one its
\* publisher knows, the one a request under way is about, or one nobody can
\* end, however the answer of the executor's thread races with the console and
\* with a stop; and whenever the publisher streams, the last link it could
\* write is the one of this stream (publisher.py run, _reprovision).
THEOREM RoomsAndLinksMatch ==
    ASSUME ShareBounds
    PROVE  MCSpec => []SharesSound
<1>1. MCInit => ShareInv
  BY ShareStart, ShareSteps
<1>2. ShareInv /\ [MCNext]_allVars => ShareInv'
  BY ShareStep, ShareSteps
<1>3. ShareInv => SharesSound
  BY ShareOpens DEF ShareInv, SharesSound
<1> QED
  BY <1>1, <1>2, <1>3, PTL DEF MCSpec

----------------------------------------------------------------------------
\* OperatorInbox: what the constants have to be.
InboxBounds ==
    /\ EVENTS_MAX \in Nat /\ Nobody \notin Daemons
    /\ Cli \cap Harnesses = {}

InboxTypes ==
    /\ life \in [Daemons -> {"unborn", "spawned", "up", "stopping", "gone"}]
    /\ bound \in Daemons \cup {Nobody}
    /\ seq \in [Daemons -> Nat]
    /\ events \in [Daemons -> Seq(Nat)]
    /\ pc \in [Inbox!Readers -> {"idle", "sent", "waiting", "woken", "answered", "printed"}]
    /\ from \in [Inbox!Readers -> Daemons \cup {Nobody}]
    /\ since \in [Inbox!Readers -> Nat]
    /\ answer \in [Inbox!Readers -> [new : Seq(Nat), seq : Nat]]
    /\ cursor \in [Inbox!Streams -> Nat]
    /\ printed \in [Inbox!Streams -> SUBSET Nat]

\* A ring holds the last numbers given out, in a row; while its daemon runs,
\* all of them or as many as it may.
Ring(q, n) ==
    /\ Len(q) <= EVENTS_MAX /\ Len(q) <= n
    /\ \A i \in DOMAIN q : q[i] = (n - Len(q)) + i
Full(q, n) == n > 0 /\ (Len(q) = n \/ Len(q) = EVENTS_MAX)
RingsOK == \A d \in Daemons :
    /\ Ring(events[d], seq[d])
    /\ Inbox!Running(d) => Full(events[d], seq[d])
    /\ life[d] \in {"unborn", "spawned"} => seq[d] = 0

\* Who is served has a daemon that runs; who waits has seen all of its ring.
ServedOK == \A r \in Inbox!Readers :
    /\ pc[r] # "idle" => from[r] \in Daemons /\ seq[from[r]] > 0
    /\ pc[r] \in {"sent", "waiting", "woken"} => Inbox!Running(from[r])
    /\ pc[r] = "waiting" => \A n \in Inbox!ToSet(events[from[r]]) : n <= since[r]
    /\ pc[r] = "printed" => r \in Cli /\ Inbox!ToSet(answer[r].new) \subseteq printed["cli"]

\* A cursor has moved only if some daemon has spoken.
Spoken == \A s \in Inbox!Streams : cursor[s] > 0 => \E d \in Daemons : seq[d] > 0

\* Only d has ever spoken.
SpeaksAlone(d) == \A e \in Daemons : seq[e] > 0 <=> e = d

Past(n, s, d) == n \in printed[s] \/ n + EVENTS_MAX <= seq[d]

\* How far an answer takes a reader.
Within(n, a) == IF a.new = <<>> THEN n <= a.seq ELSE n <= Inbox!Last(a.new)

\* What is below a cursor, below the cursor a reader asked from or within the
\* answer it has got was shown, is in that answer, or fell out of the ring.
CursorsOK == \A d \in Daemons : SpeaksAlone(d) =>
    /\ \A s \in Inbox!Streams : \A n \in 1 .. cursor[s] : Past(n, s, d)
    /\ \A r \in Inbox!Readers : pc[r] # "idle" =>
          \A n \in 1 .. since[r] : Past(n, Inbox!Stream(r), d)
    /\ \A r \in Inbox!Readers : pc[r] \in {"answered", "printed"} =>
          \A n \in Nat : n > since[r] /\ Within(n, answer[r]) =>
              n \in Inbox!ToSet(answer[r].new) \/ n + EVENTS_MAX <= seq[d]

InboxInv == InboxTypes /\ RingsOK /\ ServedOK /\ Spoken /\ CursorsOK

LEMMA InboxStart ==
    ASSUME InboxBounds, Inbox!Init
    PROVE  InboxInv
<1>1. InboxTypes
  BY DEF Inbox!Init, InboxTypes, Inbox!NoAnswer, InboxBounds
<1>2. RingsOK
  <2>1. \A d \in Daemons : events[d] = <<>> /\ seq[d] = 0 /\ life[d] = "unborn"
    BY DEF Inbox!Init
  <2>2. Ring(<<>>, 0)
    BY DEF Ring, InboxBounds
  <2> QED
    BY <2>1, <2>2 DEF RingsOK, Inbox!Running
<1>3. ServedOK /\ Spoken
  BY DEF Inbox!Init, ServedOK, Spoken
<1>4. CursorsOK
  BY DEF Inbox!Init, CursorsOK, SpeaksAlone
<1> QED
  BY <1>1, <1>2, <1>3, <1>4 DEF InboxInv

LEMMA InboxShows ==
    ASSUME InboxInv
    PROVE  Inbox!NoMissedWakeup /\ Inbox!NothingSkipped
BY DEF InboxInv, ServedOK, CursorsOK, SpeaksAlone, Past, Inbox!NoMissedWakeup,
       Inbox!NothingSkipped

----------------------------------------------------------------------------
\* What is after a number in a row of numbers.
LEMMA AfterNumber ==
    ASSUME NEW q \in Seq(Nat), NEW b \in Nat, \A i \in DOMAIN q : q[i] = b + i,
           NEW n \in Nat
    PROVE  /\ Inbox!After(q, n) \in Seq(Nat)
           /\ Inbox!After(q, n) = <<>> => \A i \in DOMAIN q : q[i] <= n
           /\ Inbox!After(q, n) # <<>> => q # <<>>
                /\ Inbox!Last(Inbox!After(q, n)) = q[Len(q)]
           /\ \A i \in DOMAIN q : q[i] > n => q[i] \in Inbox!ToSet(Inbox!After(q, n))
           /\ Inbox!ToSet(Inbox!After(q, n)) \subseteq Inbox!ToSet(q)
<1> DEFINE Right(k) == /\ \A i \in 1 .. k - 1 : q[i] <= n
                       /\ k <= Len(q) => q[k] > n
           p == CHOOSE k \in 1 .. Len(q) + 1 : Right(k)
           w == IF n <= b THEN 1 ELSE IF n >= b + Len(q) THEN Len(q) + 1 ELSE (n - b) + 1
<1>1. w \in 1 .. Len(q) + 1 /\ Right(w)
  OBVIOUS
<1>2. p \in 1 .. Len(q) + 1 /\ Right(p)
  <2> HIDE DEF w, Right
  <2> QED
    BY <1>1
<1>3. Inbox!After(q, n) = SubSeq(q, p, Len(q))
  BY DEF Inbox!After
<1> HIDE DEF p
<1>4. /\ SubSeq(q, p, Len(q)) \in Seq(Nat)
      /\ Len(SubSeq(q, p, Len(q))) = (Len(q) - p) + 1
      /\ \A i \in 1 .. (Len(q) - p) + 1 : SubSeq(q, p, Len(q))[i] = q[(i + p) - 1]
  BY <1>2
<1>5. ASSUME Inbox!After(q, n) = <<>> PROVE \A i \in DOMAIN q : q[i] <= n
  <2>1. Len(q) - p + 1 = 0
    BY <1>3, <1>4, <1>5
  <2> QED
    BY <2>1, <1>2
<1>6. ASSUME Inbox!After(q, n) # <<>> PROVE q # <<>>
               /\ Inbox!Last(Inbox!After(q, n)) = q[Len(q)]
  <2>1. Len(Inbox!After(q, n)) > 0 /\ Len(Inbox!After(q, n)) = (Len(q) - p) + 1
    BY <1>2, <1>3, <1>4, <1>6
  <2>2. Inbox!After(q, n)[(Len(q) - p) + 1] = q[Len(q)]
    BY <2>1, <1>2, <1>3, <1>4
  <2> QED
    BY <2>1, <2>2, <1>2 DEF Inbox!Last
<1>7. ASSUME NEW i \in DOMAIN q, q[i] > n PROVE q[i] \in Inbox!ToSet(Inbox!After(q, n))
  <2>1. i >= p
    BY <1>2, <1>7
  <2> DEFINE a == Inbox!After(q, n)
             m == (i - p) + 1
  <2> HIDE DEF w, Right
  <2>2. m \in 1 .. (Len(q) - p) + 1 /\ (m + p) - 1 = i
    BY <2>1, <1>2
  <2>3. a \in Seq(Nat) /\ Len(a) = (Len(q) - p) + 1 /\ a[m] = q[(m + p) - 1]
    <3> HIDE DEF m
    <3> QED
      BY <1>3, <1>4, <2>2
  <2>4. m \in DOMAIN a /\ a[m] = q[i]
    <3> HIDE DEF m, a
    <3> QED
      BY <2>2, <2>3
  <2> QED
    BY <2>4 DEF Inbox!ToSet
<1>8. ASSUME NEW x \in Inbox!ToSet(Inbox!After(q, n)) PROVE x \in Inbox!ToSet(q)
  <2> DEFINE a == Inbox!After(q, n)
  <2> HIDE DEF Right, w
  <2>1. a \in Seq(Nat) /\ Len(a) = (Len(q) - p) + 1
        /\ \A i \in 1 .. (Len(q) - p) + 1 : a[i] = q[(i + p) - 1]
    BY <1>3, <1>4
  <2>2. \A i \in 1 .. (Len(q) - p) + 1 : (i + p) - 1 \in DOMAIN q
    BY <1>2
  <2>3. PICK i \in DOMAIN a : x = a[i]
    BY <1>8 DEF Inbox!ToSet
  <2> HIDE DEF a
  <2>4. i \in 1 .. (Len(q) - p) + 1
    BY <2>1
  <2> QED
    BY <2>1, <2>2, <2>3, <2>4 DEF Inbox!ToSet
<1> QED
  BY <1>3, <1>4, <1>5, <1>6, <1>7, <1>8

\* A ring that gets the next number.
LEMMA RingGrows ==
    ASSUME InboxBounds, NEW q \in Seq(Nat), NEW n \in Nat, Ring(q, n),
           Full(q, n) \/ n = 0
    PROVE  /\ Inbox!Trim(Append(q, n + 1)) \in Seq(Nat)
           /\ Ring(Inbox!Trim(Append(q, n + 1)), n + 1)
           /\ Full(Inbox!Trim(Append(q, n + 1)), n + 1)
<1> DEFINE a == Append(q, n + 1)
<1>1. a \in Seq(Nat) /\ Len(a) = Len(q) + 1
      /\ \A i \in DOMAIN a : a[i] = (n - Len(q)) + i
  BY DEF Ring
<1> HIDE DEF a
<1>2. CASE Len(a) > EVENTS_MAX
  <2>1. Inbox!Trim(a) = Tail(a)
    BY <1>2 DEF Inbox!Trim
  <2>2. Tail(a) \in Seq(Nat) /\ Len(Tail(a)) = Len(q)
        /\ \A i \in DOMAIN Tail(a) : Tail(a)[i] = a[i + 1] /\ i + 1 \in DOMAIN a
    BY <1>1
  <2>3. Len(q) = EVENTS_MAX /\ Len(q) <= n
    BY <1>1, <1>2 DEF Ring, InboxBounds
  <2> DEFINE t == Tail(a)
  <2>4. \A i \in DOMAIN t : t[i] = ((n + 1) - Len(t)) + i
    BY <1>1, <2>2, <2>3
  <2>5. t \in Seq(Nat) /\ Len(t) = EVENTS_MAX /\ Len(t) <= n + 1 /\ Len(t) <= EVENTS_MAX
    BY <2>2, <2>3
  <2>6. Inbox!Trim(a) = t
    BY <2>1
  <2> HIDE DEF t
  <2>7. Inbox!Trim(a) \in Seq(Nat) /\ Ring(Inbox!Trim(a), n + 1)
          /\ Full(Inbox!Trim(a), n + 1)
    BY <2>4, <2>5, <2>6 DEF Ring, Full
  <2> QED
    BY <2>7 DEF a
<1>3. CASE ~ (Len(a) > EVENTS_MAX)
  <2>1. Inbox!Trim(a) = a
    BY <1>3 DEF Inbox!Trim
  <2>2. Len(q) = n
    BY <1>1, <1>3 DEF Ring, Full, InboxBounds
  <2> QED
    BY <1>1, <1>3, <2>1, <2>2 DEF Ring, Full, InboxBounds, a
<1> QED
  BY <1>2, <1>3
----------------------------------------------------------------------------
\* What somebody has seen, or nobody can see any more, stays so.
LEMMA PastStays ==
    ASSUME InboxTypes, InboxBounds, seq' \in [Daemons -> Nat],
           NEW d \in Daemons, seq'[d] >= seq[d],
           NEW s \in Inbox!Streams, printed[s] \subseteq printed'[s],
           NEW n \in Nat, Past(n, s, d)
    PROVE  Past(n, s, d)'
BY DEF Past, InboxTypes, InboxBounds

\* A daemon that runs, or begins to, speaks.
LEMMA EmitKeeps ==
    ASSUME InboxBounds, InboxInv, NEW d \in Daemons, Inbox!Emit(d),
           UNCHANGED Inbox!readVars,
           \/ Inbox!Running(d) /\ UNCHANGED life
           \/ life[d] = "spawned" /\ life' = [life EXCEPT ![d] = "up"],
           bound' \in Daemons \cup {Nobody}
    PROVE  InboxInv'
<1> USE DEF InboxInv
<1>1. /\ from' = from /\ since' = since /\ answer' = answer
      /\ cursor' = cursor /\ printed' = printed
  BY DEF Inbox!readVars
<1>2. Full(events[d], seq[d]) \/ seq[d] = 0
  BY DEF RingsOK
<1>3. /\ seq' \in [Daemons -> Nat] /\ seq'[d] = seq[d] + 1
      /\ \A e \in Daemons \ {d} : seq'[e] = seq[e]
  BY DEF Inbox!Emit, InboxTypes
<1>4. /\ Ring(events'[d], seq'[d]) /\ Full(events'[d], seq'[d])
      /\ events' \in [Daemons -> Seq(Nat)]
      /\ \A e \in Daemons \ {d} : events'[e] = events[e]
  <2>1. events' = [events EXCEPT ![d] = Inbox!Trim(Append(events[d], seq[d] + 1))]
    BY DEF Inbox!Emit
  <2>2. events[d] \in Seq(Nat) /\ seq[d] \in Nat /\ Ring(events[d], seq[d])
    BY DEF InboxTypes, RingsOK
  <2> QED
    BY <1>2, <1>3, <2>1, <2>2, RingGrows DEF InboxTypes
<1>5. /\ \A r \in Inbox!Readers : pc'[r] = IF from[r] = d /\ pc[r] = "waiting"
                                           THEN "woken" ELSE pc[r]
      /\ pc' \in [Inbox!Readers -> {"idle", "sent", "waiting", "woken", "answered", "printed"}]
  BY DEF Inbox!Emit, InboxTypes
<1>6. /\ life' \in [Daemons -> {"unborn", "spawned", "up", "stopping", "gone"}]
      /\ \A e \in Daemons : e # d => life'[e] = life[e]
      /\ Inbox!Running(d)' /\ \A e \in Daemons : Inbox!Running(e) => Inbox!Running(e)'
  BY DEF InboxTypes, Inbox!Running
<1>7. InboxTypes'
  BY <1>1, <1>3, <1>4, <1>5, <1>6 DEF InboxTypes
<1>8. RingsOK'
  <2> SUFFICES ASSUME NEW e \in Daemons
               PROVE  /\ Ring(events'[e], seq'[e])
                      /\ Inbox!Running(e)' => Full(events'[e], seq'[e])
                      /\ life'[e] \in {"unborn", "spawned"} => seq'[e] = 0
    BY DEF RingsOK
  <2>1. CASE e = d
    BY <1>4, <1>6, <2>1 DEF Inbox!Running
  <2>2. CASE e # d
    BY <1>3, <1>4, <1>6, <2>2 DEF Inbox!Running, RingsOK
  <2> QED
    BY <2>1, <2>2
<1>9. ServedOK'
  <2> SUFFICES ASSUME NEW r \in Inbox!Readers
               PROVE  /\ pc'[r] # "idle" => from[r] \in Daemons /\ seq'[from[r]] > 0
                      /\ pc'[r] \in {"sent", "waiting", "woken"} => Inbox!Running(from[r])'
                      /\ pc'[r] = "waiting" =>
                            \A n \in Inbox!ToSet(events'[from[r]]) : n <= since[r]
                      /\ pc'[r] = "printed" =>
                            r \in Cli /\ Inbox!ToSet(answer[r].new) \subseteq printed["cli"]
    BY <1>1, Zenon DEF ServedOK
  <2>1. pc'[r] # "idle" => from[r] \in Daemons /\ seq'[from[r]] > 0
    BY <1>3, <1>5 DEF ServedOK, InboxTypes
  <2>2. pc'[r] \in {"sent", "waiting", "woken"} => Inbox!Running(from[r])'
    BY <1>1, <1>5, <1>6 DEF ServedOK, Inbox!Running
  <2>3. pc'[r] = "waiting" => \A n \in Inbox!ToSet(events'[from[r]]) : n <= since[r]
    BY <1>4, <1>5 DEF ServedOK
  <2> QED
    BY <1>5, <2>1, <2>2, <2>3 DEF ServedOK
<1>10. Spoken'
  BY <1>1, <1>3 DEF Spoken, InboxTypes
<1>11. CursorsOK'
  <2> SUFFICES ASSUME NEW e \in Daemons, SpeaksAlone(e)'
               PROVE  /\ \A s \in Inbox!Streams : \A n \in 1 .. cursor[s] : Past(n, s, e)'
                      /\ \A r \in Inbox!Readers : pc'[r] # "idle" =>
                            \A n \in 1 .. since[r] : Past(n, Inbox!Stream(r), e)'
                      /\ \A r \in Inbox!Readers : pc'[r] \in {"answered", "printed"} =>
                            \A n \in Nat : n > since[r] /\ Within(n, answer[r]) =>
                                n \in Inbox!ToSet(answer[r].new)
                                  \/ n + EVENTS_MAX <= seq'[e]
    BY <1>1, Zenon DEF CursorsOK, Inbox!Stream, Within
  <2>1. e = d
    BY <1>3 DEF SpeaksAlone, InboxTypes
  <2>2. CASE seq[d] = 0
    <3>1. \A f \in Daemons : seq[f] = 0
      BY <1>3, <2>1, <2>2 DEF SpeaksAlone, InboxTypes
    <3>2. \A s \in Inbox!Streams : cursor[s] = 0
      <4>1. ~ \E f \in Daemons : seq[f] > 0
        BY <3>1
      <4>2. \A s \in Inbox!Streams : ~ (cursor[s] > 0)
        BY <4>1, Zenon DEF Spoken
      <4>3. \A s \in Inbox!Streams : cursor[s] \in Nat
        BY DEF InboxTypes
      <4> QED
        BY <4>2, <4>3
    <3>3. \A r \in Inbox!Readers : pc[r] = "idle"
      BY <3>1 DEF ServedOK
    <3> QED
      BY <3>2, <3>3, <1>5
  <2>3. CASE seq[d] # 0
    <3>1. SpeaksAlone(d)
      BY <1>3, <2>1, <2>3 DEF SpeaksAlone, InboxTypes
    <3>2. \A s \in Inbox!Streams : \A n \in Nat : Past(n, s, d) => Past(n, s, d)'
      BY <1>1, <1>3 DEF Past, InboxTypes, InboxBounds
    <3>3. \A r \in Inbox!Readers : Inbox!Stream(r) \in Inbox!Streams
      BY DEF Inbox!Stream, Inbox!Streams, Inbox!Readers
    <3>4. \A r \in Inbox!Readers : /\ pc'[r] # "idle" => pc[r] # "idle"
                                   /\ pc'[r] \in {"answered", "printed"} =>
                                         pc[r] \in {"answered", "printed"}
      BY <1>5
    <3>5. \A n \in Nat : n + EVENTS_MAX <= seq[d] => n + EVENTS_MAX <= seq'[d]
      BY <1>3 DEF InboxTypes, InboxBounds
    <3>6. \A s \in Inbox!Streams : 1 .. cursor[s] \subseteq Nat
      BY DEF InboxTypes
    <3>7. \A r \in Inbox!Readers : 1 .. since[r] \subseteq Nat
      BY DEF InboxTypes
    <3> QED
      BY <2>1, <3>1, <3>2, <3>3, <3>4, <3>5, <3>6, <3>7 DEF CursorsOK
  <2> QED
    BY <2>2, <2>3
<1> QED
  BY <1>7, <1>8, <1>9, <1>10, <1>11

----------------------------------------------------------------------------
\* What a daemon does without speaking, and its end.
LEMMA LifeKeeps ==
    ASSUME InboxBounds, InboxInv, NEW d \in Daemons, Inbox!Up(d) \/ Inbox!Down(d)
    PROVE  InboxInv'
<1> USE DEF InboxInv
<1>1. /\ from' = from /\ since' = since /\ answer' = answer
      /\ cursor' = cursor /\ printed' = printed /\ pc' = pc
      /\ seq' = seq /\ events' = events
  BY DEF Inbox!Up, Inbox!Down, Inbox!readVars
<1>2. /\ life' \in [Daemons -> {"unborn", "spawned", "up", "stopping", "gone"}]
      /\ bound' \in Daemons \cup {Nobody}
      /\ \A e \in Daemons : Inbox!Running(e)' <=> Inbox!Running(e)
      /\ \A e \in Daemons : life'[e] \in {"unborn", "spawned"} =>
             life[e] \in {"unborn", "spawned"}
  BY DEF Inbox!Up, Inbox!Down, InboxTypes, Inbox!Running
<1>3. InboxTypes'
  BY <1>1, <1>2 DEF InboxTypes
<1>4. RingsOK'
  <2>1. \A e \in Daemons : /\ Ring(events[e], seq[e])
                           /\ Inbox!Running(e)' => Full(events[e], seq[e])
                           /\ life'[e] \in {"unborn", "spawned"} => seq[e] = 0
    BY <1>2 DEF RingsOK
  <2> QED
    BY <1>1, <2>1, Zenon DEF RingsOK
<1>5. ServedOK'
  <2>1. \A r \in Inbox!Readers : pc[r] \in {"sent", "waiting", "woken"} =>
          Inbox!Running(from[r])'
    BY <1>1, <1>2 DEF ServedOK, Inbox!Running
  <2> QED
    BY <1>1, <2>1, Zenon DEF ServedOK
<1>6. Spoken' /\ CursorsOK'
  BY <1>1 DEF Spoken, CursorsOK, SpeaksAlone, Past, Within
<1> QED
  BY <1>3, <1>4, <1>5, <1>6

LEMMA EndKeeps ==
    ASSUME InboxBounds, InboxInv, NEW d \in Daemons, Inbox!Finish(d) \/ Inbox!Crash(d)
    PROVE  InboxInv'
<1> USE DEF InboxInv
<1> DEFINE lost == {r \in Inbox!Readers : from[r] = d
             /\ pc[r] \in {"sent", "waiting", "woken"}}
<1>1. Inbox!Hangup(d) /\ life' = [life EXCEPT ![d] = "gone"]
        /\ bound' \in Daemons \cup {Nobody}
  BY DEF Inbox!Finish, Inbox!Crash, InboxTypes
<1>2. /\ seq' = seq /\ answer' = answer /\ cursor' = cursor /\ printed' = printed
      /\ events' = [events EXCEPT ![d] = <<>>]
      /\ \A r \in lost : pc'[r] = "idle" /\ from'[r] = Nobody /\ since'[r] = 0
      /\ \A r \in Inbox!Readers \ lost : pc'[r] = pc[r] /\ from'[r] = from[r]
           /\ since'[r] = since[r]
      /\ pc' \in [Inbox!Readers -> {"idle", "sent", "waiting", "woken", "answered", "printed"}]
      /\ from' \in [Inbox!Readers -> Daemons \cup {Nobody}]
      /\ since' \in [Inbox!Readers -> Nat]
  BY <1>1 DEF Inbox!Hangup, InboxTypes
<1>3. /\ life' \in [Daemons -> {"unborn", "spawned", "up", "stopping", "gone"}]
      /\ ~ Inbox!Running(d)' /\ life'[d] = "gone"
      /\ \A e \in Daemons \ {d} : life'[e] = life[e] /\ events'[e] = events[e]
      /\ events'[d] = <<>> /\ events' \in [Daemons -> Seq(Nat)]
  BY <1>1, <1>2 DEF InboxTypes, Inbox!Running
<1>4. InboxTypes'
  BY <1>1, <1>2, <1>3 DEF InboxTypes
<1>5. RingsOK'
  <2> SUFFICES ASSUME NEW e \in Daemons
               PROVE  /\ Ring(events'[e], seq[e])
                      /\ Inbox!Running(e)' => Full(events'[e], seq[e])
                      /\ life'[e] \in {"unborn", "spawned"} => seq[e] = 0
    BY <1>2 DEF RingsOK
  <2>1. CASE e = d
    <3>1. Ring(<<>>, seq[d])
      BY DEF Ring, InboxTypes, InboxBounds
    <3> QED
      BY <3>1, <1>3, <2>1
  <2>2. CASE e # d
    BY <1>3, <2>2 DEF RingsOK, Inbox!Running
  <2> QED
    BY <2>1, <2>2
<1> HIDE DEF lost
<1>6. ServedOK'
  <2> SUFFICES ASSUME NEW r \in Inbox!Readers, pc'[r] # "idle"
               PROVE  /\ from'[r] \in Daemons /\ seq[from'[r]] > 0
                      /\ pc'[r] \in {"sent", "waiting", "woken"} => Inbox!Running(from[r])'
                      /\ pc'[r] = "waiting" =>
                            \A n \in Inbox!ToSet(events'[from'[r]]) : n <= since'[r]
                      /\ pc'[r] = "printed" =>
                            r \in Cli /\ Inbox!ToSet(answer[r].new) \subseteq printed["cli"]
    BY <1>2 DEF ServedOK
  <2>1. r \notin lost /\ pc'[r] = pc[r] /\ from'[r] = from[r] /\ since'[r] = since[r]
    BY <1>2
  <2>2. pc[r] \in {"sent", "waiting", "woken"} => from[r] # d
    BY <2>1 DEF lost
  <2> QED
    BY <1>3, <2>1, <2>2 DEF ServedOK, Inbox!Running
<1>7. Spoken'
  BY <1>2 DEF Spoken
<1>8. CursorsOK'
  <2> SUFFICES ASSUME NEW e \in Daemons, SpeaksAlone(e)
               PROVE  /\ \A s \in Inbox!Streams : \A n \in 1 .. cursor[s] : Past(n, s, e)
                      /\ \A r \in Inbox!Readers : pc'[r] # "idle" =>
                            \A n \in 1 .. since'[r] : Past(n, Inbox!Stream(r), e)
                      /\ \A r \in Inbox!Readers : pc'[r] \in {"answered", "printed"} =>
                            \A n \in Nat : n > since'[r] /\ Within(n, answer[r]) =>
                                n \in Inbox!ToSet(answer[r].new) \/ n + EVENTS_MAX <= seq[e]
    BY <1>2 DEF CursorsOK, SpeaksAlone, Past, Inbox!Stream, Within
  <2>1. \A r \in Inbox!Readers : pc'[r] # "idle" => pc'[r] = pc[r] /\ since'[r] = since[r]
    BY <1>2
  <2> QED
    BY <2>1 DEF CursorsOK
<1> QED
  BY <1>4, <1>5, <1>6, <1>7, <1>8

----------------------------------------------------------------------------
\* A reader begins or takes its place in the line of those who wait.
LEMMA ReadKeeps ==
    ASSUME InboxBounds, InboxInv, NEW r \in Inbox!Readers, Inbox!Read(r)
    PROVE  InboxInv'
<1> USE DEF InboxInv
<1>1. /\ UNCHANGED <<life, bound, seq, events, answer, cursor, printed>>
      /\ bound \in Daemons /\ Inbox!Running(bound) /\ Inbox!Stream(r) \in Inbox!Streams
      /\ pc' = [pc EXCEPT ![r] = "sent"] /\ from' = [from EXCEPT ![r] = bound]
      /\ since' = [since EXCEPT ![r] = cursor[Inbox!Stream(r)]]
  BY DEF Inbox!Read, Inbox!daemonVars, InboxTypes, InboxBounds, Inbox!Stream,
         Inbox!Streams, Inbox!Readers
<1>2. /\ pc'[r] = "sent" /\ from'[r] = bound /\ since'[r] = cursor[Inbox!Stream(r)]
      /\ \A o \in Inbox!Readers \ {r} : pc'[o] = pc[o] /\ from'[o] = from[o]
           /\ since'[o] = since[o]
      /\ pc' \in [Inbox!Readers -> {"idle", "sent", "waiting", "woken", "answered", "printed"}]
      /\ from' \in [Inbox!Readers -> Daemons \cup {Nobody}]
      /\ since' \in [Inbox!Readers -> Nat]
  BY <1>1 DEF InboxTypes
<1>3. InboxTypes'
  BY <1>1, <1>2 DEF InboxTypes
<1>4. RingsOK' /\ Spoken'
  BY <1>1 DEF RingsOK, Inbox!Running, Spoken
<1>5. ServedOK'
  <2> SUFFICES ASSUME NEW o \in Inbox!Readers
               PROVE  /\ pc'[o] # "idle" => from'[o] \in Daemons /\ seq[from'[o]] > 0
                      /\ pc'[o] \in {"sent", "waiting", "woken"} => Inbox!Running(from'[o])
                      /\ pc'[o] = "waiting" =>
                            \A n \in Inbox!ToSet(events[from'[o]]) : n <= since'[o]
                      /\ pc'[o] = "printed" =>
                            o \in Cli /\ Inbox!ToSet(answer[o].new) \subseteq printed["cli"]
    BY <1>1 DEF ServedOK, Inbox!Running
  <2>1. CASE o = r
    BY <1>1, <1>2, <2>1 DEF RingsOK, Full
  <2>2. CASE o # r
    BY <1>2, <2>2 DEF ServedOK
  <2> QED
    BY <2>1, <2>2
<1>6. CursorsOK'
  <2> SUFFICES ASSUME NEW d \in Daemons, SpeaksAlone(d)
               PROVE  /\ \A s \in Inbox!Streams : \A n \in 1 .. cursor[s] : Past(n, s, d)
                      /\ \A o \in Inbox!Readers : pc'[o] # "idle" =>
                            \A n \in 1 .. since'[o] : Past(n, Inbox!Stream(o), d)
                      /\ \A o \in Inbox!Readers : pc'[o] \in {"answered", "printed"} =>
                            \A n \in Nat : n > since'[o] /\ Within(n, answer[o]) =>
                                n \in Inbox!ToSet(answer[o].new) \/ n + EVENTS_MAX <= seq[d]
    BY <1>1 DEF CursorsOK, SpeaksAlone, Past, Inbox!Stream, Within
  <2>1. \A n \in 1 .. since'[r] : Past(n, Inbox!Stream(r), d)
    BY <1>1, <1>2 DEF CursorsOK
  <2> QED
    BY <1>2, <2>1 DEF CursorsOK
<1> QED
  BY <1>3, <1>4, <1>5, <1>6

\* What an answer holds, and how far it goes.
LEMMA AnswerReaches ==
    ASSUME InboxBounds, InboxInv, NEW r \in Inbox!Readers,
           pc[r] \in {"sent", "waiting", "woken"}
    PROVE  /\ Inbox!New(r) \in Seq(Nat) /\ seq[from[r]] \in Nat
           /\ Inbox!New(r) = <<>> => \A n \in Inbox!ToSet(events[from[r]]) : n <= since[r]
           /\ \A n \in Nat :
                 n > since[r] /\ Within(n, [new |-> Inbox!New(r), seq |-> seq[from[r]]]) =>
                     n \in Inbox!ToSet(Inbox!New(r)) \/ n + EVENTS_MAX <= seq[from[r]]
<1> DEFINE d == from[r]
           q == events[d]
           b == seq[d] - Len(q)
<1>1. d \in Daemons /\ Inbox!Running(d) /\ Ring(q, seq[d]) /\ Full(q, seq[d])
      /\ q \in Seq(Nat) /\ seq[d] \in Nat /\ since[r] \in Nat
  BY DEF InboxInv, ServedOK, RingsOK, InboxTypes
<1>2. b \in Nat /\ \A i \in DOMAIN q : q[i] = b + i
  BY <1>1 DEF Ring
<1>3. Inbox!New(r) = Inbox!After(q, since[r])
  BY DEF Inbox!New
<1> HIDE DEF d, q, b
<1>4. /\ Inbox!New(r) \in Seq(Nat)
      /\ Inbox!New(r) = <<>> => \A i \in DOMAIN q : q[i] <= since[r]
      /\ Inbox!New(r) # <<>> => q # <<>> /\ Inbox!Last(Inbox!New(r)) = q[Len(q)]
      /\ \A i \in DOMAIN q : q[i] > since[r] => q[i] \in Inbox!ToSet(Inbox!New(r))
  BY <1>1, <1>2, <1>3, AfterNumber
<1>5. Len(q) \in Nat /\ seq[d] = b + Len(q) /\ (b = 0 \/ Len(q) = EVENTS_MAX) /\ seq[d] > 0
  BY <1>1 DEF Full, b
<1>6. ASSUME NEW n \in Nat, n > since[r],
             Within(n, [new |-> Inbox!New(r), seq |-> seq[d]])
      PROVE  n \in Inbox!ToSet(Inbox!New(r)) \/ n + EVENTS_MAX <= seq[d]
  <2>1. n <= seq[d]
    <3>1. CASE Inbox!New(r) = <<>>
      BY <1>6, <3>1 DEF Within
    <3>2. CASE Inbox!New(r) # <<>>
      <4>1. Len(q) \in DOMAIN q
        BY <1>1, <1>4, <3>2
      <4> QED
        BY <1>2, <1>4, <1>5, <1>6, <3>2, <4>1 DEF Within
    <3> QED
      BY <3>1, <3>2
  <2>2. CASE n > b
    <3>1. n - b \in DOMAIN q /\ q[n - b] = n
      BY <1>1, <1>2, <1>5, <2>1, <2>2
    <3> QED
      BY <3>1, <1>4, <1>6
  <2>3. CASE ~ (n > b)
    BY <2>3, <1>1, <1>2, <1>5, <1>6 DEF InboxBounds
  <2> QED
    BY <2>2, <2>3
<1>7. Inbox!New(r) = <<>> => \A n \in Inbox!ToSet(q) : n <= since[r]
  BY <1>4 DEF Inbox!ToSet
<1> QED
  BY <1>1, <1>4, <1>6, <1>7 DEF d, q

LEMMA AnswerKeeps ==
    ASSUME InboxBounds, InboxInv, NEW r \in Inbox!Readers,
           pc[r] \in {"sent", "waiting", "woken"}, Inbox!Answered(r)
    PROVE  InboxInv'
<1> USE DEF InboxInv
<1> DEFINE a == [new |-> Inbox!New(r), seq |-> seq[from[r]]]
<1>1. /\ UNCHANGED <<life, bound, seq, events, from, since, cursor, printed>>
      /\ pc' = [pc EXCEPT ![r] = "answered"] /\ answer' = [answer EXCEPT ![r] = a]
  BY DEF Inbox!Answered, Inbox!daemonVars
<1>2. /\ a \in [new : Seq(Nat), seq : Nat] /\ a.new = Inbox!New(r)
      /\ \A n \in Nat : n > since[r] /\ Within(n, a) =>
            n \in Inbox!ToSet(Inbox!New(r)) \/ n + EVENTS_MAX <= seq[from[r]]
  BY AnswerReaches
<1> HIDE DEF a
<1>3. /\ pc'[r] = "answered" /\ answer'[r] = a
      /\ \A o \in Inbox!Readers \ {r} : pc'[o] = pc[o] /\ answer'[o] = answer[o]
      /\ pc' \in [Inbox!Readers -> {"idle", "sent", "waiting", "woken", "answered", "printed"}]
      /\ answer' \in [Inbox!Readers -> [new : Seq(Nat), seq : Nat]]
  BY <1>1, <1>2 DEF InboxTypes
<1>4. InboxTypes'
  BY <1>1, <1>3 DEF InboxTypes
<1>5. RingsOK' /\ Spoken'
  BY <1>1 DEF RingsOK, Inbox!Running, Spoken
<1>6. ServedOK'
  <2> SUFFICES ASSUME NEW o \in Inbox!Readers
               PROVE  /\ pc'[o] # "idle" => from[o] \in Daemons /\ seq[from[o]] > 0
                      /\ pc'[o] \in {"sent", "waiting", "woken"} => Inbox!Running(from[o])
                      /\ pc'[o] = "waiting" =>
                            \A n \in Inbox!ToSet(events[from[o]]) : n <= since[o]
                      /\ pc'[o] = "printed" =>
                            o \in Cli /\ Inbox!ToSet(answer'[o].new) \subseteq printed["cli"]
    BY <1>1 DEF ServedOK, Inbox!Running
  <2>1. CASE o = r
    BY <1>3, <2>1 DEF ServedOK
  <2>2. CASE o # r
    BY <1>3, <2>2 DEF ServedOK
  <2> QED
    BY <2>1, <2>2
<1>7. CursorsOK'
  <2> SUFFICES ASSUME NEW d \in Daemons, SpeaksAlone(d)
               PROVE  /\ \A s \in Inbox!Streams : \A n \in 1 .. cursor[s] : Past(n, s, d)
                      /\ \A o \in Inbox!Readers : pc'[o] # "idle" =>
                            \A n \in 1 .. since[o] : Past(n, Inbox!Stream(o), d)
                      /\ \A o \in Inbox!Readers : pc'[o] \in {"answered", "printed"} =>
                            \A n \in Nat : n > since[o] /\ Within(n, answer'[o]) =>
                                n \in Inbox!ToSet(answer'[o].new)
                                  \/ n + EVENTS_MAX <= seq[d]
    BY <1>1 DEF CursorsOK, SpeaksAlone, Past, Inbox!Stream, Within
  <2>1. \A o \in Inbox!Readers : pc'[o] # "idle" => pc[o] # "idle"
    BY <1>3
  <2>2. from[r] = d
    BY DEF ServedOK, SpeaksAlone
  <2>3. \A n \in Nat : n > since[r] /\ Within(n, answer'[r]) =>
                           n \in Inbox!ToSet(answer'[r].new) \/ n + EVENTS_MAX <= seq[d]
    BY <1>2, <1>3, <2>2
  <2> QED
    BY <1>3, <2>1, <2>3 DEF CursorsOK
<1> QED
  BY <1>4, <1>5, <1>6, <1>7

LEMMA ServeKeeps ==
    ASSUME InboxBounds, InboxInv, NEW r \in Inbox!Readers,
           Inbox!Serve(r, TRUE) \/ Inbox!Serve(r, FALSE) \/ Inbox!Resume(r)
    PROVE  InboxInv'
<1> USE DEF InboxInv
<1>1. CASE pc[r] \in {"sent", "waiting", "woken"} /\ Inbox!Answered(r)
  BY <1>1, AnswerKeeps
<1>2. CASE pc[r] = "sent" /\ Inbox!New(r) = <<>> /\ pc' = [pc EXCEPT ![r] = "waiting"]
           /\ UNCHANGED Inbox!daemonVars /\ UNCHANGED <<seq, events>>
                /\ UNCHANGED Inbox!readVars
  <2>1. UNCHANGED <<life, bound, seq, events, from, since, answer, cursor, printed>>
    BY <1>2 DEF Inbox!daemonVars, Inbox!readVars
  <2>2. /\ pc'[r] = "waiting" /\ \A o \in Inbox!Readers \ {r} : pc'[o] = pc[o]
        /\ pc' \in [Inbox!Readers -> {"idle", "sent", "waiting", "woken", "answered", "printed"}]
    BY <1>2 DEF InboxTypes
  <2>3. InboxTypes' /\ RingsOK' /\ Spoken'
    BY <2>1, <2>2 DEF InboxTypes, RingsOK, Inbox!Running, Spoken
  <2>4. \A n \in Inbox!ToSet(events[from[r]]) : n <= since[r]
    BY <1>2, AnswerReaches
  <2>5. ServedOK'
    BY <1>2, <2>1, <2>2, <2>4 DEF ServedOK, Inbox!Running
  <2>6. \A o \in Inbox!Readers : /\ pc'[o] # "idle" => pc[o] # "idle"
                                 /\ pc'[o] \in {"answered", "printed"} => pc'[o] = pc[o]
    BY <1>2, <2>2
  <2>7. CursorsOK'
    BY <2>1, <2>6 DEF CursorsOK, SpeaksAlone, Past, Within, Inbox!Stream
  <2> QED
    BY <2>3, <2>5, <2>7
<1> QED
  BY <1>1, <1>2 DEF Inbox!Serve, Inbox!Resume

----------------------------------------------------------------------------
\* A reader is back, and has shown what its cursor has passed.
LEMMA BackKeeps ==
    ASSUME InboxBounds, InboxInv, NEW r \in Inbox!Readers, pc[r] # "idle", Inbox!Back(r),
           cursor' \in [Inbox!Streams -> Nat], printed' \in [Inbox!Streams -> SUBSET Nat],
           \A s \in Inbox!Streams : printed[s] \subseteq printed'[s],
           \A d \in Daemons : SpeaksAlone(d) =>
               \A s \in Inbox!Streams : \A n \in 1 .. cursor'[s] :
                   n \in printed'[s] \/ n + EVENTS_MAX <= seq[d]
    PROVE  InboxInv'
<1> USE DEF InboxInv
<1>1. /\ UNCHANGED <<life, bound, seq, events>>
      /\ pc' = [pc EXCEPT ![r] = "idle"] /\ from' = [from EXCEPT ![r] = Nobody]
      /\ since' = [since EXCEPT ![r] = 0] /\ answer' = [answer EXCEPT ![r] = Inbox!NoAnswer]
  BY DEF Inbox!Back, Inbox!daemonVars
<1>2. /\ pc'[r] = "idle"
      /\ \A o \in Inbox!Readers \ {r} : /\ pc'[o] = pc[o] /\ from'[o] = from[o]
                                        /\ since'[o] = since[o] /\ answer'[o] = answer[o]
      /\ pc' \in [Inbox!Readers -> {"idle", "sent", "waiting", "woken", "answered", "printed"}]
      /\ from' \in [Inbox!Readers -> Daemons \cup {Nobody}]
      /\ since' \in [Inbox!Readers -> Nat]
           /\ answer' \in [Inbox!Readers -> [new : Seq(Nat), seq : Nat]]
  BY <1>1 DEF InboxTypes, Inbox!NoAnswer
<1>3. InboxTypes'
  BY <1>1, <1>2 DEF InboxTypes
<1>4. RingsOK'
  BY <1>1 DEF RingsOK, Inbox!Running
<1>5. Spoken'
  <2>1. \E d \in Daemons : seq[d] > 0
    BY DEF ServedOK
  <2> QED
    BY <1>1, <2>1 DEF Spoken
<1>6. ServedOK'
  <2> SUFFICES ASSUME NEW o \in Inbox!Readers, o # r
               PROVE  /\ pc'[o] # "idle" => from'[o] \in Daemons /\ seq[from'[o]] > 0
                      /\ pc'[o] \in {"sent", "waiting", "woken"} => Inbox!Running(from'[o])
                      /\ pc'[o] = "waiting" =>
                            \A n \in Inbox!ToSet(events[from'[o]]) : n <= since'[o]
                      /\ pc'[o] = "printed" =>
                            o \in Cli /\ Inbox!ToSet(answer'[o].new) \subseteq printed'["cli"]
    BY <1>1, <1>2 DEF ServedOK, Inbox!Running
  <2>1. "cli" \in Inbox!Streams
    BY DEF Inbox!Streams
  <2> QED
    BY <1>2, <2>1 DEF ServedOK
<1>7. CursorsOK'
  <2> SUFFICES ASSUME NEW d \in Daemons, SpeaksAlone(d)
               PROVE  /\ \A s \in Inbox!Streams : \A n \in 1 .. cursor'[s] : Past(n, s, d)'
                      /\ \A o \in Inbox!Readers : pc'[o] # "idle" =>
                            \A n \in 1 .. since'[o] : Past(n, Inbox!Stream(o), d)'
                      /\ \A o \in Inbox!Readers : pc'[o] \in {"answered", "printed"} =>
                            \A n \in Nat : n > since'[o] /\ Within(n, answer'[o]) =>
                                n \in Inbox!ToSet(answer'[o].new)
                                  \/ n + EVENTS_MAX <= seq[d]
    BY <1>1 DEF CursorsOK, SpeaksAlone, Inbox!Stream, Within
  <2>1. \A s \in Inbox!Streams : \A n : Past(n, s, d) => Past(n, s, d)'
    BY <1>1 DEF Past
  <2>2. \A o \in Inbox!Readers : Inbox!Stream(o) \in Inbox!Streams
    BY DEF Inbox!Stream, Inbox!Streams, Inbox!Readers
  <2>3. \A s \in Inbox!Streams : \A n \in 1 .. cursor'[s] : Past(n, s, d)'
    BY <1>1 DEF Past
  <2> QED
    BY <1>2, <2>1, <2>2, <2>3 DEF CursorsOK
<1> QED
  BY <1>3, <1>4, <1>5, <1>6, <1>7

\* The last of a sequence of numbers is one.
LEMMA LastNumber ==
    ASSUME NEW q \in Seq(Nat), q # <<>>
    PROVE  Inbox!Last(q) \in Nat
BY DEF Inbox!Last

\* What an answer reaches, its events and what was shown before it are past.
LEMMA PastAnswer ==
    ASSUME InboxBounds, InboxInv, NEW r \in Inbox!Readers,
           pc[r] \in {"answered", "printed"},
           NEW d \in Daemons, SpeaksAlone(d), NEW n \in Nat, n > 0,
           n <= since[r] \/ Within(n, answer[r])
    PROVE  n \in printed[Inbox!Stream(r)] \cup Inbox!ToSet(answer[r].new)
             \/ n + EVENTS_MAX <= seq[d]
<1>1. since[r] \in Nat
  BY DEF InboxInv, InboxTypes
<1>2. CASE n <= since[r]
  <2>1. n \in 1 .. since[r]
    BY <1>1, <1>2
  <2> QED
    BY <2>1 DEF InboxInv, CursorsOK, Past
<1>3. CASE n > since[r] /\ Within(n, answer[r])
  BY <1>3 DEF InboxInv, CursorsOK
<1> QED
  BY <1>1, <1>2, <1>3

LEMMA PrintKeeps ==
    ASSUME InboxBounds, InboxInv, NEW r \in Inbox!Readers, Inbox!PrintOut(r)
    PROVE  InboxInv'
<1> USE DEF InboxInv
<1>1. /\ UNCHANGED <<life, bound, seq, events, from, since, answer, cursor>>
      /\ r \in Cli /\ pc[r] = "answered" /\ pc' = [pc EXCEPT ![r] = "printed"]
      /\ printed' = [printed EXCEPT !["cli"] = @ \cup Inbox!ToSet(answer[r].new)]
  BY DEF Inbox!PrintOut, Inbox!daemonVars
<1>2. "cli" \in Inbox!Streams /\ Inbox!ToSet(answer[r].new) \subseteq Nat
  <2>1. answer[r].new \in Seq(Nat)
    BY DEF InboxTypes
  <2> QED
    BY <2>1 DEF Inbox!Streams, Inbox!ToSet
<1>3. /\ printed' \in [Inbox!Streams -> SUBSET Nat]
           /\ \A s \in Inbox!Streams : printed[s] \subseteq printed'[s]
      /\ Inbox!ToSet(answer[r].new) \subseteq printed'["cli"]
  BY <1>1, <1>2 DEF InboxTypes
<1>4. /\ pc'[r] = "printed" /\ \A o \in Inbox!Readers \ {r} : pc'[o] = pc[o]
      /\ pc' \in [Inbox!Readers -> {"idle", "sent", "waiting", "woken", "answered", "printed"}]
  BY <1>1 DEF InboxTypes
<1>5. InboxTypes' /\ RingsOK' /\ Spoken'
  BY <1>1, <1>3, <1>4 DEF InboxTypes, RingsOK, Inbox!Running, Spoken
<1>6. ServedOK'
  <2> SUFFICES ASSUME NEW o \in Inbox!Readers
               PROVE  /\ pc'[o] # "idle" => from[o] \in Daemons /\ seq[from[o]] > 0
                      /\ pc'[o] \in {"sent", "waiting", "woken"} => Inbox!Running(from[o])
                      /\ pc'[o] = "waiting" =>
                            \A n \in Inbox!ToSet(events[from[o]]) : n <= since[o]
                      /\ pc'[o] = "printed" =>
                            o \in Cli /\ Inbox!ToSet(answer[o].new) \subseteq printed'["cli"]
    BY <1>1 DEF ServedOK, Inbox!Running
  <2>1. CASE o = r
    BY <1>1, <1>3, <1>4, <2>1 DEF ServedOK
  <2>2. CASE o # r
    BY <1>2, <1>3, <1>4, <2>2 DEF ServedOK
  <2> QED
    BY <2>1, <2>2
<1>7. CursorsOK'
  <2>1. \A o \in Inbox!Readers : /\ pc'[o] # "idle" => pc[o] # "idle"
                                 /\ pc'[o] \in {"answered", "printed"} =>
                                       pc[o] \in {"answered", "printed"}
    BY <1>1, <1>4
  <2>2. \A d \in Daemons : \A s \in Inbox!Streams : \A n : Past(n, s, d) => Past(n, s, d)'
    BY <1>1, <1>3 DEF Past
  <2>3. \A o \in Inbox!Readers : Inbox!Stream(o) \in Inbox!Streams
    BY DEF Inbox!Stream, Inbox!Streams, Inbox!Readers
  <2> SUFFICES ASSUME NEW d \in Daemons, SpeaksAlone(d)
               PROVE  /\ \A s \in Inbox!Streams : \A n \in 1 .. cursor[s] : Past(n, s, d)'
                      /\ \A o \in Inbox!Readers : pc'[o] # "idle" =>
                            \A n \in 1 .. since[o] : Past(n, Inbox!Stream(o), d)'
                      /\ \A o \in Inbox!Readers : pc'[o] \in {"answered", "printed"} =>
                            \A n \in Nat : n > since[o] /\ Within(n, answer[o]) =>
                                n \in Inbox!ToSet(answer[o].new) \/ n + EVENTS_MAX <= seq[d]
    BY <1>1 DEF CursorsOK, SpeaksAlone, Inbox!Stream, Within
  <2> QED
    BY <2>1, <2>2, <2>3 DEF CursorsOK
<1> QED
  BY <1>5, <1>6, <1>7

LEMMA SaveKeeps ==
    ASSUME InboxBounds, InboxInv, NEW r \in Inbox!Readers, Inbox!Save(r)
    PROVE  InboxInv'
<1> DEFINE a == answer[r]
<1>1. /\ pc[r] = "printed" /\ Inbox!Back(r) /\ printed' = printed
      /\ cursor' = [cursor EXCEPT !["cli"] = IF a.new = <<>> THEN @ ELSE Inbox!Last(a.new)]
  BY DEF Inbox!Save
<1>2. r \in Cli /\ Inbox!Stream(r) = "cli" /\ "cli" \in Inbox!Streams
        /\ Inbox!ToSet(a.new) \subseteq printed["cli"]
      /\ a.new \in Seq(Nat)
  BY <1>1 DEF InboxInv, InboxTypes, ServedOK, Inbox!Stream, Inbox!Streams
<1> HIDE DEF a
<1>3. a.new # <<>> => Inbox!Last(a.new) \in Nat
  BY <1>2, LastNumber
<1>4. /\ cursor'["cli"] = IF a.new = <<>> THEN cursor["cli"] ELSE Inbox!Last(a.new)
      /\ \A s \in Inbox!Streams : s # "cli" => cursor'[s] = cursor[s]
      /\ cursor' \in [Inbox!Streams -> Nat]
  BY <1>1, <1>2, <1>3 DEF InboxInv, InboxTypes
<1>5. printed' \in [Inbox!Streams -> SUBSET Nat]
  BY <1>1 DEF InboxInv, InboxTypes
<1>6. ASSUME NEW d \in Daemons, SpeaksAlone(d), NEW s \in Inbox!Streams,
             NEW n \in 1 .. cursor'[s]
      PROVE  n \in printed'[s] \/ n + EVENTS_MAX <= seq[d]
  <2>1. CASE s = "cli" /\ a.new # <<>>
    <3>1. n \in Nat /\ n > 0 /\ Within(n, a)
      BY <1>3, <1>4, <1>6, <2>1 DEF Within
    <3>2. n \in printed["cli"] \cup Inbox!ToSet(a.new) \/ n + EVENTS_MAX <= seq[d]
      BY <1>1, <1>2, <1>6, <3>1, PastAnswer DEF a
    <3> QED
      BY <1>1, <1>2, <2>1, <3>2
  <2>2. CASE ~ (s = "cli" /\ a.new # <<>>)
    <3>1. cursor'[s] = cursor[s]
      BY <1>4, <2>2
    <3> QED
      BY <1>1, <1>6, <3>1 DEF InboxInv, CursorsOK, Past
  <2> QED
    BY <2>1, <2>2
<1> QED
  BY <1>1, <1>4, <1>5, <1>6, BackKeeps

LEMMA ObserveKeeps ==
    ASSUME InboxBounds, InboxInv, NEW r \in Inbox!Readers, Inbox!Observe(r)
    PROVE  InboxInv'
<1> DEFINE a == answer[r]
<1>1. /\ r \in Harnesses /\ pc[r] = "answered" /\ Inbox!Back(r)
      /\ printed' = [printed EXCEPT ![r] = @ \cup Inbox!ToSet(a.new)]
      /\ cursor' = [cursor EXCEPT ![r] = IF a.new # <<>> THEN Inbox!Last(a.new)
                                         ELSE Inbox!Max({@, a.seq})]
  BY DEF Inbox!Observe
<1>2. /\ r \in Inbox!Streams /\ Inbox!Stream(r) = r /\ a.new \in Seq(Nat) /\ a.seq \in Nat
      /\ cursor[r] \in Nat
  BY <1>1 DEF InboxInv, InboxTypes, InboxBounds, Inbox!Stream, Inbox!Streams
<1> HIDE DEF a
<1>3. Inbox!Max({cursor[r], a.seq}) \in {cursor[r], a.seq}
  <2> DEFINE m == IF cursor[r] >= a.seq THEN cursor[r] ELSE a.seq
  <2>1. m \in {cursor[r], a.seq} /\ \A k \in {cursor[r], a.seq} : m >= k
    BY <1>2
  <2> QED
    BY <2>1 DEF Inbox!Max
<1>4. a.new # <<>> => Inbox!Last(a.new) \in Nat
  BY <1>2, LastNumber
<1>5. Inbox!ToSet(a.new) \subseteq Nat
  BY <1>2 DEF Inbox!ToSet
<1>6. /\ cursor' \in [Inbox!Streams -> Nat]
      /\ \A s \in Inbox!Streams : s # r => cursor'[s] = cursor[s]
      /\ a.new # <<>> => cursor'[r] = Inbox!Last(a.new)
      /\ a.new = <<>> => cursor'[r] = cursor[r] \/ cursor'[r] = a.seq
  BY <1>1, <1>2, <1>3, <1>4 DEF InboxInv, InboxTypes
<1>7. /\ printed' \in [Inbox!Streams -> SUBSET Nat]
      /\ printed'[r] = printed[r] \cup Inbox!ToSet(a.new)
      /\ \A s \in Inbox!Streams : printed[s] \subseteq printed'[s]
  BY <1>1, <1>2, <1>5 DEF InboxInv, InboxTypes
<1>8. ASSUME NEW d \in Daemons, SpeaksAlone(d), NEW s \in Inbox!Streams,
             NEW n \in 1 .. cursor'[s]
      PROVE  n \in printed'[s] \/ n + EVENTS_MAX <= seq[d]
  <2>1. CASE cursor'[s] = cursor[s]
    BY <1>7, <1>8, <2>1 DEF InboxInv, CursorsOK, Past
  <2>2. CASE cursor'[s] # cursor[s]
    <3>1. s = r /\ n \in Nat /\ n > 0 /\ Within(n, a)
      BY <1>2, <1>4, <1>6, <1>8, <2>2 DEF Within
    <3>2. n \in printed[r] \cup Inbox!ToSet(a.new) \/ n + EVENTS_MAX <= seq[d]
      BY <1>1, <1>2, <1>8, <3>1, PastAnswer DEF a
    <3> QED
      BY <1>7, <3>1, <3>2
  <2> QED
    BY <2>1, <2>2
<1> QED
  BY <1>1, <1>6, <1>7, <1>8, BackKeeps

LEMMA DieKeeps ==
    ASSUME InboxBounds, InboxInv, NEW r \in Inbox!Readers, Inbox!ReaderDies(r)
    PROVE  InboxInv'
<1>1. pc[r] # "idle" /\ Inbox!Back(r) /\ cursor' = cursor /\ printed' = printed
  BY DEF Inbox!ReaderDies
<1>2. \A d \in Daemons : SpeaksAlone(d) =>
          \A s \in Inbox!Streams : \A n \in 1 .. cursor[s] : n \in printed[s]
            \/ n + EVENTS_MAX <= seq[d]
  BY DEF InboxInv, CursorsOK, Past
<1> QED
  BY <1>1, <1>2, BackKeeps DEF InboxInv, InboxTypes

----------------------------------------------------------------------------
LEMMA InboxStep ==
    ASSUME InboxBounds, InboxInv, [Inbox!Next]_(Inbox!vars)
    PROVE  InboxInv'
<1>1. ASSUME NEW d \in Daemons,
             Inbox!Up(d) \/ Inbox!Down(d) \/ Inbox!Finish(d)
               \/ Inbox!Crash(d) PROVE InboxInv'
  BY <1>1, LifeKeeps, EndKeeps
<1>2. ASSUME NEW d \in Daemons,
             \/ Inbox!Start(d) \/ Inbox!Join(d) \/ Inbox!JoinFails(d) \/ Inbox!Drop(d)
             \/ Inbox!OnInit(d) \/ Inbox!Backfill(d) \/ Inbox!OnFrame(d)
                  \/ Inbox!OnRequest(d)
      PROVE  InboxInv'
  <2>1. /\ Inbox!Emit(d) /\ UNCHANGED Inbox!readVars /\ bound' \in Daemons \cup {Nobody}
        /\ \/ Inbox!Running(d) /\ UNCHANGED life
           \/ life[d] = "spawned" /\ life' = [life EXCEPT ![d] = "up"]
    BY <1>2 DEF InboxInv, InboxTypes, Inbox!Start, Inbox!Join, Inbox!JoinFails, Inbox!Drop,
                Inbox!OnInit, Inbox!Backfill,
                Inbox!OnFrame, Inbox!OnRequest, Inbox!daemonVars, Inbox!Running
  <2> QED
    BY <2>1, EmitKeeps
<1>3. ASSUME NEW r \in Inbox!Readers,
             \/ Inbox!Read(r) \/ Inbox!Serve(r, TRUE) \/ Inbox!Serve(r, FALSE)
                  \/ Inbox!Resume(r)
             \/ Inbox!PrintOut(r) \/ Inbox!Save(r) \/ Inbox!Observe(r)
                  \/ Inbox!ReaderDies(r)
      PROVE  InboxInv'
  BY <1>3, ReadKeeps, ServeKeeps, PrintKeeps, SaveKeeps, ObserveKeeps, DieKeeps
<1>4. ASSUME UNCHANGED Inbox!vars PROVE InboxInv'
  BY <1>4 DEF Inbox!vars, Inbox!daemonVars, Inbox!readVars, InboxInv, InboxTypes, RingsOK,
              Inbox!Running, ServedOK,
              Spoken, CursorsOK, SpeaksAlone, Past, Inbox!Stream, Within
<1> QED
  BY <1>1, <1>2, <1>3, <1>4 DEF Inbox!Next

\* The daemons' numbers are those of their bounds.
InboxSizes == FirstDaemon \in Daemons /\ CliSeq \in Nat /\ HarnessSeq \in Nat

\* Where numbers are kept, they are numbers some daemon has given out.
InboxTyped ==
    /\ joined \in SUBSET Daemons /\ seeded \in SUBSET Daemons
    /\ backfill \in [Daemons -> 0 .. 1]
    /\ \A d \in Daemons : seq[d] \in Inbox!Numbers
    /\ \A r \in Inbox!Readers : /\ since[r] \in Inbox!Numbers
                                /\ answer[r].seq \in Inbox!Numbers
                                /\ Inbox!ToSet(answer[r].new) \subseteq Inbox!Numbers
    /\ \A s \in Inbox!Streams : /\ cursor[s] \in Inbox!Numbers
                                /\ printed[s] \subseteq Inbox!Numbers

LEMMA NumbersGivenOut ==
    ASSUME InboxSizes
    PROVE  /\ Inbox!Numbers \subseteq Nat /\ 0 \in Inbox!Numbers
           /\ \A n \in Inbox!Numbers : \A k \in Nat : k <= n => k \in Inbox!Numbers
           /\ \A d \in Daemons : \A n \in Nat :
                n <= Emits(CliSeq + HarnessSeq)[d] => n \in Inbox!Numbers
<1> DEFINE m == CliSeq + HarnessSeq
           S == {Emits(m)[d] : d \in Daemons}
           top == Inbox!Max(S)
<1>1. m \in Nat /\ S \subseteq {m, 1} /\ m \in S /\ \A d \in Daemons : Emits(m)[d] \in S
  BY DEF InboxSizes, Emits
<1>2. Inbox!Numbers = 0 .. top
  BY DEF Inbox!Numbers
<1> HIDE DEF m, S
<1>3. \E x \in S : \A y \in S : x >= y
  <2>1. CASE m >= 1 \/ 1 \notin S
    BY <1>1, <2>1
  <2>2. CASE ~ (m >= 1) /\ 1 \in S
    BY <1>1, <2>2
  <2> QED
    BY <2>1, <2>2
<1>4. top \in S /\ \A y \in S : top >= y
  BY <1>3 DEF Inbox!Max
<1> HIDE DEF top
<1>5. top \in Nat /\ \A d \in Daemons : Emits(m)[d] \in Nat /\ Emits(m)[d] <= top
  <2>1. \A y \in S : y \in Nat
    BY <1>1
  <2>2. \A y \in S : top \in Nat /\ y <= top
    BY <1>4, <2>1
  <2> QED
    BY <1>1, <1>4, <2>1, <2>2, Zenon
<1>6. \A d \in Daemons : \A n \in Nat : n <= Emits(m)[d] => n \in 0 .. top
  BY <1>5
<1> QED
  BY <1>2, <1>5, <1>6 DEF m

LEMMA SeqOf ==
    ASSUME NEW S \in SUBSET Nat, NEW q \in Seq(Nat), Inbox!ToSet(q) \subseteq S
    PROVE  q \in Seq(S)
<1>1. Len(q) \in Nat /\ DOMAIN q = 1 .. Len(q) /\ q = [i \in 1 .. Len(q) |-> q[i]]
  OBVIOUS
<1>2. \A i \in 1 .. Len(q) : q[i] \in S
  BY <1>1 DEF Inbox!ToSet
<1>3. [i \in 1 .. Len(q) |-> q[i]] \in Seq(S)
  BY <1>1, <1>2
<1> QED
  BY <1>1, <1>3

\* A ring holds numbers given out.
LEMMA RingTyped ==
    ASSUME InboxSizes, InboxTypes, RingsOK, InboxTyped, NEW d \in Daemons
    PROVE  Inbox!ToSet(events[d]) \subseteq Inbox!Numbers
<1> DEFINE q == events[d]
           n == seq[d]
<1>1. q \in Seq(Nat) /\ n \in Nat /\ n \in Inbox!Numbers
  BY DEF InboxTypes, InboxTyped
<1>2. Len(q) <= n /\ \A i \in DOMAIN q : q[i] = (n - Len(q)) + i
  BY DEF RingsOK, Ring
<1> HIDE DEF q, n
<1>3. \A i \in DOMAIN q : q[i] \in Nat /\ q[i] <= n
  BY <1>1, <1>2
<1> QED
  BY <1>1, <1>3, NumbersGivenOut DEF q, Inbox!ToSet

LEMMA InboxTypedStart ==
    ASSUME InboxSizes, Inbox!Init
    PROVE  InboxTyped
<1>1. Inbox!ToSet(<<>>) = {}
  BY DEF Inbox!ToSet
<1>2. Inbox!NoAnswer.seq = 0 /\ Inbox!NoAnswer.new = <<>>
  BY DEF Inbox!NoAnswer
<1>3. 0 \in Inbox!Numbers /\ 0 \in 0 .. 1
  BY NumbersGivenOut
<1>4. joined = {} /\ seeded = {} /\ backfill \in [Daemons -> 0 .. 1]
  BY <1>3 DEF Inbox!Init
<1>5. /\ \A d \in Daemons : seq[d] = 0
      /\ \A r \in Inbox!Readers : since[r] = 0 /\ answer[r] = Inbox!NoAnswer
      /\ \A s \in Inbox!Streams : cursor[s] = 0 /\ printed[s] = {}
  BY DEF Inbox!Init
<1> QED
  BY <1>1, <1>2, <1>3, <1>4, <1>5 DEF InboxTyped

\* A daemon that speaks gives out the next number.
LEMMA EmitTyped ==
    ASSUME InboxSizes, InboxTypes, InboxTyped, NEW d \in Daemons, Inbox!Emit(d),
           UNCHANGED Inbox!readVars, joined' \in SUBSET Daemons, seeded' \in SUBSET Daemons,
           backfill' \in [Daemons -> 0 .. 1]
    PROVE  InboxTyped'
<1>1. seq[d] + 1 \in Inbox!Numbers
  <2>1. seq[d] \in Nat /\ seq[d] < Emits(CliSeq + HarnessSeq)[d]
    BY DEF InboxTypes, Inbox!Emit
  <2>2. Emits(CliSeq + HarnessSeq)[d] \in Nat
    BY DEF Emits, InboxSizes
  <2>3. seq[d] + 1 \in Nat /\ seq[d] + 1 <= Emits(CliSeq + HarnessSeq)[d]
    BY <2>1, <2>2
  <2> QED
    BY <2>3, NumbersGivenOut
<1>2. \A e \in Daemons : seq'[e] = seq[e] \/ seq'[e] = seq[d] + 1
  BY DEF InboxTypes, Inbox!Emit
<1>3. \A e \in Daemons : seq'[e] \in Inbox!Numbers
  BY <1>1, <1>2 DEF InboxTyped
<1>4. /\ since' = since /\ answer' = answer /\ cursor' = cursor /\ printed' = printed
  BY DEF Inbox!readVars
<1> QED
  BY <1>3, <1>4, Zenon DEF InboxTyped, Inbox!Numbers

\* A step of the daemons that says nothing.
LEMMA QuietTyped ==
    ASSUME InboxSizes, InboxTyped, UNCHANGED <<seq, answer, cursor, printed>>,
           \A r \in Inbox!Readers : since'[r] \in {since[r], 0},
           joined' \in SUBSET Daemons, seeded' \in SUBSET Daemons,
           backfill' \in [Daemons -> 0 .. 1]
    PROVE  InboxTyped'
<1>1. 0 \in Inbox!Numbers
  BY NumbersGivenOut
<1>2. \A r \in Inbox!Readers : since'[r] \in Inbox!Numbers
  BY <1>1 DEF InboxTyped
<1> QED
  BY <1>2, Zenon DEF InboxTyped, Inbox!Numbers

LEMMA AnswerTyped ==
    ASSUME InboxSizes, InboxInv, InboxTyped, NEW r \in Inbox!Readers, pc[r] # "idle",
           Inbox!Answered(r)
    PROVE  InboxTyped'
<1> DEFINE d == from[r]
           q == events[d]
           a == [new |-> Inbox!After(q, since[r]), seq |-> seq[d]]
<1>1. d \in Daemons /\ q \in Seq(Nat) /\ since[r] \in Nat /\ seq[d] \in Nat
  BY DEF InboxInv, ServedOK, InboxTypes
<1>2. Ring(q, seq[d])
  BY <1>1 DEF InboxInv, RingsOK
<1>3. /\ UNCHANGED <<joined, backfill, seeded, seq, since, cursor, printed>>
      /\ answer' = [answer EXCEPT ![r] = a]
  BY DEF Inbox!Answered, Inbox!New, Inbox!daemonVars
<1>4. Inbox!ToSet(a.new) \subseteq Inbox!Numbers
  <2> DEFINE b == seq[d] - Len(q)
  <2>1. b \in Nat /\ \A i \in DOMAIN q : q[i] = b + i
    BY <1>1, <1>2 DEF Ring
  <2>2. Inbox!ToSet(q) \subseteq Inbox!Numbers
    BY <1>1, RingTyped DEF InboxInv
  <2> HIDE DEF b, q
  <2>3. Inbox!ToSet(Inbox!After(q, since[r])) \subseteq Inbox!ToSet(q)
    BY <1>1, <2>1, AfterNumber
  <2> QED
    BY <2>2, <2>3
<1>5. a.seq \in Inbox!Numbers
  BY <1>1 DEF InboxTyped
<1> HIDE DEF a
<1>6. \A o \in Inbox!Readers : answer'[o] = answer[o] \/ answer'[o] = a
  BY <1>3 DEF InboxInv, InboxTypes
<1>7. \A o \in Inbox!Readers : /\ answer'[o].seq \in Inbox!Numbers
                               /\ Inbox!ToSet(answer'[o].new) \subseteq Inbox!Numbers
  BY <1>4, <1>5, <1>6, Zenon DEF InboxTyped
<1> QED
  BY <1>3, <1>7, Zenon DEF InboxTyped, Inbox!Numbers

\* A reader is back.
LEMMA BackTyped ==
    ASSUME InboxSizes, InboxInv, InboxTyped, NEW r \in Inbox!Readers, Inbox!Back(r),
           \A s \in Inbox!Streams : /\ cursor'[s] \in Inbox!Numbers
                                    /\ printed'[s] \subseteq Inbox!Numbers
    PROVE  InboxTyped'
<1>1. /\ UNCHANGED <<joined, backfill, seeded, seq>>
      /\ since' = [since EXCEPT ![r] = 0] /\ answer' = [answer EXCEPT ![r] = Inbox!NoAnswer]
  BY DEF Inbox!Back, Inbox!daemonVars
<1>2. /\ \A o \in Inbox!Readers : since'[o] = since[o] \/ since'[o] = 0
      /\ \A o \in Inbox!Readers : answer'[o] = answer[o] \/ answer'[o] = Inbox!NoAnswer
  BY <1>1 DEF InboxInv, InboxTypes
<1>3. /\ Inbox!NoAnswer.seq = 0 /\ Inbox!ToSet(Inbox!NoAnswer.new) = {}
      /\ 0 \in Inbox!Numbers
  BY NumbersGivenOut DEF Inbox!NoAnswer, Inbox!ToSet
<1>4. \A o \in Inbox!Readers : /\ since'[o] \in Inbox!Numbers
                               /\ answer'[o].seq \in Inbox!Numbers
                               /\ Inbox!ToSet(answer'[o].new) \subseteq Inbox!Numbers
  <2> SUFFICES ASSUME NEW o \in Inbox!Readers
               PROVE  /\ since'[o] \in Inbox!Numbers /\ answer'[o].seq \in Inbox!Numbers
                      /\ Inbox!ToSet(answer'[o].new) \subseteq Inbox!Numbers
    OBVIOUS
  <2>1. /\ since[o] \in Inbox!Numbers /\ answer[o].seq \in Inbox!Numbers
        /\ Inbox!ToSet(answer[o].new) \subseteq Inbox!Numbers
    BY DEF InboxTyped
  <2>2. since'[o] \in Inbox!Numbers
    BY <1>2, <1>3, <2>1
  <2>3. CASE answer'[o] = answer[o]
    BY <2>1, <2>2, <2>3
  <2>4. CASE answer'[o] = Inbox!NoAnswer
    <3>1. Inbox!ToSet(answer'[o].new) = {} /\ answer'[o].seq = 0
      BY <1>3, <2>4
    <3> QED
      BY <1>3, <2>2, <3>1
  <2> QED
    BY <1>2, <2>3, <2>4
<1> QED
  BY <1>1, <1>4, Zenon DEF InboxTyped, Inbox!Numbers

\* The last event of an answer is a number given out.
LEMMA LastTyped ==
    ASSUME NEW q \in Seq(Nat), q # <<>>, Inbox!ToSet(q) \subseteq Inbox!Numbers
    PROVE  Inbox!Last(q) \in Inbox!Numbers
<1>1. Len(q) \in DOMAIN q /\ Inbox!Last(q) = q[Len(q)]
  BY DEF Inbox!Last
<1> QED
  BY <1>1 DEF Inbox!ToSet

LEMMA ReaderTyped ==
    ASSUME InboxBounds, InboxSizes, InboxInv, InboxTyped, NEW r \in Inbox!Readers,
           \/ Inbox!Read(r) \/ Inbox!Serve(r, TRUE) \/ Inbox!Serve(r, FALSE)
           \/ Inbox!Resume(r) \/ Inbox!PrintOut(r) \/ Inbox!Save(r) \/ Inbox!Observe(r)
           \/ Inbox!ReaderDies(r)
    PROVE  InboxTyped'
<1> DEFINE a == answer[r]
           N == Inbox!Numbers
<1>1. /\ a.new \in Seq(Nat) /\ a.seq \in N /\ Inbox!ToSet(a.new) \subseteq N
      /\ a.new # <<>> => Inbox!Last(a.new) \in N
      /\ cursor \in [Inbox!Streams -> Nat] /\ printed \in [Inbox!Streams -> SUBSET Nat]
      /\ since \in [Inbox!Readers -> Nat]
      /\ \A s \in Inbox!Streams : cursor[s] \in N /\ printed[s] \subseteq N
      /\ Inbox!Stream(r) \in Inbox!Streams
  BY LastTyped DEF InboxInv, InboxTypes, InboxTyped, Inbox!Stream, Inbox!Streams,
                   Inbox!Readers
<1> HIDE DEF a, N
<1>2. CASE Inbox!Read(r)
  <2>1. /\ UNCHANGED <<joined, backfill, seeded, seq, answer, cursor, printed>>
        /\ since' = [since EXCEPT ![r] = cursor[Inbox!Stream(r)]]
    BY <1>2 DEF Inbox!Read, Inbox!daemonVars
  <2>2. \A o \in Inbox!Readers : since'[o] = since[o] \/ since'[o] = cursor[Inbox!Stream(r)]
    BY <1>1, <2>1
  <2>3. \A o \in Inbox!Readers : since'[o] \in Inbox!Numbers
    BY <1>1, <2>2 DEF InboxTyped, N
  <2> QED
    BY <2>1, <2>3, Zenon DEF InboxTyped, Inbox!Numbers
<1>3. CASE Inbox!Serve(r, TRUE) \/ Inbox!Serve(r, FALSE) \/ Inbox!Resume(r)
  <2>1. CASE Inbox!Answered(r)
    BY <1>3, <2>1, AnswerTyped DEF Inbox!Serve, Inbox!Resume
  <2>2. CASE ~ Inbox!Answered(r)
    <3>1. UNCHANGED <<joined, backfill, seeded, seq, since, answer, cursor, printed>>
      BY <1>3, <2>2 DEF Inbox!Serve, Inbox!Resume, Inbox!daemonVars, Inbox!readVars
    <3> QED
      BY <3>1, Zenon DEF InboxTyped, Inbox!Numbers
  <2> QED
    BY <2>1, <2>2
<1>4. CASE Inbox!PrintOut(r)
  <2>1. /\ UNCHANGED <<joined, backfill, seeded, seq, since, answer, cursor>>
        /\ printed' = [printed EXCEPT !["cli"] = @ \cup Inbox!ToSet(a.new)]
    BY <1>4 DEF Inbox!PrintOut, Inbox!daemonVars, a
  <2>2. \A s \in Inbox!Streams : \/ printed'[s] = printed[s]
                                 \/ printed'[s] = printed[s] \cup Inbox!ToSet(a.new)
    BY <1>1, <2>1
  <2>3. \A s \in Inbox!Streams : printed'[s] \subseteq Inbox!Numbers
    BY <1>1, <2>2 DEF N
  <2> QED
    BY <2>1, <2>3, Zenon DEF InboxTyped, Inbox!Numbers
<1>5. CASE Inbox!Save(r)
  <2>1. /\ Inbox!Back(r) /\ printed' = printed
        /\ cursor' = [cursor EXCEPT !["cli"] = IF a.new = <<>> THEN @ ELSE Inbox!Last(a.new)]
    BY <1>5 DEF Inbox!Save, a
  <2>2. \A s \in Inbox!Streams : \/ cursor'[s] = cursor[s]
                                 \/ a.new # <<>> /\ cursor'[s] = Inbox!Last(a.new)
    BY <1>1, <2>1
  <2>3. \A s \in Inbox!Streams : cursor'[s] \in Inbox!Numbers
    BY <1>1, <2>2 DEF N
  <2> QED
    BY <1>1, <2>1, <2>3, BackTyped DEF N
<1>6. CASE Inbox!Observe(r)
  <2>1. /\ Inbox!Back(r) /\ r \in Inbox!Streams
        /\ printed' = [printed EXCEPT ![r] = @ \cup Inbox!ToSet(a.new)]
        /\ cursor' = [cursor EXCEPT ![r] = IF a.new # <<>> THEN Inbox!Last(a.new)
                                           ELSE Inbox!Max({@, a.seq})]
    BY <1>6 DEF Inbox!Observe, Inbox!Streams, a
  <2>2. Inbox!Max({cursor[r], a.seq}) \in {cursor[r], a.seq}
    <3> DEFINE m == IF cursor[r] >= a.seq THEN cursor[r] ELSE a.seq
    <3>1. cursor[r] \in Nat /\ a.seq \in Nat
      BY <1>1, <2>1, NumbersGivenOut DEF N
    <3>2. m \in {cursor[r], a.seq} /\ \A k \in {cursor[r], a.seq} : m >= k
      BY <3>1
    <3> QED
      BY <3>2 DEF Inbox!Max
  <2>3. \A s \in Inbox!Streams : /\ \/ cursor'[s] = cursor[s]
                                    \/ a.new # <<>> /\ cursor'[s] = Inbox!Last(a.new)
                                    \/ cursor'[s] = Inbox!Max({cursor[r], a.seq})
                                 /\ \/ printed'[s] = printed[s]
                                    \/ printed'[s] = printed[s] \cup Inbox!ToSet(a.new)
    BY <1>1, <2>1
  <2>4. \A s \in Inbox!Streams : cursor'[s] \in Inbox!Numbers
    BY <1>1, <2>1, <2>2, <2>3 DEF N
  <2>5. \A s \in Inbox!Streams : printed'[s] \subseteq Inbox!Numbers
    BY <1>1, <2>3 DEF N
  <2> QED
    BY <2>1, <2>4, <2>5, BackTyped
<1>7. CASE Inbox!ReaderDies(r)
  BY <1>1, <1>7, BackTyped DEF Inbox!ReaderDies, N
<1> QED
  BY <1>2, <1>3, <1>4, <1>5, <1>6, <1>7

LEMMA InboxTypedStep ==
    ASSUME InboxBounds, InboxSizes, InboxInv, InboxTyped, [Inbox!Next]_(Inbox!vars)
    PROVE  InboxTyped'
<1>1. CASE UNCHANGED Inbox!vars
  BY <1>1, Zenon DEF Inbox!vars, Inbox!daemonVars, Inbox!readVars, InboxTyped, Inbox!Numbers
<1>2. ASSUME NEW d \in Daemons,
             \/ Inbox!Start(d) \/ Inbox!Join(d) \/ Inbox!JoinFails(d) \/ Inbox!Drop(d)
             \/ Inbox!OnInit(d) \/ Inbox!Backfill(d) \/ Inbox!OnFrame(d)
                  \/ Inbox!OnRequest(d)
      PROVE  InboxTyped'
  <2>1. Inbox!Emit(d) /\ UNCHANGED Inbox!readVars
    BY <1>2 DEF Inbox!Start, Inbox!Join, Inbox!JoinFails, Inbox!Drop, Inbox!OnInit,
                Inbox!Backfill, Inbox!OnFrame, Inbox!OnRequest
  <2>2. joined' \in SUBSET Daemons
    BY <1>2 DEF Inbox!Start, Inbox!Join, Inbox!JoinFails, Inbox!Drop, Inbox!OnInit,
                Inbox!Backfill, Inbox!OnFrame, Inbox!OnRequest, Inbox!daemonVars, InboxTyped
  <2>3. seeded' \in SUBSET Daemons
    BY <1>2 DEF Inbox!Start, Inbox!Join, Inbox!JoinFails, Inbox!Drop, Inbox!OnInit,
                Inbox!Backfill, Inbox!OnFrame, Inbox!OnRequest, Inbox!daemonVars, InboxTyped
  <2>4. backfill' \in [Daemons -> 0 .. 1]
    BY <1>2 DEF Inbox!Start, Inbox!Join, Inbox!JoinFails, Inbox!Drop, Inbox!OnInit,
                Inbox!Backfill, Inbox!OnFrame, Inbox!OnRequest, Inbox!daemonVars, InboxTyped
  <2> QED
    BY <2>1, <2>2, <2>3, <2>4, EmitTyped DEF InboxInv
<1>3. ASSUME NEW d \in Daemons,
             Inbox!Up(d) \/ Inbox!Down(d) \/ Inbox!Finish(d) \/ Inbox!Crash(d)
      PROVE  InboxTyped'
  <2>1. /\ UNCHANGED <<seq, answer, cursor, printed>>
        /\ \A r \in Inbox!Readers : since'[r] \in {since[r], 0}
    BY <1>3 DEF Inbox!Up, Inbox!Down, Inbox!Finish, Inbox!Crash, Inbox!Hangup, Inbox!readVars
  <2>2. joined' \in SUBSET Daemons /\ seeded' \in SUBSET Daemons
        /\ backfill' \in [Daemons -> 0 .. 1]
    BY <1>3 DEF Inbox!Up, Inbox!Down, Inbox!Finish, Inbox!Crash, Inbox!Hangup, InboxTyped
  <2> QED
    BY <2>1, <2>2, QuietTyped
<1> QED
  BY <1>1, <1>2, <1>3, ReaderTyped DEF Inbox!Next

LEMMA InboxShowsTypes ==
    ASSUME InboxSizes, InboxInv, InboxTyped
    PROVE  Inbox!TypeOK
<1> DEFINE N == Inbox!Numbers
<1>1. \A d \in Daemons : events[d] \in Seq(N) /\ Len(events[d]) <= EVENTS_MAX
  <2> SUFFICES ASSUME NEW d \in Daemons
               PROVE  events[d] \in Seq(N) /\ Len(events[d]) <= EVENTS_MAX
    OBVIOUS
  <2>1. events[d] \in Seq(Nat) /\ Len(events[d]) <= EVENTS_MAX
    BY DEF InboxInv, InboxTypes, RingsOK, Ring
  <2>2. Inbox!ToSet(events[d]) \subseteq N
    BY RingTyped DEF InboxInv
  <2> QED
    BY <2>1, <2>2, NumbersGivenOut, SeqOf
<1>2. \A r \in Inbox!Readers : answer[r].new \in Seq(N) /\ answer[r].seq \in N
  <2> SUFFICES ASSUME NEW r \in Inbox!Readers
               PROVE  answer[r].new \in Seq(N) /\ answer[r].seq \in N
    OBVIOUS
  <2>1. answer[r].new \in Seq(Nat) /\ Inbox!ToSet(answer[r].new) \subseteq N
        /\ answer[r].seq \in N
    BY DEF InboxInv, InboxTypes, InboxTyped
  <2> HIDE DEF N
  <2> QED
    BY <2>1, NumbersGivenOut, SeqOf DEF N
<1>3. /\ seq \in [Daemons -> N] /\ since \in [Inbox!Readers -> N]
      /\ cursor \in [Inbox!Streams -> N] /\ printed \in [Inbox!Streams -> SUBSET N]
  <2> HIDE DEF N
  <2> QED
    BY DEF InboxInv, InboxTypes, InboxTyped, N
<1> QED
  BY <1>1, <1>2, <1>3 DEF Inbox!TypeOK, InboxInv, InboxTypes, InboxTyped

----------------------------------------------------------------------------
\* In the composition the inbox goes on as OperatorInbox says, within what is
\* read and said in its two instances, or it rests.
LEMMA InboxSteps ==
    /\ MCInit => Inbox!Init
    /\ [MCNext]_allVars => [Inbox!Next]_(Inbox!vars)
BY DEF MCInit, MCNext, allVars, inboxVars, Inbox!vars, Inbox!daemonVars, Inbox!readVars

\* For any number of daemons, command-line readers and harnesses and any size
\* of the ring: a reader that waits has seen all its daemon's ring holds, and
\* while one daemon has served the session nothing below a cursor was missed,
\* unless it fell out of the ring, however readers of one cursor file overlap,
\* die and are answered late (operator/bridge.py _emit, _op_read, __main__.py
\* _run_read, harness.py _drain_events).
THEOREM ReadersMissNothing ==
    ASSUME InboxBounds
    PROVE  MCSpec => []InboxSound
<1>1. MCInit => InboxInv
  BY InboxStart, InboxSteps
<1>2. InboxInv /\ [MCNext]_allVars => InboxInv'
  BY InboxStep, InboxSteps
<1>3. InboxInv => InboxSound
  BY InboxShows DEF InboxSound
<1> QED
  BY <1>1, <1>2, <1>3, PTL DEF MCSpec

----------------------------------------------------------------------------
(* NativeLoop. *)

LoopLimits == STUCK_FAIL_REPEAT \in Nat \ {0} /\ MAX_COMMANDS \in Nat

\* A task that runs has failed less often than breaks it off, with any action,
\* and has run no more commands than it was asked to.
LoopInv ==
    /\ calls \in Seq(Loop!Calls)
    /\ seen \in [Loop!Calls \X Loop!Outcomes -> Nat]
    /\ shell_calls \in Nat /\ executed \in Nat
    /\ executed <= shell_calls /\ executed <= MAX_COMMANDS
    /\ \A c \in Loop!Calls : Loop!TimesFailed(seen, c) <= STUCK_FAIL_REPEAT
    /\ final = "running" =>
         \A c \in Loop!Calls : Loop!TimesFailed(seen, c) < STUCK_FAIL_REPEAT

LEMMA LoopStart ==
    ASSUME LoopLimits, Loop!Init
    PROVE  LoopInv
<1>1. /\ calls = <<>> /\ seen = [k \in Loop!Calls \X Loop!Outcomes |-> 0]
      /\ shell_calls = 0 /\ executed = 0
  BY Zenon DEF Loop!Init
<1>2. \A c \in Loop!Calls : <<c, "1">> \in Loop!Calls \X Loop!Outcomes
        /\ <<c, "126">> \in Loop!Calls \X Loop!Outcomes
  BY DEF Loop!Outcomes, Loop!Failing
<1>3. \A c \in Loop!Calls : seen[<<c, "1">>] = 0 /\ seen[<<c, "126">>] = 0
  BY <1>1, <1>2
<1>4. calls \in Seq(Loop!Calls) /\ seen \in [Loop!Calls \X Loop!Outcomes -> Nat]
  BY <1>1
<1> QED
  BY <1>1, <1>3, <1>4 DEF LoopLimits, LoopInv, Loop!TimesFailed

\* What is counted, and when the task is broken off.
LEMMA Recorded ==
    ASSUME LoopLimits, LoopInv, final = "running", calls # <<>>,
           NEW outcome \in Loop!Outcomes,
           Loop!Record(Head(calls), outcome)
    PROVE  /\ calls' \in Seq(Loop!Calls)
           /\ seen' \in [Loop!Calls \X Loop!Outcomes -> Nat]
           /\ \A c \in Loop!Calls : Loop!TimesFailed(seen', c) <= STUCK_FAIL_REPEAT
           /\ final' = "running" =>
                \A c \in Loop!Calls : Loop!TimesFailed(seen', c) < STUCK_FAIL_REPEAT
<1> DEFINE call == Head(calls)
<1>1. call \in Loop!Calls /\ Tail(calls) \in Seq(Loop!Calls) /\ <<>> \in Seq(Loop!Calls)
  BY DEF LoopInv
<1>2. <<call, outcome>> \in Loop!Calls \X Loop!Outcomes
  BY <1>1
<1>3. \A c \in Loop!Calls : {<<c, "1">>, <<c, "126">>} \subseteq Loop!Calls \X Loop!Outcomes
  BY DEF Loop!Outcomes, Loop!Failing
<1>4. seen \in [Loop!Calls \X Loop!Outcomes -> Nat]
  BY DEF LoopInv
<1>5. seen' = [seen EXCEPT ![<<call, outcome>>] = @ + 1]
  BY DEF Loop!Record
<1>6. /\ seen' \in [Loop!Calls \X Loop!Outcomes -> Nat]
      /\ seen'[<<call, outcome>>] = seen[<<call, outcome>>] + 1
      /\ \A k \in Loop!Calls \X Loop!Outcomes : k # <<call, outcome>> => seen'[k] = seen[k]
  BY <1>2, <1>4, <1>5
<1>7. calls' \in Seq(Loop!Calls)
  BY <1>1 DEF Loop!Record
<1>8. /\ \A c \in Loop!Calls : Loop!TimesFailed(seen', c) = Loop!TimesFailed(seen, c)
                              + (IF c = call /\ outcome \in Loop!Failing THEN 1 ELSE 0)
      /\ \A c \in Loop!Calls : Loop!TimesFailed(seen, c) \in Nat
  <2> SUFFICES ASSUME NEW c \in Loop!Calls
               PROVE  /\ Loop!TimesFailed(seen', c) = Loop!TimesFailed(seen, c)
                              + (IF c = call /\ outcome \in Loop!Failing THEN 1 ELSE 0)
                      /\ Loop!TimesFailed(seen, c) \in Nat
    OBVIOUS
  <2> HIDE DEF call
  <2>1. <<c, "1">> \in Loop!Calls \X Loop!Outcomes
          /\ <<c, "126">> \in Loop!Calls \X Loop!Outcomes
    BY <1>3
  <2>2. seen[<<c, "1">>] \in Nat /\ seen[<<c, "126">>] \in Nat
    BY <2>1, <1>4
  <2>3. seen'[<<c, "1">>] = seen[<<c, "1">>]
             + (IF c = call /\ outcome = "1" THEN 1 ELSE 0)
    BY <2>1, <2>2, <1>6
  <2>4. seen'[<<c, "126">>] = seen[<<c, "126">>]
             + (IF c = call /\ outcome = "126" THEN 1 ELSE 0)
    BY <2>1, <2>2, <1>6
  <2> QED
    BY <2>2, <2>3, <2>4 DEF Loop!TimesFailed, Loop!Failing
<1>9. \A c \in Loop!Calls : Loop!TimesFailed(seen, c) < STUCK_FAIL_REPEAT
  BY DEF LoopInv
<1>10. final' = "running" =>
         ~(outcome \in Loop!Failing /\ Loop!TimesFailed(seen', call) >= STUCK_FAIL_REPEAT)
  BY DEF Loop!Record, Loop!StuckNow
<1> HIDE DEF call
<1>11. \A c \in Loop!Calls : Loop!TimesFailed(seen', c) <= STUCK_FAIL_REPEAT
  BY <1>8, <1>9 DEF LoopLimits
<1>12. final' = "running" =>
         \A c \in Loop!Calls : Loop!TimesFailed(seen', c) < STUCK_FAIL_REPEAT
  BY <1>1, <1>8, <1>9, <1>10 DEF LoopLimits
<1> QED
  BY <1>6, <1>7, <1>11, <1>12

LEMMA LoopStep ==
    ASSUME LoopLimits, LoopInv, [Loop!Next]_(Loop!vars)
    PROVE  LoopInv'
<1>1. ASSUME NEW cs \in Seq(Loop!Calls), Loop!ReplyActs(cs) PROVE LoopInv'
  BY <1>1 DEF LoopInv, Loop!ReplyActs, Loop!workset, Loop!TimesFailed
<1>2. ASSUME NEW text, Loop!ReplyTalks(text) PROVE LoopInv'
  BY <1>2 DEF LoopInv, Loop!ReplyTalks, Loop!Turning, Loop!workset, Loop!TimesFailed
<1>3. ASSUME Loop!ReplyFails \/ Loop!AtCap PROVE LoopInv'
  BY <1>3 DEF LoopInv, Loop!ReplyFails, Loop!AtCap, Loop!Turning, Loop!workset,
              Loop!TimesFailed
<1>4. ASSUME NEW rc \in {"none", "0"} \cup Loop!Failing, Loop!RunShell(rc) PROVE LoopInv'
  <2>1. rc \in Loop!Outcomes /\ final = "running" /\ calls # <<>>
          /\ Loop!Record(Head(calls), rc)
    BY <1>4 DEF Loop!RunShell, Loop!Running, Loop!Outcomes
  <2>2. /\ executed' \in Nat /\ shell_calls' \in Nat
        /\ executed' <= shell_calls' /\ executed' <= MAX_COMMANDS
    BY <1>4 DEF LoopInv, Loop!RunShell, LoopLimits
  <2> QED
    BY <2>1, <2>2, Recorded DEF LoopInv
<1>5. ASSUME Loop!WriteFile \/ Loop!ReadFile PROVE LoopInv'
  <2>1. CASE Loop!Record(Head(calls), "ok")
    BY <1>5, <2>1, Recorded DEF LoopInv, Loop!WriteFile, Loop!ReadFile, Loop!Running,
                                Loop!Outcomes
  <2>2. CASE calls' = Tail(calls) /\ UNCHANGED <<seen, final>>
    BY <1>5, <2>2 DEF LoopInv, Loop!WriteFile, Loop!ReadFile, Loop!Running, Loop!TimesFailed
  <2> QED
    BY <1>5, <2>1, <2>2 DEF Loop!WriteFile, Loop!ReadFile
<1>6. ASSUME UNCHANGED Loop!vars PROVE LoopInv'
  BY <1>6 DEF LoopInv, Loop!vars, Loop!TimesFailed
<1>7. ASSUME Loop!Reply PROVE LoopInv'
  <2>1. \A n \in 1 .. MaxCalls : \A cs \in [1 .. n -> Loop!Calls] : cs \in Seq(Loop!Calls)
    OBVIOUS
  <2>2. \A c \in {make, wipe} \ {wipe} :
          <<[tool |-> "run_shell", arg |-> c]>> \in Seq(Loop!Calls)
    BY DEF Loop!Calls
  <2> QED
    BY <1>1, <1>2, <1>3, <1>7, <2>1, <2>2 DEF Loop!Reply
<1> QED
  BY <1>4, <1>5, <1>6, <1>7 DEF Loop!Next, Loop!ToolCall

\* The types of a task: what else the constants have to be.
LoopSizes ==
    /\ max_turns \in Nat /\ MAX_NUDGES \in Nat /\ MaxCalls \in Nat \ {0}
    /\ STUCK_PAIR_REPEAT \in Nat \ {0}

\* A task that runs has met no result as often as breaks it off.
LoopTyped ==
    /\ Loop!TypeOK
    /\ final = "running" => \A k \in Loop!Calls \X Loop!Outcomes : seen[k] < STUCK_PAIR_REPEAT

LEMMA LoopTypedStart ==
    ASSUME LoopSizes, Loop!Init
    PROVE  LoopTyped
<1>1. /\ turns \in 0 .. Loop!hard_cap /\ nudges \in 0 .. MAX_NUDGES
      /\ calls \in Seq(Loop!Calls) /\ Len(calls) <= MaxCalls
  BY DEF LoopSizes, Loop!Init, Loop!hard_cap
<1>a. did_action \in BOOLEAN /\ unresolved \in BOOLEAN
  BY Zenon DEF Loop!Init
<1>2. /\ last_rc \in {"none", "0"} \cup Loop!Failing /\ {shell_calls, executed} \subseteq Nat
      /\ files_read \subseteq {notes} /\ files_written \subseteq {notes}
      /\ last_good \in {make, wipe} \cup {Loop!NoCmd} /\ failures \subseteq {make, wipe}
  BY DEF Loop!Init
<1>3. /\ seen \in [Loop!Calls \X Loop!Outcomes -> 0 .. STUCK_PAIR_REPEAT]
      /\ \A k \in Loop!Calls \X Loop!Outcomes : seen[k] < STUCK_PAIR_REPEAT
  BY DEF LoopSizes, Loop!Init
<1>4. final \in Loop!Ends
  BY DEF Loop!Init, Loop!Ends
<1> QED
  BY <1>1, <1>a, <1>2, <1>3, <1>4 DEF LoopTyped, Loop!TypeOK

LEMMA RecordedTypes ==
    ASSUME LoopSizes, LoopTyped, final = "running", calls # <<>>,
           NEW outcome \in Loop!Outcomes,
           Loop!Record(Head(calls), outcome)
    PROVE  /\ calls' \in Seq(Loop!Calls) /\ Len(calls') <= MaxCalls
           /\ did_action' \in BOOLEAN /\ final' \in Loop!Ends
           /\ seen' \in [Loop!Calls \X Loop!Outcomes -> 0 .. STUCK_PAIR_REPEAT]
           /\ final' = "running" =>
                \A k \in Loop!Calls \X Loop!Outcomes : seen'[k] < STUCK_PAIR_REPEAT
<1> DEFINE K == Loop!Calls \X Loop!Outcomes
           k == <<Head(calls), outcome>>
<1>1. Head(calls) \in Loop!Calls /\ Tail(calls) \in Seq(Loop!Calls)
      /\ Len(Tail(calls)) <= MaxCalls
  BY DEF LoopTyped, Loop!TypeOK, LoopSizes
<1>2. calls' \in Seq(Loop!Calls) /\ Len(calls') <= MaxCalls
  <2>1. calls' = <<>> \/ calls' = Tail(calls)
    BY DEF Loop!Record
  <2>2. <<>> \in Seq(Loop!Calls) /\ Len(<<>>) <= MaxCalls
    BY DEF LoopSizes
  <2> QED
    BY <1>1, <2>1, <2>2
<1>3. did_action' \in BOOLEAN /\ final' \in Loop!Ends
  BY DEF Loop!Record, Loop!Ends, LoopTyped, Loop!TypeOK
<1>4. k \in K
  BY <1>1
<1>5. seen' = [seen EXCEPT ![k] = @ + 1]
  BY DEF Loop!Record
<1>6. final' = "running" => ~(seen'[k] >= STUCK_PAIR_REPEAT)
  BY DEF Loop!Record, Loop!StuckNow
<1>7. /\ seen \in [K -> 0 .. STUCK_PAIR_REPEAT]
      /\ \A j \in K : seen[j] < STUCK_PAIR_REPEAT
  BY DEF LoopTyped, Loop!TypeOK
<1> HIDE DEF K, k
<1>8. \A j \in K : seen[j] + 1 \in 0 .. STUCK_PAIR_REPEAT
  BY <1>7 DEF LoopSizes
<1>9. seen' \in [K -> 0 .. STUCK_PAIR_REPEAT]
  BY <1>4, <1>5, <1>7, <1>8
<1>10. final' = "running" => \A j \in K : seen'[j] < STUCK_PAIR_REPEAT
  BY <1>4, <1>5, <1>6, <1>7, <1>9 DEF LoopSizes
<1> QED
  BY <1>2, <1>3, <1>9, <1>10 DEF K

LEMMA LoopTypedStep ==
    ASSUME LoopSizes, LoopTyped, [Loop!Next]_(Loop!vars)
    PROVE  LoopTyped'
<1>1. ASSUME NEW cs \in Seq(Loop!Calls), Len(cs) <= MaxCalls, Loop!ReplyActs(cs)
      PROVE  LoopTyped'
  BY <1>1 DEF LoopTyped, Loop!TypeOK, Loop!ReplyActs, Loop!Turning, Loop!workset, LoopSizes,
              Loop!hard_cap
<1>2. ASSUME /\ UNCHANGED <<calls, did_action, last_rc, shell_calls>>
             /\ UNCHANGED <<Loop!workset, executed, unresolved>>
             /\ turns' \in 0 .. Loop!hard_cap /\ nudges' \in 0 .. MAX_NUDGES
             /\ final' \in Loop!Ends /\ (final' = "running" => final = "running")
      PROVE  LoopTyped'
  BY <1>2 DEF LoopTyped, Loop!TypeOK, Loop!workset
<1>a. ASSUME NEW text, Loop!ReplyTalks(text) PROVE LoopTyped'
  <2>1. turns' \in 0 .. Loop!hard_cap /\ nudges' \in 0 .. MAX_NUDGES
    BY <1>a DEF LoopTyped, Loop!TypeOK, Loop!ReplyTalks, Loop!Turning, Loop!hard_cap,
                Loop!MayNudge, LoopSizes
  <2>2. final = "running" /\ (final' = "running" \/ final' = "done" \/ final' = Loop!GaveUp)
    BY <1>a DEF Loop!ReplyTalks, Loop!Turning
  <2>3. final' \in Loop!Ends
    BY <2>2 DEF Loop!Ends, Loop!GaveUp
  <2>4. /\ UNCHANGED <<calls, did_action, last_rc, shell_calls>>
        /\ UNCHANGED <<Loop!workset, executed, unresolved>>
    BY <1>a DEF Loop!ReplyTalks
  <2> QED
    BY <1>2, <2>1, <2>2, <2>3, <2>4
<1>3. ASSUME Loop!ReplyFails \/ Loop!AtCap PROVE LoopTyped'
  <2>1. turns' \in 0 .. Loop!hard_cap /\ nudges' \in 0 .. MAX_NUDGES
    BY <1>3 DEF LoopTyped, Loop!TypeOK, Loop!ReplyFails, Loop!AtCap, Loop!Turning,
                Loop!hard_cap, LoopSizes
  <2>2. final = "running" /\ final' \in Loop!Ends
    BY <1>3 DEF Loop!ReplyFails, Loop!AtCap, Loop!Turning, Loop!Ends
  <2>3. /\ UNCHANGED <<calls, did_action, last_rc, shell_calls>>
        /\ UNCHANGED <<Loop!workset, executed, unresolved>>
    BY <1>3 DEF Loop!ReplyFails, Loop!AtCap
  <2> QED
    BY <1>2, <2>1, <2>2, <2>3
<1>4. ASSUME NEW rc \in {"none", "0"} \cup Loop!Failing, Loop!RunShell(rc) PROVE LoopTyped'
  <2>1. rc \in Loop!Outcomes /\ final = "running" /\ calls # <<>>
          /\ Loop!Record(Head(calls), rc)
    BY <1>4 DEF Loop!RunShell, Loop!Running, Loop!Outcomes
  <2>2. Head(calls) \in Loop!Calls /\ Head(calls).tool = "run_shell"
    BY <1>4 DEF LoopTyped, Loop!TypeOK, Loop!RunShell, Loop!Running
  <2>3. Head(calls).arg \in {make, wipe}
    BY <2>2 DEF Loop!Calls
  <2> DEFINE cmd == Head(calls).arg
  <2>4. /\ UNCHANGED <<turns, nudges, files_read, files_written>>
        /\ shell_calls' = shell_calls + 1 /\ last_rc' = rc
        /\ executed' \in {executed, executed + 1}
        /\ unresolved' = IF rc = "none" THEN unresolved ELSE rc \in Loop!Failing
        /\ failures' \in {failures \cup {cmd}, failures \ {cmd}}
        /\ last_good' \in {last_good, cmd}
    BY <1>4 DEF Loop!RunShell
  <2> HIDE DEF cmd
  <2>5. cmd \in {make, wipe}
    BY <2>3 DEF cmd
  <2>6. unresolved' \in BOOLEAN
    <3>1. unresolved \in BOOLEAN
      BY DEF LoopTyped, Loop!TypeOK
    <3>2. unresolved' = unresolved \/ unresolved' = (rc \in Loop!Failing)
      BY <2>4
    <3>3. (rc \in Loop!Failing) \in BOOLEAN
      OBVIOUS
    <3> QED
      BY <3>1, <3>2, <3>3
  <2>7. /\ {shell_calls', executed'} \subseteq Nat /\ failures' \subseteq {make, wipe}
        /\ last_good' \in {make, wipe} \cup {Loop!NoCmd} /\ last_rc' \in {"none", "0"} \cup Loop!Failing
    <3>1. {shell_calls', executed'} \subseteq Nat
      BY <2>4 DEF LoopTyped, Loop!TypeOK
    <3>2. failures' \subseteq {make, wipe} /\ last_good' \in {make, wipe} \cup {Loop!NoCmd}
      BY <2>4, <2>5 DEF LoopTyped, Loop!TypeOK
    <3> QED
      BY <2>4, <3>1, <3>2
  <2> QED
    BY <2>1, <2>4, <2>6, <2>7, RecordedTypes DEF LoopTyped, Loop!TypeOK
<1>5. ASSUME Loop!WriteFile \/ Loop!ReadFile PROVE LoopTyped'
  <2>1. final = "running" /\ calls # <<>> /\ Head(calls) \in Loop!Calls
          /\ Head(calls).tool \in {"write_file", "read_file"}
    BY <1>5 DEF LoopTyped, Loop!TypeOK, Loop!WriteFile, Loop!ReadFile, Loop!Running
  <2>2. Head(calls).arg \in {notes}
    BY <2>1 DEF Loop!Calls
  <2>3. /\ UNCHANGED <<turns, nudges, last_rc, shell_calls, last_good, failures, executed,
                       unresolved>>
        /\ files_read' \in {files_read, files_read \cup {Head(calls).arg}}
        /\ files_written' \in {files_written, files_written \cup {Head(calls).arg}}
    BY <1>5 DEF Loop!WriteFile, Loop!ReadFile
  <2>4. files_read' \subseteq {notes} /\ files_written' \subseteq {notes}
    BY <2>2, <2>3 DEF LoopTyped, Loop!TypeOK
  <2>5. CASE Loop!Record(Head(calls), "ok")
    <3>1. "ok" \in Loop!Outcomes
      BY DEF Loop!Outcomes
    <3> QED
      BY <2>1, <2>3, <2>4, <2>5, <3>1, RecordedTypes DEF LoopTyped, Loop!TypeOK
  <2>6. CASE calls' = Tail(calls) /\ UNCHANGED <<seen, final, did_action>>
    <3>1. Tail(calls) \in Seq(Loop!Calls) /\ Len(Tail(calls)) <= MaxCalls
      BY <2>1 DEF LoopTyped, Loop!TypeOK, LoopSizes
    <3> QED
      BY <2>3, <2>4, <2>6, <3>1 DEF LoopTyped, Loop!TypeOK
  <2> QED
    BY <1>5, <2>5, <2>6 DEF Loop!WriteFile, Loop!ReadFile
<1>6. ASSUME UNCHANGED Loop!vars PROVE LoopTyped'
  BY <1>6 DEF LoopTyped, Loop!TypeOK, Loop!vars
<1>7. ASSUME Loop!Reply PROVE LoopTyped'
  <2>1. \A n \in 1 .. MaxCalls : \A cs \in [1 .. n -> Loop!Calls] :
            cs \in Seq(Loop!Calls) /\ Len(cs) <= MaxCalls
    BY DEF LoopSizes
  <2>2. \A c \in {make, wipe} \ {wipe} :
          LET cs == <<[tool |-> "run_shell", arg |-> c]>>
          IN  cs \in Seq(Loop!Calls) /\ Len(cs) <= MaxCalls
    BY DEF Loop!Calls, LoopSizes
  <2> QED
    BY <1>1, <1>a, <1>3, <1>7, <2>1, <2>2 DEF Loop!Reply
<1> QED
  BY <1>4, <1>5, <1>6, <1>7 DEF Loop!Next, Loop!ToolCall

----------------------------------------------------------------------------
(* OperatorHarness. *)

TokensCounted ==
    max_nudges \in Nat /\ MaxCost \in Nat /\ token_ceiling \in Nat \ {0}

\* What n replies may cost.
Price(n) == n * MaxCost

\* While the loop goes on, only as many replies as nudges were spent can have
\* gone past the ceiling; one more may, and ends it.
SpendInv ==
    /\ tokens \in Nat /\ op_nudges \in 0 .. max_nudges
    /\ stage # "over" => tokens < token_ceiling + Price(op_nudges)
    /\ stage = "acting" => tokens < token_ceiling
    /\ op_action => worked < token_ceiling
    /\ tokens < token_ceiling + Price(max_nudges + 1)

LEMMA PricesGrow ==
    ASSUME TokensCounted
    PROVE  \A n \in 0 .. max_nudges :
               /\ Price(n) \in Nat /\ Price(n + 1) = Price(n) + MaxCost
               /\ Price(n + 1) <= Price(max_nudges + 1)
<1> SUFFICES ASSUME NEW n \in 0 .. max_nudges
             PROVE  /\ Price(n) \in Nat /\ Price(n + 1) = Price(n) + MaxCost
                    /\ Price(n + 1) <= Price(max_nudges + 1)
  OBVIOUS
<1>1. Price(n) \in Nat /\ Price(n + 1) = Price(n) + MaxCost
  BY DEF TokensCounted, Price
<1>2. PICK k \in Nat : max_nudges = n + k
  <2>1. max_nudges - n \in Nat /\ max_nudges = n + (max_nudges - n)
    BY DEF TokensCounted
  <2> QED
    BY <2>1
<1>3. Price(max_nudges + 1) = Price(n + 1) + Price(k) /\ Price(k) \in Nat
  BY <1>2 DEF TokensCounted, Price
<1> QED
  BY <1>1, <1>3 DEF TokensCounted

LEMMA SpendStart ==
    ASSUME TokensCounted, Model!Init
    PROVE  SpendInv
<1>1. Price(0) = 0 /\ Price(max_nudges + 1) \in Nat
  BY DEF TokensCounted, Price
<1>2. stage = "seed" /\ tokens = 0 /\ op_nudges = 0 /\ op_action = FALSE
  BY Zenon DEF Model!Init
<1> QED
  BY <1>1, <1>2 DEF TokensCounted, SpendInv

LEMMA SpendStep ==
    ASSUME TokensCounted, SpendInv, [Model!Next]_(Model!vars)
    PROVE  SpendInv'
<1>1. \A n \in 0 .. max_nudges : /\ Price(n) \in Nat /\ Price(n + 1) = Price(n) + MaxCost
                                 /\ Price(n + 1) <= Price(max_nudges + 1)
  BY PricesGrow
<1>2. Price(max_nudges + 1) \in Nat /\ MaxCost \in Nat /\ max_nudges \in Nat
      /\ token_ceiling \in Nat
  BY DEF Price, TokensCounted
<1>3. ASSUME Model!Seed \/ Model!ProviderFails \/ Model!Verb \/ Model!FinalAnswer
               \/ Model!Acted \/ Model!TurnCap
      PROVE  SpendInv'
  BY <1>1, <1>2, <1>3 DEF SpendInv, Model!Seed, Model!ProviderFails, Model!Verb,
                          Model!FinalAnswer, Model!Acted,
     Model!TurnCap, Model!End, Model!Turning, Model!counters, Price
<1>4. ASSUME NEW cost \in 0 .. MaxCost, NEW claim \in BOOLEAN, Model!Text(claim, cost)
      PROVE  SpendInv'
  <2>1. /\ tokens' = tokens + cost /\ tokens < token_ceiling + Price(op_nudges)
        /\ UNCHANGED <<worked, op_action>>
        /\ \/ op_nudges' = op_nudges + 1 /\ op_nudges < max_nudges /\ stage' = "turn"
           \/ op_nudges' = op_nudges /\ stage' = "over"
    BY <1>4, <1>2 DEF SpendInv, Model!Text, Model!Turning, Model!Paid, Model!End
  <2>2. op_nudges \in 0 .. max_nudges /\ tokens \in Nat
    BY DEF SpendInv
  <2>3. tokens' < token_ceiling + Price(op_nudges + 1)
    BY <1>1, <1>2, <2>1, <2>2
  <2>4. tokens' < token_ceiling + Price(max_nudges + 1)
    BY <1>1, <1>2, <2>1, <2>2, <2>3
  <2>5. stage' # "over" => tokens' < token_ceiling + Price(op_nudges')
    BY <2>1, <2>3
  <2>6. tokens' \in Nat /\ op_nudges' \in 0 .. max_nudges
    BY <1>2, <2>1, <2>2
  <2>7. op_action' => worked' < token_ceiling
    BY <2>1 DEF SpendInv
  <2>8. stage' # "acting"
    BY <2>1
  <2> QED
    BY <2>4, <2>5, <2>6, <2>7, <2>8 DEF SpendInv, Price
<1>5. ASSUME NEW cost \in 0 .. MaxCost, NEW n, Model!Act(n, cost)
      PROVE  SpendInv'
  <2>1. /\ tokens' = tokens + cost /\ tokens < token_ceiling + Price(op_nudges)
        /\ UNCHANGED <<worked, op_action, op_nudges>>
        /\ \/ tokens' < token_ceiling /\ stage' = "acting"
           \/ stage' = "over"
    BY <1>5, <1>2 DEF SpendInv, Model!Act, Model!Turning, Model!Paid, Model!End
  <2>2. op_nudges \in 0 .. max_nudges /\ tokens \in Nat
    BY DEF SpendInv
  <2>3. tokens' < token_ceiling + Price(max_nudges + 1)
    BY <1>1, <1>2, <2>1, <2>2
  <2>4. stage' # "over" => tokens' < token_ceiling + Price(op_nudges')
    BY <1>1, <1>2, <2>1, <2>2
  <2>5. tokens' \in Nat /\ op_nudges' \in 0 .. max_nudges
    BY <1>2, <2>1, <2>2
  <2> QED
    BY <2>1, <2>3, <2>4, <2>5 DEF SpendInv, Price
<1>6. ASSUME UNCHANGED Model!vars PROVE SpendInv'
  BY <1>6 DEF SpendInv, Model!vars, Model!counters, Price
<1>7. Model!Prices \subseteq 0 .. MaxCost
  BY DEF Model!Prices
<1> QED
  BY <1>3, <1>4, <1>5, <1>6, <1>7 DEF Model!Next

LEMMA SpendShows ==
    ASSUME SpendInv
    PROVE  Model!SpendBounded
BY DEF SpendInv, Model!SpendBounded, Price

\* The types of a run in either style.
TurnsCounted ==
    max_turns \in Nat /\ max_nudges \in Nat /\ MaxCost \in Nat /\ MaxVerbs \in Nat

\* No more was spent than the turns can have cost.
ModelTyped == Model!TypeOK /\ tokens <= Price(op_turns)

LEMMA PriceGrows ==
    ASSUME TurnsCounted, NEW n \in Nat, NEW m \in Nat, n <= m
    PROVE  /\ Price(n) \in Nat /\ Price(m) \in Nat /\ Price(n) <= Price(m)
           /\ Price(n + 1) = Price(n) + MaxCost
<1>1. PICK k \in Nat : m = n + k
  <2>1. m - n \in Nat /\ m = n + (m - n)
    OBVIOUS
  <2> QED
    BY <2>1
<1>2. Price(m) = Price(n) + Price(k) /\ Price(k) \in Nat /\ Price(n) \in Nat
      /\ Price(n + 1) = Price(n) + MaxCost
  BY <1>1 DEF TurnsCounted, Price
<1> QED
  BY <1>2

LEMMA ModelTypedStart ==
    ASSUME TurnsCounted, Model!Init
    PROVE  ModelTyped
<1>1. Price(0) = 0 /\ Model!cap * MaxCost \in Nat /\ Model!cap \in Nat
  BY DEF TurnsCounted, Price, Model!cap
<1>2. /\ style \in {"tools", "code"} /\ stage = "seed" /\ op_action = FALSE
      /\ op_turns = 0 /\ op_nudges = 0 /\ tokens = 0 /\ todo = 0 /\ worked = 0
      /\ reason = Model!Unended
  BY Zenon DEF Model!Init
<1>3. op_action \in BOOLEAN
  BY <1>2, Zenon
<1>4. {tokens, worked} \subseteq 0 .. Model!cap * MaxCost
  BY <1>1, <1>2
<1> QED
  BY <1>1, <1>2, <1>3, <1>4 DEF TurnsCounted, ModelTyped, Model!TypeOK

\* A turn is within the cap, and so are its costs.
LEMMA PaidFits ==
    ASSUME TurnsCounted, ModelTyped, NEW cost \in 0 .. MaxCost,
           op_turns < Model!cap, op_turns' = op_turns + 1, tokens' = tokens + cost
    PROVE  /\ op_turns' \in 0 .. Model!cap /\ tokens' <= Price(op_turns')
           /\ tokens' \in 0 .. Model!cap * MaxCost
<1>1. /\ op_turns \in Nat /\ Model!cap \in Nat /\ op_turns + 1 <= Model!cap
      /\ tokens \in Nat /\ tokens <= Price(op_turns) /\ MaxCost \in Nat
  BY DEF TurnsCounted, ModelTyped, Model!TypeOK, Model!cap
<1>2. /\ Price(op_turns) \in Nat /\ Price(op_turns + 1) = Price(op_turns) + MaxCost
  BY <1>1, PriceGrows
<1>3. Price(op_turns + 1) <= Price(Model!cap) /\ Price(Model!cap) \in Nat
  BY <1>1, PriceGrows
<1>4. tokens' \in Nat /\ tokens' <= Price(op_turns + 1)
  BY <1>1, <1>2
<1>5. tokens' \in 0 .. Price(Model!cap)
  BY <1>2, <1>3, <1>4, <1>1
<1>6. op_turns' \in 0 .. Model!cap
  BY <1>1
<1> QED
  BY <1>4, <1>5, <1>6 DEF Price

LEMMA ModelTypedStep ==
    ASSUME TurnsCounted, ModelTyped, [Model!Next]_(Model!vars)
    PROVE  ModelTyped'
<1> DEFINE Reasons == {Model!Unended, "bridge-unreachable", "tools-unsupported",
                       "provider-error", "done", "final", "stalled", "stalled-no-action",
                       "token-ceiling", "turn-cap", "raised"}
           Stages == {"seed", "turn", "acting", "over"}
<1>1. /\ style \in {"tools", "code"} /\ stage \in Stages /\ reason \in Reasons
      /\ op_turns \in 0 .. Model!cap /\ op_nudges \in 0 .. max_nudges /\ op_action \in BOOLEAN
      /\ tokens \in 0 .. Model!cap * MaxCost /\ worked \in 0 .. Model!cap * MaxCost
      /\ todo \in 0 .. MaxVerbs /\ tokens <= Price(op_turns)
  BY DEF ModelTyped, Model!TypeOK
<1>2. ASSUME /\ style' = style /\ stage' \in Stages /\ reason' \in Reasons
             /\ op_turns' \in 0 .. Model!cap /\ op_nudges' \in 0 .. max_nudges
             /\ op_action' \in BOOLEAN
             /\ tokens' \in 0 .. Model!cap * MaxCost /\ worked' \in 0 .. Model!cap * MaxCost
             /\ todo' \in 0 .. MaxVerbs /\ tokens' <= Price(op_turns')
      PROVE  ModelTyped'
  BY <1>1, <1>2 DEF ModelTyped, Model!TypeOK, Price
<1>3. ASSUME Model!Seed \/ Model!FinalAnswer \/ Model!Acted \/ Model!TurnCap
      PROVE  ModelTyped'
  <2>1. /\ style' = style /\ UNCHANGED <<op_turns, op_nudges, tokens, op_action, worked>>
        /\ (todo' = todo \/ todo' = 0)
    BY <1>3 DEF Model!Seed, Model!FinalAnswer, Model!Acted, Model!TurnCap, Model!counters
  <2>2. stage' \in Stages /\ reason' \in Reasons
    BY <1>1, <1>3 DEF Model!Seed, Model!FinalAnswer, Model!Acted, Model!TurnCap, Model!End
  <2> HIDE DEF Stages, Reasons
  <2>3. todo' \in 0 .. MaxVerbs
    BY <2>1, <1>1 DEF TurnsCounted
  <2> QED
    BY <1>1, <1>2, <2>1, <2>2, <2>3
<1>4. ASSUME Model!ProviderFails PROVE ModelTyped'
  <2>1. /\ UNCHANGED <<style, op_nudges, tokens, op_action, todo, worked>>
        /\ op_turns < Model!cap /\ op_turns' = op_turns + 1 /\ tokens' = tokens + 0
    BY <1>1, <1>4 DEF Model!ProviderFails, Model!Turning
  <2>2. stage' \in Stages /\ reason' \in Reasons
    BY <1>1, <1>4 DEF Model!ProviderFails, Model!End
  <2>3. 0 \in 0 .. MaxCost
    BY DEF TurnsCounted
  <2> HIDE DEF Stages, Reasons
  <2>4. /\ op_turns' \in 0 .. Model!cap /\ tokens' <= Price(op_turns')
        /\ tokens' \in 0 .. Model!cap * MaxCost
    BY <2>1, <2>3, PaidFits
  <2> QED
    BY <1>1, <1>2, <2>1, <2>2, <2>4
<1>5. ASSUME NEW cost \in 0 .. MaxCost, NEW claim \in BOOLEAN, Model!Text(claim, cost)
      PROVE  ModelTyped'
  <2>1. /\ UNCHANGED <<style, op_action, todo, worked>>
        /\ op_turns < Model!cap /\ op_turns' = op_turns + 1 /\ tokens' = tokens + cost
    BY <1>5 DEF Model!Text, Model!Turning, Model!Paid
  <2>2. stage' \in Stages /\ reason' \in Reasons
    BY <1>1, <1>5 DEF Model!Text, Model!End, Model!Turning
  <2>3. op_nudges' \in 0 .. max_nudges
    BY <1>1, <1>5 DEF Model!Text, TurnsCounted
  <2> HIDE DEF Stages, Reasons
  <2>4. /\ op_turns' \in 0 .. Model!cap /\ tokens' <= Price(op_turns')
        /\ tokens' \in 0 .. Model!cap * MaxCost
    BY <2>1, PaidFits
  <2> QED
    BY <1>1, <1>2, <2>1, <2>2, <2>3, <2>4
<1>6. ASSUME NEW cost \in 0 .. MaxCost, NEW n \in 0 .. MaxVerbs, Model!Act(n, cost)
      PROVE  ModelTyped'
  <2>1. /\ UNCHANGED <<style, op_nudges, op_action, worked>>
        /\ op_turns < Model!cap /\ op_turns' = op_turns + 1 /\ tokens' = tokens + cost
        /\ (todo' = todo \/ todo' = n)
    BY <1>6 DEF Model!Act, Model!Turning, Model!Paid
  <2>2. stage' \in Stages /\ reason' \in Reasons
    BY <1>1, <1>6 DEF Model!Act, Model!End
  <2> HIDE DEF Stages, Reasons
  <2>3. /\ op_turns' \in 0 .. Model!cap /\ tokens' <= Price(op_turns')
        /\ tokens' \in 0 .. Model!cap * MaxCost
    BY <2>1, PaidFits
  <2> QED
    BY <1>1, <1>2, <2>1, <2>2, <2>3
<1>7. ASSUME Model!Verb PROVE ModelTyped'
  <2>1. /\ UNCHANGED <<style, op_turns, op_nudges, tokens>> /\ worked' = tokens
        /\ (todo' = todo - 1 \/ todo' = 0) /\ todo > 0
        /\ (op_action' = op_action \/ op_action' = TRUE)
    BY <1>7 DEF Model!Verb
  <2>2. stage' \in Stages /\ reason' \in Reasons
    BY <1>1, <1>7 DEF Model!Verb, Model!End
  <2> HIDE DEF Stages, Reasons
  <2>3. todo' \in 0 .. MaxVerbs
    BY <1>1, <2>1 DEF TurnsCounted
  <2>4. op_action' \in BOOLEAN
    BY <1>1, <2>1
  <2> QED
    BY <1>1, <1>2, <2>1, <2>2, <2>3, <2>4
<1>8. CASE UNCHANGED Model!vars
  <2>1. /\ UNCHANGED <<style, stage, op_turns, op_nudges, tokens, op_action, todo>>
        /\ UNCHANGED <<reason, worked>>
    BY <1>8 DEF Model!vars, Model!counters
  <2> HIDE DEF Stages, Reasons
  <2> QED
    BY <1>1, <1>2, <2>1
<1>9. Model!Prices \subseteq 0 .. MaxCost
      /\ (IF style = "code" THEN 0 ELSE 1) .. MaxVerbs \subseteq 0 .. MaxVerbs
  BY DEF Model!Prices, TurnsCounted
<1> QED
  BY <1>3, <1>4, <1>5, <1>6, <1>7, <1>8, <1>9 DEF Model!Next

----------------------------------------------------------------------------
(* AgentContext.                                                           *)

\* Tokens and limits are numbers.  (A window of no messages would be all of
\* them in the code, which slices by -context_window.)
ContextNumbers ==
    /\ Costs \subseteq Nat /\ Digest \in Nat
    /\ budget \in Nat /\ keep_recent \in Nat /\ token_budget \in Nat
    /\ context_window \in Nat \ {0}

Msg == [no : Nat, role : {"user", "assistant", "tool"}, cost : Nat, task : BOOLEAN]

\* The messages of a task come in the order they were said, and its goal is one
\* of them.
ContextInv ==
    /\ count \in Nat /\ messages \in Seq(Msg)
    /\ \A i \in DOMAIN messages : messages[i].no <= count
    /\ \A i, j \in DOMAIN messages : i < j => messages[i].no < messages[j].no
    /\ \E i \in DOMAIN messages : messages[i].task

LEMMA SameTokens ==
    ASSUME NEW S
    PROVE  Context!Cardinality(S) = Cardinality(S)
BY DEF Cardinality, Context!Cardinality

\* The tokens of the messages D of s.
TokensOf(s, D) == UNION {{i} \X (1 .. s[i].cost) : i \in D}

LEMMA TokensFinite ==
    ASSUME NEW s \in Seq(Msg), NEW D \in SUBSET DOMAIN s
    PROVE  /\ IsFiniteSet(TokensOf(s, D))
           /\ Context!CostOf(s, D) = Cardinality(TokensOf(s, D))
           /\ Context!CostOf(s, D) \in Nat
<1> DEFINE c == [i \in D |-> s[i].cost]
<1>1. IsFiniteSet(D)
  <2>1. DOMAIN s = 1 .. Len(s) /\ Len(s) \in Nat
    OBVIOUS
  <2>2. IsFiniteSet(1 .. Len(s))
    BY <2>1, FS_Interval
  <2> QED
    BY <2>1, <2>2, FS_Subset
<1>2. ASSUME NEW i \in D PROVE c[i] \in Nat /\ c[i] = s[i].cost
  <2>1. s[i] \in Msg
    OBVIOUS
  <2> QED
    BY <2>1 DEF Msg
<1>3. TokensOf(s, D) = Pieces(D, c)
  BY <1>2 DEF TokensOf, Pieces
<1> HIDE DEF c
<1>4. IsFiniteSet(TokensOf(s, D))
  BY <1>1, <1>2, <1>3, PiecesFinite
<1>5. Context!CostOf(s, D) = Cardinality(TokensOf(s, D))
  BY SameTokens DEF Context!CostOf, TokensOf
<1> QED
  BY <1>4, <1>5, FS_CardinalityType

\* Messages found among others, one by one, cost no more than those.
LEMMA CostsNoMore ==
    ASSUME NEW p \in Seq(Msg), NEW q \in Seq(Msg), NEW D \in SUBSET DOMAIN q,
           NEW g \in [DOMAIN p -> D],
           \A i, j \in DOMAIN p : g[i] = g[j] => i = j,
           \A i \in DOMAIN p : p[i].cost = q[g[i]].cost
    PROVE  Context!Cost(p) <= Context!CostOf(q, D)
<1> DEFINE S == TokensOf(p, DOMAIN p)
           T == TokensOf(q, D)
           f == [x \in S |-> <<g[x[1]], x[2]>>]
<1>1. \A x \in S : x[1] \in DOMAIN p /\ x[2] \in 1 .. p[x[1]].cost /\ x = <<x[1], x[2]>>
  BY DEF TokensOf
<1>2. ASSUME NEW x \in S PROVE <<g[x[1]], x[2]>> \in T
  <2>1. g[x[1]] \in D /\ x[2] \in 1 .. q[g[x[1]]].cost
    BY <1>1
  <2> QED
    BY <2>1 DEF TokensOf
<1> HIDE DEF S, T
<1>3. f \in [S -> T] /\ \A x \in S : f[x] = <<g[x[1]], x[2]>>
  BY <1>2
<1>4. ASSUME NEW x \in S, NEW y \in S, f[x] = f[y] PROVE x = y
  <2>1. g[x[1]] = g[y[1]] /\ x[2] = y[2]
    BY <1>3, <1>4
  <2> QED
    BY <1>1, <2>1
<1> HIDE DEF f
<1>5. f \in Injection(S, T)
  BY <1>3, <1>4 DEF Injection, IsInjective
<1>6. IsFiniteSet(T) /\ Context!CostOf(q, D) = Cardinality(T)
  BY TokensFinite DEF T
<1>7. Context!Cost(p) = Cardinality(S)
  BY TokensFinite DEF S, Context!Cost
<1> QED
  BY <1>5, <1>6, <1>7, FS_Injection

\* Where a loop stops that ends as soon as it may.
LEMMA Stops ==
    ASSUME NEW n \in Nat, NEW F
    PROVE  /\ Context!Stop(F, n) \in 0 .. n
           /\ Context!Stop(F, n) \in F \/ Context!Stop(F, n) = n
           /\ \A j \in 0 .. Context!Stop(F, n) - 1 : j \notin F
<1> DEFINE T == {k \in 0 .. n : k \in F \/ k = n}
<1>1. T \subseteq 0 .. n /\ n \in T /\ T \in SUBSET Nat
  OBVIOUS
<1>2. \A k \in T : k \in F \/ k = n
  OBVIOUS
<1>3. \A k \in 0 .. n : k \in F => k \in T
  OBVIOUS
<1> HIDE DEF T
<1>4. PICK k \in T : \A m \in T : k <= m
  BY <1>1, LeastNumber
<1>5. k \in 0 .. n /\ \A j \in 0 .. k - 1 : j \in 0 .. n /\ j \notin T
  BY <1>1, <1>4
<1>6. \E h \in 0 .. n : (h \in F \/ h = n) /\ \A j \in 0 .. h - 1 : j \notin F
  BY <1>2, <1>3, <1>5
<1> QED
  BY <1>6 DEF Context!Stop

\* Digesting changes no message but in its cost, and none that is kept.
LEMMA DigestedOnly ==
    ASSUME ContextNumbers, NEW s \in Seq(Msg)
    PROVE  LET t == Context!Digested(s)
           IN  /\ t \in Seq(Msg) /\ Len(t) = Len(s) /\ DOMAIN t = DOMAIN s
               /\ \A i \in DOMAIN s : t[i].no = s[i].no /\ t[i].task = s[i].task
               /\ \A i \in DOMAIN s : Context!Kept(s, i) => t[i] = s[i]
<1> DEFINE upto(n) == [i \in DOMAIN s |->
               IF i <= n /\ ~Context!Kept(s, i) /\ s[i].role = "tool" /\ s[i].cost > Digest
               THEN [s[i] EXCEPT !.cost = Digest] ELSE s[i]]
           F == {n \in 0 .. Len(s) : Context!Cost(upto(n)) <= budget}
           k == Context!Stop(F, Len(s))
<1>1. Context!Digested(s) = upto(k)
  BY DEF Context!Digested
<1> HIDE DEF k, F
<1>2. ASSUME NEW i \in DOMAIN s
      PROVE  /\ upto(k)[i] \in Msg
             /\ upto(k)[i].no = s[i].no /\ upto(k)[i].task = s[i].task
             /\ Context!Kept(s, i) => upto(k)[i] = s[i]
  <2>1. s[i] \in Msg
    OBVIOUS
  <2>2. /\ [s[i] EXCEPT !.cost = Digest] \in Msg
        /\ [s[i] EXCEPT !.cost = Digest].no = s[i].no
        /\ [s[i] EXCEPT !.cost = Digest].task = s[i].task
    BY <2>1 DEF Msg, ContextNumbers
  <2>3. upto(k)[i] = s[i] \/ (upto(k)[i] = [s[i] EXCEPT !.cost = Digest] /\ ~Context!Kept(s, i))
    OBVIOUS
  <2> QED
    BY <2>1, <2>2, <2>3
<1>3. /\ DOMAIN s = 1 .. Len(s) /\ Len(s) \in Nat
      /\ DOMAIN upto(k) = 1 .. Len(s) /\ upto(k) = [i \in 1 .. Len(s) |-> upto(k)[i]]
  OBVIOUS
<1> HIDE DEF upto
<1> DEFINE t == upto(k)
<1>4. t \in [1 .. Len(s) -> Msg]
  <2>1. \A i \in 1 .. Len(s) : t[i] \in Msg
    BY <1>2, <1>3
  <2> HIDE DEF t
  <2> QED
    BY <1>3, <2>1 DEF t
<1>5. t \in Seq(Msg) /\ Len(t) = Len(s)
  <2> HIDE DEF t
  <2> QED
    BY <1>3, <1>4
<1> QED
  BY <1>1, <1>2, <1>3, <1>5

\* What is dropped is not kept, and with that the list fits, or there was
\* nothing else to drop.
LEMMA DroppedOnly ==
    ASSUME ContextNumbers, NEW s \in Seq(Msg)
    PROVE  /\ Context!Dropped(s) \subseteq DOMAIN s
           /\ \A i \in Context!Dropped(s) : ~Context!Kept(s, i)
           /\ \/ Context!CostOf(s, DOMAIN s \ Context!Dropped(s)) <= budget
              \/ \A i \in DOMAIN s \ Context!Dropped(s) : Context!Kept(s, i)
<1> DEFINE upto(n) == {i \in 1 .. n : ~Context!Kept(s, i)}
           F == {n \in 0 .. Len(s) : Context!CostOf(s, DOMAIN s \ upto(n)) <= budget}
           k == Context!Stop(F, Len(s))
<1>1. Context!Dropped(s) = upto(k)
  BY DEF Context!Dropped
<1>2. DOMAIN s = 1 .. Len(s) /\ Len(s) \in Nat
  OBVIOUS
<1>3. k \in 0 .. Len(s) /\ (k \in F \/ k = Len(s))
  <2> HIDE DEF F
  <2> QED
    BY <1>2, Stops
<1>4. k \in F => Context!CostOf(s, DOMAIN s \ upto(k)) <= budget
  <2> HIDE DEF k, upto
  <2> QED
    OBVIOUS
<1> HIDE DEF k
<1>5. upto(k) \subseteq DOMAIN s /\ \A i \in upto(k) : ~Context!Kept(s, i)
  <2>1. k \in 0 .. Len(s)
    BY <1>3
  <2>2. \A i \in 1 .. k : i \in 1 .. Len(s)
    BY <1>2, <2>1
  <2> QED
    BY <1>2, <2>2
<1>6. k = Len(s) => \A i \in DOMAIN s \ upto(k) : Context!Kept(s, i)
  BY <1>2
<1> HIDE DEF F, upto
<1> QED
  BY <1>1, <1>3, <1>4, <1>5, <1>6

\* The messages that pruning leaves.
Left(s) == DOMAIN Context!Digested(s) \ Context!Dropped(Context!Digested(s))

LEMMA Pruned ==
    ASSUME ContextNumbers, NEW s \in Seq(Msg)
    PROVE  LET t == Context!Digested(s)
               p == Context!Prune(s)
           IN  /\ Left(s) \in SUBSET (1 .. Len(s)) /\ Left(s) \in SUBSET Nat
               /\ IsFiniteSet(Left(s)) /\ Cardinality(Left(s)) \in Nat
               /\ \A i \in DOMAIN s : Context!Kept(t, i) <=> Context!Kept(s, i)
               /\ \A i \in DOMAIN s : Context!Kept(s, i) => i \in Left(s)
               /\ p \in Seq(Msg) /\ Len(p) = Cardinality(Left(s))
               /\ \A k \in 1 .. Len(p) :
                    /\ Nth(Left(s), k) \in Left(s)
                    /\ Rank(Left(s), Nth(Left(s), k)) = k
                    /\ p[k] = t[Nth(Left(s), k)]
<1> DEFINE t == Context!Digested(s)
           p == Context!Prune(s)
           L == Left(s)
<1>1. /\ t \in Seq(Msg) /\ Len(t) = Len(s) /\ DOMAIN t = DOMAIN s
      /\ \A i \in DOMAIN s : t[i].no = s[i].no /\ t[i].task = s[i].task
      /\ DOMAIN s = 1 .. Len(s) /\ Len(s) \in Nat
  <2> HIDE DEF t
  <2> QED
    BY DigestedOnly DEF t
<1> HIDE DEF t
<1>2. \A i \in DOMAIN s : Context!Kept(t, i) <=> Context!Kept(s, i)
  BY <1>1 DEF Context!Kept
<1>3. L = (1 .. Len(s)) \ Context!Dropped(t)
  BY <1>1 DEF t, Left
<1>4. \A i \in DOMAIN s : Context!Kept(s, i) => i \in L
  BY <1>1, <1>2, <1>3, DroppedOnly
<1>5. p = [k \in 1 .. Cardinality(L) |-> t[Context!Nth(L, k)]]
  <2>1. p = [k \in 1 .. Context!Cardinality(L) |-> t[Context!Nth(L, k)]]
    BY DEF Context!Prune, t, Left
  <2> HIDE DEF L
  <2>2. Context!Cardinality(L) = Cardinality(L)
    BY SameTokens
  <2> QED
    BY <2>1, <2>2
<1>6. \A k : Context!Nth(L, k) = Nth(L, k)
  <2> HIDE DEF L
  <2> QED
    BY SameTokens DEF Nth, Rank, Context!Nth
<1> HIDE DEF L, p
<1>7. L \in SUBSET (1 .. Len(s)) /\ L \in SUBSET Nat /\ IsFiniteSet(L)
  <2>1. L \in SUBSET (1 .. Len(s)) /\ L \in SUBSET Nat
    BY <1>3
  <2>2. IsFiniteSet(1 .. Len(s))
    BY <1>1, FS_Interval
  <2> QED
    BY <2>1, <2>2, FS_Subset
<1>8. /\ Cardinality(L) \in Nat
      /\ \A k \in 1 .. Cardinality(L) : Nth(L, k) \in L /\ Rank(L, Nth(L, k)) = k
  BY <1>7, Nths
<1>9. p = [k \in 1 .. Cardinality(L) |-> t[Nth(L, k)]]
  BY <1>5, <1>6
<1>10. \A k \in 1 .. Cardinality(L) : t[Nth(L, k)] \in Msg
  <2> SUFFICES ASSUME NEW k \in 1 .. Cardinality(L) PROVE t[Nth(L, k)] \in Msg
    OBVIOUS
  <2>1. Nth(L, k) \in DOMAIN t
    BY <1>1, <1>7, <1>8
  <2> QED
    BY <1>1, <2>1
<1>11. p \in [1 .. Cardinality(L) -> Msg] /\ \A k \in 1 .. Cardinality(L) : p[k] = t[Nth(L, k)]
  BY <1>9, <1>10
<1>12. p \in Seq(Msg) /\ Len(p) = Cardinality(L)
  BY <1>8, <1>11
<1> QED
  BY <1>2, <1>4, <1>7, <1>8, <1>11, <1>12 DEF t, p, L

\* Of what is left the last stand at the end, as they stood before.
LEMMA LastRanks ==
    ASSUME NEW n \in Nat, NEW r \in Nat, NEW S \in SUBSET (1 .. n),
           \A i \in 1 .. n : i > n - r => i \in S
    PROVE  \A i \in 1 .. n : i > n - r => Rank(S, i) = Cardinality(S) - (n - i)
<1> SUFFICES ASSUME NEW i \in 1 .. n, i > n - r
             PROVE  Rank(S, i) = Cardinality(S) - (n - i)
  OBVIOUS
<1>1. {j \in S : j <= i} = S \ ((i + 1) .. n)
  <2>1. \A j \in S : j \in Nat /\ j <= n
    OBVIOUS
  <2>2. \A j \in S : j <= i <=> j \notin (i + 1) .. n
    BY <2>1
  <2> QED
    BY <2>2
<1>2. S \cap ((i + 1) .. n) = (i + 1) .. n
  OBVIOUS
<1>3. IsFiniteSet(S)
  <2>1. IsFiniteSet(1 .. n)
    BY FS_Interval
  <2> QED
    BY <2>1, FS_Subset
<1>4. Cardinality(S \ ((i + 1) .. n)) = Cardinality(S) - Cardinality(S \cap ((i + 1) .. n))
  BY <1>3, FS_Difference
<1>5. Cardinality((i + 1) .. n) = n - i
  <2>1. i + 1 \in Int /\ n \in Int
    OBVIOUS
  <2>2. Cardinality((i + 1) .. n) = IF i + 1 > n THEN 0 ELSE n - (i + 1) + 1
    BY <2>1, FS_Interval
  <2> QED
    BY <2>2
<1> QED
  BY <1>1, <1>2, <1>4, <1>5 DEF Rank

\* The newest messages are as they were.
LEMMA NewestStay ==
    ASSUME ContextNumbers, NEW s \in Seq(Msg)
    PROVE  Context!Recent(Context!Prune(s), keep_recent) = Context!Recent(s, keep_recent)
<1> DEFINE p == Context!Prune(s)
           t == Context!Digested(s)
           L == Left(s)
           n == Len(s)
           m == Len(p)
           r == keep_recent
<1>1. /\ L \in SUBSET (1 .. n) /\ L \in SUBSET Nat /\ IsFiniteSet(L) /\ Cardinality(L) \in Nat
      /\ \A i \in DOMAIN s : Context!Kept(s, i) => i \in L
      /\ p \in Seq(Msg) /\ m = Cardinality(L)
      /\ \A k \in 1 .. m : Nth(L, k) \in L /\ p[k] = t[Nth(L, k)]
  <2> HIDE DEF p, t, L
  <2> QED
    BY Pruned DEF p, t, L
<1>2. DOMAIN s = 1 .. n /\ n \in Nat /\ r \in Nat
  BY DEF ContextNumbers
<1>3. \A i \in DOMAIN s : Context!Kept(s, i) => t[i] = s[i]
  BY DigestedOnly
<1> HIDE DEF t, L, n
<1>4. \A i \in 1 .. n : i > n - r => i \in L /\ t[i] = s[i]
  <2>1. \A i \in 1 .. n : i > n - r => Context!Kept(s, i)
    BY DEF Context!Kept, n
  <2> QED
    BY <1>1, <1>2, <1>3, <2>1
<1> HIDE DEF p, m
<1>5. \A i \in 1 .. n : i > n - r => Rank(L, i) = m - (n - i)
  BY <1>1, <1>2, <1>4, LastRanks
<1>6. ASSUME NEW i \in 1 .. n, i > n - r
      PROVE  m - (n - i) \in 1 .. m /\ p[m - (n - i)] = s[i]
  <2>1. Rank(L, i) \in 1 .. Cardinality(L) /\ Nth(L, Rank(L, i)) = i
    BY <1>1, <1>4, <1>6, Nths
  <2>2. Rank(L, i) = m - (n - i)
    BY <1>5, <1>6
  <2> QED
    BY <1>1, <1>4, <1>6, <2>1, <2>2
<1>7. m \in Nat /\ Len(p) = m /\ Len(s) = n
  BY <1>1 DEF m, n
<1>8. CASE n > r
  <2>1. r > 0 => m > r
    <3> SUFFICES ASSUME r > 0 PROVE m > r
      OBVIOUS
    <3>1. 1 \in DOMAIN s /\ Context!Kept(s, 1)
      BY <1>2, <1>8 DEF Context!Kept
    <3>2. 1 \in L
      BY <1>1, <3>1
    <3> DEFINE i == n - r + 1
    <3>3. i \in 1 .. n /\ i > n - r /\ 1 < i /\ n - i = r - 1
      BY <1>2, <1>8
    <3> HIDE DEF i
    <3>4. Rank(L, i) = m - (r - 1) /\ i \in L
      BY <1>4, <1>5, <3>3
    <3>5. Rank(L, 1) < Rank(L, i) /\ Rank(L, 1) \in 1 .. Cardinality(L)
      BY <1>1, <3>2, <3>3, <3>4, Ranks
    <3> QED
      BY <1>1, <1>2, <1>7, <3>4, <3>5
  <2>2. CASE r = 0
    <3>1. Context!Recent(s, r) = <<>>
      BY <1>2, <1>7, <1>8, <2>2 DEF Context!Recent
    <3>2. Context!Recent(p, r) = <<>>
      BY <1>1, <1>7, <2>2 DEF Context!Recent
    <3> QED
      BY <3>1, <3>2 DEF p
  <2>3. CASE r > 0
    <3>1. Context!Recent(s, r) = [k \in 1 .. r |-> s[n - r + k]]
      BY <1>2, <1>7, <1>8 DEF Context!Recent
    <3>2. Context!Recent(p, r) = [k \in 1 .. r |-> p[m - r + k]]
      BY <1>1, <1>2, <1>7, <2>1, <2>3 DEF Context!Recent
    <3>3. ASSUME NEW k \in 1 .. r PROVE p[m - r + k] = s[n - r + k]
      <4>1. n - r + k \in 1 .. n /\ n - r + k > n - r /\ m - (n - (n - r + k)) = m - r + k
        BY <1>2, <1>7, <1>8
      <4> QED
        BY <1>6, <4>1
    <3> QED
      BY <3>1, <3>2, <3>3 DEF p
  <2> QED
    BY <1>2, <2>2, <2>3
<1>9. CASE ~(n > r)
  <2>1. L = 1 .. n
    <3>1. \A i \in 1 .. n : i > n - r
      BY <1>2, <1>9
    <3> QED
      BY <1>1, <1>4, <3>1
  <2>2. m = n
    BY <1>1, <1>2, <2>1, FS_Interval
  <2>3. \A i \in 1 .. n : p[i] = s[i]
    <3> SUFFICES ASSUME NEW i \in 1 .. n PROVE p[i] = s[i]
      OBVIOUS
    <3>1. i > n - r /\ m - (n - i) = i
      BY <1>2, <1>9, <2>2
    <3> QED
      BY <1>6, <3>1
  <2>4. p = s
    <3>1. p = [i \in 1 .. n |-> p[i]] /\ s = [i \in 1 .. n |-> s[i]]
      BY <1>1, <1>2, <1>7, <2>2
    <3> QED
      BY <2>3, <3>1
  <2> QED
    BY <2>4 DEF p
<1> QED
  BY <1>8, <1>9

\* What a pruned list is, by what it was pruned from.
LEMMA GoalStays ==
    ASSUME ContextNumbers, ContextInv
    PROVE  LET p == Context!Prune(messages)
           IN  /\ p \in Seq(Msg)
               /\ \A k \in DOMAIN p : p[k].no <= count
               /\ \A j, k \in DOMAIN p : j < k => p[j].no < p[k].no
               /\ \E k \in DOMAIN p : p[k].task
               /\ Context!Cost(p) <= budget \/ \A k \in DOMAIN p : Context!Kept(p, k)
<1> DEFINE s == messages
           p == Context!Prune(messages)
           t == Context!Digested(messages)
           L == Left(messages)
           o(k) == Nth(L, k)
           n == Len(s)
           m == Len(p)
<1>1. s \in Seq(Msg) /\ DOMAIN s = 1 .. n /\ n \in Nat
  BY DEF ContextInv
<1>2. /\ L \in SUBSET (1 .. n) /\ L \in SUBSET Nat /\ IsFiniteSet(L) /\ Cardinality(L) \in Nat
      /\ \A i \in DOMAIN s : Context!Kept(t, i) <=> Context!Kept(s, i)
      /\ \A i \in DOMAIN s : Context!Kept(s, i) => i \in L
      /\ p \in Seq(Msg) /\ m = Cardinality(L)
      /\ \A k \in 1 .. m : o(k) \in L /\ p[k] = t[o(k)]
  <2> HIDE DEF p, t, L
  <2> QED
    BY <1>1, Pruned DEF p, t, L
<1>3. /\ t \in Seq(Msg) /\ Len(t) = n /\ DOMAIN t = DOMAIN s
      /\ \A i \in DOMAIN s : t[i].no = s[i].no /\ t[i].task = s[i].task
  <2> HIDE DEF t
  <2> QED
    BY <1>1, DigestedOnly DEF t
<1>4. /\ \A j, k \in 1 .. m : j < k => o(j) < o(k)
      /\ \A i \in L : Rank(L, i) \in 1 .. m /\ o(Rank(L, i)) = i
  <2> HIDE DEF L
  <2> QED
    BY <1>2, Nths
<1>5. L = DOMAIN t \ Context!Dropped(t)
  BY DEF Left
<1> HIDE DEF L, p, t, o
<1>6. DOMAIN p = 1 .. m /\ m \in Nat
  BY <1>2
<1>7. \A k \in 1 .. m : o(k) \in DOMAIN s /\ p[k].no = s[o(k)].no /\ p[k].task = s[o(k)].task
  BY <1>1, <1>2, <1>3
<1>8. \A k \in DOMAIN p : p[k].no <= count
  BY <1>6, <1>7 DEF ContextInv
<1>9. \A j, k \in DOMAIN p : j < k => p[j].no < p[k].no
  BY <1>4, <1>6, <1>7 DEF ContextInv
<1>10. \E k \in DOMAIN p : p[k].task
  <2>1. PICK i \in DOMAIN s : s[i].task
    BY DEF ContextInv
  <2>2. i \in L
    BY <1>2, <2>1 DEF Context!Kept
  <2>3. p[Rank(L, i)].task /\ Rank(L, i) \in DOMAIN p
    BY <1>4, <1>6, <1>7, <2>1, <2>2
  <2> QED
    BY <2>3
<1>11. CASE Context!CostOf(t, L) <= budget
  <2> DEFINE g == [k \in DOMAIN p |-> o(k)]
  <2>1. g \in [DOMAIN p -> L] /\ L \in SUBSET DOMAIN t
    BY <1>1, <1>2, <1>3, <1>6
  <2>2. ASSUME NEW j \in DOMAIN p, NEW k \in DOMAIN p, g[j] = g[k] PROVE j = k
    <3>1. o(j) = o(k) /\ o(j) \in Nat /\ j \in 1 .. m /\ k \in 1 .. m
      BY <1>2, <1>6, <2>2
    <3>2. ~(j < k) /\ ~(k < j)
      BY <1>4, <3>1
    <3> QED
      BY <1>6, <3>1, <3>2
  <2>3. \A k \in DOMAIN p : p[k].cost = t[g[k]].cost
    BY <1>2, <1>6
  <2> HIDE DEF g
  <2>4. Context!Cost(p) <= Context!CostOf(t, L)
    BY <1>2, <1>3, <2>1, <2>2, <2>3, CostsNoMore
  <2>5. Context!CostOf(t, L) \in Nat /\ Context!Cost(p) \in Nat
    <3>1. Context!CostOf(t, L) \in Nat
      BY <1>3, <2>1, TokensFinite
    <3>2. Context!CostOf(p, DOMAIN p) \in Nat
      BY <1>2, TokensFinite
    <3> QED
      BY <3>1, <3>2 DEF Context!Cost
  <2>6. Context!Cost(p) <= budget
    BY <1>11, <2>4, <2>5 DEF ContextNumbers
  <2> QED
    BY <1>2, <1>8, <1>9, <1>10, <2>6 DEF p
<1>12. CASE \A i \in L : Context!Kept(t, i)
  <2>1. ASSUME NEW k \in DOMAIN p PROVE Context!Kept(p, k)
    <3>1. k \in 1 .. m /\ o(k) \in L /\ o(k) \in 1 .. n /\ p[k] = t[o(k)] /\ Context!Kept(t, o(k))
      BY <1>2, <1>6, <1>12
    <3>2. CASE o(k) = 1
      <4>1. ~(1 < k)
        <5> SUFFICES ASSUME 1 < k PROVE FALSE
          OBVIOUS
        <5>1. 1 \in 1 .. m
          BY <1>6, <3>1
        <5>2. o(1) \in L /\ o(1) < o(k)
          BY <1>4, <1>2, <3>1, <5>1
        <5>3. o(1) \in 1 .. n
          BY <1>2, <5>2
        <5> QED
          BY <1>1, <3>2, <5>2, <5>3
      <4> QED
        BY <1>6, <3>1, <4>1 DEF Context!Kept
    <3>3. CASE o(k) > n - keep_recent
      <4>1. \A i \in 1 .. n : i > n - keep_recent => i \in L
        BY <1>1, <1>2 DEF Context!Kept
      <4>2. Rank(L, o(k)) = Cardinality(L) - (n - o(k))
        <5> DEFINE i == o(k)
        <5>1. i \in 1 .. n /\ i > n - keep_recent
          BY <3>1, <3>3
        <5> HIDE DEF i
        <5>2. Rank(L, i) = Cardinality(L) - (n - i)
          BY <1>1, <1>2, <4>1, <5>1, LastRanks DEF ContextNumbers
        <5> QED
          BY <5>2 DEF i
      <4>3. Rank(L, o(k)) = k
        BY <1>2, <3>1, Nths DEF o
      <4>4. k > m - keep_recent
        BY <1>1, <1>2, <1>6, <3>1, <3>3, <4>2, <4>3 DEF ContextNumbers
      <4> QED
        BY <4>4 DEF Context!Kept
    <3>4. CASE t[o(k)].task
      BY <3>1, <3>4 DEF Context!Kept
    <3> QED
      BY <1>3, <3>1, <3>2, <3>3, <3>4 DEF Context!Kept
  <2> QED
    BY <1>2, <1>8, <1>9, <1>10, <2>1 DEF p
<1> QED
  <2>1. Context!CostOf(t, DOMAIN t \ Context!Dropped(t)) <= budget
            \/ \A i \in DOMAIN t \ Context!Dropped(t) : Context!Kept(t, i)
    BY <1>3, DroppedOnly
  <2> QED
    BY <1>5, <1>11, <1>12, <2>1

LEMMA GoalShows ==
    ASSUME ContextNumbers, ContextInv
    PROVE  Context!GoalKept
BY GoalStays, NewestStay DEF ContextInv, Context!GoalKept

LEMMA ContextStart ==
    ASSUME ContextNumbers, Context!Init
    PROVE  ContextInv
<1>1. PICK c \in Costs, d \in Costs :
        messages = << [no |-> 1, role |-> "user", cost |-> c, task |-> FALSE],
                      [no |-> 2, role |-> "user", cost |-> d, task |-> TRUE] >>
  BY DEF Context!Init
<1>2. count = 2 /\ c \in Nat /\ d \in Nat
  BY DEF Context!Init, ContextNumbers
<1>3. messages \in Seq(Msg) /\ Len(messages) = 2
  BY <1>1, <1>2 DEF Msg
<1> QED
  BY <1>1, <1>2, <1>3 DEF ContextInv

LEMMA ContextStep ==
    ASSUME ContextNumbers, ContextInv, [Context!Next]_(Context!vars)
    PROVE  ContextInv'
<1>1. CASE UNCHANGED Context!vars
  BY <1>1 DEF Context!vars, ContextInv
<1>2. ASSUME NEW c \in Costs, NEW d \in Costs, NEW role \in {"tool", "user"},
             Context!Turn(c, d, role)
      PROVE  ContextInv'
  <2> DEFINE p == Context!Prune(messages)
             x == [no |-> count + 1, role |-> "assistant", cost |-> c, task |-> FALSE]
             y == [no |-> count + 2, role |-> role, cost |-> d, task |-> FALSE]
             m == Len(p)
  <2>1. messages' = p \o << x, y >> /\ count' = count + 2
    BY <1>2 DEF Context!Turn
  <2>2. /\ p \in Seq(Msg)
        /\ \A k \in DOMAIN p : p[k].no <= count
        /\ \A j, k \in DOMAIN p : j < k => p[j].no < p[k].no
        /\ \E k \in DOMAIN p : p[k].task
    BY GoalStays
  <2>3. x \in Msg /\ y \in Msg /\ x.no = count + 1 /\ y.no = count + 2 /\ count \in Nat
    BY DEF ContextInv, ContextNumbers, Msg
  <2> HIDE DEF p, x, y
  <2>4. /\ messages' \in Seq(Msg) /\ m \in Nat /\ DOMAIN p = 1 .. m
        /\ DOMAIN messages' = 1 .. m + 2
        /\ \A k \in 1 .. m : messages'[k] = p[k]
        /\ messages'[m + 1] = x /\ messages'[m + 2] = y
    BY <2>1, <2>2, <2>3
  <2> HIDE DEF m
  <2>5. \A k \in 1 .. m : p[k].no \in Nat
    <3>1. \A k \in 1 .. m : p[k] \in Msg
      BY <2>2, <2>4
    <3> QED
      BY <3>1 DEF Msg
  <2>6. \A k \in DOMAIN messages' : k \in 1 .. m \/ k = m + 1 \/ k = m + 2
    BY <2>4
  <2>7. \A k \in DOMAIN messages' : messages'[k].no <= count'
    BY <2>1, <2>2, <2>3, <2>4, <2>5, <2>6
  <2>8. ASSUME NEW j \in DOMAIN messages', NEW k \in DOMAIN messages', j < k
        PROVE  messages'[j].no < messages'[k].no
    <3>1. j \in 1 .. m \/ (j = m + 1 /\ k = m + 2)
      BY <2>4, <2>8
    <3>2. CASE j = m + 1 /\ k = m + 2
      BY <2>3, <2>4, <3>2
    <3>3. CASE j \in 1 .. m
      <4>1. messages'[j].no = p[j].no /\ p[j].no <= count /\ p[j].no \in Nat
        BY <2>2, <2>4, <2>5, <3>3
      <4>2. CASE k \in 1 .. m
        BY <2>2, <2>4, <2>8, <3>3, <4>2
      <4>3. CASE k = m + 1 \/ k = m + 2
        BY <2>3, <2>4, <4>1, <4>3
      <4> QED
        BY <2>6, <4>2, <4>3
    <3> QED
      BY <3>1, <3>2, <3>3
  <2>9. \E k \in DOMAIN messages' : messages'[k].task
    <3>1. PICK k \in DOMAIN p : p[k].task
      BY <2>2
    <3>2. k \in DOMAIN messages' /\ messages'[k] = p[k]
      BY <2>4
    <3> QED
      BY <3>1, <3>2
  <2>10. count' \in Nat
    BY <2>1, <2>3
  <2> QED
    BY <2>4, <2>7, <2>8, <2>9, <2>10 DEF ContextInv
<1> QED
  BY <1>1, <1>2 DEF Context!Next

\* The newest n messages, and those of the newest.
LEMMA Newest ==
    ASSUME NEW s \in Seq(Msg), NEW n \in 0 .. Len(s)
    PROVE  /\ Context!Recent(s, n) \in Seq(Msg) /\ Len(Context!Recent(s, n)) = n
           /\ \A i \in 1 .. n : Context!Recent(s, n)[i] = s[Len(s) - n + i]
<1>1. Len(s) \in Nat /\ DOMAIN s = 1 .. Len(s)
  OBVIOUS
<1>2. Context!Recent(s, n) = [i \in 1 .. n |-> s[Len(s) - n + i]]
  <2>1. CASE Len(s) > n
    <3>1. Context!Recent(s, n) = SubSeq(s, Len(s) - n + 1, Len(s))
      BY <2>1 DEF Context!Recent
    <3> QED
      BY <1>1, <2>1, <3>1
  <2>2. CASE Len(s) = n
    <3>1. ~(Len(s) > n)
      BY <1>1, <2>2
    <3>2. Context!Recent(s, n) = SubSeq(s, 1, Len(s))
      BY <3>1 DEF Context!Recent
    <3>3. Context!Recent(s, n) = [i \in 1 .. n |-> s[i]]
      BY <1>1, <2>2, <3>2
    <3>4. \A i \in 1 .. n : Len(s) - n + i = i
      BY <1>1, <2>2
    <3> QED
      BY <3>3, <3>4
  <2>3. Len(s) > n \/ Len(s) = n
    <3>1. Len(s) \in Nat /\ n \in 0 .. Len(s)
      BY <1>1
    <3> DEFINE l == Len(s)
    <3> HIDE DEF l
    <3>2. l \in Nat /\ n \in 0 .. l
      BY <3>1 DEF l
    <3>3. l > n \/ l = n
      BY <3>2
    <3> QED
      BY <3>3 DEF l
  <2> QED
    BY <2>1, <2>2, <2>3
<1>3. \A i \in 1 .. n : s[Len(s) - n + i] \in Msg
  <2>1. \A i \in 1 .. n : Len(s) - n + i \in 1 .. Len(s)
    BY <1>1
  <2> QED
    BY <1>1, <2>1
<1> QED
  BY <1>2, <1>3

LEMMA NewestOfNewest ==
    ASSUME NEW s \in Seq(Msg), NEW n \in 0 .. Len(s), NEW k \in 0 .. n
    PROVE  Context!Recent(Context!Recent(s, n), k) = Context!Recent(s, k)
<1> DEFINE q == Context!Recent(s, n)
<1>1. q \in Seq(Msg) /\ Len(q) = n /\ \A i \in 1 .. n : q[i] = s[Len(s) - n + i]
  BY Newest
<1> HIDE DEF q
<1>2. Len(s) \in Nat /\ k \in 0 .. Len(s) /\ n \in Nat
  OBVIOUS
<1> DEFINE a == Context!Recent(q, k)
           b == Context!Recent(s, k)
<1>3. a \in Seq(Msg) /\ Len(a) = k /\ \A i \in 1 .. k : a[i] = q[n - k + i]
  BY <1>1, Newest
<1>4. b \in Seq(Msg) /\ Len(b) = k /\ \A i \in 1 .. k : b[i] = s[Len(s) - k + i]
  BY <1>2, Newest
<1> HIDE DEF a, b
<1>5. ASSUME NEW i \in 1 .. k PROVE a[i] = b[i]
  <2>1. n - k + i \in 1 .. n /\ Len(s) - n + (n - k + i) = Len(s) - k + i
    BY <1>2
  <2> QED
    BY <1>1, <1>3, <1>4, <2>1
<1>6. a = [i \in 1 .. k |-> a[i]] /\ b = [i \in 1 .. k |-> b[i]]
  BY <1>3, <1>4
<1>7. a = b
  BY <1>5, <1>6
<1> QED
  BY <1>7 DEF a, b, q

\* A longer run of newest messages costs no less.
LEMMA LongerCostsMore ==
    ASSUME NEW s \in Seq(Msg), NEW n \in 0 .. Len(s), NEW k \in 0 .. n
    PROVE  /\ Context!Cost(Context!Recent(s, k)) <= Context!Cost(Context!Recent(s, n))
           /\ Context!Cost(Context!Recent(s, k)) \in Nat
           /\ Context!Cost(Context!Recent(s, n)) \in Nat
<1> DEFINE q == Context!Recent(s, n)
           p == Context!Recent(s, k)
           g == [i \in DOMAIN p |-> n - k + i]
<1>1. q \in Seq(Msg) /\ Len(q) = n /\ \A i \in 1 .. n : q[i] = s[Len(s) - n + i]
  BY Newest
<1>2. p \in Seq(Msg) /\ Len(p) = k /\ \A i \in 1 .. k : p[i] = s[Len(s) - k + i]
  <2>1. k \in 0 .. Len(s)
    OBVIOUS
  <2> HIDE DEF p
  <2> QED
    BY <2>1, Newest DEF p
<1> HIDE DEF p, q
<1>3. /\ DOMAIN p = 1 .. k /\ DOMAIN q = 1 .. n /\ n \in Nat /\ k \in Nat /\ Len(s) \in Nat
      /\ \A i \in 1 .. k : n - k + i \in 1 .. n
  BY <1>1, <1>2
<1>4. g \in [DOMAIN p -> DOMAIN q] /\ \A i, j \in DOMAIN p : g[i] = g[j] => i = j
  BY <1>3
<1>5. ASSUME NEW i \in DOMAIN p PROVE p[i].cost = q[g[i]].cost
  <2>1. i \in 1 .. k /\ n - k + i \in 1 .. n /\ Len(s) - n + (n - k + i) = Len(s) - k + i
    BY <1>3
  <2> QED
    BY <1>1, <1>2, <2>1
<1> HIDE DEF g
<1>6. Context!Cost(p) <= Context!CostOf(q, DOMAIN q)
  BY <1>1, <1>2, <1>4, <1>5, CostsNoMore
<1>7. Context!CostOf(q, DOMAIN q) \in Nat /\ Context!CostOf(p, DOMAIN p) \in Nat
  BY <1>1, <1>2, TokensFinite
<1> QED
  BY <1>6, <1>7 DEF Context!Cost, p, q

LEMMA WindowShows ==
    ASSUME ContextNumbers, ContextInv
    PROVE  Context!WindowIsLongest
<1> DEFINE s == messages
           all == Context!Recent(s, context_window)
           n == Len(all)
           F == {k \in 1 .. n - 1 : Context!Cost(Context!Recent(all, k + 1)) > token_budget}
           k == Context!Stop(F, n)
           w == Context!Window(s)
           cost(h) == Context!Cost(Context!Recent(s, h))
<1>1. s \in Seq(Msg) /\ Len(s) \in Nat /\ context_window \in Nat /\ token_budget \in Nat
  BY DEF ContextInv, ContextNumbers
<1>2. /\ n \in 0 .. Len(s) /\ n <= context_window /\ (n = Len(s) \/ n = context_window)
      /\ all = Context!Recent(s, n)
  <2>1. CASE Len(s) > context_window
    <3>1. context_window \in 0 .. Len(s)
      BY <1>1, <2>1
    <3>2. n = context_window
      BY <1>1, <3>1, Newest
    <3> QED
      BY <1>1, <3>1, <3>2
  <2>2. CASE ~(Len(s) > context_window)
    <3>1. all = SubSeq(s, 1, Len(s))
      BY <2>2 DEF Context!Recent
    <3>2. all = Context!Recent(s, Len(s))
      <4> HIDE DEF s, all
      <4>1. ~(Len(s) > Len(s))
        BY <1>1
      <4>2. Context!Recent(s, Len(s)) = SubSeq(s, 1, Len(s))
        BY <4>1 DEF Context!Recent
      <4> QED
        BY <3>1, <4>2
    <3>3. Len(s) \in 0 .. Len(s)
      BY <1>1
    <3>4. n = Len(s)
      BY <1>1, <3>2, <3>3, Newest
    <3> QED
      BY <1>1, <2>2, <3>2, <3>4
  <2> QED
    BY <2>1, <2>2
<1> HIDE DEF s, all, n
<1>3. \A h \in 0 .. n : Context!Recent(all, h) = Context!Recent(s, h)
  BY <1>1, <1>2, NewestOfNewest
<1>4. k \in 0 .. n /\ (k \in F \/ k = n) /\ \A j \in 0 .. k - 1 : j \notin F
  <2>1. n \in Nat
    BY <1>1, <1>2
  <2> HIDE DEF F
  <2> QED
    BY <2>1, Stops
<1>5. w = Context!Recent(all, k)
  BY DEF Context!Window, all, n, s
<1> HIDE DEF k, w
<1>6. \A h : h \in F <=> h \in 1 .. n - 1 /\ Context!Cost(Context!Recent(all, h + 1)) > token_budget
  BY Zenon
<1> HIDE DEF F
<1>7. \A h \in 1 .. n - 1 : h \in F <=> cost(h + 1) > token_budget
  <2> SUFFICES ASSUME NEW h \in 1 .. n - 1 PROVE h \in F <=> cost(h + 1) > token_budget
    OBVIOUS
  <2>1. h + 1 \in 0 .. n
    BY <1>1, <1>2
  <2> QED
    BY <1>3, <1>6, <2>1
<1>8. \A h \in 0 .. Len(s), j \in 0 .. Len(s) :
          j <= h => cost(j) <= cost(h) /\ cost(j) \in Nat /\ cost(h) \in Nat
  <2> SUFFICES ASSUME NEW h \in 0 .. Len(s), NEW j \in 0 .. h
               PROVE  cost(j) <= cost(h) /\ cost(j) \in Nat /\ cost(h) \in Nat
    BY <1>1
  <2> QED
    BY <1>1, LongerCostsMore
<1>9. cost(0) = 0
  <2>1. Context!Recent(s, 0) \in Seq(Msg) /\ Len(Context!Recent(s, 0)) = 0
    BY <1>1, Newest
  <2>2. DOMAIN Context!Recent(s, 0) = {}
    BY <2>1
  <2>3. TokensOf(Context!Recent(s, 0), {}) = {}
    BY DEF TokensOf
  <2>4. Context!CostOf(Context!Recent(s, 0), {}) = Cardinality({})
    BY <2>1, <2>3, TokensFinite
  <2> QED
    BY <2>2, <2>4, FS_EmptySet DEF Context!Cost
<1>10. w = Context!Recent(s, k) /\ Len(w) = k
  <2>1. k \in 0 .. Len(s)
    BY <1>1, <1>2, <1>4
  <2> QED
    BY <1>1, <1>3, <1>4, <1>5, <2>1, Newest
<1> HIDE DEF cost
<1>11. k <= context_window /\ (k = 1 \/ cost(k) <= token_budget)
  <2>1. k <= context_window
    BY <1>1, <1>2, <1>4
  <2>2. CASE k = 0
    BY <1>1, <1>9, <2>1, <2>2
  <2>3. CASE k > 1
    <3>1. k - 1 \in 1 .. n - 1 /\ k - 1 \in 0 .. k - 1 /\ k - 1 + 1 = k /\ k \in 0 .. Len(s)
      BY <1>1, <1>2, <1>4, <2>3
    <3>2. ~(cost(k) > token_budget)
      BY <1>4, <1>7, <3>1
    <3>3. cost(k) \in Nat
      BY <1>8, <3>1
    <3> QED
      BY <1>1, <2>1, <3>2, <3>3
  <2> QED
    BY <1>1, <1>2, <1>4, <2>1, <2>2, <2>3
<1>12. ASSUME NEW h \in 1 .. Len(s), h <= context_window, h = 1 \/ cost(h) <= token_budget
       PROVE  h <= k
  <2> SUFFICES ASSUME k < h PROVE FALSE
    BY <1>1, <1>2, <1>4
  <2>1. h <= n /\ k < n
    BY <1>1, <1>2, <1>4, <1>12
  <2>2. k \in F /\ k \in 1 .. n - 1
    BY <1>1, <1>2, <1>4, <1>6, <2>1
  <2>3. cost(k + 1) > token_budget
    BY <1>7, <2>2
  <2>4. k + 1 <= h /\ k + 1 \in 0 .. Len(s) /\ h \in 0 .. Len(s) /\ h # 1
    BY <1>1, <1>2, <1>4, <2>1, <2>2
  <2>5. cost(k + 1) <= cost(h) /\ cost(k + 1) \in Nat /\ cost(h) \in Nat
    BY <1>8, <2>4
  <2> QED
    BY <1>1, <1>12, <2>3, <2>4, <2>5
<1> QED
  BY <1>10, <1>11, <1>12 DEF Context!WindowIsLongest, w, s, cost


\* A message is within the bound, and costs what it cost when said, or what a
\* digest costs.
ContextSizes == MaxMessages \in Nat /\ MaxMessages >= 2
ContextTyped ==
    /\ count \in 1 .. MaxMessages
    /\ \A i \in DOMAIN messages : /\ messages[i].no \in 1 .. MaxMessages
                                  /\ messages[i].cost \in Costs \cup {Digest}

LEMMA DigestedCosts ==
    ASSUME ContextNumbers, NEW s \in Seq(Msg), NEW i \in DOMAIN s
    PROVE  Context!Digested(s)[i].cost \in {s[i].cost, Digest}
<1> DEFINE upto(n) == [j \in DOMAIN s |->
               IF j <= n /\ ~Context!Kept(s, j) /\ s[j].role = "tool" /\ s[j].cost > Digest
               THEN [s[j] EXCEPT !.cost = Digest] ELSE s[j]]
           F == {n \in 0 .. Len(s) : Context!Cost(upto(n)) <= budget}
           k == Context!Stop(F, Len(s))
<1>1. Context!Digested(s) = upto(k)
  BY DEF Context!Digested
<1> HIDE DEF k
<1>2. upto(k)[i] = s[i] \/ upto(k)[i] = [s[i] EXCEPT !.cost = Digest]
  OBVIOUS
<1>3. s[i] \in Msg
  OBVIOUS
<1>4. [s[i] EXCEPT !.cost = Digest].cost = Digest
  BY <1>3 DEF Msg
<1> HIDE DEF upto
<1> QED
  BY <1>1, <1>2, <1>4

\* A message that pruning leaves was there before, for as much or for a digest.
LEMMA PrunedFrom ==
    ASSUME ContextNumbers, NEW s \in Seq(Msg), NEW k \in DOMAIN Context!Prune(s)
    PROVE  \E i \in DOMAIN s : /\ Context!Prune(s)[k].no = s[i].no
                               /\ Context!Prune(s)[k].cost \in {s[i].cost, Digest}
<1> DEFINE t == Context!Digested(s)
           p == Context!Prune(s)
           i == Nth(Left(s), k)
<1>1. /\ p \in Seq(Msg) /\ Left(s) \in SUBSET (1 .. Len(s))
      /\ \A j \in 1 .. Len(p) : Nth(Left(s), j) \in Left(s) /\ p[j] = t[Nth(Left(s), j)]
  <2> HIDE DEF t, p
  <2> QED
    BY Pruned DEF t, p
<1>2. k \in 1 .. Len(p)
  <2> HIDE DEF p
  <2>1. k \in DOMAIN p
    BY DEF p
  <2> QED
    BY <1>1, <2>1
<1>3. i \in 1 .. Len(s) /\ DOMAIN s = 1 .. Len(s) /\ p[k] = t[i]
  <2> HIDE DEF t, p
  <2> QED
    BY <1>1, <1>2
<1> HIDE DEF i, p
<1>4. t[i].no = s[i].no
  <2> HIDE DEF t
  <2> QED
    BY <1>3, DigestedOnly DEF t
<1>5. t[i].cost \in {s[i].cost, Digest}
  BY <1>3, DigestedCosts
<1> HIDE DEF t
<1> QED
  BY <1>3, <1>4, <1>5 DEF p

LEMMA ContextTypedStart ==
    ASSUME ContextNumbers, ContextSizes, Context!Init
    PROVE  ContextTyped
<1>1. PICK c \in Costs, d \in Costs :
        messages = << [no |-> 1, role |-> "user", cost |-> c, task |-> FALSE],
                      [no |-> 2, role |-> "user", cost |-> d, task |-> TRUE] >>
  BY DEF Context!Init
<1>2. count = 2 /\ {1, 2} \subseteq 1 .. MaxMessages
  BY DEF Context!Init, ContextSizes
<1>3. DOMAIN messages = {1, 2}
  BY <1>1
<1> QED
  BY <1>1, <1>2, <1>3 DEF ContextTyped

LEMMA ContextTypedStep ==
    ASSUME ContextNumbers, ContextSizes, ContextInv, ContextTyped, [Context!Next]_(Context!vars)
    PROVE  ContextTyped'
<1>1. CASE UNCHANGED Context!vars
  BY <1>1 DEF Context!vars, ContextTyped
<1>2. ASSUME NEW c \in Costs, NEW d \in Costs, NEW role \in {"tool", "user"},
             Context!Turn(c, d, role)
      PROVE  ContextTyped'
  <2> DEFINE p == Context!Prune(messages)
             x == [no |-> count + 1, role |-> "assistant", cost |-> c, task |-> FALSE]
             y == [no |-> count + 2, role |-> role, cost |-> d, task |-> FALSE]
             m == Len(p)
             Fits(z) == z.no \in 1 .. MaxMessages /\ z.cost \in Costs \cup {Digest}
  <2>1. messages' = p \o << x, y >> /\ count' = count + 2 /\ count + 2 <= MaxMessages
    BY <1>2 DEF Context!Turn
  <2>2. p \in Seq(Msg) /\ messages \in Seq(Msg)
    BY GoalStays DEF ContextInv
  <2>3. Fits(x) /\ Fits(y) /\ count' \in 1 .. MaxMessages
    BY <2>1 DEF ContextTyped, ContextSizes
  <2>4. ASSUME NEW k \in DOMAIN p PROVE Fits(p[k])
    <3>1. PICK i \in DOMAIN messages :
              p[k].no = messages[i].no /\ p[k].cost \in {messages[i].cost, Digest}
      BY <2>2, PrunedFrom
    <3> HIDE DEF p
    <3> QED
      BY <3>1 DEF ContextTyped
  <2> HIDE DEF p, x, y
  <2>5. /\ m \in Nat /\ DOMAIN p = 1 .. m
        /\ DOMAIN messages' = 1 .. m + 2
        /\ \A k \in 1 .. m : messages'[k] = p[k]
        /\ messages'[m + 1] = x /\ messages'[m + 2] = y
    BY <2>1, <2>2
  <2> HIDE DEF m, Fits
  <2>6. \A k \in DOMAIN messages' : k \in 1 .. m \/ k = m + 1 \/ k = m + 2
    BY <2>5
  <2>7. \A k \in DOMAIN messages' : Fits(messages'[k])
    BY <2>3, <2>4, <2>5, <2>6
  <2> QED
    BY <2>3, <2>7 DEF ContextTyped, Fits
<1> QED
  BY <1>1, <1>2 DEF Context!Next

LEMMA ContextShowsTypes ==
    ASSUME ContextInv, ContextTyped
    PROVE  Context!TypeOK
<1>1. messages \in Seq(Msg) /\ DOMAIN messages = 1 .. Len(messages) /\ Len(messages) \in Nat
      /\ messages = [i \in 1 .. Len(messages) |-> messages[i]]
  BY DEF ContextInv
<1>2. \A i \in 1 .. Len(messages) : messages[i] \in Context!Message
  <2> SUFFICES ASSUME NEW i \in 1 .. Len(messages) PROVE messages[i] \in Context!Message
    OBVIOUS
  <2>1. messages[i] \in Msg
    BY <1>1
  <2>2. messages[i].no \in 1 .. MaxMessages /\ messages[i].cost \in Costs \cup {Digest}
    BY <1>1 DEF ContextTyped
  <2> QED
    BY <2>1, <2>2 DEF Msg, Context!Message
<1>3. messages \in Seq(Context!Message)
  <2>1. [i \in 1 .. Len(messages) |-> messages[i]] \in Seq(Context!Message)
    BY <1>1, <1>2
  <2> QED
    BY <1>1, <2>1
<1> QED
  BY <1>3 DEF ContextTyped, Context!TypeOK

----------------------------------------------------------------------------
\* In the composition a task of the agent goes on as NativeLoop says, and the
\* loop of a model that is the operator as OperatorHarness says, or they rest.
LEMMA LoopSteps ==
    /\ MCInit => Loop!Init /\ Model!Init
    /\ [MCNext]_allVars => [Loop!Next]_(Loop!vars) /\ [Model!Next]_(Model!vars)
BY DEF MCInit, MCNext, allVars, loopVars, modelVars, Loop!vars, Loop!workset, Model!vars,
       Model!counters

\* For any budgets: whatever a model says and however commands end, a task is
\* broken off before any action of it fails more than STUCK_FAIL_REPEAT times,
\* be it in different ways or with a success in between, and runs no more
\* commands than MAX_COMMANDS (agent/bridge.py _run_native).
THEOREM RetriesAreBounded ==
    ASSUME LoopLimits
    PROVE  MCSpec => []Loop!RetriesBounded
<1>1. MCInit => LoopInv
  BY LoopStart, LoopSteps
<1>2. LoopInv /\ [MCNext]_allVars => LoopInv'
  BY LoopStep, LoopSteps
<1>3. LoopInv => Loop!RetriesBounded
  BY DEF LoopInv, Loop!RetriesBounded
<1> QED
  BY <1>1, <1>2, <1>3, PTL DEF MCSpec

\* For any budgets, in both styles: no verb is called at or above the token
\* ceiling, though it is looked at only when a reply acts; and talking past it
\* costs no more than one reply for each nudge and one that ends the loop
\* (operator/harness.py, codeact.py).
THEOREM SpendIsBounded ==
    ASSUME TokensCounted
    PROVE  MCSpec => []Model!SpendBounded
<1>1. MCInit => SpendInv
  BY SpendStart, LoopSteps
<1>2. SpendInv /\ [MCNext]_allVars => SpendInv'
  BY SpendStep, LoopSteps
<1>3. SpendInv => Model!SpendBounded
  BY SpendShows
<1> QED
  BY <1>1, <1>2, <1>3, PTL DEF MCSpec

\* In the composition the messages of a task go on as AgentContext says, or
\* rest.
LEMMA ContextSteps ==
    /\ MCInit => Context!Init
    /\ [MCNext]_allVars => [Context!Next]_(Context!vars)
BY DEF MCInit, MCNext, allVars, contextVars, Context!vars

\* For any limits: retries are bounded and so is what a model spends; however
\* often the message list of a task is brought under its budget, its goal and
\* its newest messages stay, and what is sent fits or has nothing left to drop;
\* the window of a transcript is the longest that fits; and once the transfers
\* that are retained have ended, their chunks fit the room's memory
\* (agent/bridge.py _run_native, _prune_native_messages, _window,
\* operator/harness.py, codeact.py, publisher.py _evict_retained).
THEOREM BudgetsAreKept ==
    ASSUME LoopLimits, TokensCounted, ContextNumbers, DownBounds, RetainBound
    PROVE  MCSpec => []BudgetsKept
<1> DEFINE Inv == ContextInv /\ DownInv /\ RetainInv
<1>1. MCInit => Inv
  BY ContextStart, ContextSteps, DownStart, RetainStart, DownSteps
<1>2. Inv /\ [MCNext]_allVars => Inv'
  <2>1. ContextInv /\ [MCNext]_allVars => ContextInv'
    BY ContextStep, ContextSteps
  <2>2. DownInv /\ RetainInv /\ [MCNext]_allVars => (DownInv /\ RetainInv)'
    BY DownStep, RetainStep, DownSteps
  <2> QED
    BY <2>1, <2>2
<1>3. MCSpec => []Loop!RetriesBounded /\ []Model!SpendBounded
  BY RetriesAreBounded, SpendIsBounded
<1>4. Inv /\ Loop!RetriesBounded /\ Model!SpendBounded => BudgetsKept
  <2>1. ContextInv => Context!GoalKept /\ Context!WindowIsLongest
    BY GoalShows, WindowShows
  <2>2. DownInv /\ RetainInv => Down!RetentionBounded
    BY RetainShows
  <2> QED
    BY <2>1, <2>2 DEF BudgetsKept
<1> HIDE DEF Inv
<1> QED
  BY <1>1, <1>2, <1>3, <1>4, PTL DEF MCSpec

----------------------------------------------------------------------------
\* What the types of all parts rest on.
AllTyped ==
    /\ GuestInv /\ DownInv /\ RetainInv /\ DownTyped /\ UploadInv /\ LimitTyped
    /\ SecretInv /\ ShareInv
    /\ EgressInv /\ BoxInv /\ DriveInv /\ RegInv /\ DeviceFlags /\ ShellInv
    /\ InboxInv /\ InboxTyped /\ LoopTyped /\ ModelTyped /\ ContextInv /\ ContextTyped

\* One of the parts runs.
Parts == {"guests", "downloads", "uploads", "limits", "secret", "loop", "context", "inbox",
          "observer", "boxes", "model", "device", "share", "egress", "drive", "registry"}

\* For any size of every table, queue, window and budget: all the programs
\* around a room keep the types of their state, and so stay within the bounds
\* that are part of them: the offers and retained chunks of the publisher, each
\* accepted file once in the order of eviction; its staged uploads; the rooms
\* and attempts of a source; the operator's ring of events and the numbers of
\* its readers' cursors; a task's command queue and its repeated results
\* (publisher.py _web_offer, _web_ft_*, limits.py, operator/bridge.py _emit,
\* agent/bridge.py _run_native, _prune_native_messages, device/bridge.py).
THEOREM TypesAreKept ==
    ASSUME GuestBounds, DownBounds, RetainBound, DownSizes, UploadBounds, LimitSizes,
           SecretDistinct, ShareBounds, NoLaunchIsNone, OpsAreCounted, Clocked, ProbeApart,
           InboxBounds, InboxSizes, LoopSizes, TurnsCounted, ContextNumbers, ContextSizes
    PROVE  MCSpec => []TypesOK
<1> DEFINE Inv == part \in Parts /\ AllTyped
<1>1. MCInit => Inv
  <2> SUFFICES ASSUME MCInit PROVE part \in Parts /\ AllTyped
    OBVIOUS
  <2>1. part \in Parts
    BY DEF MCInit, Parts
  <2>2. GuestInv /\ DownInv /\ RetainInv /\ DownTyped /\ UploadInv
    BY GuestStart, GuestSteps, DownStart, RetainStart, DownTypedStart, DownSteps,
       UploadStart, UploadSteps
  <2>3. LimitTyped /\ SecretInv /\ ShareInv
    BY LimitTypedStart, LimitSteps, SecretStart, SecretSteps, ShareStart, ShareSteps
  <2>4. EgressInv /\ BoxInv /\ DriveInv /\ RegInv
    BY EgressStart, EgressSteps, BoxStart, BoxSteps, DriveStart, DriveSteps, RegStart,
       RegSteps
  <2>5. DeviceFlags /\ ShellInv
    BY FlagsStart, ShellStart, DeviceSteps
  <2>6. InboxInv /\ InboxTyped
    BY InboxStart, InboxTypedStart, InboxSteps
  <2>7. LoopTyped /\ ModelTyped /\ ContextInv /\ ContextTyped
    BY LoopTypedStart, ModelTypedStart, LoopSteps, ContextStart, ContextTypedStart,
       ContextSteps
  <2> QED
    BY <2>1, <2>2, <2>3, <2>4, <2>5, <2>6, <2>7 DEF AllTyped
<1>2. Inv /\ [MCNext]_allVars => Inv'
  <2> SUFFICES ASSUME part \in Parts, AllTyped, [MCNext]_allVars
               PROVE  (part \in Parts)' /\ AllTyped'
    OBVIOUS
  <2>1. part' = part
    BY DEF MCNext, allVars
  <2>2. GuestInv' /\ UploadInv'
    BY GuestStep, GuestSteps, UploadStep, UploadSteps DEF AllTyped
  <2>3. DownInv' /\ RetainInv' /\ DownTyped'
    BY DownStep, RetainStep, DownTypedStep, DownSteps DEF AllTyped
  <2>4. LimitTyped' /\ SecretInv' /\ ShareInv'
    BY LimitTypedStep, LimitSteps, SecretStep, SecretSteps, ShareStep, ShareSteps DEF AllTyped
  <2>5. EgressInv' /\ BoxInv' /\ DriveInv' /\ RegInv'
    BY EgressStep, EgressSteps, BoxStep, BoxSteps, DriveStep, DriveSteps, RegInvStep,
       RegSteps DEF AllTyped
  <2>6. DeviceFlags' /\ ShellInv'
    BY FlagsStep, ShellStep, DeviceSteps DEF AllTyped
  <2>7. InboxInv' /\ InboxTyped'
    BY InboxStep, InboxTypedStep, InboxSteps DEF AllTyped
  <2>8. LoopTyped' /\ ModelTyped' /\ ContextInv' /\ ContextTyped'
    BY LoopTypedStep, ModelTypedStep, LoopSteps, ContextStep, ContextTypedStep,
       ContextSteps DEF AllTyped
  <2>9. (part \in Parts)'
    BY <2>1 DEF Parts
  <2> QED
    BY <2>2, <2>3, <2>4, <2>5, <2>6, <2>7, <2>8, <2>9 DEF AllTyped
<1>3. Inv => TypesOK
  <2> SUFFICES ASSUME part \in Parts, AllTyped PROVE TypesOK
    OBVIOUS
  <2>1. Guest!TypeOK /\ Upl!TypeOK
    BY GuestShows, UploadsShow DEF AllTyped
  <2>2. Down!TypeOK /\ Limit!TypeOK
    BY DownShowsTypes, LimitShowsTypes DEF AllTyped
  <2>3. Secret!TypeOK /\ Share!TypeOK
    BY DEF AllTyped, SecretInv, ShareInv
  <2>4. Egress!TypeOK /\ Box!TypeOK /\ Drive!TypeOK /\ Reg!TypeOK
    BY DEF AllTyped, EgressInv, BoxInv, DriveInv, RegInv
  <2>5. Device!TypeOK /\ Inbox!TypeOK
    BY DeviceTyped, InboxShowsTypes DEF AllTyped
  <2>6. Loop!TypeOK /\ Model!TypeOK /\ Context!TypeOK
    BY ContextShowsTypes DEF AllTyped, LoopTyped, ModelTyped
  <2> QED
    BY <2>1, <2>2, <2>3, <2>4, <2>5, <2>6 DEF Parts, TypesOK
<1> HIDE DEF Inv
<1> QED
  BY <1>1, <1>2, <1>3, PTL DEF MCSpec
=============================================================================
