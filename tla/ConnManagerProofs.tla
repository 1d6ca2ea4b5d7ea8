-------------------------- MODULE ConnManagerProofs --------------------------
(***************************************************************************)
(* Proof that the connection manager implements RoomFeed, for any set of   *)
(* connections and users and any queue bound: FeedRefined.                 *)
(*                                                                         *)
(* The argument looks at one connection at a time.  The frame its writer   *)
(* holds and the frames that wait behind it are one line, `Line`: taking a *)
(* frame off the queue does not change the line, a send that returns drops *)
(* its head, an enqueue appends to it.  `Orderly` says what may stand in a *)
(* line, and `Complete` that nothing the connection still has to be shown  *)
(* is missing from it, which holds until the connection is refused a       *)
(* frame.                                                                  *)
(***************************************************************************)
EXTENDS ConnManager, FiniteSetTheorems, TLAPS

-----------------------------------------------------------------------------
(* Frames and lines.                                                       *)

IsInit(f) == f[1] = "init"
IsMessage(f) == f[1] = "message"

\* The frames a socket is still to be given, the one being sent first.
Line(held, waiting) ==
    IF held = <<>> THEN waiting
    ELSE [k \in 1 .. Len(waiting) + 1 |->
              IF k = 1 THEN held ELSE waiting[k - 1]]

\* What a connection was shown, or will be by the snapshot its line begins with.
Seen(last, line) ==
    IF last >= 0 THEN last ELSE IF line # <<>> THEN line[1][2] ELSE 0

\* Only a line whose snapshot has not been shown begins with one; the messages
\* in it are newer than what was seen, and in order.
Orderly(last, line, n) ==
    /\ last = -1 => line # <<>> /\ IsInit(line[1])
    /\ \A i \in DOMAIN line : IsInit(line[i]) => last = -1 /\ i = 1
    /\ Seen(last, line) <= n
    /\ \A i \in DOMAIN line :
           IsMessage(line[i]) => Seen(last, line) < line[i][2] /\ line[i][2] <= n
    /\ \A i, j \in DOMAIN line :
           i < j /\ IsMessage(line[i]) /\ IsMessage(line[j])
               => line[i][2] < line[j][2]

\* Every message after what was seen stands in the line.
Complete(last, line, n) ==
    \A k \in Nat :
        Seen(last, line) < k /\ k <= n =>
            \E i \in DOMAIN line : line[i] = Message(k)

\* A frame is one of three kinds, and is not the empty tuple.
LEMMA FrameFacts ==
    ASSUME NEW f \in Frames
    PROVE  /\ f # <<>>
           /\ f[2] \in 0..MaxSent
           /\ IsInit(f) \/ IsMessage(f) \/ f = Notice
           /\ ~ (IsInit(f) /\ IsMessage(f))
           /\ IsMessage(f) => f = Message(f[2])
           /\ f = Notice => ~IsInit(f) /\ ~IsMessage(f)
<1>1. CASE f = Notice
    BY <1>1, ConnAssumption DEF Notice, IsInit, IsMessage
<1>2. CASE f \in {"init", "message"} \X (0..MaxSent)
    BY <1>2 DEF Notice, IsInit, IsMessage, Message
<1> QED BY <1>1, <1>2 DEF Frames

\* The frames the manager makes.
LEMMA MadeFrames ==
    ASSUME NEW n \in 0..MaxSent
    PROVE  /\ Snapshot(n) \in Frames /\ IsInit(Snapshot(n)) /\ Snapshot(n)[2] = n
           /\ Message(n) \in Frames /\ IsMessage(Message(n)) /\ Message(n)[2] = n
           /\ Notice \in Frames /\ Notice # Message(n)
    BY ConnAssumption DEF Snapshot, Message, Notice, Frames, IsInit, IsMessage

LEMMA LineType ==
    ASSUME NEW held \in Frames \cup {<<>>}, NEW waiting \in Seq(Frames)
    PROVE  /\ Line(held, waiting) \in Seq(Frames)
           /\ held # <<>> => Line(held, waiting) # <<>>
           /\ held # <<>> => Line(held, waiting)[1] = held
           /\ held = <<>> => Line(held, waiting) = waiting
           /\ Len(Line(held, waiting)) =
                  IF held = <<>> THEN Len(waiting) ELSE Len(waiting) + 1
<1>1. CASE held = <<>>
    BY <1>1 DEF Line
<1>2. CASE held # <<>>
    <2> DEFINE l == [k \in 1 .. Len(waiting) + 1 |->
                        IF k = 1 THEN held ELSE waiting[k - 1]]
    <2>1. held \in Frames /\ Len(waiting) \in Nat
        BY <1>2
    <2>2. \A k \in 1 .. Len(waiting) : waiting[k] \in Frames
        OBVIOUS
    <2>3. l \in [1 .. Len(waiting) + 1 -> Frames]
        BY <2>1, <2>2
    <2>4. l \in Seq(Frames) /\ Len(l) = Len(waiting) + 1 /\ l[1] = held
        BY <2>1, <2>3
    <2>5. l # <<>>
        BY <2>1, <2>4
    <2>6. Line(held, waiting) = l
        BY <1>2 DEF Line
    <2> QED BY <1>2, <2>4, <2>5, <2>6
<1> QED BY <1>1, <1>2

\* Taking the head of the queue leaves the line as it was.
LEMMA LineTake ==
    ASSUME NEW waiting \in Seq(Frames), waiting # <<>>
    PROVE  /\ Line(Head(waiting), Tail(waiting)) = waiting
           /\ Head(waiting) \in Frames /\ Tail(waiting) \in Seq(Frames)
<1>1. Head(waiting) \in Frames /\ Tail(waiting) \in Seq(Frames)
          /\ Len(Tail(waiting)) = Len(waiting) - 1 /\ Len(waiting) \in Nat \ {0}
    OBVIOUS
<1>2. Head(waiting) # <<>>
    BY <1>1, FrameFacts
<1>3. \A k \in 1 .. Len(waiting) : waiting[k] =
          IF k = 1 THEN Head(waiting) ELSE Tail(waiting)[k - 1]
    OBVIOUS
<1>4. Line(Head(waiting), Tail(waiting)) =
          [k \in 1 .. Len(waiting) |->
              IF k = 1 THEN Head(waiting) ELSE Tail(waiting)[k - 1]]
    BY <1>1, <1>2 DEF Line
<1>5. waiting = [k \in 1 .. Len(waiting) |-> waiting[k]]
    OBVIOUS
<1> QED BY <1>1, <1>3, <1>4, <1>5

\* Sending the held frame drops the head of the line.
LEMMA LineSent ==
    ASSUME NEW held \in Frames, NEW waiting \in Seq(Frames)
    PROVE  /\ held # <<>> /\ Len(Line(held, waiting)) = Len(waiting) + 1
           /\ Line(held, waiting)[1] = held
           /\ \A k \in 1 .. Len(waiting) : Line(held, waiting)[k + 1] = waiting[k]
           /\ DOMAIN Line(held, waiting) = 1 .. Len(waiting) + 1
<1>1. held # <<>>
    BY FrameFacts
<1> QED BY <1>1 DEF Line

\* An enqueue appends to the line.
LEMMA LineAppend ==
    ASSUME NEW held \in Frames \cup {<<>>}, NEW waiting \in Seq(Frames),
           NEW f \in Frames
    PROVE  Line(held, Append(waiting, f)) = Append(Line(held, waiting), f)
<1>1. CASE held = <<>>
    BY <1>1 DEF Line
<1>2. CASE held # <<>>
    <2> DEFINE a == Line(held, Append(waiting, f))
               b == Append(Line(held, waiting), f)
    <2>0. /\ Append(waiting, f) \in Seq(Frames) /\ Len(waiting) \in Nat
          /\ Len(Append(waiting, f)) = Len(waiting) + 1
        OBVIOUS
    <2>10. Line(held, waiting) \in Seq(Frames)
             /\ Len(Line(held, waiting)) = Len(waiting) + 1
        BY <1>2, LineType
    <2>12. a \in Seq(Frames)
        BY <2>0, LineType
    <2>13. b \in Seq(Frames)
        BY <2>10
    <2>1. a \in Seq(Frames) /\ b \in Seq(Frames)
        BY <2>12, <2>13
    <2>11. Len(a) = Len(Append(waiting, f)) + 1
        BY <1>2, <2>0, LineType
    <2>2. Len(a) = Len(waiting) + 2 /\ Len(b) = Len(waiting) + 2
        BY <2>0, <2>10, <2>11
    <2>3. \A k \in 1 .. Len(waiting) + 2 : a[k] =
              IF k = 1 THEN held
              ELSE IF k = Len(waiting) + 2 THEN f ELSE waiting[k - 1]
        BY <1>2 DEF Line
    <2>4. \A k \in 1 .. Len(waiting) + 2 : b[k] =
              IF k = 1 THEN held
              ELSE IF k = Len(waiting) + 2 THEN f ELSE waiting[k - 1]
        BY <1>2 DEF Line
    <2>5. \A k \in 1 .. Len(a) : a[k] = b[k]
        BY <2>2, <2>3, <2>4
    <2> HIDE DEF a, b
    <2>6. a = b
        BY <2>1, <2>2, <2>5
    <2> QED BY <2>6 DEF a, b
<1> QED BY <1>1, <1>2

\* An append after the head changes nothing of what was seen.
LEMMA SeenAppend ==
    ASSUME NEW last \in Int, NEW line \in Seq(Frames), NEW f \in Frames,
           last = -1 => line # <<>>, last >= -1
    PROVE  Seen(last, Append(line, f)) = Seen(last, line)
    BY DEF Seen

LEMMA SeenNat ==
    ASSUME NEW last \in -1..MaxSent, NEW line \in Seq(Frames)
    PROVE  Seen(last, line) \in 0..MaxSent
<1>1. line # <<>> => line[1] \in Frames
    OBVIOUS
<1>2. line # <<>> => line[1][2] \in 0..MaxSent
    BY <1>1, FrameFacts
<1> QED BY <1>2, ConnAssumption DEF Seen

\* A connection opens with a line of one snapshot.
LEMMA Opened ==
    ASSUME NEW n \in 0..MaxSent
    PROVE  /\ Orderly(-1, <<Snapshot(n)>>, n)
           /\ Complete(-1, <<Snapshot(n)>>, n)
           /\ Seen(-1, <<Snapshot(n)>>) = n
<1> DEFINE line == <<Snapshot(n)>>
<1>1. Snapshot(n) \in Frames /\ IsInit(Snapshot(n)) /\ Snapshot(n)[2] = n
    BY MadeFrames
<1>2. ~IsMessage(Snapshot(n))
    BY <1>1, FrameFacts
<1>3. line # <<>> /\ DOMAIN line = {1} /\ line[1] = Snapshot(n)
    OBVIOUS
<1> HIDE DEF line
<1>4. Seen(-1, line) = n
    BY <1>1, <1>3 DEF Seen
<1>5. Orderly(-1, line, n)
    BY <1>1, <1>2, <1>3, <1>4 DEF Orderly
<1>6. Complete(-1, line, n)
    BY <1>4 DEF Complete
<1> QED BY <1>4, <1>5, <1>6 DEF line

\* A notice may be appended to any line.
LEMMA NoticeAppended ==
    ASSUME NEW last \in -1..MaxSent, NEW line \in Seq(Frames), NEW n \in 0..MaxSent,
           Orderly(last, line, n)
    PROVE  /\ Orderly(last, Append(line, Notice), n)
           /\ Complete(last, line, n) => Complete(last, Append(line, Notice), n)
<1> DEFINE longer == Append(line, Notice)
<1>1. Notice \in Frames /\ ~IsInit(Notice) /\ ~IsMessage(Notice)
    BY MadeFrames, FrameFacts
<1>2. /\ DOMAIN longer = 1 .. Len(line) + 1
      /\ \A i \in DOMAIN longer :
             longer[i] = IF i = Len(line) + 1 THEN Notice ELSE line[i]
      /\ \A i \in DOMAIN line : i \in DOMAIN longer /\ longer[i] = line[i]
      /\ \A i \in DOMAIN longer : i = Len(line) + 1 \/ i \in DOMAIN line
      /\ line # <<>> => longer[1] = line[1]
      /\ longer # <<>>
    OBVIOUS
<1>3. Seen(last, longer) = Seen(last, line)
    BY <1>1, SeenAppend DEF Orderly
<1> HIDE DEF longer
<1>4. \A i \in DOMAIN longer : IsInit(longer[i]) \/ IsMessage(longer[i])
          => i \in DOMAIN line /\ longer[i] = line[i]
    BY <1>1, <1>2
<1>5. Orderly(last, longer, n)
    BY <1>2, <1>3, <1>4 DEF Orderly
<1>6. Complete(last, line, n) => Complete(last, longer, n)
    BY <1>2, <1>3 DEF Complete
<1> QED BY <1>5, <1>6 DEF longer

\* The next message may, and then nothing is missing that was not before.
LEMMA MessageAppended ==
    ASSUME NEW last \in -1..MaxSent, NEW line \in Seq(Frames),
           NEW n \in 0..MaxSent, n + 1 <= MaxSent, Orderly(last, line, n)
    PROVE  /\ Orderly(last, Append(line, Message(n + 1)), n + 1)
           /\ Complete(last, line, n)
                  => Complete(last, Append(line, Message(n + 1)), n + 1)
<1> DEFINE m == Message(n + 1)
           longer == Append(line, m)
<1>1. m \in Frames /\ IsMessage(m) /\ m[2] = n + 1
    BY MadeFrames, ConnAssumption
<1>2. ~IsInit(m)
    BY <1>1, FrameFacts
<1> HIDE DEF m
<1>3. /\ DOMAIN longer = 1 .. Len(line) + 1
      /\ \A i \in DOMAIN longer : i = Len(line) + 1 \/ i \in DOMAIN line
      /\ longer[Len(line) + 1] = m
      /\ \A i \in DOMAIN line : i \in DOMAIN longer /\ longer[i] = line[i]
      /\ \A i \in DOMAIN line : i < Len(line) + 1 /\ i \in Nat
      /\ line # <<>> => longer[1] = line[1]
      /\ longer # <<>>
      /\ Len(line) + 1 \in DOMAIN longer
      /\ Len(line) \in Nat
    BY <1>1
<1>4. Seen(last, longer) = Seen(last, line)
    BY <1>1, SeenAppend DEF Orderly
<1>5. Seen(last, line) \in 0..MaxSent
    BY SeenNat
<1>6. \A i \in DOMAIN line : line[i] \in Frames
    OBVIOUS
<1>7. \A i \in DOMAIN line : line[i][2] \in 0..MaxSent
    BY <1>6, FrameFacts
<1> HIDE DEF longer
<1>8. Orderly(last, longer, n + 1)
    <2>1. last = -1 => longer # <<>> /\ IsInit(longer[1])
        BY <1>3 DEF Orderly
    <2>2. \A i \in DOMAIN longer : IsInit(longer[i]) => last = -1 /\ i = 1
        BY <1>2, <1>3 DEF Orderly
    <2>3. Seen(last, longer) <= n + 1
        BY <1>4, <1>5 DEF Orderly
    <2>4. \A i \in DOMAIN longer : IsMessage(longer[i]) =>
              Seen(last, longer) < longer[i][2] /\ longer[i][2] <= n + 1
        BY <1>1, <1>3, <1>4, <1>5, <1>7 DEF Orderly
    <2>5. \A i, j \in DOMAIN longer :
              i < j /\ IsMessage(longer[i]) /\ IsMessage(longer[j])
                  => longer[i][2] < longer[j][2]
        <3> SUFFICES ASSUME NEW i \in DOMAIN longer, NEW j \in DOMAIN longer, i < j,
                            IsMessage(longer[i]), IsMessage(longer[j])
                     PROVE  longer[i][2] < longer[j][2]
            OBVIOUS
        <3>1. i \in DOMAIN line
            BY <1>3
        <3>2. CASE j \in DOMAIN line
            BY <1>3, <3>1, <3>2 DEF Orderly
        <3>3. CASE j = Len(line) + 1
            BY <1>1, <1>3, <1>7, <3>1, <3>3 DEF Orderly
        <3> QED BY <1>3, <3>2, <3>3
    <2> QED BY <2>1, <2>2, <2>3, <2>4, <2>5 DEF Orderly
<1>9. ASSUME Complete(last, line, n)
      PROVE  Complete(last, longer, n + 1)
    <2> SUFFICES ASSUME NEW k \in Nat, Seen(last, longer) < k, k <= n + 1
                 PROVE  \E i \in DOMAIN longer : longer[i] = Message(k)
        BY DEF Complete
    <2>1. CASE k = n + 1
        BY <1>3, <2>1 DEF m
    <2>2. CASE k <= n
        <3>1. PICK i \in DOMAIN line : line[i] = Message(k)
            BY <1>4, <1>9, <2>2 DEF Complete
        <3> QED BY <1>3, <3>1
    <2> QED BY <2>1, <2>2
<1> QED BY <1>8, <1>9 DEF longer, m

\* A message that finds no room leaves the line in order.
LEMMA MessageMissed ==
    ASSUME NEW last \in -1..MaxSent, NEW line \in Seq(Frames), NEW n \in 0..MaxSent,
           Orderly(last, line, n)
    PROVE  Orderly(last, line, n + 1)
<1>1. Seen(last, line) \in 0..MaxSent
    BY SeenNat
<1>2. \A i \in DOMAIN line : line[i] \in Frames
    OBVIOUS
<1>3. \A i \in DOMAIN line : line[i][2] \in 0..MaxSent
    BY <1>2, FrameFacts
<1> QED BY <1>1, <1>3 DEF Orderly

\* Showing the head of a line leaves an orderly line; a message shown is newer
\* than what was seen, and the next one if the line was complete.
LEMMA HeadShown ==
    ASSUME NEW last \in -1..MaxSent, NEW held \in Frames,
           NEW waiting \in Seq(Frames), NEW n \in 0..MaxSent,
           NEW now, now = IF held = Notice THEN last ELSE held[2],
           Orderly(last, Line(held, waiting), n)
    PROVE  /\ Orderly(now, waiting, n)
           /\ now \in 0..MaxSent
           /\ Seen(now, waiting) = now
           /\ Complete(last, Line(held, waiting), n) => Complete(now, waiting, n)
           /\ ~IsMessage(held) => now = Seen(last, Line(held, waiting))
           /\ IsMessage(held) => Seen(last, Line(held, waiting)) < now /\ now <= n
           /\ IsMessage(held) /\ Complete(last, Line(held, waiting), n)
                  => now = Seen(last, Line(held, waiting)) + 1
<1> DEFINE line == Line(held, waiting)
           was == Seen(last, line)
<1>1. /\ line \in Seq(Frames) /\ line # <<>> /\ line[1] = held
      /\ \A k \in 1 .. Len(waiting) : line[k + 1] = waiting[k]
      /\ DOMAIN line = 1 .. Len(waiting) + 1
    BY LineSent, LineType
<1>2. /\ held[2] \in 0..MaxSent
      /\ IsInit(held) \/ IsMessage(held) \/ held = Notice
      /\ ~ (IsInit(held) /\ IsMessage(held))
      /\ IsMessage(held) => held = Message(held[2])
      /\ held = Notice => ~IsInit(held) /\ ~IsMessage(held)
    BY FrameFacts
<1>3. was \in 0..MaxSent
    BY <1>1, SeenNat
<1>4. /\ DOMAIN waiting = 1 .. Len(waiting) /\ Len(waiting) \in Nat
      /\ \A k \in DOMAIN waiting : waiting[k] \in Frames
    OBVIOUS
<1>5. \A k \in DOMAIN waiting : /\ k + 1 \in DOMAIN line /\ line[k + 1] = waiting[k]
                                /\ k \in Nat \ {0}
    BY <1>1, <1>4
<1>6. \A k \in DOMAIN waiting : waiting[k][2] \in 0..MaxSent
    BY <1>4, FrameFacts
<1>7. 1 \in DOMAIN line
    BY <1>1, <1>4
<1> HIDE DEF line
<1>8. Orderly(last, line, n)
    BY DEF line
<1>9. was = IF last >= 0 THEN last ELSE held[2]
    BY <1>1 DEF Seen
<1>10. ~IsMessage(held) => now = was
    <2>1. CASE IsInit(held)
        BY <1>1, <1>2, <1>7, <1>8, <1>9, <2>1 DEF Orderly
    <2>2. CASE held = Notice
        BY <1>1, <1>2, <1>8, <1>9, <2>2 DEF Orderly
    <2> QED BY <1>2, <2>1, <2>2
<1>11. IsMessage(held) => was < now /\ now <= n
    BY <1>1, <1>2, <1>7, <1>8 DEF Orderly
<1>12. now \in 0..MaxSent /\ was <= now /\ now <= n
    BY <1>2, <1>3, <1>8, <1>10, <1>11 DEF Orderly
<1>13. Seen(now, waiting) = now
    BY <1>12 DEF Seen
<1> HIDE DEF was
<1>14. Orderly(now, waiting, n)
    <2>1. \A i \in DOMAIN waiting : ~IsInit(waiting[i])
        BY <1>5, <1>8 DEF Orderly
    <2>2. \A i \in DOMAIN waiting : IsMessage(waiting[i]) =>
              now < waiting[i][2] /\ waiting[i][2] <= n
        <3> SUFFICES ASSUME NEW i \in DOMAIN waiting, IsMessage(waiting[i])
                     PROVE  now < waiting[i][2] /\ waiting[i][2] <= n
            OBVIOUS
        <3>1. was < waiting[i][2] /\ waiting[i][2] <= n
            BY <1>5, <1>8 DEF Orderly, was
        <3>2. ASSUME IsMessage(held)
              PROVE  held[2] < waiting[i][2]
            <4>1. 1 < i + 1 /\ i + 1 \in DOMAIN line /\ line[i + 1] = waiting[i]
                BY <1>5
            <4>2. IsMessage(line[1]) /\ IsMessage(line[i + 1])
                BY <1>1, <3>2, <4>1
            <4>3. line[1][2] < line[i + 1][2]
                BY ONLY <1>7, <1>8, <4>1, <4>2 DEF Orderly
            <4> QED BY <1>1, <4>1, <4>3
        <3> QED BY <1>2, <1>10, <3>1, <3>2
    <2>3. \A i, j \in DOMAIN waiting :
              i < j /\ IsMessage(waiting[i]) /\ IsMessage(waiting[j])
                  => waiting[i][2] < waiting[j][2]
        <3> SUFFICES ASSUME NEW i \in DOMAIN waiting, NEW j \in DOMAIN waiting,
                            i < j,
                            IsMessage(waiting[i]), IsMessage(waiting[j])
                     PROVE  waiting[i][2] < waiting[j][2]
            OBVIOUS
        <3>1. i + 1 < j + 1 /\ i + 1 \in DOMAIN line /\ j + 1 \in DOMAIN line
            BY <1>5
        <3> QED BY <1>5, <1>8, <3>1 DEF Orderly
    <2>4. now # -1
        BY <1>12
    <2> QED BY <1>12, <1>13, <2>1, <2>2, <2>3, <2>4 DEF Orderly
<1>15. ASSUME Complete(last, line, n)
       PROVE  /\ Complete(now, waiting, n)
              /\ IsMessage(held) => now = was + 1
    <2>1. ASSUME NEW k \in Nat, now < k, k <= n
          PROVE  \E i \in DOMAIN waiting : waiting[i] = Message(k)
        <3>1. was < k
            BY <1>3, <1>12, <2>1
        <3>2. PICK i \in DOMAIN line : line[i] = Message(k)
            BY <1>15, <2>1, <3>1 DEF Complete, was
        <3>3. i # 1
            <4> SUFFICES ASSUME i = 1
                         PROVE  FALSE
                OBVIOUS
            <4>0. held = Message(k)
                BY <1>1, <3>2
            <4>1. held = Message(k) /\ IsMessage(held) /\ held[2] = k
                BY ONLY <4>0 DEF Message, IsMessage
            <4>2. held # Notice
                BY <1>2, <4>1
            <4> QED BY <2>1, <4>1, <4>2
        <3>4. i - 1 \in DOMAIN waiting /\ line[i] = waiting[i - 1]
            BY <1>1, <1>4, <3>2, <3>3
        <3> QED BY <3>2, <3>4
    <2>2. Complete(now, waiting, n)
        BY <1>13, <2>1 DEF Complete
    <2>3. ASSUME IsMessage(held)
          PROVE  now = was + 1
        <3> SUFFICES ASSUME was + 1 < now
                     PROVE  FALSE
            BY <1>3, <1>11, <1>12, <2>3
        <3>1. was + 1 \in Nat /\ was < was + 1 /\ was + 1 <= n
            BY <1>3, <1>12
        <3>2. PICK i \in DOMAIN line : line[i] = Message(was + 1)
            BY <1>15, <3>1 DEF Complete, was
        <3>3. IsMessage(line[i]) /\ line[i][2] = was + 1
            BY <3>2 DEF IsMessage, Message
        <3>4. now = held[2]
            BY <1>2, <2>3
        <3>5. i # 1
            BY <1>1, <1>3, <3>3, <3>4
        <3>6. held[2] < line[i][2]
            BY <1>1, <1>7, <1>8, <2>3, <3>3, <3>5 DEF Orderly
        <3> QED BY <1>2, <1>3, <3>3, <3>4, <3>6
    <2> QED BY <2>2, <2>3
<1> QED BY <1>10, <1>11, <1>12, <1>13, <1>14, <1>15 DEF line, was
-----------------------------------------------------------------------------
(* The dictionary.                                                         *)

\* A user has one connection in it.
Distinct(s) == \A i, j \in DOMAIN s : UserOf[s[i]] = UserOf[s[j]] => i = j

LEMMA Listed ==
    ASSUME NEW s, NEW x \in ToSet(s)
    PROVE  Position(s, x) \in DOMAIN s /\ s[Position(s, x)] = x
    BY DEF ToSet, Position

\* Popping a connection leaves the others, each where it was or one to the left.
LEMMA WithoutFacts ==
    ASSUME NEW s \in Seq(Conns), Distinct(s), NEW x
    PROVE  /\ Without(s, x) \in Seq(Conns)
           /\ ToSet(Without(s, x)) = ToSet(s) \ {x}
           /\ Distinct(Without(s, x))
<1>1. CASE x \notin ToSet(s)
    BY <1>1 DEF Without
<1>2. CASE x \in ToSet(s)
    <2> DEFINE p == Position(s, x)
               t == [k \in 1 .. Len(s) - 1 |-> IF k < p THEN s[k] ELSE s[k + 1]]
    <2>1. p \in 1 .. Len(s) /\ s[p] = x /\ Len(s) \in Nat \ {0}
        BY <1>2, Listed
    <2> HIDE DEF p
    <2>2. \A k \in 1 .. Len(s) : s[k] \in Conns
        OBVIOUS
    <2>3. t \in [1 .. Len(s) - 1 -> Conns]
        BY <2>1, <2>2
    <2>4. t \in Seq(Conns) /\ Len(t) = Len(s) - 1 /\ DOMAIN t = 1 .. Len(s) - 1
        BY <2>1, <2>3
    <2>5. \A k \in DOMAIN t : t[k] = IF k < p THEN s[k] ELSE s[k + 1]
        OBVIOUS
    <2>6. \A k \in DOMAIN s : s[k] = x => k = p
        BY <2>1 DEF Distinct
    <2> HIDE DEF t
    <2>7. \A k \in DOMAIN t : t[k] \in ToSet(s) \ {x}
        BY <2>1, <2>4, <2>5, <2>6 DEF ToSet
    <2>8. \A k \in DOMAIN s : s[k] # x => \E i \in DOMAIN t : t[i] = s[k]
        <3> SUFFICES ASSUME NEW k \in DOMAIN s, s[k] # x
                     PROVE  \E i \in DOMAIN t : t[i] = s[k]
            OBVIOUS
        <3>1. k \in 1 .. Len(s) /\ k # p
            BY <2>1
        <3>2. CASE k < p
            BY <2>1, <2>4, <2>5, <3>1, <3>2
        <3>3. CASE k > p
            <4>1. k - 1 \in DOMAIN t /\ t[k - 1] = s[k]
                BY <2>1, <2>4, <2>5, <3>1, <3>3
            <4> QED BY <4>1
        <3> QED BY <2>1, <3>1, <3>2, <3>3
    <2>9. ToSet(t) = ToSet(s) \ {x}
        BY <2>7, <2>8 DEF ToSet
    <2>10. Distinct(t)
        <3> SUFFICES ASSUME NEW i \in DOMAIN t, NEW j \in DOMAIN t,
                            UserOf[t[i]] = UserOf[t[j]]
                     PROVE  i = j
            BY DEF Distinct
        <3> DEFINE a == IF i < p THEN i ELSE i + 1
                   b == IF j < p THEN j ELSE j + 1
        <3>1. a \in DOMAIN s /\ t[i] = s[a]
            BY <2>1, <2>4, <2>5
        <3>2. b \in DOMAIN s /\ t[j] = s[b]
            BY <2>1, <2>4, <2>5
        <3>3. a = b
            BY <3>1, <3>2 DEF Distinct
        <3> QED BY <2>1, <2>4, <3>3
    <2>11. Without(s, x) = t
        BY <1>2 DEF Without, t, p
    <2> QED BY <2>4, <2>9, <2>10, <2>11
<1> QED BY <1>1, <1>2

\* `get` finds the one connection of a user, if there is one.
LEMMA ConnOfFacts ==
    ASSUME active \in Seq(Conns), Distinct(active), NEW u
    PROVE  /\ ConnOf(u) \in ToSet(active) \cup {NULL}
           /\ \A c \in ToSet(active) : UserOf[c] = u => c = ConnOf(u)
           /\ ConnOf(u) # NULL => UserOf[ConnOf(u)] = u
<1>1. NULL \notin ToSet(active)
    BY ConnAssumption DEF ToSet
<1>2. \A c, d \in ToSet(active) : UserOf[c] = UserOf[d] => c = d
    BY DEF ToSet, Distinct
<1>3. CASE \E c \in ToSet(active) : UserOf[c] = u
    <2>1. ConnOf(u) \in ToSet(active) /\ UserOf[ConnOf(u)] = u
        BY <1>3 DEF ConnOf
    <2> QED BY <1>2, <2>1
<1>4. CASE ~ \E c \in ToSet(active) : UserOf[c] = u
    BY <1>4 DEF ConnOf
<1> QED BY <1>3, <1>4

\* A list without its head.
LEMMA ListTail ==
    ASSUME NEW s \in Seq(Conns), s # <<>>
    PROVE  /\ Head(s) \in Conns /\ Tail(s) \in Seq(Conns)
           /\ Head(s) \in ToSet(s)
           /\ \A c : c \in ToSet(s) => c = Head(s) \/ c \in ToSet(Tail(s))
           /\ \A c : c \in ToSet(Tail(s)) => c \in ToSet(s)
           /\ Len(s) > 1 => Head(Tail(s)) = s[2]
           /\ ~ (Len(s) > 1) => Tail(s) = <<>>
<1>1. /\ Head(s) = s[1] /\ Head(s) \in Conns /\ 1 \in DOMAIN s
      /\ Tail(s) \in Seq(Conns) /\ DOMAIN Tail(s) = 1 .. Len(s) - 1
      /\ DOMAIN s = 1 .. Len(s) /\ Len(s) \in Nat \ {0}
      /\ Len(Tail(s)) = Len(s) - 1
      /\ \A k \in DOMAIN Tail(s) : Tail(s)[k] = s[k + 1]
    OBVIOUS
<1>2. \A k \in DOMAIN s : k = 1
        \/ (k - 1 \in DOMAIN Tail(s) /\ Tail(s)[k - 1] = s[k])
    BY <1>1
<1>3. \A k \in DOMAIN Tail(s) : k + 1 \in DOMAIN s
    BY <1>1
<1>4. ASSUME NEW c \in ToSet(s)
      PROVE  c = Head(s) \/ c \in ToSet(Tail(s))
    <2>1. PICK k \in DOMAIN s : s[k] = c
        BY DEF ToSet
    <2>2. CASE k = 1
        BY <1>1, <2>1, <2>2
    <2>3. CASE k # 1
        <3>1. k - 1 \in DOMAIN Tail(s) /\ Tail(s)[k - 1] = c
            BY <1>2, <2>1, <2>3
        <3> QED BY <3>1 DEF ToSet
    <2> QED BY <2>2, <2>3
<1>5. \A c : c \in ToSet(Tail(s)) => c \in ToSet(s)
    BY <1>1, <1>3 DEF ToSet
<1>6. Head(s) \in ToSet(s)
    BY <1>1 DEF ToSet
<1>7. ASSUME Len(s) > 1
      PROVE  Head(Tail(s)) = s[2]
    BY <1>7
<1>8. ASSUME ~ (Len(s) > 1)
      PROVE  Tail(s) = <<>>
    BY <1>8, <1>1
<1> QED BY <1>1, <1>4, <1>5, <1>6, <1>7, <1>8

\* The list of the wedged: the targets without room, each once.
LEMMA WedgedFacts ==
    ASSUME active \in Seq(Conns), NEW to \in SUBSET ToSet(active),
           NEW full \in WedgedBy(to)
    PROVE  /\ full \in Seq(Conns)
           /\ ToSet(full) = {c \in to : Len(queue[c]) >= QueueMax}
<1> DEFINE wedged == {c \in to : Len(queue[c]) >= QueueMax}
<1>1. ToSet(active) \in SUBSET Conns
    BY DEF ToSet
<1>2. IsFiniteSet(ToSet(active))
    <2>1. IsFiniteSet(1 .. Len(active)) /\ DOMAIN active = 1 .. Len(active)
        BY FS_Interval
    <2>2. active \in Surjection(1 .. Len(active), ToSet(active))
        BY <2>1 DEF ToSet, Surjection
    <2> QED BY <2>1, <2>2, FS_Surjection
<1>3. IsFiniteSet(wedged) /\ wedged \in SUBSET Conns
    BY <1>1, <1>2, FS_Subset
<1>4. Cardinality(wedged) \in Nat
    BY <1>3, FS_CardinalityType
<1>5. full \in [1 .. Cardinality(wedged) -> wedged] /\ ToSet(full) = wedged
    BY DEF WedgedBy
<1> HIDE DEF wedged
<1>6. full \in [1 .. Cardinality(wedged) -> Conns]
    BY <1>3, <1>5
<1>7. full \in Seq(Conns)
    BY <1>4, <1>6
<1> QED BY <1>5, <1>7 DEF wedged
-----------------------------------------------------------------------------
(* The invariant.                                                          *)

LineOf(c) == Line(sending[c], queue[c])

\* A socket nobody opened is in no list and has no line.
Untouched ==
    \A c \in Conns : ws[c] = "new" =>
        /\ c \notin ToSet(active) /\ ~Refused(c)
        /\ shown[c] = -1 /\ sending[c] = <<>> /\ task[c] \notin {"get", "send"}

\* The connection a handler is closing is out of the dictionary.
Gone == \A h \in Conns : drop[h] # <<>> => Head(drop[h]) \notin ToSet(active)

\* A writer holds a frame while it sends, and none while it waits.
Holding ==
    \A c \in Conns : /\ task[c] = "get" => sending[c] = <<>>
                     /\ task[c] = "send" => sending[c] # <<>>

\* What one live connection is owed stands in its line.
Served(c, line, n, refused) ==
    /\ Orderly(shown[c], line, n)
    /\ ~refused => Complete(shown[c], line, n)

Fed == \A c \in ToSet(active) : Served(c, LineOf(c), sent, Refused(c))

FeedInv == TypeOK /\ Distinct(active) /\ Untouched /\ Gone /\ Holding /\ Fed

\* The dictionary holds websockets.
LEMMA ActiveConns ==
    ASSUME FeedInv
    PROVE  TypeOK /\ active \in Seq(Conns) /\ ToSet(active) \in SUBSET Conns
<1>1. active \in Seq(Conns)
    BY DEF FeedInv, TypeOK
<1> QED BY <1>1 DEF ToSet, FeedInv

LEMMA Types ==
    ASSUME TypeOK, NEW c \in Conns
    PROVE  /\ queue[c] \in Seq(Frames) /\ sending[c] \in Frames \cup {<<>>}
           /\ shown[c] \in -1..MaxSent /\ sent \in 0..MaxSent
           /\ LineOf(c) \in Seq(Frames)
           /\ sending[c] = <<>> => LineOf(c) = queue[c]
           /\ ToSet(active) \in SUBSET Conns
<1>1. /\ queue[c] \in Seq(Frames) /\ sending[c] \in Frames \cup {<<>>}
      /\ shown[c] \in -1..MaxSent /\ sent \in 0..MaxSent
    BY DEF TypeOK
<1>2. ToSet(active) \in SUBSET Conns
    BY DEF TypeOK, ToSet
<1> QED BY <1>1, <1>2, LineType DEF LineOf

\* RoomFeed's `seen`, by the line.
LEMMA SeenByLine ==
    ASSUME TypeOK, NEW c \in Conns
    PROVE  FeedSeen[c] = IF c
             \in ToSet(active) THEN Seen(shown[c], LineOf(c)) ELSE 0
<1>1. sending[c] # <<>> => LineOf(c) # <<>> /\ LineOf(c)[1] = sending[c]
    BY Types, LineType DEF LineOf
<1>2. sending[c] = <<>> => LineOf(c) = queue[c]
    BY Types
<1> QED BY <1>1, <1>2 DEF FeedSeen, Seen

\* The same of a successor state.
LEMMA SeenByLineNext ==
    ASSUME TypeOK', NEW c \in Conns
    PROVE  FeedSeen'[c] =
               IF c \in ToSet(active') THEN Seen(shown'[c], LineOf(c)') ELSE 0
<1>0. /\ queue'[c] \in Seq(Frames) /\ sending'[c] \in Frames \cup {<<>>}
    BY DEF TypeOK
<1>1. sending'[c] # <<>> => LineOf(c)' # <<>> /\ LineOf(c)'[1] = sending'[c]
    BY <1>0, LineType DEF LineOf
<1>2. sending'[c] = <<>> => LineOf(c)' = queue'[c]
    BY <1>0, LineType DEF LineOf
<1> QED BY <1>1, <1>2 DEF FeedSeen, Seen

-----------------------------------------------------------------------------
(* Steps that end a connection, refuse some a frame, or give some a frame. *)

\* `gone` leaves the dictionary, if it is in it; the others keep what they
\* have, with the queues `queues`.
Leaves(gone, queues) ==
    /\ active' \in Seq(Conns) /\ Distinct(active')
    /\ ToSet(active') = ToSet(active) \ {gone}
    /\ queue' \in [Conns -> Seq(Frames)]
    /\ \A c \in Conns : Len(queue'[c]) <= QueueMax
    /\ task' \in [Conns -> {"none", "get", "send", "stopped"}]
    /\ sending' \in [Conns -> Frames \cup {<<>>}]
    /\ Holding'
    /\ \A c \in Conns : c # gone => queue'[c] = queues[c]
         /\ sending'[c] = sending[c]
    /\ \A c \in Conns : /\ sending'[c] = sending[c] \/ sending'[c] = <<>>
                        /\ task'[c] = task[c] \/ task'[c] = "stopped"

\* Queues that leave every live connection served after n messages, but those
\* in `refused`, and its snapshot where it was.
Serve(queues, n, refused) ==
    \A c \in ToSet(active) :
        LET line == Line(sending[c], queues[c]) IN
        /\ Served(c, line, n, Refused(c) \/ c \in refused)
        /\ Seen(shown[c], line) = Seen(shown[c], LineOf(c))

QueueType == {q \in [Conns -> Seq(Frames)] : \A c \in Conns : Len(q[c]) <= QueueMax}

LEMMA PopLeaves ==
    ASSUME FeedInv, NEW gone \in Conns \cup {NULL}, NEW queues \in QueueType,
           Pop(gone, queues)
    PROVE  Leaves(gone, queues)
<1> USE DEF FeedInv, TypeOK
<1>1. active' \in Seq(Conns) /\ Distinct(active')
        /\ ToSet(active') = ToSet(active) \ {gone}
    BY WithoutFacts DEF Pop
<1>2. /\ queue' \in [Conns -> Seq(Frames)]
      /\ \A c \in Conns : Len(queue'[c]) <= QueueMax
    <2>1. <<>> \in Seq(Frames) /\ Len(<<>>) = 0 /\ QueueMax \in Nat
        BY ConnAssumption
    <2>2. \A c \in Conns : queue'[c] = IF c = gone THEN <<>> ELSE queues[c]
        BY DEF Pop
    <2>3. queue' \in [Conns -> Seq(Frames)]
        BY <2>1 DEF Pop, QueueType
    <2> QED BY <2>1, <2>2, <2>3 DEF QueueType
<1>3. /\ task' \in [Conns -> {"none", "get", "send", "stopped"}]
      /\ sending' \in [Conns -> Frames \cup {<<>>}]
    BY DEF Pop
<1>4. Holding'
    BY DEF Pop, Holding
<1>5. /\ \A c \in Conns : c # gone => queue'[c] = queues[c]
           /\ sending'[c] = sending[c]
      /\ \A c \in Conns : /\ sending'[c] = sending[c] \/ sending'[c] = <<>>
                          /\ task'[c] = task[c] \/ task'[c] = "stopped"
    BY DEF Pop
<1> QED BY <1>1, <1>2, <1>3, <1>4, <1>5 DEF Leaves

LEMMA NobodyLeaves ==
    ASSUME FeedInv, NEW queues \in QueueType, queue' = queues,
           UNCHANGED <<active, task, sending>>
    PROVE  Leaves(NULL, queues)
<1> USE DEF FeedInv, TypeOK
<1>1. active' \in Seq(Conns) /\ Distinct(active')
    OBVIOUS
<1>2. ToSet(active') = ToSet(active) \ {NULL}
    BY ConnAssumption DEF ToSet
<1>3. Holding'
    BY DEF Holding
<1> QED BY <1>1, <1>2, <1>3 DEF Leaves, QueueType

\* Such a step is a Fate of RoomFeed's, and keeps the live connections fed.
LEMMA Fated ==
    ASSUME FeedInv, TypeOK', NEW gone \in Conns \cup {NULL},
           NEW queues \in QueueType,
           NEW refused \in SUBSET ToSet(active), Leaves(gone, queues),
           Serve(queues, sent', refused), shown' = shown,
           \A c \in Conns : ws'[c] = "new" <=> ws[c] = "new",
           \A c \in Conns : Refused(c)' => Refused(c) \/ c \in refused,
           \A c \in ToSet(active') : Refused(c) \/ c \in refused => Refused(c)'
    PROVE  /\ Fed'
           /\ Untouched'
           /\ \E r, e \in SUBSET Feed!Live : Feed!Fate(r, e)
<1> DEFINE ended == {gone} \cap ToSet(active)
<1>1. ToSet(active) \in SUBSET Conns /\ ToSet(active') = ToSet(active) \ {gone}
    <2>1. ToSet(active) \in SUBSET Conns
        BY ActiveConns
    <2>2. ToSet(active') = ToSet(active) \ {gone}
        BY DEF Leaves
    <2> QED BY <2>1, <2>2
<1>2. \A c \in ToSet(active') : LineOf(c)' = Line(sending[c], queues[c])
    BY <1>1 DEF Leaves, LineOf
<1>3. \A c \in ToSet(active') : Refused(c)' <=> Refused(c) \/ c \in refused
    BY <1>1
<1>4. Fed'
    BY <1>1, <1>2, <1>3 DEF Fed, Serve, Served
<1>5. \A c \in ToSet(active) : ws[c] # "new"
    BY <1>1 DEF FeedInv, Untouched
<1>6. Untouched'
    <2> SUFFICES ASSUME NEW c \in Conns, ws'[c] = "new"
                 PROVE  /\ c \notin ToSet(active') /\ shown'[c] = -1
                        /\ sending'[c] = <<>> /\ ~Refused(c)'
                        /\ task'[c] \notin {"get", "send"}
        BY DEF Untouched
    <2>1. /\ ws[c] = "new" /\ c \notin ToSet(active) /\ shown[c] = -1
          /\ sending[c] = <<>> /\ ~Refused(c) /\ task[c] \notin {"get", "send"}
        BY DEF FeedInv, Untouched
    <2>2. sending'[c] = <<>> /\ task'[c] \notin {"get", "send"}
        BY <2>1 DEF Leaves
    <2> QED BY <1>1, <2>1, <2>2
<1>7. Feed!Live = ToSet(active)
    <2>1. \A c \in Conns : FeedState[c] = IF ws[c] = "new" THEN "off"
                     ELSE IF c \notin ToSet(active) THEN "ended"
                     ELSE IF Refused(c) THEN "refused" ELSE "open"
        BY DEF FeedState
    <2>2. \A c \in Conns :
            FeedState[c] \in {"open", "refused"} <=> c \in ToSet(active)
        BY <1>5, <2>1
    <2> QED BY <1>1, <2>2 DEF Feed!Live
<1>8. FeedState' = [c \in Conns |-> IF c \in ended THEN "ended"
                                    ELSE IF c \in refused THEN "refused"
                                    ELSE FeedState[c]]
    <2>1. \A c \in Conns : FeedState[c] = IF ws[c] = "new" THEN "off"
                     ELSE IF c \notin ToSet(active) THEN "ended"
                     ELSE IF Refused(c) THEN "refused" ELSE "open"
        BY DEF FeedState
    <2>2. \A c \in Conns : FeedState'[c] = IF ws'[c] = "new" THEN "off"
                     ELSE IF c \notin ToSet(active') THEN "ended"
                     ELSE IF Refused(c)' THEN "refused" ELSE "open"
        BY DEF FeedState
    <2>3. \A c \in Conns : FeedState'[c] = IF c \in ended THEN "ended"
                                    ELSE IF c \in refused THEN "refused"
                                    ELSE FeedState[c]
        <3> SUFFICES ASSUME NEW c \in Conns
                     PROVE  FeedState'[c] = IF c \in ended THEN "ended"
                                            ELSE IF c \in refused THEN "refused"
                                            ELSE FeedState[c]
            OBVIOUS
        <3>1. CASE c \notin ToSet(active)
            BY <1>1, <2>1, <2>2, <3>1
        <3>2. CASE c \in ToSet(active) /\ c = gone
            BY <1>1, <1>5, <2>2, <3>2
        <3>3. CASE c \in ToSet(active) /\ c # gone
            BY <1>1, <1>3, <1>5, <2>1, <2>2, <3>3
        <3> QED BY <3>1, <3>2, <3>3
    <2>4. DOMAIN FeedState' = Conns
              /\ FeedState' = [c \in Conns |-> FeedState'[c]]
        BY DEF FeedState
    <2> HIDE DEF ended
    <2> QED BY <2>3, <2>4
<1>9. FeedSeen' = [c \in Conns |-> IF c \in ended THEN 0 ELSE FeedSeen[c]]
    <2>1. \A c \in Conns : FeedSeen[c] =
              IF c \in ToSet(active) THEN Seen(shown[c], LineOf(c)) ELSE 0
        BY SeenByLine DEF FeedInv
    <2>2. \A c \in Conns : FeedSeen'[c] =
              IF c \in ToSet(active') THEN Seen(shown'[c], LineOf(c)') ELSE 0
        BY SeenByLineNext
    <2>3. \A c \in ToSet(active') :
            Seen(shown'[c], LineOf(c)') = Seen(shown[c], LineOf(c))
        BY <1>1, <1>2 DEF Serve
    <2>4. \A c \in Conns : FeedSeen'[c] = IF c \in ended THEN 0 ELSE FeedSeen[c]
        BY <1>1, <2>1, <2>2, <2>3
    <2>5. FeedSeen' = [c \in Conns |-> FeedSeen'[c]]
        BY DEF FeedSeen
    <2> HIDE DEF ended
    <2> QED BY <2>4, <2>5
<1>10. Feed!Fate(refused, ended)
    BY <1>8, <1>9 DEF Feed!Fate
<1>11. refused \in SUBSET Feed!Live /\ ended \in SUBSET Feed!Live
    BY <1>7
<1> QED BY <1>4, <1>6, <1>10, <1>11

\* What the queues as they are serve, and a notice or the next message in them.
LEMMA SameServed ==
    ASSUME FeedInv
    PROVE  queue \in QueueType /\ Serve(queue, sent, {})
<1>1. queue \in QueueType
    BY DEF FeedInv, TypeOK, QueueType
<1>2. \A c \in ToSet(active) : Served(c, LineOf(c), sent, Refused(c))
    BY DEF FeedInv, Fed
<1>3. \A c : Refused(c) \/ c \in {} <=> Refused(c)
    OBVIOUS
<1>4. Serve(queue, sent, {})
    BY <1>2, <1>3 DEF Serve, LineOf, Served
<1> QED BY <1>1, <1>4

LEMMA EnqueuedType ==
    ASSUME FeedInv, NEW f \in Frames, NEW to
    PROVE  Enqueued(f, to) \in QueueType
<1>1. \A c \in Conns : /\ queue[c] \in Seq(Frames)
                          /\ Append(queue[c], f) \in Seq(Frames)
                       /\ Len(Append(queue[c], f)) = Len(queue[c]) + 1
                       /\ Len(queue[c]) \in Nat /\ Len(queue[c]) <= QueueMax
    BY DEF FeedInv, TypeOK
<1>2. \A c \in Conns : Len(Enqueued(f, to)[c]) <= QueueMax
    BY <1>1, ConnAssumption DEF Enqueued
<1> QED BY <1>1, <1>2 DEF Enqueued, QueueType

LEMMA NoticeServed ==
    ASSUME FeedInv, NEW to, NEW refused
    PROVE  Serve(Enqueued(Notice, to), sent, refused)
<1> SUFFICES ASSUME NEW c \in ToSet(active)
             PROVE  LET line == Line(sending[c], Enqueued(Notice, to)[c]) IN
                    /\ Served(c, line, sent, Refused(c) \/ c \in refused)
                    /\ Seen(shown[c], line) = Seen(shown[c], LineOf(c))
    BY DEF Serve
<1>1. /\ c \in Conns /\ queue[c] \in Seq(Frames)
           /\ sending[c] \in Frames \cup {<<>>}
      /\ shown[c] \in -1..MaxSent /\ sent \in 0..MaxSent
           /\ LineOf(c) \in Seq(Frames)
    BY ActiveConns, Types
<1>2. Served(c, LineOf(c), sent, Refused(c))
    BY DEF FeedInv, Fed
<1>3. Notice \in Frames
    BY <1>1, MadeFrames
<1>4. CASE c \in to /\ Len(queue[c]) < QueueMax
    <2>1. Line(sending[c], Enqueued(Notice, to)[c]) = Append(LineOf(c), Notice)
        BY <1>1, <1>3, <1>4, LineAppend DEF Enqueued, LineOf
    <2>2. /\ Orderly(shown[c], Append(LineOf(c), Notice), sent)
          /\ Complete(shown[c], LineOf(c), sent)
                 => Complete(shown[c], Append(LineOf(c), Notice), sent)
        BY <1>1, <1>2, NoticeAppended DEF Served
    <2>3. Seen(shown[c], Append(LineOf(c), Notice)) = Seen(shown[c], LineOf(c))
        <3>1. shown[c] \in Int /\ shown[c] >= -1
                /\ (shown[c] = -1 => LineOf(c) # <<>>)
            BY <1>1, <1>2 DEF Served, Orderly
        <3> QED BY <1>1, <1>3, <3>1, SeenAppend
    <2> QED BY <1>2, <2>1, <2>2, <2>3 DEF Served
<1>5. CASE ~ (c \in to /\ Len(queue[c]) < QueueMax)
    <2>1. Line(sending[c], Enqueued(Notice, to)[c]) = LineOf(c)
        BY <1>1, <1>5 DEF Enqueued, LineOf
    <2> QED BY <1>2, <2>1 DEF Served
<1> QED BY <1>4, <1>5

LEMMA MessageServed ==
    ASSUME FeedInv, sent < MaxSent,
           NEW refused, refused = {c \in ToSet(active) : Len(queue[c]) >= QueueMax}
    PROVE  Serve(Enqueued(Message(sent + 1), ToSet(active)), sent + 1, refused)
<1> DEFINE m == Message(sent + 1)
           queues == Enqueued(m, ToSet(active))
<1> SUFFICES ASSUME NEW c \in ToSet(active)
             PROVE  LET line == Line(sending[c], queues[c]) IN
                    /\ Served(c, line, sent + 1, Refused(c) \/ c \in refused)
                    /\ Seen(shown[c], line) = Seen(shown[c], LineOf(c))
    BY DEF Serve
<1>1. /\ c \in Conns /\ queue[c] \in Seq(Frames)
           /\ sending[c] \in Frames \cup {<<>>}
      /\ shown[c] \in -1..MaxSent /\ sent \in 0..MaxSent
           /\ LineOf(c) \in Seq(Frames)
      /\ sent + 1 <= MaxSent /\ sent + 1 \in 0..MaxSent
    <2>1. c \in Conns /\ sent \in 0..MaxSent
        BY ActiveConns, Types
    <2>2. sent + 1 <= MaxSent /\ sent + 1 \in 0..MaxSent
        BY <2>1, ConnAssumption
    <2> QED BY <2>1, <2>2, ActiveConns, Types
<1>2. Served(c, LineOf(c), sent, Refused(c))
    BY DEF FeedInv, Fed
<1>3. m \in Frames
    BY <1>1, MadeFrames
<1>4. CASE Len(queue[c]) < QueueMax
    <2>1. Line(sending[c], queues[c]) = Append(LineOf(c), m)
        <3>1. queues[c] = Append(queue[c], m)
            BY <1>1, <1>4 DEF Enqueued
        <3> QED BY <1>1, <1>3, <3>1, LineAppend DEF LineOf
    <2>2. /\ Orderly(shown[c], Append(LineOf(c), m), sent + 1)
          /\ Complete(shown[c], LineOf(c), sent)
                 => Complete(shown[c], Append(LineOf(c), m), sent + 1)
        BY <1>1, <1>2, MessageAppended DEF Served
    <2>3. Seen(shown[c], Append(LineOf(c), m)) = Seen(shown[c], LineOf(c))
        <3>1. shown[c] \in Int /\ shown[c] >= -1
                /\ (shown[c] = -1 => LineOf(c) # <<>>)
            BY <1>1, <1>2 DEF Served, Orderly
        <3> QED BY <1>1, <1>3, <3>1, SeenAppend
    <2> HIDE DEF m, queues
    <2> QED BY <1>2, <2>1, <2>2, <2>3 DEF Served
<1>5. CASE ~ (Len(queue[c]) < QueueMax)
    <2>1. Line(sending[c], queues[c]) = LineOf(c)
        BY <1>1, <1>5 DEF Enqueued, LineOf
    <2>2. c \in refused
        BY <1>1, <1>5, ConnAssumption
    <2>3. Orderly(shown[c], LineOf(c), sent + 1)
        BY <1>1, <1>2, MessageMissed DEF Served
    <2> HIDE DEF queues
    <2> QED BY <2>1, <2>2, <2>3 DEF Served
<1> QED BY <1>4, <1>5

\* A call of the manager: frames are given out, `full` becomes the list of
\* connections the caller closes, and the first of them is popped.
LEMMA Evicted ==
    ASSUME FeedInv, NEW h \in Conns, Free(h), NEW full \in Seq(Conns),
           NEW queues \in QueueType, ToSet(full) \in SUBSET ToSet(active),
           EvictAll(h, full, queues), Serve(queues, sent', ToSet(full)),
           UNCHANGED <<ws, shown, at>>,
           parting' \in [Conns -> 0..MaxParting],
           sent' \in 0..MaxSent, calls' \in 0..MaxCalls
    PROVE  /\ FeedInv'
           /\ \E r, e \in SUBSET Feed!Live : Feed!Fate(r, e)
<1>1. /\ active \in Seq(Conns) /\ ToSet(active) \in SUBSET Conns
      /\ drop \in [Conns -> Seq(Conns)] /\ drop[h] = <<>>
    <2>1. drop \in [Conns -> Seq(Conns)] /\ drop[h] = <<>>
        BY DEF FeedInv, TypeOK, Free
    <2> QED BY <2>1, ActiveConns
<1>2. drop' = [drop EXCEPT ![h] = full]
    BY DEF EvictAll
<1>3. full # <<>> => Head(full) \in Conns /\ Head(full) \in ToSet(full)
    BY DEF ToSet
<1>4. PICK gone \in Conns \cup {NULL} :
          /\ Leaves(gone, queues)
          /\ full # <<>> => gone = Head(full)
    <2>1. CASE full = <<>>
        BY <2>1, NobodyLeaves DEF EvictAll
    <2>2. CASE full # <<>>
        <3>1. Pop(Head(full), queues)
            BY <2>2 DEF EvictAll
        <3> QED BY <1>3, <2>2, <3>1, PopLeaves
    <2> QED BY <2>1, <2>2
<1>5. TypeOK'
    BY <1>1, <1>2, <1>4 DEF Leaves, FeedInv, TypeOK
<1>6. \A c : Refused(c)' <=> Refused(c) \/ c \in ToSet(full)
    <2>1. \A g \in Conns : drop'[g] = IF g = h THEN full ELSE drop[g]
        BY <1>1, <1>2
    <2>2. ToSet(drop[h]) = {}
        BY <1>1 DEF ToSet
    <2> QED BY <2>1, <2>2 DEF Refused
<1>7. /\ Fed' /\ Untouched'
      /\ \E r, e \in SUBSET Feed!Live : Feed!Fate(r, e)
    BY <1>4, <1>5, <1>6, Fated
<1>8. Gone'
    <2> SUFFICES ASSUME NEW g \in Conns, drop'[g] # <<>>
                 PROVE  Head(drop'[g]) \notin ToSet(active')
        BY DEF Gone
    <2>1. ToSet(active') = ToSet(active) \ {gone}
        BY <1>4 DEF Leaves
    <2>2. CASE g = h
        BY <1>1, <1>2, <1>4, <2>1, <2>2
    <2>3. CASE g # h
        BY <1>1, <1>2, <2>1, <2>3 DEF FeedInv, Gone
    <2> QED BY <2>2, <2>3
<1> QED BY <1>4, <1>5, <1>7, <1>8 DEF FeedInv, Leaves

-----------------------------------------------------------------------------
(* The steps.                                                              *)

LEMMA CallsMap ==
    ASSUME FeedInv, NEW h \in Conns, NEW c \in Conns,
           \/ BroadcastMessage(h) \/ BroadcastNotice(h) \/ SendPersonal(h, c)
           \/ Kick(h, c) \/ \E n \in 1..MaxParting : DeliverAndClose(h, c, n)
    PROVE  FeedInv' /\ Feed!Next
<1>1. /\ active \in Seq(Conns) /\ ToSet(active) \in SUBSET Conns
      /\ sent \in 0..MaxSent /\ calls \in 0..MaxCalls
      /\ parting \in [Conns -> 0..MaxParting]
    BY ActiveConns DEF TypeOK
<1>2. Notice \in Frames /\ queue \in QueueType /\ Serve(queue, sent, {})
    BY <1>1, MadeFrames, SameServed
<1>3. ASSUME BroadcastMessage(h)
      PROVE  FeedInv' /\ Feed!Next
    <2> DEFINE m == Message(sent + 1)
    <2>1. sent' = sent + 1 /\ sent < MaxSent /\ calls' = calls /\ Free(h)
              /\ sent + 1 \in 0..MaxSent
        BY <1>1, <1>3, ConnAssumption DEF BroadcastMessage
    <2>2. m \in Frames
        BY <2>1, MadeFrames
    <2>3. PICK full \in WedgedBy(ToSet(active)) :
              EvictAll(h, full, Enqueued(m, ToSet(active)))
        BY <1>3 DEF BroadcastMessage, Broadcast
    <2>4. UNCHANGED <<ws, shown, at, parting>>
        BY <1>3 DEF BroadcastMessage, Broadcast
    <2>5. full \in Seq(Conns)
              /\ ToSet(full) = {d \in ToSet(active) : Len(queue[d]) >= QueueMax}
        BY <1>1, WedgedFacts
    <2>6. Serve(Enqueued(m, ToSet(active)), sent', ToSet(full))
        BY <2>1, <2>5, MessageServed
    <2>7. Enqueued(m, ToSet(active)) \in QueueType
        BY <2>2, EnqueuedType
    <2> HIDE DEF m
    <2>8. FeedInv' /\ \E r, e \in SUBSET Feed!Live : Feed!Fate(r, e)
        BY <1>1, <2>1, <2>3, <2>4, <2>5, <2>6, <2>7, Evicted
    <2> QED BY <2>1, <2>8 DEF Feed!Next, Feed!Send
<1>4. ASSUME NEW to \in SUBSET ToSet(active), Free(h), Broadcast(h, Notice, to),
             sent' = sent, calls' \in 0..MaxCalls
      PROVE  FeedInv' /\ Feed!Next
    <2>3. PICK full \in WedgedBy(to) : EvictAll(h, full, Enqueued(Notice, to))
        BY <1>4 DEF Broadcast
    <2>4. UNCHANGED <<ws, shown, at, parting>>
        BY <1>4 DEF Broadcast
    <2>5. full \in Seq(Conns) /\ ToSet(full) \in SUBSET ToSet(active)
        BY <1>1, WedgedFacts
    <2>6. Serve(Enqueued(Notice, to), sent', ToSet(full))
        BY <1>4, NoticeServed
    <2>7. Enqueued(Notice, to) \in QueueType
        BY <1>2, EnqueuedType
    <2>8. FeedInv' /\ \E r, e \in SUBSET Feed!Live : Feed!Fate(r, e)
        BY <1>1, <1>4, <2>3, <2>4, <2>5, <2>6, <2>7, Evicted
    <2> QED BY <1>4, <2>8 DEF Feed!Next, Feed!Settle
<1>5. calls < MaxCalls => calls + 1 \in 0..MaxCalls
    BY <1>1, ConnAssumption
<1>6. ASSUME BroadcastNotice(h)
      PROVE  FeedInv' /\ Feed!Next
    <2>1. Free(h) /\ sent' = sent /\ calls' \in 0..MaxCalls
        BY <1>5, <1>6 DEF BroadcastNotice
    <2>2. PICK skip \in {{}, {d \in Conns : UserOf[d] = UserOf[h]}} :
              Broadcast(h, Notice, ToSet(active) \ skip)
        BY <1>6 DEF BroadcastNotice
    <2>3. ToSet(active) \ skip \in SUBSET ToSet(active)
        OBVIOUS
    <2> QED BY <1>4, <2>1, <2>2, <2>3
<1>7. ASSUME SendPersonal(h, c)
      PROVE  FeedInv' /\ Feed!Next
    <2>1. /\ Free(h) /\ sent' = sent /\ calls' \in 0..MaxCalls
          /\ {c} \in SUBSET ToSet(active) /\ Broadcast(h, Notice, {c})
        BY <1>5, <1>7 DEF SendPersonal
    <2> QED BY <1>4, <2>1
<1>8. ASSUME Free(h), c \in ToSet(active), EvictAll(h, <<c>>, queue),
             UNCHANGED <<ws, shown, at, sent>>, calls' \in 0..MaxCalls,
             parting' \in [Conns -> 0..MaxParting]
      PROVE  FeedInv' /\ Feed!Next
    <2>1. <<c>> \in Seq(Conns) /\ ToSet(<<c>>) = {c}
        BY DEF ToSet
    <2>2. Serve(queue, sent', ToSet(<<c>>))
        BY <1>2, <1>8 DEF Serve, Served
    <2>3. FeedInv' /\ \E r, e \in SUBSET Feed!Live : Feed!Fate(r, e)
        BY <1>1, <1>2, <1>8, <2>1, <2>2, Evicted
    <2> QED BY <1>8, <2>3 DEF Feed!Next, Feed!Settle
<1>9. ASSUME Kick(h, c)
      PROVE  FeedInv' /\ Feed!Next
    <2>1. /\ Free(h) /\ c \in ToSet(active) /\ EvictAll(h, <<c>>, queue)
          /\ UNCHANGED <<ws, shown, at, sent>> /\ calls' \in 0..MaxCalls
          /\ parting' \in [Conns -> 0..MaxParting]
        BY <1>1, <1>5, <1>9 DEF Kick
    <2> QED BY <1>8, <2>1
<1>10. ASSUME NEW n \in 1..MaxParting, DeliverAndClose(h, c, n)
       PROVE  FeedInv' /\ Feed!Next
    <2>1. /\ Free(h) /\ c \in ToSet(active) /\ EvictAll(h, <<c>>, queue)
          /\ UNCHANGED <<ws, shown, at, sent>> /\ calls' \in 0..MaxCalls
        BY <1>5, <1>10 DEF DeliverAndClose
    <2>2. parting' \in [Conns -> 0..MaxParting]
        <3>1. parting' = [parting EXCEPT ![h] = n] /\ n \in 0..MaxParting
            BY <1>10, ConnAssumption DEF DeliverAndClose
        <3> QED BY <1>1, <3>1
    <2> QED BY <1>8, <2>1, <2>2
<1> QED BY <1>3, <1>6, <1>7, <1>9, <1>10

\* send_to drops what does not fit.
LEMMA SendToMaps ==
    ASSUME FeedInv, NEW h \in Conns, NEW c \in Conns, SendTo(h, c)
    PROVE  FeedInv' /\ Feed!Next
<1>1. /\ sent \in 0..MaxSent /\ calls' \in 0..MaxCalls
    BY ConnAssumption DEF FeedInv, TypeOK, SendTo
<1>2. Notice \in Frames
    BY <1>1, MadeFrames
<1>3. Enqueued(Notice, {c}) \in QueueType /\ Serve(Enqueued(Notice, {c}), sent, {})
    BY <1>2, EnqueuedType, NoticeServed
<1>4. /\ queue' = Enqueued(Notice, {c})
      /\ UNCHANGED <<active, task, sending, ws, shown, at, drop, parting, sent>>
    BY DEF SendTo
<1>5. Leaves(NULL, Enqueued(Notice, {c}))
    BY <1>3, <1>4, NobodyLeaves
<1>6. TypeOK'
    BY <1>1, <1>4, <1>5 DEF Leaves, FeedInv, TypeOK
<1>7. \A d : Refused(d)' <=> Refused(d)
    BY <1>4 DEF Refused
<1>8. /\ Fed' /\ Untouched'
      /\ \E r, e \in SUBSET Feed!Live : Feed!Fate(r, e)
    <2>1. {} \in SUBSET ToSet(active) /\ NULL \in Conns \cup {NULL}
        OBVIOUS
    <2> QED BY <1>3, <1>4, <1>5, <1>6, <1>7, <2>1, Fated
<1>9. Gone' /\ Holding' /\ Distinct(active')
    BY <1>4, <1>5 DEF FeedInv, Gone, Leaves
<1> QED BY <1>4, <1>6, <1>8, <1>9 DEF FeedInv, Feed!Next, Feed!Settle

\* Popping whoever holds a user's place, with the queues as they are.
LEMMA PlaceTaken ==
    ASSUME FeedInv, TypeOK', Gone', NEW u, Pop(ConnOf(u), queue),
           shown' = shown, sent' = sent,
           \A c \in Conns : ws'[c] = "new" <=> ws[c] = "new",
           \A c \in Conns : Refused(c)' => Refused(c),
           \A c \in ToSet(active') : Refused(c) => Refused(c)'
    PROVE  FeedInv' /\ Feed!Next
<1>1. /\ ConnOf(u) \in Conns \cup {NULL}
      /\ queue \in QueueType /\ Serve(queue, sent, {})
    BY ActiveConns, ConnOfFacts, SameServed DEF FeedInv
<1>2. Leaves(ConnOf(u), queue)
    BY <1>1, PopLeaves
<1> DEFINE gone == ConnOf(u)
<1> HIDE DEF gone
<1>3. /\ Fed' /\ Untouched'
      /\ \E r, e \in SUBSET Feed!Live : Feed!Fate(r, e)
    <2>1. gone \in Conns \cup {NULL} /\ Leaves(gone, queue)
            /\ {} \in SUBSET ToSet(active)
        BY <1>1, <1>2 DEF gone
    <2> QED BY <1>1, <2>1, Fated
<1>4. Holding' /\ Distinct(active')
    BY <1>2 DEF Leaves
<1> QED BY <1>3, <1>4 DEF FeedInv, Feed!Next, Feed!Settle

LEMMA DisconnectMaps ==
    ASSUME FeedInv, NEW h \in Conns, Disconnect(h)
    PROVE  FeedInv' /\ Feed!Next
<1>1. /\ Pop(ConnOf(UserOf[h]), queue)
      /\ at' = [at EXCEPT ![h] = "left"]
      /\ UNCHANGED <<ws, shown, drop, parting, sent, calls>>
    BY DEF Disconnect
<1>2. ConnOf(UserOf[h]) \in Conns \cup {NULL} /\ queue \in QueueType
    BY ActiveConns, ConnOfFacts, SameServed DEF FeedInv
<1>3. Leaves(ConnOf(UserOf[h]), queue)
    BY <1>1, <1>2, PopLeaves
<1>4. TypeOK'
    BY <1>1, <1>3 DEF Leaves, FeedInv, TypeOK
<1>5. \A c : Refused(c)' <=> Refused(c)
    BY <1>1 DEF Refused
<1>6. Gone'
    BY <1>1, <1>3 DEF FeedInv, Gone, Leaves
<1> QED BY <1>1, <1>4, <1>5, <1>6, PlaceTaken

LEMMA CloseReturnsMaps ==
    ASSUME FeedInv, NEW h \in Conns, CloseReturns(h)
    PROVE  FeedInv' /\ Feed!Next
<1>1. /\ drop[h] # <<>>
      /\ ws' = [ws EXCEPT ![Head(drop[h])] = "closed"]
      /\ drop' = [drop EXCEPT ![h] = Tail(@)]
      /\ UNCHANGED <<shown, at, parting, sent, calls>>
    BY DEF CloseReturns
<1>2. /\ drop \in [Conns -> Seq(Conns)]
           /\ ws \in [Conns -> {"new", "open", "closed"}]
      /\ active \in Seq(Conns) /\ Distinct(active)
    BY DEF FeedInv, TypeOK
<1>3. /\ Head(drop[h]) \in Conns /\ Tail(drop[h]) \in Seq(Conns)
      /\ Head(drop[h]) \in ToSet(drop[h])
      /\ \A c : c \in ToSet(drop[h]) => c = Head(drop[h])
           \/ c \in ToSet(Tail(drop[h]))
      /\ \A c : c \in ToSet(Tail(drop[h])) => c \in ToSet(drop[h])
    <2>1. drop[h] \in Seq(Conns) /\ drop[h] # <<>>
        BY <1>1, <1>2
    <2> QED BY <2>1, ListTail
<1>4. ws[Head(drop[h])] # "new"
    BY <1>3 DEF FeedInv, Untouched, Refused
<1>5. \A c \in Conns : ws'[c] = "new" <=> ws[c] = "new"
    BY <1>1, <1>2, <1>3, <1>4
<1>6. \A g \in Conns : drop'[g] = IF g = h THEN Tail(drop[h]) ELSE drop[g]
    BY <1>1, <1>2
<1>7. Head(drop[h]) \notin ToSet(active)
    BY <1>1 DEF FeedInv, Gone
<1>8. \A c \in Conns : Refused(c)' => Refused(c)
    BY <1>3, <1>6 DEF Refused
<1>9. \A c \in ToSet(active) : Refused(c) => Refused(c)'
    BY <1>3, <1>6, <1>7 DEF Refused
<1>10. /\ ws' \in [Conns -> {"new", "open", "closed"}]
       /\ drop' \in [Conns -> Seq(Conns)]
    BY <1>1, <1>2, <1>3
<1>11. CASE Len(drop[h]) > 1
    <2> DEFINE d == drop[h][2]
               u == UserOf[d]
    <2>1. Pop(ConnOf(u), queue)
        BY <1>11 DEF CloseReturns
    <2> HIDE DEF u
    <2>2. ConnOf(u) \in Conns \cup {NULL} /\ queue \in QueueType
        BY <1>2, ActiveConns, ConnOfFacts, SameServed
    <2>3. Leaves(ConnOf(u), queue)
        BY <2>1, <2>2, PopLeaves
    <2>4. ToSet(active') = ToSet(active) \ {ConnOf(u)}
        BY <2>3 DEF Leaves
    <2>5. TypeOK'
        BY <1>1, <1>10, <2>3 DEF Leaves, FeedInv, TypeOK
    <2>6. Gone'
        <3> SUFFICES ASSUME NEW g \in Conns, drop'[g] # <<>>
                     PROVE  Head(drop'[g]) \notin ToSet(active')
            BY DEF Gone
        <3>1. CASE g # h
            BY <1>6, <2>4, <3>1 DEF FeedInv, Gone
        <3>2. CASE g = h
            <4>1. Head(drop'[g]) = d
                BY <1>1, <1>2, <1>6, <1>11, <3>2, ListTail
            <4>2. d \in ToSet(active) => d = ConnOf(u)
                BY <1>2, ConnOfFacts DEF u
            <4> QED BY <2>4, <4>1, <4>2
        <3> QED BY <3>1, <3>2
    <2>7. \A c \in ToSet(active') : Refused(c) => Refused(c)'
        BY <1>9, <2>4
    <2> QED BY <1>1, <1>5, <1>8, <2>1, <2>5, <2>6, <2>7, PlaceTaken
<1>12. CASE ~ (Len(drop[h]) > 1)
    <2>1. UNCHANGED <<active, queue, task, sending>>
        BY <1>12 DEF CloseReturns
    <2>2. /\ queue \in QueueType /\ Serve(queue, sent', {})
        BY <1>1, SameServed
    <2>3. Leaves(NULL, queue)
        BY <2>1, <2>2, NobodyLeaves
    <2>4. TypeOK'
        BY <1>1, <1>10, <2>1 DEF FeedInv, TypeOK
    <2>5. Gone'
        <3> SUFFICES ASSUME NEW g \in Conns, drop'[g] # <<>>
                     PROVE  Head(drop'[g]) \notin ToSet(active')
            BY DEF Gone
        <3>1. drop[h] \in Seq(Conns) /\ drop[h] # <<>>
            BY <1>1, <1>2
        <3>2. Tail(drop[h]) = <<>>
            BY <1>12, <3>1, ListTail
        <3> QED BY <1>6, <2>1, <3>2 DEF FeedInv, Gone
    <2>6. /\ Fed' /\ Untouched'
          /\ \E r, e \in SUBSET Feed!Live : Feed!Fate(r, e)
        <3>1. {} \in SUBSET ToSet(active) /\ NULL \in Conns \cup {NULL}
            OBVIOUS
        <3> QED BY <1>1, <1>5, <1>8, <1>9, <2>1, <2>2, <2>3, <2>4, <3>1, Fated
    <2>7. Holding' /\ Distinct(active')
        BY <2>3 DEF Leaves
    <2> QED BY <1>1, <2>4, <2>5, <2>6, <2>7 DEF FeedInv, Feed!Next, Feed!Settle
<1> QED BY <1>11, <1>12

\* What looks the same to every connection is a stutter.
LEMMA LooksSame ==
    ASSUME sent' = sent, \A c \in Conns : FeedSeen'[c] = FeedSeen[c],
           active' = active, drop' = drop,
           \A c \in Conns : ws'[c] = "new" <=> ws[c] = "new"
    PROVE  UNCHANGED Feed!vars
<1>1. FeedSeen' = FeedSeen
    <2>1. FeedSeen = [c \in Conns |-> FeedSeen[c]]
        BY DEF FeedSeen
    <2>2. FeedSeen' = [c \in Conns |-> FeedSeen'[c]]
        BY DEF FeedSeen
    <2> QED BY <2>1, <2>2
<1>2. FeedState' = FeedState
    <2>1. \A c : Refused(c)' <=> Refused(c)
        BY DEF Refused
    <2> QED BY <2>1 DEF FeedState
<1> QED BY <1>1, <1>2 DEF Feed!vars

\* A writer that takes a frame leaves the line as it was.
LEMMA TakeFrameMaps ==
    ASSUME FeedInv, NEW c \in Conns, TakeFrame(c)
    PROVE  FeedInv' /\ UNCHANGED Feed!vars
<1>1. /\ task[c] = "get" /\ queue[c] # <<>>
      /\ task' = [task EXCEPT ![c] = "send"]
      /\ sending' = [sending EXCEPT ![c] = Head(queue[c])]
      /\ queue' = [queue EXCEPT ![c] = Tail(@)]
      /\ UNCHANGED <<active, ws, shown, at, drop, parting, sent, calls>>
    BY DEF TakeFrame
<1>2. /\ queue \in [Conns -> Seq(Frames)]
           /\ sending \in [Conns -> Frames \cup {<<>>}]
      /\ task \in [Conns -> {"none", "get", "send", "stopped"}]
      /\ \A d \in Conns : Len(queue[d]) <= QueueMax
    BY DEF FeedInv, TypeOK
<1>3. /\ sending[c] = <<>> /\ LineOf(c) = queue[c]
      /\ Line(Head(queue[c]), Tail(queue[c])) = queue[c]
      /\ Head(queue[c]) \in Frames /\ Tail(queue[c]) \in Seq(Frames)
      /\ Head(queue[c]) # <<>>
    <2>1. sending[c] = <<>>
        BY <1>1 DEF FeedInv, Holding
    <2>2. queue[c] \in Seq(Frames) /\ queue[c] # <<>>
        BY <1>1, <1>2
    <2> QED BY <2>1, <2>2, LineTake, FrameFacts DEF LineOf, Line
<1>4. TypeOK'
    <2>1. /\ sending' \in [Conns -> Frames \cup {<<>>}]
               /\ queue' \in [Conns -> Seq(Frames)]
          /\ task' \in [Conns -> {"none", "get", "send", "stopped"}]
        BY <1>1, <1>2, <1>3
    <2>2. \A d \in Conns : Len(queue'[d]) <= QueueMax
        <3>1. Len(Tail(queue[c])) <= Len(queue[c]) /\ QueueMax \in Nat
                  /\ Len(queue[c]) \in Nat /\ Len(Tail(queue[c])) \in Nat
            BY <1>1, <1>2, ConnAssumption
        <3>2. \A d \in Conns :
                queue'[d] = IF d = c THEN Tail(queue[c]) ELSE queue[d]
            BY <1>1, <1>2
        <3>3. Len(Tail(queue[c])) <= QueueMax
            BY <1>2, <3>1
        <3> QED BY <1>2, <3>2, <3>3
    <2> QED BY <1>1, <2>1, <2>2 DEF FeedInv, TypeOK
<1>5. \A d \in Conns : LineOf(d)' = LineOf(d)
    BY <1>1, <1>2, <1>3 DEF LineOf
<1>6. \A d : Refused(d)' <=> Refused(d)
    BY <1>1 DEF Refused
<1>7. Fed'
    BY <1>1, <1>5, <1>6, ActiveConns DEF FeedInv, Fed, Served
<1>8. Untouched'
    <2>1. ws[c] # "new"
        BY <1>1 DEF FeedInv, Untouched
    <2> QED BY <1>1, <1>2, <1>6, <2>1 DEF FeedInv, Untouched
<1>9. Gone' /\ Holding' /\ Distinct(active')
    BY <1>1, <1>2, <1>3 DEF FeedInv, Gone, Holding
<1>10. \A d \in Conns : FeedSeen'[d] = FeedSeen[d]
    <2>1. TypeOK
        BY DEF FeedInv
    <2> QED BY <1>1, <1>4, <1>5, <2>1, SeenByLine, SeenByLineNext
<1> QED BY <1>1, <1>4, <1>7, <1>8, <1>9, <1>10, LooksSame DEF FeedInv

\* A send that returns shows the head of the line; one that raises shows
\* nothing, and the connection stays as it is.
LEMMA SendReturnsMaps ==
    ASSUME FeedInv, NEW c \in Conns, SendReturns(c)
    PROVE  FeedInv' /\ [Feed!Next]_Feed!vars
<1>1. /\ task[c] = "send"
      /\ UNCHANGED <<active, queue, ws, at, drop, parting, sent, calls>>
    BY DEF SendReturns
<1>2. /\ queue \in [Conns -> Seq(Frames)]
           /\ sending \in [Conns -> Frames \cup {<<>>}]
      /\ task \in [Conns -> {"none", "get", "send", "stopped"}]
      /\ shown \in [Conns -> -1..MaxSent] /\ sent \in 0..MaxSent
      /\ TypeOK
    BY DEF FeedInv, TypeOK
<1>3. sending[c] \in Frames
    BY <1>1, <1>2 DEF FeedInv, Holding
<1>4. \A d : Refused(d)' <=> Refused(d)
    BY <1>1 DEF Refused
<1>5. CASE ws[c] = "closed"
    <2>1. /\ task' = [task EXCEPT ![c] = "stopped"]
          /\ UNCHANGED <<sending, shown>>
        BY <1>5 DEF SendReturns
    <2>2. TypeOK'
        BY <1>1, <1>2, <2>1 DEF TypeOK
    <2>3. \A d \in Conns : LineOf(d)' = LineOf(d)
        BY <1>1, <2>1 DEF LineOf
    <2>4. Fed'
        BY <1>1, <1>4, <2>1, <2>3, ActiveConns DEF FeedInv, Fed, Served
    <2>5. Untouched'
        BY <1>1, <1>2, <1>4, <2>1 DEF FeedInv, Untouched
    <2>6. Gone' /\ Holding' /\ Distinct(active')
        BY <1>1, <1>2, <2>1 DEF FeedInv, Gone, Holding
    <2>7. \A d \in Conns : FeedSeen'[d] = FeedSeen[d]
        BY <1>1, <1>2, <2>1, <2>2, <2>3, SeenByLine, SeenByLineNext
    <2> QED BY <1>1, <2>2, <2>4, <2>5, <2>6, <2>7, LooksSame DEF FeedInv
<1>6. CASE ws[c] = "open"
    <2> DEFINE now == IF sending[c] = Notice THEN shown[c] ELSE sending[c][2]
    <2>1. /\ sending' = [sending EXCEPT ![c] = <<>>]
          /\ task' = [task EXCEPT ![c] = "get"]
          /\ shown' = [shown EXCEPT ![c] = now]
        <3>1. /\ sending' = [sending EXCEPT ![c] = <<>>]
              /\ task' = [task EXCEPT ![c] = "get"]
              /\ shown' = IF sending[c] = Notice THEN shown
                          ELSE [shown EXCEPT ![c] = sending[c][2]]
            BY <1>6 DEF SendReturns
        <3>2. [shown EXCEPT ![c] = shown[c]] = shown
            BY <1>2
        <3> QED BY <3>1, <3>2
    <2>2. now \in -1..MaxSent
        BY <1>2, <1>3, FrameFacts
    <2> HIDE DEF now
    <2>3. TypeOK'
        <3>1. /\ sending' \in [Conns -> Frames \cup {<<>>}]
              /\ task' \in [Conns -> {"none", "get", "send", "stopped"}]
              /\ shown' \in [Conns -> -1..MaxSent]
            BY <1>2, <2>1, <2>2
        <3> QED BY <1>1, <1>2, <3>1 DEF TypeOK
    <2>4. /\ LineOf(c) = Line(sending[c], queue[c])
          /\ LineOf(c)' = queue[c]
          /\ shown'[c] = now
          /\ queue[c] \in Seq(Frames)
        BY <1>1, <1>2, <2>1 DEF LineOf, Line
    <2>5. \A d \in Conns : d # c => LineOf(d)' = LineOf(d) /\ shown'[d] = shown[d]
        BY <1>1, <1>2, <2>1 DEF LineOf
    <2>6. Untouched'
        BY <1>1, <1>2, <1>4, <1>6, <2>1 DEF FeedInv, Untouched
    <2>7. Gone' /\ Holding' /\ Distinct(active')
        BY <1>1, <1>2, <2>1 DEF FeedInv, Gone, Holding
    <2>8. \A d \in Conns : d # c
            \/ d \notin ToSet(active) => FeedSeen'[d] = FeedSeen[d]
        BY <1>1, <1>2, <2>3, <2>5, SeenByLine, SeenByLineNext
    <2>9. CASE c \notin ToSet(active)
        <3>1. Fed'
            BY <1>1, <1>4, <2>5, <2>9, ActiveConns DEF FeedInv, Fed, Served
        <3>2. UNCHANGED Feed!vars
            BY <1>1, <2>8, <2>9, LooksSame
        <3> QED BY <2>3, <2>6, <2>7, <3>1, <3>2 DEF FeedInv
    <2>10. CASE c \in ToSet(active)
        <3>1. Served(c, LineOf(c), sent, Refused(c))
            BY <2>10 DEF FeedInv, Fed
        <3>2. /\ Orderly(shown[c], Line(sending[c], queue[c]), sent)
              /\ shown[c] \in -1..MaxSent
              /\ now = IF sending[c] = Notice THEN shown[c] ELSE sending[c][2]
            BY <1>2, <2>4, <3>1 DEF Served, now
        <3> DEFINE was == Seen(shown[c], Line(sending[c], queue[c]))
        <3>3. /\ Orderly(now, queue[c], sent)
              /\ now \in 0..MaxSent
              /\ Seen(now, queue[c]) = now
              /\ Complete(shown[c], Line(sending[c], queue[c]), sent)
                     => Complete(now, queue[c], sent)
              /\ ~IsMessage(sending[c]) => now = was
              /\ IsMessage(sending[c]) => was < now /\ now <= sent
              /\ IsMessage(sending[c])
                     /\ Complete(shown[c], Line(sending[c], queue[c]), sent)
                     => now = was + 1
            BY <1>2, <1>3, <2>4, <3>2, HeadShown
        <3>4. was \in 0..MaxSent
            <4>1. LineOf(c) \in Seq(Frames)
                BY <1>2, Types
            <4> QED BY <2>4, <3>2, <4>1, SeenNat
        <3>5. ~Refused(c) => Complete(shown[c], Line(sending[c], queue[c]), sent)
            BY <2>4, <3>1 DEF Served
        <3>6. FeedSeen[c] = was /\ FeedSeen'[c] = now
            BY <1>1, <1>2, <2>3, <2>4, <2>10, <3>3, SeenByLine, SeenByLineNext
        <3> HIDE DEF was
        <3>7. Fed'
            <4>1. Served(c, LineOf(c), sent, Refused(c))'
                BY <1>1, <1>4, <2>4, <3>3, <3>5 DEF Served
            <4>2. \A d \in ToSet(active) : d # c =>
                      Served(d, LineOf(d), sent, Refused(d))'
                BY <1>1, <1>4, <2>5, ActiveConns DEF FeedInv, Fed, Served
            <4> QED BY <1>1, <4>1, <4>2 DEF Fed
        <3>8. CASE ~IsMessage(sending[c])
            <4>1. \A d \in Conns : FeedSeen'[d] = FeedSeen[d]
                BY <2>8, <3>3, <3>6, <3>8
            <4>2. UNCHANGED Feed!vars
                BY <1>1, <4>1, LooksSame
            <4> QED BY <2>3, <2>6, <2>7, <3>7, <4>2 DEF FeedInv
        <3>9. CASE IsMessage(sending[c])
            <4>1. FeedSeen' = [FeedSeen EXCEPT ![c] = now]
                <5>1. /\ FeedSeen = [d \in Conns |-> FeedSeen[d]]
                      /\ FeedSeen' = [d \in Conns |-> FeedSeen'[d]]
                    BY DEF FeedSeen
                <5> QED BY <2>8, <3>6, <5>1
            <4>2. FeedState' = FeedState
                BY <1>1, <1>4 DEF FeedState
            <4>3. FeedState[c] = IF Refused(c) THEN "refused" ELSE "open"
                BY <1>6, <2>10 DEF FeedState
            <4>4. sent' = sent /\ sent \in 0..MaxSent
                BY <1>1, <1>2
            <4>5. Feed!Show(c) \/ Feed!ShowRefused(c)
                <5>1. CASE Refused(c)
                    <6>1. now \in (FeedSeen[c] + 1) .. sent
                        BY <3>3, <3>4, <3>6, <3>9, <4>4
                    <6>2. Feed!ShowRefused(c)
                        BY <4>1, <4>2, <4>3, <4>4, <5>1, <6>1 DEF Feed!ShowRefused
                    <6> QED BY <6>2
                <5>2. CASE ~Refused(c)
                    <6>1. now = FeedSeen[c] + 1 /\ FeedSeen[c] < sent
                        BY <3>3, <3>4, <3>5, <3>6, <3>9, <4>4, <5>2
                    <6>2. Feed!Show(c)
                        BY <4>1, <4>2, <4>3, <4>4, <5>2, <6>1 DEF Feed!Show
                    <6> QED BY <6>2
                <5> QED BY <5>1, <5>2
            <4>6. Feed!Next
                BY <4>5 DEF Feed!Next
            <4> QED BY <2>3, <2>6, <2>7, <3>7, <4>6 DEF FeedInv
        <3> QED BY <3>8, <3>9
    <2> QED BY <2>9, <2>10
<1> QED BY <1>5, <1>6 DEF SendReturns

\* A new connection takes its user's place, or a new one at the end.
LEMMA Seated ==
    ASSUME FeedInv, NEW c \in Conns, Connect(c), c \notin ToSet(active)
    PROVE  /\ active' \in Seq(Conns)
           /\ ToSet(active') = (ToSet(active) \ {ConnOf(UserOf[c])}) \cup {c}
           /\ Distinct(active')
<1> DEFINE old == ConnOf(UserOf[c])
<1>1. active \in Seq(Conns) /\ Distinct(active) /\ NULL \notin Conns
          /\ ToSet(active) \in SUBSET Conns
    BY ActiveConns, ConnAssumption DEF FeedInv
<1>2. /\ old \in ToSet(active) \cup {NULL}
      /\ \A d \in ToSet(active) : UserOf[d] = UserOf[c] => d = old
      /\ old # NULL => UserOf[old] = UserOf[c]
    BY <1>1, ConnOfFacts
<1>3. active' = IF old = NULL THEN Append(active, c)
                ELSE [k \in DOMAIN active |-> IF active[k] =
                  old THEN c ELSE active[k]]
    BY DEF Connect
<1> HIDE DEF old
<1>4. \A k \in DOMAIN active : active[k] \in ToSet(active) /\ active[k] \in Conns
    BY <1>1 DEF ToSet
<1>5. CASE old = NULL
    <2>1. /\ active' \in Seq(Conns) /\ DOMAIN active' = 1 .. Len(active) + 1
          /\ \A k \in DOMAIN active : k \in DOMAIN active' /\ active'[k] = active[k]
          /\ active'[Len(active) + 1] = c
          /\ Len(active) + 1 \in DOMAIN active'
          /\ \A k \in DOMAIN active' : k \in DOMAIN active \/ k = Len(active) + 1
        BY <1>1, <1>3, <1>5
    <2>2. ToSet(active') = ToSet(active) \cup {c}
        BY <2>1 DEF ToSet
    <2>3. \A d \in ToSet(active) : UserOf[d] # UserOf[c]
        BY <1>1, <1>2, <1>5
    <2>4. Distinct(active')
        BY <1>1, <1>4, <2>1, <2>3 DEF Distinct
    <2> QED BY <1>1, <1>5, <2>1, <2>2, <2>4 DEF old
<1>6. CASE old # NULL
    <2>1. old \in ToSet(active) /\ UserOf[old] = UserOf[c]
        BY <1>2, <1>6
    <2>2. /\ DOMAIN active' = DOMAIN active
          /\ \A k \in DOMAIN active :
                 active'[k] = IF active[k] = old THEN c ELSE active[k]
        BY <1>3, <1>6
    <2>3. active' \in Seq(Conns)
        <3>1. DOMAIN active = 1 .. Len(active) /\ Len(active) \in Nat
            BY <1>1
        <3>2. active' \in [1 .. Len(active) -> Conns]
            BY <1>3, <1>4, <1>6, <3>1
        <3> QED BY <3>1, <3>2
    <2>4. \A k \in DOMAIN active : UserOf[active'[k]] = UserOf[active[k]]
        BY <2>1, <2>2
    <2>5. Distinct(active')
        BY <1>1, <2>2, <2>4 DEF Distinct
    <2>6. ToSet(active') = (ToSet(active) \ {old}) \cup {c}
        <3>1. \A x \in ToSet(active') : x \in (ToSet(active) \ {old}) \cup {c}
            BY <1>4, <2>2 DEF ToSet
        <3>2. \A x \in ToSet(active) : x # old => x \in ToSet(active')
            BY <2>2 DEF ToSet
        <3>3. c \in ToSet(active')
            BY <2>1, <2>2 DEF ToSet
        <3> QED BY <3>1, <3>2, <3>3
    <2> QED BY <2>3, <2>5, <2>6 DEF old
<1> QED BY <1>5, <1>6

LEMMA ConnectMaps ==
    ASSUME FeedInv, NEW c \in Conns, Connect(c)
    PROVE  FeedInv' /\ Feed!Next
<1> DEFINE old == ConnOf(UserOf[c])
<1>1. /\ ws[c] = "new"
      /\ queue' = [x \in Conns |-> IF x = c THEN <<Snapshot(sent)>>
                                   ELSE IF x = old THEN <<>> ELSE queue[x]]
      /\ task' = [x \in Conns |-> IF x = c THEN "get"
                                  ELSE IF x = old THEN "stopped" ELSE task[x]]
      /\ sending' = [x \in Conns |-> IF x = old THEN <<>> ELSE sending[x]]
      /\ ws' = [ws EXCEPT ![c] = "open"]
      /\ at' = [at EXCEPT ![c] = "run"]
      /\ UNCHANGED <<shown, drop, parting, sent, calls>>
    BY DEF Connect
<1>2. /\ queue \in [Conns -> Seq(Frames)]
           /\ sending \in [Conns -> Frames \cup {<<>>}]
      /\ task \in [Conns -> {"none", "get", "send", "stopped"}]
      /\ ws \in [Conns -> {"new", "open", "closed"}]
      /\ \A d \in Conns : Len(queue[d]) <= QueueMax
      /\ sent \in 0..MaxSent /\ TypeOK
      /\ ToSet(active) \in SUBSET Conns
    BY ActiveConns DEF FeedInv, TypeOK
<1>3. /\ c \notin ToSet(active) /\ shown[c] = -1 /\ sending[c] = <<>> /\ ~Refused(c)
    BY <1>1 DEF FeedInv, Untouched
<1>4. /\ active' \in Seq(Conns) /\ Distinct(active')
      /\ ToSet(active') = (ToSet(active) \ {old}) \cup {c}
    BY <1>3, Seated
<1>5. old \in ToSet(active) \cup {NULL} /\ old # c
    BY <1>3, ActiveConns, ConnOfFacts, ConnAssumption DEF FeedInv
<1> HIDE DEF old
<1>6. Snapshot(sent) \in Frames
    BY <1>2, MadeFrames
<1>7. TypeOK'
    <2>1. <<Snapshot(sent)>> \in Seq(Frames) /\ Len(<<Snapshot(sent)>>) = 1
              /\ <<>> \in Seq(Frames) /\ Len(<<>>) = 0 /\ QueueMax \in Nat \ {0}
        BY <1>6, ConnAssumption
    <2>2. queue' \in [Conns -> Seq(Frames)]
        BY <1>1, <1>2, <2>1
    <2>3. \A d \in Conns : Len(queue'[d]) <= QueueMax
        <3>1. \A d \in Conns : queue'[d] = IF d = c THEN <<Snapshot(sent)>>
                                   ELSE IF d = old THEN <<>> ELSE queue[d]
            BY <1>1
        <3>2. 1 <= QueueMax /\ 0 <= QueueMax
            BY <2>1
        <3> QED BY <1>2, <2>1, <3>1, <3>2
    <2>4. /\ task' \in [Conns -> {"none", "get", "send", "stopped"}]
          /\ sending' \in [Conns -> Frames \cup {<<>>}]
          /\ ws' \in [Conns -> {"new", "open", "closed"}]
        BY <1>1, <1>2
    <2>5. at' \in [Conns -> {"none", "run", "left"}]
        BY <1>1 DEF FeedInv, TypeOK
    <2> QED BY <1>1, <1>2, <1>4, <2>2, <2>3, <2>4, <2>5 DEF TypeOK
<1>8. \A d : Refused(d)' <=> Refused(d)
    BY <1>1 DEF Refused
<1>9. LineOf(c)' = <<Snapshot(sent)>> /\ shown'[c] = -1
    BY <1>1, <1>3, <1>5 DEF LineOf, Line
<1>10. \A d \in ToSet(active) : d # old => /\ LineOf(d)' = LineOf(d)
                                           /\ shown'[d] = shown[d] /\ d # c
    BY <1>1, <1>2, <1>3 DEF LineOf
<1>11. Fed'
    <2>1. Served(c, LineOf(c), sent, Refused(c))'
        <3>1. Orderly(-1, <<Snapshot(sent)>>, sent)
                  /\ Complete(-1, <<Snapshot(sent)>>, sent)
            BY <1>2, Opened
        <3> QED BY <1>1, <1>9, <3>1 DEF Served
    <2>2. \A d \in ToSet(active) : d # old =>
            Served(d, LineOf(d), sent, Refused(d))'
        BY <1>1, <1>8, <1>10 DEF FeedInv, Fed, Served
    <2> QED BY <1>4, <2>1, <2>2 DEF Fed
<1>12. Untouched'
    <2> SUFFICES ASSUME NEW d \in Conns, ws'[d] = "new"
                 PROVE  /\ d \notin ToSet(active') /\ ~Refused(d)'
                        /\ shown'[d] = -1 /\ sending'[d] = <<>>
                        /\ task'[d] \notin {"get", "send"}
        BY DEF Untouched
    <2>1. ws[d] = "new" /\ d # c
        BY <1>1, <1>2
    <2>2. /\ d \notin ToSet(active) /\ ~Refused(d)
          /\ shown[d] = -1 /\ sending[d] = <<>> /\ task[d] \notin {"get", "send"}
        BY <2>1 DEF FeedInv, Untouched
    <2> QED BY <1>1, <1>4, <1>8, <2>1, <2>2
<1>13. Gone'
    <2> SUFFICES ASSUME NEW g \in Conns, drop'[g] # <<>>
                 PROVE  Head(drop'[g]) \notin ToSet(active')
        BY DEF Gone
    <2>1. drop[g] \in Seq(Conns) /\ drop[g] # <<>> /\ drop'[g] = drop[g]
        BY <1>1 DEF FeedInv, TypeOK
    <2>2. Head(drop[g]) \notin ToSet(active)
        BY <2>1 DEF FeedInv, Gone
    <2>3. Head(drop[g]) # c
        BY <1>3, <2>1, ListTail DEF Refused
    <2> QED BY <1>4, <2>1, <2>2, <2>3
<1>14. Holding'
    BY <1>1, <1>3, <1>5 DEF FeedInv, Holding
<1> DEFINE ended == {old} \cap ToSet(active)
<1>15. FeedState' = [x \in Conns |-> IF x = c THEN "open"
                                     ELSE IF x \in ended
                                       THEN "ended" ELSE FeedState[x]]
    <2>1. \A x \in Conns : FeedState[x] = IF ws[x] = "new" THEN "off"
                     ELSE IF x \notin ToSet(active) THEN "ended"
                     ELSE IF Refused(x) THEN "refused" ELSE "open"
        BY DEF FeedState
    <2>2. \A x \in Conns : FeedState'[x] = IF ws'[x] = "new" THEN "off"
                     ELSE IF x \notin ToSet(active') THEN "ended"
                     ELSE IF Refused(x)' THEN "refused" ELSE "open"
        BY DEF FeedState
    <2>3. \A x \in Conns : ws'[x] = "new" <=> ws[x] = "new" /\ x # c
        BY <1>1, <1>2
    <2>4. \A x \in ToSet(active) : ws[x] # "new"
        BY <1>2 DEF FeedInv, Untouched
    <2>5. \A x \in Conns : FeedState'[x] = IF x = c THEN "open"
                                     ELSE IF x \in ended
                                       THEN "ended" ELSE FeedState[x]
        <3> SUFFICES ASSUME NEW x \in Conns
                     PROVE  FeedState'[x] = IF x = c THEN "open"
                                     ELSE IF x \in ended
                                       THEN "ended" ELSE FeedState[x]
            OBVIOUS
        <3>1. CASE x = c
            BY <1>3, <1>4, <1>8, <2>2, <2>3, <3>1
        <3>2. CASE x # c /\ x = old
            BY <1>4, <1>5, <1>8, <2>1, <2>2, <2>3, <2>4, <3>2
        <3>3. CASE x # c /\ x # old
            BY <1>4, <1>8, <2>1, <2>2, <2>3, <3>3
        <3> QED BY <3>1, <3>2, <3>3
    <2>6. FeedState' = [x \in Conns |-> FeedState'[x]]
        BY DEF FeedState
    <2> HIDE DEF ended
    <2> QED BY <2>5, <2>6
<1>16. FeedSeen' = [x \in Conns |-> IF x = c THEN sent
                                    ELSE IF x \in ended THEN 0 ELSE FeedSeen[x]]
    <2>1. \A x \in Conns : FeedSeen[x] =
              IF x \in ToSet(active) THEN Seen(shown[x], LineOf(x)) ELSE 0
        BY <1>2, SeenByLine
    <2>2. \A x \in Conns : FeedSeen'[x] =
              IF x \in ToSet(active') THEN Seen(shown'[x], LineOf(x)') ELSE 0
        BY <1>7, SeenByLineNext
    <2>3. FeedSeen'[c] = sent
        BY <1>2, <1>4, <1>9, <2>2, Opened
    <2>4. \A x \in Conns : x # c =>
              FeedSeen'[x] = IF x \in ended THEN 0 ELSE FeedSeen[x]
        BY <1>4, <1>10, <2>1, <2>2
    <2>5. FeedSeen' = [x \in Conns |-> FeedSeen'[x]]
        BY DEF FeedSeen
    <2> HIDE DEF ended
    <2> QED BY <2>3, <2>4, <2>5
<1>17. FeedState[c] = "off"
    BY <1>1 DEF FeedState
<1>18. ended \in SUBSET Feed!Live
    <2>1. \A x \in ToSet(active) : FeedState[x] \in {"open", "refused"}
        BY <1>2 DEF FeedInv, Untouched, FeedState
    <2> QED BY <1>2, <2>1 DEF Feed!Live
<1> HIDE DEF ended
<1>19. Feed!Open(c)
    BY <1>1, <1>15, <1>16, <1>17, <1>18 DEF Feed!Open
<1>20. Feed!Next
    BY <1>19 DEF Feed!Next
<1> QED BY <1>4, <1>7, <1>11, <1>12, <1>13, <1>14, <1>20 DEF FeedInv

\* A socket that closes under its writer, and a parting frame.
LEMMA OthersMap ==
    ASSUME FeedInv, NEW c \in Conns, PeerDies(c) \/ PartingSent(c)
    PROVE  FeedInv' /\ UNCHANGED Feed!vars
<1>1. UNCHANGED <<active, queue, task, sending, shown, at, drop, sent, calls>>
    BY DEF PeerDies, PartingSent
<1>2. \A d \in Conns : ws'[d] = "new" <=> ws[d] = "new"
    BY DEF PeerDies, PartingSent, FeedInv, TypeOK
<1>3. TypeOK'
    <2>1. CASE PeerDies(c)
        BY <2>1 DEF PeerDies, FeedInv, TypeOK
    <2>2. CASE PartingSent(c)
        <3>1. parting[c] - 1 \in 0..MaxParting
            BY <2>2, ConnAssumption DEF PartingSent, FeedInv, TypeOK
        <3> QED BY <2>2, <3>1 DEF PartingSent, FeedInv, TypeOK
    <2> QED BY <2>1, <2>2
<1>4. \A d : Refused(d)' <=> Refused(d)
    BY <1>1 DEF Refused
<1>5. \A d \in Conns : LineOf(d)' = LineOf(d)
    BY <1>1 DEF LineOf
<1>6. Fed'
    BY <1>1, <1>4, <1>5, ActiveConns DEF FeedInv, Fed, Served
<1>7. Untouched'
    BY <1>1, <1>2, <1>4 DEF FeedInv, Untouched
<1>8. Gone' /\ Holding' /\ Distinct(active')
    BY <1>1 DEF FeedInv, Gone, Holding
<1>9. \A d \in Conns : FeedSeen'[d] = FeedSeen[d]
    BY <1>1 DEF FeedSeen
<1> QED BY <1>1, <1>2, <1>3, <1>6, <1>7, <1>8, <1>9, LooksSame DEF FeedInv

-----------------------------------------------------------------------------
(* The theorems.                                                           *)

LEMMA FeedInit ==
    ASSUME Init
    PROVE  FeedInv /\ Feed!Init
<1>1. TypeOK
    <2>1. <<>> \in Seq(Conns) /\ <<>> \in Seq(Frames) /\ Len(<<>>) = 0
              /\ QueueMax \in Nat /\ MaxSent \in Nat /\ MaxCalls \in Nat
              /\ MaxParting \in Nat
        BY ConnAssumption
    <2> QED BY <2>1 DEF Init, TypeOK
<1>2. ToSet(active) = {} /\ DOMAIN active = {}
    BY DEF Init, ToSet
<1>3. \A c \in Conns : ~Refused(c)
    BY DEF Init, Refused, ToSet
<1>4. Distinct(active) /\ Untouched /\ Gone /\ Holding /\ Fed
    BY <1>2, <1>3 DEF Init, Distinct, Untouched, Gone, Holding, Fed
<1>5. Feed!Init
    BY <1>2 DEF Init, Feed!Init, FeedSeen, FeedState
<1> QED BY <1>1, <1>4, <1>5 DEF FeedInv

LEMMA FeedNext ==
    ASSUME FeedInv, [Next]_vars
    PROVE  FeedInv' /\ [Feed!Next]_Feed!vars
<1>1. ASSUME UNCHANGED vars
      PROVE  FeedInv' /\ UNCHANGED Feed!vars
    <2>1. UNCHANGED <<active, queue, task, sending, ws, shown, at, drop, parting,
                      sent, calls>>
        BY <1>1 DEF vars
    <2>2. TypeOK'
        BY <2>1 DEF FeedInv, TypeOK
    <2>3. \A c : (Refused(c)' <=> Refused(c)) /\ LineOf(c)' = LineOf(c)
        BY <2>1 DEF Refused, LineOf
    <2>4. Fed' /\ Untouched' /\ Gone' /\ Holding' /\ Distinct(active')
        BY <2>1, <2>3 DEF FeedInv, Fed, Served, Untouched, Gone, Holding
    <2>5. \A c \in Conns : FeedSeen'[c] = FeedSeen[c]
        BY <2>1 DEF FeedSeen
    <2> QED BY <2>1, <2>2, <2>4, <2>5, LooksSame DEF FeedInv
<1>2. ASSUME NEW c \in Conns,
             \/ Connect(c) \/ TakeFrame(c) \/ SendReturns(c) \/ PeerDies(c)
             \/ BroadcastMessage(c) \/ BroadcastNotice(c)
             \/ PartingSent(c) \/ CloseReturns(c) \/ Disconnect(c)
      PROVE  FeedInv' /\ [Feed!Next]_Feed!vars
    <2>1. ASSUME BroadcastMessage(c) \/ BroadcastNotice(c)
          PROVE  FeedInv' /\ Feed!Next
        BY <2>1, CallsMap
    <2> QED BY <1>2, <2>1, ConnectMaps, TakeFrameMaps, SendReturnsMaps, OthersMap,
               CloseReturnsMaps, DisconnectMaps
<1>3. ASSUME NEW h \in Conns, NEW c \in Conns,
             \/ SendTo(h, c) \/ SendPersonal(h, c) \/ Kick(h, c)
             \/ \E n \in 1..MaxParting : DeliverAndClose(h, c, n)
      PROVE  FeedInv' /\ [Feed!Next]_Feed!vars
    BY <1>3, CallsMap, SendToMaps
<1> QED BY <1>1, <1>2, <1>3 DEF Next

\* The dictionary has one connection for a user, no handler closes a socket
\* that is still in it, and what a live connection is owed stands in its line.
THEOREM LinesHold == Spec => []FeedInv
    BY FeedInit, FeedNext, PTL DEF Spec

\* managers.py: queues, writers and evictions together feed every connection
\* as RoomFeed says.  After its snapshot a connection is shown every message
\* once and in order, while others are evicted, replaced, kicked and
\* disconnected; what it cannot be given, it is ended for.
THEOREM FeedRefined == Spec => FeedSpec
<1>1. Init => Feed!Init
    BY FeedInit
<1>2. FeedInv /\ [Next]_vars => [Feed!Next]_Feed!vars
    BY FeedNext
<1> QED BY <1>1, <1>2, LinesHold, PTL DEF Spec, FeedSpec, Feed!Spec
=============================================================================
