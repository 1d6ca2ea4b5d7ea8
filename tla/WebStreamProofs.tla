-------------------------- MODULE WebStreamProofs --------------------------
(***************************************************************************)
(* What a page draws and reports, whatever overflows, is cut or flaps:     *)
(* WebStream!NothingMissedInSilence and WebStream!NoFalseGap, for any      *)
(* number of browsers, frames and rooms, and any bounds.                   *)
(***************************************************************************)
EXTENDS WebStream, WellFoundedInduction, TLAPS

\* The marks are no frames.
Marks == NULL \notin Frame \cup Nat /\ RESYNC \notin Seq(Frame)

----------------------------------------------------------------------------
(* What a page that applies frames has passed.                             *)

\* A page that had drawn up to l and applies s: n is behind it when it comes to
\* the i-th frame.
Passed(s, i, l, n) ==
    \/ \E j \in DOMAIN s : /\ j < i /\ n <= s[j].seq
                           /\ \A k \in DOMAIN s : j < k /\ k < i => s[k].kind = "out"
    \/ n <= l /\ \A k \in DOMAIN s : k < i => s[k].kind = "out"

\* ... when it has applied all of s.
Ends(s, l, n) == Passed(s, Len(s) + 1, l, n)

\* n is not above what the page has drawn or is going to draw.
Mentions(s, l, n) == n <= l \/ \E j \in DOMAIN s : n <= s[j].seq

\* Whatever a frame leaps over is among X.
Clean(s, l, X) ==
    \A i \in DOMAIN s : s[i].kind = "out" =>
        \A n \in 1 .. s[i].seq - 1 : n \in X \/ Passed(s, i, l, n)

\* What the page came by and does not end up with, because a snapshot took it
\* back, is among X.
Settles(s, l, X) ==
    \A n \in Nat \ {0} : Mentions(s, l, n) => n \in X \/ Ends(s, l, n)

\* After s come the single frames numbered r: they leap over nothing else,
\* either, and with them nothing of R is missing.
Follows(s, l, r, X) ==
    \A i \in DOMAIN r : \A n \in 1 .. r[i] - 1 :
        n \in X \/ Ends(s, l, n) \/ \E j \in 1 .. i - 1 : n <= r[j]
Reaches(s, l, r, X, R) ==
    \A n \in R : n \in X \/ Ends(s, l, n) \/ \E j \in DOMAIN r : n <= r[j]

Fit(s, l, r, X, R) ==
    Clean(s, l, X) /\ Settles(s, l, X) /\ Follows(s, l, r, X) /\ Reaches(s, l, r, X, R)

----------------------------------------------------------------------------
(* The invariant: the publisher.                                           *)

\* What is in the queue is in the order of the screen, and behind what was sent.
Waits(q, e, s) ==
    /\ q \in Seq(Frame)
    /\ \A i \in DOMAIN q :
          /\ q[i].pt <= e /\ q[i].seq <= Len(s)
          /\ \A n \in DOMAIN s : s[n] <= q[i].pt
          /\ \A j \in DOMAIN q : i < j => q[i].pt <= q[j].pt
OutqOK ==
    /\ events \in Nat /\ sent \in Seq(Nat)
    /\ \A n \in DOMAIN sent : sent[n] <= events
    /\ Waits(outq, events, sent)

\* What is on its way to the relay: a frame with a number the relay has not
\* recorded, or a snapshot that shows all frames up to its number.
Sounds == {f \in Frame :
    /\ f.seq <= Len(sent)
    /\ f.kind = "out" => f.seq # 0 /\ f.seq \notin recorded
    /\ f.kind = "snapshot" => \A n \in 1 .. f.seq : sent[n] <= f.pt}

\* On a connection numbers grow, and those of the one before are lower.
Precedes(f, g) == f.kind = "out" /\ g.kind = "out" => f.seq < g.seq
Ascends(s) == \A i, j \in DOMAIN s : i < j => Precedes(s[i], s[j])
LinksOK ==
    /\ up \in BOOLEAN /\ (~up => link = <<>>)
    /\ link \in Seq(Sounds) /\ oldLink \in Seq(Sounds)
    /\ Ascends(link) /\ Ascends(oldLink)
    /\ \A i \in DOMAIN oldLink : \A j \in DOMAIN link : Precedes(oldLink[i], link[j])

----------------------------------------------------------------------------
(* The relay.                                                              *)

Lost == gone \cup lapsed

\* The numbers below a recorded one are recorded or gone; so are, in the ring,
\* those that stand behind a greater one.
RingOK ==
    /\ ring \in Seq(Frame)
    /\ recorded \subseteq 1 .. Len(sent) /\ gone \subseteq Nat /\ lapsed \subseteq Nat
    /\ stamped \in Nat /\ last_seq \in recorded \cup {0}
    /\ \A i \in DOMAIN ring : ring[i].kind = "out" /\ ring[i].seq \in recorded
    /\ \A i, j \in DOMAIN ring : ring[i].seq = ring[j].seq => i = j
    /\ \A i, j \in DOMAIN ring : i < j /\ ring[j].seq < ring[i].seq => ring[j].seq \in gone
    /\ recorded \ Numbers(ring) \subseteq gone
    /\ \A r \in recorded : \A n \in 1 .. r : n \in recorded \cup gone

\* A snapshot that the relay has passed on shows all frames up to its number,
\* unless the relay gave it that number.
Claims(f) == f.seq <= Len(sent) /\ \A n \in 1 .. f.seq : sent[n] <= f.pt \/ n <= stamped
SnapshotOK ==
    snapshot # NULL => snapshot \in Frame /\ snapshot.kind = "snapshot" /\ Claims(snapshot)

\* The relay has recorded n or lost it, or its snapshot is not behind it.
Backed(n) == n \in recorded \cup Lost \/ (snapshot # NULL /\ n <= snapshot.seq)
Reach == {m \in Nat : \A n \in 1 .. m : Backed(n)}

\* What the relay may have passed on.
Passables == {f \in Frame :
    /\ f.seq \in Reach
    /\ f.kind = "out" => f.seq \in recorded
    /\ f.kind = "snapshot" => Claims(f)}

----------------------------------------------------------------------------
(* The viewers.                                                            *)

First(q) == IF q = <<>> THEN <<>> ELSE q[1]
Rest(q) == [k \in 1 .. Len(q) - 1 |-> q[k + 1][1].seq]
Resyncs(q) == q # <<>> /\ q[1] = RESYNC

\* After its first item a viewer's queue holds single frames of output.
Singles(q, P) == \A k \in DOMAIN q : k > 1 =>
    q[k] \in Seq(P) /\ Len(q[k]) = 1 /\ q[k][1].kind = "out"
QueueOK(q, P) ==
    /\ q \in Seq(Seq(Frame) \cup {RESYNC}) /\ Singles(q, P)
    /\ q # <<>> => q[1] = RESYNC \/ q[1] \in Seq(P)

\* Nothing on the way to a page, by queue q and chain c, leaps over what is not
\* in X, nor will the answer to its hello; and all of R is on its way.
Path(o, a, q, c, l, P, X, R) ==
    /\ o \in {"off", "hello", "on"} /\ a \in Nat
    /\ QueueOK(q, P) /\ c \in Seq(P) /\ Clean(c, l, X) /\ Settles(c, l, X)
    /\ o # "on" => q = <<>>
    /\ o = "hello" => \A n \in 1 .. a : n \in X \/ Ends(c, l, n)
    /\ o = "on" /\ ~Resyncs(q) => Fit(c \o First(q), l, Rest(q), X, R)
PathOK(v) ==
    Path(conn[v], asked[v], queue[v], chain[v], lastSeq[v], Passables, Lost, Numbers(ring))

\* What a page has drawn and reported.
PageOK(v) ==
    /\ lastSeq[v] \in 0 .. Len(sent) /\ lastSeq[v] \in Reach
    /\ gapWarned[v] \in 0 .. lastSeq[v]
    /\ warned[v] \subseteq Lost
    /\ base[v] # NULL => \A n \in 1 .. lastSeq[v] :
          \/ n \in drawn[v] \cup warned[v]
          \/ sent[n] <= base[v]
          \/ n < first[v] \/ n <= stamped

PagesTyped ==
    /\ conn \in [Viewers -> {"off", "hello", "on"}] /\ asked \in [Viewers -> Nat]
    /\ queue \in [Viewers -> Seq(Seq(Frame) \cup {RESYNC})]
    /\ chain \in [Viewers -> Seq(Frame)]
    /\ lastSeq \in [Viewers -> Nat] /\ gapWarned \in [Viewers -> Nat]
    /\ drawn \in [Viewers -> SUBSET Nat] /\ warned \in [Viewers -> SUBSET Nat]
    /\ base \in [Viewers -> Nat \cup {NULL}] /\ first \in [Viewers -> Nat]

StreamInv ==
    /\ OutqOK /\ LinksOK /\ RingOK /\ SnapshotOK /\ PagesTyped
    /\ \A v \in Viewers : PathOK(v) /\ PageOK(v)

----------------------------------------------------------------------------
(* Sequences.                                                              *)

LEMMA SeqParts ==
    ASSUME NEW S, NEW s \in Seq(S), s # <<>>
    PROVE  /\ Len(s) \in Nat \ {0} /\ DOMAIN s = 1 .. Len(s) /\ s[1] \in S
           /\ Tail(s) \in Seq(S) /\ Len(Tail(s)) = Len(s) - 1
           /\ DOMAIN Tail(s) = 1 .. Len(s) - 1
           /\ \A k \in 1 .. Len(s) - 1 : Tail(s)[k] = s[k + 1] /\ s[k + 1] \in S
           /\ Len(s) = 1 => Tail(s) = <<>>
OBVIOUS

LEMMA SeqEqual ==
    ASSUME NEW S, NEW s \in Seq(S), NEW t \in Seq(S), Len(s) = Len(t),
           \A k \in 1 .. Len(s) : s[k] = t[k]
    PROVE  s = t
OBVIOUS

LEMMA SeqMade ==
    ASSUME NEW S, NEW m \in Nat, NEW f \in [1 .. m -> S]
    PROVE  f \in Seq(S) /\ Len(f) = m
OBVIOUS

LEMMA SeqLonger ==
    ASSUME NEW S, NEW s \in Seq(S), NEW e \in S
    PROVE  /\ Append(s, e) \in Seq(S) /\ Len(Append(s, e)) = Len(s) + 1 /\ Len(s) \in Nat
           /\ DOMAIN Append(s, e) = 1 .. Len(s) + 1 /\ DOMAIN s = 1 .. Len(s)
           /\ Append(s, e)[Len(s) + 1] = e /\ Append(s, e) # <<>>
           /\ \A k \in 1 .. Len(s) : Append(s, e)[k] = s[k]
OBVIOUS

LEMMA SeqWider ==
    ASSUME NEW S, NEW T, S \subseteq T, NEW s \in Seq(S)
    PROVE  s \in Seq(T)
OBVIOUS

LEMMA SeqOver ==
    ASSUME NEW S, NEW T, NEW s \in Seq(S), \A k \in DOMAIN s : s[k] \in T
    PROVE  s \in Seq(T)
OBVIOUS

LEMMA NotEmpty ==
    ASSUME NEW s, Len(s) # 0
    PROVE  s # <<>>
OBVIOUS

----------------------------------------------------------------------------
(* Lemmas about what a page has passed.                                    *)

\* What it has passed before a frame of s does not depend on what follows s;
\* and what it has passed by t alone it has passed by t after s.
LEMMA PassedInFront ==
    ASSUME NEW s \in Seq(Frame), NEW t \in Seq(Frame), NEW l \in Nat, NEW n \in Nat,
           NEW i \in 1 .. Len(s) + 1
    PROVE  Passed(s \o t, i, l, n) <=> Passed(s, i, l, n)
<1>1. DOMAIN (s \o t) = 1 .. Len(s) + Len(t) /\ DOMAIN s = 1 .. Len(s)
  OBVIOUS
<1>2. \A j \in 1 .. Len(s) : (s \o t)[j] = s[j]
  OBVIOUS
<1>3. \A j \in DOMAIN (s \o t) : j < i => j \in DOMAIN s /\ (s \o t)[j] = s[j]
  BY <1>1, <1>2
<1>4. \A j \in DOMAIN s : j < i => j \in DOMAIN (s \o t)
  BY <1>1
<1> QED
  BY <1>3, <1>4 DEF Passed

LEMMA PassedBehind ==
    ASSUME NEW s \in Seq(Frame), NEW t \in Seq(Frame), NEW l \in Nat, NEW n \in Nat \ {0},
           NEW i \in 1 .. Len(t) + 1, Passed(t, i, 0, n)
    PROVE  Passed(s \o t, Len(s) + i, l, n)
<1>1. PICK j \in DOMAIN t : /\ j < i /\ n <= t[j].seq
                            /\ \A k \in DOMAIN t : j < k /\ k < i => t[k].kind = "out"
  BY DEF Passed
<1>2. Len(s) \in Nat /\ Len(t) \in Nat /\ DOMAIN t = 1 .. Len(t)
  OBVIOUS
<1>3. \A k \in 1 .. Len(t) : (s \o t)[Len(s) + k] = t[k]
  OBVIOUS
<1>4. DOMAIN (s \o t) = 1 .. Len(s) + Len(t)
  OBVIOUS
<1>5. Len(s) + j \in DOMAIN (s \o t) /\ Len(s) + j < Len(s) + i
  BY <1>1, <1>2, <1>4
<1>6. \A k \in DOMAIN (s \o t) : Len(s) + j < k /\ k < Len(s) + i =>
          k - Len(s) \in DOMAIN t /\ j < k - Len(s) /\ k - Len(s) < i
  BY <1>1, <1>2, <1>4
<1>7. \A k \in DOMAIN (s \o t) : Len(s) + j < k /\ k < Len(s) + i =>
          (s \o t)[k] = t[k - Len(s)]
  <2> SUFFICES ASSUME NEW k \in DOMAIN (s \o t), Len(s) + j < k, k < Len(s) + i
               PROVE  (s \o t)[k] = t[k - Len(s)]
    OBVIOUS
  <2>1. k - Len(s) \in 1 .. Len(t) /\ Len(s) + (k - Len(s)) = k
    BY <1>2, <1>4, <1>6
  <2> QED BY <2>1, <1>3
<1>8. n <= (s \o t)[Len(s) + j].seq
  BY <1>1, <1>2, <1>3
<1> QED
  BY <1>1, <1>5, <1>6, <1>7, <1>8 DEF Passed

\* Output that follows takes nothing back.
LEMMA PassedStays ==
    ASSUME NEW s \in Seq(Frame), NEW t \in Seq(Frame), NEW l \in Nat, NEW n \in Nat,
           \A k \in DOMAIN t : t[k].kind = "out",
           NEW i \in 1 .. Len(t) + 1, Ends(s, l, n)
    PROVE  Passed(s \o t, Len(s) + i, l, n)
<1>1. Len(s) \in Nat /\ Len(t) \in Nat /\ DOMAIN t = 1 .. Len(t) /\ DOMAIN s = 1 .. Len(s)
  OBVIOUS
<1>2. DOMAIN (s \o t) = 1 .. Len(s) + Len(t)
  OBVIOUS
<1>3. \A k \in DOMAIN s : (s \o t)[k] = s[k] /\ k \in DOMAIN (s \o t) /\ k < Len(s) + i
                          /\ k < Len(s) + 1
  BY <1>1, <1>2
<1>4. \A k \in DOMAIN (s \o t) : k \in DOMAIN s \/ (s \o t)[k].kind = "out"
  <2> SUFFICES ASSUME NEW k \in DOMAIN (s \o t), k \notin DOMAIN s
               PROVE  (s \o t)[k].kind = "out"
    OBVIOUS
  <2>1. k - Len(s) \in DOMAIN t /\ (s \o t)[k] = t[k - Len(s)]
    BY <1>1, <1>2
  <2> QED BY <2>1
<1> QED
  BY <1>3, <1>4 DEF Passed, Ends

\* A page that applies a frame is at its number, or stays where it is if it
\* was beyond.
After(f, l) == IF f.kind = "snapshot" \/ l < f.seq THEN f.seq ELSE l

LEMMA PassedOn ==
    ASSUME NEW s \in Seq(Frame), s # <<>>, NEW l \in Nat, NEW n \in Nat,
           NEW i \in 1 .. Len(s), Passed(s, i + 1, l, n)
    PROVE  Passed(Tail(s), i, After(s[1], l), n)
<1>1. Len(s) \in Nat \ {0} /\ DOMAIN s = 1 .. Len(s) /\ DOMAIN Tail(s) = 1 .. Len(s) - 1
      /\ s[1] \in Frame
  OBVIOUS
<1>2. \A k \in DOMAIN Tail(s) : Tail(s)[k] = s[k + 1] /\ k + 1 \in DOMAIN s
  BY <1>1
<1>3. s[1].seq \in Nat /\ s[1].kind \in {"out", "snapshot"}
  BY <1>1 DEF Frame
<1>4. s[1].seq <= After(s[1], l) /\ (s[1].kind = "out" => l <= After(s[1], l))
  BY <1>3 DEF After
<1>5. After(s[1], l) \in Nat
  BY <1>3 DEF After
<1>6. CASE n <= l /\ \A k \in DOMAIN s : k < i + 1 => s[k].kind = "out"
  <2>1. \A k \in DOMAIN Tail(s) : k < i => Tail(s)[k].kind = "out"
    BY <1>1, <1>2, <1>6
  <2>2. s[1].kind = "out"
    BY <1>1, <1>6
  <2>3. n <= After(s[1], l)
    BY <1>4, <1>5, <1>6, <2>2
  <2> QED BY <2>1, <2>3 DEF Passed
<1>7. ASSUME NEW j \in DOMAIN s, j < i + 1, n <= s[j].seq,
             \A k \in DOMAIN s : j < k /\ k < i + 1 => s[k].kind = "out"
      PROVE  Passed(Tail(s), i, After(s[1], l), n)
  <2>1. \A k \in DOMAIN Tail(s) : j - 1 < k /\ k < i => Tail(s)[k].kind = "out"
    BY <1>1, <1>2, <1>7
  <2>2. CASE j = 1
    <3>1. \A k \in DOMAIN Tail(s) : k < i => Tail(s)[k].kind = "out"
      BY <1>1, <2>1, <2>2
    <3>2. n <= After(s[1], l)
      BY <1>3, <1>4, <1>5, <1>7, <2>2
    <3> QED BY <3>1, <3>2 DEF Passed
  <2>3. CASE j # 1
    <3>1. j - 1 \in DOMAIN Tail(s) /\ j - 1 < i
      BY <1>1, <1>7, <2>3
    <3>2. Tail(s)[j - 1] = s[j]
      BY <1>1, <1>2, <3>1
    <3> QED BY <1>7, <2>1, <3>1, <3>2 DEF Passed
  <2> QED BY <2>2, <2>3
<1> QED
  BY <1>6, <1>7 DEF Passed

\* What is clean stays so in front of, and behind, what is clean by itself.
LEMMA CleanTogether ==
    ASSUME NEW s \in Seq(Frame), NEW t \in Seq(Frame), NEW l \in Nat, NEW X,
           Clean(s, l, X), Clean(t, 0, X)
    PROVE  Clean(s \o t, l, X)
<1>1. Len(s) \in Nat /\ Len(t) \in Nat /\ DOMAIN t = 1 .. Len(t) /\ DOMAIN s = 1 .. Len(s)
      /\ DOMAIN (s \o t) = 1 .. Len(s) + Len(t)
  OBVIOUS
<1> SUFFICES ASSUME NEW i \in DOMAIN (s \o t), (s \o t)[i].kind = "out",
                    NEW n \in 1 .. (s \o t)[i].seq - 1
             PROVE  n \in X \/ Passed(s \o t, i, l, n)
  BY DEF Clean
<1>2. CASE i \in DOMAIN s
  <2>0. (s \o t)[i] = s[i] /\ s[i] \in Frame
    BY <1>2
  <2>1. (s \o t)[i] = s[i] /\ s[i].seq \in Nat
    BY <2>0 DEF Frame
  <2>2. n \in X \/ Passed(s, i, l, n)
    BY <1>2, <2>1 DEF Clean
  <2>3. i \in 1 .. Len(s) + 1 /\ n \in Nat
    BY <1>1, <1>2, <2>1
  <2> QED BY <2>2, <2>3, PassedInFront
<1>3. CASE i \notin DOMAIN s
  <2>1. i - Len(s) \in 1 .. Len(t) /\ (s \o t)[i] = t[i - Len(s)]
    BY <1>1, <1>3
  <2>0. t[i - Len(s)] \in Frame
    BY <1>1, <2>1
  <2>2. t[i - Len(s)].seq \in Nat
    BY <2>0 DEF Frame
  <2>3. n \in X \/ Passed(t, i - Len(s), 0, n)
    BY <1>1, <2>1 DEF Clean
  <2>4. i - Len(s) \in 1 .. Len(t) + 1 /\ n \in Nat \ {0} /\ Len(s) + (i - Len(s)) = i
    BY <1>1, <2>1, <2>2
  <2> QED BY <2>3, <2>4, PassedBehind
<1> QED BY <1>2, <1>3

LEMMA EndsTogether ==
    ASSUME NEW s \in Seq(Frame), NEW t \in Seq(Frame), NEW l \in Nat, NEW n \in Nat \ {0},
           Ends(t, 0, n)
    PROVE  Ends(s \o t, l, n)
<1>1. Len(t) + 1 \in 1 .. Len(t) + 1 /\ Len(s \o t) + 1 = Len(s) + (Len(t) + 1)
  OBVIOUS
<1>2. Passed(t, Len(t) + 1, 0, n)
  BY DEF Ends
<1>3. Passed(s \o t, Len(s) + (Len(t) + 1), l, n)
  <2> HIDE DEF Passed
  <2> QED BY <1>1, <1>2, PassedBehind
<1> QED
  BY <1>1, <1>3 DEF Ends

LEMMA MentionsEither ==
    ASSUME NEW s \in Seq(Frame), NEW t \in Seq(Frame), NEW l \in Nat, NEW n \in Nat,
           Mentions(s \o t, l, n)
    PROVE  Mentions(s, l, n) \/ \E j \in DOMAIN t : n <= t[j].seq
<1> SUFFICES ASSUME NEW j \in DOMAIN (s \o t), n <= (s \o t)[j].seq
             PROVE  Mentions(s, l, n) \/ \E k \in DOMAIN t : n <= t[k].seq
  BY DEF Mentions
<1>1. CASE j \in DOMAIN s
  BY <1>1 DEF Mentions
<1>2. CASE j \notin DOMAIN s
  <2>1. j - Len(s) \in DOMAIN t /\ (s \o t)[j] = t[j - Len(s)]
    BY <1>2
  <2> QED BY <2>1
<1> QED BY <1>1, <1>2

\* One frame of output after s.
Single(f) == f \in Frame /\ f.kind = "out"

LEMMA EndsAppend ==
    ASSUME NEW s \in Seq(Frame), NEW f, Single(f), NEW l \in Nat, NEW n \in Nat,
           Ends(s, l, n) \/ n <= f.seq
    PROVE  Ends(s \o <<f>>, l, n)
<1>1. <<f>> \in Seq(Frame) /\ Len(<<f>>) = 1 /\ DOMAIN <<f>> = {1} /\ <<f>>[1] = f
  BY DEF Single
<1>2. CASE Ends(s, l, n)
  <2>1. 2 \in 1 .. Len(<<f>>) + 1 /\ Len(s \o <<f>>) + 1 = Len(s) + 2
    BY <1>1
  <2>2. Passed(s \o <<f>>, Len(s) + 2, l, n)
    BY <1>1, <1>2, <2>1, PassedStays DEF Single
  <2> QED BY <2>1, <2>2 DEF Ends
<1>3. CASE n <= f.seq
  <2>1. /\ Len(s) + 1 \in DOMAIN (s \o <<f>>) /\ (s \o <<f>>)[Len(s) + 1] = f
        /\ Len(s \o <<f>>) = Len(s) + 1 /\ Len(s) \in Nat
    BY <1>1
  <2>2. \A k \in DOMAIN (s \o <<f>>) : ~ (Len(s) + 1 < k)
    BY <1>1, <2>1
  <2> QED BY <1>3, <2>1, <2>2 DEF Ends, Passed
<1> QED BY <1>2, <1>3

LEMMA CleanAppend ==
    ASSUME NEW s \in Seq(Frame), NEW f, Single(f), NEW l \in Nat, NEW X,
           Clean(s, l, X), \A n \in 1 .. f.seq - 1 : n \in X \/ Ends(s, l, n)
    PROVE  Clean(s \o <<f>>, l, X)
<1>1. <<f>> \in Seq(Frame) /\ DOMAIN (s \o <<f>>) = 1 .. Len(s) + 1 /\ Len(s) \in Nat
      /\ DOMAIN s = 1 .. Len(s) /\ (s \o <<f>>)[Len(s) + 1] = f
      /\ \A k \in DOMAIN s : (s \o <<f>>)[k] = s[k]
  BY DEF Single
<1> SUFFICES ASSUME NEW i \in DOMAIN (s \o <<f>>), (s \o <<f>>)[i].kind = "out",
                    NEW n \in 1 .. (s \o <<f>>)[i].seq - 1
             PROVE  n \in X \/ Passed(s \o <<f>>, i, l, n)
  BY DEF Clean
<1>2. n \in Nat
  OBVIOUS
<1>3. n \in X \/ Passed(s, i, l, n)
  <2>1. CASE i \in DOMAIN s
    BY <1>1, <2>1 DEF Clean
  <2>2. CASE i = Len(s) + 1
    BY <1>1, <2>2 DEF Ends
  <2> QED BY <1>1, <2>1, <2>2
<1> QED BY <1>1, <1>2, <1>3, PassedInFront

LEMMA SettlesAppend ==
    ASSUME NEW s \in Seq(Frame), NEW f, Single(f), NEW l \in Nat, NEW X,
           Settles(s, l, X), \A n \in 1 .. f.seq - 1 : n \in X \/ Ends(s, l, n)
    PROVE  Settles(s \o <<f>>, l, X)
<1>1. <<f>> \in Seq(Frame) /\ DOMAIN <<f>> = {1} /\ <<f>>[1] = f
  BY DEF Single
<1> SUFFICES ASSUME NEW n \in Nat \ {0}, Mentions(s \o <<f>>, l, n)
             PROVE  n \in X \/ Ends(s \o <<f>>, l, n)
  BY DEF Settles
<1>2. Mentions(s, l, n) \/ n <= f.seq
  BY <1>1, MentionsEither
<1>3. n \in X \/ Ends(s, l, n) \/ n <= f.seq
  BY <1>2 DEF Settles
<1> QED BY <1>3, EndsAppend

\* The first of the frames that follow goes on to the page.
LEMMA FitMovesOn ==
    ASSUME NEW s \in Seq(Frame), NEW f, Single(f), NEW l \in Nat, NEW X, NEW R \in SUBSET Nat,
           NEW r \in Seq(Nat), r # <<>>, f.seq = r[1], Fit(s, l, r, X, R)
    PROVE  Fit(s \o <<f>>, l, Tail(r), X, R)
<1>1. Len(r) \in Nat \ {0} /\ DOMAIN r = 1 .. Len(r) /\ DOMAIN Tail(r) = 1 .. Len(r) - 1
      /\ \A k \in DOMAIN Tail(r) : Tail(r)[k] = r[k + 1] /\ k + 1 \in DOMAIN r
  OBVIOUS
<1>2. \A n \in 1 .. f.seq - 1 : n \in X \/ Ends(s, l, n)
  <2>1. 1 \in DOMAIN r /\ 1 .. 1 - 1 = {}
    BY <1>1
  <2>2. \A n \in 1 .. r[1] - 1 : n \in X \/ Ends(s, l, n) \/ \E j \in 1 .. 1 - 1 : n <= r[j]
    BY <2>1 DEF Fit, Follows
  <2> QED BY <2>1, <2>2
<1>3. Clean(s \o <<f>>, l, X) /\ Settles(s \o <<f>>, l, X)
  BY <1>2, CleanAppend, SettlesAppend DEF Fit
<1>4. Follows(s \o <<f>>, l, Tail(r), X)
  <2> SUFFICES ASSUME NEW i \in DOMAIN Tail(r), NEW n \in 1 .. Tail(r)[i] - 1
               PROVE  n \in X \/ Ends(s \o <<f>>, l, n) \/ \E j \in 1 .. i - 1 : n <= Tail(r)[j]
    BY DEF Follows
  <2>1. i + 1 \in DOMAIN r /\ n \in 1 .. r[i + 1] - 1 /\ n \in Nat
    BY <1>1
  <2>2. n \in X \/ Ends(s, l, n) \/ \E j \in 1 .. i : n <= r[j]
    BY <1>1, <2>1 DEF Fit, Follows
  <2>3. ASSUME NEW j \in 1 .. i, n <= r[j]
        PROVE  Ends(s \o <<f>>, l, n) \/ \E k \in 1 .. i - 1 : n <= Tail(r)[k]
    <3>1. CASE j = 1
      BY <2>1, <2>3, <3>1, EndsAppend
    <3>2. CASE j # 1
      <4>1. j - 1 \in 1 .. i - 1 /\ Tail(r)[j - 1] = r[j]
        BY <1>1, <3>2
      <4> QED BY <2>3, <4>1
    <3> QED BY <3>1, <3>2
  <2> QED BY <2>1, <2>2, <2>3, EndsAppend
<1>5. Reaches(s \o <<f>>, l, Tail(r), X, R)
  <2> SUFFICES ASSUME NEW n \in R
               PROVE  n \in X \/ Ends(s \o <<f>>, l, n) \/ \E j \in DOMAIN Tail(r) : n <= Tail(r)[j]
    BY DEF Reaches
  <2>1. n \in X \/ Ends(s, l, n) \/ \E j \in DOMAIN r : n <= r[j]
    BY DEF Fit, Reaches
  <2>2. ASSUME NEW j \in DOMAIN r, n <= r[j]
        PROVE  Ends(s \o <<f>>, l, n) \/ \E k \in DOMAIN Tail(r) : n <= Tail(r)[k]
    <3>1. CASE j = 1
      BY <2>2, <3>1, EndsAppend
    <3>2. CASE j # 1
      <4>1. j - 1 \in DOMAIN Tail(r) /\ Tail(r)[j - 1] = r[j]
        BY <1>1, <3>2
      <4> QED BY <2>2, <4>1
    <3> QED BY <3>1, <3>2
  <2> QED BY <2>1, <2>2, EndsAppend
<1> QED
  BY <1>3, <1>4, <1>5 DEF Fit

\* Another frame is recorded, and queued behind the others.
LEMMA FitGrows ==
    ASSUME NEW s \in Seq(Frame), NEW l \in Nat, NEW r \in Seq(Nat), NEW m \in Nat,
           NEW X, NEW Y, NEW R \in SUBSET Nat, NEW S \in SUBSET Nat,
           Fit(s, l, r, X, R), X \subseteq Y, S \subseteq R \cup {m},
           \A n \in 1 .. m - 1 : n \in Y \cup R
    PROVE  Fit(s, l, Append(r, m), Y, S)
<1>1. Len(r) \in Nat /\ DOMAIN r = 1 .. Len(r) /\ DOMAIN Append(r, m) = 1 .. Len(r) + 1
      /\ Append(r, m)[Len(r) + 1] = m /\ \A k \in DOMAIN r : Append(r, m)[k] = r[k]
  OBVIOUS
<1>2. Clean(s, l, Y) /\ Settles(s, l, Y)
  BY DEF Fit, Clean, Settles
<1>3. Follows(s, l, Append(r, m), Y)
  <2> SUFFICES ASSUME NEW i \in DOMAIN Append(r, m), NEW n \in 1 .. Append(r, m)[i] - 1
               PROVE  n \in Y \/ Ends(s, l, n) \/ \E j \in 1 .. i - 1 : n <= Append(r, m)[j]
    BY DEF Follows
  <2>1. CASE i \in DOMAIN r
    <3>1. n \in X \/ Ends(s, l, n) \/ \E j \in 1 .. i - 1 : n <= r[j]
      BY <1>1, <2>1 DEF Fit, Follows
    <3>2. \A j \in 1 .. i - 1 : j \in DOMAIN r
      BY <1>1, <2>1
    <3> QED BY <1>1, <3>1, <3>2
  <2>2. CASE i = Len(r) + 1
    <3>1. n \in Y \cup R
      BY <1>1, <2>2
    <3>2. n \in R => n \in X \/ Ends(s, l, n) \/ \E j \in DOMAIN r : n <= r[j]
      BY DEF Fit, Reaches
    <3>3. DOMAIN r = 1 .. i - 1
      BY <1>1, <2>2
    <3> QED BY <1>1, <3>1, <3>2, <3>3
  <2> QED BY <1>1, <2>1, <2>2
<1>4. Reaches(s, l, Append(r, m), Y, S)
  <2> SUFFICES ASSUME NEW n \in S
               PROVE  n \in Y \/ Ends(s, l, n) \/ \E j \in DOMAIN Append(r, m) : n <= Append(r, m)[j]
    BY DEF Reaches
  <2>1. CASE n = m
    BY <1>1, <2>1
  <2>2. CASE n \in R
    <3>1. n \in X \/ Ends(s, l, n) \/ \E j \in DOMAIN r : n <= r[j]
      BY <2>2 DEF Fit, Reaches
    <3> QED BY <1>1, <3>1
  <2> QED BY <2>1, <2>2
<1> QED
  BY <1>2, <1>3, <1>4 DEF Fit

\* A page that applies a frame of s has the rest of s in front of it.
LEMMA FitShrinks ==
    ASSUME NEW s \in Seq(Frame), s # <<>>, NEW l \in Nat, NEW X
    PROVE  /\ Clean(s, l, X) => Clean(Tail(s), After(s[1], l), X)
           /\ Settles(s, l, X) => Settles(Tail(s), After(s[1], l), X)
           /\ \A n \in Nat : Ends(s, l, n) => Ends(Tail(s), After(s[1], l), n)
<1>1. Len(s) \in Nat \ {0} /\ DOMAIN s = 1 .. Len(s) /\ DOMAIN Tail(s) = 1 .. Len(s) - 1
      /\ Len(Tail(s)) = Len(s) - 1 /\ s[1] \in Frame /\ Tail(s) \in Seq(Frame)
      /\ \A k \in DOMAIN Tail(s) : Tail(s)[k] = s[k + 1] /\ k + 1 \in DOMAIN s
  OBVIOUS
<1>2. \A n \in Nat : Ends(s, l, n) => Ends(Tail(s), After(s[1], l), n)
  BY <1>1, PassedOn DEF Ends
<1>3. ASSUME Clean(s, l, X)
      PROVE  Clean(Tail(s), After(s[1], l), X)
  <2> SUFFICES ASSUME NEW i \in DOMAIN Tail(s), Tail(s)[i].kind = "out",
                      NEW n \in 1 .. Tail(s)[i].seq - 1
               PROVE  n \in X \/ Passed(Tail(s), i, After(s[1], l), n)
    BY DEF Clean
  <2>1. i + 1 \in DOMAIN s /\ s[i + 1] = Tail(s)[i] /\ n \in Nat /\ i \in 1 .. Len(s)
    BY <1>1 DEF Frame
  <2>2. n \in X \/ Passed(s, i + 1, l, n)
    BY <1>3, <2>1 DEF Clean
  <2> QED BY <2>1, <2>2, PassedOn
<1>4. ASSUME Settles(s, l, X)
      PROVE  Settles(Tail(s), After(s[1], l), X)
  <2> SUFFICES ASSUME NEW n \in Nat \ {0}, Mentions(Tail(s), After(s[1], l), n)
               PROVE  n \in X \/ Ends(Tail(s), After(s[1], l), n)
    BY DEF Settles
  <2>1. Mentions(s, l, n)
    BY <1>1 DEF Mentions, After
  <2> QED BY <1>2, <1>4, <2>1 DEF Settles
<1> QED
  BY <1>2, <1>3, <1>4

----------------------------------------------------------------------------
(* Lemmas about what the relay sends for a sync.                           *)

LEMMA LeastNumber ==
    ASSUME NEW T \in SUBSET Nat, T # {}
    PROVE  \E m \in T : \A n \in T : m <= n
<1> DEFINE R == {ss \in Nat \X Nat : ss[1] < ss[2]}
<1>1. IsWellFoundedOn(R, Nat)
  BY NatLessThanWellFounded DEF OpToRel
<1> HIDE DEF R
<1>2. PICK m \in T : \A n \in T : ~ (<<n, m>> \in R)
  BY <1>1, WFMin
<1>3. \A n \in T : ~ (n < m)
  BY <1>2 DEF R
<1> QED
  BY <1>2, <1>3

\* The members of a set of indices in their order: o, of length m.
Enumerates(o, m, D) ==
    /\ o \in [1 .. m -> D]
    /\ \A i \in D : \E k \in 1 .. m : o[k] = i
    /\ \A j, k \in 1 .. m : j < k => o[j] < o[k]

\* Whatever is left out of 1 .. n, the rest has an order.  (By the least number
\* for which it had none.)
LEMMA RestInOrder ==
    ASSUME NEW D \in SUBSET Nat, NEW n \in Nat
    PROVE  \E m \in 0 .. n : \E o : Enumerates(o, m, D \cap (1 .. n))
<1> DEFINE Good(h) == \E m \in 0 .. h : \E o : Enumerates(o, m, D \cap (1 .. h))
           Bad == {h \in Nat : ~Good(h)}
<1>1. Good(0)
  <2> DEFINE o == [k \in 1 .. 0 |-> 0]
  <2>1. D \cap (1 .. 0) = {} /\ 1 .. 0 = {} /\ o \in [1 .. 0 -> {}]
    OBVIOUS
  <2>2. Enumerates(o, 0, D \cap (1 .. 0))
    BY <2>1 DEF Enumerates
  <2> QED BY <2>2
<1>2. ASSUME NEW h \in Nat, Good(h)
      PROVE  Good(h + 1)
  <2>0. PICK m \in 0 .. h : \E o : Enumerates(o, m, D \cap (1 .. h))
    BY <1>2
  <2>1. PICK o : Enumerates(o, m, D \cap (1 .. h))
    BY <2>0
  <2>2. CASE h + 1 \notin D
    <3>1. D \cap (1 .. h + 1) = D \cap (1 .. h) /\ m \in 0 .. h + 1
      BY <2>2
    <3> QED BY <2>1, <3>1
  <2>3. CASE h + 1 \in D
    <3> DEFINE p == [k \in 1 .. m + 1 |-> IF k <= m THEN o[k] ELSE h + 1]
               E == D \cap (1 .. h + 1)
    <3>1. \A i \in E : i \in D \cap (1 .. h) \/ i = h + 1
      OBVIOUS
    <3>2. h + 1 \in E /\ D \cap (1 .. h) \subseteq E /\ m + 1 \in 0 .. h + 1
      BY <2>3
    <3>3. \A k \in 1 .. m : o[k] \in D \cap (1 .. h)
      BY <2>1 DEF Enumerates
    <3>4. p \in [1 .. m + 1 -> E]
      BY <3>2, <3>3
    <3>5. \A i \in E : \E k \in 1 .. m + 1 : p[k] = i
      <4> SUFFICES ASSUME NEW i \in E
                   PROVE  \E k \in 1 .. m + 1 : p[k] = i
        OBVIOUS
      <4>1. CASE i = h + 1
        <5>1. m + 1 \in 1 .. m + 1 /\ p[m + 1] = h + 1
          OBVIOUS
        <5> QED BY <4>1, <5>1
      <4>2. CASE i \in D \cap (1 .. h)
        <5>1. PICK k \in 1 .. m : o[k] = i
          BY <2>1, <4>2 DEF Enumerates
        <5>2. k \in 1 .. m + 1 /\ p[k] = i
          BY <5>1
        <5> QED BY <5>2
      <4> QED BY <3>1, <4>1, <4>2
    <3>6. \A j, k \in 1 .. m + 1 : j < k => p[j] < p[k]
      <4> SUFFICES ASSUME NEW j \in 1 .. m + 1, NEW k \in 1 .. m + 1, j < k
                   PROVE  p[j] < p[k]
        OBVIOUS
      <4>1. j \in 1 .. m /\ p[j] = o[j] /\ o[j] \in 1 .. h
        BY <3>3
      <4>2. CASE k \in 1 .. m
        BY <2>1, <4>1, <4>2 DEF Enumerates
      <4>3. CASE k = m + 1
        BY <4>1, <4>3
      <4> QED BY <4>2, <4>3
    <3>7. Enumerates(p, m + 1, E)
      <4> HIDE DEF p, E
      <4> QED BY <3>4, <3>5, <3>6 DEF Enumerates
    <3> QED BY <3>2, <3>7
  <2> QED BY <2>2, <2>3
<1> HIDE DEF Good
<1>3. ASSUME Bad # {}
      PROVE  FALSE
  <2>1. PICK h \in Bad : \A k \in Bad : h <= k
    BY <1>3, LeastNumber
  <2>2. h # 0 /\ h \in Nat
    BY <1>1, <2>1
  <2>3. h - 1 \in Nat /\ (h - 1) + 1 = h /\ h - 1 \notin Bad
    BY <2>1, <2>2
  <2>4. Good(h - 1)
    BY <2>3
  <2>5. Good(h)
    BY <2>3, <2>4, <1>2
  <2> QED BY <2>1, <2>5
<1>4. Good(n)
  BY <1>3
<1> QED
  BY <1>4 DEF Good

\* RingAfter(n) is the ring without the frames numbered up to n.
LEMMA RingAfterPicks ==
    ASSUME RingOK, NEW n \in Nat
    PROVE  \E o : /\ o \in Seq(DOMAIN ring) /\ Len(o) <= Len(ring)
                  /\ RingAfter(n) \in Seq(Frame) /\ Len(RingAfter(n)) = Len(o)
                  /\ \A k \in DOMAIN o : RingAfter(n)[k] = ring[o[k]] /\ ring[o[k]].seq > n
                  /\ \A i \in DOMAIN ring : ring[i].seq > n => \E k \in DOMAIN o : o[k] = i
                  /\ \A j, k \in DOMAIN o : j < k => o[j] < o[k]
<1> DEFINE later == {i \in DOMAIN ring : ring[i].seq > n}
           Right(o) == /\ \A i \in later : \E k \in DOMAIN o : o[k] = i
                       /\ \A j, k \in DOMAIN o : j < k => o[j] < o[k]
           All == UNION {[1 .. m -> later] : m \in 0 .. Len(ring)}
           order == CHOOSE o \in All : Right(o)
<1>1. ring \in Seq(Frame) /\ DOMAIN ring = 1 .. Len(ring) /\ Len(ring) \in Nat
  BY DEF RingOK
<1>2. later \cap (1 .. Len(ring)) = later /\ later \in SUBSET Nat
  BY <1>1
<1>0. PICK m \in 0 .. Len(ring) : \E o : Enumerates(o, m, later)
  <2> HIDE DEF later
  <2> QED BY <1>1, <1>2, RestInOrder
<1>3. PICK o : Enumerates(o, m, later)
  BY <1>0
<1>4. o \in All /\ Right(o)
  <2> HIDE DEF later
  <2>1. o \in [1 .. m -> later] /\ DOMAIN o = 1 .. m
    BY <1>3 DEF Enumerates
  <2> QED BY <1>3, <2>1 DEF Enumerates
<1>5. order \in All /\ Right(order)
  <2> HIDE DEF All, Right
  <2> QED BY <1>4
<1>6. RingAfter(n) = [k \in DOMAIN order |-> ring[order[k]]]
  BY DEF RingAfter
<1> HIDE DEF order
<1>7. PICK h \in 0 .. Len(ring) : order \in [1 .. h -> later]
  BY <1>5
<1> HIDE DEF All
<1>8. \A k \in 1 .. h : order[k] \in DOMAIN ring /\ ring[order[k]].seq > n
  BY <1>7
<1>9. /\ order \in Seq(DOMAIN ring) /\ Len(order) = h /\ DOMAIN order = 1 .. h
  <2> HIDE DEF later
  <2>1. h \in Nat /\ DOMAIN order = 1 .. h /\ order = [k \in 1 .. h |-> order[k]]
    BY <1>1, <1>7
  <2>2. order \in [1 .. h -> DOMAIN ring]
    BY <1>8, <2>1
  <2> QED BY <2>1, <2>2
<1>10. RingAfter(n) \in Seq(Frame) /\ Len(RingAfter(n)) = h
       /\ \A k \in 1 .. h : RingAfter(n)[k] = ring[order[k]]
  <2>1. \A k \in 1 .. h : ring[order[k]] \in Frame
    BY <1>1, <1>8
  <2>2. h \in Nat /\ RingAfter(n) = [k \in 1 .. h |-> ring[order[k]]]
    BY <1>1, <1>6, <1>9
  <2>3. RingAfter(n) \in [1 .. h -> Frame]
    BY <2>1, <2>2
  <2> QED BY <2>2, <2>3
<1>11. \A i \in DOMAIN ring : ring[i].seq > n => \E k \in DOMAIN order : order[k] = i
  BY <1>5
<1>12. \A j, k \in DOMAIN order : j < k => order[j] < order[k]
  BY <1>5
<1>13. h <= Len(ring)
  BY <1>1, <1>7
<1> HIDE DEF later, Right
<1> QED
  BY <1>8, <1>9, <1>10, <1>11, <1>12, <1>13

----------------------------------------------------------------------------
(* Lemmas about the way to a page.                                         *)

\* What an empty queue and a single item come to.
LEMMA FewItems ==
    ASSUME NEW q, Len(q) = 0 \/ Len(q) = 1
    PROVE  Rest(q) = <<>>
<1> DEFINE m == Len(q)
<1>1. 1 .. m - 1 = {}
  <2>1. m = 0 \/ m = 1
    OBVIOUS
  <2> HIDE DEF m
  <2> QED BY <2>1
<1> QED
  BY <1>1 DEF Rest

\* The numbers of the frames behind the first item.
LEMMA RestNumbers ==
    ASSUME NEW P \in SUBSET Frame, NEW q, QueueOK(q, P), q # <<>>
    PROVE  /\ Len(q) \in Nat \ {0} /\ DOMAIN q = 1 .. Len(q)
           /\ Rest(q) \in Seq(Nat) /\ Len(Rest(q)) = Len(q) - 1
           /\ \A k \in 1 .. Len(q) - 1 : /\ Rest(q)[k] = q[k + 1][1].seq
                                         /\ q[k + 1] = <<q[k + 1][1]>>
                                         /\ q[k + 1][1] \in P /\ Single(q[k + 1][1])
<1>1. Len(q) \in Nat \ {0} /\ DOMAIN q = 1 .. Len(q)
  BY DEF QueueOK
<1>2. ASSUME NEW k \in 1 .. Len(q) - 1
      PROVE  /\ q[k + 1] = <<q[k + 1][1]>> /\ q[k + 1][1] \in P /\ Single(q[k + 1][1])
             /\ q[k + 1][1].seq \in Nat
  <2>1. k + 1 \in DOMAIN q /\ k + 1 > 1
    BY <1>1
  <2>2. q[k + 1] \in Seq(P) /\ Len(q[k + 1]) = 1 /\ q[k + 1][1].kind = "out"
    BY <2>1 DEF QueueOK, Singles
  <2>3. q[k + 1] = <<q[k + 1][1]>> /\ q[k + 1][1] \in P
    BY <2>2
  <2>4. q[k + 1][1].seq \in Nat
    BY <2>3 DEF Frame
  <2> QED BY <2>2, <2>3, <2>4 DEF Single
<1>3. Rest(q) = [k \in 1 .. Len(q) - 1 |-> q[k + 1][1].seq]
  BY DEF Rest
<1>4. Rest(q) \in [1 .. Len(q) - 1 -> Nat]
  BY <1>2, <1>3
<1>5. Rest(q) \in Seq(Nat) /\ Len(Rest(q)) = Len(q) - 1
  <2>1. Len(q) - 1 \in Nat
    BY <1>1
  <2> QED BY <1>4, <2>1, SeqMade
<1>6. \A k \in 1 .. Len(q) - 1 : Rest(q)[k] = q[k + 1][1].seq
  BY <1>3
<1> QED
  BY <1>1, <1>2, <1>5, <1>6

RestGood(q) ==
    /\ Rest(q) \in Seq(Nat) /\ Len(Rest(q)) = Len(q) - 1
    /\ \A k \in 1 .. Len(q) - 1 : Rest(q)[k] = q[k + 1][1].seq

LEMMA RestIsGood ==
    ASSUME NEW P \in SUBSET Frame, NEW q, QueueOK(q, P), q # <<>>
    PROVE  RestGood(q)
BY RestNumbers DEF RestGood

\* A queue that gave up its first item.
LEMMA QueueTail ==
    ASSUME NEW P \in SUBSET Frame, NEW q, QueueOK(q, P), q # <<>>
    PROVE  /\ QueueOK(Tail(q), P) /\ (Tail(q) # <<>> => Tail(q)[1] \in Seq(P))
           /\ Len(q) > 1 => /\ First(Tail(q)) = <<q[2][1]>>
                            /\ Rest(Tail(q)) = Tail(Rest(q))
           /\ Len(q) = 1 => Tail(q) = <<>>
<1>1. /\ q \in Seq(Seq(Frame) \cup {RESYNC})
      /\ Len(q) \in Nat \ {0} /\ DOMAIN q = 1 .. Len(q)
  BY DEF QueueOK
<1>2. /\ Tail(q) \in Seq(Seq(Frame) \cup {RESYNC}) /\ Len(Tail(q)) = Len(q) - 1
      /\ DOMAIN Tail(q) = 1 .. Len(q) - 1
      /\ \A k \in 1 .. Len(q) - 1 : Tail(q)[k] = q[k + 1]
      /\ Len(q) = 1 => Tail(q) = <<>>
  BY <1>1, SeqParts
<1>3. \A k \in 1 .. Len(q) - 1 :
          q[k + 1] \in Seq(P) /\ Len(q[k + 1]) = 1 /\ q[k + 1][1].kind = "out"
  <2>1. \A k \in 1 .. Len(q) - 1 : k + 1 \in DOMAIN q /\ k + 1 > 1
    BY <1>1
  <2> QED BY <2>1 DEF QueueOK, Singles
<1>4. Singles(Tail(q), P)
  BY <1>1, <1>2, <1>3 DEF Singles
<1>5. ASSUME Tail(q) # <<>>
      PROVE  Tail(q)[1] \in Seq(P)
  <2>1. Len(Tail(q)) # 0
    BY <1>2, <1>5, SeqParts
  <2>2. 1 \in 1 .. Len(q) - 1
    BY <1>1, <1>2, <2>1
  <2> QED BY <1>2, <1>3, <2>2
<1>6. QueueOK(Tail(q), P)
  BY <1>2, <1>4, <1>5 DEF QueueOK
<1>7. ASSUME Len(q) > 1
      PROVE  First(Tail(q)) = <<q[2][1]>> /\ Rest(Tail(q)) = Tail(Rest(q))
  <2>1. 1 \in 1 .. Len(q) - 1 /\ 1 + 1 = 2
    BY <1>1, <1>7
  <2>2. Tail(q) # <<>> /\ Tail(q)[1] = q[2] /\ q[2] = <<q[2][1]>>
    <3>1. Tail(q)[1] = q[1 + 1] /\ q[1 + 1] = <<q[1 + 1][1]>>
      BY <1>2, <2>1, RestNumbers
    <3>2. Len(Tail(q)) # 0 /\ Len(<<>>) = 0
      BY <1>1, <1>2, <1>7
    <3> QED BY <2>1, <3>1, <3>2
  <2>3. Rest(q) \in Seq(Nat) /\ Len(Rest(q)) = Len(q) - 1
        /\ \A k \in 1 .. Len(q) - 1 : Rest(q)[k] = q[k + 1][1].seq
    BY RestNumbers
  <2>4. Rest(Tail(q)) \in Seq(Nat) /\ Len(Rest(Tail(q))) = Len(Tail(q)) - 1
        /\ \A k \in 1 .. Len(Tail(q)) - 1 : Rest(Tail(q))[k] = Tail(q)[k + 1][1].seq
    BY <1>6, <2>2, RestNumbers
  <2>5. \A k \in 1 .. Len(Tail(q)) - 1 : Rest(Tail(q))[k] = Rest(q)[k + 1]
    <3> SUFFICES ASSUME NEW k \in 1 .. Len(Tail(q)) - 1
                 PROVE  Rest(Tail(q))[k] = Rest(q)[k + 1]
      OBVIOUS
    <3>1. k + 1 \in 1 .. Len(q) - 1
      BY <1>1, <1>2
    <3>2. Tail(q)[k + 1] = q[(k + 1) + 1]
      BY <1>2, <3>1
    <3>3. Rest(q)[k + 1] = q[(k + 1) + 1][1].seq
      BY <2>3, <3>1
    <3> QED BY <2>4, <3>2, <3>3
  <2>6. Rest(Tail(q)) = Tail(Rest(q))
    <3>1. /\ Tail(Rest(q)) \in Seq(Nat) /\ Len(Tail(Rest(q))) = Len(Rest(q)) - 1
          /\ \A k \in 1 .. Len(Rest(q)) - 1 : Tail(Rest(q))[k] = Rest(q)[k + 1]
      <4> DEFINE n == Len(q)
                 m == Len(Rest(q))
      <4>0. n \in Nat /\ n > 1 /\ m = n - 1
        BY <1>1, <1>7, <2>3
      <4>1. Len(Rest(q)) # 0
        <5>1. m # 0
          <6> HIDE DEF n, m
          <6> QED BY <4>0
        <5> QED BY <5>1
      <4>2. Rest(q) # <<>>
        BY <4>1, NotEmpty
      <4> QED BY <2>3, <4>2, SeqParts
    <3>2. Len(Rest(Tail(q))) = Len(Tail(Rest(q)))
      BY <1>1, <1>2, <2>3, <2>4, <3>1
    <3>3. \A k \in 1 .. Len(Rest(Tail(q))) : Rest(Tail(q))[k] = Tail(Rest(q))[k]
      BY <1>1, <1>2, <2>3, <2>4, <2>5, <3>1
    <3> QED BY <2>4, <3>1, <3>2, <3>3, SeqEqual
  <2> QED BY <2>2, <2>6 DEF First
<1>8. Len(q) = 1 => Tail(q) = <<>>
  BY <1>2
<1> QED
  BY <1>5, <1>6, <1>7, <1>8

\* Once its first item has gone down the chain, the next is in its place.
LEMMA FitAdvances ==
    ASSUME NEW P \in SUBSET Frame, NEW q, QueueOK(q, P), q # <<>>,
           NEW c \in Seq(Frame), NEW l \in Nat, NEW X, NEW R \in SUBSET Nat,
           Fit(c, l, Rest(q), X, R)
    PROVE  Fit(c \o First(Tail(q)), l, Rest(Tail(q)), X, R)
<1>1. Len(q) \in Nat \ {0} /\ Rest(q) \in Seq(Nat) /\ Len(Rest(q)) = Len(q) - 1
  BY RestNumbers
<1>2. CASE Len(q) = 1
  <2>1. Tail(q) = <<>> /\ Len(<<>>) = 0
    BY <1>2, QueueTail
  <2>2. Rest(Tail(q)) = <<>> /\ Rest(q) = <<>> /\ First(Tail(q)) = <<>>
    BY <1>2, <2>1, FewItems DEF First
  <2>3. c \o <<>> = c
    OBVIOUS
  <2> QED BY <2>2, <2>3
<1>3. CASE Len(q) > 1
  <2> DEFINE f == q[2][1]
  <2>1. Single(f) /\ f.seq = Rest(q)[1] /\ Rest(q) # <<>>
    <3>1. 1 \in 1 .. Len(q) - 1 /\ 1 + 1 = 2
      BY <1>1, <1>3
    <3>2. Rest(q)[1] = q[1 + 1][1].seq
      <4>1. RestGood(q)
        BY RestIsGood
      <4> QED BY <3>1, <4>1 DEF RestGood
    <3>3. Single(q[1 + 1][1])
      BY <3>1, RestNumbers
    <3> QED BY <1>1, <1>3, <3>1, <3>2, <3>3
  <2>2. First(Tail(q)) = <<f>> /\ Rest(Tail(q)) = Tail(Rest(q))
    BY <1>3, QueueTail
  <2> HIDE DEF f
  <2>3. Fit(c \o <<f>>, l, Tail(Rest(q)), X, R)
    BY <1>1, <2>1, FitMovesOn
  <2> QED BY <2>2, <2>3
<1> QED BY <1>1, <1>2, <1>3

\* More is passable and more is lost.
LEMMA QueueKeeps ==
    ASSUME NEW P \in SUBSET Frame, NEW Q \in SUBSET Frame, P \subseteq Q, NEW q, QueueOK(q, P)
    PROVE  QueueOK(q, Q)
<1>1. \A s : s \in Seq(P) => s \in Seq(Q)
  BY SeqWider
<1> QED
  BY <1>1 DEF QueueOK, Singles

LEMMA PathKeeps ==
    ASSUME NEW P \in SUBSET Frame, NEW Q \in SUBSET Frame, P \subseteq Q,
           NEW X, NEW Y, X \subseteq Y, NEW o, NEW a, NEW q, NEW c, NEW l \in Nat, NEW R,
           Path(o, a, q, c, l, P, X, R)
    PROVE  Path(o, a, q, c, l, Q, Y, R)
<1>1. QueueOK(q, Q) /\ c \in Seq(Q)
  BY QueueKeeps DEF Path
<1>2. Clean(c, l, Y) /\ Settles(c, l, Y)
  BY DEF Path, Clean, Settles
<1>3. o = "hello" => \A n \in 1 .. a : n \in Y \/ Ends(c, l, n)
  BY DEF Path
<1>4. o = "on" /\ ~Resyncs(q) => Fit(c \o First(q), l, Rest(q), Y, R)
  BY DEF Path, Fit, Clean, Settles, Follows, Reaches
<1> QED
  BY <1>1, <1>2, <1>3, <1>4 DEF Path

\* A frame is recorded, and fanned out to a viewer with room in its queue.
LEMMA PathTakes ==
    ASSUME Marks, NEW P \in SUBSET Frame, NEW f \in P, f.kind = "out",
           NEW X, NEW Y, X \subseteq Y, NEW a, NEW q, NEW c, NEW l \in Nat,
           NEW R \in SUBSET Nat, NEW S \in SUBSET Nat, S \subseteq R \cup {f.seq},
           \A n \in 1 .. f.seq - 1 : n \in Y \cup R,
           Path("on", a, q, c, l, P, X, R)
    PROVE  Path("on", a, Append(q, <<f>>), c, l, P, Y, S)
<1> DEFINE b == Append(q, <<f>>)
<1>1. f \in Frame /\ f.seq \in Nat /\ Single(f) /\ <<f>> \in Seq(P) /\ <<f>> \in Seq(Frame)
  BY DEF Frame, Single
<1>2. /\ q \in Seq(Seq(Frame) \cup {RESYNC}) /\ Singles(q, P)
      /\ q # <<>> => q[1] = RESYNC \/ q[1] \in Seq(P)
  BY DEF Path, QueueOK
<1>3. /\ b \in Seq(Seq(Frame) \cup {RESYNC}) /\ Len(b) = Len(q) + 1 /\ Len(q) \in Nat
      /\ b[Len(q) + 1] = <<f>> /\ \A k \in 1 .. Len(q) : b[k] = q[k]
      /\ DOMAIN b = 1 .. Len(q) + 1 /\ DOMAIN q = 1 .. Len(q) /\ b # <<>>
  <2>1. <<f>> \in Seq(Frame) \cup {RESYNC}
    BY <1>1
  <2> QED BY <1>2, <2>1, SeqLonger
<1> HIDE DEF b
<1>4. QueueOK(b, P)
  <2>1. Singles(b, P)
    <3> SUFFICES ASSUME NEW k \in DOMAIN b, k > 1
                 PROVE  b[k] \in Seq(P) /\ Len(b[k]) = 1 /\ b[k][1].kind = "out"
      BY DEF Singles
    <3>1. CASE k \in DOMAIN q
      BY <1>2, <1>3, <3>1 DEF Singles
    <3>2. CASE k = Len(q) + 1
      <4>1. b[k] = <<f>> /\ Len(<<f>>) = 1 /\ <<f>>[1] = f
        BY <1>3, <3>2
      <4> QED BY <1>1, <4>1
    <3> QED BY <1>3, <3>1, <3>2
  <2>2. b[1] = RESYNC \/ b[1] \in Seq(P)
    BY <1>1, <1>2, <1>3
  <2> QED BY <1>3, <2>1, <2>2 DEF QueueOK
<1>5. ASSUME ~Resyncs(b)
      PROVE  Fit(c \o First(b), l, Rest(b), Y, S)
  <2>1. ~Resyncs(q) /\ c \in Seq(Frame)
    BY <1>2, <1>3, <1>5 DEF Resyncs, Path
  <2>2. Fit(c \o First(q), l, Rest(q), X, R)
    BY <2>1 DEF Path
  <2>3. CASE q = <<>>
    <3>1. First(q) = <<>> /\ c \o <<>> = c /\ Rest(q) = <<>>
      BY <2>1, <2>3, FewItems DEF First
    <3>2. Fit(c, l, <<>>, X, R) /\ <<>> \in Seq(Nat) /\ Append(<<>>, f.seq) = <<f.seq>>
      BY <2>2, <3>1
    <3>3. Fit(c, l, <<f.seq>>, Y, S)
      <4>1. Fit(c, l, Append(<<>>, f.seq), Y, S)
        BY <1>1, <2>1, <3>2, FitGrows
      <4> QED BY <3>2, <4>1
    <3>4. <<f.seq>> \in Seq(Nat) /\ <<f.seq>> # <<>> /\ <<f.seq>>[1] = f.seq
          /\ Tail(<<f.seq>>) = <<>>
      BY <1>1
    <3>5. Fit(c \o <<f>>, l, <<>>, Y, S)
      BY <1>1, <2>1, <3>3, <3>4, FitMovesOn
    <3>6. First(b) = <<f>> /\ Rest(b) = <<>>
      <4>1. Len(b) = 1 /\ b[1] = <<f>>
        BY <1>3, <2>3
      <4> QED BY <1>3, <4>1, FewItems DEF First
    <3> QED BY <3>5, <3>6
  <2>4. CASE q # <<>>
    <3>1. First(b) = First(q) /\ First(q) \in Seq(P)
      BY <1>2, <1>3, <2>1, <2>4 DEF First, Resyncs
    <3>2. /\ Rest(q) \in Seq(Nat) /\ Len(Rest(q)) = Len(q) - 1
          /\ \A k \in 1 .. Len(q) - 1 : Rest(q)[k] = q[k + 1][1].seq
      <4>1. RestGood(q)
        BY <2>4, RestIsGood DEF Path
      <4> QED BY <4>1 DEF RestGood
    <3>3. /\ Rest(b) \in Seq(Nat) /\ Len(Rest(b)) = Len(b) - 1
          /\ \A k \in 1 .. Len(b) - 1 : Rest(b)[k] = b[k + 1][1].seq
      <4>1. RestGood(b)
        BY <1>3, <1>4, RestIsGood
      <4> QED BY <4>1 DEF RestGood
    <3>4. Len(q) > 0
      BY <1>2, <2>4
    <3>5. \A k \in 1 .. Len(q) - 1 : Rest(b)[k] = Rest(q)[k]
      <4> SUFFICES ASSUME NEW k \in 1 .. Len(q) - 1
                   PROVE  Rest(b)[k] = Rest(q)[k]
        OBVIOUS
      <4>1. k + 1 \in 1 .. Len(q) /\ k \in 1 .. Len(b) - 1
        BY <1>3
      <4> QED BY <1>3, <3>2, <3>3, <4>1
    <3>6. Rest(b)[Len(q)] = f.seq
      <4>1. Len(q) \in 1 .. Len(b) - 1
        BY <1>3, <3>4
      <4>2. <<f>>[1] = f
        OBVIOUS
      <4> QED BY <1>3, <3>3, <4>1, <4>2
    <3>7. Rest(b) = Append(Rest(q), f.seq)
      <4>1. /\ Append(Rest(q), f.seq) \in Seq(Nat) /\ Len(Append(Rest(q), f.seq)) = Len(q)
            /\ Append(Rest(q), f.seq)[Len(q)] = f.seq
            /\ \A k \in 1 .. Len(q) - 1 : Append(Rest(q), f.seq)[k] = Rest(q)[k]
        <5>1. /\ Append(Rest(q), f.seq) \in Seq(Nat)
              /\ Len(Append(Rest(q), f.seq)) = Len(Rest(q)) + 1
              /\ Append(Rest(q), f.seq)[Len(Rest(q)) + 1] = f.seq
              /\ \A k \in 1 .. Len(Rest(q)) : Append(Rest(q), f.seq)[k] = Rest(q)[k]
          BY <1>1, <3>2, SeqLonger
        <5>2. Len(Rest(q)) + 1 = Len(q)
          BY <1>3, <3>2, <3>4
        <5> QED BY <3>2, <5>1, <5>2
      <4>2. Len(Rest(b)) = Len(q)
        BY <1>3, <3>3
      <4>3. \A k \in 1 .. Len(q) : Rest(b)[k] = Append(Rest(q), f.seq)[k]
        BY <1>3, <3>5, <3>6, <4>1
      <4> QED BY <3>3, <4>1, <4>2, <4>3, SeqEqual
    <3>8. c \o First(q) \in Seq(Frame)
      <4>1. First(q) \in Seq(Frame)
        BY <3>1
      <4> QED BY <2>1, <4>1
    <3>9. Fit(c \o First(q), l, Append(Rest(q), f.seq), Y, S)
      BY <1>1, <2>2, <3>2, <3>8, FitGrows
    <3> QED BY <3>1, <3>7, <3>9
  <2> QED BY <2>3, <2>4
<1>6. Clean(c, l, Y) /\ Settles(c, l, Y) /\ c \in Seq(P) /\ a \in Nat
  BY DEF Path, Clean, Settles
<1>7. Path("on", a, b, c, l, P, Y, S)
  BY <1>4, <1>5, <1>6 DEF Path
<1> QED
  BY <1>7 DEF b

\* The first item, or what it turns into, goes down the chain.
LEMMA PathSends ==
    ASSUME Marks, NEW P \in SUBSET Frame, NEW X, NEW R \in SUBSET Nat,
           NEW a, NEW q, NEW c, NEW l \in Nat, NEW p \in Seq(P),
           Path("on", a, q, c, l, P, X, R), q # <<>>, Fit(c \o p, l, Rest(q), X, R)
    PROVE  Path("on", a, Tail(q), c \o p, l, P, X, R)
<1>1. QueueOK(q, P) /\ c \in Seq(P) /\ a \in Nat
  BY DEF Path
<1>2. QueueOK(Tail(q), P)
  BY <1>1, QueueTail
<1>3. c \o p \in Seq(P) /\ c \o p \in Seq(Frame)
  <2>1. c \o p \in Seq(P)
    BY <1>1
  <2> QED BY <2>1, SeqWider
<1>4. Fit((c \o p) \o First(Tail(q)), l, Rest(Tail(q)), X, R)
  BY <1>1, <1>3, FitAdvances
<1>5. Clean(c \o p, l, X) /\ Settles(c \o p, l, X)
  BY DEF Fit
<1> QED
  BY <1>1, <1>2, <1>3, <1>4, <1>5 DEF Path

\* The page applies a frame.
LEMMA PathApplies ==
    ASSUME Marks, NEW P \in SUBSET Frame, NEW X, NEW R \in SUBSET Nat,
           NEW o, NEW a, NEW q, NEW c, NEW l \in Nat,
           Path(o, a, q, c, l, P, X, R), c # <<>>
    PROVE  Path(o, a, q, Tail(c), After(c[1], l), P, X, R)
<1>1. c \in Seq(P) /\ c \in Seq(Frame) /\ QueueOK(q, P) /\ a \in Nat
  BY SeqWider DEF Path
<1>2. Tail(c) \in Seq(P)
  BY <1>1, SeqParts
<1>3. Clean(Tail(c), After(c[1], l), X) /\ Settles(Tail(c), After(c[1], l), X)
  BY <1>1, FitShrinks DEF Path
<1>4. ASSUME o = "hello", NEW n \in 1 .. a
      PROVE  n \in X \/ Ends(Tail(c), After(c[1], l), n)
  <2>1. n \in Nat
    BY <1>1
  <2>2. n \in X \/ Ends(c, l, n)
    BY <1>4 DEF Path
  <2> QED BY <1>1, <2>1, <2>2, FitShrinks
<1>5. ASSUME o = "on", ~Resyncs(q)
      PROVE  Fit(Tail(c) \o First(q), After(c[1], l), Rest(q), X, R)
  <2> DEFINE s == c \o First(q)
  <2>1. First(q) \in Seq(Frame)
    <3>1. <<>> \in Seq(Frame)
      OBVIOUS
    <3>2. q # <<>> => q[1] \in Seq(P)
      BY <1>1, <1>5 DEF QueueOK, Resyncs
    <3> QED BY <3>1, <3>2, SeqWider DEF First
  <2>2. s \in Seq(Frame) /\ s # <<>> /\ s[1] = c[1] /\ Tail(s) = Tail(c) \o First(q)
    BY <1>1, <2>1
  <2>3. Clean(s, l, X) /\ Settles(s, l, X) /\ Follows(s, l, Rest(q), X)
        /\ Reaches(s, l, Rest(q), X, R)
    BY <1>5 DEF Path, Fit
  <2> HIDE DEF s
  <2>4. /\ Clean(Tail(s), After(s[1], l), X) /\ Settles(Tail(s), After(s[1], l), X)
        /\ \A n \in Nat : Ends(s, l, n) => Ends(Tail(s), After(s[1], l), n)
    BY <2>2, <2>3, FitShrinks
  <2>5. Follows(Tail(s), After(s[1], l), Rest(q), X)
    <3> SUFFICES ASSUME NEW i \in DOMAIN Rest(q), NEW n \in 1 .. Rest(q)[i] - 1
                 PROVE  \/ n \in X \/ Ends(Tail(s), After(s[1], l), n)
                        \/ \E j \in 1 .. i - 1 : n <= Rest(q)[j]
      BY DEF Follows
    <3>1. n \in X \/ Ends(s, l, n) \/ \E j \in 1 .. i - 1 : n <= Rest(q)[j]
      BY <2>3 DEF Follows
    <3>2. n \in Nat
      <4>1. Rest(q)[i] \in Nat
        <5>1. CASE q = <<>>
          <6>1. Len(q) = 0
            BY <5>1
          <6>2. Rest(q) = <<>>
            BY <6>1, FewItems
          <6> QED BY <6>2
        <5>2. CASE q # <<>>
          <6>1. Rest(q) \in Seq(Nat)
            BY <1>1, <5>2, RestNumbers
          <6> QED BY <6>1
        <5> QED BY <5>1, <5>2
      <4> QED BY <4>1
    <3> QED BY <2>4, <3>1, <3>2
  <2>6. Reaches(Tail(s), After(s[1], l), Rest(q), X, R)
    BY <2>3, <2>4 DEF Reaches
  <2> QED BY <2>2, <2>4, <2>5, <2>6 DEF Fit
<1>6. o \in {"off", "hello", "on"} /\ (o # "on" => q = <<>>)
  BY DEF Path
<1> QED
  BY <1>1, <1>2, <1>3, <1>4, <1>5, <1>6 DEF Path

\* A queue of one item.
LEMMA OneItem ==
    ASSUME NEW P \in SUBSET Frame, NEW p, p = RESYNC \/ p \in Seq(P)
    PROVE  QueueOK(<<p>>, P) /\ First(<<p>>) = p /\ Rest(<<p>>) = <<>>
<1>1. Len(<<p>>) = 1 /\ <<p>>[1] = p /\ DOMAIN <<p>> = {1} /\ <<p>> # <<>>
  OBVIOUS
<1>2. p \in Seq(Frame) \cup {RESYNC}
  BY SeqWider
<1>3. <<p>> \in Seq(Seq(Frame) \cup {RESYNC})
  BY <1>2
<1> QED
  BY <1>1, <1>3, FewItems DEF QueueOK, Singles, First

LEMMA NoItem ==
    ASSUME NEW P \in SUBSET Frame
    PROVE  QueueOK(<<>>, P)
BY DEF QueueOK, Singles

\* The socket opens, fails, or is to be synchronised.
LEMMA PathTurns ==
    ASSUME Marks, NEW P \in SUBSET Frame, NEW X, NEW R \in SUBSET Nat,
           NEW o, NEW a, NEW q, NEW c, NEW l \in Nat, Path(o, a, q, c, l, P, X, R)
    PROVE  /\ o = "off" => Path("hello", l, q, c, l, P, X, R)
           /\ Path("off", 0, <<>>, c, l, P, X, R)
           /\ o = "on" => Path("on", a, <<RESYNC>>, c, l, P, X, R)
<1>1. ASSUME NEW n \in 1 .. l
      PROVE  n \in X \/ Ends(c, l, n)
  <2>1. n \in Nat \ {0} /\ n <= l
    OBVIOUS
  <2>2. Mentions(c, l, n)
    BY <2>1 DEF Mentions
  <2> QED BY <2>1, <2>2 DEF Path, Settles
<1>2. o = "off" => Path("hello", l, q, c, l, P, X, R)
  BY <1>1 DEF Path
<1>3. Path("off", 0, <<>>, c, l, P, X, R)
  BY NoItem DEF Path
<1>4. QueueOK(<<RESYNC>>, P) /\ Resyncs(<<RESYNC>>)
  BY OneItem DEF Resyncs
<1>5. o = "on" => Path("on", a, <<RESYNC>>, c, l, P, X, R)
  BY <1>4 DEF Path
<1> QED
  BY <1>2, <1>3, <1>5

\* A hello is answered by a sync.
LEMMA PathIsSynced ==
    ASSUME Marks, NEW P \in SUBSET Frame, NEW X, NEW R \in SUBSET Nat,
           NEW a, NEW q, NEW c, NEW l \in Nat, NEW p \in Seq(P),
           Path("hello", a, q, c, l, P, X, R), Fit(c \o p, l, <<>>, X, R)
    PROVE  Path("on", 0, <<p>>, c, l, P, X, R)
<1>1. QueueOK(<<p>>, P) /\ First(<<p>>) = p /\ Rest(<<p>>) = <<>>
  BY OneItem
<1> QED
  BY <1>1 DEF Path

\* A hello is answered by a resume, and what the ring holds of the rest.
Delta(d) == <<(<<>>)>> \o [i \in DOMAIN d |-> <<d[i]>>]

LEMMA PathResumes ==
    ASSUME Marks, NEW P \in SUBSET Frame, NEW X, NEW R \in SUBSET Nat,
           NEW a, NEW q, NEW c, NEW l \in Nat, NEW d \in Seq(P),
           \A i \in DOMAIN d : d[i].kind = "out",
           NEW r \in Seq(Nat), Len(r) = Len(d), \A i \in DOMAIN d : r[i] = d[i].seq,
           Path("hello", a, q, c, l, P, X, R), Fit(c, l, r, X, R)
    PROVE  Path("on", 0, Delta(d), c, l, P, X, R)
<1> DEFINE e == [i \in 1 .. Len(d) |-> <<d[i]>>]
           b == Delta(d)
           T == Seq(Frame) \cup {RESYNC}
<1>1. Len(d) \in Nat /\ DOMAIN d = 1 .. Len(d) /\ \A i \in 1 .. Len(d) : d[i] \in P
  OBVIOUS
<1>2. \A i \in 1 .. Len(d) : <<d[i]>> \in Seq(P) /\ <<d[i]>> \in T /\ Len(<<d[i]>>) = 1
                             /\ <<d[i]>>[1] = d[i]
  BY <1>1
<1>3. e \in [1 .. Len(d) -> T] /\ \A i \in 1 .. Len(d) : e[i] = <<d[i]>>
  <2> HIDE DEF T
  <2> QED BY <1>2
<1>4. e \in Seq(T) /\ Len(e) = Len(d)
  <2> HIDE DEF T, e
  <2> QED BY <1>1, <1>3, SeqMade
<1>5. b = <<(<<>>)>> \o e /\ <<(<<>>)>> \in Seq(T)
  BY <1>1 DEF Delta
<1> HIDE DEF b, e, T
<1>6. /\ b \in Seq(T) /\ Len(b) = Len(d) + 1 /\ b[1] = <<>> /\ b # <<>>
      /\ DOMAIN b = 1 .. Len(d) + 1
      /\ \A k \in 1 .. Len(d) : b[k + 1] = e[k]
  BY <1>1, <1>4, <1>5
<1>7. \A k \in 1 .. Len(d) : b[k + 1] = <<d[k]>>
  BY <1>3, <1>6
<1>8. Singles(b, P)
  <2> SUFFICES ASSUME NEW k \in DOMAIN b, k > 1
               PROVE  b[k] \in Seq(P) /\ Len(b[k]) = 1 /\ b[k][1].kind = "out"
    BY DEF Singles
  <2>1. k - 1 \in 1 .. Len(d) /\ (k - 1) + 1 = k
    BY <1>1, <1>6
  <2>2. b[k] = <<d[k - 1]>> /\ d[k - 1].kind = "out"
    BY <1>1, <1>7, <2>1
  <2> QED BY <1>2, <2>1, <2>2
<1>9. QueueOK(b, P) /\ ~Resyncs(b) /\ First(b) = <<>>
  <2>1. <<>> \in Seq(P) /\ <<>> \in Seq(Frame)
    OBVIOUS
  <2>2. <<>> # RESYNC
    BY <2>1 DEF Marks
  <2> QED BY <1>6, <1>8, <2>1, <2>2 DEF QueueOK, Resyncs, First, T
<1>10. Rest(b) = r
  <2>1. RestGood(b)
    BY <1>6, <1>9, RestIsGood
  <2>2. /\ Rest(b) \in Seq(Nat) /\ Len(Rest(b)) = Len(d)
        /\ \A k \in 1 .. Len(d) : Rest(b)[k] = b[k + 1][1].seq
    <3>1. Len(b) - 1 = Len(d)
      BY <1>1, <1>6
    <3> QED BY <2>1, <3>1 DEF RestGood
  <2>3. ASSUME NEW k \in 1 .. Len(d)
        PROVE  Rest(b)[k] = r[k]
    <3>1. Rest(b)[k] = b[k + 1][1].seq
      BY <2>2
    <3>2. b[k + 1][1] = d[k]
      BY <1>2, <1>7
    <3>3. r[k] = d[k].seq
      BY <1>1
    <3> QED BY <3>1, <3>2, <3>3
  <2> QED BY <2>2, <2>3, SeqEqual
<1>11. c \in Seq(P) /\ c \in Seq(Frame) /\ Clean(c, l, X) /\ Settles(c, l, X)
  BY SeqWider DEF Path
<1>12. c \o First(b) = c
  BY <1>9, <1>11
<1>13. Path("on", 0, b, c, l, P, X, R)
  BY <1>9, <1>10, <1>11, <1>12 DEF Path
<1> QED
  BY <1>13 DEF b

----------------------------------------------------------------------------
(* Lemmas about what a sync, and a resume, put on the way.                 *)

\* A part of the ring, without the frames numbered up to a.
Piece(p, a) ==
    /\ p \in Seq(Passables)
    /\ \A k \in DOMAIN p : p[k].kind = "out" /\ p[k].seq > a
    /\ \A m \in Numbers(ring) : m > a => \E k \in DOMAIN p : p[k].seq = m
    /\ \A j, k \in DOMAIN p : j < k /\ p[k].seq < p[j].seq => p[k].seq \in gone

LEMMA PassableFrames ==
    /\ Passables \subseteq Frame
    /\ \A f \in Passables : f \in Frame /\ f.seq \in Nat /\ f.kind \in {"out", "snapshot"}
BY DEF Passables, Frame

LEMMA Recordings ==
    ASSUME RingOK
    PROVE  /\ Numbers(ring) \subseteq recorded /\ Numbers(ring) \subseteq Nat
           /\ recorded \subseteq Nat \ {0} /\ recorded \subseteq Reach
           /\ \A r \in recorded : \A n \in 1 .. r : Backed(n)
<1>1. Numbers(ring) \subseteq recorded
  BY DEF RingOK, Numbers
<1>2. Len(sent) \in Nat \/ recorded = {}
  BY DEF RingOK
<1>3. recorded \subseteq Nat \ {0}
  BY DEF RingOK
<1>4. \A r \in recorded : \A n \in 1 .. r : Backed(n)
  BY DEF RingOK, Backed, Lost
<1> QED
  BY <1>1, <1>3, <1>4 DEF Reach

LEMMA RingPassable ==
    ASSUME RingOK
    PROVE  \A i \in DOMAIN ring : ring[i] \in Passables
<1> SUFFICES ASSUME NEW i \in DOMAIN ring
             PROVE  ring[i] \in Passables
  OBVIOUS
<1>1. ring[i] \in Frame /\ ring[i].kind = "out" /\ ring[i].seq \in recorded
  BY DEF RingOK
<1>2. ring[i].seq \in Reach
  BY <1>1, Recordings
<1> QED
  BY <1>1, <1>2 DEF Passables

LEMMA RingIsPiece ==
    ASSUME RingOK
    PROVE  Piece(ring, 0)
<1>1. ring \in Seq(Frame) /\ DOMAIN ring = 1 .. Len(ring) /\ Len(ring) \in Nat
  BY DEF RingOK
<1>2. ring \in Seq(Passables)
  BY <1>1, RingPassable
<1>3. \A k \in DOMAIN ring : ring[k].kind = "out" /\ ring[k].seq > 0
  <2>1. \A k \in DOMAIN ring : ring[k].kind = "out" /\ ring[k].seq \in recorded
    BY DEF RingOK
  <2>2. \A m \in recorded : m > 0
    <3>1. recorded \subseteq Nat \ {0}
      BY Recordings
    <3> QED BY <3>1
  <2> QED BY <2>1, <2>2
<1>4. \A m \in Numbers(ring) : \E k \in DOMAIN ring : ring[k].seq = m
  BY DEF Numbers
<1>5. \A j, k \in DOMAIN ring : j < k /\ ring[k].seq < ring[j].seq => ring[k].seq \in gone
  BY DEF RingOK
<1> QED
  BY <1>2, <1>3, <1>4, <1>5 DEF Piece

LEMMA RingAfterIsPiece ==
    ASSUME RingOK, NEW a \in Nat
    PROVE  Piece(RingAfter(a), a)
<1> DEFINE p == RingAfter(a)
<1>1. PICK o : /\ o \in Seq(DOMAIN ring)
               /\ p \in Seq(Frame) /\ Len(p) = Len(o)
               /\ \A k \in DOMAIN o : p[k] = ring[o[k]] /\ ring[o[k]].seq > a
               /\ \A i \in DOMAIN ring : ring[i].seq > a => \E k \in DOMAIN o : o[k] = i
               /\ \A j, k \in DOMAIN o : j < k => o[j] < o[k]
  BY RingAfterPicks
<1> HIDE DEF p
<1>2. DOMAIN p = DOMAIN o /\ DOMAIN p = 1 .. Len(p) /\ Len(p) \in Nat
      /\ \A k \in DOMAIN p : o[k] \in DOMAIN ring
  BY <1>1
<1>3. \A k \in DOMAIN p : p[k] \in Passables
  BY <1>1, <1>2, RingPassable
<1>4. p \in Seq(Passables)
  BY <1>2, <1>3, <1>1
<1>5. \A k \in DOMAIN p : p[k].kind = "out" /\ p[k].seq > a
  BY <1>1, <1>2 DEF RingOK
<1>6. \A m \in Numbers(ring) : m > a => \E k \in DOMAIN p : p[k].seq = m
  BY <1>1, <1>2 DEF Numbers
<1>7. \A j, k \in DOMAIN p : j < k /\ p[k].seq < p[j].seq => p[k].seq \in gone
  BY <1>1, <1>2 DEF RingOK
<1>8. Piece(p, a)
  BY <1>4, <1>5, <1>6, <1>7 DEF Piece
<1> QED
  BY <1>8 DEF p

\* What a frame of the part leaps over is lost, or has come before.
LEMMA PieceFollows ==
    ASSUME RingOK, NEW a \in Nat, NEW p, Piece(p, a),
           NEW i \in DOMAIN p, NEW n \in 1 .. p[i].seq - 1
    PROVE  n \in Lost \/ n <= a \/ \E j \in 1 .. i - 1 : j \in DOMAIN p /\ n <= p[j].seq
<1>1. p[i] \in Passables /\ p[i].kind = "out" /\ DOMAIN p = 1 .. Len(p) /\ Len(p) \in Nat
  BY DEF Piece
<1>2. p[i].seq \in recorded /\ p[i].seq \in Nat /\ n \in Nat
  BY <1>1, PassableFrames DEF Passables
<1>3. n \in recorded \cup gone
  BY <1>2 DEF RingOK
<1>4. CASE n \in gone
  BY <1>4 DEF Lost
<1>5. CASE n \in recorded /\ n \notin gone /\ n > a
  <2>1. n \in Numbers(ring)
    BY <1>5 DEF RingOK
  <2>2. PICK k \in DOMAIN p : p[k].seq = n
    BY <1>5, <2>1 DEF Piece
  <2>3. k # i /\ ~ (i < k)
    BY <1>2, <1>5, <2>2 DEF Piece
  <2>4. k \in 1 .. i - 1
    BY <1>1, <2>3
  <2> QED BY <1>2, <2>2, <2>4
<1> QED BY <1>2, <1>3, <1>4, <1>5

\* A sync leaps over nothing but what is lost, and shows all that is backed.
Whole(p) ==
    /\ p \in Seq(Passables) /\ Clean(p, 0, Lost)
    /\ \A n \in Nat \ {0} : Backed(n) => n \in Lost \/ Ends(p, 0, n)

LEMMA RingIsWhole ==
    ASSUME RingOK, snapshot = NULL
    PROVE  Whole(ring)
<1>1. Piece(ring, 0)
  BY RingIsPiece
<1>2. ring \in Seq(Passables) /\ DOMAIN ring = 1 .. Len(ring) /\ Len(ring) \in Nat
      /\ \A k \in DOMAIN ring : ring[k].kind = "out" /\ ring[k].seq \in Nat
  BY <1>1, PassableFrames DEF Piece
<1>3. Clean(ring, 0, Lost)
  <2> SUFFICES ASSUME NEW i \in DOMAIN ring, NEW n \in 1 .. ring[i].seq - 1
               PROVE  n \in Lost \/ Passed(ring, i, 0, n)
    BY DEF Clean
  <2>1. n \in Lost \/ n <= 0 \/ \E j \in 1 .. i - 1 : j \in DOMAIN ring /\ n <= ring[j].seq
    BY <1>1, PieceFollows
  <2>2. ~ (n <= 0)
    BY <1>2
  <2> QED BY <1>2, <2>1, <2>2 DEF Passed
<1>4. ASSUME NEW n \in Nat \ {0}, Backed(n), n \notin Lost
      PROVE  Ends(ring, 0, n)
  <2>1. n \in Numbers(ring)
    BY <1>4 DEF Backed, RingOK, Lost
  <2>2. PICK i \in DOMAIN ring : ring[i].seq = n
    BY <2>1 DEF Numbers
  <2>3. i < Len(ring) + 1 /\ n <= ring[i].seq
    BY <1>2, <2>2
  <2> QED BY <1>2, <2>3 DEF Ends, Passed
<1> QED
  BY <1>2, <1>3, <1>4 DEF Whole

LEMMA SnapshotIsPassable ==
    ASSUME SnapshotOK, snapshot # NULL
    PROVE  snapshot \in Passables /\ snapshot.kind = "snapshot" /\ snapshot.seq \in Nat
<1>1. snapshot \in Frame /\ snapshot.kind = "snapshot" /\ Claims(snapshot)
  BY DEF SnapshotOK
<1>2. snapshot.seq \in Nat
  BY <1>1 DEF Frame
<1>3. snapshot.seq \in Reach
  BY <1>2 DEF Reach, Backed
<1> QED
  BY <1>1, <1>2, <1>3 DEF Passables

LEMMA SnapshotIsWhole ==
    ASSUME RingOK, SnapshotOK, snapshot # NULL, NEW t, Piece(t, snapshot.seq)
    PROVE  Whole(<<snapshot>> \o t)
<1> DEFINE p == <<snapshot>> \o t
<1>1. snapshot \in Passables /\ snapshot.kind = "snapshot" /\ snapshot.seq \in Nat
  BY SnapshotIsPassable
<1>2. /\ t \in Seq(Passables) /\ DOMAIN t = 1 .. Len(t) /\ Len(t) \in Nat
      /\ \A k \in DOMAIN t : t[k].kind = "out" /\ t[k].seq \in Nat
  BY PassableFrames DEF Piece
<1>3. /\ p \in Seq(Passables) /\ DOMAIN p = 1 .. Len(t) + 1 /\ p[1] = snapshot
      /\ Len(p) = Len(t) + 1 /\ \A k \in DOMAIN t : p[k + 1] = t[k]
  BY <1>1, <1>2
<1> HIDE DEF p
<1>4. \A k \in DOMAIN p : k > 1 => /\ k - 1 \in DOMAIN t /\ p[k] = t[k - 1]
                                   /\ p[k].kind = "out"
  <2> SUFFICES ASSUME NEW k \in DOMAIN p, k > 1
               PROVE  k - 1 \in DOMAIN t /\ p[k] = t[k - 1] /\ p[k].kind = "out"
    OBVIOUS
  <2>1. k - 1 \in DOMAIN t /\ (k - 1) + 1 = k
    BY <1>2, <1>3
  <2>2. p[k] = t[k - 1]
    BY <1>3, <2>1
  <2> QED BY <1>2, <2>1, <2>2
\* What is not above a frame of p has been passed wherever the frame has.
<1>5. ASSUME NEW j \in DOMAIN p, NEW i \in 1 .. Len(p) + 1, j < i,
             NEW n \in Nat, n <= p[j].seq
      PROVE  Passed(p, i, 0, n)
  BY <1>3, <1>4, <1>5 DEF Passed
<1>6. Clean(p, 0, Lost)
  <2> SUFFICES ASSUME NEW i \in DOMAIN p, p[i].kind = "out", NEW n \in 1 .. p[i].seq - 1
               PROVE  n \in Lost \/ Passed(p, i, 0, n)
    BY DEF Clean
  <2>1. i > 1 /\ i \in 1 .. Len(p) + 1
    BY <1>1, <1>2, <1>3
  <2>2. i - 1 \in DOMAIN t /\ p[i] = t[i - 1]
    BY <1>4, <2>1
  <2>3. n \in Lost \/ n <= snapshot.seq
        \/ \E j \in 1 .. (i - 1) - 1 : j \in DOMAIN t /\ n <= t[j].seq
    BY <1>1, <2>2, PieceFollows
  <2>4. n \in Nat
    BY <1>2, <2>2
  <2>5. ASSUME n <= snapshot.seq
        PROVE  Passed(p, i, 0, n)
    <3>1. 1 \in DOMAIN p /\ 1 < i /\ n <= p[1].seq
      BY <1>2, <1>3, <2>1, <2>5
    <3> QED BY <1>5, <2>1, <2>4, <3>1
  <2>6. ASSUME NEW j \in 1 .. (i - 1) - 1, j \in DOMAIN t, n <= t[j].seq
        PROVE  Passed(p, i, 0, n)
    <3>1. j + 1 \in DOMAIN p /\ j + 1 < i /\ n <= p[j + 1].seq
      BY <1>2, <1>3, <2>1, <2>6
    <3> QED BY <1>5, <2>1, <2>4, <3>1
  <2> QED BY <2>3, <2>5, <2>6
<1>7. ASSUME NEW n \in Nat \ {0}, Backed(n), n \notin Lost
      PROVE  Ends(p, 0, n)
  <2>1. \E j \in DOMAIN p : n <= p[j].seq
    <3>1. CASE n <= snapshot.seq
      <4>1. 1 \in DOMAIN p /\ n <= p[1].seq
        BY <1>2, <1>3, <3>1
      <4> QED BY <4>1
    <3>2. CASE ~ (n <= snapshot.seq)
      <4>1. n \in Numbers(ring) /\ n > snapshot.seq
        BY <1>1, <1>7, <3>2 DEF Backed, RingOK, Lost
      <4>2. PICK k \in DOMAIN t : t[k].seq = n
        BY <4>1 DEF Piece
      <4>3. k + 1 \in DOMAIN p /\ p[k + 1] = t[k]
        BY <1>2, <1>3
      <4> QED BY <4>2, <4>3
    <3> QED BY <3>1, <3>2
  <2>2. PICK j \in DOMAIN p : n <= p[j].seq
    BY <2>1
  <2>3. Len(p) + 1 \in 1 .. Len(p) + 1 /\ j < Len(p) + 1
    BY <1>2, <1>3
  <2>4. Passed(p, Len(p) + 1, 0, n)
    BY <1>5, <2>2, <2>3
  <2> QED BY <2>4 DEF Ends
<1>8. Whole(p)
  BY <1>3, <1>6, <1>7 DEF Whole
<1> QED
  BY <1>8 DEF p

LEMMA SyncIsWhole ==
    ASSUME RingOK, SnapshotOK
    PROVE  Whole(SyncPayload)
<1>1. CASE snapshot = NULL
  BY <1>1, RingIsWhole DEF SyncPayload
<1>2. CASE snapshot # NULL
  <2>1. snapshot.seq \in Nat
    BY <1>2, SnapshotIsPassable
  <2>2. Piece(RingAfter(snapshot.seq), snapshot.seq)
    BY <2>1, RingAfterIsPiece
  <2> QED BY <1>2, <2>2, SnapshotIsWhole DEF SyncPayload
<1> QED BY <1>1, <1>2

\* A sync fits behind any chain and in front of any frames recorded.
LEMMA SyncFits ==
    ASSUME RingOK, SnapshotOK, NEW c \in Seq(Passables), NEW l \in Reach,
           Clean(c, l, Lost), NEW r, \A i \in DOMAIN r : r[i] \in Reach
    PROVE  /\ SyncPayload \in Seq(Passables)
           /\ Fit(c \o SyncPayload, l, r, Lost, Numbers(ring))
<1> DEFINE p == SyncPayload
           s == c \o p
<1>1. p \in Seq(Passables) /\ Clean(p, 0, Lost)
      /\ \A n \in Nat \ {0} : Backed(n) => n \in Lost \/ Ends(p, 0, n)
  BY SyncIsWhole DEF Whole
<1> HIDE DEF p
<1>2. c \in Seq(Frame) /\ p \in Seq(Frame) /\ l \in Nat
  BY <1>1, PassableFrames, SeqWider DEF Reach
<1>3. s \in Seq(Passables)
  BY <1>1
<1>4. \A n \in Nat \ {0} : Backed(n) => n \in Lost \/ Ends(s, l, n)
  BY <1>1, <1>2, EndsTogether
<1>5. Clean(s, l, Lost)
  BY <1>1, <1>2, CleanTogether
<1> HIDE DEF s
<1>6. \A m \in Reach : m \in Nat /\ \A n \in 1 .. m : Backed(n)
  BY DEF Reach
<1>7. \A j \in DOMAIN s : s[j].seq \in Reach
  BY <1>3 DEF Passables
<1>8. \A m \in Reach : \A n \in Nat \ {0} : n <= m => n \in Lost \/ Ends(s, l, n)
  BY <1>4, <1>6
<1>9. Settles(s, l, Lost)
  BY <1>7, <1>8 DEF Settles, Mentions
<1>10. Follows(s, l, r, Lost)
  <2> SUFFICES ASSUME NEW i \in DOMAIN r, NEW n \in 1 .. r[i] - 1
               PROVE  n \in Lost \/ Ends(s, l, n)
    BY DEF Follows
  <2>1. r[i] \in Nat /\ n \in Nat \ {0} /\ n <= r[i]
    BY <1>6
  <2> QED BY <1>8, <2>1
<1>11. Reaches(s, l, r, Lost, Numbers(ring))
  <2>1. \A n \in Numbers(ring) : n \in Nat \ {0} /\ n \in Reach /\ n <= n
    BY Recordings
  <2> QED BY <1>8, <2>1 DEF Reaches
<1>12. Fit(s, l, r, Lost, Numbers(ring))
  BY <1>5, <1>9, <1>10, <1>11 DEF Fit
<1> QED
  BY <1>1, <1>12 DEF s, p

\* A resume fits behind the chain of the page that asked for it.
LEMMA ResumeFits ==
    ASSUME RingOK, NEW a \in Nat, NEW q, NEW c, NEW l \in Nat, NEW r,
           DOMAIN r = DOMAIN RingAfter(a), \A k \in DOMAIN r : r[k] = RingAfter(a)[k].seq,
           Path("hello", a, q, c, l, Passables, Lost, Numbers(ring))
    PROVE  Fit(c, l, r, Lost, Numbers(ring))
<1> DEFINE d == RingAfter(a)
<1>1. Piece(d, a)
  BY RingAfterIsPiece
<1> HIDE DEF d
<1>2. DOMAIN r = DOMAIN d /\ \A k \in DOMAIN r : r[k] = d[k].seq
  BY DEF d
<1>3. \A n \in 1 .. a : n \in Lost \/ Ends(c, l, n)
  BY DEF Path
<1>4. Follows(c, l, r, Lost)
  <2> SUFFICES ASSUME NEW i \in DOMAIN r, NEW n \in 1 .. r[i] - 1
               PROVE  n \in Lost \/ Ends(c, l, n) \/ \E j \in 1 .. i - 1 : n <= r[j]
    BY DEF Follows
  <2>1. n \in Lost \/ n <= a \/ \E j \in 1 .. i - 1 : j \in DOMAIN d /\ n <= d[j].seq
    BY <1>1, <1>2, PieceFollows
  <2>2. n <= a => n \in 1 .. a
    OBVIOUS
  <2> QED BY <1>2, <1>3, <2>1, <2>2
<1>5. Reaches(c, l, r, Lost, Numbers(ring))
  <2> SUFFICES ASSUME NEW n \in Numbers(ring)
               PROVE  n \in Lost \/ Ends(c, l, n) \/ \E j \in DOMAIN r : n <= r[j]
    BY DEF Reaches
  <2>1. n \in Nat \ {0}
    BY Recordings
  <2>2. CASE n <= a
    BY <1>3, <2>1, <2>2
  <2>3. CASE n > a
    <3>1. PICK k \in DOMAIN d : d[k].seq = n
      BY <1>1, <2>3 DEF Piece
    <3> QED BY <1>2, <2>1, <3>1
  <2> QED BY <2>1, <2>2, <2>3
<1> QED
  BY <1>4, <1>5 DEF Fit, Path

----------------------------------------------------------------------------
(* What every step but Reprovision keeps.                                  *)

\* Nothing is taken back: what a snapshot had reached it still has reached, or
\* it has lapsed.
Grows ==
    /\ recorded \subseteq recorded' /\ gone \subseteq gone' /\ lapsed \subseteq lapsed'
    /\ stamped <= stamped'
    /\ Len(sent) <= Len(sent') /\ \A n \in DOMAIN sent : sent'[n] = sent[n]
    /\ snapshot # NULL => /\ snapshot' # NULL
                          /\ \A n \in Nat : n <= snapshot.seq =>
                                n <= snapshot'.seq \/ n \in lapsed'

LEMMA GrowsKeeps ==
    ASSUME OutqOK, OutqOK', RingOK, RingOK', Grows
    PROVE  /\ Lost \subseteq Lost' /\ Reach \subseteq Reach' /\ Passables \subseteq Passables'
           /\ \A f \in Frame : Claims(f) => Claims(f)'
<1>1. Lost \subseteq Lost'
  BY DEF Lost, Grows
<1>2. \A n \in Nat : Backed(n) => Backed(n)'
  BY <1>1 DEF Backed, Grows, Lost
<1>3. Reach \subseteq Reach'
  BY <1>2 DEF Reach
<1>4. ASSUME NEW f \in Frame, Claims(f)
      PROVE  Claims(f)'
  <2>1. /\ sent \in Seq(Nat) /\ sent' \in Seq(Nat) /\ Len(sent) \in Nat /\ Len(sent') \in Nat
        /\ stamped \in Nat /\ stamped' \in Nat /\ f.seq \in Nat /\ f.pt \in Nat
        /\ DOMAIN sent = 1 .. Len(sent)
    <3>1. sent \in Seq(Nat) /\ sent' \in Seq(Nat)
      BY DEF OutqOK
    <3>2. stamped \in Nat /\ stamped' \in Nat
      BY DEF RingOK
    <3>3. f.seq \in Nat /\ f.pt \in Nat
      BY DEF Frame
    <3> QED BY <3>1, <3>2, <3>3
  <2>2. f.seq <= Len(sent) /\ \A n \in 1 .. f.seq : sent[n] <= f.pt \/ n <= stamped
    BY <1>4 DEF Claims
  <2>3. f.seq <= Len(sent')
    BY <2>1, <2>2 DEF Grows
  <2>4. ASSUME NEW n \in 1 .. f.seq
        PROVE  sent'[n] <= f.pt \/ n <= stamped'
    <3>1. n \in DOMAIN sent /\ n \in Nat
      BY <2>1, <2>2
    <3>2. sent'[n] = sent[n]
      BY <3>1 DEF Grows
    <3>3. n <= stamped => n <= stamped'
      BY <2>1, <3>1 DEF Grows
    <3> QED BY <2>2, <3>2, <3>3
  <2> QED BY <2>3, <2>4 DEF Claims
<1>5. Passables \subseteq Passables'
  BY <1>3, <1>4 DEF Passables, Grows
<1> QED
  BY <1>1, <1>3, <1>4, <1>5

LEMMA PageKeeps ==
    ASSUME OutqOK, OutqOK', RingOK, RingOK', Grows, PagesTyped, UNCHANGED pageVars,
           NEW v \in Viewers, PageOK(v)
    PROVE  PageOK(v)'
<1>1. Lost \subseteq Lost' /\ Reach \subseteq Reach'
  BY GrowsKeeps
<1>2. /\ Len(sent) \in Nat /\ Len(sent') \in Nat /\ stamped \in Nat /\ stamped' \in Nat
      /\ DOMAIN sent = 1 .. Len(sent)
  BY DEF OutqOK, RingOK
<1>3. /\ lastSeq'[v] = lastSeq[v] /\ gapWarned'[v] = gapWarned[v] /\ warned'[v] = warned[v]
      /\ base'[v] = base[v] /\ drawn'[v] = drawn[v] /\ first'[v] = first[v]
  BY DEF pageVars
<1>4. lastSeq[v] \in 0 .. Len(sent) /\ lastSeq[v] \in Reach
      /\ gapWarned[v] \in 0 .. lastSeq[v] /\ warned[v] \subseteq Lost
  BY DEF PageOK
<1>5. lastSeq[v] \in 0 .. Len(sent')
  BY <1>2, <1>4 DEF Grows
<1>6. base[v] # NULL => \A n \in 1 .. lastSeq[v] :
          \/ n \in drawn[v] \cup warned[v] \/ sent'[n] <= base[v]
          \/ n < first[v] \/ n <= stamped'
  <2> SUFFICES ASSUME base[v] # NULL, NEW n \in 1 .. lastSeq[v]
               PROVE  \/ n \in drawn[v] \cup warned[v] \/ sent'[n] <= base[v]
                      \/ n < first[v] \/ n <= stamped'
    OBVIOUS
  <2>1. \/ n \in drawn[v] \cup warned[v] \/ sent[n] <= base[v]
        \/ n < first[v] \/ n <= stamped
    BY DEF PageOK
  <2>2. n \in DOMAIN sent /\ n \in Nat
    BY <1>2, <1>4
  <2>3. sent'[n] = sent[n]
    BY <2>2 DEF Grows
  <2>4. n <= stamped => n <= stamped'
    BY <1>2, <2>2 DEF Grows
  <2> QED BY <2>1, <2>3, <2>4
<1> QED
  BY <1>1, <1>3, <1>4, <1>5, <1>6 DEF PageOK

\* The way to a page, when the page and what is on the way stay as they are.
LEMMA PathStays ==
    ASSUME OutqOK, OutqOK', RingOK, RingOK', Grows, PagesTyped, NEW v \in Viewers, PathOK(v),
           conn'[v] = conn[v], asked'[v] = asked[v], queue'[v] = queue[v],
           chain'[v] = chain[v], lastSeq'[v] = lastSeq[v],
           \/ ring' = ring \/ conn[v] # "on"
    PROVE  PathOK(v)'
<1>1. Lost \subseteq Lost' /\ Passables \subseteq Passables' /\ Passables' \subseteq Frame
  BY GrowsKeeps DEF Passables
<1>2. lastSeq[v] \in Nat /\ Passables \in SUBSET Frame /\ Passables' \in SUBSET Frame
  BY <1>1 DEF PagesTyped
<1>3. Path(conn[v], asked[v], queue[v], chain[v], lastSeq[v], Passables, Lost, Numbers(ring))
  BY DEF PathOK
<1>4. Path(conn[v], asked[v], queue[v], chain[v], lastSeq[v], Passables', Lost', Numbers(ring))
  BY <1>1, <1>2, <1>3, PathKeeps
<1>5. Path(conn[v], asked[v], queue[v], chain[v], lastSeq[v], Passables', Lost', Numbers(ring)')
  <2>1. CASE ring' = ring
    <3>1. Numbers(ring)' = Numbers(ring)
      BY <2>1 DEF Numbers
    <3> QED BY <1>4, <3>1
  <2>2. CASE conn[v] # "on"
    BY <1>4, <2>2 DEF Path
  <2> QED BY <2>1, <2>2
<1> QED
  BY <1>5 DEF PathOK

\* A step that leaves the relay alone.
LEMMA RelayStays ==
    ASSUME RingOK, SnapshotOK, OutqOK, OutqOK', UNCHANGED relayVars,
           Len(sent) <= Len(sent'), \A n \in DOMAIN sent : sent'[n] = sent[n]
    PROVE  Grows /\ RingOK' /\ SnapshotOK'
<1>1. /\ ring' = ring /\ snapshot' = snapshot /\ last_seq' = last_seq
      /\ recorded' = recorded /\ gone' = gone /\ stamped' = stamped /\ lapsed' = lapsed
  BY DEF relayVars
<1>2. /\ Len(sent) \in Nat /\ Len(sent') \in Nat /\ stamped \in Nat
      /\ DOMAIN sent = 1 .. Len(sent)
  BY DEF OutqOK, RingOK
<1>3. RingOK'
  <2>1. recorded' \subseteq 1 .. Len(sent')
    BY <1>1, <1>2 DEF RingOK
  <2>2. Numbers(ring') = Numbers(ring)
    BY <1>1
  <2> QED BY <1>1, <2>1, <2>2 DEF RingOK
<1>4. Grows
  BY <1>1, <1>2 DEF Grows
<1>5. SnapshotOK'
  <2>1. \A f \in Frame : Claims(f) => Claims(f)'
    BY <1>3, <1>4, GrowsKeeps
  <2> SUFFICES ASSUME snapshot' # NULL
               PROVE  snapshot' \in Frame /\ snapshot'.kind = "snapshot" /\ Claims(snapshot)'
    BY DEF SnapshotOK
  <2>2. snapshot \in Frame /\ snapshot.kind = "snapshot" /\ Claims(snapshot)
    BY <1>1 DEF SnapshotOK
  <2>3. snapshot.seq <= Len(sent') /\ \A n \in 1 .. snapshot.seq :
            sent'[n] <= snapshot.pt \/ n <= stamped'
    BY <2>1, <2>2 DEF Claims
  <2> QED BY <1>1, <2>2, <2>3 DEF Claims
<1> QED
  BY <1>3, <1>4, <1>5

\* A step of the publisher alone.
LEMMA PagesStay ==
    ASSUME OutqOK, OutqOK', RingOK, RingOK', Grows, PagesTyped, UNCHANGED ring,
           UNCHANGED <<socketVars, chain, pageVars>>,
           \A v \in Viewers : PathOK(v) /\ PageOK(v)
    PROVE  PagesTyped' /\ (\A v \in Viewers : PathOK(v) /\ PageOK(v))'
<1>1. /\ conn' = conn /\ asked' = asked /\ queue' = queue /\ chain' = chain
      /\ lastSeq' = lastSeq /\ gapWarned' = gapWarned /\ drawn' = drawn
      /\ warned' = warned /\ base' = base /\ first' = first /\ ring' = ring
  BY DEF socketVars, pageVars
<1>2. PagesTyped'
  BY <1>1 DEF PagesTyped
<1>3. ASSUME NEW v \in Viewers
      PROVE  PathOK(v)' /\ PageOK(v)'
  <2>1. PathOK(v)'
    BY <1>1, PathStays
  <2>2. PageOK(v)'
    BY PageKeeps
  <2> QED BY <2>1, <2>2
<1> QED
  BY <1>2, <1>3

----------------------------------------------------------------------------
(* The steps of the publisher.                                             *)

LEMMA WaitsBehind ==
    ASSUME NEW q, NEW e \in Nat, NEW s \in Seq(Nat), Waits(q, e, s), q # <<>>
    PROVE  Waits(Tail(q), e, s)
<1>1. /\ Tail(q) \in Seq(Frame) /\ DOMAIN Tail(q) = 1 .. Len(q) - 1
      /\ DOMAIN q = 1 .. Len(q) /\ Len(q) \in Nat
      /\ \A k \in 1 .. Len(q) - 1 : Tail(q)[k] = q[k + 1]
  BY SeqParts DEF Waits
<1>2. \A k \in DOMAIN Tail(q) : k + 1 \in DOMAIN q /\ Tail(q)[k] = q[k + 1]
  BY <1>1
<1>3. \A i, j \in DOMAIN Tail(q) : i < j => i + 1 < j + 1
  BY <1>1
<1> QED
  BY <1>1, <1>2, <1>3 DEF Waits

LEMMA WaitsMore ==
    ASSUME NEW q, NEW e \in Nat, NEW d \in Nat, NEW s \in Seq(Nat), Waits(q, e, s),
           NEW f \in Frame, e <= d, f.pt <= d, f.seq <= Len(s),
           \A n \in DOMAIN s : s[n] <= f.pt, \A i \in DOMAIN q : q[i].pt <= f.pt
    PROVE  Waits(Append(q, f), d, s)
<1> DEFINE b == Append(q, f)
<1>1. /\ b \in Seq(Frame) /\ DOMAIN b = 1 .. Len(q) + 1 /\ DOMAIN q = 1 .. Len(q)
      /\ Len(q) \in Nat /\ b[Len(q) + 1] = f /\ \A k \in 1 .. Len(q) : b[k] = q[k]
  BY SeqLonger DEF Waits
<1> HIDE DEF b
<1>2. \A i \in DOMAIN q : b[i] = q[i] /\ q[i].pt \in Nat /\ q[i].pt <= e
  <2>1. \A i \in DOMAIN q : b[i] = q[i] /\ q[i] \in Frame /\ q[i].pt <= e
    BY <1>1 DEF Waits
  <2>2. \A g \in Frame : g.pt \in Nat
    BY DEF Frame
  <2> QED BY <2>1, <2>2
<1>3. \A i \in DOMAIN b : i \in DOMAIN q \/ (i = Len(q) + 1 /\ b[i] = f)
  BY <1>1
<1>4. f.pt \in Nat
  BY DEF Frame
<1>5. ASSUME NEW i \in DOMAIN b
      PROVE  /\ b[i].pt <= d /\ b[i].seq <= Len(s)
             /\ \A n \in DOMAIN s : s[n] <= b[i].pt
             /\ \A j \in DOMAIN b : i < j => b[i].pt <= b[j].pt
  <2>1. CASE i \in DOMAIN q
    <3>1. /\ b[i].pt <= d /\ b[i].seq <= Len(s)
          /\ \A n \in DOMAIN s : s[n] <= b[i].pt
      BY <1>2, <2>1 DEF Waits
    <3>2. \A j \in DOMAIN b : i < j => b[i].pt <= b[j].pt
      BY <1>2, <1>3, <2>1 DEF Waits
    <3> QED BY <3>1, <3>2
  <2>2. CASE i = Len(q) + 1 /\ b[i] = f
    <3>1. \A j \in DOMAIN b : ~ (i < j)
      BY <1>1, <2>2
    <3> QED BY <2>2, <3>1
  <2> QED BY <1>3, <2>1, <2>2
<1>6. Waits(b, d, s)
  BY <1>1, <1>5 DEF Waits
<1> QED
  BY <1>6 DEF b

LEMMA EnqueuedOK ==
    ASSUME OutqOK, NEW f \in Frame, outq' = Enqueued(f), sent' = sent, events' \in Nat,
           events <= events', f.pt <= events', events <= f.pt, f.seq <= Len(sent)
    PROVE  OutqOK'
<1> DEFINE q == IF Len(outq) < OutMax THEN outq ELSE Tail(outq)
<1>1. events \in Nat /\ sent \in Seq(Nat) /\ Waits(outq, events, sent) /\ f.pt \in Nat
      /\ DOMAIN sent = 1 .. Len(sent) /\ \A n \in DOMAIN sent : sent[n] <= events
  BY DEF OutqOK, Frame
<1>2. Waits(q, events, sent)
  <2>1. CASE Len(outq) < OutMax
    BY <1>1, <2>1
  <2>2. CASE ~ (Len(outq) < OutMax)
    <3>1. OutMax \in Nat \ {0}
      BY WebStreamAssumption
    <3>2. outq # <<>>
      BY <2>2, <3>1
    <3> QED BY <1>1, <2>2, <3>2, WaitsBehind
  <2> QED BY <2>1, <2>2
<1>3. outq' = Append(q, f)
  BY DEF Enqueued
<1> HIDE DEF q
<1>4. \A n \in DOMAIN sent : sent[n] \in Nat /\ sent[n] <= f.pt /\ sent[n] <= events'
  BY <1>1
<1>5. \A i \in DOMAIN q : q[i].pt <= f.pt
  <2>1. \A i \in DOMAIN q : q[i] \in Frame /\ q[i].pt <= events
    BY <1>2 DEF Waits
  <2>2. \A i \in DOMAIN q : q[i].pt \in Nat
    BY <2>1 DEF Frame
  <2> QED BY <1>1, <2>1, <2>2
<1>6. Waits(outq', events', sent)
  BY <1>1, <1>2, <1>3, <1>4, <1>5, WaitsMore
<1> QED
  BY <1>1, <1>4, <1>6 DEF OutqOK

\* Output, a status, a turn of the coalescing or of the snapshot loop.
LEMMA PublisherStep ==
    ASSUME StreamInv, Data \/ Ready \/ Stopped \/ Coalesce \/ Mint
    PROVE  StreamInv'
<1>1. OutqOK /\ LinksOK /\ RingOK /\ SnapshotOK /\ PagesTyped
      /\ \A v \in Viewers : PathOK(v) /\ PageOK(v)
  BY DEF StreamInv
<1>2. /\ sent' = sent /\ UNCHANGED <<linkVars, relayVars, socketVars, chain, pageVars>>
  BY DEF Data, Ready, Stopped, Coalesce, Mint
<1>3. events \in Nat /\ sent \in Seq(Nat) /\ Waits(outq, events, sent) /\ Len(sent) \in Nat
      /\ \A n \in DOMAIN sent : sent[n] \in Nat /\ sent[n] <= events
  BY <1>1 DEF OutqOK
<1>4. \A n \in Nat : Unnumbered(n) \in Frame /\ Unnumbered(n).pt = n /\ Unnumbered(n).seq = 0
  BY DEF Unnumbered, Frame
<1>5. OutqOK'
  <2>1. CASE Data
    <3>1. events' = events + 1 /\ outq' = outq
      BY <2>1 DEF Data
    <3>2. \A n \in DOMAIN sent : sent[n] <= events'
      BY <1>3, <3>1
    <3>3. Waits(outq, events', sent)
      <4>1. \A i \in DOMAIN outq : outq[i] \in Frame /\ outq[i].pt <= events
        BY <1>3 DEF Waits
      <4>2. \A i \in DOMAIN outq : outq[i].pt \in Nat
        BY <4>1 DEF Frame
      <4>3. \A i \in DOMAIN outq : outq[i].pt <= events'
        BY <1>3, <3>1, <4>1, <4>2
      <4> QED BY <1>3, <4>3 DEF Waits
    <3> QED BY <1>2, <1>3, <3>1, <3>2, <3>3 DEF OutqOK
  <2>2. CASE Ready
    BY <1>1, <1>2, <2>2 DEF Ready, OutqOK
  <2>3. CASE Stopped
    <3>1. events' = events + 1 /\ outq' = Enqueued(Unnumbered(events + 1))
      BY <2>3 DEF Stopped
    <3> QED BY <1>1, <1>2, <1>3, <1>4, <3>1, EnqueuedOK
  <2>4. CASE Coalesce
    <3>1. events' = events /\ outq' = Enqueued(Unnumbered(events))
      BY <2>4 DEF Coalesce
    <3> QED BY <1>1, <1>2, <1>3, <1>4, <3>1, EnqueuedOK
  <2>5. CASE Mint
    <3> DEFINE f == [kind |-> "snapshot", seq |-> Len(sent), pt |-> events]
    <3>1. events' = events /\ outq' = Enqueued(f)
      BY <2>5 DEF Mint
    <3>2. f \in Frame /\ f.pt = events /\ f.seq = Len(sent)
      BY <1>3 DEF Frame
    <3> HIDE DEF f
    <3> QED BY <1>1, <1>2, <1>3, <3>1, <3>2, EnqueuedOK
  <2> QED BY <2>1, <2>2, <2>3, <2>4, <2>5
<1>6. Grows /\ RingOK' /\ SnapshotOK'
  <2>1. Len(sent) <= Len(sent') /\ \A n \in DOMAIN sent : sent'[n] = sent[n]
    BY <1>2, <1>3
  <2> QED BY <1>1, <1>2, <1>5, <2>1, RelayStays
<1>7. LinksOK'
  <2>1. up' = up /\ link' = link /\ oldLink' = oldLink /\ recorded' = recorded
    BY <1>2 DEF linkVars, relayVars
  <2>2. Sounds' = Sounds
    BY <1>2, <2>1 DEF Sounds
  <2> QED BY <1>1, <2>1, <2>2 DEF LinksOK, Ascends
<1>8. PagesTyped' /\ (\A v \in Viewers : PathOK(v) /\ PageOK(v))'
  <2>1. UNCHANGED ring /\ UNCHANGED <<socketVars, chain, pageVars>>
    BY <1>2 DEF relayVars
  <2> QED BY <1>1, <1>5, <1>6, <2>1, PagesStay
<1> QED
  BY <1>5, <1>6, <1>7, <1>8 DEF StreamInv

\* A longer history of what was sent, and a queue that gave up its first frame.
LEMMA DrainStep ==
    ASSUME StreamInv, Drain
    PROVE  StreamInv'
<1> DEFINE h == outq[1]
           f == Numbered(h)
<1>1. OutqOK /\ LinksOK /\ RingOK /\ SnapshotOK /\ PagesTyped
      /\ \A v \in Viewers : PathOK(v) /\ PageOK(v)
  BY DEF StreamInv
<1>2. /\ outq # <<>> /\ up /\ outq' = Tail(outq) /\ link' = Append(link, f)
      /\ sent' = (IF f.kind = "out" THEN Append(sent, f.pt) ELSE sent)
      /\ events' = events /\ up' = up /\ oldLink' = oldLink
      /\ UNCHANGED <<relayVars, socketVars, chain, pageVars>>
  <2>1. Head(outq) = h
    BY DEF Drain
  <2> QED BY <2>1 DEF Drain
<1>3. /\ events \in Nat /\ sent \in Seq(Nat) /\ Waits(outq, events, sent) /\ Len(sent) \in Nat
      /\ DOMAIN sent = 1 .. Len(sent)
      /\ \A n \in DOMAIN sent : sent[n] \in Nat /\ sent[n] <= events
  BY <1>1 DEF OutqOK
<1>4. /\ h \in Frame /\ h.pt <= events /\ h.seq <= Len(sent) /\ DOMAIN outq = 1 .. Len(outq)
      /\ Len(outq) \in Nat \ {0} /\ \A n \in DOMAIN sent : sent[n] <= h.pt
      /\ \A j \in DOMAIN outq : 1 < j => h.pt <= outq[j].pt
  <2>1. h \in Frame /\ DOMAIN outq = 1 .. Len(outq) /\ Len(outq) \in Nat \ {0}
    BY <1>2, <1>3, SeqParts DEF Waits
  <2>2. 1 \in DOMAIN outq
    BY <2>1
  <2> QED BY <1>3, <2>1, <2>2 DEF Waits
<1>5. h.kind \in {"out", "snapshot"} /\ h.seq \in Nat /\ h.pt \in Nat
  BY <1>4 DEF Frame
<1>6. /\ f \in Frame /\ f.kind = h.kind /\ f.pt = h.pt
      /\ f.kind = "out" => f.seq = Len(sent) + 1
      /\ f.kind = "snapshot" => f.seq \in 0 .. Len(sent)
  <2>1. h = [kind |-> h.kind, seq |-> h.seq, pt |-> h.pt]
    BY <1>4 DEF Frame
  <2>2. CASE h.kind = "out"
    <3>1. f = [h EXCEPT !.seq = Len(sent) + 1]
      BY <2>2 DEF Numbered
    <3>2. f = [kind |-> h.kind, seq |-> Len(sent) + 1, pt |-> h.pt]
      BY <2>1, <3>1
    <3> QED BY <1>3, <1>5, <2>2, <3>2 DEF Frame
  <2>3. CASE h.kind = "snapshot"
    <3>1. f = [h EXCEPT !.seq = IF h.seq = 0 THEN Len(sent) ELSE h.seq]
      BY <2>3 DEF Numbered
    <3>2. f = [kind |-> h.kind, seq |-> IF h.seq = 0 THEN Len(sent) ELSE h.seq, pt |-> h.pt]
      BY <2>1, <3>1
    <3>3. (IF h.seq = 0 THEN Len(sent) ELSE h.seq) \in 0 .. Len(sent)
      BY <1>3, <1>4, <1>5
    <3> QED BY <1>3, <1>5, <2>3, <3>2, <3>3 DEF Frame
  <2> QED BY <1>5, <2>2, <2>3
<1> HIDE DEF f, h
<1>7. /\ sent' \in Seq(Nat) /\ Len(sent') \in Nat /\ DOMAIN sent' = 1 .. Len(sent')
      /\ Len(sent') = (IF f.kind = "out" THEN Len(sent) + 1 ELSE Len(sent))
      /\ \A n \in 1 .. Len(sent) : sent'[n] = sent[n]
      /\ f.kind = "out" => sent'[Len(sent) + 1] = h.pt
  <2>1. CASE f.kind = "out"
    <3>1. sent' = Append(sent, h.pt)
      BY <1>2, <1>6, <2>1
    <3>2. /\ sent' \in Seq(Nat) /\ Len(sent') = Len(sent) + 1
          /\ DOMAIN sent' = 1 .. Len(sent) + 1 /\ sent'[Len(sent) + 1] = h.pt
          /\ \A n \in 1 .. Len(sent) : sent'[n] = sent[n]
      BY <1>3, <1>5, <3>1, SeqLonger
    <3> QED BY <1>3, <2>1, <3>2
  <2>2. CASE f.kind # "out"
    <3>1. sent' = sent
      BY <1>2, <2>2
    <3> QED BY <1>3, <2>2, <3>1
  <2> QED BY <2>1, <2>2
<1>8. Len(sent) \in Nat /\ Len(sent') \in Nat /\ Len(sent) <= Len(sent')
  BY <1>3, <1>7
<1>9. \A m \in Nat : m <= Len(sent) => m <= Len(sent')
  BY <1>8
<1>10. \A n \in 1 .. Len(sent) : n \in DOMAIN sent /\ n \in DOMAIN sent' /\ sent'[n] = sent[n]
  BY <1>3, <1>7, <1>8
<1>11. ASSUME NEW n \in DOMAIN sent'
       PROVE  sent'[n] \in Nat /\ sent'[n] <= h.pt /\ sent'[n] <= events
  <2>1. CASE n \in DOMAIN sent
    <3>1. sent'[n] = sent[n]
      BY <1>3, <1>10, <2>1
    <3> QED BY <1>3, <1>4, <2>1, <3>1
  <2>2. CASE n \notin DOMAIN sent
    <3>1. f.kind = "out" /\ n = Len(sent) + 1
      BY <1>3, <1>7, <2>2
    <3>2. sent'[n] = h.pt
      BY <1>7, <3>1
    <3> QED BY <1>4, <1>5, <3>2
  <2> QED BY <2>1, <2>2
<1>12. OutqOK'
  <2>1. Waits(Tail(outq), events, sent)
    BY <1>2, <1>3, WaitsBehind
  <2>2. ASSUME NEW i \in DOMAIN Tail(outq)
        PROVE  /\ Tail(outq)[i].seq <= Len(sent')
               /\ \A n \in DOMAIN sent' : sent'[n] <= Tail(outq)[i].pt
    <3> DEFINE g == outq[i + 1]
    <3>1. i + 1 \in DOMAIN outq /\ Tail(outq)[i] = g /\ 1 < i + 1
      BY <1>2, <1>3, <1>4, SeqParts DEF Waits
    <3>2. g \in Frame /\ h.pt <= g.pt /\ g.seq <= Len(sent)
      BY <1>3, <1>4, <3>1 DEF Waits
    <3> HIDE DEF g
    <3>3. g.pt \in Nat /\ g.seq \in Nat
      BY <3>2 DEF Frame
    <3>4. g.seq <= Len(sent')
      BY <1>9, <3>2, <3>3
    <3>5. ASSUME NEW n \in DOMAIN sent'
          PROVE  sent'[n] <= g.pt
      <4>1. sent'[n] \in Nat /\ sent'[n] <= h.pt
        BY <1>11
      <4> QED BY <1>5, <3>2, <3>3, <4>1
    <3> QED BY <3>1, <3>4, <3>5
  <2>3. Waits(Tail(outq), events, sent')
    BY <2>1, <2>2 DEF Waits
  <2>4. \A n \in DOMAIN sent' : sent'[n] <= events
    BY <1>11
  <2> QED BY <1>2, <1>3, <1>7, <2>3, <2>4 DEF OutqOK
<1>13. Grows /\ RingOK' /\ SnapshotOK'
  BY <1>1, <1>2, <1>3, <1>8, <1>10, <1>12, RelayStays
<1>14. recorded' = recorded /\ recorded \subseteq 1 .. Len(sent)
  BY <1>1, <1>2 DEF relayVars, RingOK
<1>15. \A g \in Sounds : g \in Sounds'
  <2> SUFFICES ASSUME NEW g \in Sounds
               PROVE  g \in Sounds'
    OBVIOUS
  <2>1. g \in Frame /\ g.seq \in Nat /\ g.seq <= Len(sent)
    BY DEF Sounds, Frame
  <2>2. g.seq <= Len(sent')
    BY <1>9, <2>1
  <2>3. \A n \in 1 .. g.seq : sent'[n] = sent[n]
    BY <1>8, <1>10, <2>1
  <2> QED BY <1>14, <2>1, <2>2, <2>3 DEF Sounds
<1>16. f \in Sounds'
  <2>1. CASE f.kind = "out"
    <3>1. f.seq <= Len(sent') /\ f.seq # 0 /\ f.seq \notin recorded'
      BY <1>3, <1>6, <1>7, <1>14, <2>1
    <3> QED BY <1>6, <2>1, <3>1 DEF Sounds
  <2>2. CASE f.kind = "snapshot"
    <3>1. f.seq <= Len(sent') /\ f.seq \in Nat
      BY <1>6, <1>8, <2>2
    <3>2. \A n \in 1 .. f.seq : n \in DOMAIN sent'
      BY <1>7, <3>1
    <3>3. \A n \in 1 .. f.seq : sent'[n] <= f.pt
      BY <1>6, <1>11, <3>2
    <3> QED BY <1>6, <2>2, <3>1, <3>3 DEF Sounds
  <2> QED BY <1>5, <1>6, <2>1, <2>2
<1>17. /\ link \in Seq(Sounds) /\ oldLink \in Seq(Sounds)
       /\ DOMAIN link = 1 .. Len(link) /\ Len(link) \in Nat /\ Ascends(link) /\ Ascends(oldLink)
       /\ \A i \in DOMAIN link : link[i] \in Sounds
       /\ \A i \in DOMAIN oldLink : oldLink[i] \in Sounds
  BY <1>1 DEF LinksOK
<1>18. link \in Seq(Sounds') /\ oldLink \in Seq(Sounds')
  <2>1. Sounds \subseteq Sounds'
    BY <1>15
  <2> QED BY <1>17, <2>1, SeqWider
<1>19. /\ link' \in Seq(Sounds') /\ DOMAIN link' = 1 .. Len(link) + 1
       /\ link'[Len(link) + 1] = f /\ \A k \in 1 .. Len(link) : link'[k] = link[k]
  BY <1>2, <1>16, <1>18, SeqLonger
<1>20. \A g \in Sounds : Precedes(g, f)
  <2> SUFFICES ASSUME NEW g \in Sounds, f.kind = "out"
               PROVE  g.seq < f.seq
    BY DEF Precedes
  <2>1. g.seq \in Nat /\ g.seq <= Len(sent)
    BY DEF Sounds, Frame
  <2> QED BY <1>3, <1>6, <2>1
<1>21. Ascends(link')
  <2> SUFFICES ASSUME NEW i \in DOMAIN link', NEW j \in DOMAIN link', i < j
               PROVE  Precedes(link'[i], link'[j])
    BY DEF Ascends
  <2>1. i \in DOMAIN link /\ link'[i] = link[i]
    BY <1>17, <1>19
  <2>2. CASE j \in DOMAIN link
    <3>1. link'[j] = link[j]
      BY <1>17, <1>19, <2>2
    <3> QED BY <1>17, <2>1, <2>2, <3>1 DEF Ascends
  <2>3. CASE j = Len(link) + 1
    BY <1>17, <1>19, <1>20, <2>1, <2>3
  <2> QED BY <1>17, <1>19, <2>2, <2>3
<1>22. \A i \in DOMAIN oldLink : \A j \in DOMAIN link' : Precedes(oldLink[i], link'[j])
  <2> SUFFICES ASSUME NEW i \in DOMAIN oldLink, NEW j \in DOMAIN link'
               PROVE  Precedes(oldLink[i], link'[j])
    OBVIOUS
  <2>1. CASE j \in DOMAIN link
    <3>1. link'[j] = link[j]
      BY <1>17, <1>19, <2>1
    <3> QED BY <1>1, <2>1, <3>1 DEF LinksOK
  <2>2. CASE j = Len(link) + 1
    BY <1>17, <1>19, <1>20, <2>2
  <2> QED BY <1>17, <1>19, <2>1, <2>2
<1>23. LinksOK'
  BY <1>1, <1>2, <1>17, <1>18, <1>19, <1>21, <1>22 DEF LinksOK
<1>24. PagesTyped' /\ (\A v \in Viewers : PathOK(v) /\ PageOK(v))'
  <2>1. UNCHANGED ring /\ UNCHANGED <<socketVars, chain, pageVars>>
    BY <1>2 DEF relayVars
  <2> QED BY <1>1, <1>12, <1>13, <2>1, PagesStay
<1> QED
  BY <1>12, <1>13, <1>23, <1>24 DEF StreamInv

\* The connection fails, and the publisher dials again.
LEMMA LinkStep ==
    ASSUME StreamInv, Cut \/ Connect
    PROVE  StreamInv'
<1>1. OutqOK /\ LinksOK /\ RingOK /\ SnapshotOK /\ PagesTyped
      /\ \A v \in Viewers : PathOK(v) /\ PageOK(v)
  BY DEF StreamInv
<1>2. /\ events' = events /\ sent' = sent /\ outq' = outq
      /\ UNCHANGED <<relayVars, socketVars, chain, pageVars>>
  BY DEF Cut, Connect, publisherVars
<1>3. OutqOK'
  BY <1>1, <1>2 DEF OutqOK
<1>4. Grows /\ RingOK' /\ SnapshotOK'
  <2>1. Len(sent) \in Nat
    BY <1>1 DEF OutqOK
  <2>2. Len(sent) <= Len(sent') /\ \A n \in DOMAIN sent : sent'[n] = sent[n]
    BY <1>2, <2>1
  <2> QED BY <1>1, <1>2, <1>3, <2>2, RelayStays
<1>5. Sounds' = Sounds
  <2>1. recorded' = recorded
    BY <1>2 DEF relayVars
  <2> QED BY <1>2, <2>1 DEF Sounds
<1>6. LinksOK'
  <2>1. CASE Cut
    <3>1. up' = FALSE /\ link' = <<>>
      BY <2>1 DEF Cut
    <3>2. PICK n \in 0 .. Len(link) : oldLink' = SubSeq(link, 1, n)
      BY <2>1 DEF Cut
    <3>3. link \in Seq(Sounds) /\ Ascends(link)
      BY <1>1 DEF LinksOK
    <3>4. /\ oldLink' \in Seq(Sounds) /\ DOMAIN oldLink' \subseteq DOMAIN link
          /\ \A i \in DOMAIN oldLink' : oldLink'[i] = link[i]
      BY <3>2, <3>3
    <3>5. Ascends(oldLink') /\ Ascends(<<>>) /\ <<>> \in Seq(Sounds)
      BY <3>3, <3>4 DEF Ascends
    <3>6. link' \in Seq(Sounds') /\ oldLink' \in Seq(Sounds') /\ Ascends(link')
      BY <1>5, <3>1, <3>4, <3>5
    <3>7. DOMAIN link' = {}
      BY <3>1
    <3> QED BY <3>1, <3>5, <3>6, <3>7 DEF LinksOK
  <2>2. CASE Connect
    <3>1. up' = TRUE /\ link' = link /\ oldLink' = oldLink
      BY <2>2 DEF Connect
    <3> QED BY <1>1, <1>5, <3>1 DEF LinksOK, Ascends
  <2> QED BY <2>1, <2>2
<1>7. PagesTyped' /\ (\A v \in Viewers : PathOK(v) /\ PageOK(v))'
  <2>1. UNCHANGED ring /\ UNCHANGED <<socketVars, chain, pageVars>>
    BY <1>2 DEF relayVars
  <2> QED BY <1>1, <1>3, <1>4, <2>1, PagesStay
<1> QED
  BY <1>3, <1>4, <1>6, <1>7 DEF StreamInv

----------------------------------------------------------------------------
(* A new room.                                                             *)

LEMMA PathNew ==
    ASSUME NEW P \in SUBSET Frame, NEW X
    PROVE  Path("off", 0, <<>>, <<>>, 0, P, X, {})
<1>1. <<>> \in Seq(P) /\ DOMAIN <<>> = {}
  OBVIOUS
<1>2. Clean(<<>>, 0, X) /\ Settles(<<>>, 0, X)
  BY <1>1 DEF Clean, Settles, Mentions
<1> QED
  BY <1>1, <1>2, NoItem DEF Path

\* The relay has nothing of the room, and no page has joined.
NewRoom ==
    /\ ring = <<>> /\ snapshot = NULL /\ last_seq = 0
    /\ recorded = {} /\ gone = {} /\ stamped = 0 /\ lapsed = {}
    /\ conn = [v \in Viewers |-> "off"] /\ asked = [v \in Viewers |-> 0]
    /\ queue = [v \in Viewers |-> <<>>] /\ chain = [v \in Viewers |-> <<>>]
    /\ lastSeq = [v \in Viewers |-> 0] /\ gapWarned = [v \in Viewers |-> 0]
    /\ drawn = [v \in Viewers |-> {}] /\ warned = [v \in Viewers |-> {}]
    /\ base = [v \in Viewers |-> NULL] /\ first = [v \in Viewers |-> 0]
RoomOK ==
    /\ RingOK /\ SnapshotOK /\ PagesTyped
    /\ \A v \in Viewers : PathOK(v) /\ PageOK(v)

LEMMA NewRoomOK == OutqOK /\ NewRoom => RoomOK
<1> SUFFICES ASSUME OutqOK, NewRoom
             PROVE  RoomOK
  OBVIOUS
<1>1. Len(sent) \in Nat /\ Numbers(ring) = {}
  BY DEF OutqOK, NewRoom, Numbers
<1>2. RingOK
  <2>1. ring \in Seq(Frame) /\ DOMAIN ring = {}
    BY DEF NewRoom
  <2> QED BY <1>1, <2>1 DEF RingOK, NewRoom
<1>3. SnapshotOK
  BY DEF SnapshotOK, NewRoom
<1>4. PagesTyped
  <2>1. <<>> \in Seq(Seq(Frame) \cup {RESYNC}) /\ <<>> \in Seq(Frame)
    OBVIOUS
  <2> QED BY <2>1 DEF PagesTyped, NewRoom
<1>5. 0 \in Reach
  BY DEF Reach
<1>6. ASSUME NEW v \in Viewers
      PROVE  PathOK(v) /\ PageOK(v)
  <2>1. /\ conn[v] = "off" /\ asked[v] = 0 /\ queue[v] = <<>> /\ chain[v] = <<>>
        /\ lastSeq[v] = 0 /\ gapWarned[v] = 0 /\ warned[v] = {} /\ base[v] = NULL
    BY DEF NewRoom
  <2>2. PathOK(v)
    <3>1. Passables \in SUBSET Frame
      BY DEF Passables
    <3> QED BY <1>1, <2>1, <3>1, PathNew DEF PathOK
  <2>3. PageOK(v)
    BY <1>1, <1>5, <2>1 DEF PageOK
  <2> QED BY <2>2, <2>3
<1> QED
  BY <1>2, <1>3, <1>4, <1>6 DEF RoomOK

LEMMA StreamInit == Init => StreamInv
<1> SUFFICES ASSUME Init
             PROVE  StreamInv
  OBVIOUS
<1>1. OutqOK
  BY DEF Init, OutqOK, Waits
<1>2. NewRoom
  BY DEF Init, NewRoom
<1>3. LinksOK
  <2>1. <<>> \in Seq(Sounds) /\ DOMAIN <<>> = {}
    OBVIOUS
  <2>2. up = FALSE /\ link = <<>> /\ oldLink = <<>>
    BY DEF Init
  <2> QED BY <2>1, <2>2 DEF LinksOK, Ascends
<1> QED
  BY <1>1, <1>2, <1>3, NewRoomOK DEF StreamInv, RoomOK

LEMMA ReprovisionStep ==
    ASSUME StreamInv, Reprovision
    PROVE  StreamInv'
<1>1. OutqOK'
  BY DEF StreamInv, OutqOK, Reprovision, publisherVars
<1>2. NewRoom'
  BY DEF NewRoom, Reprovision
<1>3. RoomOK'
  BY <1>1, <1>2, NewRoomOK, PTL
<1>4. LinksOK'
  <2>1. <<>> \in Seq(Sounds') /\ DOMAIN <<>> = {}
    OBVIOUS
  <2>2. up' = FALSE /\ link' = <<>> /\ oldLink' = <<>>
    BY DEF StreamInv, LinksOK, Reprovision
  <2> QED BY <2>1, <2>2 DEF LinksOK, Ascends
<1> QED
  BY <1>1, <1>3, <1>4 DEF StreamInv, RoomOK

----------------------------------------------------------------------------
(* The steps of the relay.                                                 *)

\* What a frame of output does to the relay: it is recorded, and what it leaps
\* over is lost.
LEMMA ReceiveOut ==
    ASSUME OutqOK, OutqOK', RingOK, SnapshotOK, sent' = sent,
           NEW f \in Sounds, f.kind = "out", Receive(f)
    PROVE  /\ Grows /\ RingOK' /\ SnapshotOK' /\ f \in Passables'
           /\ recorded' = recorded \cup {f.seq}
           /\ Numbers(ring') \subseteq Numbers(ring) \cup {f.seq}
           /\ \A n \in 1 .. f.seq - 1 : n \in Lost' \cup Numbers(ring)
<1> DEFINE longer == Append(ring, f)
<1>1. /\ last_seq' = f.seq /\ recorded' = recorded \cup {f.seq} /\ snapshot' = snapshot
      /\ stamped' = stamped /\ lapsed' = lapsed
      /\ ring' = IF Len(longer) > RingMax THEN Tail(longer) ELSE longer
      /\ gone' = gone \cup {n \in 1 .. f.seq : n \notin recorded' /\ n # f.seq}
                      \cup (Numbers(ring) \ Numbers(ring'))
  BY DEF Receive, record_out, Recorded
<1>2. /\ f \in Frame /\ f.seq \in Nat \ {0} /\ f.seq <= Len(sent) /\ f.seq \notin recorded
  BY DEF Sounds, Frame
<1>3. sent \in Seq(Nat) /\ Len(sent) \in Nat
  BY DEF OutqOK
<1>4. /\ ring \in Seq(Frame) /\ DOMAIN ring = 1 .. Len(ring) /\ Len(ring) \in Nat
      /\ recorded \subseteq 1 .. Len(sent) /\ gone \subseteq Nat /\ lapsed \subseteq Nat
      /\ stamped \in Nat
  BY DEF RingOK
<1>5. /\ \A i \in DOMAIN ring : ring[i].kind = "out" /\ ring[i].seq \in recorded
      /\ recorded \ Numbers(ring) \subseteq gone
      /\ \A r \in recorded : \A n \in 1 .. r : n \in recorded \cup gone
  BY DEF RingOK
<1>6. /\ longer \in Seq(Frame) /\ Len(longer) = Len(ring) + 1
      /\ DOMAIN longer = 1 .. Len(ring) + 1
      /\ longer[Len(ring) + 1] = f /\ \A k \in 1 .. Len(ring) : longer[k] = ring[k]
  BY <1>2, <1>4, SeqLonger
<1> HIDE DEF longer
\* By d frames the ring has moved on.
<1>7. PICK d \in {0, 1} : /\ ring' \in Seq(Frame) /\ Len(ring') = Len(longer) - d
                          /\ DOMAIN ring' = 1 .. Len(longer) - d /\ Len(longer) - d >= 1
                          /\ \A k \in DOMAIN ring' : ring'[k] = longer[k + d]
  <2>1. CASE Len(longer) > RingMax
    <3>1. ring' = Tail(longer) /\ Len(longer) > 1 /\ longer # <<>>
      BY <1>1, <1>4, <1>6, <2>1, WebStreamAssumption
    <3>2. /\ ring' \in Seq(Frame) /\ Len(ring') = Len(longer) - 1
          /\ DOMAIN ring' = 1 .. Len(longer) - 1
          /\ \A k \in 1 .. Len(longer) - 1 : ring'[k] = longer[k + 1]
      BY <1>6, <3>1, SeqParts
    <3>3. Len(longer) - 1 >= 1
      BY <1>4, <1>6, <3>1
    <3> QED BY <3>2, <3>3
  <2>2. CASE ~ (Len(longer) > RingMax)
    <3>1. ring' = longer /\ Len(longer) - 0 = Len(longer) /\ Len(longer) >= 1
      BY <1>1, <1>4, <1>6, <2>2
    <3>2. \A k \in DOMAIN ring' : k + 0 = k
      BY <1>6, <3>1
    <3> QED BY <1>6, <3>1, <3>2
  <2> QED BY <2>1, <2>2
<1>8. \A k \in DOMAIN ring' :
          /\ k + d \in 1 .. Len(ring) + 1 /\ ring'[k] = longer[k + d]
          /\ k + d = Len(ring) + 1 => ring'[k] = f
          /\ k + d # Len(ring) + 1 => k + d \in DOMAIN ring /\ ring'[k] = ring[k + d]
  <2>1. \A k \in DOMAIN ring' : k + d \in 1 .. Len(ring) + 1 /\ ring'[k] = longer[k + d]
    BY <1>4, <1>6, <1>7
  <2>2. \A k \in DOMAIN ring' : k + d # Len(ring) + 1 => k + d \in DOMAIN ring
    BY <1>4, <2>1
  <2> QED BY <1>4, <1>6, <2>1, <2>2
<1>9. Numbers(ring') \subseteq Numbers(ring) \cup {f.seq}
  BY <1>8 DEF Numbers
<1>10. f.seq \in Numbers(ring')
  <2>1. Len(ring') \in DOMAIN ring' /\ Len(ring') + d = Len(ring) + 1
    BY <1>4, <1>6, <1>7
  <2> QED BY <1>8, <2>1 DEF Numbers
<1>11. Numbers(ring) \subseteq recorded /\ Numbers(ring) \subseteq Nat /\ recorded \subseteq Nat
  BY Recordings
<1>12. gone \subseteq gone' /\ gone' \subseteq Nat
  <2>1. gone \subseteq gone' /\ gone' \subseteq gone \cup (1 .. f.seq) \cup Numbers(ring)
    BY <1>1
  <2>2. gone \subseteq Nat /\ 1 .. f.seq \subseteq Nat
    BY <1>4
  <2> QED BY <1>11, <2>1, <2>2
<1>13. ASSUME NEW r \in recorded', NEW n \in 1 .. r
       PROVE  n \in recorded' \cup gone'
  <2>1. CASE r \in recorded
    BY <1>1, <1>5, <1>12, <2>1
  <2>2. CASE r = f.seq
    BY <1>1, <1>13, <2>2
  <2> QED BY <1>1, <1>13, <2>1, <2>2
<1>14. recorded' \ Numbers(ring') \subseteq gone'
  BY <1>1, <1>5, <1>10, <1>12
<1>15. RingOK'
  <2>1. recorded' \subseteq 1 .. Len(sent')
    <3>1. f.seq \in 1 .. Len(sent)
      BY <1>2, <1>3
    <3>2. recorded \subseteq 1 .. Len(sent) /\ recorded' = recorded \cup {f.seq}
      BY <1>1, <1>4
    <3> QED BY <3>1, <3>2
  <2>2. \A i \in DOMAIN ring' : ring'[i].kind = "out" /\ ring'[i].seq \in recorded'
    BY <1>1, <1>5, <1>8
  <2>3. ASSUME NEW i \in DOMAIN ring', NEW j \in DOMAIN ring', ring'[i].seq = ring'[j].seq
        PROVE  i = j
    <3>1. i \in Nat /\ j \in Nat /\ Len(ring) + 1 \in Nat
      BY <1>4, <1>7
    <3>2. CASE i + d = Len(ring) + 1 /\ j + d = Len(ring) + 1
      BY <3>1, <3>2
    <3>3. CASE i + d = Len(ring) + 1 /\ j + d # Len(ring) + 1
      BY <1>2, <1>5, <1>8, <2>3, <3>3
    <3>4. CASE i + d # Len(ring) + 1 /\ j + d = Len(ring) + 1
      BY <1>2, <1>5, <1>8, <2>3, <3>4
    <3>5. CASE i + d # Len(ring) + 1 /\ j + d # Len(ring) + 1
      <4>1. /\ i + d \in DOMAIN ring /\ j + d \in DOMAIN ring
            /\ ring[i + d].seq = ring[j + d].seq
        BY <1>8, <2>3, <3>5
      <4>2. i + d = j + d
        BY <4>1 DEF RingOK
      <4> QED BY <3>1, <4>2
    <3> QED BY <3>2, <3>3, <3>4, <3>5
  <2>4. ASSUME NEW i \in DOMAIN ring', NEW j \in DOMAIN ring', i < j,
               ring'[j].seq < ring'[i].seq
        PROVE  ring'[j].seq \in gone'
    <3>1. /\ i \in Nat /\ j \in Nat /\ i + d < j + d /\ i + d # Len(ring) + 1
          /\ j + d <= Len(ring) + 1
      BY <1>4, <1>6, <1>7, <2>4
    <3>2. i + d \in DOMAIN ring /\ ring'[i] = ring[i + d]
      BY <1>8, <3>1
    <3>3. CASE j + d = Len(ring) + 1
      <4>1. ring'[j] = f /\ ring[i + d].seq \in recorded
        BY <1>5, <1>8, <3>2, <3>3
      <4>2. f.seq \in 1 .. ring[i + d].seq
        <5>1. ring[i + d].seq \in Nat
          BY <1>11, <4>1
        <5>2. f.seq < ring[i + d].seq
          BY <2>4, <3>2, <4>1
        <5> QED BY <1>2, <5>1, <5>2
      <4>3. f.seq \in recorded \cup gone
        BY <1>5, <4>1, <4>2
      <4> QED BY <1>2, <1>12, <4>1, <4>3
    <3>4. CASE j + d # Len(ring) + 1
      <4>1. j + d \in DOMAIN ring /\ ring'[j] = ring[j + d]
        BY <1>8, <3>4
      <4>2. ring[j + d].seq \in gone
        BY <2>4, <3>1, <3>2, <4>1 DEF RingOK
      <4> QED BY <1>12, <4>1, <4>2
    <3> QED BY <3>3, <3>4
  <2>5. last_seq' \in recorded' \cup {0} /\ stamped' \in Nat /\ lapsed' \subseteq Nat
    BY <1>1, <1>4
  <2> QED BY <1>7, <1>12, <1>13, <1>14, <2>1, <2>2, <2>3, <2>4, <2>5 DEF RingOK
<1>16. Grows
  BY <1>1, <1>3, <1>4, <1>12 DEF Grows
<1>17. SnapshotOK'
  <2>1. \A g \in Frame : Claims(g) => Claims(g)'
    BY <1>15, <1>16, GrowsKeeps
  <2>2. \A g \in Frame : Claims(g) =>
            g.seq <= Len(sent') /\ \A n \in 1 .. g.seq : sent'[n] <= g.pt \/ n <= stamped'
    BY <2>1 DEF Claims
  <2> QED BY <1>1, <2>2 DEF SnapshotOK, Claims
<1>18. f \in Passables'
  <2>1. \A n \in 1 .. f.seq : n \in recorded' \cup gone'
    BY <1>1, <1>13
  <2>2. f.seq \in Reach'
    BY <1>2, <2>1 DEF Reach, Backed, Lost
  <2> QED BY <1>1, <1>2, <2>2 DEF Passables
<1>19. ASSUME NEW n \in 1 .. f.seq - 1
       PROVE  n \in Lost' \cup Numbers(ring)
  <2>1. n \in 1 .. f.seq /\ n # f.seq
    BY <1>2
  <2>2. n \in recorded \cup gone'
    BY <1>1, <1>13, <2>1
  <2> QED BY <1>5, <1>12, <2>2 DEF Lost
<1> QED
  BY <1>1, <1>9, <1>15, <1>16, <1>17, <1>18, <1>19

\* What a snapshot does: it takes the place of the one before.
LEMMA ReceiveSnapshot ==
    ASSUME Marks, OutqOK, OutqOK', RingOK, SnapshotOK, sent' = sent,
           NEW f \in Sounds, f.kind = "snapshot", Receive(f)
    PROVE  Grows /\ RingOK' /\ SnapshotOK' /\ recorded' = recorded /\ ring' = ring /\ queue' = queue
<1> DEFINE m == IF f.seq = 0 THEN last_seq ELSE f.seq
<1>1. /\ snapshot' = [f EXCEPT !.seq = m]
      /\ stamped' = IF f.seq = 0 /\ last_seq > stamped THEN last_seq ELSE stamped
      /\ lapsed' = IF snapshot = NULL THEN lapsed
                   ELSE lapsed \cup (snapshot'.seq + 1 .. snapshot.seq)
      /\ ring' = ring /\ last_seq' = last_seq /\ recorded' = recorded /\ gone' = gone
      /\ queue' = queue
  BY DEF Receive
<1>2. /\ f \in Frame /\ f.seq \in Nat /\ f.pt \in Nat /\ f.seq <= Len(sent)
      /\ \A n \in 1 .. f.seq : sent[n] <= f.pt
  BY DEF Sounds, Frame
<1>3. sent \in Seq(Nat) /\ Len(sent) \in Nat
  BY DEF OutqOK
<1>4. last_seq \in 0 .. Len(sent) /\ stamped \in Nat /\ lapsed \subseteq Nat
  BY <1>3 DEF RingOK
<1>5. m \in 0 .. Len(sent)
  BY <1>2, <1>4
<1>6. snapshot' = [kind |-> "snapshot", seq |-> m, pt |-> f.pt]
  BY <1>1, <1>2 DEF Frame
<1>7. /\ snapshot' \in Frame /\ snapshot'.kind = "snapshot" /\ snapshot'.seq = m
      /\ snapshot'.pt = f.pt
  BY <1>2, <1>3, <1>5, <1>6 DEF Frame
<1>8. stamped' \in Nat /\ stamped <= stamped' /\ (f.seq = 0 => last_seq <= stamped')
  BY <1>1, <1>3, <1>4
<1>9. snapshot # NULL => snapshot.seq \in Nat
  BY SnapshotIsPassable
<1>10. lapsed' \subseteq Nat /\ lapsed \subseteq lapsed'
  BY <1>1, <1>3, <1>4, <1>5, <1>7, <1>9
<1>11. ASSUME snapshot # NULL, NEW n \in Nat, n <= snapshot.seq
       PROVE  n <= snapshot'.seq \/ n \in lapsed'
  BY <1>1, <1>3, <1>5, <1>7, <1>9, <1>11
<1>12. snapshot' # NULL
  <2>1. snapshot' \in Frame /\ NULL \notin Frame
    BY <1>7 DEF Marks
  <2> QED BY <2>1
<1>13. Grows
  BY <1>1, <1>3, <1>8, <1>10, <1>11, <1>12 DEF Grows
<1>14. RingOK'
  <2>1. Numbers(ring') = Numbers(ring)
    BY <1>1
  <2> QED BY <1>1, <1>8, <1>10, <2>1 DEF RingOK
<1>15. SnapshotOK'
  <2>1. ASSUME NEW n \in 1 .. m
        PROVE  sent[n] <= f.pt \/ n <= stamped'
    <3>1. CASE f.seq = 0
      BY <1>3, <1>4, <1>8, <3>1
    <3>2. CASE f.seq # 0
      BY <1>2, <3>2
    <3> QED BY <3>1, <3>2
  <2>2. m <= Len(sent)
    BY <1>3, <1>5
  <2> HIDE DEF m
  <2> QED BY <1>7, <2>1, <2>2 DEF SnapshotOK, Claims
<1> QED
  BY <1>1, <1>13, <1>14, <1>15

\* What it does to the way to a page.
LEMMA FannedOK ==
    ASSUME Marks, OutqOK, OutqOK', RingOK, RingOK', Grows, PagesTyped,
           NEW f \in Frame, f.kind = "out", f \in Passables',
           Numbers(ring') \subseteq Numbers(ring) \cup {f.seq},
           \A n \in 1 .. f.seq - 1 : n \in Lost' \cup Numbers(ring),
           UNCHANGED <<conn, asked, chain, pageVars>>, NEW v \in Viewers, PathOK(v),
           queue'[v] = Fanned(v, f)
    PROVE  PathOK(v)'
<1>1. /\ conn' = conn /\ asked' = asked /\ chain' = chain /\ lastSeq' = lastSeq
      /\ lastSeq[v] \in Nat
  BY DEF pageVars, PagesTyped
<1>2. CASE conn[v] # "on"
  <2>1. queue'[v] = queue[v]
    BY <1>2 DEF Fanned
  <2> QED BY <1>1, <1>2, <2>1, PathStays
<1>3. CASE conn[v] = "on"
  <2> DEFINE P == Passables'
             X == Lost'
             R == Numbers(ring)
             S == Numbers(ring')
             q == queue[v]
             c == chain[v]
             l == lastSeq[v]
             a == asked[v]
  <2>1. Passables \subseteq P /\ Lost \subseteq X /\ P \subseteq Frame
    BY GrowsKeeps DEF Passables
  <2>2. R \in SUBSET Nat
    BY Recordings
  <2>3. S \in SUBSET Nat
    <3>1. f.seq \in Nat
      BY DEF Frame
    <3> QED BY <2>2, <3>1
  <2>4. Path("on", a, q, c, l, Passables, Lost, R)
    BY <1>3 DEF PathOK
  <2>5. Passables \in SUBSET Frame /\ P \in SUBSET Frame
    BY <2>1
  <2>6. S \subseteq R \cup {f.seq} /\ (\A n \in 1 .. f.seq - 1 : n \in X \cup R) /\ f \in P
    OBVIOUS
  <2>7. PathOK(v)' <=> Path("on", a, queue'[v], c, l, P, X, S)
    BY <1>1, <1>3 DEF PathOK, Numbers
  <2>8. Passables \subseteq P /\ Lost \subseteq X /\ l \in Nat
    BY <1>1, <2>1
  <2> HIDE DEF P, X, R, S, q, c, l, a
  <2>9. Path("on", a, q, c, l, P, X, R)
    BY <2>4, <2>5, <2>8, PathKeeps
  <2>10. CASE Len(q) < QueueMax
    <3>1. queue'[v] = Append(q, <<f>>)
      BY <1>3, <2>10 DEF Fanned, q
    <3>2. Path("on", a, Append(q, <<f>>), c, l, P, X, S)
      BY <2>2, <2>3, <2>5, <2>6, <2>8, <2>9, PathTakes
    <3> QED BY <2>7, <3>1, <3>2
  <2>11. CASE ~ (Len(q) < QueueMax)
    <3>1. queue'[v] = <<RESYNC>>
      BY <1>3, <2>11 DEF Fanned, q
    <3>2. Path("on", a, <<RESYNC>>, c, l, P, X, R)
      BY <2>2, <2>5, <2>8, <2>9, PathTurns
    <3>3. Resyncs(<<RESYNC>>)
      BY DEF Resyncs
    <3>4. Path("on", a, <<RESYNC>>, c, l, P, X, S)
      BY <3>2, <3>3 DEF Path
    <3> QED BY <2>7, <3>1, <3>4
  <2> QED BY <2>10, <2>11
<1> QED BY <1>2, <1>3

\* One message, whichever connection it comes from.
LEMMA ReceiveStep ==
    ASSUME Marks, StreamInv, NEW f \in Sounds, Receive(f),
           UNCHANGED <<publisherVars, conn, asked, chain, pageVars>>
    PROVE  /\ OutqOK' /\ RingOK' /\ SnapshotOK' /\ PagesTyped'
           /\ (\A v \in Viewers : PathOK(v) /\ PageOK(v))'
           /\ recorded' = recorded \cup (IF f.kind = "out" THEN {f.seq} ELSE {})
<1>1. OutqOK /\ LinksOK /\ RingOK /\ SnapshotOK /\ PagesTyped
      /\ \A v \in Viewers : PathOK(v) /\ PageOK(v)
  BY DEF StreamInv
<1>2. /\ events' = events /\ sent' = sent /\ outq' = outq
  BY DEF publisherVars
<1>3. OutqOK'
  BY <1>1, <1>2 DEF OutqOK
<1>4. f \in Frame /\ f.kind \in {"out", "snapshot"}
  BY DEF Sounds, Frame
<1>5. CASE f.kind = "out"
  <2>1. /\ Grows /\ RingOK' /\ SnapshotOK' /\ f \in Passables'
        /\ recorded' = recorded \cup {f.seq}
        /\ Numbers(ring') \subseteq Numbers(ring) \cup {f.seq}
        /\ \A n \in 1 .. f.seq - 1 : n \in Lost' \cup Numbers(ring)
    BY <1>1, <1>2, <1>3, <1>5, ReceiveOut
  <2>2. queue' = [v \in Viewers |-> Fanned(v, f)]
    BY <1>5 DEF Receive
  <2>3. ASSUME NEW v \in Viewers
        PROVE  PathOK(v)'
    <3>1. queue'[v] = Fanned(v, f) /\ PathOK(v)
      BY <1>1, <2>2
    <3> QED BY <1>1, <1>3, <1>4, <1>5, <2>1, <3>1, FannedOK
  <2>4. ASSUME NEW v \in Viewers
        PROVE  PageOK(v)'
    BY <1>1, <1>3, <2>1, PageKeeps
  <2>5. PagesTyped'
    <3>1. \A v \in Viewers : queue'[v] \in Seq(Seq(Frame) \cup {RESYNC})
      BY <2>3 DEF PathOK, Path, QueueOK
    <3>2. queue' \in [Viewers -> Seq(Seq(Frame) \cup {RESYNC})]
      BY <2>2, <3>1
    <3> QED BY <1>1, <3>2 DEF PagesTyped, pageVars
  <2> QED BY <1>3, <1>5, <2>1, <2>3, <2>4, <2>5
<1>6. CASE f.kind = "snapshot"
  <2>1. /\ Grows /\ RingOK' /\ SnapshotOK' /\ recorded' = recorded /\ ring' = ring
        /\ queue' = queue
    BY <1>1, <1>2, <1>3, <1>6, ReceiveSnapshot
  <2>2. PagesTyped' /\ (\A v \in Viewers : PathOK(v) /\ PageOK(v))'
    <3>1. UNCHANGED ring /\ UNCHANGED <<socketVars, chain, pageVars>>
      BY <2>1 DEF socketVars
    <3> QED BY <1>1, <1>3, <2>1, <3>1, PagesStay
  <2> QED BY <1>3, <1>6, <2>1, <2>2
<1> QED BY <1>4, <1>5, <1>6

\* What is on its way stays good when another number is recorded.
LEMMA SoundsStay ==
    ASSUME sent' = sent, NEW f \in Sounds, NEW g \in Sounds,
           recorded' = recorded \cup (IF f.kind = "out" THEN {f.seq} ELSE {}),
           Precedes(f, g) \/ Precedes(g, f)
    PROVE  g \in Sounds'
<1>1. g \in Frame /\ f.seq \in Nat /\ g.seq \in Nat
  BY DEF Sounds, Frame
<1>2. ASSUME g.kind = "out"
      PROVE  g.seq # 0 /\ g.seq \notin recorded'
  <2>1. g.seq # 0 /\ g.seq \notin recorded
    BY <1>2 DEF Sounds
  <2>2. f.kind = "out" => g.seq # f.seq
    BY <1>1, <1>2 DEF Precedes
  <2> QED BY <2>1, <2>2
<1> QED
  BY <1>1, <1>2 DEF Sounds

LEMMA RecvStep ==
    ASSUME Marks, StreamInv, Recv
    PROVE  StreamInv'
<1>1. LinksOK /\ link # <<>> /\ link' = Tail(link) /\ up' = up /\ oldLink' = oldLink
      /\ UNCHANGED <<publisherVars, conn, asked, chain, pageVars>>
  BY DEF StreamInv, Recv
<1> DEFINE f == link[1]
<1>2. Receive(f)
  <2>1. Head(link) = f
    OBVIOUS
  <2> QED BY <2>1 DEF Recv
<1>3. /\ link \in Seq(Sounds) /\ oldLink \in Seq(Sounds) /\ f \in Sounds
      /\ DOMAIN link = 1 .. Len(link) /\ Len(link) \in Nat \ {0}
      /\ Tail(link) \in Seq(Sounds) /\ DOMAIN Tail(link) = 1 .. Len(link) - 1
      /\ \A k \in 1 .. Len(link) - 1 : Tail(link)[k] = link[k + 1] /\ link[k + 1] \in Sounds
  BY <1>1, SeqParts DEF LinksOK
<1> HIDE DEF f
<1>4. /\ OutqOK' /\ RingOK' /\ SnapshotOK' /\ PagesTyped'
      /\ (\A v \in Viewers : PathOK(v) /\ PageOK(v))'
      /\ recorded' = recorded \cup (IF f.kind = "out" THEN {f.seq} ELSE {})
  BY <1>1, <1>2, <1>3, ReceiveStep
<1>5. sent' = sent
  BY <1>1 DEF publisherVars
<1>6. \A k \in DOMAIN link' : /\ link'[k] = link[k + 1] /\ k + 1 \in DOMAIN link
                              /\ 1 \in DOMAIN link /\ 1 < k + 1
  BY <1>1, <1>3
<1>7. \A k \in DOMAIN link' : link'[k] \in Sounds'
  <2> SUFFICES ASSUME NEW k \in DOMAIN link'
               PROVE  link'[k] \in Sounds'
    OBVIOUS
  <2>1. link'[k] \in Sounds /\ Precedes(f, link'[k])
    BY <1>1, <1>3, <1>6 DEF LinksOK, Ascends, f
  <2> QED BY <1>3, <1>4, <1>5, <2>1, SoundsStay
<1>8. \A k \in DOMAIN oldLink : oldLink[k] \in Sounds'
  <2> SUFFICES ASSUME NEW k \in DOMAIN oldLink
               PROVE  oldLink[k] \in Sounds'
    OBVIOUS
  <2>1. oldLink[k] \in Sounds /\ Precedes(oldLink[k], f)
    BY <1>1, <1>3 DEF LinksOK, f
  <2> QED BY <1>3, <1>4, <1>5, <2>1, SoundsStay
<1>9. link' \in Seq(Sounds') /\ oldLink' \in Seq(Sounds')
  <2>1. link' \in Seq(Sounds) /\ oldLink' \in Seq(Sounds)
    BY <1>1, <1>3
  <2>2. \A k \in DOMAIN oldLink' : oldLink'[k] \in Sounds'
    BY <1>1, <1>8
  <2> QED BY <1>7, <2>1, <2>2, SeqOver
<1>10. Ascends(link')
  <2>1. \A i, j \in DOMAIN link' : i < j => i + 1 < j + 1
    BY <1>1, <1>3
  <2> QED BY <1>1, <1>6, <2>1 DEF LinksOK, Ascends
<1>11. LinksOK'
  <2>1. \A i \in DOMAIN oldLink : \A j \in DOMAIN link' : Precedes(oldLink[i], link'[j])
    BY <1>1, <1>6 DEF LinksOK
  <2>2. ~up' => link' = <<>>
    BY <1>1 DEF LinksOK
  <2> QED BY <1>1, <1>9, <1>10, <2>1, <2>2 DEF LinksOK
<1> QED
  BY <1>4, <1>11 DEF StreamInv

LEMMA RecvOldStep ==
    ASSUME Marks, StreamInv, RecvOld
    PROVE  StreamInv'
<1>1. LinksOK /\ oldLink # <<>> /\ oldLink' = Tail(oldLink) /\ up' = up /\ link' = link
      /\ UNCHANGED <<publisherVars, conn, asked, chain, pageVars>>
  BY DEF StreamInv, RecvOld
<1> DEFINE f == oldLink[1]
<1>2. Receive(f)
  <2>1. Head(oldLink) = f
    OBVIOUS
  <2> QED BY <2>1 DEF RecvOld
<1>3. /\ link \in Seq(Sounds) /\ oldLink \in Seq(Sounds) /\ f \in Sounds
      /\ DOMAIN oldLink = 1 .. Len(oldLink) /\ Len(oldLink) \in Nat \ {0}
      /\ Tail(oldLink) \in Seq(Sounds) /\ DOMAIN Tail(oldLink) = 1 .. Len(oldLink) - 1
      /\ \A k \in 1 .. Len(oldLink) - 1 :
            Tail(oldLink)[k] = oldLink[k + 1] /\ oldLink[k + 1] \in Sounds
  BY <1>1, SeqParts DEF LinksOK
<1> HIDE DEF f
<1>4. /\ OutqOK' /\ RingOK' /\ SnapshotOK' /\ PagesTyped'
      /\ (\A v \in Viewers : PathOK(v) /\ PageOK(v))'
      /\ recorded' = recorded \cup (IF f.kind = "out" THEN {f.seq} ELSE {})
  BY <1>1, <1>2, <1>3, ReceiveStep
<1>5. sent' = sent
  BY <1>1 DEF publisherVars
<1>6. \A k \in DOMAIN oldLink' : /\ oldLink'[k] = oldLink[k + 1] /\ k + 1 \in DOMAIN oldLink
                                 /\ 1 \in DOMAIN oldLink /\ 1 < k + 1
  BY <1>1, <1>3
<1>7. \A k \in DOMAIN oldLink' : oldLink'[k] \in Sounds'
  <2> SUFFICES ASSUME NEW k \in DOMAIN oldLink'
               PROVE  oldLink'[k] \in Sounds'
    OBVIOUS
  <2>1. oldLink'[k] \in Sounds /\ Precedes(f, oldLink'[k])
    BY <1>1, <1>3, <1>6 DEF LinksOK, Ascends, f
  <2> QED BY <1>3, <1>4, <1>5, <2>1, SoundsStay
<1>8. \A k \in DOMAIN link : link[k] \in Sounds'
  <2> SUFFICES ASSUME NEW k \in DOMAIN link
               PROVE  link[k] \in Sounds'
    OBVIOUS
  <2>1. 1 \in DOMAIN oldLink
    BY <1>3
  <2>2. link[k] \in Sounds /\ Precedes(f, link[k])
    BY <1>1, <1>3, <2>1 DEF LinksOK, f
  <2> QED BY <1>3, <1>4, <1>5, <2>2, SoundsStay
<1>9. link' \in Seq(Sounds') /\ oldLink' \in Seq(Sounds')
  <2>1. link' \in Seq(Sounds) /\ oldLink' \in Seq(Sounds)
    BY <1>1, <1>3
  <2>2. \A k \in DOMAIN link' : link'[k] \in Sounds'
    BY <1>1, <1>8
  <2> QED BY <1>7, <2>1, <2>2, SeqOver
<1>10. Ascends(oldLink')
  <2>1. \A i, j \in DOMAIN oldLink' : i < j => i + 1 < j + 1
    BY <1>1, <1>3
  <2> QED BY <1>1, <1>6, <2>1 DEF LinksOK, Ascends
<1>11. LinksOK'
  <2>1. \A i \in DOMAIN oldLink' : \A j \in DOMAIN link : Precedes(oldLink'[i], link[j])
    BY <1>1, <1>6 DEF LinksOK
  <2>2. ~up' => link' = <<>>
    BY <1>1 DEF LinksOK
  <2>3. Ascends(link')
    BY <1>1 DEF LinksOK
  <2> QED BY <1>1, <1>9, <1>10, <2>1, <2>2, <2>3 DEF LinksOK
<1> QED
  BY <1>4, <1>11 DEF StreamInv

----------------------------------------------------------------------------
(* The steps of the viewers.                                               *)

\* A viewer's step leaves the publisher and the room alone.
LEMMA Aside ==
    ASSUME StreamInv, UNCHANGED <<publisherVars, linkVars, relayVars>>
    PROVE  /\ OutqOK' /\ LinksOK' /\ RingOK' /\ SnapshotOK' /\ Grows
           /\ Lost' = Lost /\ Reach' = Reach /\ Passables' = Passables
           /\ Numbers(ring)' = Numbers(ring)
           /\ ring' = ring /\ sent' = sent /\ stamped' = stamped
<1>1. OutqOK /\ LinksOK /\ RingOK /\ SnapshotOK
  BY DEF StreamInv
<1>2. /\ events' = events /\ sent' = sent /\ outq' = outq
      /\ up' = up /\ link' = link /\ oldLink' = oldLink
      /\ ring' = ring /\ snapshot' = snapshot /\ recorded' = recorded /\ gone' = gone
      /\ stamped' = stamped /\ lapsed' = lapsed /\ UNCHANGED relayVars
  BY DEF publisherVars, linkVars, relayVars
<1>3. OutqOK'
  BY <1>1, <1>2 DEF OutqOK
<1>4. Grows /\ RingOK' /\ SnapshotOK'
  <2>1. Len(sent) \in Nat
    BY <1>1 DEF OutqOK
  <2>2. Len(sent) <= Len(sent') /\ \A n \in DOMAIN sent : sent'[n] = sent[n]
    BY <1>2, <2>1
  <2> QED BY <1>1, <1>2, <1>3, <2>2, RelayStays
<1>5. LinksOK'
  <2>1. Sounds' = Sounds
    BY <1>2 DEF Sounds
  <2> QED BY <1>1, <1>2, <2>1 DEF LinksOK, Ascends
<1>6. Lost' = Lost /\ Numbers(ring)' = Numbers(ring)
  BY <1>2 DEF Lost, Numbers
<1>7. Reach' = Reach
  BY <1>2, <1>6 DEF Reach, Backed
<1>8. Passables' = Passables
  BY <1>2, <1>7 DEF Passables, Claims
<1> QED
  BY <1>2, <1>3, <1>4, <1>5, <1>6, <1>7, <1>8

\* The pages but v.
LEMMA OthersStay ==
    ASSUME StreamInv, UNCHANGED <<publisherVars, linkVars, relayVars>>, NEW w \in Viewers,
           conn'[w] = conn[w], asked'[w] = asked[w], queue'[w] = queue[w],
           chain'[w] = chain[w], lastSeq'[w] = lastSeq[w], gapWarned'[w] = gapWarned[w],
           drawn'[w] = drawn[w], warned'[w] = warned[w], base'[w] = base[w],
           first'[w] = first[w]
    PROVE  PathOK(w)' /\ PageOK(w)'
<1>1. PathOK(w) /\ PageOK(w)
  BY DEF StreamInv
<1>2. /\ Lost' = Lost /\ Reach' = Reach /\ Passables' = Passables
      /\ Numbers(ring)' = Numbers(ring) /\ sent' = sent /\ stamped' = stamped
  BY Aside
<1>3. PathOK(w)'
  BY <1>1, <1>2 DEF PathOK
<1>4. PageOK(w)'
  BY <1>1, <1>2 DEF PageOK
<1> QED
  BY <1>3, <1>4

\* A step of the socket, or of the queue, of v.
LEMMA SocketStep ==
    ASSUME StreamInv, NEW v \in Viewers,
           UNCHANGED <<publisherVars, linkVars, relayVars, pageVars>>,
           NEW o, NEW a, NEW q, NEW c,
           conn' = [conn EXCEPT ![v] = o], asked' = [asked EXCEPT ![v] = a],
           queue' = [queue EXCEPT ![v] = q], chain' = [chain EXCEPT ![v] = c],
           Path(o, a, q, c, lastSeq[v], Passables, Lost, Numbers(ring))
    PROVE  StreamInv'
<1>1. OutqOK /\ LinksOK /\ RingOK /\ SnapshotOK /\ PagesTyped
      /\ \A w \in Viewers : PathOK(w) /\ PageOK(w)
  BY DEF StreamInv
<1>2. /\ OutqOK' /\ LinksOK' /\ RingOK' /\ SnapshotOK' /\ Grows
      /\ Lost' = Lost /\ Passables' = Passables /\ Numbers(ring)' = Numbers(ring)
  BY Aside
<1>3. /\ lastSeq' = lastSeq /\ gapWarned' = gapWarned /\ drawn' = drawn
      /\ warned' = warned /\ base' = base /\ first' = first
  BY DEF pageVars
<1>4. /\ conn'[v] = o /\ asked'[v] = a /\ queue'[v] = q /\ chain'[v] = c
      /\ \A w \in Viewers \ {v} : /\ conn'[w] = conn[w] /\ asked'[w] = asked[w]
                                  /\ queue'[w] = queue[w] /\ chain'[w] = chain[w]
  BY <1>1 DEF PagesTyped
<1>5. PagesTyped'
  <2>1. o \in {"off", "hello", "on"} /\ a \in Nat /\ q \in Seq(Seq(Frame) \cup {RESYNC})
    BY DEF Path, QueueOK
  <2>2. c \in Seq(Frame)
    <3>1. c \in Seq(Passables)
      BY DEF Path
    <3> QED BY <3>1, PassableFrames, SeqWider
  <2> QED BY <1>1, <1>3, <2>1, <2>2 DEF PagesTyped
<1>6. PathOK(v)'
  BY <1>2, <1>3, <1>4 DEF PathOK
<1>7. PageOK(v)'
  BY <1>1, <1>2, PageKeeps
<1>8. ASSUME NEW w \in Viewers \ {v}
      PROVE  PathOK(w)' /\ PageOK(w)'
  BY <1>3, <1>4, OthersStay
<1> QED
  BY <1>2, <1>5, <1>6, <1>7, <1>8 DEF StreamInv

\* What the steps of v start from.
LEMMA PathNow ==
    ASSUME StreamInv, NEW v \in Viewers
    PROVE  /\ RingOK /\ SnapshotOK /\ Passables \in SUBSET Frame /\ Numbers(ring) \in SUBSET Nat
           /\ Path(conn[v], asked[v], queue[v], chain[v], lastSeq[v], Passables, Lost,
                   Numbers(ring))
           /\ lastSeq[v] \in Reach /\ lastSeq[v] \in Nat /\ asked[v] \in Nat
           /\ conn = [conn EXCEPT ![v] = conn[v]] /\ asked = [asked EXCEPT ![v] = asked[v]]
           /\ queue = [queue EXCEPT ![v] = queue[v]] /\ chain = [chain EXCEPT ![v] = chain[v]]
<1>1. RingOK /\ SnapshotOK /\ PathOK(v) /\ PageOK(v) /\ PagesTyped
  BY DEF StreamInv
<1>2. Numbers(ring) \in SUBSET Nat /\ Passables \in SUBSET Frame
  BY <1>1, Recordings, PassableFrames
<1>3. /\ conn = [conn EXCEPT ![v] = conn[v]] /\ asked = [asked EXCEPT ![v] = asked[v]]
      /\ queue = [queue EXCEPT ![v] = queue[v]] /\ chain = [chain EXCEPT ![v] = chain[v]]
      /\ lastSeq[v] \in Nat /\ asked[v] \in Nat
  BY <1>1 DEF PagesTyped
<1> QED
  BY <1>1, <1>2, <1>3 DEF PathOK, PageOK

LEMMA SubscribeStep ==
    ASSUME Marks, StreamInv, NEW v \in Viewers, Subscribe(v)
    PROVE  StreamInv'
<1> DEFINE a == asked[v]
           c == chain[v]
           l == lastSeq[v]
           d == RingAfter(a)
           r == [k \in 1 .. Len(d) |-> d[k].seq]
<1>1. /\ RingOK /\ SnapshotOK /\ Passables \in SUBSET Frame /\ Numbers(ring) \in SUBSET Nat
      /\ Path("hello", a, queue[v], c, l, Passables, Lost, Numbers(ring))
      /\ l \in Reach /\ l \in Nat /\ a \in Nat /\ chain = [chain EXCEPT ![v] = c]
  BY PathNow DEF Subscribe
<1>2. /\ conn' = [conn EXCEPT ![v] = "on"] /\ asked' = [asked EXCEPT ![v] = 0]
      /\ chain' = [chain EXCEPT ![v] = c]
      /\ UNCHANGED <<publisherVars, linkVars, relayVars, pageVars>>
      /\ \/ queue' = [queue EXCEPT ![v] = Delta(d)]
         \/ queue' = [queue EXCEPT ![v] = <<SyncPayload>>]
  BY <1>1 DEF Subscribe, Delta
<1>3. Path("on", 0, Delta(d), c, l, Passables, Lost, Numbers(ring))
  <2>1. Piece(d, a)
    BY <1>1, RingAfterIsPiece
  <2>2. /\ d \in Seq(Passables) /\ DOMAIN d = 1 .. Len(d) /\ Len(d) \in Nat
        /\ \A k \in DOMAIN d : d[k].kind = "out" /\ d[k].seq \in Nat
    BY <2>1, PassableFrames DEF Piece
  <2>3. r \in Seq(Nat) /\ Len(r) = Len(d) /\ DOMAIN r = DOMAIN d
        /\ \A k \in DOMAIN d : r[k] = d[k].seq
    BY <2>2
  <2>4. Fit(c, l, r, Lost, Numbers(ring))
    <3> HIDE DEF r
    <3> QED BY <1>1, <2>3, ResumeFits
  <2> HIDE DEF r, d, c, l
  <2> QED BY <1>1, <2>2, <2>3, <2>4, PathResumes
<1>4. Path("on", 0, <<SyncPayload>>, c, l, Passables, Lost, Numbers(ring))
  <2>1. c \in Seq(Passables) /\ Clean(c, l, Lost) /\ DOMAIN <<>> = {}
    BY <1>1 DEF Path
  <2>2. SyncPayload \in Seq(Passables) /\ Fit(c \o SyncPayload, l, <<>>, Lost, Numbers(ring))
    BY <1>1, <2>1, SyncFits
  <2> HIDE DEF c, l
  <2> QED BY <1>1, <2>2, PathIsSynced
<1> HIDE DEF d
<1> QED
  BY <1>2, <1>3, <1>4, SocketStep

\* What is behind the first item of a queue the relay has recorded.
LEMMA RestBacked ==
    ASSUME NEW q, QueueOK(q, Passables), q # <<>>
    PROVE  \A i \in DOMAIN Rest(q) : Rest(q)[i] \in Reach
<1>1. Passables \in SUBSET Frame
  BY PassableFrames
<1>2. Rest(q) \in Seq(Nat) /\ Len(Rest(q)) = Len(q) - 1
      /\ \A k \in 1 .. Len(q) - 1 : Rest(q)[k] = q[k + 1][1].seq /\ q[k + 1][1] \in Passables
  BY <1>1, RestNumbers
<1>3. DOMAIN Rest(q) = 1 .. Len(q) - 1
  BY <1>2
<1>4. \A f \in Passables : f.seq \in Reach
  BY DEF Passables
<1> QED
  BY <1>2, <1>3, <1>4

LEMMA SendStep ==
    ASSUME Marks, StreamInv, NEW v \in Viewers, Send(v)
    PROVE  StreamInv'
<1> DEFINE a == asked[v]
           q == queue[v]
           c == chain[v]
           l == lastSeq[v]
           p == IF q[1] = RESYNC THEN SyncPayload ELSE q[1]
<1>1. /\ RingOK /\ SnapshotOK /\ Passables \in SUBSET Frame /\ Numbers(ring) \in SUBSET Nat
      /\ Path("on", a, q, c, l, Passables, Lost, Numbers(ring)) /\ q # <<>>
      /\ l \in Reach /\ l \in Nat /\ a \in Nat
      /\ conn = [conn EXCEPT ![v] = "on"] /\ asked = [asked EXCEPT ![v] = a]
  BY PathNow DEF Send
<1>2. /\ conn' = [conn EXCEPT ![v] = "on"] /\ asked' = [asked EXCEPT ![v] = a]
      /\ chain' = [chain EXCEPT ![v] = c \o p] /\ queue' = [queue EXCEPT ![v] = Tail(q)]
      /\ UNCHANGED <<publisherVars, linkVars, relayVars, pageVars>>
  <2>1. Head(queue[v]) = q[1]
    OBVIOUS
  <2> QED BY <1>1, <2>1 DEF Send
<1>3. QueueOK(q, Passables) /\ c \in Seq(Passables) /\ Clean(c, l, Lost)
  BY <1>1 DEF Path
<1>4. p \in Seq(Passables) /\ Fit(c \o p, l, Rest(q), Lost, Numbers(ring))
  <2>1. CASE q[1] = RESYNC
    <3>1. \A i \in DOMAIN Rest(q) : Rest(q)[i] \in Reach
      BY <1>1, <1>3, RestBacked
    <3> HIDE DEF q, c, l
    <3> QED BY <1>1, <1>3, <2>1, <3>1, SyncFits
  <2>2. CASE q[1] # RESYNC
    <3>1. ~Resyncs(q) /\ First(q) = q[1] /\ q[1] \in Seq(Passables)
      BY <1>1, <1>3, <2>2 DEF Resyncs, First, QueueOK
    <3> HIDE DEF q, c, l
    <3> QED BY <1>1, <2>2, <3>1 DEF Path
  <2> QED BY <2>1, <2>2
<1>5. Path("on", a, Tail(q), c \o p, l, Passables, Lost, Numbers(ring))
  <2> HIDE DEF p, q, c, l, a
  <2> QED BY <1>1, <1>4, PathSends
<1> HIDE DEF p
<1> QED
  BY <1>2, <1>5, SocketStep

\* The socket opens, or fails.
LEMMA TurnStep ==
    ASSUME Marks, StreamInv, NEW v \in Viewers, Hello(v) \/ Flap(v)
    PROVE  StreamInv'
<1>1. /\ Passables \in SUBSET Frame /\ Numbers(ring) \in SUBSET Nat /\ lastSeq[v] \in Nat
      /\ Path(conn[v], asked[v], queue[v], chain[v], lastSeq[v], Passables, Lost,
              Numbers(ring))
      /\ queue = [queue EXCEPT ![v] = queue[v]] /\ chain = [chain EXCEPT ![v] = chain[v]]
  BY PathNow
<1>2. /\ conn[v] = "off" => Path("hello", lastSeq[v], queue[v], chain[v], lastSeq[v],
                                 Passables, Lost, Numbers(ring))
      /\ Path("off", 0, <<>>, chain[v], lastSeq[v], Passables, Lost, Numbers(ring))
  BY <1>1, PathTurns
<1>3. CASE Hello(v)
  <2>1. /\ conn[v] = "off" /\ conn' = [conn EXCEPT ![v] = "hello"]
        /\ asked' = [asked EXCEPT ![v] = lastSeq[v]]
        /\ queue' = [queue EXCEPT ![v] = queue[v]] /\ chain' = [chain EXCEPT ![v] = chain[v]]
        /\ UNCHANGED <<publisherVars, linkVars, relayVars, pageVars>>
    BY <1>1, <1>3 DEF Hello
  <2> QED BY <1>2, <2>1, SocketStep
<1>4. CASE Flap(v)
  <2>1. /\ conn' = [conn EXCEPT ![v] = "off"] /\ asked' = [asked EXCEPT ![v] = 0]
        /\ queue' = [queue EXCEPT ![v] = <<>>] /\ chain' = [chain EXCEPT ![v] = chain[v]]
        /\ UNCHANGED <<publisherVars, linkVars, relayVars, pageVars>>
    BY <1>1, <1>4 DEF Flap
  <2> QED BY <1>2, <2>1, SocketStep
<1> QED BY <1>3, <1>4

\* What a page does with a frame: it is after it, and has reported nothing that
\* is not lost.
LEMMA PageApplies ==
    ASSUME Marks, StreamInv, NEW v \in Viewers, NEW f, f = chain[v][1], chain[v] # <<>>,
           IF f.kind = "snapshot" THEN DrawSnapshot(v, f) ELSE DrawOut(v, f),
           UNCHANGED <<publisherVars, linkVars, relayVars>>
    PROVE  lastSeq'[v] = After(f, lastSeq[v]) /\ PageOK(v)'
<1> DEFINE l == lastSeq[v]
<1>1. /\ OutqOK /\ RingOK /\ PagesTyped /\ PageOK(v) /\ PathOK(v)
  BY DEF StreamInv
<1>2. /\ Lost' = Lost /\ Reach' = Reach /\ sent' = sent /\ stamped' = stamped
  BY Aside
<1>3. /\ l \in 0 .. Len(sent) /\ l \in Reach /\ gapWarned[v] \in 0 .. l /\ warned[v] \subseteq Lost
      /\ base[v] # NULL => \A n \in 1 .. l : \/ n \in drawn[v] \cup warned[v]
                                             \/ sent[n] <= base[v]
                                             \/ n < first[v] \/ n <= stamped
  BY <1>1 DEF PageOK
<1>4. Len(sent) \in Nat /\ l \in Nat /\ gapWarned[v] \in Nat /\ first[v] \in Nat /\ stamped \in Nat
  BY <1>1 DEF OutqOK, PagesTyped, RingOK
<1>5. chain[v] \in Seq(Passables) /\ Clean(chain[v], l, Lost)
  BY <1>1 DEF PathOK, Path
<1>6. /\ f \in Passables /\ f.seq \in Reach /\ f.seq \in Nat /\ f.pt \in Nat
      /\ f.kind \in {"out", "snapshot"} /\ 1 \in DOMAIN chain[v]
  <2>1. f \in Passables /\ 1 \in DOMAIN chain[v]
    BY <1>5, SeqParts
  <2> QED BY <2>1 DEF Passables, Frame
<1>7. f.seq \in 0 .. Len(sent)
  <2>1. CASE f.kind = "out"
    BY <1>1, <1>4, <1>6, <2>1 DEF Passables, RingOK
  <2>2. CASE f.kind = "snapshot"
    BY <1>4, <1>6, <2>2 DEF Passables, Claims
  <2> QED BY <1>6, <2>1, <2>2
<1> HIDE DEF l
<1>8. CASE f.kind = "snapshot"
  <2>1. /\ lastSeq'[v] = f.seq /\ gapWarned'[v] = 0 /\ warned'[v] = {} /\ base'[v] = f.pt
    BY <1>1, <1>8 DEF DrawSnapshot, PagesTyped
  <2>2. \A n \in 1 .. f.seq : sent[n] <= f.pt \/ n <= stamped
    BY <1>6, <1>8 DEF Passables, Claims
  <2>3. PageOK(v)'
    BY <1>2, <1>6, <1>7, <2>1, <2>2 DEF PageOK
  <2> QED BY <1>8, <2>1, <2>3 DEF After
<1>9. CASE f.kind = "out" /\ f.seq <= l
  <2>1. UNCHANGED pageVars
    BY <1>9 DEF DrawOut, l
  <2>2. /\ lastSeq'[v] = l /\ gapWarned'[v] = gapWarned[v] /\ warned'[v] = warned[v]
        /\ base'[v] = base[v] /\ drawn'[v] = drawn[v] /\ first'[v] = first[v]
    BY <2>1 DEF pageVars, l
  <2>3. PageOK(v)'
    BY <1>2, <1>3, <2>2 DEF PageOK
  <2>4. ~ (l < f.seq)
    BY <1>4, <1>6, <1>9
  <2> QED BY <1>9, <2>2, <2>3, <2>4 DEF After, l
<1>10. CASE f.kind = "out" /\ ~ (f.seq <= l)
  <2> DEFINE gap == NotedGap(v, f.seq)
  <2>0. /\ lastSeq' = [lastSeq EXCEPT ![v] = f.seq]
        /\ gapWarned' = [gapWarned EXCEPT ![v] = IF gap = {} THEN @ ELSE f.seq]
        /\ drawn' = [drawn EXCEPT ![v] = @ \cup {f.seq}]
        /\ warned' = [warned EXCEPT ![v] = @ \cup gap]
        /\ first' = [first EXCEPT ![v] = IF lastSeq[v] = 0 THEN f.seq ELSE @]
        /\ base' = base
    BY <1>10 DEF DrawOut, l
  <2>1. gap = IF l = 0 \/ gapWarned[v] = f.seq THEN {} ELSE (l + 1) .. (f.seq - 1)
    BY DEF NotedGap, l
  <2> HIDE DEF gap
  <2>2. /\ lastSeq'[v] = f.seq /\ gapWarned'[v] = (IF gap = {} THEN gapWarned[v] ELSE f.seq)
        /\ drawn'[v] = drawn[v] \cup {f.seq} /\ warned'[v] = warned[v] \cup gap
        /\ first'[v] = (IF l = 0 THEN f.seq ELSE first[v]) /\ base'[v] = base[v]
    BY <1>1, <2>0 DEF PagesTyped, l
  <2>3. l < f.seq /\ gapWarned[v] < f.seq
    BY <1>3, <1>4, <1>6, <1>10
  <2>4. ASSUME NEW n \in (l + 1) .. (f.seq - 1)
        PROVE  n \in Lost
    <3>1. n \in 1 .. chain[v][1].seq - 1 /\ chain[v][1].kind = "out" /\ ~ (n <= l)
      BY <1>4, <1>6, <1>10
    <3>2. n \in Lost \/ Passed(chain[v], 1, l, n)
      BY <1>5, <1>6, <3>1 DEF Clean
    <3>3. \A j \in DOMAIN chain[v] : ~ (j < 1)
      BY <1>5
    <3> QED BY <3>1, <3>2, <3>3 DEF Passed
  <2>5. warned'[v] \subseteq Lost
    <3>1. gap \subseteq Lost
      BY <2>1, <2>4
    <3> QED BY <1>3, <2>2, <3>1
  <2>6. gapWarned'[v] \in 0 .. f.seq
    BY <1>4, <1>6, <2>2, <2>3
  <2>7. ASSUME base[v] # NULL, NEW n \in 1 .. f.seq
        PROVE  \/ n \in drawn'[v] \cup warned'[v] \/ sent[n] <= base[v]
               \/ n < first'[v] \/ n <= stamped
    <3>1. n \in Nat /\ n <= f.seq
      BY <1>6
    <3>2. CASE n = f.seq
      BY <2>2, <3>2
    <3>3. CASE l < n /\ n < f.seq
      <4>1. CASE l = 0
        BY <2>2, <3>3, <4>1
      <4>2. CASE l # 0
        <5>1. gap = (l + 1) .. (f.seq - 1)
          BY <1>4, <1>6, <2>1, <2>3, <4>2
        <5>2. n \in (l + 1) .. (f.seq - 1)
          BY <1>4, <1>6, <3>1, <3>3
        <5> QED BY <2>2, <5>1, <5>2
      <4> QED BY <4>1, <4>2
    <3>4. CASE n <= l
      <4>1. n \in 1 .. l /\ l # 0
        BY <1>4, <3>1, <3>4
      <4>2. \/ n \in drawn[v] \cup warned[v] \/ sent[n] <= base[v]
            \/ n < first[v] \/ n <= stamped
        BY <1>3, <2>7, <4>1
      <4> QED BY <2>2, <4>1, <4>2
    <3> QED BY <1>4, <1>6, <3>1, <3>2, <3>3, <3>4
  <2>8. PageOK(v)'
    <3>1. /\ lastSeq'[v] \in 0 .. Len(sent') /\ lastSeq'[v] \in Reach'
          /\ gapWarned'[v] \in 0 .. lastSeq'[v] /\ warned'[v] \subseteq Lost'
      BY <1>2, <1>6, <1>7, <2>2, <2>5, <2>6
    <3>2. base'[v] # NULL => \A n \in 1 .. lastSeq'[v] :
              \/ n \in drawn'[v] \cup warned'[v] \/ sent'[n] <= base'[v]
              \/ n < first'[v] \/ n <= stamped'
      BY <1>2, <2>2, <2>7
    <3> QED BY <3>1, <3>2 DEF PageOK
  <2> QED BY <1>10, <2>2, <2>3, <2>8 DEF After, l
<1> QED BY <1>6, <1>8, <1>9, <1>10

LEMMA ApplyStep ==
    ASSUME Marks, StreamInv, NEW v \in Viewers, Apply(v)
    PROVE  StreamInv'
<1> DEFINE f == chain[v][1]
<1>1. /\ chain[v] # <<>> /\ chain' = [chain EXCEPT ![v] = Tail(chain[v])]
      /\ IF f.kind = "snapshot" THEN DrawSnapshot(v, f) ELSE DrawOut(v, f)
      /\ UNCHANGED <<publisherVars, linkVars, relayVars, socketVars>>
  <2>1. Head(chain[v]) = f
    OBVIOUS
  <2> QED BY <2>1 DEF Apply
<1>2. OutqOK /\ RingOK /\ PagesTyped /\ \A w \in Viewers : PathOK(w) /\ PageOK(w)
  BY DEF StreamInv
<1>3. /\ OutqOK' /\ LinksOK' /\ RingOK' /\ SnapshotOK'
      /\ Lost' = Lost /\ Passables' = Passables /\ Numbers(ring)' = Numbers(ring)
  BY <1>1, Aside
<1>4. lastSeq'[v] = After(f, lastSeq[v]) /\ PageOK(v)'
  BY <1>1, PageApplies
<1>5. conn' = conn /\ asked' = asked /\ queue' = queue
  BY <1>1 DEF socketVars
<1>6. chain'[v] = Tail(chain[v]) /\ chain[v] \in Seq(Frame) /\ f \in Frame
      /\ f.seq \in Nat /\ f.pt \in Nat /\ f.kind \in {"out", "snapshot"}
  <2>1. chain'[v] = Tail(chain[v]) /\ chain[v] \in Seq(Frame)
    BY <1>1, <1>2 DEF PagesTyped
  <2>2. f \in Frame
    BY <1>1, <2>1, SeqParts
  <2> QED BY <2>1, <2>2 DEF Frame
<1>7. PathOK(v)'
  <2>1. /\ Path(conn[v], asked[v], queue[v], chain[v], lastSeq[v], Passables, Lost,
                Numbers(ring))
        /\ Passables \in SUBSET Frame /\ Numbers(ring) \in SUBSET Nat /\ lastSeq[v] \in Nat
    BY PathNow
  <2>2. Path(conn[v], asked[v], queue[v], Tail(chain[v]), After(f, lastSeq[v]), Passables, Lost,
             Numbers(ring))
    BY <1>1, <2>1, PathApplies
  <2> QED BY <1>3, <1>4, <1>5, <1>6, <2>2 DEF PathOK
\* What the page keeps of itself, and leaves to the others.
<1>8. /\ lastSeq' \in [Viewers -> Nat] /\ gapWarned' \in [Viewers -> Nat]
      /\ drawn' \in [Viewers -> SUBSET Nat] /\ warned' \in [Viewers -> SUBSET Nat]
      /\ base' \in [Viewers -> Nat \cup {NULL}] /\ first' \in [Viewers -> Nat]
      /\ \A w \in Viewers \ {v} :
            /\ lastSeq'[w] = lastSeq[w] /\ gapWarned'[w] = gapWarned[w]
            /\ drawn'[w] = drawn[w] /\ warned'[w] = warned[w] /\ base'[w] = base[w]
            /\ first'[w] = first[w]
  <2>1. CASE f.kind = "snapshot"
    <3>1. DrawSnapshot(v, f)
      BY <1>1, <2>1
    <3> QED BY <1>2, <1>6, <3>1 DEF DrawSnapshot, PagesTyped
  <2>2. CASE f.kind # "snapshot" /\ f.seq <= lastSeq[v]
    <3>1. UNCHANGED pageVars
      BY <1>1, <2>2 DEF DrawOut
    <3> QED BY <1>2, <3>1 DEF pageVars, PagesTyped
  <2>3. CASE f.kind # "snapshot" /\ ~ (f.seq <= lastSeq[v])
    <3> DEFINE gap == NotedGap(v, f.seq)
    <3>1. /\ lastSeq' = [lastSeq EXCEPT ![v] = f.seq]
          /\ gapWarned' = [gapWarned EXCEPT ![v] = IF gap = {} THEN @ ELSE f.seq]
          /\ drawn' = [drawn EXCEPT ![v] = @ \cup {f.seq}]
          /\ warned' = [warned EXCEPT ![v] = @ \cup gap]
          /\ first' = [first EXCEPT ![v] = IF lastSeq[v] = 0 THEN f.seq ELSE @]
          /\ base' = base
      BY <1>1, <2>3 DEF DrawOut
    <3>2. gap \subseteq Nat
      <4>1. lastSeq[v] \in Nat
        BY <1>2 DEF PagesTyped
      <4> QED BY <1>6, <4>1 DEF NotedGap
    <3> HIDE DEF gap
    <3> QED BY <1>2, <1>6, <3>1, <3>2 DEF PagesTyped
  <2> QED BY <2>1, <2>2, <2>3
<1>9. PagesTyped'
  <2>1. Tail(chain[v]) \in Seq(Frame)
    BY <1>1, <1>6, SeqParts
  <2>2. chain' \in [Viewers -> Seq(Frame)]
    BY <1>1, <1>2, <2>1 DEF PagesTyped
  <2> QED BY <1>2, <1>5, <1>8, <2>2 DEF PagesTyped
<1>10. ASSUME NEW w \in Viewers \ {v}
       PROVE  PathOK(w)' /\ PageOK(w)'
  <2>1. chain'[w] = chain[w]
    BY <1>1, <1>2 DEF PagesTyped
  <2> QED BY <1>1, <1>5, <1>8, <2>1, OthersStay
<1> QED
  BY <1>3, <1>4, <1>7, <1>9, <1>10 DEF StreamInv

----------------------------------------------------------------------------
(* The theorems.                                                           *)

LEMMA StreamNext == Marks /\ StreamInv /\ [Next]_vars => StreamInv'
<1> SUFFICES ASSUME Marks, StreamInv, [Next]_vars
             PROVE  StreamInv'
  OBVIOUS
<1>1. CASE Data \/ Ready \/ Stopped \/ Coalesce \/ Mint
  BY <1>1, PublisherStep
<1>2. CASE Drain
  BY <1>2, DrainStep
<1>3. CASE Cut \/ Connect
  BY <1>3, LinkStep
<1>4. CASE Reprovision
  BY <1>4, ReprovisionStep
<1>5. CASE Recv
  BY <1>5, RecvStep
<1>6. CASE RecvOld
  BY <1>6, RecvOldStep
<1>7. ASSUME NEW v \in Viewers, Subscribe(v) \/ Send(v) \/ Hello(v) \/ Flap(v) \/ Apply(v)
      PROVE  StreamInv'
  BY <1>7, SubscribeStep, SendStep, TurnStep, ApplyStep
<1>8. CASE UNCHANGED vars
  <2>1. OutqOK /\ LinksOK /\ RingOK /\ SnapshotOK /\ PagesTyped
        /\ \A v \in Viewers : PathOK(v) /\ PageOK(v)
    BY DEF StreamInv
  <2>2. UNCHANGED <<publisherVars, linkVars, relayVars>>
        /\ UNCHANGED <<socketVars, chain, pageVars>>
    BY <1>8 DEF vars
  <2>3. OutqOK' /\ LinksOK' /\ RingOK' /\ SnapshotOK' /\ Grows /\ ring' = ring
    BY <2>2, Aside
  <2>4. PagesTyped' /\ (\A v \in Viewers : PathOK(v) /\ PageOK(v))'
    BY <2>1, <2>2, <2>3, PagesStay
  <2> QED BY <2>3, <2>4 DEF StreamInv
<1> QED
  BY <1>1, <1>2, <1>3, <1>4, <1>5, <1>6, <1>7, <1>8 DEF Next

\* The invariant holds always.
LEMMA StreamSafe == Spec => []StreamInv
<1>1. Marks
  BY WebStreamMarks DEF Marks
<1>2. StreamInv /\ [Next]_vars => StreamInv'
  BY <1>1, StreamNext
<1> QED
  BY <1>2, StreamInit, PTL DEF Spec

\* Whatever overflows, is cut, comes late or is asked for again, a picture that
\* rests on a snapshot misses nothing in silence.
THEOREM NothingMissed == Spec => []NothingMissedInSilence
<1>1. StreamInv => NothingMissedInSilence
  BY DEF StreamInv, PageOK, NothingMissedInSilence
<1> QED
  BY <1>1, StreamSafe, PTL

\* A page reports missing only what the relay skipped, evicted, or lost to a
\* snapshot that came late.
THEOREM NoFalseReport == Spec => []NoFalseGap
<1>1. StreamInv => NoFalseGap
  BY DEF StreamInv, PageOK, NoFalseGap, Lost
<1> QED
  BY <1>1, StreamSafe, PTL

=============================================================================
