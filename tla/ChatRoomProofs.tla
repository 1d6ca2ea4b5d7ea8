--------------------------- MODULE ChatRoomProofs ---------------------------
(***************************************************************************)
(* Proofs about ChatRoom, for every number of clients, seats and password  *)
(* rotations: type correctness, what a kick guarantees, how handlers end   *)
(* and that the roster settles.                                            *)
(***************************************************************************)
EXTENDS ChatRoom, SequenceTheorems, TLAPS

-----------------------------------------------------------------------------
(* Insertion-ordered dictionaries.                                         *)

Distinct(s) == \A j, k \in DOMAIN s : s[j] = s[k] => j = k

\* Removing an entry keeps the others, at one position less behind it.
LEMMA RemoveAtShifts ==
    ASSUME NEW S, NEW s \in Seq(S), NEW k \in DOMAIN s
    PROVE  /\ RemoveAt(s, k) \in Seq(S)
           /\ Len(RemoveAt(s, k)) = Len(s) - 1
           /\ \A j \in 1 .. Len(s) - 1 :
                  RemoveAt(s, k)[j] = IF j < k THEN s[j] ELSE s[j + 1]
<1> DEFINE front == SubSeq(s, 1, k - 1)
           back  == SubSeq(s, k + 1, Len(s))
<1>1. Len(s) \in Nat /\ k \in 1 .. Len(s) /\ \A j \in 1 .. Len(s) : s[j] \in S
  BY LenProperties, ElementOfSeq
<1>2. /\ front \in Seq(S) /\ Len(front) = k - 1
      /\ \A j \in 1 .. k - 1 : front[j] = s[j]
  <2>1. \A j \in 1 .. k - 1 : s[j] \in S
    BY <1>1
  <2>2. 1 \in Int /\ k - 1 \in Int
    BY <1>1
  <2>3. /\ front \in Seq(S)
        /\ Len(front) = IF 1 <= k - 1 THEN k - 1 - 1 + 1 ELSE 0
        /\ \A j \in 1 .. k - 1 - 1 + 1 : front[j] = s[1 + j - 1]
    BY ONLY <2>1, <2>2, SubSeqProperties
  <2> QED
    BY ONLY <1>1, <2>3
<1>3. /\ back \in Seq(S) /\ Len(back) = Len(s) - k
      /\ \A j \in 1 .. Len(s) - k : back[j] = s[k + j]
  <2>1. \A j \in k + 1 .. Len(s) : s[j] \in S
    BY <1>1
  <2>2. k + 1 \in Int /\ Len(s) \in Int
    BY <1>1
  <2>3. /\ back \in Seq(S)
        /\ Len(back) = IF k + 1 <= Len(s) THEN Len(s) - (k + 1) + 1 ELSE 0
        /\ \A j \in 1 .. Len(s) - (k + 1) + 1 : back[j] = s[k + 1 + j - 1]
    BY ONLY <2>1, <2>2, SubSeqProperties
  <2>4. ASSUME NEW j \in 1 .. Len(s) - k PROVE back[j] = s[k + j]
    <3>1. /\ j \in Int /\ k \in Int /\ Len(s) \in Int
          /\ 1 <= j /\ j <= Len(s) - k
      BY ONLY <1>1, <2>4
    <3>2. j \in 1 .. Len(s) - (k + 1) + 1 /\ k + 1 + j - 1 = k + j
      BY ONLY <3>1
    <3> QED
      BY ONLY <2>3, <3>2
  <2> QED
    BY ONLY <1>1, <2>3, <2>4
<1>4. /\ front \o back \in Seq(S)
      /\ Len(front \o back) = Len(front) + Len(back)
      /\ \A j \in 1 .. Len(front) + Len(back) :
             (front \o back)[j] = IF j <= Len(front) THEN front[j]
                                  ELSE back[j - Len(front)]
  BY ONLY <1>2, <1>3, ConcatProperties
<1>5. RemoveAt(s, k) = front \o back
  BY DEF RemoveAt
<1> HIDE DEF front, back
<1>6. ASSUME NEW j \in 1 .. Len(s) - 1
      PROVE (front \o back)[j] = IF j < k THEN s[j] ELSE s[j + 1]
  <2>1. CASE j < k
    <3>0. /\ j \in Int /\ k \in Int /\ Len(s) \in Int
          /\ 1 <= j /\ j <= k - 1 /\ k <= Len(s)
      BY ONLY <1>1, <1>6, <2>1
    <3>1. Len(front) = k - 1 /\ Len(front) + Len(back) = Len(s) - 1
      BY ONLY <1>2, <1>3, <3>0
    <3>2. /\ j \in 1 .. Len(s) - 1 /\ j \in 1 .. k - 1
      BY ONLY <3>0
    <3>2a. j \in 1 .. Len(front) + Len(back) /\ j <= Len(front)
      BY ONLY <3>0, <3>1, <3>2
    <3>3. (front \o back)[j] = front[j]
      BY ONLY <1>4, <3>2a
    <3>4. front[j] = s[j]
      BY ONLY <1>2, <3>2
    <3> QED
      BY ONLY <2>1, <3>3, <3>4
  <2>2. CASE ~(j < k)
    <3>0. /\ j \in Int /\ k \in Int /\ Len(s) \in Int
          /\ k <= j /\ j <= Len(s) - 1 /\ 1 <= k
      BY ONLY <1>1, <1>6, <2>2
    <3>a. /\ j \in 1 .. Len(front) + Len(back) /\ ~(j <= Len(front))
          /\ j - (k - 1) \in 1 .. Len(s) - k
      <4>1. Len(front) = k - 1 /\ Len(front) + Len(back) = Len(s) - 1
        BY ONLY <1>2, <1>3, <3>0
      <4>2. /\ j \in 1 .. Len(s) - 1 /\ ~(j <= k - 1)
            /\ j - (k - 1) \in 1 .. Len(s) - k
        BY ONLY <3>0
      <4> QED
        BY ONLY <4>1, <4>2
    <3>b. (front \o back)[j] = back[j - Len(front)]
      BY ONLY <1>4, <3>a
    <3>1. (front \o back)[j] = back[j - (k - 1)] /\ j - (k - 1) \in 1 .. Len(s) - k
      BY ONLY <1>2, <3>a, <3>b
    <3>2. k + (j - (k - 1)) = j + 1
      BY ONLY <1>1
    <3> QED
      BY ONLY <1>3, <3>1, <3>2, <2>2
  <2> QED
    BY <2>1, <2>2
<1>7. Len(front \o back) = Len(s) - 1
  <2>1. Len(s) \in Int /\ k \in Int
    BY ONLY <1>1
  <2> QED
    BY ONLY <1>2, <1>3, <1>4, <2>1
<1> QED
  BY ONLY <1>4, <1>5, <1>6, <1>7

\* dict.pop removes its key and nothing else.
LEMMA WithoutFacts ==
    ASSUME NEW S, NEW s \in Seq(S), NEW x
    PROVE  /\ Without(s, x) \in Seq(S)
           /\ ToSet(Without(s, x)) \subseteq ToSet(s)
           /\ \A y \in ToSet(s) : y # x => y \in ToSet(Without(s, x))
           /\ Distinct(s) => /\ Distinct(Without(s, x))
                             /\ x \notin ToSet(Without(s, x))
<1> DEFINE t == Without(s, x)
<1>1. CASE x \notin ToSet(s)
  <2>1. t = s
    BY <1>1 DEF Without
  <2> QED
    BY ONLY <1>1, <2>1, s \in Seq(S)
<1>2. CASE x \in ToSet(s)
  <2> DEFINE k == Position(s, x)
  <2>1. k \in DOMAIN s /\ s[k] = x
    BY <1>2 DEF Position, ToSet
  <2>2. t = RemoveAt(s, k)
    BY <1>2 DEF Without
  <2>3. Len(s) \in Nat /\ DOMAIN s = 1 .. Len(s)
    BY LenProperties
  <2> HIDE DEF k, t
  <2>4. /\ t \in Seq(S) /\ Len(t) = Len(s) - 1
        /\ \A j \in 1 .. Len(s) - 1 : t[j] = IF j < k THEN s[j] ELSE s[j + 1]
    BY <2>1, <2>2, RemoveAtShifts
  <2>5. DOMAIN t = 1 .. Len(s) - 1
    BY <2>4, LenProperties
  <2>6. \A j \in DOMAIN t : \E m \in DOMAIN s : t[j] = s[m] /\ m # k
    BY <2>1, <2>3, <2>4, <2>5
  <2>7. ToSet(t) \subseteq ToSet(s)
    BY <2>6 DEF ToSet
  <2>8. ASSUME NEW y \in ToSet(s), y # x PROVE y \in ToSet(t)
    <3>1. PICK m \in DOMAIN s : s[m] = y
      BY DEF ToSet
    <3>2. m # k
      BY <2>1, <2>8, <3>1
    <3>3. CASE m < k
      BY <2>1, <2>3, <2>4, <2>5, <3>1, <3>3 DEF ToSet
    <3>4. CASE m > k
      <4>1. m - 1 \in DOMAIN t /\ t[m - 1] = s[m]
        BY <2>1, <2>3, <2>4, <2>5, <3>1, <3>4
      <4> QED
        BY <3>1, <4>1 DEF ToSet
    <3> QED
      BY <2>1, <2>3, <3>2, <3>3, <3>4
  <2>9. ASSUME Distinct(s) PROVE x \notin ToSet(t) /\ Distinct(t)
    <3>1. x \notin ToSet(t)
      BY <2>1, <2>6, <2>9 DEF ToSet, Distinct
    <3>2. ASSUME NEW i \in DOMAIN t, NEW j \in DOMAIN t, t[i] = t[j]
          PROVE  i = j
      BY <2>1, <2>3, <2>4, <2>5, <2>9, <3>2 DEF Distinct
    <3> QED
      BY <3>1, <3>2 DEF Distinct
  <2> QED
    BY <2>4, <2>7, <2>8, <2>9 DEF t
<1> QED
  BY <1>1, <1>2

\* A key is added at the end.
LEMMA AppendFacts ==
    ASSUME NEW S, NEW s \in Seq(S), NEW x \in S
    PROVE  /\ Append(s, x) \in Seq(S)
           /\ ToSet(Append(s, x)) = ToSet(s) \cup {x}
           /\ Distinct(s) /\ x \notin ToSet(s) => Distinct(Append(s, x))
<1> DEFINE t == Append(s, x)
<1>1. /\ t \in Seq(S) /\ Len(t) = Len(s) + 1
      /\ \A j \in 1 .. Len(s) : t[j] = s[j]
      /\ t[Len(s) + 1] = x
  BY AppendProperties
<1>2. /\ Len(s) \in Nat /\ DOMAIN s = 1 .. Len(s)
      /\ DOMAIN t = 1 .. Len(s) + 1
  BY <1>1, LenProperties
<1> HIDE DEF t
<1>3. ToSet(t) = ToSet(s) \cup {x}
  BY <1>1, <1>2 DEF ToSet
<1>4. Distinct(s) /\ x \notin ToSet(s) => Distinct(t)
  BY <1>1, <1>2 DEF Distinct, ToSet
<1> QED
  BY <1>1, <1>3, <1>4 DEF t

-----------------------------------------------------------------------------
(* Broadcasting.                                                           *)

States == {"none", "join", "read", "kick", "leave"}

LEMMA WedgedFacts ==
    ASSUME NEW act \in Seq(Ids), NEW q \in Wedged(act)
    PROVE  q \in Seq(Ids)
<1>1. q \in SeqOf(ToSet(act), MaxWedge)
  BY DEF Wedged
<1>2. PICK n \in 0 .. MaxWedge : q \in [1 .. n -> ToSet(act)]
  BY <1>1 DEF SeqOf
<1>3. ToSet(act) \subseteq Ids
  BY LenProperties, ElementOfSeq DEF ToSet
<1>4. n \in Nat /\ q \in [1 .. n -> Ids]
  BY <1>2, <1>3, ConstantsAssumption DEF ConstantsAssumption
<1> QED
  BY <1>4, SeqDef

LEMMA HeadInIds ==
    ASSUME NEW s \in Seq(Ids), s # <<>>
    PROVE  Head(s) \in Ids /\ Tail(s) \in Seq(Ids)
BY HeadTailProperties

\* A broadcast can only shorten the list of connections it was sent to.
LEMMA BroadcastFacts ==
    ASSUME NEW i \in Ids, NEW next \in States, NEW act \in Seq(Ids),
           NEW q \in Wedged(act), Broadcast(i, next, act, q), TypeOK
    PROVE  /\ active' \in Seq(Ids)
           /\ ToSet(active') \subseteq ToSet(act)
           /\ Distinct(act) => Distinct(active')
           /\ evict' \in [Ids -> Seq(Ids)]
           /\ pc' = [pc EXCEPT ![i] = next]
           /\ pc' \in [Ids -> States]
<1>1. q \in Seq(Ids)
  BY WedgedFacts
<1>2. /\ active' \in Seq(Ids)
      /\ ToSet(active') \subseteq ToSet(act)
      /\ Distinct(act) => Distinct(active')
  <2>1. CASE q = <<>>
    BY <2>1 DEF Broadcast
  <2>2. CASE q # <<>>
    BY <2>2, WithoutFacts DEF Broadcast
  <2> QED
    BY <2>1, <2>2
<1>3. /\ evict' \in [Ids -> Seq(Ids)]
      /\ pc' = [pc EXCEPT ![i] = next]
      /\ pc' \in [Ids -> States]
  BY <1>1 DEF Broadcast, TypeOK, States
<1> QED
  BY <1>2, <1>3

LEMMA CurrentHostType ==
    ASSUME NEW act \in Seq(Ids), NEW h \in Ids \cup {NULL}
    PROVE  CurrentHost(act, h) \in Ids \cup {NULL}
BY HeadInIds DEF CurrentHost

LEMMA RosterFacts ==
    ASSUME NEW i \in Ids, NEW next \in States, NEW act \in Seq(Ids),
           NEW ses \in Seq(Ids), BroadcastRoster(i, next, act, ses), TypeOK
    PROVE  /\ active' \in Seq(Ids)
           /\ ToSet(active') \subseteq ToSet(act)
           /\ Distinct(act) => Distinct(active')
           /\ evict' \in [Ids -> Seq(Ids)]
           /\ pc' = [pc EXCEPT ![i] = next]
           /\ pc' \in [Ids -> States]
           /\ host' \in Ids \cup {NULL}
           /\ roster' \in [users : Seq(Ids), host : Ids \cup {NULL}]
<1>1. PICK q \in Wedged(act) : Broadcast(i, next, act, q)
  BY DEF BroadcastRoster
<1>2. CurrentHost(act, host) \in Ids \cup {NULL}
  BY CurrentHostType DEF TypeOK
<1>3. /\ host' \in Ids \cup {NULL}
      /\ roster' \in [users : Seq(Ids), host : Ids \cup {NULL}]
  BY <1>2 DEF BroadcastRoster, RosterFrame
<1> QED
  BY <1>1, <1>3, BroadcastFacts

-----------------------------------------------------------------------------
(* Type correctness.                                                       *)

LEMMA NoKickType == NoKick \in KickRecords
BY EmptySeq, ConstantsAssumption
   DEF NoKick, KickRecords, Epochs, ConstantsAssumption

\* A client that is not idle has an id of its own: needed for the types.
Addressed ==
    \A c \in Clients : /\ stage[c] = "idle" <=> uid[c] = NULL
                       /\ uid[c] # NULL => Owner[uid[c]] = c

TypeInv == TypeOK /\ Addressed

LEMMA InitType == Init => TypeInv
<1> SUFFICES ASSUME Init PROVE TypeInv
  OBVIOUS
<1>1. \A S : <<>> \in Seq(S) /\ Len(<<>>) = 0
  BY EmptySeq
<1>2. kick \in [Ids -> KickRecords]
  BY NoKickType DEF Init
<1>3. 0 \in Epochs
  BY ConstantsAssumption DEF ConstantsAssumption, Epochs
<1>4. store \in Seq(Epochs) /\ Len(store) <= StoreMax
  BY <1>1, ConstantsAssumption DEF Init, ConstantsAssumption
<1>5. roster \in [users : Seq(Ids), host : Ids \cup {NULL}]
  BY <1>1 DEF Init
<1>6. TypeOK
  BY <1>1, <1>2, <1>3, <1>4, <1>5 DEF Init, TypeOK
<1>7. Addressed
  BY DEF Init, Addressed
<1> QED
  BY <1>6, <1>7 DEF TypeInv

LEMMA UsesAnId ==
    ASSUME TypeInv, NEW c \in Clients, stage[c] # "idle"
    PROVE  uid[c] \in Ids /\ Owner[uid[c]] = c
BY DEF TypeInv, TypeOK, Addressed

\* The finally clause, whoever runs it.
LEMMA DepartType ==
    ASSUME TypeInv, NEW i \in Ids, Depart(i)
    PROVE  TypeInv'
<1>1. Without(active, i) \in Seq(Ids) /\ Without(sessions, i) \in Seq(Ids)
  BY WithoutFacts DEF TypeInv, TypeOK
<1>2. /\ active' \in Seq(Ids) /\ evict' \in [Ids -> Seq(Ids)]
      /\ pc' \in [Ids -> States] /\ host' \in Ids \cup {NULL}
      /\ roster' \in [users : Seq(Ids), host : Ids \cup {NULL}]
  <2>1. CASE BroadcastRoster(i, "none", Without(active, i), Without(sessions, i))
    BY <1>1, <2>1, RosterFacts DEF TypeInv, States
  <2>2. CASE \E q \in Wedged(Without(active, i)) \ {<<>>} :
                /\ Broadcast(i, "leave", Without(active, i), q)
                /\ UNCHANGED <<host, roster>>
    BY <1>1, <2>2, BroadcastFacts DEF TypeInv, States, TypeOK
  <2> QED
    BY <2>1, <2>2 DEF Depart
<1>3. kick' \in [Ids -> KickRecords]
  BY NoKickType DEF Depart, TypeInv, TypeOK
<1>4. sessions' \in Seq(Ids)
  BY <1>1 DEF Depart
<1>5. TypeOK'
  BY <1>2, <1>3, <1>4 DEF Depart, TypeInv, TypeOK, States, clientVars
<1>6. Addressed'
  BY DEF Depart, TypeInv, Addressed, clientVars
<1> QED
  BY <1>5, <1>6 DEF TypeInv

\* Advancing a kick keeps its record well-formed.
LEMMA KickAdvances ==
    ASSUME TypeOK, NEW i \in Ids, NEW u,
           NEW p \in {"off", "next", "deliver", "close", "free"},
           \/ kick' = [kick EXCEPT ![i].phase = p]
           \/ kick' = [kick EXCEPT ![i].left = @ \ {u}]
           \/ kick' = [kick EXCEPT ![i].phase = p, ![i].left = @ \ {u}]
    PROVE  kick' \in [Ids -> KickRecords]
<1>1. kick[i] \in KickRecords
  BY DEF TypeOK
<1>2. /\ [kick[i] EXCEPT !.phase = p] \in KickRecords
      /\ [kick[i] EXCEPT !.left = @ \ {u}] \in KickRecords
      /\ [kick[i] EXCEPT !.phase = p, !.left = @ \ {u}] \in KickRecords
  BY <1>1 DEF KickRecords
<1>3. \/ kick' = [kick EXCEPT ![i] = [kick[i] EXCEPT !.phase = p]]
      \/ kick' = [kick EXCEPT ![i] = [kick[i] EXCEPT !.left = @ \ {u}]]
      \/ kick' = [kick EXCEPT ![i] =
                     [kick[i] EXCEPT !.phase = p, !.left = @ \ {u}]]
  BY DEF TypeOK
<1> QED
  BY <1>2, <1>3 DEF TypeOK

LEMMA NextType == TypeInv /\ [Next]_vars => TypeInv'
<1> SUFFICES ASSUME TypeInv, [Next]_vars PROVE TypeInv'
  OBVIOUS
<1> USE DEF States, TypeInv
<1>1. ASSUME NEW c \in Clients, NEW i \in Ids, SrpInit(c, i) PROVE TypeInv'
  BY <1>1, ConstantsAssumption
     DEF SrpInit, TypeOK, Addressed, ConstantsAssumption
<1>2. ASSUME NEW c \in Clients, SrpVerify(c) PROVE TypeInv'
  <2>1. uid[c] \in Ids
    BY <1>2, UsesAnId DEF SrpVerify
  <2>2. sessions' \in Seq(Ids)
    BY <1>2, <2>1, AppendFacts DEF SrpVerify, TypeOK
  <2> QED
    BY <1>2, <2>2 DEF SrpVerify, TypeOK, Addressed
<1>3. ASSUME NEW c \in Clients, SrpVerifyRefused(c) PROVE TypeInv'
  BY <1>3 DEF SrpVerifyRefused, TypeOK, Addressed
<1>4. ASSUME NEW c \in Clients, GiveUp(c) PROVE TypeInv'
  BY <1>4 DEF GiveUp, TypeOK, Addressed
<1>5. ASSUME NEW c \in Clients, OpenWs(c) PROVE TypeInv'
  <2> DEFINE i == uid[c]
             act == Append(active, i)
  <2>1. i \in Ids
    BY <1>5, UsesAnId DEF OpenWs
  <2>2. act \in Seq(Ids)
    BY <2>1, AppendFacts DEF TypeOK
  <2>3. /\ active' \in Seq(Ids) /\ evict' \in [Ids -> Seq(Ids)]
        /\ pc' \in [Ids -> States] /\ host' \in Ids \cup {NULL}
        /\ roster' \in [users : Seq(Ids), host : Ids \cup {NULL}]
    <3>1. CASE BroadcastRoster(i, "read", act, sessions)
      BY <2>1, <2>2, <3>1, RosterFacts DEF TypeOK
    <3>2. CASE \E q \in Wedged(active) \ {<<>>} :
                  /\ Broadcast(i, "join", act, q)
                  /\ host' = CurrentHost(act, host)
                  /\ UNCHANGED roster
      <4>1. PICK q \in Wedged(active) \ {<<>>} :
                  /\ Broadcast(i, "join", act, q)
                  /\ host' = CurrentHost(act, host)
                  /\ UNCHANGED roster
        BY <3>2
      <4>2. q \in Seq(Ids)
        BY WedgedFacts DEF TypeOK
      <4>3. active' \in Seq(Ids)
        BY <2>2, <4>1, WithoutFacts DEF Broadcast
      <4>4. host' \in Ids \cup {NULL}
        BY <2>2, <4>1, CurrentHostType DEF TypeOK
      <4> QED
        BY <2>1, <4>1, <4>2, <4>3, <4>4 DEF Broadcast, TypeOK
    <3> QED
      BY <1>5, <3>1, <3>2 DEF OpenWs
  <2>4. sock' = [sock EXCEPT ![i] = "up"]
        /\ stage' = [stage EXCEPT ![c] = "live"] /\ stage[c] = "token"
        /\ UNCHANGED <<epoch, handshake, sessions, store, kick, key, uid, pw>>
    BY <1>5 DEF OpenWs
  <2> HIDE DEF act, i
  <2> QED
    BY <2>1, <2>3, <2>4 DEF TypeOK, Addressed
<1>6. ASSUME NEW c \in Clients, OpenWsRefused(c) PROVE TypeInv'
  BY <1>6 DEF OpenWsRefused, TypeOK, Addressed, serverVars
<1>7. ASSUME NEW i \in Ids, DropWedged(i) PROVE TypeInv'
  <2>1. /\ active' \in Seq(Ids) /\ evict' \in [Ids -> Seq(Ids)]
        /\ pc' \in [Ids -> States] /\ host' \in Ids \cup {NULL}
        /\ roster' \in [users : Seq(Ids), host : Ids \cup {NULL}]
    <3>1. CASE /\ evict' = [evict EXCEPT ![i] = Tail(@)]
               /\ active' = Without(active, evict[i][2])
               /\ UNCHANGED <<host, roster, pc>>
      <4>1. Tail(evict[i]) \in Seq(Ids)
        BY <1>7, HeadInIds DEF DropWedged, TypeOK
      <4>2. active' \in Seq(Ids)
        BY <3>1, WithoutFacts DEF TypeOK
      <4> QED
        BY <3>1, <4>1, <4>2 DEF TypeOK
    <3>2. CASE /\ evict' = [evict EXCEPT ![i] = <<>>]
               /\ UNCHANGED <<active, host, roster, pc>>
      BY <3>2, EmptySeq DEF TypeOK
    <3>3. CASE BroadcastRoster(i, "read", active, sessions)
      BY <3>3, RosterFacts DEF TypeOK
    <3>4. CASE BroadcastRoster(i, "none", active, sessions)
      BY <3>4, RosterFacts DEF TypeOK
    <3> QED
      BY <1>7, <3>1, <3>2, <3>3, <3>4 DEF DropWedged
  <2>2. sock' \in [Ids -> {"up", "closed"}]
    BY <1>7 DEF DropWedged, TypeOK
  <2>3. UNCHANGED <<epoch, handshake, sessions, store, kick, key, uid, stage, pw>>
    BY <1>7 DEF DropWedged, clientVars
  <2> QED
    BY <2>1, <2>2, <2>3 DEF TypeOK, Addressed
<1>8. ASSUME NEW i \in Ids, RelayFrame(i) PROVE TypeInv'
  <2> DEFINE all == Append(store, key[i])
  <2>1. PICK q \in Wedged(active) : Broadcast(i, "read", active, q)
    BY <1>8 DEF RelayFrame
  <2>2. /\ active' \in Seq(Ids) /\ evict' \in [Ids -> Seq(Ids)]
        /\ pc' \in [Ids -> States]
    BY <2>1, BroadcastFacts DEF TypeOK
  <2>3. /\ all \in Seq(Epochs) /\ Len(all) = Len(store) + 1
        /\ Len(store) \in Nat
    BY AppendProperties, LenProperties DEF TypeOK
  <2>4. store' = IF Len(all) > StoreMax
                 THEN SubSeq(all, Len(all) - StoreMax + 1, Len(all)) ELSE all
    BY <1>8 DEF RelayFrame
  <2> HIDE DEF all
  <2>5. store' \in Seq(Epochs) /\ Len(store') <= StoreMax
    <3>1. StoreMax \in Nat \ {0}
      BY ConstantsAssumption DEF ConstantsAssumption
    <3>2. CASE Len(all) > StoreMax
      <4>1. \A j \in Len(all) - StoreMax + 1 .. Len(all) : all[j] \in Epochs
        BY <2>3, <3>1, <3>2, ElementOfSeq
      <4>2. Len(all) - StoreMax + 1 \in Int /\ Len(all) \in Int
        BY <2>3, <3>1
      <4> QED
        BY <2>3, <2>4, <3>1, <3>2, <4>1, <4>2, SubSeqProperties
    <3>3. CASE ~(Len(all) > StoreMax)
      BY <2>3, <2>4, <3>1, <3>3
    <3> QED
      BY <3>2, <3>3
  <2>6. UNCHANGED <<epoch, handshake, sessions, host, roster, sock, kick, key,
                    uid, stage, pw>>
    BY <1>8 DEF RelayFrame, clientVars
  <2> QED
    BY <2>2, <2>5, <2>6 DEF TypeOK, Addressed
<1>9. ASSUME NEW i \in Ids, Leave(i) PROVE TypeInv'
  BY <1>9, DepartType DEF Leave
<1>10. ASSUME NEW i \in Ids, Cancelled(i) PROVE TypeInv'
  <2>1. CASE Depart(i)
    BY <2>1, DepartType
  <2>2. CASE ~Depart(i)
    <3>1. <<>> \in Seq(Ids)
      BY EmptySeq
    <3>2. /\ evict' = [evict EXCEPT ![i] = <<>>]
          /\ pc' = [pc EXCEPT ![i] = "none"]
          /\ UNCHANGED <<epoch, handshake, host, store, kick, sessions, active,
                         roster, sock, key, uid, stage, pw>>
      BY <1>10, <2>2 DEF Cancelled, serverVars, clientVars
    <3> QED
      BY <3>1, <3>2 DEF TypeOK, Addressed
  <2> QED
    BY <2>1, <2>2
<1>11. ASSUME NEW i \in Ids, NEW n, KickDenied(i, n) PROVE TypeInv'
  BY <1>11, CurrentHostType DEF KickDenied, TypeOK, Addressed, clientVars
<1>12. ASSUME NEW i \in Ids, NEW n, KickStart(i, n) PROVE TypeInv'
  <2>1. epoch + 1 \in Epochs
    BY <1>12, ConstantsAssumption
       DEF KickStart, TypeOK, Epochs, ConstantsAssumption
  <2>2. ToSet(sessions) \subseteq Ids
    BY LenProperties, ElementOfSeq DEF TypeOK, ToSet
  <2>3. StartedKick(i, n) \in KickRecords
    BY <2>1, <2>2 DEF StartedKick, Targets, KickRecords, TypeOK
  <2>4. <<>> \in Seq(Epochs) /\ Len(<<>>) <= StoreMax
    BY EmptySeq, ConstantsAssumption DEF ConstantsAssumption
  <2> QED
    BY <1>12, <2>1, <2>3, <2>4
       DEF KickStart, TypeOK, Addressed, clientVars
<1>13. ASSUME NEW i \in Ids, NEW u \in Ids,
              KickPop(i, u) \/ KickSkip(i, u) \/ KickFree(i, u)
       PROVE  TypeInv'
  <2>1. Without(active, u) \in Seq(Ids) /\ Without(sessions, u) \in Seq(Ids)
    BY WithoutFacts DEF TypeOK
  <2>2. kick' \in [Ids -> KickRecords]
    BY <1>13, KickAdvances DEF KickPop, KickSkip, KickFree
  <2> QED
    BY <1>13, <2>1, <2>2 DEF KickPop, KickSkip, KickFree, TypeOK, Addressed,
                             clientVars
<1>14. ASSUME NEW i \in Ids, NEW u \in Ids,
              KickDeliver(i, u) \/ KickClose(i, u)
       PROVE  TypeInv'
  <2>1. kick' \in [Ids -> KickRecords]
    BY <1>14, KickAdvances DEF KickDeliver, KickClose
  <2>2. kick[i].key \in Epochs
    BY DEF TypeOK, KickRecords
  <2>3. CASE KickDeliver(i, u)
    <3>1. pw' \in [Clients -> Epochs]
      BY <2>2, <2>3 DEF KickDeliver, TypeOK
    <3> QED
      BY <2>1, <2>3, <3>1 DEF KickDeliver, TypeOK, Addressed
  <2>4. CASE KickClose(i, u)
    BY <2>1, <2>4 DEF KickClose, TypeOK, Addressed, clientVars
  <2> QED
    BY <1>14, <2>3, <2>4
<1>15. ASSUME NEW i \in Ids, KickEnd(i) PROVE TypeInv'
  BY <1>15, NoKickType DEF KickEnd, TypeOK, Addressed, clientVars
<1>16. ASSUME NEW c \in Clients, ClientCloses(c) \/ ClientSeesClose(c)
       PROVE  TypeInv'
  <2>1. CASE ClientCloses(c)
    BY <2>1 DEF ClientCloses, TypeOK, Addressed, serverVars
  <2>2. CASE ClientSeesClose(c)
    BY <2>2 DEF ClientSeesClose, TypeOK, Addressed, serverVars
  <2> QED
    BY <1>16, <2>1, <2>2
<1>17. ASSUME NEW i \in Ids, CleanupStale(i) PROVE TypeInv'
  BY <1>17, WithoutFacts
     DEF CleanupStale, TypeOK, Addressed, serverVars, clientVars
<1>18. CASE ClearMessages
  BY <1>18, EmptySeq, ConstantsAssumption
     DEF ClearMessages, TypeOK, Addressed, clientVars, ConstantsAssumption
<1>19. CASE UNCHANGED vars
  BY <1>19 DEF vars, TypeOK, Addressed
<1> QED
  BY <1>1, <1>2, <1>3, <1>4, <1>5, <1>6, <1>7, <1>8, <1>9, <1>10, <1>11,
     <1>12, <1>13, <1>14, <1>15, <1>16, <1>17, <1>18, <1>19
     DEF Next, ServerStep, KickStep, Resume

\* Every variable keeps its type, and the backlog its bound.
THEOREM TypeCorrect == Spec => []TypeOK
<1>1. Init => TypeInv
  BY InitType
<1>2. TypeInv /\ [Next]_vars => TypeInv'
  BY NextType
<1>3. TypeInv => TypeOK
  BY DEF TypeInv
<1> QED
  BY <1>1, <1>2, <1>3, PTL DEF Spec

-----------------------------------------------------------------------------
(* Capacity.                                                               *)

\* Removing a seat never adds one.
LEMMA WithoutLength ==
    ASSUME NEW s \in Seq(Ids), NEW x
    PROVE  Len(Without(s, x)) <= Len(s)
<1>0. Len(s) \in Nat
  BY LenProperties
<1>1. CASE x \notin ToSet(s)
  <2>1. Without(s, x) = s
    BY <1>1 DEF Without
  <2> QED
    BY ONLY <1>0, <2>1
<1>2. CASE x \in ToSet(s)
  <2> DEFINE k == Position(s, x)
  <2>1. k \in DOMAIN s
    BY <1>2 DEF Position, ToSet
  <2>2. Without(s, x) = RemoveAt(s, k)
    BY <1>2 DEF Without
  <2> HIDE DEF k
  <2>3. Len(RemoveAt(s, k)) = Len(s) - 1
    BY <2>1, RemoveAtShifts
  <2> QED
    BY ONLY <1>0, <2>2, <2>3
<1> QED
  BY <1>1, <1>2

\* A step seats a member who found the room not full, or frees seats.
LEMMA SeatSteps ==
    ASSUME [Next]_vars
    PROVE  \/ sessions' = sessions
           \/ \E x \in Ids : sessions' = Without(sessions, x)
           \/ ~Full /\ \E x : sessions' = Append(sessions, x)
<1> DEFINE Outcome == \/ sessions' = sessions
                      \/ \E x \in Ids : sessions' = Without(sessions, x)
                      \/ ~Full /\ \E x : sessions' = Append(sessions, x)
<1>1. ASSUME NEW c \in Clients, SrpVerify(c) PROVE Outcome
  BY <1>1 DEF SrpVerify
<1>2. ASSUME NEW c \in Clients, NEW i \in Ids,
             SrpInit(c, i) \/ KickDenied(i, Name[c]) \/ KickStart(i, Name[c])
      PROVE  Outcome
  BY <1>2 DEF SrpInit, KickDenied, KickStart
<1>3. ASSUME NEW c \in Clients,
             \/ SrpVerifyRefused(c) \/ GiveUp(c) \/ OpenWs(c) \/ OpenWsRefused(c)
             \/ ClientCloses(c) \/ ClientSeesClose(c)
      PROVE  Outcome
  BY <1>3 DEF SrpVerifyRefused, GiveUp, OpenWs, OpenWsRefused, ClientCloses,
              ClientSeesClose
<1>4. ASSUME NEW i \in Ids, KickStep(i) PROVE Outcome
  BY <1>4 DEF KickStep, KickPop, KickSkip, KickEnd, KickDeliver, KickClose, KickFree
<1>5. ASSUME NEW i \in Ids, Resume(i) PROVE Outcome
  BY <1>5 DEF Resume, DropWedged, Leave, Depart
<1>6. ASSUME NEW i \in Ids, RelayFrame(i) \/ Cancelled(i) \/ CleanupStale(i)
      PROVE  Outcome
  BY <1>6 DEF RelayFrame, Cancelled, CleanupStale, Depart
<1>7. CASE ClearMessages \/ UNCHANGED vars
  BY <1>7 DEF ClearMessages, vars
<1> QED
  BY <1>1, <1>2, <1>3, <1>4, <1>5, <1>6, <1>7 DEF Next, ServerStep

\* The room never seats more members than max_users, however handshakes,
\* departures, sweeps and kicks fall between the two checks of the capacity
\* (srp_init and srp_verify, views.py).
THEOREM SeatsStayBounded == Spec => []SeatsBounded
<1> DEFINE Inv == TypeInv /\ SeatsBounded
<1>1. Init => Inv
  <2>1. Len(<<>>) = 0
    BY EmptySeq
  <2> QED
    BY <2>1, InitType, ConstantsAssumption
       DEF Init, SeatsBounded, ConstantsAssumption
<1>2. Inv /\ [Next]_vars => Inv'
  <2> SUFFICES ASSUME Inv, [Next]_vars PROVE Inv'
    OBVIOUS
  <2>1. TypeInv'
    BY NextType
  <2>2. /\ sessions \in Seq(Ids) /\ sessions' \in Seq(Ids)
        /\ Len(sessions) \in Nat /\ MaxUsers \in Nat
    BY <2>1, LenProperties, ConstantsAssumption
       DEF TypeInv, TypeOK, ConstantsAssumption
  <2>3. CASE sessions' = sessions
    BY <2>1, <2>3 DEF SeatsBounded
  <2>4. ASSUME NEW x \in Ids, sessions' = Without(sessions, x)
        PROVE  SeatsBounded'
    <3>1. Len(sessions') <= Len(sessions) /\ Len(sessions') \in Nat
      BY <2>2, <2>4, WithoutLength, LenProperties
    <3> QED
      BY <2>2, <3>1 DEF SeatsBounded
  <2>5. ASSUME NEW x, ~Full, sessions' = Append(sessions, x)
        PROVE  SeatsBounded'
    <3>1. Len(sessions') = Len(sessions) + 1
      BY <2>2, <2>5
    <3> QED
      BY <2>2, <2>5, <3>1 DEF SeatsBounded, Full
  <2> QED
    BY <2>1, <2>3, <2>4, <2>5, SeatSteps
<1>3. Inv => SeatsBounded
  OBVIOUS
<1> QED
  BY <1>1, <1>2, <1>3, PTL DEF Spec

-----------------------------------------------------------------------------
(* What a kick guarantees.                                                 *)

\* A client's id is not seated before it verified, nor connected before it
\* opened its websocket: so neither dictionary sees a key twice.
Claims ==
    \A c \in Clients :
        /\ stage[c] = "hello" => uid[c] \notin ToSet(sessions)
        /\ stage[c] \in {"hello", "token"} =>
               uid[c] \notin ToSet(active) /\ pc[uid[c]] = "none"

\* rotate() drops the open handshakes, so all are under the current password.
Handshakes == \A i \in Ids : handshake[i] \in {None, epoch}

\* Connections are seated, and their handlers are not past the finally clause.
Seats ==
    /\ Distinct(sessions) /\ Distinct(active)
    /\ \A i \in ToSet(active) : /\ i \in ToSet(sessions)
                                /\ pc[i] \in {"join", "read", "kick"}

\* A handler has a list of members to close exactly while it runs a kick.
KickShape ==
    \A h \in Ids : /\ kick[h].phase # "off" <=> pc[h] = "kick"
                   /\ kick[h].phase = "off" => kick[h].left = {}
                   /\ kick[h].left \subseteq ToSet(kick[h].order)

Popping(h) == kick[h].phase \in {"deliver", "close", "free"}

\* The member a kick is closing is out of the connections and cannot reconnect
\* under the same id.
Popped ==
    \A h, u \in Ids :
        Popping(h) /\ NextUp(h, u) =>
            /\ u \notin ToSet(active)
            /\ \A c \in Clients : uid[c] = u => stage[c] = "live"

StaleDoomed ==
    \A i \in ToSet(sessions) : key[i] = epoch \/ \E h \in Ids : i \in kick[h].left

KickInv ==
    /\ TypeInv /\ Claims /\ Handshakes /\ Seats /\ KickShape /\ Popped
    /\ StaleDoomed

LEMMA ToSetInIds ==
    ASSUME NEW s \in Seq(Ids) PROVE ToSet(s) \subseteq Ids
BY LenProperties, ElementOfSeq DEF ToSet

\* The two loops of _handle_kick take the members one at a time.
LEMMA NextUpUnique ==
    ASSUME TypeOK, KickShape, NEW h \in Ids, NEW u \in Ids, NEW v \in Ids,
           NextUp(h, u), NextUp(h, v)
    PROVE  u = v
<1> SUFFICES ASSUME u # v PROVE FALSE
  OBVIOUS
<1> DEFINE k == kick[h]
<1>1. u \in k.left /\ v \in k.left /\ Before(k, u, v) /\ Before(k, v, u)
  BY DEF NextUp
<1>2. u \in ToSet(k.order) /\ v \in ToSet(k.order)
  BY <1>1 DEF KickShape
<1>3. k.order \in Seq(Ids)
  BY DEF TypeOK, KickRecords
<1>4. Position(k.order, u) \in Nat /\ Position(k.order, v) \in Nat
  BY <1>2, <1>3, LenProperties DEF Position, ToSet
<1> HIDE DEF k
<1> QED
  BY <1>1, <1>4 DEF Before

LEMMA NextUpSame ==
    ASSUME NEW h \in Ids, NEW u,
           kick'[h].left = kick[h].left, kick'[h].order = kick[h].order,
           kick'[h].targets = kick[h].targets
    PROVE  NextUp(h, u)' <=> NextUp(h, u)
BY DEF NextUp, Before

LEMMA InitKickInv == Init => KickInv
<1> SUFFICES ASSUME Init PROVE KickInv
  OBVIOUS
<1>1. ToSet(<<>>) = {} /\ Distinct(<<>>)
  BY DEF ToSet, Distinct
<1>2. TypeInv
  BY InitType
<1>3. Claims /\ Handshakes /\ Seats /\ StaleDoomed
  BY <1>1 DEF Init, Claims, Handshakes, Seats, StaleDoomed
<1>4. KickShape /\ Popped
  BY <1>1 DEF Init, KickShape, Popped, Popping, NoKick
<1> QED
  BY <1>2, <1>3, <1>4 DEF KickInv

\* Steps that leave the dictionaries, the password and the kicks alone.
LEMMA QuietStep ==
    ASSUME KickInv, TypeInv',
           UNCHANGED <<epoch, sessions, active, kick>>,
           \A i \in ToSet(active) : pc'[i] \in {"join", "read", "kick"},
           \A h \in Ids : pc'[h] = "kick" <=> pc[h] = "kick",
           \A i \in ToSet(sessions) : key'[i] = key[i],
           \A i \in Ids : handshake'[i] \in {None, epoch},
           Claims',
           \A h, u \in Ids : Popping(h) /\ NextUp(h, u) =>
               \A c \in Clients : uid'[c] = u => stage'[c] = "live"
    PROVE  KickInv'
<1>1. Handshakes'
  BY DEF Handshakes
<1>2. Seats'
  BY DEF KickInv, Seats
<1>3. KickShape'
  BY DEF KickInv, KickShape
<1>4. StaleDoomed'
  BY DEF KickInv, StaleDoomed
<1>5. Popped'
  <2>1. \A h, u \in Ids : NextUp(h, u)' <=> NextUp(h, u)
    BY NextUpSame
  <2> QED
    BY <2>1 DEF KickInv, Popped, Popping
<1> QED
  BY <1>1, <1>2, <1>3, <1>4, <1>5 DEF KickInv

\* Steps that only take members out of the dictionaries: of the sessions no
\* one still connected.
LEMMA ShrinkStep ==
    ASSUME KickInv, TypeInv',
           UNCHANGED <<epoch, handshake, key, kick, uid, stage>>,
           ToSet(sessions') \subseteq ToSet(sessions), Distinct(sessions'),
           ToSet(active') \subseteq ToSet(active), Distinct(active'),
           \A i \in ToSet(active') : /\ i \in ToSet(sessions')
                                     /\ pc'[i] \in {"join", "read", "kick"},
           \A h \in Ids : /\ pc'[h] = "kick" <=> pc[h] = "kick"
                          /\ pc[h] = "none" => pc'[h] = "none"
    PROVE  KickInv'
<1>1. Handshakes' /\ Claims'
  BY UsesAnId DEF KickInv, Handshakes, Claims
<1>2. Seats'
  BY DEF Seats
<1>3. KickShape'
  BY DEF KickInv, KickShape
<1>4. StaleDoomed'
  BY DEF KickInv, StaleDoomed
<1>5. Popped'
  <2>1. \A h, u \in Ids : NextUp(h, u)' <=> NextUp(h, u)
    BY NextUpSame
  <2> QED
    BY <2>1 DEF KickInv, Popped, Popping
<1> QED
  BY <1>1, <1>2, <1>3, <1>4, <1>5 DEF KickInv

LEMMA KickInvNext ==
    ASSUME ~LossCancels, "member" \notin LongIdle, KickInv, [Next]_vars
    PROVE  KickInv'
<1>0. TypeInv' /\ TypeInv /\ TypeOK
  BY NextType DEF KickInv, TypeInv
<1>a. /\ ToSet(sessions) \subseteq Ids /\ ToSet(active) \subseteq Ids
      /\ sessions \in Seq(Ids) /\ active \in Seq(Ids)
  BY <1>0, ToSetInIds DEF TypeOK
<1>1. ASSUME NEW c \in Clients, NEW i \in Ids, SrpInit(c, i) PROVE KickInv'
  <2>1. /\ i \notin ToSet(sessions) /\ i \notin ToSet(active) /\ pc[i] = "none"
        /\ \A h \in Ids : i \notin kick[h].left
    BY <1>1 DEF SrpInit, Fresh, Doomed
  <2>2. /\ UNCHANGED <<epoch, sessions, active, kick, pc>>
        /\ key' = [key EXCEPT ![i] = pw[c]]
        /\ uid' = [uid EXCEPT ![c] = i] /\ stage' = [stage EXCEPT ![c] = "hello"]
    BY <1>1 DEF SrpInit
  <2>3. \A j \in Ids : handshake'[j] \in {None, epoch}
    BY <1>1 DEF SrpInit, KickInv, Handshakes
  <2>4. Claims'
    BY <1>0, <2>1, <2>2 DEF KickInv, Claims, TypeOK
  <2>5. \A h, u \in Ids : Popping(h) /\ NextUp(h, u) =>
            \A d \in Clients : uid'[d] = u => stage'[d] = "live"
    <3>1. \A h \in Ids : ~NextUp(h, i)
      BY <2>1 DEF NextUp
    <3>2. \A d \in Clients : uid'[d] # i => uid'[d] = uid[d] /\ stage'[d] = stage[d]
      BY <1>0, <2>2 DEF TypeOK
    <3> QED
      BY <3>1, <3>2 DEF KickInv, Popped
  <2>6. \A j \in ToSet(sessions) : key'[j] = key[j]
    BY <1>0, <2>1, <2>2 DEF TypeOK
  <2>7. \A j \in ToSet(active) : pc'[j] \in {"join", "read", "kick"}
    BY <2>2 DEF KickInv, Seats
  <2> QED
    BY <1>0, <2>2, <2>3, <2>4, <2>5, <2>6, <2>7, QuietStep
<1>2. ASSUME NEW c \in Clients, SrpVerify(c) PROVE KickInv'
  <2> DEFINE i == uid[c]
  <2>1. i \in Ids /\ Owner[i] = c /\ stage[c] = "hello"
    BY <1>0, <1>2, UsesAnId DEF SrpVerify
  <2>2. i \notin ToSet(sessions) /\ i \notin ToSet(active) /\ key[i] = epoch
    BY <1>2, <2>1, <1>0
       DEF SrpVerify, KickInv, Claims, Handshakes, TypeOK
  <2>3. /\ handshake' = [handshake EXCEPT ![i] = None]
        /\ sessions' = Append(sessions, i)
        /\ stage' = [stage EXCEPT ![c] = "token"]
        /\ UNCHANGED <<epoch, active, pc, kick, key, uid>>
    BY <1>2 DEF SrpVerify
  <2>4. ToSet(sessions') = ToSet(sessions) \cup {i} /\ Distinct(sessions')
    BY <1>a, <2>1, <2>2, <2>3, AppendFacts DEF KickInv, Seats
  <2>5. Claims'
    BY <1>0, <2>1, <2>2, <2>3, <2>4
       DEF KickInv, Claims, TypeInv, TypeOK, Addressed
  <2>6. Handshakes'
    BY <1>0, <2>1, <2>3 DEF KickInv, Handshakes, TypeOK
  <2>7. Seats'
    BY <2>3, <2>4 DEF KickInv, Seats
  <2>8. KickShape'
    BY <2>3 DEF KickInv, KickShape
  <2>9. StaleDoomed'
    BY <2>2, <2>3, <2>4 DEF KickInv, StaleDoomed
  <2>10. Popped'
    <3>1. \A h, u \in Ids : NextUp(h, u)' <=> NextUp(h, u)
      BY <2>3, NextUpSame
    <3> QED
      BY <1>0, <2>1, <2>3, <3>1 DEF KickInv, Popped, Popping, TypeOK
  <2> QED
    BY <1>0, <2>5, <2>6, <2>7, <2>8, <2>9, <2>10 DEF KickInv
<1>3. ASSUME NEW c \in Clients,
             \/ SrpVerifyRefused(c) \/ GiveUp(c) \/ OpenWsRefused(c)
             \/ ClientCloses(c) \/ ClientSeesClose(c)
      PROVE  KickInv'
  <2>1. /\ UNCHANGED <<epoch, sessions, active, kick, pc, key>>
        /\ uid' = [uid EXCEPT ![c] = NULL] /\ stage' = [stage EXCEPT ![c] = "idle"]
    BY <1>3 DEF SrpVerifyRefused, GiveUp, OpenWsRefused, ClientCloses,
                ClientSeesClose, serverVars
  <2>2. \A j \in Ids : handshake'[j] \in {None, epoch}
    <3>1. handshake' = handshake \/ handshake' = [handshake EXCEPT ![uid[c]] = None]
      BY <1>3 DEF SrpVerifyRefused, GiveUp, OpenWsRefused, ClientCloses,
                  ClientSeesClose, serverVars
    <3> QED
      BY <1>0, <3>1 DEF KickInv, Handshakes, TypeOK
  <2>3. Claims'
    BY <1>0, <2>1 DEF KickInv, Claims, TypeOK
  <2>4. \A h, u \in Ids : Popping(h) /\ NextUp(h, u) =>
            \A d \in Clients : uid'[d] = u => stage'[d] = "live"
    BY <1>0, <2>1, ConstantsAssumption
       DEF KickInv, Popped, TypeOK, ConstantsAssumption
  <2>5. \A j \in ToSet(active) : pc'[j] \in {"join", "read", "kick"}
    BY <2>1 DEF KickInv, Seats
  <2> QED
    BY <1>0, <2>1, <2>2, <2>3, <2>4, <2>5, QuietStep
<1>4. ASSUME NEW c \in Clients, OpenWs(c) PROVE KickInv'
  <2> DEFINE i   == uid[c]
             act == Append(active, i)
  <2>1. i \in Ids /\ Owner[i] = c /\ stage[c] = "token" /\ i \in ToSet(sessions)
    BY <1>0, <1>4, UsesAnId DEF OpenWs
  <2>2. i \notin ToSet(active)
    BY <2>1 DEF KickInv, Claims
  <2>3. /\ act \in Seq(Ids) /\ ToSet(act) = ToSet(active) \cup {i}
        /\ Distinct(act)
    BY <1>a, <2>1, <2>2, AppendFacts DEF KickInv, Seats
  <2>4. /\ ToSet(active') \subseteq ToSet(act) /\ Distinct(active')
        /\ \E p \in {"join", "read"} : pc' = [pc EXCEPT ![i] = p]
    <3>1. CASE BroadcastRoster(i, "read", act, sessions)
      BY <1>0, <1>a, <2>1, <2>3, <3>1, RosterFacts DEF States
    <3>2. CASE \E q \in Wedged(active) \ {<<>>} : Broadcast(i, "join", act, q)
      <4>1. PICK q \in Wedged(active) \ {<<>>} : Broadcast(i, "join", act, q)
        BY <3>2
      <4>2. active' = Without(act, Head(q)) /\ pc' = [pc EXCEPT ![i] = "join"]
        BY <4>1 DEF Broadcast
      <4>3. /\ ToSet(Without(act, Head(q))) \subseteq ToSet(act)
            /\ Distinct(Without(act, Head(q)))
        BY <2>3, WithoutFacts
      <4> QED
        BY <4>2, <4>3
    <3> QED
      BY <1>4, <3>1, <3>2 DEF OpenWs
  <2>5. /\ stage' = [stage EXCEPT ![c] = "live"]
        /\ UNCHANGED <<epoch, handshake, sessions, kick, key, uid>>
    BY <1>4 DEF OpenWs
  <2> HIDE DEF act, i
  <2>6. Claims'
    BY <1>0, <2>1, <2>3, <2>4, <2>5, i = uid[c]
       DEF KickInv, Claims, TypeInv, TypeOK, Addressed, i
  <2>7. Handshakes' /\ StaleDoomed'
    BY <2>5 DEF KickInv, Handshakes, StaleDoomed
  <2>8. Seats'
    BY <1>0, <2>1, <2>3, <2>4, <2>5 DEF KickInv, Seats, TypeOK
  <2>9. KickShape'
    <3>1. pc[i] # "kick"
      BY <2>1 DEF KickInv, Claims, i
    <3> QED
      BY <1>0, <2>1, <2>4, <2>5, <3>1 DEF KickInv, KickShape, TypeOK
  <2>10. Popped'
    <3>1. \A h, u \in Ids : NextUp(h, u)' <=> NextUp(h, u)
      BY <2>5, NextUpSame
    <3>2. ASSUME NEW h \in Ids, Popping(h), NextUp(h, i) PROVE FALSE
      BY <2>1, <3>2 DEF KickInv, Popped, i
    <3> QED
      BY <1>0, <2>1, <2>3, <2>4, <2>5, <3>1, <3>2
         DEF KickInv, Popped, Popping, TypeOK
  <2> QED
    BY <1>0, <2>6, <2>7, <2>8, <2>9, <2>10 DEF KickInv
<1>5. ASSUME NEW i \in Ids, DropWedged(i) PROVE KickInv'
  <2>1. UNCHANGED <<epoch, handshake, sessions, key, kick, uid, stage>>
    BY <1>5 DEF DropWedged, clientVars
  <2>2. /\ ToSet(active') \subseteq ToSet(active) /\ Distinct(active')
        /\ \/ pc' = pc
           \/ pc[i] = "join" /\ pc' = [pc EXCEPT ![i] = "read"]
           \/ pc[i] = "leave" /\ pc' = [pc EXCEPT ![i] = "none"]
    <3>1. CASE active' \in {active, Without(active, evict[i][2])} /\ pc' = pc
      BY <1>a, <3>1, WithoutFacts DEF KickInv, Seats
    <3>2. CASE pc[i] = "join" /\ BroadcastRoster(i, "read", active, sessions)
      BY <1>0, <1>a, <3>2, RosterFacts DEF KickInv, Seats, States
    <3>3. CASE pc[i] = "leave" /\ BroadcastRoster(i, "none", active, sessions)
      BY <1>0, <1>a, <3>3, RosterFacts DEF KickInv, Seats, States
    <3> QED
      BY <1>5, <3>1, <3>2, <3>3 DEF DropWedged
  <2>3. /\ \A j \in ToSet(active') : /\ j \in ToSet(sessions')
                                    /\ pc'[j] \in {"join", "read", "kick"}
        /\ \A h \in Ids : /\ pc'[h] = "kick" <=> pc[h] = "kick"
                          /\ pc[h] = "none" => pc'[h] = "none"
    <3>1. \A j \in ToSet(active) : /\ j \in Ids /\ j \in ToSet(sessions)
                                   /\ pc[j] \in {"join", "read", "kick"}
      BY <1>0, <1>a DEF KickInv, Seats, TypeOK
    <3>2. \A h \in Ids : pc'[h] = pc[h] \/ h = i
      BY <1>0, <2>2 DEF TypeOK
    <3>3. \/ pc'[i] = pc[i]
          \/ pc[i] = "join" /\ pc'[i] = "read"
          \/ pc[i] = "leave" /\ pc'[i] = "none"
      BY <1>0, <2>2 DEF TypeOK
    <3>4. \A j \in ToSet(active') : pc'[j] \in {"join", "read", "kick"}
      BY <2>2, <3>1, <3>2, <3>3
    <3> QED
      BY <2>1, <2>2, <3>1, <3>2, <3>3, <3>4
  <2>4. Distinct(sessions')
    BY <2>1 DEF KickInv, Seats
  <2> QED
    BY <1>0, <2>1, <2>2, <2>3, <2>4, ShrinkStep
<1>6. ASSUME NEW i \in Ids, RelayFrame(i) PROVE KickInv'
  <2>1. /\ UNCHANGED <<epoch, handshake, sessions, key, kick, uid, stage>>
        /\ pc[i] = "read"
    BY <1>6 DEF RelayFrame, Reading, clientVars
  <2>2. /\ ToSet(active') \subseteq ToSet(active) /\ Distinct(active')
        /\ pc' = [pc EXCEPT ![i] = "read"]
    BY <1>0, <1>6, <1>a, BroadcastFacts DEF RelayFrame, KickInv, Seats, States
  <2>3. pc' = pc
    BY <1>0, <2>1, <2>2 DEF TypeOK
  <2>4. /\ Distinct(sessions')
        /\ \A j \in ToSet(active') : /\ j \in ToSet(sessions')
                                    /\ pc'[j] \in {"join", "read", "kick"}
    BY <2>1, <2>2, <2>3 DEF KickInv, Seats
  <2> QED
    BY <1>0, <2>1, <2>2, <2>3, <2>4, ShrinkStep
<1>7. ASSUME NEW i \in Ids, CleanupStale(i) PROVE KickInv'
  <2>1. /\ UNCHANGED <<epoch, handshake, active, key, kick, uid, stage, pc>>
        /\ sessions' = Without(sessions, i) /\ pc[i] = "none"
    BY <1>7, "member" \notin LongIdle DEF CleanupStale, serverVars, clientVars
  <2>2. /\ ToSet(sessions') \subseteq ToSet(sessions) /\ Distinct(sessions')
        /\ \A j \in ToSet(sessions) : j # i => j \in ToSet(sessions')
    BY <1>a, <2>1, WithoutFacts DEF KickInv, Seats
  <2>3. /\ Distinct(active')
        /\ \A j \in ToSet(active') : /\ j \in ToSet(sessions')
                                    /\ pc'[j] \in {"join", "read", "kick"}
    BY <2>1, <2>2 DEF KickInv, Seats
  <2> QED
    BY <1>0, <2>1, <2>2, <2>3, ShrinkStep
<1>8. ASSUME NEW i \in Ids, Leave(i) PROVE KickInv'
  <2> DEFINE act == Without(active, i)
             ses == Without(sessions, i)
  <2>1. /\ act \in Seq(Ids) /\ ToSet(act) \subseteq ToSet(active)
        /\ Distinct(act) /\ i \notin ToSet(act)
        /\ ses \in Seq(Ids) /\ ToSet(ses) \subseteq ToSet(sessions)
        /\ Distinct(ses)
        /\ \A j \in ToSet(sessions) : j # i => j \in ToSet(ses)
    BY <1>a, WithoutFacts DEF KickInv, Seats
  <2>2. /\ UNCHANGED <<epoch, handshake, key, uid, stage>>
        /\ sessions' = ses /\ kick' = [kick EXCEPT ![i] = NoKick]
        /\ pc[i] = "read"
    BY <1>8 DEF Leave, Depart, Reading, clientVars
  <2> HIDE DEF act, ses
  <2>3. /\ ToSet(active') \subseteq ToSet(act) /\ Distinct(active')
        /\ \E p \in {"none", "leave"} : pc' = [pc EXCEPT ![i] = p]
    <3>1. CASE BroadcastRoster(i, "none", act, ses)
      BY <1>0, <2>1, <3>1, RosterFacts DEF States
    <3>2. CASE \E q \in Wedged(act) : Broadcast(i, "leave", act, q)
      BY <1>0, <2>1, <3>2, BroadcastFacts DEF States
    <3> QED
      BY <1>8, <3>1, <3>2 DEF Leave, Depart, act, ses
  <2>4. kick[i].left = {} /\ kick[i].phase = "off"
    BY <1>0, <2>2 DEF KickInv, KickShape, TypeOK, KickRecords
  <2>5. /\ kick'[i].phase = "off" /\ kick'[i].left = {}
        /\ \A h \in Ids \ {i} : kick'[h] = kick[h]
    BY <1>0, <2>2 DEF TypeOK, NoKick
  <2>6. Handshakes'
    BY <2>2 DEF KickInv, Handshakes
  <2>7. Claims'
    BY <1>0, <2>1, <2>2, <2>3, UsesAnId DEF KickInv, Claims, TypeOK
  <2>8. Seats'
    BY <1>0, <1>a, <2>1, <2>2, <2>3 DEF KickInv, Seats, TypeOK
  <2>9. KickShape'
    BY <1>0, <2>2, <2>3, <2>4, <2>5 DEF KickInv, KickShape, TypeOK
  <2>10. StaleDoomed'
    <3>1. \A h \in Ids : kick'[h].left = kick[h].left
      BY <2>4, <2>5
    <3> QED
      BY <2>1, <2>2, <3>1 DEF KickInv, StaleDoomed
  <2>11. Popped'
    <3>1. \A h \in Ids \ {i}, u \in Ids : NextUp(h, u)' <=> NextUp(h, u)
      BY <2>5, NextUpSame
    <3> QED
      BY <2>1, <2>2, <2>3, <2>5, <3>1 DEF KickInv, Popped, Popping
  <2> QED
    BY <1>0, <2>6, <2>7, <2>8, <2>9, <2>10, <2>11 DEF KickInv
<1>9. ASSUME NEW i \in Ids, Cancelled(i) PROVE KickInv'
  BY <1>9, ~LossCancels DEF Cancelled
<1>10. CASE \/ \E i \in Ids, c \in Clients : KickDenied(i, Name[c])
            \/ ClearMessages
            \/ UNCHANGED vars
  <2>1. UNCHANGED <<epoch, handshake, sessions, active, kick, pc, key, uid, stage>>
    BY <1>10 DEF KickDenied, ClearMessages, vars, clientVars
  <2>2. Claims'
    BY <2>1 DEF KickInv, Claims
  <2>3. \A j \in ToSet(active) : pc'[j] \in {"join", "read", "kick"}
    BY <2>1 DEF KickInv, Seats
  <2>4. \A h, u \in Ids : Popping(h) /\ NextUp(h, u) =>
            \A c \in Clients : uid'[c] = u => stage'[c] = "live"
    BY <2>1 DEF KickInv, Popped
  <2>5. \A j \in Ids : handshake'[j] \in {None, epoch}
    BY <2>1 DEF KickInv, Handshakes
  <2> QED
    BY <1>0, <2>1, <2>2, <2>3, <2>4, <2>5, QuietStep
<1>11. ASSUME NEW i \in Ids, NEW n, KickStart(i, n) PROVE KickInv'
  <2>1. /\ UNCHANGED <<sessions, active, key, uid, stage>>
        /\ epoch' = epoch + 1 /\ handshake' = [j \in Ids |-> None]
        /\ kick' = [kick EXCEPT ![i] = StartedKick(i, n)]
        /\ pc' = [pc EXCEPT ![i] = "kick"] /\ pc[i] = "read"
    BY <1>11 DEF KickStart, Reading, clientVars
  <2>2. /\ kick'[i].phase = "next" /\ kick'[i].left = ToSet(sessions)
        /\ kick'[i].order = sessions
        /\ \A h \in Ids \ {i} : kick'[h] = kick[h]
    BY <1>0, <2>1 DEF TypeOK, StartedKick
  <2>3. Handshakes'
    BY <2>1 DEF Handshakes
  <2>4. Claims'
    BY <1>0, <2>1, UsesAnId DEF KickInv, Claims, TypeOK
  <2>5. Seats'
    BY <1>0, <1>a, <2>1 DEF KickInv, Seats, TypeOK
  <2>6. KickShape'
    BY <1>0, <2>1, <2>2 DEF KickInv, KickShape, TypeOK
  <2>7. StaleDoomed'
    BY <2>1, <2>2 DEF StaleDoomed
  <2>8. Popped'
    <3>1. \A h \in Ids \ {i}, u \in Ids : NextUp(h, u)' <=> NextUp(h, u)
      BY <2>2, NextUpSame
    <3> QED
      BY <2>1, <2>2, <3>1 DEF KickInv, Popped, Popping
  <2> QED
    BY <1>0, <2>3, <2>4, <2>5, <2>6, <2>7, <2>8 DEF KickInv
<1>12. ASSUME NEW i \in Ids, NEW u \in Ids, KickPop(i, u) PROVE KickInv'
  <2>1. /\ UNCHANGED <<epoch, handshake, sessions, pc, key, uid, stage>>
        /\ active' = Without(active, u) /\ u \in ToSet(active)
        /\ kick' = [kick EXCEPT ![i].phase = "deliver"]
        /\ kick[i].phase = "next" /\ NextUp(i, u)
    BY <1>12 DEF KickPop, clientVars
  <2>2. /\ ToSet(active') \subseteq ToSet(active) /\ Distinct(active')
        /\ u \notin ToSet(active')
    BY <1>a, <2>1, WithoutFacts DEF KickInv, Seats
  <2>3. /\ kick'[i].phase = "deliver" /\ kick'[i].left = kick[i].left
        /\ kick'[i].order = kick[i].order /\ kick'[i].targets = kick[i].targets
        /\ \A h \in Ids \ {i} : kick'[h] = kick[h]
    BY <1>0, <2>1 DEF TypeOK, KickRecords
  <2>4. Handshakes' /\ Claims'
    BY <2>1, <2>2 DEF KickInv, Handshakes, Claims
  <2>5. Seats'
    BY <2>1, <2>2 DEF KickInv, Seats
  <2>6. KickShape'
    BY <2>1, <2>3 DEF KickInv, KickShape
  <2>7. StaleDoomed'
    BY <2>1, <2>3 DEF KickInv, StaleDoomed
  <2>8. Popped'
    <3>1. \A h, v \in Ids : NextUp(h, v)' <=> NextUp(h, v)
      BY <2>3, NextUpSame
    <3>2. \A v \in Ids : NextUp(i, v) => v = u
      BY <1>0, <2>1, NextUpUnique DEF KickInv
    <3>3. \A c \in Clients : uid[c] = u => stage[c] = "live"
      BY <1>0, <2>1, ConstantsAssumption
         DEF KickInv, Claims, TypeInv, Addressed, TypeOK, ConstantsAssumption
    <3> QED
      BY <2>1, <2>2, <2>3, <3>1, <3>2, <3>3 DEF KickInv, Popped, Popping
  <2> QED
    BY <1>0, <2>4, <2>5, <2>6, <2>7, <2>8 DEF KickInv
<1>13. ASSUME NEW i \in Ids, NEW u \in Ids, KickSkip(i, u) \/ KickFree(i, u)
       PROVE  KickInv'
  <2>1. /\ UNCHANGED <<epoch, handshake, active, pc, key, uid, stage>>
        /\ sessions' = Without(sessions, u) /\ NextUp(i, u)
        /\ kick[i].phase \in {"next", "free"}
    BY <1>13 DEF KickSkip, KickFree, clientVars
  <2>2. u \notin ToSet(active)
    BY <1>13 DEF KickSkip, KickFree, KickInv, Popped, Popping
  <2>3. /\ ToSet(sessions') \subseteq ToSet(sessions) /\ Distinct(sessions')
        /\ u \notin ToSet(sessions')
        /\ \A j \in ToSet(sessions) : j # u => j \in ToSet(sessions')
    BY <1>a, <2>1, WithoutFacts DEF KickInv, Seats
  <2>4. /\ kick'[i].phase = "next"
        /\ kick'[i].left \in {kick[i].left, kick[i].left \ {u}}
        /\ kick'[i].order = kick[i].order /\ kick'[i].targets = kick[i].targets
        /\ \A h \in Ids \ {i} : kick'[h] = kick[h]
    <3>1. CASE KickSkip(i, u)
      BY <1>0, <3>1 DEF KickSkip, TypeOK, KickRecords
    <3>2. CASE KickFree(i, u)
      <4>1. kick[i] \in KickRecords
        BY <1>0 DEF TypeOK
      <4>2. kick' = [kick EXCEPT ![i] =
                        [kick[i] EXCEPT !.phase = "next", !.left = @ \ {u}]]
        BY <1>0, <3>2 DEF KickFree, TypeOK
      <4>3. kick'[i] = [kick[i] EXCEPT !.phase = "next", !.left = @ \ {u}]
        BY <1>0, <4>2 DEF TypeOK
      <4>4. \A h \in Ids \ {i} : kick'[h] = kick[h]
        BY <1>0, <4>2 DEF TypeOK
      <4> QED
        BY ONLY <4>1, <4>3, <4>4 DEF KickRecords
    <3> QED
      BY <1>13, <3>1, <3>2
  <2>5. Handshakes' /\ Claims'
    BY <2>1, <2>3 DEF KickInv, Handshakes, Claims
  <2>6. Seats'
    BY <2>1, <2>2, <2>3 DEF KickInv, Seats
  <2>7. KickShape'
    BY <2>1, <2>4 DEF KickInv, KickShape
  <2>8. StaleDoomed'
    <3>1. \A j \in ToSet(sessions') : j # u /\ j \in ToSet(sessions)
      BY <2>3
    <3>2. \A h \in Ids : \A j : j # u /\ j \in kick[h].left => j \in kick'[h].left
      BY <2>4
    <3> QED
      BY <2>1, <3>1, <3>2 DEF KickInv, StaleDoomed
  <2>9. Popped'
    <3>1. \A h \in Ids \ {i}, v \in Ids : NextUp(h, v)' <=> NextUp(h, v)
      BY <2>4, NextUpSame
    <3> QED
      BY <2>1, <2>4, <3>1 DEF KickInv, Popped, Popping
  <2> QED
    BY <1>0, <2>5, <2>6, <2>7, <2>8, <2>9 DEF KickInv
<1>14. ASSUME NEW i \in Ids, NEW u \in Ids, KickDeliver(i, u) \/ KickClose(i, u)
       PROVE  KickInv'
  <2>1. /\ UNCHANGED <<epoch, handshake, sessions, active, pc, key, uid, stage>>
        /\ kick[i].phase \in {"deliver", "close"}
    BY <1>14 DEF KickDeliver, KickClose, clientVars
  <2>2. /\ kick'[i].phase \in {"close", "free"} /\ kick'[i].left = kick[i].left
        /\ kick'[i].order = kick[i].order /\ kick'[i].targets = kick[i].targets
        /\ \A h \in Ids \ {i} : kick'[h] = kick[h]
    <3>1. CASE KickDeliver(i, u)
      BY <1>0, <3>1 DEF KickDeliver, TypeOK, KickRecords
    <3>2. CASE KickClose(i, u)
      BY <1>0, <3>2 DEF KickClose, TypeOK, KickRecords
    <3> QED
      BY <1>14, <3>1, <3>2
  <2>3. Handshakes' /\ Claims' /\ Seats'
    BY <2>1 DEF KickInv, Handshakes, Claims, Seats
  <2>4. KickShape'
    BY <2>1, <2>2 DEF KickInv, KickShape
  <2>5. StaleDoomed'
    BY <2>1, <2>2 DEF KickInv, StaleDoomed
  <2>6. Popped'
    <3>1. \A h, v \in Ids : NextUp(h, v)' <=> NextUp(h, v)
      BY <2>2, NextUpSame
    <3>2. \A h \in Ids : Popping(h)' => Popping(h)
      BY <2>1, <2>2 DEF Popping
    <3> QED
      BY <2>1, <3>1, <3>2 DEF KickInv, Popped
  <2> QED
    BY <1>0, <2>3, <2>4, <2>5, <2>6 DEF KickInv
<1>15. ASSUME NEW i \in Ids, KickEnd(i) PROVE KickInv'
  <2>1. /\ UNCHANGED <<epoch, handshake, sessions, active, key, uid, stage>>
        /\ kick[i].phase = "next" /\ kick[i].left = {}
        /\ kick' = [kick EXCEPT ![i] = NoKick] /\ pc' = [pc EXCEPT ![i] = "read"]
    BY <1>15 DEF KickEnd, clientVars
  <2>2. /\ kick'[i].phase = "off" /\ kick'[i].left = {}
        /\ \A h \in Ids \ {i} : kick'[h] = kick[h]
    BY <1>0, <2>1 DEF TypeOK, NoKick
  <2>3. pc[i] = "kick"
    BY <2>1 DEF KickInv, KickShape
  <2>4. Claims'
    BY <1>0, <2>1, <2>3, UsesAnId DEF KickInv, Claims, TypeOK
  <2>5. Handshakes' /\ Seats'
    BY <1>0, <1>a, <2>1 DEF KickInv, Handshakes, Seats, TypeOK
  <2>6. KickShape'
    BY <1>0, <2>1, <2>2 DEF KickInv, KickShape, TypeOK
  <2>7. StaleDoomed'
    <3>1. \A h \in Ids : kick'[h].left = kick[h].left
      BY <2>1, <2>2
    <3> QED
      BY <2>1, <3>1 DEF KickInv, StaleDoomed
  <2>8. Popped'
    <3>1. \A h \in Ids \ {i}, v \in Ids : NextUp(h, v)' <=> NextUp(h, v)
      BY <2>2, NextUpSame
    <3> QED
      BY <2>1, <2>2, <3>1 DEF KickInv, Popped, Popping
  <2> QED
    BY <1>0, <2>4, <2>5, <2>6, <2>7, <2>8 DEF KickInv
<1> QED
  BY <1>1, <1>2, <1>3, <1>4, <1>5, <1>6, <1>7, <1>8, <1>9, <1>10, <1>11,
     <1>12, <1>13, <1>14, <1>15 DEF Next, ServerStep, KickStep, Resume

\* When the connected members do not idle for an hour and handlers run to
\* their end, a kick leaves nobody in the room with an old password: whoever
\* has one is still to be closed by a kick in progress (_handle_kick).
THEOREM KickLeavesNoStaleMember ==
    ASSUME ~LossCancels, "member" \notin LongIdle
    PROVE  Spec => []NoStaleMember
<1>1. Init => KickInv
  BY InitKickInv
<1>2. KickInv /\ [Next]_vars => KickInv'
  BY KickInvNext
<1>3. KickInv => NoStaleMember
  <2> SUFFICES ASSUME KickInv, NEW i \in ToSet(sessions) \cup ToSet(active)
               PROVE  key[i] = epoch \/ i \in Doomed
    BY DEF NoStaleMember
  <2>1. i \in ToSet(sessions)
    BY DEF KickInv, Seats
  <2> QED
    BY <2>1 DEF KickInv, StaleDoomed, Doomed
<1> QED
  BY <1>1, <1>2, <1>3, PTL DEF Spec

\* Under the same conditions whoever receives the room's frames holds a seat.
THEOREM ConnectionsHoldSeats ==
    ASSUME ~LossCancels, "member" \notin LongIdle
    PROVE  Spec => []ConnectedIsSeated
<1>1. Init => KickInv
  BY InitKickInv
<1>2. KickInv /\ [Next]_vars => KickInv'
  BY KickInvNext
<1>3. KickInv => ConnectedIsSeated
  BY DEF KickInv, Seats, ConnectedIsSeated
<1> QED
  BY <1>1, <1>2, <1>3, PTL DEF Spec
-----------------------------------------------------------------------------
(* How handlers end, and who may rotate the password: in every regime,     *)
(* also when lost connections cancel handlers and seats are swept under    *)
(* their members.                                                          *)

\* Nobody is seen twice; a connection has a handler short of its finally
\* clause; a handler in it has freed its seat.
Handlers ==
    /\ Distinct(sessions) /\ Distinct(active)
    /\ \A i \in ToSet(active) : pc[i] \in {"join", "read", "kick"}
    /\ \A i \in Ids : pc[i] = "leave" => i \notin ToSet(sessions)

\* Who has not connected yet is not the host on record.
Newcomers == \A c \in Clients : stage[c] \in {"hello", "token"} => uid[c] # host

\* The host on record, while connected, is the oldest connection.
Eldest(act, h) == h \in ToSet(act) => h = Head(act)

RoomInv ==
    /\ TypeInv /\ Claims /\ KickShape /\ Handlers /\ Newcomers
    /\ Eldest(active, host)

\* dict.pop of another key leaves the first one in its place.
LEMMA WithoutHead ==
    ASSUME NEW s \in Seq(Ids), NEW x, s # <<>>, x # Head(s)
    PROVE  Without(s, x) # <<>> /\ Head(Without(s, x)) = Head(s)
<1>0. Len(s) \in Nat /\ Len(s) # 0 /\ DOMAIN s = 1 .. Len(s) /\ Head(s) = s[1]
  BY LenProperties, EmptySeq
<1>1. CASE x \notin ToSet(s)
  BY <1>1 DEF Without
<1>2. CASE x \in ToSet(s)
  <2> DEFINE k == Position(s, x)
  <2>1. k \in DOMAIN s /\ s[k] = x
    BY <1>2 DEF Position, ToSet
  <2>2. Without(s, x) = RemoveAt(s, k)
    BY <1>2 DEF Without
  <2> HIDE DEF k
  <2>3. k # 1 /\ k \in 1 .. Len(s)
    BY <1>0, <2>1
  <2> DEFINE t == Without(s, x)
  <2>4. /\ t \in Seq(Ids) /\ Len(t) = Len(s) - 1
        /\ \A j \in 1 .. Len(s) - 1 : t[j] = IF j < k THEN s[j] ELSE s[j + 1]
    BY <2>1, <2>2, RemoveAtShifts
  <2> HIDE DEF t
  <2>5. 1 \in 1 .. Len(s) - 1 /\ 1 < k
    BY <1>0, <2>3
  <2>6. t[1] = s[1]
    BY <2>4, <2>5
  <2>7. Len(t) # 0
    BY <1>0, <2>4, <2>5
  <2>8. t # <<>> /\ Head(t) = t[1]
    BY <2>4, <2>7, EmptySeq
  <2> QED
    BY <1>0, <2>6, <2>8 DEF t
<1> QED
  BY <1>1, <1>2

LEMMA EldestWithout ==
    ASSUME NEW act \in Seq(Ids), Distinct(act), NEW h, Eldest(act, h), NEW x
    PROVE  Eldest(Without(act, x), h)
<1> SUFFICES ASSUME h \in ToSet(Without(act, x)) PROVE h = Head(Without(act, x))
  BY DEF Eldest
<1>1. h \in ToSet(act) /\ x # h
  BY WithoutFacts
<1>2. act # <<>> /\ h = Head(act)
  BY <1>1 DEF Eldest, ToSet
<1> QED
  BY <1>1, <1>2, WithoutHead

LEMMA EldestAppend ==
    ASSUME NEW act \in Seq(Ids), NEW h, Eldest(act, h), NEW x \in Ids, x # h
    PROVE  Eldest(Append(act, x), h)
<1> SUFFICES ASSUME h \in ToSet(Append(act, x)) PROVE h = Head(Append(act, x))
  BY DEF Eldest
<1>1. h \in ToSet(act)
  BY AppendFacts
<1>2. act # <<>> /\ h = Head(act)
  BY <1>1 DEF Eldest, ToSet
<1>3. Len(act) \in Nat /\ Len(act) # 0 /\ Head(act) = act[1]
  BY <1>2, LenProperties, EmptySeq
<1>4. /\ Append(act, x) \in Seq(Ids) /\ Len(Append(act, x)) = Len(act) + 1
      /\ Append(act, x)[1] = act[1]
  BY <1>3, AppendProperties
<1> QED
  BY <1>2, <1>3, <1>4

\* _current_host answers a live connection, or nobody in an empty room, and
\* asking again changes nothing.
LEMMA CurrentHostFacts ==
    ASSUME NEW act \in Seq(Ids), NEW h
    PROVE  /\ CurrentHost(act, h) \in ToSet(act) \cup {NULL}
           /\ CurrentHost(act, CurrentHost(act, h)) = CurrentHost(act, h)
           /\ Eldest(act, h) => Eldest(act, CurrentHost(act, h))
<1>1. act # <<>> => Head(act) \in ToSet(act)
  <2>1. Len(act) \in Nat /\ (act # <<>> => Len(act) # 0)
    BY LenProperties, EmptySeq
  <2> QED
    BY <2>1 DEF ToSet
<1>2. act = <<>> => ToSet(act) = {}
  BY DEF ToSet
<1> QED
  BY <1>1, <1>2 DEF CurrentHost, Eldest

\* The connections a broadcast leaves.
LEMMA BroadcastEldest ==
    ASSUME NEW i, NEW next, NEW act \in Seq(Ids), NEW q,
           Broadcast(i, next, act, q), Distinct(act), NEW h, Eldest(act, h)
    PROVE  Eldest(active', h)
BY EldestWithout DEF Broadcast

LEMMA InitRoomInv == Init => RoomInv
<1> SUFFICES ASSUME Init PROVE RoomInv
  OBVIOUS
<1>1. ToSet(<<>>) = {} /\ Distinct(<<>>)
  BY DEF ToSet, Distinct
<1>2. TypeInv
  BY InitType
<1>3. Claims /\ Handlers /\ Newcomers /\ Eldest(active, host)
  BY <1>1 DEF Init, Claims, Handlers, Newcomers, Eldest
<1>4. KickShape
  BY <1>1 DEF Init, KickShape, NoKick
<1> QED
  BY <1>2, <1>3, <1>4 DEF RoomInv

\* The steps of a handler that has a connection, or had one: it stays short of
\* its finally clause, or is in it and has left both dictionaries.
LEMMA HandlerStep ==
    ASSUME RoomInv, TypeInv', NEW i \in Ids, NEW p \in States,
           UNCHANGED <<uid, stage>>,
           pc[i] # "none" \/ p = "none",
           pc' = [pc EXCEPT ![i] = p],
           ToSet(sessions') \subseteq ToSet(sessions), Distinct(sessions'),
           ToSet(active') \subseteq ToSet(active), Distinct(active'),
           p \in {"none", "leave"} => i \notin ToSet(active'),
           p = "leave" => i \notin ToSet(sessions'),
           host' \in ToSet(active) \cup {host, NULL},
           Eldest(active', host'),
           KickShape'
    PROVE  RoomInv'
<1>0. TypeOK /\ ToSet(sessions) \subseteq Ids /\ ToSet(active) \subseteq Ids
  BY ToSetInIds DEF RoomInv, TypeInv, TypeOK
<1>1. \A j \in Ids : pc'[j] = IF j = i THEN p ELSE pc[j]
  BY <1>0 DEF TypeOK
<1>2. Claims'
  BY <1>0, <1>1, UsesAnId DEF RoomInv, Claims
<1>3. Handlers'
  BY <1>0, <1>1 DEF RoomInv, Handlers, States
<1>4. Newcomers'
  <2> SUFFICES ASSUME NEW c \in Clients, stage[c] \in {"hello", "token"}
               PROVE  uid[c] # host'
    BY DEF Newcomers
  <2>1. uid[c] # host /\ uid[c] \notin ToSet(active) /\ uid[c] \in Ids
    BY UsesAnId DEF RoomInv, Newcomers, Claims
  <2> QED
    BY <2>1, ConstantsAssumption DEF ConstantsAssumption
<1> QED
  BY <1>2, <1>3, <1>4 DEF RoomInv

\* The finally clause.
LEMMA DepartRoom ==
    ASSUME RoomInv, TypeInv', NEW i \in Ids, pc[i] # "none", Depart(i)
    PROVE  RoomInv' /\ i \notin ToSet(sessions') \cup ToSet(active')
<1> DEFINE act == Without(active, i)
           ses == Without(sessions, i)
<1>0. TypeOK /\ sessions \in Seq(Ids) /\ active \in Seq(Ids)
  BY DEF RoomInv, TypeInv, TypeOK
<1>1. /\ act \in Seq(Ids) /\ ToSet(act) \subseteq ToSet(active)
      /\ Distinct(act) /\ i \notin ToSet(act)
      /\ ses \in Seq(Ids) /\ ToSet(ses) \subseteq ToSet(sessions)
      /\ Distinct(ses) /\ i \notin ToSet(ses)
      /\ Eldest(act, host)
  BY <1>0, WithoutFacts, EldestWithout DEF RoomInv, Handlers
<1>2. /\ UNCHANGED <<uid, stage>> /\ sessions' = ses
      /\ kick' = [kick EXCEPT ![i] = NoKick]
  BY DEF Depart, clientVars
<1>3. \/ BroadcastRoster(i, "none", act, ses)
      \/ \E q \in Wedged(act) : Broadcast(i, "leave", act, q) /\ host' = host
  BY DEF Depart
<1> HIDE DEF act, ses
<1>4. PICK p \in {"none", "leave"} :
          /\ pc' = [pc EXCEPT ![i] = p]
          /\ ToSet(active') \subseteq ToSet(act) /\ Distinct(active')
          /\ host' \in ToSet(act) \cup {host, NULL}
          /\ Eldest(active', host')
  <2>1. ASSUME BroadcastRoster(i, "none", act, ses)
        PROVE  /\ pc' = [pc EXCEPT ![i] = "none"]
               /\ ToSet(active') \subseteq ToSet(act) /\ Distinct(active')
               /\ host' \in ToSet(act) \cup {host, NULL}
               /\ Eldest(active', host')
    <3>1. /\ pc' = [pc EXCEPT ![i] = "none"]
          /\ ToSet(active') \subseteq ToSet(act) /\ Distinct(active')
      BY <1>0, <1>1, <2>1, RosterFacts DEF States
    <3>2. host' = CurrentHost(act, host)
      BY <2>1 DEF BroadcastRoster
    <3>3. host' \in ToSet(act) \cup {NULL} /\ Eldest(act, host')
      BY <1>1, <3>2, CurrentHostFacts
    <3> QED
      BY <1>1, <2>1, <3>1, <3>3, BroadcastEldest DEF BroadcastRoster
  <2>2. ASSUME NEW q \in Wedged(act), Broadcast(i, "leave", act, q), host' = host
        PROVE  /\ pc' = [pc EXCEPT ![i] = "leave"]
               /\ ToSet(active') \subseteq ToSet(act) /\ Distinct(active')
               /\ host' \in ToSet(act) \cup {host, NULL}
               /\ Eldest(active', host')
    BY <1>0, <1>1, <2>2, BroadcastFacts, BroadcastEldest DEF States
  <2> QED
    BY <1>3, <2>1, <2>2
<1>5. KickShape'
  <2>1. /\ kick'[i].phase = "off" /\ kick'[i].left = {}
        /\ \A h \in Ids \ {i} : kick'[h] = kick[h]
        /\ \A h \in Ids : pc'[h] = IF h = i THEN p ELSE pc[h]
    BY <1>0, <1>2, <1>4 DEF TypeOK, NoKick
  <2> QED
    BY <2>1 DEF RoomInv, KickShape
<1> QED
  BY <1>1, <1>2, <1>4, <1>5, HandlerStep DEF States

LEMMA RoomInvNext ==
    ASSUME RoomInv, [Next]_vars
    PROVE  RoomInv'
<1>0. TypeInv' /\ TypeInv /\ TypeOK /\ NULL \notin Ids
  BY NextType, ConstantsAssumption DEF RoomInv, TypeInv, ConstantsAssumption
<1>a. /\ ToSet(sessions) \subseteq Ids /\ ToSet(active) \subseteq Ids
      /\ sessions \in Seq(Ids) /\ active \in Seq(Ids)
      /\ Distinct(sessions) /\ Distinct(active)
  BY <1>0, ToSetInIds DEF TypeOK, RoomInv, Handlers
<1>1. ASSUME NEW c \in Clients, NEW i \in Ids, SrpInit(c, i) PROVE RoomInv'
  <2>1. /\ i \notin ToSet(sessions) /\ i \notin ToSet(active) /\ pc[i] = "none"
        /\ i # host
    BY <1>1 DEF SrpInit, Fresh
  <2>2. /\ UNCHANGED <<sessions, active, kick, pc, host>>
        /\ uid' = [uid EXCEPT ![c] = i] /\ stage' = [stage EXCEPT ![c] = "hello"]
    BY <1>1 DEF SrpInit
  <2>3. Claims' /\ Newcomers'
    BY <1>0, <2>1, <2>2 DEF RoomInv, Claims, Newcomers, TypeOK
  <2>4. Handlers' /\ KickShape' /\ Eldest(active, host)'
    BY <2>2 DEF RoomInv, Handlers, KickShape, Eldest
  <2> QED
    BY <1>0, <2>3, <2>4 DEF RoomInv
<1>2. ASSUME NEW c \in Clients, SrpVerify(c) PROVE RoomInv'
  <2> DEFINE i == uid[c]
  <2>1. /\ i \in Ids /\ Owner[i] = c /\ stage[c] = "hello"
        /\ i \notin ToSet(sessions) /\ pc[i] = "none"
    BY <1>0, <1>2, UsesAnId DEF SrpVerify, RoomInv, Claims
  <2>2. /\ sessions' = Append(sessions, i)
        /\ stage' = [stage EXCEPT ![c] = "token"]
        /\ UNCHANGED <<active, pc, kick, host, uid>>
    BY <1>2 DEF SrpVerify
  <2>3. ToSet(sessions') = ToSet(sessions) \cup {i} /\ Distinct(sessions')
    BY <1>a, <2>1, <2>2, AppendFacts
  <2>4. Claims' /\ Newcomers'
    BY <1>0, <2>1, <2>2, <2>3
       DEF RoomInv, Claims, Newcomers, TypeInv, TypeOK, Addressed
  <2>5. Handlers' /\ KickShape' /\ Eldest(active, host)'
    BY <2>1, <2>2, <2>3 DEF RoomInv, Handlers, KickShape, Eldest
  <2> QED
    BY <1>0, <2>4, <2>5 DEF RoomInv
<1>3. ASSUME NEW c \in Clients,
             \/ SrpVerifyRefused(c) \/ GiveUp(c) \/ OpenWsRefused(c)
             \/ ClientCloses(c) \/ ClientSeesClose(c)
      PROVE  RoomInv'
  <2>1. /\ UNCHANGED <<sessions, active, kick, pc, host>>
        /\ uid' = [uid EXCEPT ![c] = NULL] /\ stage' = [stage EXCEPT ![c] = "idle"]
    BY <1>3 DEF SrpVerifyRefused, GiveUp, OpenWsRefused, ClientCloses,
                ClientSeesClose, serverVars
  <2>2. Claims' /\ Newcomers'
    BY <1>0, <2>1 DEF RoomInv, Claims, Newcomers, TypeOK
  <2>3. Handlers' /\ KickShape' /\ Eldest(active, host)'
    BY <2>1 DEF RoomInv, Handlers, KickShape, Eldest
  <2> QED
    BY <1>0, <2>2, <2>3 DEF RoomInv
<1>4. ASSUME NEW c \in Clients, OpenWs(c) PROVE RoomInv'
  <2> DEFINE i   == uid[c]
             act == Append(active, i)
  <2>1. /\ i \in Ids /\ Owner[i] = c /\ stage[c] = "token"
        /\ i \notin ToSet(active) /\ i # host /\ pc[i] = "none"
    BY <1>0, <1>4, UsesAnId DEF OpenWs, RoomInv, Claims, Newcomers
  <2>2. /\ act \in Seq(Ids) /\ ToSet(act) = ToSet(active) \cup {i}
        /\ Distinct(act) /\ Eldest(act, host)
    BY <1>a, <2>1, AppendFacts, EldestAppend DEF RoomInv
  <2>3. \/ BroadcastRoster(i, "read", act, sessions)
        \/ \E q \in Wedged(active) : /\ Broadcast(i, "join", act, q)
                                     /\ host' = CurrentHost(act, host)
    BY <1>4 DEF OpenWs
  <2>4. /\ stage' = [stage EXCEPT ![c] = "live"] /\ UNCHANGED <<sessions, kick, uid>>
    BY <1>4 DEF OpenWs
  <2> HIDE DEF act, i
  <2>5. PICK p \in {"join", "read"} :
            /\ pc' = [pc EXCEPT ![i] = p]
            /\ ToSet(active') \subseteq ToSet(act) /\ Distinct(active')
            /\ Eldest(active', CurrentHost(act, host))
            /\ host' = CurrentHost(act, host)
    <3>0. Eldest(act, CurrentHost(act, host))
      BY <2>2, CurrentHostFacts
    <3>1. ASSUME BroadcastRoster(i, "read", act, sessions)
          PROVE  /\ pc' = [pc EXCEPT ![i] = "read"]
                 /\ ToSet(active') \subseteq ToSet(act) /\ Distinct(active')
                 /\ Eldest(active', CurrentHost(act, host))
                 /\ host' = CurrentHost(act, host)
      <4>1. /\ pc' = [pc EXCEPT ![i] = "read"]
            /\ ToSet(active') \subseteq ToSet(act) /\ Distinct(active')
        BY <1>0, <1>a, <2>1, <2>2, <3>1, RosterFacts DEF States
      <4> QED
        BY <2>2, <3>0, <3>1, <4>1, BroadcastEldest DEF BroadcastRoster
    <3>2. ASSUME NEW q \in Wedged(active), Broadcast(i, "join", act, q),
                 host' = CurrentHost(act, host)
          PROVE  /\ pc' = [pc EXCEPT ![i] = "join"]
                 /\ ToSet(active') \subseteq ToSet(act) /\ Distinct(active')
                 /\ Eldest(active', CurrentHost(act, host))
                 /\ host' = CurrentHost(act, host)
      <4>1. pc' = [pc EXCEPT ![i] = "join"]
        BY <3>2 DEF Broadcast
      <4>2. active' = act \/ active' = Without(act, Head(q))
        BY <3>2 DEF Broadcast
      <4>3. ToSet(active') \subseteq ToSet(act) /\ Distinct(active')
        BY <2>2, <4>2, WithoutFacts
      <4> QED
        BY <2>2, <3>0, <3>2, <4>1, <4>3, BroadcastEldest
    <3> QED
      BY <2>3, <3>1, <3>2
  <2>6. host' \in ToSet(act) \cup {NULL}
    BY <2>2, <2>5, CurrentHostFacts
  <2>7. \A j \in Ids : pc'[j] = IF j = i THEN p ELSE pc[j]
    BY <1>0, <2>1, <2>5 DEF TypeOK
  <2>8. ASSUME NEW d \in Clients, stage'[d] \in {"hello", "token"}
        PROVE  /\ stage[d] \in {"hello", "token"} /\ stage'[d] = stage[d]
               /\ uid[d] \in Ids /\ uid[d] # i /\ uid'[d] = uid[d]
    <3>1. d # c
      BY <1>0, <2>4, <2>8 DEF TypeOK
    <3>2. stage'[d] = stage[d] /\ uid'[d] = uid[d]
      BY <1>0, <2>4, <3>1 DEF TypeOK
    <3>3. uid[d] \in Ids /\ Owner[uid[d]] = d
      BY <1>0, <2>8, <3>2, UsesAnId
    <3> QED
      BY <2>1, <2>8, <3>1, <3>2, <3>3
  <2>9. Claims' /\ Newcomers'
    <3>1. Claims'
      BY <2>2, <2>4, <2>5, <2>7, <2>8 DEF RoomInv, Claims
    <3>2. Newcomers'
      BY <1>0, <2>2, <2>6, <2>8 DEF RoomInv, Claims, Newcomers
    <3> QED
      BY <3>1, <3>2
  <2>10. Handlers'
    <3>1. \A j \in ToSet(active') : pc'[j] \in {"join", "read", "kick"}
      BY <1>a, <2>1, <2>2, <2>5, <2>7 DEF RoomInv, Handlers
    <3>2. \A j \in Ids : pc'[j] = "leave" => j \notin ToSet(sessions')
      BY <2>4, <2>5, <2>7 DEF RoomInv, Handlers
    <3>3. Distinct(sessions')
      BY <1>a, <2>4
    <3> QED
      BY <2>5, <3>1, <3>2, <3>3 DEF Handlers
  <2>11. KickShape'
    BY <2>1, <2>4, <2>7 DEF RoomInv, KickShape
  <2>12. Eldest(active, host)'
    BY <2>5
  <2> QED
    BY <1>0, <2>9, <2>10, <2>11, <2>12 DEF RoomInv
<1>5. ASSUME NEW i \in Ids, DropWedged(i) PROVE RoomInv'
  <2>1. UNCHANGED <<sessions, kick, uid, stage>>
    BY <1>5 DEF DropWedged, clientVars
  <2>2. PICK p \in States :
            /\ pc' = [pc EXCEPT ![i] = p]
            /\ \/ p = pc[i]
               \/ pc[i] = "join" /\ p = "read"
               \/ pc[i] = "leave" /\ p = "none"
            /\ ToSet(active') \subseteq ToSet(active) /\ Distinct(active')
            /\ host' \in ToSet(active) \cup {host, NULL}
            /\ Eldest(active', host')
    <3>0. Eldest(active, host)
      BY DEF RoomInv
    <3>1. ASSUME pc' = pc, host' = host,
                 active' = active \/ active' = Without(active, evict[i][2])
          PROVE  /\ pc[i] \in States /\ pc' = [pc EXCEPT ![i] = pc[i]]
                 /\ ToSet(active') \subseteq ToSet(active) /\ Distinct(active')
                 /\ host' \in ToSet(active) \cup {host, NULL}
                 /\ Eldest(active', host')
      <4>1. pc[i] \in States /\ pc' = [pc EXCEPT ![i] = pc[i]]
        BY <1>0, <3>1 DEF TypeOK, States
      <4>2. ToSet(active') \subseteq ToSet(active) /\ Distinct(active')
        BY <1>a, <3>1, WithoutFacts
      <4>3. Eldest(active', host)
        BY <1>a, <3>0, <3>1, EldestWithout
      <4> QED
        BY <3>1, <4>1, <4>2, <4>3
    <3>2. ASSUME NEW p \in States, BroadcastRoster(i, p, active, sessions)
          PROVE  /\ pc' = [pc EXCEPT ![i] = p]
                 /\ ToSet(active') \subseteq ToSet(active) /\ Distinct(active')
                 /\ host' \in ToSet(active) \cup {host, NULL}
                 /\ Eldest(active', host')
      <4>1. /\ pc' = [pc EXCEPT ![i] = p]
            /\ ToSet(active') \subseteq ToSet(active) /\ Distinct(active')
        BY <1>0, <1>a, <3>2, RosterFacts
      <4>2. host' = CurrentHost(active, host)
        BY <3>2 DEF BroadcastRoster
      <4>3. host' \in ToSet(active) \cup {NULL} /\ Eldest(active, host')
        BY <1>a, <3>0, <4>2, CurrentHostFacts
      <4> QED
        BY <1>a, <3>2, <4>1, <4>3, BroadcastEldest DEF BroadcastRoster
    <3>3. \/ /\ pc' = pc /\ host' = host
             /\ active' = active \/ active' = Without(active, evict[i][2])
          \/ pc[i] = "join" /\ BroadcastRoster(i, "read", active, sessions)
          \/ pc[i] = "leave" /\ BroadcastRoster(i, "none", active, sessions)
      BY <1>5 DEF DropWedged
    <3>4. "read" \in States /\ "none" \in States
      BY DEF States
    <3>5. CASE /\ pc' = pc /\ host' = host
               /\ active' = active \/ active' = Without(active, evict[i][2])
      <4>1. pc[i] \in States
        BY <3>1, <3>5
      <4> WITNESS pc[i] \in States
      <4> QED
        BY <3>1, <3>5
    <3>6. CASE pc[i] = "join" /\ BroadcastRoster(i, "read", active, sessions)
      <4>1. "read" \in States
        BY <3>4
      <4> WITNESS "read" \in States
      <4> QED
        BY <3>2, <3>4, <3>6
    <3>7. CASE pc[i] = "leave" /\ BroadcastRoster(i, "none", active, sessions)
      <4>1. "none" \in States
        BY <3>4
      <4> WITNESS "none" \in States
      <4> QED
        BY <3>2, <3>4, <3>7
    <3> QED
      BY <3>3, <3>5, <3>6, <3>7
  <2>3. /\ pc[i] # "none" \/ p = "none"
        /\ p \in {"none", "leave"} => i \notin ToSet(active)
        /\ p = "leave" => i \notin ToSet(sessions)
    BY <2>2 DEF RoomInv, Handlers
  <2>4. KickShape'
    <3>1. \A h \in Ids : pc'[h] = "kick" <=> pc[h] = "kick"
      BY <1>0, <2>2 DEF TypeOK
    <3> QED
      BY <2>1, <3>1 DEF RoomInv, KickShape
  <2>5. ToSet(sessions') \subseteq ToSet(sessions) /\ Distinct(sessions')
    BY <1>a, <2>1
  <2>6. p \in {"none", "leave"} => i \notin ToSet(active')
    BY <2>2, <2>3
  <2> QED
    BY <1>0, <2>1, <2>2, <2>3, <2>4, <2>5, <2>6, HandlerStep
<1>6. ASSUME NEW i \in Ids, RelayFrame(i) PROVE RoomInv'
  <2>1. /\ UNCHANGED <<sessions, kick, uid, stage, host>> /\ pc[i] = "read"
    BY <1>6 DEF RelayFrame, Reading, clientVars
  <2>2. PICK q \in Wedged(active) : Broadcast(i, "read", active, q)
    BY <1>6 DEF RelayFrame
  <2>3. /\ pc' = [pc EXCEPT ![i] = "read"]
        /\ ToSet(active') \subseteq ToSet(active) /\ Distinct(active')
        /\ Eldest(active', host)
    BY <1>0, <1>a, <2>2, BroadcastFacts, BroadcastEldest DEF RoomInv, States
  <2>4. KickShape'
    <3>1. \A h \in Ids : pc'[h] = pc[h]
      BY <1>0, <2>1, <2>3 DEF TypeOK
    <3> QED
      BY <2>1, <3>1 DEF RoomInv, KickShape
  <2> QED
    BY <1>0, <1>a, <2>1, <2>3, <2>4, HandlerStep DEF States
<1>7. ASSUME NEW i \in Ids, Leave(i) \/ Cancelled(i) PROVE RoomInv'
  <2>1. CASE Depart(i) /\ pc[i] # "none"
    BY <1>0, <2>1, DepartRoom
  <2>2. CASE ~(Depart(i) /\ pc[i] # "none")
    <3>1. /\ UNCHANGED <<sessions, active, kick, uid, stage, host>>
          /\ pc[i] \in {"leave", "none"} /\ pc' = [pc EXCEPT ![i] = "none"]
      BY <1>7, <2>2 DEF Leave, Reading, Cancelled, serverVars, clientVars
    <3>2. i \notin ToSet(active)
      BY <3>1 DEF RoomInv, Handlers
    <3>3. KickShape'
      <4>1. \A h \in Ids : pc'[h] = "kick" <=> pc[h] = "kick"
        BY <1>0, <3>1 DEF TypeOK
      <4> QED
        BY <3>1, <4>1 DEF RoomInv, KickShape
    <3>4. Eldest(active', host')
      BY <3>1 DEF RoomInv
    <3>5. pc[i] # "none" \/ "none" = "none"
      OBVIOUS
    <3> QED
      BY <1>0, <1>a, <3>1, <3>2, <3>3, <3>4, HandlerStep DEF States
  <2> QED
    BY <2>1, <2>2
<1>8. ASSUME NEW i \in Ids, CleanupStale(i) PROVE RoomInv'
  <2>1. /\ UNCHANGED <<active, kick, uid, stage, host, pc>>
        /\ sessions' = Without(sessions, i)
    BY <1>8 DEF CleanupStale, serverVars, clientVars
  <2>2. ToSet(sessions') \subseteq ToSet(sessions) /\ Distinct(sessions')
    BY <1>a, <2>1, WithoutFacts
  <2> QED
    BY <1>0, <2>1, <2>2
       DEF RoomInv, Claims, KickShape, Handlers, Newcomers, Eldest
<1>9. ASSUME NEW i \in Ids, NEW n, KickDenied(i, n) PROVE RoomInv'
  <2>1. /\ UNCHANGED <<sessions, active, kick, uid, stage, pc>> /\ pc[i] = "read"
        /\ host' = CurrentHost(active, host)
    BY <1>9 DEF KickDenied, Reading, clientVars
  <2>2. host' \in ToSet(active) \cup {NULL} /\ Eldest(active, host')
    BY <1>a, <2>1, CurrentHostFacts DEF RoomInv
  <2>3. pc' = [pc EXCEPT ![i] = "read"]
    BY <1>0, <2>1 DEF TypeOK
  <2>4. KickShape'
    BY <2>1 DEF RoomInv, KickShape
  <2> QED
    BY <1>0, <1>a, <2>1, <2>2, <2>3, <2>4, HandlerStep DEF States
<1>10. ASSUME NEW i \in Ids, NEW n, KickStart(i, n) PROVE RoomInv'
  <2>1. /\ UNCHANGED <<sessions, active, uid, stage>>
        /\ kick' = [kick EXCEPT ![i] = StartedKick(i, n)]
        /\ pc' = [pc EXCEPT ![i] = "kick"] /\ pc[i] = "read"
        /\ host' = CurrentHost(active, host)
    BY <1>10 DEF KickStart, Reading, clientVars
  <2>2. host' \in ToSet(active) \cup {NULL} /\ Eldest(active, host')
    BY <1>a, <2>1, CurrentHostFacts DEF RoomInv
  <2>3. /\ kick'[i].phase = "next" /\ kick'[i].left = ToSet(sessions)
        /\ kick'[i].order = sessions
        /\ \A h \in Ids \ {i} : kick'[h] = kick[h]
    BY <1>0, <2>1 DEF TypeOK, StartedKick
  <2>4. KickShape'
    BY <1>0, <2>1, <2>3 DEF RoomInv, KickShape, TypeOK
  <2> QED
    BY <1>0, <1>a, <2>1, <2>2, <2>4, HandlerStep DEF States
<1>11. ASSUME NEW i \in Ids, NEW u \in Ids,
              \/ KickPop(i, u) \/ KickSkip(i, u) \/ KickFree(i, u)
              \/ KickDeliver(i, u) \/ KickClose(i, u)
       PROVE  RoomInv'
  <2>1. /\ UNCHANGED <<host, uid, stage, pc>>
        /\ kick[i].phase \in {"next", "deliver", "close", "free"}
        /\ active' = active \/ active' = Without(active, u)
        /\ sessions' = sessions \/ sessions' = Without(sessions, u)
    BY <1>11 DEF KickPop, KickSkip, KickFree, KickDeliver, KickClose, clientVars
  <2>2. pc[i] = "kick" /\ pc' = [pc EXCEPT ![i] = "kick"]
    BY <1>0, <2>1 DEF RoomInv, KickShape, TypeOK
  <2>3. /\ ToSet(active') \subseteq ToSet(active) /\ Distinct(active')
        /\ ToSet(sessions') \subseteq ToSet(sessions) /\ Distinct(sessions')
        /\ Eldest(active', host')
    BY <1>a, <2>1, WithoutFacts, EldestWithout DEF RoomInv
  <2>4. /\ kick'[i].phase \in {"next", "deliver", "close", "free"}
        /\ kick'[i].left \subseteq kick[i].left /\ kick'[i].order = kick[i].order
        /\ \A h \in Ids \ {i} : kick'[h] = kick[h]
    <3>1. kick[i] \in KickRecords
      BY <1>0 DEF TypeOK
    <3>2. \/ kick' = [kick EXCEPT ![i] = [kick[i] EXCEPT !.phase = "deliver"]]
          \/ kick' = [kick EXCEPT ![i] = [kick[i] EXCEPT !.left = @ \ {u}]]
             /\ kick[i].phase = "next"
          \/ kick' = [kick EXCEPT ![i] =
                         [kick[i] EXCEPT !.phase = "next", !.left = @ \ {u}]]
          \/ kick' = [kick EXCEPT ![i] = [kick[i] EXCEPT !.phase = "close"]]
          \/ kick' = [kick EXCEPT ![i] = [kick[i] EXCEPT !.phase = "free"]]
      BY <1>0, <1>11
         DEF KickPop, KickSkip, KickFree, KickDeliver, KickClose, TypeOK
    <3>3. /\ \A h \in Ids \ {i} : kick'[h] = kick[h]
          /\ \/ kick'[i] = [kick[i] EXCEPT !.phase = "deliver"]
             \/ kick'[i] = [kick[i] EXCEPT !.left = @ \ {u}]
                /\ kick[i].phase = "next"
             \/ kick'[i] = [kick[i] EXCEPT !.phase = "next", !.left = @ \ {u}]
             \/ kick'[i] = [kick[i] EXCEPT !.phase = "close"]
             \/ kick'[i] = [kick[i] EXCEPT !.phase = "free"]
      BY <1>0, <3>2 DEF TypeOK
    <3> QED
      BY ONLY <3>1, <3>3 DEF KickRecords
  <2>5. KickShape'
    BY <2>1, <2>2, <2>4 DEF RoomInv, KickShape
  <2> QED
    BY <1>0, <2>1, <2>2, <2>3, <2>5, HandlerStep DEF States
<1>12. ASSUME NEW i \in Ids, KickEnd(i) PROVE RoomInv'
  <2>1. /\ UNCHANGED <<sessions, active, uid, stage>>
        /\ kick[i].phase = "next" /\ host' = NULL
        /\ kick' = [kick EXCEPT ![i] = NoKick] /\ pc' = [pc EXCEPT ![i] = "read"]
    BY <1>12 DEF KickEnd, clientVars
  <2>2. pc[i] = "kick"
    BY <2>1 DEF RoomInv, KickShape
  <2>3. KickShape'
    <3>1. /\ kick'[i].phase = "off" /\ kick'[i].left = {}
          /\ \A h \in Ids \ {i} : kick'[h] = kick[h]
          /\ \A h \in Ids : pc'[h] = IF h = i THEN "read" ELSE pc[h]
      BY <1>0, <2>1 DEF TypeOK, NoKick
    <3> QED
      BY <3>1 DEF RoomInv, KickShape
  <2>4. Eldest(active', host')
    BY <1>0, <1>a, <2>1 DEF Eldest
  <2> QED
    BY <1>0, <1>a, <2>1, <2>2, <2>3, <2>4, HandlerStep DEF States
<1>13. CASE ClearMessages \/ UNCHANGED vars
  <2>1. UNCHANGED <<sessions, active, kick, uid, stage, pc, host>>
    BY <1>13 DEF ClearMessages, vars, clientVars
  <2> QED
    BY <1>0, <2>1 DEF RoomInv, Claims, KickShape, Handlers, Newcomers, Eldest
<1> QED
  BY <1>1, <1>2, <1>3, <1>4, <1>5, <1>6, <1>7, <1>8, <1>9, <1>10, <1>11,
     <1>12, <1>13 DEF Next, ServerStep, KickStep, Resume

\* Only KickStart rotates, for its own sender, who is the host in force.
LEMMA RekeyStep ==
    ASSUME RoomInv, [Next]_vars, epoch' # epoch
    PROVE  /\ active # <<>>
           /\ pc[Head(active)] = "read" /\ pc'[Head(active)] = "kick"
<1>1. PICK i \in Ids, c \in Clients : KickStart(i, Name[c])
  <2>1. ASSUME NEW i \in Ids, KickStep(i) PROVE FALSE
    BY <2>1 DEF KickStep, KickPop, KickSkip, KickEnd, KickDeliver, KickClose,
                KickFree
  <2>2. ASSUME NEW i \in Ids, Resume(i) PROVE FALSE
    BY <2>2 DEF Resume, DropWedged, Leave, Depart
  <2>3. ASSUME NEW i \in Ids, RelayFrame(i) \/ Cancelled(i) \/ CleanupStale(i)
        PROVE  FALSE
    BY <2>3 DEF RelayFrame, Cancelled, CleanupStale, Depart, serverVars
  <2>4. ASSUME NEW c \in Clients,
               \/ \E i \in Ids : SrpInit(c, i) \/ KickDenied(i, Name[c])
               \/ SrpVerify(c) \/ SrpVerifyRefused(c) \/ GiveUp(c) \/ OpenWs(c)
               \/ OpenWsRefused(c) \/ ClientCloses(c) \/ ClientSeesClose(c)
        PROVE  FALSE
    BY <2>4 DEF SrpInit, KickDenied, SrpVerify, SrpVerifyRefused, GiveUp, OpenWs,
                OpenWsRefused, ClientCloses, ClientSeesClose, serverVars
  <2>5. ~(ClearMessages \/ UNCHANGED vars)
    BY DEF ClearMessages, vars
  <2> QED
    BY <2>1, <2>2, <2>3, <2>4, <2>5 DEF Next, ServerStep
<1>2. /\ pc[i] = "read" /\ CurrentHost(active, host) = i
      /\ pc' = [pc EXCEPT ![i] = "kick"]
  BY <1>1 DEF KickStart, Reading
<1>3. active # <<>> /\ i = Head(active)
  <2>1. i # NULL
    BY ConstantsAssumption DEF ConstantsAssumption
  <2>2. ToSet(<<>>) = {}
    BY DEF ToSet
  <2> QED
    BY <1>2, <2>1, <2>2 DEF CurrentHost, RoomInv, Eldest
<1> QED
  BY <1>2, <1>3 DEF RoomInv, TypeInv, TypeOK

\* The password is only rotated by the handler of the oldest live connection,
\* whoever was evicted, cancelled, swept or kicked before (_current_host and
\* _handle_kick, views.py).
THEOREM OldestRekeys == Spec => OnlyOldestRekeys
<1>1. Init => RoomInv
  BY InitRoomInv
<1>2. RoomInv /\ [Next]_vars => RoomInv'
  BY RoomInvNext
<1>3. RoomInv /\ [Next]_vars =>
          [epoch' # epoch =>
               /\ active # <<>>
               /\ pc[Head(active)] = "read" /\ pc'[Head(active)] = "kick"]_vars
  BY RekeyStep
<1> QED
  BY <1>1, <1>2, <1>3, PTL DEF Spec, OnlyOldestRekeys

\* A handler ends in its finally clause, or at the close after which it only
\* had the roster left to send.
LEMMA Endings ==
    ASSUME RoomInv, [Next]_vars, NEW i \in Ids, pc[i] # "none", pc'[i] = "none"
    PROVE  \/ Depart(i)
           \/ pc[i] = "leave" /\ sessions' = sessions
<1> DEFINE Outcome == \/ Depart(i)
                      \/ pc[i] = "leave" /\ sessions' = sessions
<1>0. pc \in [Ids -> States]
  BY DEF RoomInv, TypeInv, TypeOK, States
<1>1. ASSUME NEW j \in Ids, KickStep(j) PROVE FALSE
  BY <1>0, <1>1 DEF KickStep, KickPop, KickSkip, KickEnd, KickDeliver, KickClose,
                    KickFree
<1>2. ASSUME NEW j \in Ids, Depart(j) PROVE Outcome
  <2>1. \E p \in {"none", "leave"} : pc' = [pc EXCEPT ![j] = p]
    BY <1>2 DEF Depart, BroadcastRoster, Broadcast
  <2>2. i = j
    BY <1>0, <2>1
  <2> QED
    BY <1>2, <2>2
<1>3. ASSUME NEW j \in Ids, DropWedged(j) PROVE Outcome
  BY <1>0, <1>3 DEF DropWedged, BroadcastRoster, Broadcast
<1>4. ASSUME NEW j \in Ids, RelayFrame(j) \/ CleanupStale(j) PROVE FALSE
  BY <1>0, <1>4 DEF RelayFrame, CleanupStale, Broadcast
<1>5. ASSUME NEW j \in Ids, Cancelled(j), ~Depart(j) PROVE Outcome
  BY <1>0, <1>5 DEF Cancelled
<1>6. ASSUME NEW c \in Clients,
             \/ \E j \in Ids : \/ SrpInit(c, j) \/ KickDenied(j, Name[c])
                               \/ KickStart(j, Name[c])
             \/ SrpVerify(c) \/ SrpVerifyRefused(c) \/ GiveUp(c)
             \/ OpenWsRefused(c) \/ ClientCloses(c) \/ ClientSeesClose(c)
      PROVE  FALSE
  BY <1>0, <1>6 DEF SrpInit, KickDenied, KickStart, SrpVerify, SrpVerifyRefused,
                    GiveUp, OpenWsRefused, ClientCloses, ClientSeesClose
<1>7. ASSUME NEW c \in Clients, OpenWs(c) PROVE FALSE
  BY <1>0, <1>7 DEF OpenWs, BroadcastRoster, Broadcast
<1>8. ~(ClearMessages \/ UNCHANGED vars)
  BY DEF ClearMessages, vars
<1> QED
  BY <1>1, <1>2, <1>3, <1>4, <1>5, <1>6, <1>7, <1>8
     DEF Next, ServerStep, Resume, Leave

\* Nothing of a member stays behind when its handler ends, whichever way it
\* does: the finally clause of chat_ws runs, or has run, in full.
THEOREM HandlersLeaveNothing == Spec => LeavesNothing
<1>1. Init => RoomInv
  BY InitRoomInv
<1>2. RoomInv /\ [Next]_vars => RoomInv'
  BY RoomInvNext
<1>3. RoomInv /\ [Next]_vars =>
          [\A i \in Ids : pc[i] # "none" /\ pc'[i] = "none" =>
               i \notin ToSet(sessions)' \cup ToSet(active)']_vars
  <2> SUFFICES ASSUME RoomInv, [Next]_vars, NEW i \in Ids,
                      pc[i] # "none", pc'[i] = "none"
               PROVE  i \notin ToSet(sessions)' \cup ToSet(active)'
    OBVIOUS
  <2>1. TypeInv' /\ RoomInv'
    BY NextType, RoomInvNext DEF RoomInv
  <2>2. CASE Depart(i)
    BY <2>1, <2>2, DepartRoom
  <2>3. CASE pc[i] = "leave" /\ sessions' = sessions
    <3>1. i \notin ToSet(sessions')
      BY <2>3 DEF RoomInv, Handlers
    <3>2. i \notin ToSet(active')
      BY <2>1 DEF RoomInv, Handlers
    <3> QED
      BY <3>1, <3>2
  <2> QED
    BY <2>2, <2>3, Endings
<1> QED
  BY <1>1, <1>2, <1>3, PTL DEF Spec, LeavesNothing

-----------------------------------------------------------------------------
(* The roster.                                                             *)

\* Somebody still has a roster to send: a member seated and not connected, a
\* handler whose connection was taken away, one in a kick, between the two
\* broadcasts of a join, or in its finally clause.
Pending ==
    \E i \in Ids :
        \/ i \in ToSet(sessions) /\ i \notin ToSet(active)
        \/ pc[i] \in {"join", "read", "kick"} /\ i \notin ToSet(active)
        \/ pc[i] \in {"join", "kick", "leave"}

RosterCurrent == roster = RosterFrame(sessions, CurrentHost(active, host))

\* Whoever runs a kick is on its own list, until the kick closed it.
KickerListed ==
    \A h \in Ids : kick[h].phase # "off" =>
        h \in kick[h].left \/ h \notin ToSet(active)

Settling == Pending \/ RosterCurrent

RosterInv == KickInv /\ KickerListed /\ Settling

\* A peer found wedged is taken out, and its handler has yet to leave.
LEMMA EvictionPends ==
    ASSUME NEW i, NEW next, NEW act \in Seq(Ids), Distinct(act),
           NEW q \in Wedged(act), q # <<>>, Broadcast(i, next, act, q),
           \A j \in ToSet(act) : pc'[j] \in {"join", "read", "kick"}
    PROVE  Pending'
<1>1. PICK n \in 0 .. MaxWedge : q \in [1 .. n -> ToSet(act)]
  BY DEF Wedged, SeqOf
<1>2. q \in Seq(Ids)
  BY WedgedFacts
<1>3. Len(q) \in Nat /\ Len(q) # 0 /\ DOMAIN q = 1 .. Len(q) /\ Head(q) = q[1]
  BY <1>2, LenProperties, EmptySeq
<1>4. 1 \in DOMAIN q
  BY <1>3
<1>5. Head(q) \in ToSet(act)
  BY <1>1, <1>3, <1>4
<1>6. active' = Without(act, Head(q))
  BY DEF Broadcast
<1>7. Head(q) \notin ToSet(active')
  BY <1>6, WithoutFacts
<1>8. Head(q) \in Ids
  BY <1>5, ToSetInIds
<1> QED
  BY <1>5, <1>7, <1>8 DEF Pending

\* A roster broadcast that evicts nobody announces the room as it is.
LEMMA RosterSettles ==
    ASSUME NEW i, NEW next, NEW act \in Seq(Ids), Distinct(act),
           BroadcastRoster(i, next, act, sessions'),
           \A j \in ToSet(act) : pc'[j] \in {"join", "read", "kick"}
    PROVE  Settling'
<1>1. PICK q \in Wedged(act) : Broadcast(i, next, act, q)
  BY DEF BroadcastRoster
<1>2. CASE q # <<>>
  BY <1>1, <1>2, EvictionPends DEF Settling
<1>3. CASE q = <<>>
  <2>1. active' = act
    BY <1>1, <1>3 DEF Broadcast
  <2>2. /\ host' = CurrentHost(act, host)
        /\ roster' = RosterFrame(sessions', CurrentHost(act, host))
    BY DEF BroadcastRoster
  <2>3. CurrentHost(active', host') = CurrentHost(act, host)
    BY <2>1, <2>2, CurrentHostFacts
  <2> QED
    BY <2>2, <2>3 DEF Settling, RosterCurrent
<1> QED
  BY <1>2, <1>3

\* The connections shrink, the kicks go on as they were or end.
LEMMA KickerStays ==
    ASSUME KickerListed, ToSet(active') \subseteq ToSet(active),
           \A h \in Ids : kick'[h].phase = "off" \/ kick'[h] = kick[h]
    PROVE  KickerListed'
BY DEF KickerListed

LEMMA RosterInvNext ==
    ASSUME ~LossCancels, LongIdle = {}, RosterInv, [Next]_vars
    PROVE  RosterInv'
<1>0. KickInv /\ KickInv' /\ TypeInv' /\ TypeInv /\ TypeOK
  BY KickInvNext DEF RosterInv, KickInv, TypeInv
<1>a. /\ sessions \in Seq(Ids) /\ active \in Seq(Ids) /\ Distinct(active)
      /\ \A j \in ToSet(active) : pc[j] \in {"join", "read", "kick"}
      /\ ToSet(active) \subseteq Ids
  BY <1>0, ToSetInIds DEF TypeOK, KickInv, Seats
<1>b. SUFFICES KickerListed' /\ Settling'
  BY <1>0 DEF RosterInv
<1>1. ASSUME UNCHANGED <<sessions, active, roster, kick, pc>>,
             host' \in {host, CurrentHost(active, host)}
      PROVE  KickerListed' /\ Settling'
  <2>1. CurrentHost(active', host') = CurrentHost(active, host)
    BY <1>a, <1>1, CurrentHostFacts
  <2> QED
    BY <1>1, <2>1 DEF RosterInv, KickerListed, Settling, Pending, RosterCurrent
<1>2. ASSUME NEW c \in Clients,
             \/ \E i \in Ids : SrpInit(c, i) \/ KickDenied(i, Name[c])
             \/ SrpVerifyRefused(c) \/ GiveUp(c)
             \/ OpenWsRefused(c) \/ ClientCloses(c) \/ ClientSeesClose(c)
      PROVE  KickerListed' /\ Settling'
  <2>1. /\ UNCHANGED <<sessions, active, roster, kick, pc>>
        /\ host' \in {host, CurrentHost(active, host)}
    BY <1>2 DEF SrpInit, SrpVerifyRefused, GiveUp, OpenWsRefused, ClientCloses,
                ClientSeesClose, KickDenied, serverVars
  <2> QED
    BY <1>1, <2>1
<1>3. ASSUME NEW c \in Clients, SrpVerify(c) PROVE KickerListed' /\ Settling'
  <2> DEFINE i == uid[c]
  <2>1. i \in Ids /\ i \notin ToSet(active)
    BY <1>0, <1>3, UsesAnId DEF SrpVerify, KickInv, Claims
  <2>2. sessions' = Append(sessions, i) /\ UNCHANGED <<active, kick>>
    BY <1>3 DEF SrpVerify
  <2>3. i \in ToSet(sessions')
    BY <1>a, <2>1, <2>2, AppendFacts
  <2> QED
    BY <2>1, <2>2, <2>3 DEF RosterInv, KickerListed, Settling, Pending
<1>4. ASSUME NEW c \in Clients, OpenWs(c) PROVE KickerListed' /\ Settling'
  <2> DEFINE i   == uid[c]
             act == Append(active, i)
  <2>1. /\ i \in Ids /\ i \notin ToSet(active) /\ pc[i] = "none"
        /\ kick[i].phase = "off"
    BY <1>0, <1>4, UsesAnId DEF OpenWs, KickInv, Claims, KickShape
  <2>2. /\ act \in Seq(Ids) /\ ToSet(act) = ToSet(active) \cup {i}
        /\ Distinct(act)
    BY <1>a, <2>1, AppendFacts
  <2>3. \/ BroadcastRoster(i, "read", act, sessions)
        \/ \E q \in Wedged(active) : Broadcast(i, "join", act, q)
    BY <1>4 DEF OpenWs
  <2>4. UNCHANGED <<kick, sessions>>
    BY <1>4 DEF OpenWs
  <2> HIDE DEF act, i
  <2>5. /\ ToSet(active') \subseteq ToSet(act)
        /\ \E p \in {"join", "read"} : pc' = [pc EXCEPT ![i] = p]
    <3>1. CASE BroadcastRoster(i, "read", act, sessions)
      BY <1>0, <1>a, <2>1, <2>2, <3>1, RosterFacts DEF States
    <3>2. CASE \E q \in Wedged(active) : Broadcast(i, "join", act, q)
      BY <2>2, <3>2, WithoutFacts DEF Broadcast
    <3> QED
      BY <2>3, <3>1, <3>2
  <2>6. pc'[i] \in {"join", "read"} /\ \A j \in Ids \ {i} : pc'[j] = pc[j]
    BY <1>0, <2>1, <2>5 DEF TypeOK
  <2>7. \A j \in ToSet(act) : pc'[j] \in {"join", "read", "kick"}
    BY <1>a, <2>2, <2>6
  <2>8. KickerListed'
    BY <1>a, <2>1, <2>2, <2>4, <2>5 DEF RosterInv, KickerListed
  <2>9. Settling'
    <3>1. CASE BroadcastRoster(i, "read", act, sessions)
      BY <2>2, <2>4, <2>7, <3>1, RosterSettles
    <3>2. CASE \E q \in Wedged(active) : Broadcast(i, "join", act, q)
      <4>1. pc' = [pc EXCEPT ![i] = "join"]
        BY <3>2 DEF Broadcast
      <4>2. pc'[i] = "join"
        BY <1>0, <2>1, <4>1 DEF TypeOK
      <4> QED
        BY <2>1, <4>2 DEF Settling, Pending
    <3> QED
      BY <2>3, <3>1, <3>2
  <2> QED
    BY <2>8, <2>9
<1>5. ASSUME NEW i \in Ids, DropWedged(i) PROVE KickerListed' /\ Settling'
  <2>1. UNCHANGED <<sessions, kick>>
    BY <1>5 DEF DropWedged
  <2>2. \/ UNCHANGED <<active, host, roster, pc>>
        \/ /\ active' = Without(active, evict[i][2])
           /\ UNCHANGED <<host, roster, pc>>
        \/ pc[i] = "join" /\ BroadcastRoster(i, "read", active, sessions)
        \/ pc[i] = "leave" /\ BroadcastRoster(i, "none", active, sessions)
    BY <1>5 DEF DropWedged
  <2>3. CASE UNCHANGED <<active, host, roster, pc>>
    BY <1>1, <2>1, <2>3
  <2>4. ASSUME active' = Without(active, evict[i][2]),
               UNCHANGED <<host, roster, pc>>
        PROVE  KickerListed' /\ Settling'
    <3>1. CASE evict[i][2] \notin ToSet(active)
      <4>1. active' = active
        BY <2>4, <3>1 DEF Without
      <4> QED
        BY <1>1, <2>1, <2>4, <4>1
    <3>2. CASE evict[i][2] \in ToSet(active)
      <4>1. /\ ToSet(active') \subseteq ToSet(active)
            /\ evict[i][2] \notin ToSet(active')
        BY <1>a, <2>4, WithoutFacts
      <4>2. KickerListed'
        BY <2>1, <4>1, KickerStays DEF RosterInv
      <4>3. Pending'
        BY <1>a, <2>4, <3>2, <4>1 DEF Pending
      <4> QED
        BY <4>2, <4>3 DEF Settling
    <3> QED
      BY <3>1, <3>2
  <2>5. ASSUME NEW p \in {"read", "none"},
               p = "none" => i \notin ToSet(active),
               BroadcastRoster(i, p, active, sessions)
        PROVE  KickerListed' /\ Settling'
    <3>1. /\ ToSet(active') \subseteq ToSet(active)
          /\ pc' = [pc EXCEPT ![i] = p]
      BY <1>0, <1>a, <2>5, RosterFacts DEF States
    <3>2. \A j \in ToSet(active) : pc'[j] \in {"join", "read", "kick"}
      BY <1>0, <1>a, <2>5, <3>1 DEF TypeOK
    <3>3. Settling'
      BY <1>a, <2>1, <2>5, <3>2, RosterSettles
    <3> QED
      BY <2>1, <3>1, <3>3, KickerStays DEF RosterInv
  <2>6. pc[i] = "leave" => i \notin ToSet(active)
    BY <1>a
  <2> QED
    BY <2>2, <2>3, <2>4, <2>5, <2>6
<1>6. ASSUME NEW i \in Ids, RelayFrame(i) PROVE KickerListed' /\ Settling'
  <2>1. /\ UNCHANGED <<sessions, kick, roster, host>> /\ pc[i] = "read"
    BY <1>6 DEF RelayFrame, Reading, clientVars
  <2>2. PICK q \in Wedged(active) : Broadcast(i, "read", active, q)
    BY <1>6 DEF RelayFrame
  <2>3. ToSet(active') \subseteq ToSet(active) /\ pc' = pc
    <3>1. /\ ToSet(active') \subseteq ToSet(active)
          /\ pc' = [pc EXCEPT ![i] = "read"]
      BY <1>0, <1>a, <2>2, BroadcastFacts DEF States
    <3> QED
      BY <1>0, <2>1, <3>1 DEF TypeOK
  <2>4. CASE q = <<>>
    <3>1. active' = active
      BY <2>2, <2>4 DEF Broadcast
    <3> QED
      BY <1>1, <2>1, <2>3, <3>1
  <2>5. CASE q # <<>>
    <3>1. Pending'
      BY <1>a, <2>2, <2>3, <2>5, EvictionPends
    <3> QED
      BY <2>1, <2>3, <3>1, KickerStays DEF RosterInv, Settling
  <2> QED
    BY <2>4, <2>5
<1>7. ASSUME NEW i \in Ids, Leave(i) PROVE KickerListed' /\ Settling'
  <2> DEFINE act == Without(active, i)
             ses == Without(sessions, i)
  <2>1. /\ act \in Seq(Ids) /\ ToSet(act) \subseteq ToSet(active)
        /\ Distinct(act) /\ i \notin ToSet(act) /\ ses \in Seq(Ids)
    BY <1>a, WithoutFacts
  <2>2. /\ sessions' = ses /\ kick' = [kick EXCEPT ![i] = NoKick]
        /\ \/ BroadcastRoster(i, "none", act, ses)
           \/ \E q \in Wedged(act) : Broadcast(i, "leave", act, q)
    BY <1>7 DEF Leave, Depart
  <2> HIDE DEF act, ses
  <2>3. \A h \in Ids : kick'[h].phase = "off" \/ kick'[h] = kick[h]
    BY <1>0, <2>2 DEF TypeOK, NoKick
  <2>4. /\ ToSet(active') \subseteq ToSet(act)
        /\ \E p \in {"none", "leave"} : pc' = [pc EXCEPT ![i] = p]
    <3>1. CASE BroadcastRoster(i, "none", act, ses)
      BY <1>0, <2>1, <3>1, RosterFacts DEF States
    <3>2. CASE \E q \in Wedged(act) : Broadcast(i, "leave", act, q)
      BY <1>0, <2>1, <3>2, BroadcastFacts DEF States
    <3> QED
      BY <2>2, <3>1, <3>2
  <2>5. KickerListed'
    BY <2>1, <2>3, <2>4, KickerStays DEF RosterInv
  <2>6. \A j \in ToSet(act) : pc'[j] \in {"join", "read", "kick"}
    <3>1. \A j \in Ids \ {i} : pc'[j] = pc[j]
      BY <1>0, <2>4 DEF TypeOK
    <3> QED
      BY <1>a, <2>1, <3>1
  <2>7. CASE BroadcastRoster(i, "none", act, ses)
    BY <2>1, <2>2, <2>5, <2>6, <2>7, RosterSettles
  <2>8. CASE \E q \in Wedged(act) : Broadcast(i, "leave", act, q)
    <3>1. pc' = [pc EXCEPT ![i] = "leave"]
      BY <2>8 DEF Broadcast
    <3>2. pc'[i] = "leave"
      BY <1>0, <3>1 DEF TypeOK
    <3> QED
      BY <2>5, <3>2 DEF Settling, Pending
  <2> QED
    BY <2>2, <2>7, <2>8
<1>8. ASSUME NEW i \in Ids, Cancelled(i) \/ CleanupStale(i)
      PROVE  KickerListed' /\ Settling'
  BY <1>8, ~LossCancels, LongIdle = {} DEF Cancelled, CleanupStale
<1>9. ASSUME NEW i \in Ids, NEW n, KickStart(i, n) PROVE KickerListed' /\ Settling'
  <2>1. /\ UNCHANGED <<sessions, active>>
        /\ kick' = [kick EXCEPT ![i] = StartedKick(i, n)]
        /\ pc' = [pc EXCEPT ![i] = "kick"]
    BY <1>9 DEF KickStart
  <2>2. /\ kick'[i].left = ToSet(sessions) /\ pc'[i] = "kick"
        /\ \A h \in Ids \ {i} : kick'[h] = kick[h]
    BY <1>0, <2>1 DEF TypeOK, StartedKick
  <2>3. i \in ToSet(active) => i \in ToSet(sessions)
    BY <1>0 DEF KickInv, Seats
  <2> QED
    BY <2>1, <2>2, <2>3 DEF RosterInv, KickerListed, Settling, Pending
<1>10. ASSUME NEW i \in Ids, NEW u \in Ids,
              \/ KickPop(i, u) \/ KickSkip(i, u) \/ KickFree(i, u)
              \/ KickDeliver(i, u) \/ KickClose(i, u)
       PROVE  KickerListed' /\ Settling'
  <2>1. /\ UNCHANGED pc /\ kick[i].phase # "off"
        /\ active' = active \/ active' = Without(active, u)
    BY <1>10 DEF KickPop, KickSkip, KickFree, KickDeliver, KickClose, clientVars
  <2>2. pc'[i] = "kick"
    BY <1>0, <2>1 DEF KickInv, KickShape
  <2>3. ToSet(active') \subseteq ToSet(active)
    BY <1>a, <2>1, WithoutFacts
  <2>4. \/ UNCHANGED active /\ u \notin ToSet(active)
        \/ kick'[i].left = kick[i].left
    <3>1. CASE KickSkip(i, u)
      BY <3>1 DEF KickSkip
    <3>2. CASE KickFree(i, u)
      BY <1>0, <3>2 DEF KickFree, KickInv, Popped, Popping
    <3>3. CASE KickPop(i, u) \/ KickDeliver(i, u) \/ KickClose(i, u)
      BY <1>0, <3>3 DEF KickPop, KickDeliver, KickClose, TypeOK, KickRecords
    <3> QED
      BY <1>10, <3>1, <3>2, <3>3
  <2>5. /\ \A h \in Ids \ {i} : kick'[h] = kick[h]
        /\ \A j \in kick[i].left : j = u \/ j \in kick'[i].left
    <3>1. kick[i] \in KickRecords
      BY <1>0 DEF TypeOK
    <3>2. \E k \in { [kick[i] EXCEPT !.phase = "deliver"],
                     [kick[i] EXCEPT !.left = @ \ {u}],
                     [kick[i] EXCEPT !.phase = "next", !.left = @ \ {u}],
                     [kick[i] EXCEPT !.phase = "close"],
                     [kick[i] EXCEPT !.phase = "free"] } :
              kick' = [kick EXCEPT ![i] = k]
      BY <1>0, <1>10
         DEF KickPop, KickSkip, KickFree, KickDeliver, KickClose, TypeOK
    <3>3. /\ \A h \in Ids \ {i} : kick'[h] = kick[h]
          /\ kick'[i] \in { [kick[i] EXCEPT !.phase = "deliver"],
                            [kick[i] EXCEPT !.left = @ \ {u}],
                            [kick[i] EXCEPT !.phase = "next", !.left = @ \ {u}],
                            [kick[i] EXCEPT !.phase = "close"],
                            [kick[i] EXCEPT !.phase = "free"] }
      BY <1>0, <3>2 DEF TypeOK
    <3> QED
      BY ONLY <3>1, <3>3 DEF KickRecords
  <2>6. KickerListed'
    BY <2>1, <2>3, <2>4, <2>5 DEF RosterInv, KickerListed
  <2> QED
    BY <2>2, <2>6 DEF Settling, Pending
<1>11. ASSUME NEW i \in Ids, KickEnd(i) PROVE KickerListed' /\ Settling'
  <2>1. /\ UNCHANGED active /\ kick[i].phase = "next" /\ kick[i].left = {}
        /\ kick' = [kick EXCEPT ![i] = NoKick] /\ pc' = [pc EXCEPT ![i] = "read"]
    BY <1>11 DEF KickEnd
  <2>2. i \notin ToSet(active)
    BY <2>1 DEF RosterInv, KickerListed
  <2>3. pc'[i] = "read"
    BY <1>0, <2>1 DEF TypeOK
  <2>4. \A h \in Ids : kick'[h].phase = "off" \/ kick'[h] = kick[h]
    BY <1>0, <2>1 DEF TypeOK, NoKick
  <2>5. KickerListed'
    BY <2>1, <2>4, KickerStays DEF RosterInv
  <2> QED
    BY <2>1, <2>2, <2>3, <2>5 DEF Settling, Pending
<1>12. CASE ClearMessages \/ UNCHANGED vars
  <2>1. UNCHANGED <<sessions, active, roster, kick, pc, host>>
    BY <1>12 DEF ClearMessages, vars
  <2> QED
    BY <1>1, <2>1
<1> QED
  BY <1>2, <1>3, <1>4, <1>5, <1>6, <1>7, <1>8, <1>9, <1>10, <1>11, <1>12
     DEF Next, ServerStep, KickStep, Resume

\* "All clergy members converge on this" (_roster_frame, views.py): while
\* handlers run to their end and nobody is swept, the last roster a quiet room
\* received names its members in order and the host in force, whatever joins,
\* evictions, departures and kicks came before.
THEOREM RosterIsCurrent ==
    ASSUME ~LossCancels, LongIdle = {}
    PROVE  Spec => []RosterConverges
<1>1. Init => RosterInv
  <2> SUFFICES ASSUME Init PROVE RosterInv
    OBVIOUS
  <2>1. KickInv
    BY InitKickInv
  <2>2. ToSet(<<>>) = {}
    BY DEF ToSet
  <2>3. KickerListed /\ Settling
    BY <2>2 DEF Init, KickerListed, NoKick, Settling, RosterCurrent, RosterFrame,
                CurrentHost
  <2> QED
    BY <2>1, <2>3 DEF RosterInv
<1>2. RosterInv /\ [Next]_vars => RosterInv'
  BY RosterInvNext
<1>3. RosterInv => RosterConverges
  <2> SUFFICES ASSUME RosterInv, Quiet PROVE RosterCurrent
    BY DEF RosterConverges, RosterCurrent
  <2>1. ~Pending
    BY DEF Quiet, Pending
  <2> QED
    BY <2>1 DEF RosterInv, Settling
<1> QED
  BY <1>1, <1>2, <1>3, PTL DEF Spec
=============================================================================
