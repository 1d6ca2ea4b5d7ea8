------------------------- MODULE WebRoomDriveProofs -------------------------
(***************************************************************************)
(* Proofs about the two components that MCWebRoomDrive explores side by    *)
(* side.  WebRoom, for any number of browsers, publishers and places and   *)
(* whichever lost sockets cancel their handlers: types, the cap on         *)
(* viewers, whose place a client_id leads to, and what a grace window may  *)
(* remove.  WebDrive (its definitions carry the prefix Drive!), for any    *)
(* number of browsers and owners and for channels of any capacity: a       *)
(* keystroke comes from the approved place and the badge shows who drives. *)
(***************************************************************************)
EXTENDS MCWebRoomDrive, FiniteSetTheorems, TLAPS

-----------------------------------------------------------------------------
(* Types.                                                                  *)

LEMMA TypeInit == Init => TypeOK
<1> SUFFICES ASSUME Init PROVE TypeOK
  OBVIOUS
<1>1. closing \in Seq(Socks)
  BY DEF Init
<1> QED
  BY <1>1 DEF Init, TypeOK

\* Listing a finite set of sockets gives a sequence of sockets.
LEMMA ListsSockets ==
    ASSUME NEW S \in SUBSET Socks, IsFiniteSet(S), NEW q \in SetToSeqs(S)
    PROVE  q \in Seq(Socks)
<1>1. Cardinality(S) \in Nat
  BY FS_CardinalityType
<1>2. q \in [1 .. Cardinality(S) -> Socks]
  BY DEF SetToSeqs
<1> QED
  BY <1>1, <1>2

\* The viewer_id Attach gives a socket is a socket.
LEMMA AttachType ==
    ASSUME TypeOK, NEW s \in Socks, NEW c \in Clients \cup {NULL}, Attach(s, c)
    PROVE  /\ vid' \in [Socks -> Socks \cup {NULL}]
           /\ cid' \in [Socks -> Clients \cup {NULL}]
           /\ clients' \in [Clients -> Socks \cup {NULL}]
           /\ viewers' \in [Socks -> Socks \cup {NULL}]
           /\ prev' \in [Socks -> Socks \cup {NULL}]
           /\ connected' \in [Socks -> BOOLEAN]
           /\ task' \in [Socks -> {"none", "on", "off"}]
           /\ pc' \in [Socks -> {"none", "hello", "close", "notify", "loop", "done"}]
<1> DEFINE known == IF c = NULL THEN FALSE ELSE clients[c] # NULL
           id    == IF known THEN clients[c] ELSE s
           old   == viewers[id]
<1>1. id \in Socks
  BY DEF TypeOK
<1>2. old \in Socks \cup {NULL}
  BY <1>1 DEF TypeOK
<1> HIDE DEF id, old
<1>3. /\ vid' = [vid EXCEPT ![s] = id]
      /\ cid' = [cid EXCEPT ![s] = c]
      /\ clients' = IF c = NULL THEN clients ELSE [clients EXCEPT ![c] = id]
      /\ viewers' = [viewers EXCEPT ![id] = s]
      /\ prev' = [prev EXCEPT ![s] = old]
      /\ connected' = [x \in Socks |-> IF x = s THEN TRUE
                                       ELSE x # old /\ connected[x]]
      /\ IF old = NULL
         THEN task' = [task EXCEPT ![s] = "on"] /\ Announce(s)
         ELSE task' = [task EXCEPT ![old] = Stopped(@)]
              /\ pc' = [pc EXCEPT ![s] = "close"]
  BY DEF Attach, id, old
<1>4. /\ task' \in [Socks -> {"none", "on", "off"}]
      /\ pc' \in [Socks -> {"none", "hello", "close", "notify", "loop", "done"}]
  BY <1>2, <1>3 DEF TypeOK, Announce, Stopped
<1>5. connected' \in [Socks -> BOOLEAN]
  <2>1. \A x \in Socks : (IF x = s THEN TRUE ELSE x # old /\ connected[x]) \in BOOLEAN
    BY DEF TypeOK
  <2> QED
    BY <1>3, <2>1
<1>6. /\ vid' \in [Socks -> Socks \cup {NULL}]
      /\ cid' \in [Socks -> Clients \cup {NULL}]
      /\ clients' \in [Clients -> Socks \cup {NULL}]
      /\ viewers' \in [Socks -> Socks \cup {NULL}]
      /\ prev' \in [Socks -> Socks \cup {NULL}]
  BY <1>1, <1>2, <1>3 DEF TypeOK
<1> QED
  BY <1>4, <1>5, <1>6

\* Every step keeps the types, given that the room's places are finitely many.
LEMMA TypeNext ==
    ASSUME TypeOK, IsFiniteSet(Present), [Next]_vars PROVE TypeOK'
<1>1. ASSUME NEW s \in Socks, SubNext(s) PROVE TypeOK'
  <2>1. CASE SubOpen(s)
    BY <2>1 DEF SubOpen, TypeOK, roomVars
  <2>2. CASE SubRefused(s)
    BY <2>2 DEF SubRefused, TypeOK, roomVars
  <2>3. CASE SubHello(s)
    <3>1. PICK c \in {ClientOf[s], NULL} : Attach(s, c)
      BY <2>3 DEF SubHello
    <3>2. c \in Clients \cup {NULL}
      BY WebRoomAssumption
    <3> QED
      BY <2>3, <3>1, <3>2, AttachType DEF SubHello, TypeOK
  <2>4. CASE SubFull(s)
    BY <2>4 DEF SubFull, TypeOK, roomVars
  <2>5. CASE Superseded(s)
    BY <2>5 DEF Superseded, Announce, TypeOK, roomVars
  <2>6. CASE Announced(s)
    BY <2>6 DEF Announced, TypeOK, roomVars
  <2>7. CASE SenderFails(s)
    BY <2>7 DEF SenderFails, TypeOK, roomVars
  <2>8. CASE SubEnds(s)
    BY <2>8 DEF SubEnds, Dropped, Stopped, TypeOK, roomVars
  <2>9. CASE SubCancelled(s)
    BY <2>9 DEF SubCancelled, TypeOK, roomVars
  <2>10. CASE BrowserGone(s)
    BY <2>10 DEF BrowserGone, TypeOK, roomVars, handlerVars
  <2>11. CASE GraceOver(s)
    <3>1. CASE viewers[vid[s]] = s /\ ~connected[s]
      <4>1. /\ viewers' = [viewers EXCEPT ![vid[s]] = NULL]
            /\ clients' = [c \in Clients |-> IF c = cid[s] THEN NULL
                                             ELSE clients[c]]
            /\ driver' \in {NULL, driver} /\ quiet' = FALSE
        BY <2>11, <3>1 DEF GraceOver
      <4>2. /\ viewers' \in [Socks -> Socks \cup {NULL}]
            /\ clients' \in [Clients -> Socks \cup {NULL}]
            /\ driver' \in Socks \cup {NULL} /\ quiet' \in BOOLEAN
        BY <4>1 DEF TypeOK
      <4> QED
        BY <2>11, <4>2 DEF GraceOver, TypeOK
    <3>2. CASE ~(viewers[vid[s]] = s /\ ~connected[s])
      BY <2>11, <3>2 DEF GraceOver, TypeOK
    <3> QED
      BY <3>1, <3>2
  <2> QED
    BY <1>1, <2>1, <2>2, <2>3, <2>4, <2>5, <2>6, <2>7, <2>8, <2>9, <2>10,
       <2>11 DEF SubNext
<1>2. ASSUME NEW p \in Pubs, PubNext(p) PROVE TypeOK'
  <2>1. CASE PubOpen(p)
    BY <2>1 DEF PubOpen, TypeOK, handlerVars
  <2>2. CASE PubAuth(p)
    BY <2>2 DEF PubAuth, TypeOK, handlerVars
  <2>3. CASE PubRefused(p)
    BY <2>3 DEF PubRefused, TypeOK, handlerVars
  <2>4. CASE PubFrame(p)
    BY <2>4 DEF PubFrame, TypeOK, roomVars, handlerVars
  <2>5. CASE PubDriver(p)
    BY <2>5 DEF PubDriver, TypeOK, handlerVars
  <2>6. CASE PubEnds(p)
    BY <2>6 DEF PubEnds, TypeOK, handlerVars
  <2>7. CASE PublisherGone(p)
    BY <2>7 DEF PublisherGone, TypeOK, handlerVars
  <2> QED
    BY <1>2, <2>1, <2>2, <2>3, <2>4, <2>5, <2>6, <2>7 DEF PubNext
<1>3. CASE EndRoom
  <2> DEFINE S == {viewers[v] : v \in Present}
  <2>1. S \in SUBSET Socks
    BY DEF Present, TypeOK
  <2>2. [v \in Present |-> viewers[v]] \in Surjection(Present, S)
    BY DEF Surjection
  <2>3. IsFiniteSet(S)
    BY <2>2, FS_Surjection
  <2>4. closing' \in SetToSeqs(S)
    BY <1>3 DEF EndRoom
  <2>5. closing' \in Seq(Socks)
    BY <2>1, <2>3, <2>4, ListsSockets
  <2> QED
    BY <1>3, <2>5 DEF EndRoom, TypeOK, handlerVars
<1>4. CASE TeardownNext
  <2>1. closing' \in Seq(Socks)
    BY <1>4 DEF TeardownNext, TypeOK
  <2> QED
    BY <1>4, <2>1 DEF TeardownNext, Stopped, TypeOK, roomVars
<1>5. CASE Reap
  BY <1>5 DEF Reap, TypeOK, handlerVars
<1>6. CASE FallQuiet
  BY <1>6 DEF FallQuiet, TypeOK, roomVars, handlerVars
<1>7. CASE UNCHANGED vars
  BY <1>7 DEF vars, TypeOK
<1> QED
  BY <1>1, <1>2, <1>3, <1>4, <1>5, <1>6, <1>7 DEF Next

-----------------------------------------------------------------------------
(* The inductive invariant.                                                *)

Bounded == IsFiniteSet(Present) /\ Cardinality(Present) <= MaxViewers

\* A socket that has not said hello is nobody's place; the socket of a viewer
\* works for it.
Places ==
    \A v \in Present :
        /\ vid[viewers[v]] = v
        /\ pc[viewers[v]] \notin {"none", "hello"}
        /\ pc[v] \notin {"none", "hello"}

\* Past the hello a handler has its viewer_id.
Handlers == \A s \in Socks : pc[s] \in {"close", "notify", "loop"} => vid[s] # NULL

\* A window only runs for a socket that went down.
Windows == \A s \in grace : vid[s] # NULL /\ sock[s] = "down"

RoomInv ==
    /\ TypeOK /\ Bounded /\ Places /\ Handlers /\ Windows
    /\ ReclaimsOwnPlace /\ DriverPresent

LEMMA InitRoomInv == Init => RoomInv
<1> SUFFICES ASSUME Init PROVE RoomInv
  OBVIOUS
<1>1. Present = {}
  BY DEF Init, Present
<1>2. Bounded
  BY <1>1, FS_EmptySet, WebRoomAssumption DEF Bounded
<1> QED
  BY <1>1, <1>2, TypeInit
  DEF Init, RoomInv, Places, Handlers, Windows, ReclaimsOwnPlace, DriverPresent

\* Steps that move no place, no client and no badge keep the invariant if no
\* handler goes back before its hello and a window opens on a lost socket only.
LEMMA QuietStep ==
    ASSUME RoomInv, TypeOK',
           UNCHANGED <<viewers, clients, driver, vid, cid>>,
           \A s \in Socks : pc[s] \notin {"none", "hello"}
                                => pc'[s] \notin {"none", "hello"},
           Handlers', Windows'
    PROVE  RoomInv'
<1>1. Present' = Present
  BY DEF Present
<1>2. Bounded'
  BY <1>1 DEF RoomInv, Bounded
<1>3. Places'
  <2>1. \A v \in Present : v \in Socks /\ viewers[v] \in Socks
    BY DEF Present, RoomInv, TypeOK
  <2> QED
    BY <1>1, <2>1 DEF RoomInv, Places
<1>4. ReclaimsOwnPlace' /\ DriverPresent'
  BY <1>1 DEF RoomInv, ReclaimsOwnPlace, DriverPresent
<1> QED
  BY <1>2, <1>3, <1>4 DEF RoomInv

\* A hello takes a place of its own if there is one, or the place its own
\* client_id leads to.
LEMMA AttachStep ==
    ASSUME RoomInv, TypeOK', NEW s \in Socks, SubHello(s)
    PROVE  RoomInv'
<1>1. PICK c \in {ClientOf[s], NULL} : Attach(s, c)
  BY DEF SubHello
<1> DEFINE known == IF c = NULL THEN FALSE ELSE clients[c] # NULL
           id    == IF known THEN clients[c] ELSE s
           old   == viewers[id]
<1>2. c \in Clients \cup {NULL} /\ NULL \notin Socks \cup Clients
  BY WebRoomAssumption
<1>3. known => c \in Clients /\ id \in Present /\ cid[viewers[id]] = c
  BY <1>2 DEF RoomInv, ReclaimsOwnPlace
<1>4. pc[s] = "hello" /\ UNCHANGED <<driver, grace, sock>>
  BY DEF SubHello
<1>5. s \notin Present /\ \A v \in Present : viewers[v] # s
  BY <1>4 DEF RoomInv, Places
<1>6. id \in Socks /\ (id # s => id \in Present) /\ (~known => id = s)
  BY <1>3 DEF Present
<1> HIDE DEF known, id
<1>7. /\ known \/ Cardinality(Present) < MaxViewers
      /\ vid' = [vid EXCEPT ![s] = id]
      /\ cid' = [cid EXCEPT ![s] = c]
      /\ clients' = IF c = NULL THEN clients ELSE [clients EXCEPT ![c] = id]
      /\ viewers' = [viewers EXCEPT ![id] = s]
      /\ pc'[s] \in {"close", "notify", "loop"}
      /\ \A x \in Socks \ {s} : pc'[x] = pc[x]
  BY <1>1 DEF Attach, known, id, Announce, RoomInv, TypeOK
<1>8. Present' = Present \cup {id}
  BY <1>2, <1>6, <1>7 DEF Present, RoomInv, TypeOK
<1>9. Bounded'
  <2>1. IsFiniteSet(Present) /\ Cardinality(Present) \in Nat
    BY FS_CardinalityType DEF RoomInv, Bounded
  <2>2. CASE known
    <3>1. Present' = Present
      BY <1>3, <1>8, <2>2 DEF known, id
    <3> QED
      BY <3>1 DEF RoomInv, Bounded
  <2>3. CASE ~known
    <3>1. Cardinality(Present) < MaxViewers /\ MaxViewers \in Nat
      BY <1>7, <2>3, WebRoomAssumption
    <3>2. /\ IsFiniteSet(Present \cup {id})
          /\ Cardinality(Present \cup {id}) =
                IF id \in Present THEN Cardinality(Present)
                ELSE Cardinality(Present) + 1
      BY <2>1, FS_AddElement
    <3> QED
      BY <1>8, <2>1, <3>1, <3>2 DEF Bounded
  <2> QED
    BY <2>2, <2>3
<1>10. Places'
  <2> SUFFICES ASSUME NEW v \in Present'
               PROVE  /\ vid'[viewers'[v]] = v
                      /\ pc'[viewers'[v]] \notin {"none", "hello"}
                      /\ pc'[v] \notin {"none", "hello"}
    BY DEF Places
  <2>1. v \in Socks /\ viewers'[v] = IF v = id THEN s ELSE viewers[v]
    BY <1>7 DEF Present, RoomInv, TypeOK
  <2>2. CASE v = id
    <3>1. pc'[v] \notin {"none", "hello"}
      <4>1. CASE id = s
        BY <1>7, <2>2, <4>1
      <4>2. CASE id # s
        BY <1>6, <1>7, <2>2, <4>2 DEF RoomInv, Places
      <4> QED
        BY <4>1, <4>2
    <3> QED
      BY <1>7, <2>1, <2>2, <3>1 DEF RoomInv, TypeOK
  <2>3. CASE v # id
    <3>1. v \in Present /\ viewers[v] # s /\ v # s
      BY <1>5, <1>8, <2>3
    <3>2. viewers[v] \in Socks
      BY <3>1 DEF RoomInv, TypeOK, Present
    <3> QED
      BY <1>7, <2>1, <2>3, <3>1, <3>2 DEF RoomInv, Places, TypeOK
  <2> QED
    BY <2>2, <2>3
<1>11. Handlers'
  BY <1>2, <1>6, <1>7 DEF RoomInv, Handlers, TypeOK
<1>12. Windows'
  BY <1>2, <1>4, <1>6, <1>7 DEF RoomInv, Windows, TypeOK
<1>13. ReclaimsOwnPlace'
  <2> SUFFICES ASSUME NEW d \in Clients, clients'[d] # NULL
               PROVE  clients'[d] \in Present' /\ cid'[viewers'[clients'[d]]] = d
    BY DEF ReclaimsOwnPlace
  <2>1. CASE d = c
    BY <1>2, <1>6, <1>7, <1>8, <2>1 DEF RoomInv, TypeOK
  <2>2. CASE d # c
    <3>1. clients'[d] = clients[d] /\ clients[d] # NULL
      BY <1>7, <2>2 DEF RoomInv, TypeOK
    <3>2. clients[d] \in Present /\ cid[viewers[clients[d]]] = d
      BY <3>1 DEF RoomInv, ReclaimsOwnPlace
    <3>3. clients[d] # id
      BY <1>3, <1>5, <1>6, <2>2, <3>2
    <3>4. viewers'[clients[d]] = viewers[clients[d]]
      BY <1>7, <3>2, <3>3 DEF RoomInv, TypeOK, Present
    <3>5. viewers[clients[d]] # s /\ viewers[clients[d]] \in Socks
      BY <1>5, <3>2 DEF RoomInv, TypeOK, Present
    <3> QED
      BY <1>7, <1>8, <3>1, <3>2, <3>4, <3>5 DEF RoomInv, TypeOK
  <2> QED
    BY <2>1, <2>2
<1>14. DriverPresent'
  BY <1>4, <1>8 DEF RoomInv, DriverPresent
<1> QED
  BY <1>9, <1>10, <1>11, <1>12, <1>13, <1>14 DEF RoomInv

\* A window that ends removes the viewer, its client's memory and its badge
\* together, or nothing.
LEMMA GraceStep ==
    ASSUME RoomInv, TypeOK', NEW s \in Socks, GraceOver(s)
    PROVE  RoomInv'
<1>1. /\ s \in grace /\ grace' = grace \ {s}
      /\ UNCHANGED <<vid, cid, pc, sock>>
  BY DEF GraceOver
<1>2. Handlers' /\ Windows'
  BY <1>1 DEF RoomInv, Handlers, Windows
<1>3. CASE ~(viewers[vid[s]] = s /\ ~connected[s])
  <2>1. UNCHANGED <<viewers, clients, driver, vid, cid>>
    BY <1>3 DEF GraceOver
  <2> QED
    BY <1>1, <1>2, <2>1, QuietStep
<1>4. CASE viewers[vid[s]] = s /\ ~connected[s]
  <2> DEFINE id == vid[s]
  <2>1. id \in Socks /\ id \in Present
    BY <1>1, <1>4, WebRoomAssumption DEF RoomInv, Windows, TypeOK, Present
  <2>2. /\ viewers' = [viewers EXCEPT ![id] = NULL]
        /\ clients' = [c \in Clients |-> IF c = cid[s] THEN NULL ELSE clients[c]]
        /\ driver' = IF driver = id THEN NULL ELSE driver
    BY <1>4 DEF GraceOver
  <2>3. viewers[id] = s
    BY <1>4
  <2> HIDE DEF id
  <2>4. Present' = Present \ {id}
    BY <2>1, <2>2 DEF Present, RoomInv, TypeOK
  <2>5. Bounded'
    <3>1. /\ IsFiniteSet(Present \ {id})
          /\ Cardinality(Present \ {id}) = Cardinality(Present) - 1
          /\ Cardinality(Present) \in Nat
      BY <2>1, FS_RemoveElement, FS_CardinalityType DEF RoomInv, Bounded
    <3> QED
      BY <2>4, <3>1, WebRoomAssumption DEF RoomInv, Bounded
  <2>6. Places'
    <3>1. \A v \in Present' : v \in Present /\ viewers'[v] = viewers[v]
      BY <2>2, <2>4 DEF Present, RoomInv, TypeOK
    <3> QED
      BY <1>1, <3>1 DEF RoomInv, Places
  <2>7. ReclaimsOwnPlace'
    <3> SUFFICES ASSUME NEW c \in Clients, clients'[c] # NULL
                 PROVE  /\ clients'[c] \in Present'
                        /\ cid'[viewers'[clients'[c]]] = c
      BY DEF ReclaimsOwnPlace
    <3>1. c # cid[s] /\ clients'[c] = clients[c]
      BY <2>2
    <3>2. clients[c] \in Present /\ cid[viewers[clients[c]]] = c
      BY <3>1 DEF RoomInv, ReclaimsOwnPlace
    <3>3. clients[c] # id
      BY <2>3, <3>1, <3>2
    <3>4. viewers'[clients[c]] = viewers[clients[c]]
      BY <2>2, <3>2, <3>3 DEF RoomInv, TypeOK, Present
    <3> QED
      BY <1>1, <2>4, <3>1, <3>2, <3>3, <3>4
  <2>8. DriverPresent'
    BY <2>2, <2>4 DEF RoomInv, DriverPresent
  <2> QED
    BY <1>2, <2>5, <2>6, <2>7, <2>8 DEF RoomInv
<1> QED
  BY <1>3, <1>4

LEMMA RoomInvNext == RoomInv /\ [Next]_vars => RoomInv'
<1> SUFFICES ASSUME RoomInv, [Next]_vars PROVE RoomInv'
  OBVIOUS
<1> USE DEF RoomInv
<1>0. TypeOK'
  BY TypeNext DEF Bounded
<1>1. ASSUME NEW s \in Socks, SubNext(s) PROVE RoomInv'
  <2>1. CASE SubOpen(s)
    BY <1>0, <2>1, QuietStep DEF SubOpen, TypeOK, Handlers, Windows, roomVars
  <2>2. CASE SubRefused(s)
    BY <1>0, <2>2, QuietStep DEF SubRefused, TypeOK, Handlers, Windows, roomVars
  <2>3. CASE SubHello(s)
    BY <1>0, <2>3, AttachStep
  <2>4. CASE SubFull(s)
    BY <1>0, <2>4, QuietStep DEF SubFull, TypeOK, Handlers, Windows, roomVars
  <2>5. CASE Superseded(s)
    BY <1>0, <2>5, QuietStep
    DEF Superseded, Announce, TypeOK, Handlers, Windows, roomVars
  <2>6. CASE Announced(s)
    BY <1>0, <2>6, QuietStep DEF Announced, TypeOK, Handlers, Windows, roomVars
  <2>7. CASE SenderFails(s)
    BY <1>0, <2>7, QuietStep DEF SenderFails, TypeOK, Handlers, Windows, roomVars
  <2>8. CASE SubEnds(s)
    BY <1>0, <2>8, QuietStep
    DEF SubEnds, Dropped, TypeOK, Handlers, Windows, roomVars
  <2>9. CASE SubCancelled(s)
    BY <1>0, <2>9, QuietStep
    DEF SubCancelled, TypeOK, Handlers, Windows, roomVars
  <2>10. CASE BrowserGone(s)
    BY <1>0, <2>10, QuietStep
    DEF BrowserGone, TypeOK, Handlers, Windows, roomVars, handlerVars
  <2>11. CASE GraceOver(s)
    BY <1>0, <2>11, GraceStep
  <2> QED
    BY <1>1, <2>1, <2>2, <2>3, <2>4, <2>5, <2>6, <2>7, <2>8, <2>9, <2>10,
       <2>11 DEF SubNext
<1>2. ASSUME NEW p \in Pubs, PubNext(p) PROVE RoomInv'
  <2>1. CASE PubDriver(p)
    <3>1. UNCHANGED <<viewers, clients, vid, cid, grace, pc, sock>>
      BY <2>1 DEF PubDriver, handlerVars
    <3>2. Present' = Present
      BY <3>1 DEF Present
    <3>3. DriverPresent'
      BY <2>1, <3>2 DEF PubDriver, DriverPresent
    <3> QED
      BY <1>0, <3>1, <3>2, <3>3
      DEF Bounded, Places, Handlers, Windows, ReclaimsOwnPlace
  <2>2. CASE ~PubDriver(p)
    <3>1. UNCHANGED <<viewers, clients, driver, handlerVars, sock>>
      BY <1>2, <2>2
      DEF PubNext, PubOpen, PubAuth, PubRefused, PubFrame, PubEnds,
          PublisherGone, roomVars
    <3> QED
      BY <1>0, <3>1, QuietStep DEF handlerVars, Handlers, Windows
  <2> QED
    BY <2>1, <2>2
<1>3. CASE EndRoom \/ Reap \/ FallQuiet \/ UNCHANGED vars
  <2>1. UNCHANGED <<viewers, clients, driver, handlerVars, sock>>
    BY <1>3 DEF EndRoom, Reap, FallQuiet, vars, roomVars, handlerVars
  <2> QED
    BY <1>0, <2>1, QuietStep DEF handlerVars, Handlers, Windows
<1>4. CASE TeardownNext
  BY <1>0, <1>4, QuietStep DEF TeardownNext, TypeOK, Handlers, Windows, roomVars
<1> QED
  BY <1>1, <1>2, <1>3, <1>4 DEF Next

-----------------------------------------------------------------------------
(* Theorems.                                                               *)

LEMMA RoomInvariant == Spec => []RoomInv
<1>1. Init => RoomInv
  BY InitRoomInv
<1>2. RoomInv /\ [Next]_vars => RoomInv'
  BY RoomInvNext
<1> QED
  BY <1>1, <1>2, PTL DEF Spec

\* The room of the relay keeps its types (rooms.py, app.py).
THEOREM WebTypeCorrect == Spec => []TypeOK
<1>1. RoomInv => TypeOK
  BY DEF RoomInv
<1> QED
  BY <1>1, RoomInvariant, PTL

\* No sequence of first hellos, reconnects, supersessions and ends of windows
\* puts more viewers into a room than MAX_VIEWERS_PER_ROOM, although a browser
\* the room knows is not held up by the cap (new_viewer, attach_viewer).
THEOREM ViewersStayBounded == Spec => []ViewersBounded
<1>1. RoomInv => ViewersBounded
  BY DEF RoomInv, Bounded, ViewersBounded
<1> QED
  BY <1>1, RoomInvariant, PTL

\* A client_id the room remembers leads to a viewer that is in the room and
\* whose socket belongs to that browser (attach_viewer, drop_viewer).
THEOREM ClientsReclaimTheirOwn == Spec => []ReclaimsOwnPlace
<1>1. RoomInv => ReclaimsOwnPlace
  BY DEF RoomInv
<1> QED
  BY <1>1, RoomInvariant, PTL

\* Who has the driver badge is in the room (drop_viewer and the driver frame).
THEOREM DriverStaysPresent == Spec => []DriverPresent
<1>1. RoomInv => DriverPresent
  BY DEF RoomInv
<1> QED
  BY <1>1, RoomInvariant, PTL

\* A grace window never takes the place of a viewer whose current socket is
\* open: a browser that came back in time is not thrown out by the window of
\* the socket it lost (_grace_evict).
THEOREM FlapsKeepTheirPlace == Spec => FlapKeepsPlace
<1> DEFINE Keeps == \A v \in Present :
                        viewers'[v] = NULL => sock[viewers[v]] = "down"
<1>1. ASSUME RoomInv, [Next]_vars PROVE Keeps \/ UNCHANGED vars
  <2> SUFFICES ASSUME NEW v \in Present, viewers'[v] = NULL
               PROVE  sock[viewers[v]] = "down"
    OBVIOUS
  <2>1. v \in Socks /\ viewers[v] # NULL
    BY DEF Present
  <2>2. viewers' # viewers
    BY <2>1
  <2>3. ASSUME NEW s \in Socks, SubHello(s) PROVE FALSE
    <3>1. PICK c \in {ClientOf[s], NULL} : Attach(s, c)
      BY <2>3 DEF SubHello
    <3>2. PICK id : viewers' = [viewers EXCEPT ![id] = s]
      BY <3>1 DEF Attach
    <3> QED
      BY <1>1, <2>1, <2>2, <3>2, WebRoomAssumption DEF RoomInv, TypeOK
  <2>4. ASSUME NEW s \in Socks, GraceOver(s) PROVE sock[viewers[v]] = "down"
    <3>1. /\ s \in grace /\ viewers[vid[s]] = s
          /\ viewers' = [viewers EXCEPT ![vid[s]] = NULL]
      BY <2>2, <2>4 DEF GraceOver
    <3>2. v = vid[s]
      BY <1>1, <2>1, <3>1 DEF RoomInv, TypeOK
    <3> QED
      BY <1>1, <3>1, <3>2 DEF RoomInv, Windows
  <2> QED
    BY <1>1, <2>2, <2>3, <2>4
    DEF Next, SubNext, PubNext, SubOpen, SubRefused, SubFull, Superseded,
        Announced, SenderFails, SubEnds, SubCancelled, BrowserGone, PubOpen,
        PubAuth, PubRefused, PubFrame, PubDriver, PubEnds, PublisherGone,
        EndRoom, TeardownNext, Reap, FallQuiet, vars, roomVars
<1>2. ASSUME RoomInv, [Next]_vars PROVE [Keeps]_vars
  BY <1>1, <1>2
<1> QED
  BY <1>2, RoomInvariant, PTL DEF Spec, FlapKeepsPlace

Bounds == NoOne \notin Browsers /\ MaxPlaces \in Nat /\ MaxFrames \in Nat

----------------------------------------------------------------------------
(* Drive: the inductive invariant. *)

\* What the relay hands out and sends: a browser with a socket has a place.
RelayInv ==
    /\ minted \in 0..MaxPlaces
    /\ place \in [Browsers -> 0..MaxPlaces]
    /\ on \in [Browsers -> BOOLEAN]
    /\ \A b \in Browsers : on[b] => place[b] # 0
    /\ clock \in [Browsers -> 0..MaxFrames]
    /\ up \in Seq(Drive!UpFrame)

ConsoleInv == gives \in [Owners -> BOOLEAN] /\ roomq \in Seq(Drive!RoomFrame)

\* What the publisher knows of the browsers: an identity stands behind one
\* viewer id at most, and the pinned one behind the approved one.
GateInv ==
    /\ approved \in 0..MaxPlaces
    /\ pinned \in Browsers \cup {NoOne}
    /\ bound \in [Drive!Vids -> Browsers \cup {NoOne}]
    /\ \A v, w \in Drive!Vids : bound[v] # NoOne /\ bound[v] = bound[w] => v = w
    /\ pinned # NoOne => approved \in Drive!Vids /\ bound[approved] = pinned

IInv == RelayInv /\ ConsoleInv /\ GateInv

LEMMA Start ==
    ASSUME Bounds, Drive!Init
    PROVE  IInv
BY DEF Bounds, Drive!Init, IInv, RelayInv, ConsoleInv, GateInv, Drive!Vids

----------------------------------------------------------------------------
(* The frames. *)

\* A room frame that names a viewer names one the relay can have minted.
LEMMA RoomFrameFields ==
    ASSUME NEW f \in Drive!RoomFrame, f.kind \in {"allow", "deny"}
    PROVE  f.vid \in Drive!Vids
BY DEF Drive!RoomFrame

LEMMA UpFrameFields ==
    ASSUME NEW f \in Drive!UpFrame
    PROVE  /\ f.kind # "revoke" => f.vid \in Drive!Vids
           /\ f.kind = "in" => f.vsid \in Browsers
BY DEF Drive!UpFrame, Drive!InFrame

LEMMA Joined ==
    ASSUME NEW S, NEW s \in Seq(S), NEW t \in Seq(S)
    PROVE  s \o t \in Seq(S)
OBVIOUS

LEMMA Told ==
    ASSUME ConsoleInv, NEW frames \in Seq(Drive!RoomFrame), Drive!Tell(frames)
    PROVE  roomq' \in Seq(Drive!RoomFrame)
<1>1. roomq \o frames \in Seq(Drive!RoomFrame)
  BY Joined DEF ConsoleInv
<1>2. roomq' \in {roomq, roomq \o frames}
  BY DEF Drive!Tell
<1> QED
  BY <1>1, <1>2 DEF ConsoleInv

LEMMA Notified ==
    ASSUME up \in Seq(Drive!UpFrame), NEW frames \in Seq(Drive!UpFrame),
           Drive!Notify(frames)
    PROVE  up' \in Seq(Drive!UpFrame)
<1>1. up \o frames \in Seq(Drive!UpFrame)
  BY Joined
<1>2. up' \in {up, up \o frames}
  BY DEF Drive!Notify
<1> QED
  BY <1>1, <1>2

LEMMA HeadAndTail ==
    ASSUME NEW S, NEW s \in Seq(S), s # <<>>
    PROVE  Head(s) \in S /\ Tail(s) \in Seq(S)
OBVIOUS

----------------------------------------------------------------------------
(* The gates. *)

LEMMA AllowKeeps ==
    ASSUME GateInv, NEW v \in Drive!Vids, Drive!ApplyAllow(v), bound' = bound
    PROVE  GateInv'
<1>1. CASE bound[v] = NoOne
  BY <1>1 DEF GateInv, Drive!ApplyAllow, Drive!gates
<1>2. CASE bound[v] # NoOne
  <2>1. approved' = v /\ pinned' = bound[v]
    BY <1>2 DEF Drive!ApplyAllow, Drive!Decide
  <2> QED
    BY <2>1 DEF GateInv, Drive!Vids
<1> QED
  BY <1>1, <1>2

LEMMA RevokeKeeps ==
    ASSUME Bounds, GateInv, Drive!ApplyRevoke, bound' = bound
    PROVE  GateInv'
<1>1. approved' = 0 /\ pinned' = NoOne
  BY DEF Drive!ApplyRevoke, Drive!Decide
<1> QED
  BY <1>1 DEF GateInv, Bounds

\* Opening or closing gate A, or forgetting the driver, leaves the pin.
LEMMA DecideKeeps ==
    ASSUME GateInv, NEW g, NEW was, Drive!Decide(g, approved, pinned, was), bound' = bound
    PROVE  GateInv'
BY DEF GateInv, Drive!Decide

LEMMA GatesKept ==
    ASSUME GateInv, UNCHANGED Drive!gates, bound' = bound
    PROVE  GateInv'
BY DEF GateInv, Drive!gates

\* Binding a viewer id never takes an identity from another one.
LEMMA InputKeeps ==
    ASSUME Bounds, GateInv, NEW f, f.vid \in Drive!Vids, f.vsid \in Browsers,
           Drive!ForwardInput(f)
    PROVE  GateInv'
<1>1. approved' = approved /\ pinned' = pinned
  BY DEF Drive!ForwardInput, Drive!gates
<1>2. CASE Drive!MayBind(f.vid, f.vsid)
  <2>1. bound' = [bound EXCEPT ![f.vid] = f.vsid]
    BY <1>2 DEF Drive!ForwardInput
  <2> QED
    BY <1>1, <1>2, <2>1 DEF GateInv, Drive!MayBind, Bounds
<1>3. CASE ~Drive!MayBind(f.vid, f.vsid)
  BY <1>1, <1>3 DEF GateInv, Drive!ForwardInput, Drive!identity
<1> QED
  BY <1>2, <1>3

LEMMA ReleaseKeeps ==
    ASSUME Bounds, GateInv, NEW f, f.vid \in Drive!Vids, Drive!Released(f)
    PROVE  GateInv'
<1>1. bound' \in {bound, [bound EXCEPT ![f.vid] = NoOne]}
  BY DEF Drive!Released
<1>2. CASE f.vid = approved
  <2>1. approved' = 0 /\ pinned' = NoOne
    BY <1>2 DEF Drive!Released, Drive!ApplyRevoke, Drive!Decide
  <2> QED
    BY <1>1, <2>1 DEF GateInv, Bounds
<1>3. CASE f.vid # approved
  <2>1. approved' = approved /\ pinned' = pinned
    BY <1>3 DEF Drive!Released, Drive!gates
  <2> QED
    BY <1>1, <1>3, <2>1 DEF GateInv
<1> QED
  BY <1>2, <1>3

----------------------------------------------------------------------------
(* Every step keeps the invariant. *)

LEMMA RoomStep ==
    ASSUME Bounds, IInv, NEW o \in Owners,
           \/ Drive!Summon(o) \/ Drive!Output(o) \/ Drive!Grant(o) \/ Drive!Stop(o)
           \/ \E v \in 1..minted : Drive!Command(o, v)
    PROVE  IInv'
<1>1. RelayInv'
  BY DEF IInv, RelayInv, Drive!Summon, Drive!Output, Drive!Grant, Drive!Stop,
         Drive!Command, Drive!relay, Drive!pages
<1>2. GateInv'
  BY GatesKept DEF IInv, Drive!Summon, Drive!Output, Drive!Grant, Drive!Stop,
                   Drive!Command, Drive!identity
<1>3. roomq' \in Seq(Drive!RoomFrame)
  <2>1. CASE Drive!Summon(o)
    <3>1. <<[kind |-> "alive"], Drive!Acl(o, FALSE)>> \in Seq(Drive!RoomFrame)
      BY DEF Drive!RoomFrame, Drive!Acl
    <3> QED
      BY <2>1, <3>1, Told DEF IInv, Drive!Summon
  <2>2. CASE Drive!Output(o)
    <3>1. <<[kind |-> "alive"]>> \in Seq(Drive!RoomFrame)
      BY DEF Drive!RoomFrame
    <3> QED
      BY <2>2, <3>1, Told DEF IInv, Drive!Output
  <2>3. CASE Drive!Grant(o)
    <3>1. ASSUME NEW g \in BOOLEAN
          PROVE  <<Drive!Acl(o, g)>> \in Seq(Drive!RoomFrame)
      BY DEF Drive!RoomFrame, Drive!Acl
    <3>2. (~gives[o]) \in BOOLEAN
      OBVIOUS
    <3> QED
      BY <2>3, <3>1, <3>2, Told DEF IInv, Drive!Grant
  <2>4. CASE Drive!Stop(o)
    <3>1. <<[kind |-> "stopped"]>> \in Seq(Drive!RoomFrame)
      BY DEF Drive!RoomFrame
    <3> QED
      BY <2>4, <3>1, Told DEF IInv, Drive!Stop, ConsoleInv
  <2>5. ASSUME NEW v \in 1..minted, Drive!Command(o, v)
        PROVE  roomq' \in Seq(Drive!RoomFrame)
    <3>1. v \in Drive!Vids
      BY DEF IInv, RelayInv, Drive!Vids, Bounds
    <3>2. ASSUME NEW k \in {"allow", "deny"}
          PROVE  <<[kind |-> k, by |-> o, vid |-> v]>> \in Seq(Drive!RoomFrame)
      BY <3>1 DEF Drive!RoomFrame
    <3> QED
      BY <2>5, <3>2, Told DEF IInv, Drive!Command
  <2> QED
    BY <2>1, <2>2, <2>3, <2>4, <2>5
<1>4. gives' \in [Owners -> BOOLEAN]
  BY DEF IInv, ConsoleInv, Drive!Summon, Drive!Output, Drive!Grant, Drive!Stop, Drive!Command
<1> QED
  BY <1>1, <1>2, <1>3, <1>4 DEF IInv, ConsoleInv

LEMMA RoomSocketStep ==
    ASSUME Bounds, IInv, Drive!RoomLost \/ Drive!RoomRejoined
    PROVE  IInv'
<1>1. RelayInv'
  BY DEF IInv, RelayInv, Drive!RoomLost, Drive!RoomRejoined, Drive!relay, Drive!pages
<1>2. CASE Drive!RoomLost
  <2>1. Drive!Decide(FALSE, approved, pinned, effective) /\ bound' = bound /\ roomq' = <<>>
                               /\ gives' = gives
    BY <1>2 DEF Drive!RoomLost, Drive!identity
  <2>2. GateInv'
    BY <2>1, DecideKeeps DEF IInv
  <2> QED
    BY <1>1, <2>1, <2>2 DEF IInv, ConsoleInv
<1>3. CASE Drive!RoomRejoined
  <2>1. PICK o \in Owners :
          roomq' = IF o \in running THEN <<[kind |-> "alive"], Drive!Acl(o,
                                           gives[o])>> ELSE <<>>
    BY <1>3 DEF Drive!RoomRejoined
  <2>2. ConsoleInv'
    <3>1. <<[kind |-> "alive"], Drive!Acl(o, gives[o])>> \in Seq(Drive!RoomFrame)
      BY DEF IInv, ConsoleInv, Drive!RoomFrame, Drive!Acl
    <3>2. gives' = gives
      BY <1>3 DEF Drive!RoomRejoined
    <3> QED
      BY <2>1, <3>1, <3>2 DEF IInv, ConsoleInv
  <2> QED
    BY <1>1, <1>3, <2>2, GatesKept DEF IInv, Drive!RoomRejoined, Drive!identity
<1> QED
  BY <1>2, <1>3

LEMMA RoomFrameStep ==
    ASSUME Bounds, IInv, Drive!RoomFrameIn
    PROVE  IInv'
<1> DEFINE f == Head(roomq)
<1>1. f \in Drive!RoomFrame /\ ConsoleInv'
  BY HeadAndTail DEF IInv, ConsoleInv, Drive!RoomFrameIn
<1>2. RelayInv'
  BY DEF IInv, RelayInv, Drive!RoomFrameIn, Drive!relay, Drive!pages
<1>3. bound' = bound
  BY DEF Drive!RoomFrameIn, Drive!identity
<1> HIDE DEF f
<1>4. ASSUME NEW now, Drive!SetLive(now)
      PROVE  GateInv'
  BY <1>3, <1>4, DecideKeeps, GatesKept DEF IInv, Drive!SetLive
<1>5. ASSUME Drive!TakeAcl(f)
      PROVE  GateInv'
  BY <1>3, <1>5, DecideKeeps, GatesKept DEF IInv, Drive!TakeAcl
<1>6. ASSUME f.kind \in {"allow", "deny"}, Drive!TakeCommand(f)
      PROVE  GateInv'
  <2>1. f.vid \in Drive!Vids
    BY <1>1, <1>6, RoomFrameFields
  <2>2. Drive!ApplyAllow(f.vid) \/ Drive!ApplyRevoke \/ UNCHANGED Drive!gates
    BY <1>6 DEF Drive!TakeCommand
  <2> QED
    BY <1>3, <2>1, <2>2, AllowKeeps, RevokeKeeps, GatesKept DEF IInv
<1>7. GateInv'
  BY <1>4, <1>5, <1>6 DEF Drive!RoomFrameIn, f
<1> QED
  BY <1>1, <1>2, <1>7 DEF IInv

LEMMA ConsoleStep ==
    ASSUME Bounds, IInv, Drive!ConsoleRevoke \/ \E v \in 1..minted : Drive!ConsoleAllow(v)
    PROVE  IInv'
<1>1. RelayInv' /\ ConsoleInv'
  BY DEF IInv, RelayInv, ConsoleInv, Drive!ConsoleRevoke, Drive!ConsoleAllow, Drive!relay,
         Drive!room, Drive!pages
<1>2. ASSUME Drive!ConsoleRevoke
      PROVE  GateInv'
  BY <1>2, RevokeKeeps DEF IInv, Drive!ConsoleRevoke, Drive!identity
<1>3. ASSUME NEW v \in 1..minted, Drive!ConsoleAllow(v)
      PROVE  GateInv'
  <2>1. v \in Drive!Vids
    BY DEF IInv, RelayInv, Drive!Vids, Bounds
  <2> QED
    BY <1>3, <2>1, AllowKeeps DEF IInv, Drive!ConsoleAllow, Drive!identity
<1> QED
  BY <1>1, <1>2, <1>3 DEF IInv

LEMMA BrowserStep ==
    ASSUME Bounds, IInv,
           \/ Drive!HostCommand
           \/ \E b \in Browsers : Drive!Enter(b) \/ Drive!Leave(b) \/ Drive!Evict(b)
                                  \/ Drive!SendInput(b)
                                           \/ Drive!ReleaseDrive(b)
    PROVE  IInv'
<1>1. GateInv'
  BY GatesKept DEF IInv, Drive!HostCommand, Drive!Enter, Drive!Leave, Drive!Evict,
                   Drive!SendInput, Drive!ReleaseDrive, Drive!identity
<1>2. ConsoleInv'
  BY DEF IInv, ConsoleInv, Drive!HostCommand, Drive!Enter, Drive!Leave, Drive!Evict,
         Drive!SendInput, Drive!ReleaseDrive, Drive!room
<1>3. CASE Drive!HostCommand
  <2>1. ASSUME NEW v \in 1..minted
        PROVE  <<[kind |-> "allow", vid |-> v]>> \in Seq(Drive!UpFrame)
    <3>1. v \in Drive!Vids
      BY DEF IInv, RelayInv, Drive!Vids, Bounds
    <3> QED
      BY <3>1 DEF Drive!UpFrame
  <2>2. <<[kind |-> "revoke"]>> \in Seq(Drive!UpFrame)
    BY DEF Drive!UpFrame
  <2>3. up' \in Seq(Drive!UpFrame)
    BY <1>3, <2>1, <2>2, Notified DEF IInv, RelayInv, Drive!HostCommand
  <2>4. RelayInv'
    BY <1>3, <2>3 DEF IInv, RelayInv, Drive!HostCommand, Drive!pages
  <2> QED
    BY <1>1, <1>2, <2>4 DEF IInv
<1>4. ASSUME NEW b \in Browsers, Drive!Enter(b)
      PROVE  IInv'
  <2>1. on' = [on EXCEPT ![b] = TRUE] /\ up' = up /\ clock' = clock
    BY <1>4 DEF Drive!Enter, Drive!pages
  <2>2. ASSUME place[b] # 0, UNCHANGED <<place, minted>>
        PROVE  RelayInv'
    BY <2>1, <2>2 DEF IInv, RelayInv
  <2>3. ASSUME minted < MaxPlaces, minted' = minted + 1,
               place' = [place EXCEPT ![b] = minted']
        PROVE  RelayInv'
    BY <2>1, <2>3 DEF IInv, RelayInv, Bounds
  <2>4. RelayInv'
    BY <1>4, <2>2, <2>3 DEF Drive!Enter
  <2> QED
    BY <1>1, <1>2, <2>4 DEF IInv
<1>5. ASSUME NEW b \in Browsers, Drive!Leave(b)
      PROVE  IInv'
  <2>1. RelayInv'
    BY <1>5 DEF IInv, RelayInv, Drive!Leave, Drive!pages
  <2> QED
    BY <1>1, <1>2, <2>1 DEF IInv
<1>6. ASSUME NEW b \in Browsers, Drive!Evict(b)
      PROVE  IInv'
  <2>1. place[b] \in Drive!Vids
    BY <1>6 DEF IInv, RelayInv, Drive!Evict, Drive!Vids, Bounds
  <2>2. <<[kind |-> "release", vid |-> place[b]]>> \in Seq(Drive!UpFrame)
    BY <2>1 DEF Drive!UpFrame
  <2>3. <<[kind |-> "left", vid |-> place[b]]>> \in Seq(Drive!UpFrame)
    BY <2>1 DEF Drive!UpFrame
  <2>5. (IF badge = place[b] THEN <<[kind |-> "release", vid |-> place[b]]>> ELSE <<>>)
            \in Seq(Drive!UpFrame)
    BY <2>2
  <2>4. (IF badge = place[b] THEN <<[kind |-> "release", vid |-> place[b]]>> ELSE <<>>)
            \o <<[kind |-> "left", vid |-> place[b]]>> \in Seq(Drive!UpFrame)
    BY <2>3, <2>5, Joined
  <2>6. up' \in Seq(Drive!UpFrame)
    BY <1>6, <2>4, Notified DEF IInv, RelayInv, Drive!Evict
  <2>7. RelayInv'
    BY <1>6, <2>6 DEF IInv, RelayInv, Drive!Evict, Bounds, Drive!pages
  <2> QED
    BY <1>1, <1>2, <2>7 DEF IInv
<1>7. ASSUME NEW b \in Browsers, Drive!SendInput(b)
      PROVE  IInv'
  <2>1. place[b] \in Drive!Vids /\ clock[b] + 1 \in 1..MaxFrames
    BY <1>7 DEF IInv, RelayInv, Drive!SendInput, Drive!Vids, Bounds
  <2>2. ASSUME NEW key \in BOOLEAN
        PROVE  <<[kind |-> "in", vid |-> place[b], vsid |-> b, ctr |-> clock[b] + 1,
                  key |-> key]>> \in Seq(Drive!UpFrame)
    <3>1. [kind |-> "in", vid |-> place[b], vsid |-> b, ctr |-> clock[b] + 1, key |-> key]
            \in Drive!InFrame
      BY <2>1 DEF Drive!InFrame
    <3> QED
      BY <3>1 DEF Drive!UpFrame
  <2>3. up' \in Seq(Drive!UpFrame)
    BY <1>7, <2>2, Notified DEF IInv, RelayInv, Drive!SendInput
  <2>4. RelayInv'
    BY <1>7, <2>1, <2>3 DEF IInv, RelayInv, Drive!SendInput, Bounds
  <2> QED
    BY <1>1, <1>2, <2>4 DEF IInv
<1>8. ASSUME NEW b \in Browsers, Drive!ReleaseDrive(b)
      PROVE  IInv'
  <2>1. place[b] \in Drive!Vids
    BY <1>8 DEF IInv, RelayInv, Drive!ReleaseDrive, Drive!Vids, Bounds
  <2>2. <<[kind |-> "release", vid |-> place[b]]>> \in Seq(Drive!UpFrame)
    BY <2>1 DEF Drive!UpFrame
  <2>3. up' \in Seq(Drive!UpFrame)
    BY <1>8, <2>2, Notified DEF IInv, RelayInv, Drive!ReleaseDrive
  <2>4. RelayInv'
    BY <1>8, <2>3 DEF IInv, RelayInv, Drive!ReleaseDrive, Drive!pages
  <2> QED
    BY <1>1, <1>2, <2>4 DEF IInv
<1> QED
  BY <1>3, <1>4, <1>5, <1>6, <1>7, <1>8

LEMMA RelayFrameStep ==
    ASSUME Bounds, IInv, Drive!RelayFrameIn
    PROVE  IInv'
<1> DEFINE f == Head(up)
<1>1. f \in Drive!UpFrame /\ up' \in Seq(Drive!UpFrame)
  BY HeadAndTail DEF IInv, RelayInv, Drive!RelayFrameIn
<1>2. RelayInv' /\ ConsoleInv'
  BY <1>1 DEF IInv, RelayInv, ConsoleInv, Drive!RelayFrameIn, Drive!room
<1>3. /\ f.kind # "revoke" => f.vid \in Drive!Vids
      /\ f.kind = "in" => f.vsid \in Browsers
  BY <1>1, UpFrameFields
<1> HIDE DEF f
<1>4. ASSUME f.kind = "in" /\ Drive!ForwardInput(f)
      PROVE  GateInv'
  BY <1>3, <1>4, InputKeeps DEF IInv
<1>5. ASSUME f.kind \in {"release", "left"} /\ Drive!Released(f)
      PROVE  GateInv'
  BY <1>3, <1>5, ReleaseKeeps DEF IInv
<1>6. ASSUME f.kind = "allow" /\ Drive!ApplyAllow(f.vid) /\ UNCHANGED <<Drive!identity,
                                                                        typed>>
      PROVE  GateInv'
  BY <1>3, <1>6, AllowKeeps DEF IInv, Drive!identity
<1>7. ASSUME f.kind = "revoke" /\ Drive!ApplyRevoke /\ UNCHANGED <<Drive!identity, typed>>
      PROVE  GateInv'
  BY <1>7, RevokeKeeps DEF IInv, Drive!identity
<1>8. GateInv'
  BY <1>4, <1>5, <1>6, <1>7 DEF Drive!RelayFrameIn, f
<1> QED
  BY <1>2, <1>8 DEF IInv

LEMMA SocketStep ==
    ASSUME Bounds, IInv, Drive!Drain \/ Drive!Cut \/ Drive!Connect \/ Drive!Reprovision
    PROVE  IInv'
<1>1. ConsoleInv'
  BY DEF IInv, ConsoleInv, Drive!Drain, Drive!Cut, Drive!Connect, Drive!Reprovision, Drive!room
<1>2. CASE Drive!Drain
  <2>1. RelayInv' /\ GateInv'
    BY <1>2 DEF IInv, RelayInv, GateInv, Drive!Drain, Drive!identity, Drive!pages
  <2> QED
    BY <1>1, <2>1 DEF IInv
<1>3. CASE Drive!Cut
  <2>1. RelayInv' /\ GateInv'
    BY <1>3 DEF IInv, RelayInv, GateInv, Drive!Cut, Drive!identity, Drive!pages
  <2> QED
    BY <1>1, <2>1 DEF IInv
<1>4. CASE Drive!Connect
  <2>1. RelayInv'
    BY <1>4 DEF IInv, RelayInv, Drive!Connect, Drive!pages
  <2>2. GateInv'
    BY <1>4, DecideKeeps DEF IInv, Drive!Connect, Drive!identity
  <2> QED
    BY <1>1, <2>1, <2>2 DEF IInv
<1>5. CASE Drive!Reprovision
  <2>1. RelayInv'
    BY <1>5 DEF IInv, RelayInv, Drive!Reprovision, Bounds, Drive!pages
  <2>2. GateInv'
    BY <1>5 DEF IInv, GateInv, Drive!Reprovision, Bounds, Drive!Vids
  <2> QED
    BY <1>1, <2>1, <2>2 DEF IInv
<1> QED
  BY <1>2, <1>3, <1>4, <1>5

LEMMA Step ==
    ASSUME Bounds, IInv, [Drive!Next]_(Drive!vars)
    PROVE  IInv'
<1>1. CASE UNCHANGED Drive!vars
  BY <1>1 DEF Drive!vars, IInv, RelayInv, ConsoleInv, GateInv, Drive!room, Drive!relay,
              Drive!gates, Drive!identity, Drive!pages
<1>2. CASE Drive!Next
  BY <1>2, RoomStep, RoomSocketStep, RoomFrameStep, ConsoleStep, BrowserStep,
     RelayFrameStep, SocketStep DEF Drive!Next
<1> QED
  BY <1>1, <1>2

----------------------------------------------------------------------------
(* The property. *)

\* Only an input frame of the pinned identity types, and it came from the
\* approved place: binding leaves no other place for that identity.
LEMMA TypesFromApproved ==
    ASSUME Bounds, IInv, [Drive!Next]_(Drive!vars), typed' # typed
    PROVE  granted /\ typed'.vid = approved
<1> DEFINE f == Head(up)
<1>1. Drive!RelayFrameIn /\ f.kind = "in" /\ Drive!ForwardInput(f)
  BY DEF Drive!Next, Drive!vars, Drive!Summon, Drive!Output, Drive!Grant, Drive!Stop,
         Drive!Command, Drive!RoomLost, Drive!RoomRejoined,
         Drive!RoomFrameIn, Drive!ConsoleAllow, Drive!ConsoleRevoke, Drive!HostCommand,
         Drive!Enter, Drive!Leave, Drive!Evict,
         Drive!SendInput, Drive!ReleaseDrive, Drive!RelayFrameIn, Drive!Released,
         Drive!Drain, Drive!Cut, Drive!Connect,
         Drive!Reprovision, Drive!pages
<1>2. f \in Drive!UpFrame
  BY <1>1, HeadAndTail DEF IInv, RelayInv, Drive!RelayFrameIn
<1>3. f.vid \in Drive!Vids /\ f.vsid \in Browsers
  BY <1>1, <1>2, UpFrameFields
<1> HIDE DEF f
<1>4. Drive!MayBind(f.vid, f.vsid) /\ granted /\ pinned = f.vsid /\ typed' = f
  BY <1>1 DEF Drive!ForwardInput, Drive!identity
<1>5. approved \in Drive!Vids /\ bound[approved] = f.vsid
  BY <1>3, <1>4 DEF IInv, GateInv, Bounds
<1>6. f.vid = approved
  BY <1>3, <1>4, <1>5 DEF IInv, GateInv, Drive!MayBind, Bounds
<1> QED
  BY <1>4, <1>6

----------------------------------------------------------------------------
(* The badge.                                                              *)

\* The out queue holds a frame.
RoomToSend == OutMax \in Nat \ {0}

\* What the relay sends of a browser names a viewer id it has minted.
Sent(n) == {f \in Drive!UpFrame : f.kind = "in" => f.vid <= n}

\* Viewer ids are minted upwards, one browser each; only those are bound to an
\* identity, approved or announced.
PlaceInv ==
    /\ \A b \in Browsers : place[b] <= minted
    /\ \A b, c \in Browsers : place[b] = place[c] /\ place[b] # 0 => b = c
    /\ up \in Seq(Sent(minted))
    /\ \A v \in Drive!Vids : bound[v] # NoOne => v <= minted
    /\ approved <= minted
    /\ effective \in 0..minted

\* The rest of the types.
RestInv ==
    /\ running \subseteq Owners /\ roomWs \in BOOLEAN
    /\ badge \in 0..MaxPlaces /\ pub \in BOOLEAN
    /\ live \in BOOLEAN /\ owner \in Owners \cup {NoOne}
    /\ granted \in BOOLEAN
    /\ seen \in [Browsers -> 0..MaxFrames]
    /\ outq \in Seq(0..MaxPlaces) /\ Len(outq) <= OutMax
    /\ typed \in Drive!InFrame \cup {Drive!NoFrame}

\* While there is a publisher socket, the driver in force is the last one in
\* the out queue or, once it has left the queue, on the badge, unless its place
\* is gone.
DriverAnnounced ==
    pub /\ effective # 0 =>
        IF outq = <<>>
        THEN badge = effective \/ \A b \in Browsers : place[b] # effective
        ELSE outq[Len(outq)] = effective

BadgeInv == IInv /\ PlaceInv /\ RestInv /\ DriverAnnounced

LEMMA BadgeStart ==
    ASSUME Bounds, RoomToSend, Drive!Init
    PROVE  BadgeInv
<1>1. IInv
  BY Start
<1>2. PlaceInv
  BY DEF Drive!Init, Bounds, PlaceInv, Drive!Vids
<1>3. RestInv
  <2>1. outq \in Seq(0..MaxPlaces) /\ Len(outq) <= OutMax
    BY DEF Drive!Init, RoomToSend
  <2>2. typed \in Drive!InFrame \cup {Drive!NoFrame}
    BY DEF Drive!Init
  <2>3. seen \in [Browsers -> 0..MaxFrames] /\ badge \in 0..MaxPlaces
    BY DEF Drive!Init, Bounds
  <2> QED
    BY <2>1, <2>2, <2>3 DEF Drive!Init, RestInv
<1>4. DriverAnnounced
  BY DEF Drive!Init, DriverAnnounced
<1> QED
  BY <1>1, <1>2, <1>3, <1>4 DEF BadgeInv

\* More viewer ids only allow more.
LEMMA SentGrows ==
    ASSUME NEW n \in Nat, NEW m \in Nat, n <= m, NEW s \in Seq(Sent(n)), Bounds
    PROVE  s \in Seq(Sent(m))
<1>1. Sent(n) \subseteq Sent(m)
  BY DEF Sent, Drive!UpFrame, Drive!InFrame, Drive!Vids, Bounds
<1> QED
  BY <1>1

\* What the gates can become: a driver that changed is last in the queue.
GateMove ==
    /\ granted' \in BOOLEAN
    /\ outq' \in Seq(0..MaxPlaces) /\ Len(outq') <= OutMax
    /\ approved' <= minted /\ effective' \in 0..minted
    /\ \/ effective' = effective /\ outq' = outq
       \/ outq' # <<>> /\ outq'[Len(outq')] = effective'

\* A new frame is the last of the queue, whatever was dropped for it.
LEMMA EnqueueFacts ==
    ASSUME RoomToSend, NEW S, NEW q \in Seq(S), Len(q) <= OutMax, NEW v \in S
    PROVE  /\ Drive!Enqueue(q, v) \in Seq(S) /\ Len(Drive!Enqueue(q, v)) <= OutMax
           /\ Drive!Enqueue(q, v) # <<>>
           /\ Drive!Enqueue(q, v)[Len(Drive!Enqueue(q, v))] = v
<1>1. CASE Len(q) < OutMax
  BY <1>1 DEF Drive!Enqueue, RoomToSend
<1>2. CASE ~(Len(q) < OutMax)
  <2>1. q # <<>> /\ Len(q) = OutMax
    BY <1>2 DEF RoomToSend
  <2>2. Tail(q) \in Seq(S) /\ Len(Tail(q)) = Len(q) - 1
    BY <2>1
  <2>3. Drive!Enqueue(q, v) = Append(Tail(q), v)
    BY <1>2 DEF Drive!Enqueue
  <2> DEFINE t == Tail(q)
  <2> HIDE DEF t
  <2>4. Len(t) \in Nat /\ t \in Seq(S) /\ Len(t) + 1 <= OutMax
    BY <2>1, <2>2 DEF t, RoomToSend
  <2> QED
    BY <2>3, <2>4 DEF t
<1> QED
  BY <1>1, <1>2

LEMMA DecideMoves ==
    ASSUME Bounds, RoomToSend, BadgeInv, NEW g \in BOOLEAN, NEW a \in 0..minted,
           NEW p, NEW was, Drive!Decide(g, a, p, was), was = effective \/ was = 0
    PROVE  /\ granted' \in BOOLEAN
           /\ outq' \in Seq(0..MaxPlaces) /\ Len(outq') <= OutMax
           /\ approved' <= minted /\ effective' \in 0..minted
           /\ \/ effective' = was /\ outq' = outq
              \/ outq' # <<>> /\ outq'[Len(outq')] = effective'
<1> DEFINE now == IF g THEN a ELSE 0
<1>1. minted \in Nat /\ minted <= MaxPlaces /\ MaxPlaces \in Nat
  BY DEF BadgeInv, IInv, RelayInv, Bounds
<1>2. now \in 0..minted /\ now \in 0..MaxPlaces
  BY <1>1
<1>3. /\ granted' = g /\ approved' = a /\ effective' = now
      /\ outq' = IF now # was THEN Drive!Enqueue(outq, now) ELSE outq
  BY DEF Drive!Decide
<1>4. outq \in Seq(0..MaxPlaces) /\ Len(outq) <= OutMax
  BY DEF BadgeInv, RestInv
<1> HIDE DEF now
<1>5. CASE now = was
  BY <1>1, <1>2, <1>3, <1>4, <1>5
<1>6. CASE now # was
  <2>1. outq' = Drive!Enqueue(outq, now)
    BY <1>3, <1>6
  <2>2. /\ outq' \in Seq(0..MaxPlaces) /\ Len(outq') <= OutMax
        /\ outq' # <<>> /\ outq'[Len(outq')] = now
    BY <1>2, <1>4, <2>1, EnqueueFacts
  <2> QED
    BY <1>1, <1>2, <1>3, <2>2
<1> QED
  BY <1>5, <1>6

LEMMA KeptMove ==
    ASSUME BadgeInv, UNCHANGED Drive!gates
    PROVE  GateMove
BY DEF BadgeInv, PlaceInv, RestInv, GateMove, Drive!gates

LEMMA AllowMoves ==
    ASSUME Bounds, RoomToSend, BadgeInv, NEW v \in Drive!Vids, Drive!ApplyAllow(v)
    PROVE  GateMove
<1>1. CASE bound[v] = NoOne
  BY <1>1, KeptMove DEF Drive!ApplyAllow
<1>2. CASE bound[v] # NoOne
  <2>1. v \in 0..minted /\ granted \in BOOLEAN
    BY <1>2 DEF BadgeInv, PlaceInv, RestInv, IInv, RelayInv, Drive!Vids, Bounds
  <2> QED
    BY <1>2, <2>1, DecideMoves DEF Drive!ApplyAllow, GateMove
<1> QED
  BY <1>1, <1>2

LEMMA RevokeMoves ==
    ASSUME Bounds, RoomToSend, BadgeInv, Drive!ApplyRevoke
    PROVE  GateMove
<1>1. 0 \in 0..minted /\ granted \in BOOLEAN
  BY DEF BadgeInv, RestInv, IInv, RelayInv, Bounds
<1> QED
  BY <1>1, DecideMoves DEF Drive!ApplyRevoke, GateMove

\* Gate A opening or closing.
LEMMA GrantMoves ==
    ASSUME Bounds, RoomToSend, BadgeInv, NEW g \in BOOLEAN,
           Drive!Decide(g, approved, pinned, effective)
    PROVE  GateMove
<1>1. approved \in 0..minted
  BY DEF BadgeInv, PlaceInv, IInv, RelayInv, GateInv, Bounds
<1> QED
  BY <1>1, DecideMoves DEF GateMove

\* A step of the publisher leaves the relay's rooms and its badge alone.
LEMMA PublisherStep ==
    ASSUME Bounds, BadgeInv, IInv', GateMove,
           UNCHANGED <<place, minted, badge, pub, running>>,
           up' \in Seq(Sent(minted)),
           \A v \in Drive!Vids : bound'[v] # NoOne => v <= minted,
           roomWs' \in BOOLEAN, live' \in BOOLEAN, owner' \in Owners \cup {NoOne},
           seen' \in [Browsers -> 0..MaxFrames],
           typed' \in Drive!InFrame \cup {Drive!NoFrame}
    PROVE  BadgeInv'
<1>1. PlaceInv'
  BY DEF BadgeInv, PlaceInv, GateMove
<1>2. RestInv'
  BY DEF BadgeInv, RestInv, GateMove
<1>3. DriverAnnounced'
  BY DEF BadgeInv, DriverAnnounced, GateMove
<1> QED
  BY <1>1, <1>2, <1>3 DEF BadgeInv

----------------------------------------------------------------------------
(* Every step keeps the badge right. *)

LEMMA RoomBadge ==
    ASSUME BadgeInv, IInv', Bounds,
           UNCHANGED <<Drive!relay, Drive!gates, Drive!session, Drive!identity,
                       Drive!pages>>,
           running' \subseteq Owners, roomWs' \in BOOLEAN
    PROVE  BadgeInv'
<1>1. PlaceInv'
  BY DEF BadgeInv, PlaceInv, Drive!relay, Drive!gates, Drive!identity
<1>2. RestInv'
  BY DEF BadgeInv, RestInv, Drive!relay, Drive!gates, Drive!session, Drive!identity,
         Drive!pages
<1>3. DriverAnnounced'
  BY DEF BadgeInv, DriverAnnounced, Drive!relay, Drive!gates
<1> QED
  BY <1>1, <1>2, <1>3 DEF BadgeInv

LEMMA RoomLostBadge ==
    ASSUME Bounds, RoomToSend, BadgeInv, IInv', Drive!RoomLost
    PROVE  BadgeInv'
<1>1. /\ Drive!Decide(FALSE, approved, pinned, effective) /\ roomWs' = FALSE
      /\ UNCHANGED <<running, Drive!relay, Drive!session, Drive!identity, Drive!pages>>
  BY DEF Drive!RoomLost
<1>2. GateMove
  BY <1>1, GrantMoves
<1> QED
  BY <1>1, <1>2, PublisherStep
     DEF BadgeInv, PlaceInv, RestInv, Drive!relay, Drive!session, Drive!identity,
         Drive!pages

LEMMA RoomFrameBadge ==
    ASSUME Bounds, RoomToSend, BadgeInv, IInv', Drive!RoomFrameIn
    PROVE  BadgeInv'
<1> DEFINE f == Head(roomq)
<1>1. f \in Drive!RoomFrame
  BY HeadAndTail DEF BadgeInv, IInv, ConsoleInv, Drive!RoomFrameIn
<1>2. UNCHANGED <<running, roomWs, Drive!relay, Drive!identity, Drive!pages>>
  BY DEF Drive!RoomFrameIn
<1>a. /\ f.kind \in {"allow", "deny"} => f.vid \in Drive!Vids
      /\ f.kind = "acl" => f.by \in Owners /\ f.has \in BOOLEAN
  BY <1>1 DEF Drive!RoomFrame
<1>3. \/ f.kind = "alive" /\ Drive!SetLive(TRUE)
      \/ f.kind = "stopped" /\ Drive!SetLive(FALSE)
      \/ f.kind = "acl" /\ Drive!TakeAcl(f)
      \/ f.kind \in {"allow", "deny"} /\ Drive!TakeCommand(f)
  BY DEF Drive!RoomFrameIn
<1>b. live \in BOOLEAN /\ owner \in Owners \cup {NoOne}
  BY DEF BadgeInv, RestInv
<1> HIDE DEF f
<1>4. ASSUME NEW now \in BOOLEAN, Drive!SetLive(now)
      PROVE  GateMove /\ live' \in BOOLEAN /\ owner' \in Owners \cup {NoOne}
  BY <1>b, <1>4, GrantMoves, KeptMove DEF Drive!SetLive
<1>5. ASSUME f.kind = "acl", Drive!TakeAcl(f)
      PROVE  GateMove /\ live' \in BOOLEAN /\ owner' \in Owners \cup {NoOne}
  BY <1>a, <1>b, <1>5, GrantMoves, KeptMove DEF Drive!TakeAcl
<1>6. ASSUME f.kind \in {"allow", "deny"}, Drive!TakeCommand(f)
      PROVE  GateMove /\ live' \in BOOLEAN /\ owner' \in Owners \cup {NoOne}
  <2>1. Drive!ApplyAllow(f.vid) \/ Drive!ApplyRevoke \/ UNCHANGED Drive!gates
    BY <1>6 DEF Drive!TakeCommand
  <2>2. UNCHANGED <<live, owner>>
    BY <1>6 DEF Drive!TakeCommand, Drive!session
  <2> QED
    BY <1>a, <1>b, <1>6, <2>1, <2>2, AllowMoves, RevokeMoves, KeptMove
<1>7. GateMove /\ live' \in BOOLEAN /\ owner' \in Owners \cup {NoOne}
  BY <1>3, <1>4, <1>5, <1>6
<1> QED
  BY <1>2, <1>7, PublisherStep
     DEF BadgeInv, PlaceInv, RestInv, Drive!relay, Drive!identity, Drive!pages

LEMMA ConsoleBadge ==
    ASSUME Bounds, RoomToSend, BadgeInv, IInv',
           Drive!ConsoleRevoke \/ \E v \in 1..minted : Drive!ConsoleAllow(v)
    PROVE  BadgeInv'
<1>1. UNCHANGED <<Drive!room, Drive!relay, Drive!session, Drive!identity, Drive!pages>>
  BY DEF Drive!ConsoleRevoke, Drive!ConsoleAllow
<1>2. \A v \in 1..minted : v \in Drive!Vids
  BY DEF BadgeInv, IInv, RelayInv, Drive!Vids, Bounds
<1>3. GateMove
  BY <1>2, AllowMoves, RevokeMoves DEF Drive!ConsoleRevoke, Drive!ConsoleAllow
<1> QED
  BY <1>1, <1>3, PublisherStep
     DEF BadgeInv, PlaceInv, RestInv, Drive!room, Drive!relay, Drive!session,
         Drive!identity, Drive!pages

LEMMA RelayFrameBadge ==
    ASSUME Bounds, RoomToSend, BadgeInv, IInv', Drive!RelayFrameIn
    PROVE  BadgeInv'
<1> DEFINE f == Head(up)
<1>1. f \in Sent(minted) /\ up' \in Seq(Sent(minted))
  BY HeadAndTail DEF BadgeInv, PlaceInv, Drive!RelayFrameIn
<1>2. /\ UNCHANGED <<Drive!room, place, minted, on, badge, pub, Drive!session, clock>>
      /\ \/ f.kind = "in" /\ Drive!ForwardInput(f)
         \/ f.kind \in {"release", "left"} /\ Drive!Released(f)
         \/ f.kind = "allow" /\ Drive!ApplyAllow(f.vid) /\ UNCHANGED <<Drive!identity,
                                                                       typed>>
         \/ f.kind = "revoke" /\ Drive!ApplyRevoke /\ UNCHANGED <<Drive!identity, typed>>
  BY DEF Drive!RelayFrameIn
<1> HIDE DEF f
<1>3. /\ f.kind # "revoke" => f.vid \in Drive!Vids
      /\ f.kind = "in" => /\ f \in Drive!InFrame /\ f.vsid \in Browsers
                          /\ f.ctr \in 1..MaxFrames /\ f.vid <= minted
  BY <1>1 DEF Sent, Drive!UpFrame, Drive!InFrame
<1>4. /\ \A v \in Drive!Vids : bound[v] # NoOne => v <= minted
      /\ bound \in [Drive!Vids -> Browsers \cup {NoOne}]
      /\ seen \in [Browsers -> 0..MaxFrames] /\ typed \in Drive!InFrame \cup {Drive!NoFrame}
  BY DEF BadgeInv, PlaceInv, RestInv, IInv, GateInv
<1> DEFINE Goal == /\ GateMove
                   /\ \A v \in Drive!Vids : bound'[v] # NoOne => v <= minted
                   /\ seen' \in [Browsers -> 0..MaxFrames]
                   /\ typed' \in Drive!InFrame \cup {Drive!NoFrame}
<1>5. ASSUME f.kind = "in" /\ Drive!ForwardInput(f)
      PROVE  Goal
  <2>1. GateMove
    BY <1>5, KeptMove DEF Drive!ForwardInput
  <2>2. \A v \in Drive!Vids : bound'[v] # NoOne => v <= minted
    BY <1>3, <1>4, <1>5 DEF Drive!ForwardInput, Drive!identity
  <2>3. seen' \in [Browsers -> 0..MaxFrames]
    BY <1>3, <1>4, <1>5 DEF Drive!ForwardInput, Drive!identity, Bounds
  <2>4. typed' \in Drive!InFrame \cup {Drive!NoFrame}
    BY <1>3, <1>4, <1>5 DEF Drive!ForwardInput, Drive!identity
  <2> QED
    BY <2>1, <2>2, <2>3, <2>4
<1>6. ASSUME f.kind \in {"release", "left"} /\ Drive!Released(f)
      PROVE  Goal
  <2>1. GateMove
    BY <1>6, RevokeMoves, KeptMove DEF Drive!Released
  <2>2. \A v \in Drive!Vids : bound'[v] # NoOne => v <= minted
    BY <1>3, <1>4, <1>6 DEF Drive!Released
  <2> QED
    BY <1>4, <1>6, <2>1, <2>2 DEF Drive!Released
<1>7. ASSUME f.kind = "allow" /\ Drive!ApplyAllow(f.vid) /\ UNCHANGED <<Drive!identity,
                                                                        typed>>
      PROVE  Goal
  BY <1>3, <1>4, <1>7, AllowMoves DEF Drive!identity
<1>8. ASSUME f.kind = "revoke" /\ Drive!ApplyRevoke /\ UNCHANGED <<Drive!identity, typed>>
      PROVE  Goal
  BY <1>4, <1>8, RevokeMoves DEF Drive!identity
<1>9. Goal
  BY <1>2, <1>5, <1>6, <1>7, <1>8
<1> QED
  BY <1>1, <1>2, <1>9, PublisherStep
     DEF BadgeInv, RestInv, Drive!room, Drive!session

\* What the relay says to the publisher names viewer ids it has minted.
LEMMA NotifySent ==
    ASSUME up \in Seq(Sent(minted)), NEW frames \in Seq(Sent(minted)), Drive!Notify(frames)
    PROVE  up' \in Seq(Sent(minted))
<1>1. up \o frames \in Seq(Sent(minted))
  BY Joined
<1>2. up' \in {up, up \o frames}
  BY DEF Drive!Notify
<1> QED
  BY <1>1, <1>2

LEMMA BrowserBadge ==
    ASSUME Bounds, RoomToSend, BadgeInv, IInv',
           \/ Drive!HostCommand
           \/ \E b \in Browsers : Drive!Enter(b) \/ Drive!Leave(b) \/ Drive!Evict(b)
                                  \/ Drive!SendInput(b)
                                           \/ Drive!ReleaseDrive(b)
    PROVE  BadgeInv'
<1>0. /\ minted \in Nat /\ minted <= MaxPlaces /\ up \in Seq(Sent(minted))
      /\ place \in [Browsers -> 0..MaxPlaces] /\ clock \in [Browsers -> 0..MaxFrames]
      /\ MaxPlaces \in Nat /\ MaxFrames \in Nat
      /\ \A b \in Browsers : place[b] <= minted
      /\ \A b \in Browsers : on[b] => place[b] # 0
      /\ effective \in 0..minted /\ approved \in 0..minted
  BY DEF BadgeInv, PlaceInv, IInv, RelayInv, GateInv, Bounds
<1>1. /\ UNCHANGED <<running, roomWs, pub, Drive!gates, Drive!session, Drive!identity,
                     typed>>
  BY DEF Drive!HostCommand, Drive!Enter, Drive!Leave, Drive!Evict, Drive!SendInput,
         Drive!ReleaseDrive, Drive!room, Drive!pages
<1>2. ASSUME UNCHANGED <<place, minted, badge>>, up' \in Seq(Sent(minted))
      PROVE  BadgeInv'
  <2>1. GateMove
    BY <1>1, KeptMove
  <2> QED
    BY <1>1, <1>2, <2>1, PublisherStep
       DEF BadgeInv, PlaceInv, RestInv, Drive!session, Drive!identity
<1>3. CASE Drive!HostCommand
  <2>1. ASSUME NEW v \in 1..minted
        PROVE  <<[kind |-> "allow", vid |-> v]>> \in Seq(Sent(minted))
    <3>1. v \in Drive!Vids
      BY <1>0 DEF Drive!Vids
    <3> QED
      BY <3>1 DEF Sent, Drive!UpFrame
  <2>2. <<[kind |-> "revoke"]>> \in Seq(Sent(minted))
    BY DEF Sent, Drive!UpFrame
  <2>3. up' \in Seq(Sent(minted))
    BY <1>0, <1>3, <2>1, <2>2, NotifySent DEF Drive!HostCommand
  <2> QED
    BY <1>2, <1>3, <2>3 DEF Drive!HostCommand
<1>4. ASSUME NEW b \in Browsers, Drive!Enter(b)
      PROVE  BadgeInv'
  <2>1. UNCHANGED <<up, badge>>
    BY <1>4 DEF Drive!Enter
  <2>2. CASE UNCHANGED <<place, minted>>
    BY <1>0, <1>2, <2>1, <2>2
  <2>3. CASE /\ place[b] = 0 /\ minted < MaxPlaces
             /\ minted' = minted + 1 /\ place' = [place EXCEPT ![b] = minted']
    <3>1. /\ \A c \in Browsers : place'[c] = IF c = b THEN minted + 1 ELSE place[c]
          /\ minted' \in Nat /\ minted <= minted'
      BY <1>0, <2>3
    <3>2. up' \in Seq(Sent(minted'))
      BY <1>0, <2>1, <3>1, SentGrows
    <3>3. PlaceInv'
      <4>1. \A c \in Browsers : place'[c] <= minted'
        BY <1>0, <2>3, <3>1
      <4>2. \A c, d \in Browsers : place'[c] = place'[d] /\ place'[c] # 0 => c = d
        BY <1>0, <3>1 DEF BadgeInv, PlaceInv
      <4>3. \A v \in Drive!Vids : bound'[v] # NoOne => v <= minted'
        BY <1>0, <1>1, <2>3 DEF BadgeInv, PlaceInv, Drive!identity, Drive!Vids
      <4>4. approved' <= minted' /\ effective' \in 0..minted'
        BY <1>0, <1>1, <2>3 DEF Drive!gates
      <4> QED
        BY <3>2, <4>1, <4>2, <4>3, <4>4 DEF PlaceInv
    <3>4. RestInv'
      BY <1>1, <2>1 DEF BadgeInv, RestInv, Drive!gates, Drive!session, Drive!identity
    <3>5. effective # minted + 1
      BY <1>0
    <3>6. DriverAnnounced'
      <4>1. \A c \in Browsers : place[c] # effective => place'[c] # effective
        BY <3>1, <3>5
      <4> QED
        BY <1>1, <2>1, <4>1 DEF BadgeInv, DriverAnnounced, Drive!gates
    <3> QED
      BY <3>3, <3>4, <3>6 DEF BadgeInv
  <2> QED
    BY <1>4, <2>2, <2>3 DEF Drive!Enter
<1>5. ASSUME NEW b \in Browsers, Drive!Leave(b)
      PROVE  BadgeInv'
  BY <1>0, <1>2, <1>5 DEF Drive!Leave
<1>6. ASSUME NEW b \in Browsers, Drive!Evict(b)
      PROVE  BadgeInv'
  <2>1. /\ place[b] # 0 /\ place' = [place EXCEPT ![b] = 0] /\ minted' = minted
        /\ badge' = IF badge = place[b] THEN 0 ELSE badge
        /\ \E frames : /\ Drive!Notify(frames)
                       /\ frames = (IF badge = place[b]
                                    THEN <<[kind |-> "release", vid |-> place[b]]>>
                                    ELSE <<>>)
                                   \o <<[kind |-> "left", vid |-> place[b]]>>
    BY <1>6 DEF Drive!Evict
  <2>2. place[b] \in Drive!Vids
    BY <1>0, <2>1 DEF Drive!Vids
  <2>3. /\ <<[kind |-> "release", vid |-> place[b]]>> \in Seq(Sent(minted))
        /\ <<[kind |-> "left", vid |-> place[b]]>> \in Seq(Sent(minted))
    BY <2>2 DEF Sent, Drive!UpFrame
  <2>4. (IF badge = place[b] THEN <<[kind |-> "release", vid |-> place[b]]>>
                             ELSE <<>>) \in Seq(Sent(minted))
    BY <2>3
  <2>5. up' \in Seq(Sent(minted))
    BY <1>0, <2>1, <2>3, <2>4, Joined, NotifySent
  <2>6. \A c \in Browsers : place'[c] = IF c = b THEN 0 ELSE place[c]
    BY <1>0, <2>1
  <2>7. PlaceInv'
    <3>1. \A c \in Browsers : place'[c] <= minted'
      BY <1>0, <2>1, <2>6
    <3>2. \A c, d \in Browsers : place'[c] = place'[d] /\ place'[c] # 0 => c = d
      BY <2>6 DEF BadgeInv, PlaceInv
    <3> QED
      BY <1>1, <2>1, <2>5, <3>1, <3>2 DEF BadgeInv, PlaceInv, Drive!gates, Drive!identity
  <2>8. RestInv'
    <3>1. badge' \in 0..MaxPlaces
      BY <1>0, <2>1 DEF BadgeInv, RestInv
    <3> QED
      BY <1>1, <3>1 DEF BadgeInv, RestInv, Drive!gates, Drive!session, Drive!identity
  <2>9. DriverAnnounced'
    <3>1. \A c \in Browsers : place[c] # effective /\ effective # 0 =>
                                  place'[c] # effective
      BY <2>6
    <3>2. badge = effective /\ badge' # effective /\ effective # 0 =>
              \A c \in Browsers : place'[c] # effective
      BY <2>1, <2>6 DEF BadgeInv, PlaceInv
    <3> QED
      BY <1>1, <3>1, <3>2 DEF BadgeInv, DriverAnnounced, Drive!gates
  <2> QED
    BY <2>7, <2>8, <2>9 DEF BadgeInv
<1>7. ASSUME NEW b \in Browsers, Drive!SendInput(b)
      PROVE  BadgeInv'
  <2>1. place[b] \in Drive!Vids /\ clock[b] + 1 \in 1..MaxFrames /\ place[b] <= minted
    BY <1>0, <1>7 DEF Drive!SendInput, Drive!Vids
  <2>2. ASSUME NEW key \in BOOLEAN
        PROVE  <<[kind |-> "in", vid |-> place[b], vsid |-> b, ctr |-> clock[b] + 1,
                  key |-> key]>> \in Seq(Sent(minted))
    <3>1. [kind |-> "in", vid |-> place[b], vsid |-> b, ctr |-> clock[b] + 1, key |-> key]
            \in Drive!InFrame
      BY <2>1 DEF Drive!InFrame
    <3> QED
      BY <2>1, <3>1 DEF Sent, Drive!UpFrame
  <2>3. up' \in Seq(Sent(minted))
    BY <1>0, <1>7, <2>2, NotifySent DEF Drive!SendInput
  <2> QED
    BY <1>2, <1>7, <2>3 DEF Drive!SendInput
<1>8. ASSUME NEW b \in Browsers, Drive!ReleaseDrive(b)
      PROVE  BadgeInv'
  <2>1. place[b] \in Drive!Vids
    BY <1>0, <1>8 DEF Drive!ReleaseDrive, Drive!Vids
  <2>2. <<[kind |-> "release", vid |-> place[b]]>> \in Seq(Sent(minted))
    BY <2>1 DEF Sent, Drive!UpFrame
  <2>3. up' \in Seq(Sent(minted))
    BY <1>0, <1>8, <2>2, NotifySent DEF Drive!ReleaseDrive
  <2> QED
    BY <1>2, <1>8, <2>3 DEF Drive!ReleaseDrive
<1> QED
  BY <1>3, <1>4, <1>5, <1>6, <1>7, <1>8

LEMMA SocketBadge ==
    ASSUME Bounds, RoomToSend, BadgeInv, IInv',
           Drive!Drain \/ Drive!Cut \/ Drive!Connect \/ Drive!Reprovision
    PROVE  BadgeInv'
<1>0. /\ minted \in Nat /\ minted <= MaxPlaces /\ MaxPlaces \in Nat
      /\ outq \in Seq(0..MaxPlaces) /\ Len(outq) <= OutMax /\ OutMax \in Nat
      /\ approved \in 0..minted
  BY DEF BadgeInv, PlaceInv, RestInv, IInv, RelayInv, GateInv, Bounds, RoomToSend
<1>1. CASE Drive!Drain
  <2>1. /\ UNCHANGED <<Drive!room, place, minted, on, pub, up, granted, approved, pinned,
                       effective, Drive!session, Drive!identity, Drive!pages>>
        /\ outq # <<>> /\ outq' = Tail(outq)
        /\ badge' = IF \E b \in Browsers : place[b] = Head(outq) THEN Head(outq) ELSE 0
    BY <1>1 DEF Drive!Drain
  <2>2. /\ Head(outq) \in 0..MaxPlaces /\ outq' \in Seq(0..MaxPlaces)
        /\ Len(outq') = Len(outq) - 1 /\ Head(outq) = outq[1]
        /\ Len(outq) \in Nat /\ Len(outq) # 0
        /\ \A k \in 1..Len(outq) - 1 : outq'[k] = outq[k + 1]
    BY <1>0, <2>1
  <2>3. PlaceInv'
    BY <2>1 DEF BadgeInv, PlaceInv, Drive!identity
  <2>4. RestInv'
    <3>1. badge' \in 0..MaxPlaces
      BY <1>0, <2>1, <2>2
    <3>2. Len(outq') <= OutMax
      BY <1>0, <2>2
    <3> QED
      BY <2>1, <2>2, <3>1, <3>2 DEF BadgeInv, RestInv, Drive!room, Drive!session,
                                    Drive!identity, Drive!pages
  <2>5. DriverAnnounced'
    <3>1. SUFFICES ASSUME pub, effective # 0
                   PROVE  IF outq' = <<>>
                          THEN badge' = effective \/ \A b \in Browsers : place[b] # effective
                          ELSE outq'[Len(outq')] = effective
      BY <2>1 DEF DriverAnnounced
    <3>2. outq[Len(outq)] = effective
      BY <2>1, <3>1 DEF BadgeInv, DriverAnnounced
    <3>3. CASE outq' = <<>>
      <4>1. Len(outq) = 1
        BY <2>2, <3>3
      <4>2. Head(outq) = effective
        BY <2>2, <3>2, <4>1
      <4> QED
        BY <2>1, <3>3, <4>2
    <3>4. CASE outq' # <<>>
      <4>1. Len(outq') # 0
        BY <2>2, <3>4
      <4>2. Len(outq') \in 1..Len(outq) - 1 /\ Len(outq') + 1 = Len(outq)
        BY <2>2, <4>1
      <4> QED
        BY <2>2, <3>2, <3>4, <4>2
    <3> QED
      BY <3>3, <3>4
  <2> QED
    BY <2>3, <2>4, <2>5 DEF BadgeInv
<1>2. CASE Drive!Cut
  <2>1. /\ UNCHANGED <<Drive!room, place, minted, on, badge, granted, approved, pinned,
                       effective, Drive!session, Drive!identity, Drive!pages>>
        /\ pub' = FALSE /\ up' = <<>>
        /\ \E n \in 0..Len(outq) : outq' = SubSeq(outq, n + 1, Len(outq))
    BY <1>2 DEF Drive!Cut
  <2>2. PICK n \in 0..Len(outq) : outq' = SubSeq(outq, n + 1, Len(outq))
    BY <2>1
  <2>3. outq' \in Seq(0..MaxPlaces) /\ Len(outq') <= OutMax
    BY <1>0, <2>2
  <2>4. PlaceInv'
    BY <2>1 DEF BadgeInv, PlaceInv, Drive!identity
  <2>5. RestInv'
    BY <2>1, <2>3 DEF BadgeInv, RestInv, Drive!room, Drive!session, Drive!identity,
                      Drive!pages
  <2>6. DriverAnnounced'
    BY <2>1 DEF DriverAnnounced
  <2> QED
    BY <2>4, <2>5, <2>6 DEF BadgeInv
<1>3. CASE Drive!Connect
  <2>1. /\ UNCHANGED <<Drive!room, place, minted, on, badge, up, Drive!session,
                       Drive!identity, Drive!pages>>
        /\ pub' = TRUE /\ Drive!Decide(granted, approved, pinned, 0)
    BY <1>3 DEF Drive!Connect
  <2>2. granted \in BOOLEAN
    BY DEF BadgeInv, RestInv
  <2>3. /\ granted' \in BOOLEAN
        /\ outq' \in Seq(0..MaxPlaces) /\ Len(outq') <= OutMax
        /\ approved' <= minted /\ effective' \in 0..minted
        /\ \/ effective' = 0 /\ outq' = outq
           \/ outq' # <<>> /\ outq'[Len(outq')] = effective'
    BY <1>0, <2>1, <2>2, DecideMoves
  <2>4. PlaceInv'
    BY <2>1, <2>3 DEF BadgeInv, PlaceInv, Drive!identity
  <2>5. RestInv'
    BY <2>1, <2>3 DEF BadgeInv, RestInv, Drive!room, Drive!session, Drive!identity,
                      Drive!pages
  <2>6. DriverAnnounced'
    BY <2>3 DEF DriverAnnounced
  <2> QED
    BY <2>4, <2>5, <2>6 DEF BadgeInv
<1>4. CASE Drive!Reprovision
  <2>1. /\ UNCHANGED <<Drive!room, minted, pub, up, granted, outq, Drive!session,
                       Drive!pages>>
        /\ place' = [b \in Browsers |-> 0] /\ badge' = 0
        /\ approved' = 0 /\ effective' = 0
        /\ bound' = [v \in Drive!Vids |-> NoOne] /\ seen' = [b \in Browsers |-> 0]
    BY <1>4 DEF Drive!Reprovision
  <2>2. PlaceInv'
    BY <1>0, <2>1 DEF BadgeInv, PlaceInv
  <2>3. RestInv'
    BY <2>1 DEF BadgeInv, RestInv, Drive!room, Drive!session, Drive!pages, Bounds
  <2>4. DriverAnnounced'
    BY <2>1 DEF DriverAnnounced
  <2> QED
    BY <2>2, <2>3, <2>4 DEF BadgeInv
<1> QED
  BY <1>1, <1>2, <1>3, <1>4

LEMMA BadgeStep ==
    ASSUME Bounds, RoomToSend, BadgeInv, [Drive!Next]_(Drive!vars)
    PROVE  BadgeInv'
<1>0. IInv'
  BY Step DEF BadgeInv
<1>1. CASE UNCHANGED Drive!vars
  <2>1. UNCHANGED <<Drive!relay, Drive!gates, Drive!session, Drive!identity, Drive!pages,
                    running, roomWs>>
    BY <1>1 DEF Drive!vars, Drive!room
  <2> QED
    BY <1>0, <2>1, RoomBadge DEF BadgeInv, RestInv
<1>2. ASSUME NEW o \in Owners,
             \/ Drive!Summon(o) \/ Drive!Output(o) \/ Drive!Grant(o) \/ Drive!Stop(o)
             \/ \E v \in 1..minted : Drive!Command(o, v)
      PROVE  BadgeInv'
  <2>1. /\ UNCHANGED <<Drive!relay, Drive!gates, Drive!session, Drive!identity,
                       Drive!pages>>
        /\ running' \subseteq Owners /\ roomWs' \in BOOLEAN
    BY <1>2 DEF BadgeInv, RestInv, Drive!Summon, Drive!Output, Drive!Grant, Drive!Stop,
                Drive!Command
  <2> QED
    BY <1>0, <2>1, RoomBadge
<1>3. CASE Drive!RoomRejoined
  <2>1. /\ UNCHANGED <<Drive!relay, Drive!gates, Drive!session, Drive!identity,
                       Drive!pages>>
        /\ running' \subseteq Owners /\ roomWs' \in BOOLEAN
    BY <1>3 DEF BadgeInv, RestInv, Drive!RoomRejoined
  <2> QED
    BY <1>0, <2>1, RoomBadge
<1> QED
  BY <1>0, <1>1, <1>2, <1>3, RoomLostBadge, RoomFrameBadge, ConsoleBadge, BrowserBadge,
     RelayFrameBadge, SocketBadge DEF Drive!Next

LEMMA BadgeShown ==
    ASSUME Bounds, BadgeInv
    PROVE  Drive!TypeOK /\ Drive!DriverShown
<1>1. Drive!TypeOK
  <2>1. effective \in 0..MaxPlaces
    BY DEF BadgeInv, PlaceInv, IInv, RelayInv, Bounds
  <2> QED
    BY <2>1 DEF BadgeInv, IInv, RelayInv, ConsoleInv, GateInv, RestInv, Drive!TypeOK
<1>2. Drive!DriverShown
  BY DEF BadgeInv, DriverAnnounced, Drive!DriverShown, Drive!Settled
<1> QED
  BY <1>1, <1>2

----------------------------------------------------------------------------
(* The theorems. *)

\* Steps of the composition are steps of the drive, or leave it alone.
LEMMA DriveSteps ==
    /\ MCInit => Drive!Init
    /\ [MCNext]_<<part, vars, driveVars>> => [Drive!Next]_(Drive!vars)
<1>1. MCInit => Drive!Init
  BY DEF MCInit
<1>2. UNCHANGED driveVars => UNCHANGED Drive!vars
  BY DEF driveVars, Drive!vars, Drive!room, Drive!relay, Drive!gates, Drive!session,
         Drive!identity, Drive!pages
<1>3. ASSUME [MCNext]_<<part, vars, driveVars>>
      PROVE  [Drive!Next]_(Drive!vars)
  <2>1. CASE MCNext
    BY <1>2, <2>1 DEF MCNext
  <2>2. CASE UNCHANGED <<part, vars, driveVars>>
    BY <1>2, <2>2
  <2> QED
    BY <1>3, <2>1, <2>2
<1> QED
  BY <1>1, <1>3

\* Whatever is granted, approved, revoked, lost, reordered between the console,
\* the room and the relay, or provisioned anew, a keystroke reaches the room
\* only from the place approved at that moment, with the owner's grant
\* (publisher.py _forward_input, _apply_allow, _bind_vsid).
THEOREM KeysFromTheApprovedPlace ==
    ASSUME Bounds
    PROVE  MCSpec => DrivesFromApproved
<1>1. MCInit => IInv
  BY Start, DriveSteps
<1>2. IInv /\ [MCNext]_<<part, vars, driveVars>> => IInv'
  BY Step, DriveSteps
<1>3. IInv /\ [MCNext]_<<part, vars, driveVars>> =>
          [typed' # typed => granted /\ typed'.vid = approved]_(Drive!vars)
  BY TypesFromApproved, DriveSteps
<1> QED
  BY <1>1, <1>2, <1>3, PTL DEF MCSpec, DrivesFromApproved, Drive!DrivesFromApproved

\* Whatever the bounded queue dropped, a cut took off it, a grace that ran out
\* or a new room made void, once nothing is under way the badge shows the
\* browser that has the drive (publisher.py _recompute_driver, _relay_loop; the
\* driver frame and _grace_evict of the relay's app.py); and every variable of
\* the drive keeps its type.
THEOREM BadgeShowsTheDriver ==
    ASSUME Bounds, RoomToSend
    PROVE  MCSpec => []DriverShown
<1>1. MCInit => BadgeInv
  BY BadgeStart, DriveSteps
<1>2. BadgeInv /\ [MCNext]_<<part, vars, driveVars>> => BadgeInv'
  BY BadgeStep, DriveSteps
<1>3. BadgeInv => DriverShown
  BY BadgeShown DEF DriverShown
<1> QED
  BY <1>1, <1>2, <1>3, PTL DEF MCSpec
=============================================================================
