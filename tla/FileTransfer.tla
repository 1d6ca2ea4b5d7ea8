---------------------------- MODULE FileTransfer ----------------------------
(***************************************************************************)
(* Files offered to a room (src/cmd_chat/client/client.py and its Rust     *)
(* twin src/hh/src/app.rs): an offer is broadcast, a member accepts, the   *)
(* offerer streams chunks to everybody, a receiver collects the ones of    *)
(* transfers it knows, checks their size and digest and saves the file.    *)
(*                                                                         *)
(* The server hands everybody the frames in one order, so a member has an  *)
(* inbox.  A member's own frames come back to it too; every handler below  *)
(* ignores them, and the echo is left out.                                 *)
(*                                                                         *)
(* A file is a sequence of Chunks pieces <<version, number>>.  It may be   *)
(* edited, or grow by one piece, after its digest was taken for the offer: *)
(* the streaming reads it again.  A digest equals another exactly when the *)
(* pieces do.                                                              *)
(***************************************************************************)
EXTENDS Naturals, Sequences, SequencesExt, FiniteSets

CONSTANTS
    Py,         \* members that run the Python client
    Tui,        \* members that run the Rust client
    Chunks,     \* pieces of a file
    Offerers,   \* members that offer files
    MaxOffers   \* bound: offers made in a behaviour

Members == Py \cup Tui
Ids == 1 .. MaxOffers       \* transfer ids, in the order of the offers
None == 0

VARIABLES
    inbox,      \* frames a member has not handled yet, in order
    offerer,    \* offerer[id]: who made the offer
    version,    \* version[id]: 0 as offered, 1 edited since, 2 grown since
    active,     \* active_send, an id or None
    sending,    \* ids a Rust member has begun to send (ActiveSend.sending)
    tasks,      \* a member's running sends, each [id, at: the next piece]
    pending_offer,  \* an id or None
    buffer,     \* received_chunks: id -> pieces collected
    accepted,   \* ids a member has said /accept to
    refused,    \* ids some member has said /reject to
    saved       \* what a member has saved: <<id, pieces>>

vars == <<inbox, offerer, version, active, sending, tasks, pending_offer, buffer,
          accepted, refused, saved>>
sendVars == <<offerer, version, active, sending, tasks>>
recvVars == <<pending_offer, buffer, accepted, refused, saved>>

Piece == (0 .. 2) \X (1 .. Chunks + 1)
Frame == [ft : {"offer", "accept", "reject", "chunk", "done"}, id : Ids,
          piece : Piece]

TypeOK ==
    /\ inbox \in [Members -> Seq(Frame)]
    /\ offerer \in Seq(Members) /\ Len(offerer) <= MaxOffers
    /\ version \in [Ids -> 0 .. 2]
    /\ active \in [Members -> Ids \cup {None}]
    /\ sending \in [Members -> SUBSET Ids]
    /\ tasks \in [Members -> Seq([id : Ids, at : 1 .. Chunks + 2])]
    /\ pending_offer \in [Members -> Ids \cup {None}]
    /\ \A m \in Members : /\ DOMAIN buffer[m] \subseteq Ids
                          /\ \A i \in DOMAIN buffer[m] :
                                /\ buffer[m][i] \in Seq(Piece)
                                /\ Len(buffer[m][i]) <= Chunks  \* the declared size
    /\ accepted \in [Members -> SUBSET Ids]
    /\ refused \in SUBSET Ids
    /\ saved \in [Members -> SUBSET (Ids \X Seq(Piece))]

Init ==
    /\ inbox = [m \in Members |-> <<>>]
    /\ offerer = <<>>
    /\ version = [i \in Ids |-> 0]
    /\ active = [m \in Members |-> None]
    /\ sending = [m \in Members |-> {}]
    /\ tasks = [m \in Members |-> <<>>]
    /\ pending_offer = [m \in Members |-> None]
    /\ buffer = [m \in Members |-> <<>>]
    /\ accepted = [m \in Members |-> {}]
    /\ refused = {}
    /\ saved = [m \in Members |-> {}]

F(ft, id) == [ft |-> ft, id |-> id, piece |-> <<0, 1>>]
Broadcast(m, f) ==
    [n \in Members |-> IF n = m THEN inbox[n] ELSE Append(inbox[n], f)]

\* What the offer promises, and how long the file is when it is read.
Offered == [k \in 1 .. Chunks |-> <<0, k>>]
Length(id) == IF version[id] = 2 THEN Chunks + 1 ELSE Chunks

Without(b, id) == [i \in DOMAIN b \ {id} |-> b[i]]
With(b, id, pieces) == [i \in DOMAIN b \cup {id} |-> IF i = id THEN pieces ELSE b[i]]

---------------------------------------------------------------------------
(* Sending. *)

\* /send: the newest offer is the only active one.
SendOffer(m) ==
    LET id == Len(offerer) + 1 IN
    /\ id \in Ids
    /\ offerer' = Append(offerer, m)
    /\ active' = [active EXCEPT ![m] = id]
    /\ inbox' = Broadcast(m, F("offer", id))
    /\ UNCHANGED <<version, sending, tasks>> /\ UNCHANGED recvVars

\* The file is written to on disk while an offer of it stands.
Edit(id) ==
    /\ id <= Len(offerer) /\ version[id] = 0
    /\ \E v \in 1 .. 2 : version' = [version EXCEPT ![id] = v]
    /\ UNCHANGED <<inbox, offerer, active, sending, tasks>> /\ UNCHANGED recvVars

\* One send of a running stream: the next piece, or the final `done`, after
\* which the Python client forgets its active offer, whichever that is by now.
StreamStep(m, k) ==
    LET id == tasks[m][k].id
        at == tasks[m][k].at
    IN  /\ IF at <= Length(id)
           THEN /\ inbox' = Broadcast(m, [ft |-> "chunk", id |-> id,
                                          piece |-> <<version[id], at>>])
                /\ tasks' = [tasks EXCEPT ![m][k].at = at + 1]
                /\ UNCHANGED active
           ELSE /\ inbox' = Broadcast(m, F("done", id))
                /\ tasks' = [tasks EXCEPT ![m] = RemoveAt(@, k)]
                /\ active' = IF m \in Py THEN [active EXCEPT ![m] = None] ELSE active
        /\ UNCHANGED <<offerer, version, sending>> /\ UNCHANGED recvVars

---------------------------------------------------------------------------
(* Handling the frame at the head of the inbox. *)

Take(m, ft) ==
    /\ inbox[m] # <<>> /\ Head(inbox[m]).ft = ft
    /\ inbox' = [inbox EXCEPT ![m] = Tail(@)]

OnOffer(m) ==
    LET id == Head(inbox[m]).id IN
    /\ Take(m, "offer")
    /\ pending_offer' = [pending_offer EXCEPT ![m] = id]
    /\ buffer' = [buffer EXCEPT ![m] = With(@, id, <<>>)]
    /\ UNCHANGED sendVars /\ UNCHANGED <<accepted, refused, saved>>

\* Every acceptance of the active offer starts a stream in Python; the Rust
\* client streams an offer once.
OnAccept(m) ==
    LET id == Head(inbox[m]).id
        starts == active[m] = id /\ (m \in Tui => id \notin sending[m])
    IN  /\ Take(m, "accept")
        /\ tasks' = IF starts THEN [tasks EXCEPT ![m] = Append(@, [id |-> id, at |-> 1])]
                    ELSE tasks
        /\ sending' = IF starts /\ m \in Tui THEN [sending EXCEPT ![m] = @ \cup {id}]
                      ELSE sending
        /\ UNCHANGED <<offerer, version, active>> /\ UNCHANGED recvVars

\* One refusal withdraws the offer; Python takes it for its own prompt as well.
OnReject(m) ==
    LET id == Head(inbox[m]).id IN
    /\ Take(m, "reject")
    /\ active' = IF active[m] = id THEN [active EXCEPT ![m] = None] ELSE active
    /\ pending_offer' = IF m \in Py /\ pending_offer[m] = id
                      THEN [pending_offer EXCEPT ![m] = None] ELSE pending_offer
    /\ UNCHANGED <<offerer, version, sending, tasks, buffer, accepted, refused, saved>>

\* Does the member collect pieces of this transfer?  Python collects what was
\* offered, Rust what it accepted.
Collects(m, id) == id \in DOMAIN buffer[m] /\ (m \in Tui => id \in accepted[m])

\* Mutant of OnChunk: a bound one piece too low.
OnChunkOneLess(m) ==
    LET f == Head(inbox[m]) IN
    /\ Take(m, "chunk")
    /\ buffer' = IF ~Collects(m, f.id) THEN buffer
                 ELSE IF Len(buffer[m][f.id]) + 1 < Chunks
                 THEN [buffer EXCEPT ![m][f.id] = Append(@, f.piece)]
                 ELSE [buffer EXCEPT ![m] = Without(@, f.id)]
    /\ UNCHANGED sendVars /\ UNCHANGED <<pending_offer, accepted, refused, saved>>

\* Mutant of OnChunk: the size is looked at before the piece is counted.
OnChunkOneMore(m) ==
    LET f == Head(inbox[m])
        fits == Len(buffer[m][f.id]) <= Chunks
    IN  /\ Take(m, "chunk")
        /\ buffer' = IF ~Collects(m, f.id) THEN buffer
                     ELSE IF fits
                     THEN [buffer EXCEPT ![m][f.id] = Append(@, f.piece)]
                     ELSE [buffer EXCEPT ![m] = Without(@, f.id)]
        /\ UNCHANGED sendVars /\ UNCHANGED <<pending_offer, accepted, refused, saved>>

\* A piece past the declared size ends the transfer.
OnChunk(m) ==
    LET f == Head(inbox[m])
        fits == Len(buffer[m][f.id]) + 1 <= Chunks
    IN  /\ Take(m, "chunk")
        /\ buffer' = IF ~Collects(m, f.id) THEN buffer
                     ELSE IF fits
                     THEN [buffer EXCEPT ![m][f.id] = Append(@, f.piece)]
                     ELSE [buffer EXCEPT ![m] = Without(@, f.id)]
        /\ UNCHANGED sendVars /\ UNCHANGED <<pending_offer, accepted, refused, saved>>

\* Mutant of OnDone: saves whatever arrived.
OnDoneUnverified(m) ==
    LET id == Head(inbox[m]).id IN
    /\ Take(m, "done")
    /\ buffer' = IF id \in DOMAIN buffer[m] THEN [buffer EXCEPT ![m] = Without(@, id)]
                 ELSE buffer
    /\ saved' = IF Collects(m, id) THEN [saved EXCEPT ![m] = @ \cup {<<id, buffer[m][id]>>}]
                ELSE saved
    /\ UNCHANGED sendVars /\ UNCHANGED <<pending_offer, accepted, refused>>

\* The end of a stream: check the digest and save.  A mismatch leaves Python's
\* prompt standing; Rust clears a prompt for this offer in any case.
OnDone(m) ==
    LET id == Head(inbox[m]).id
        known == id \in DOMAIN buffer[m]
        good == Collects(m, id) /\ buffer[m][id] = Offered
    IN  /\ Take(m, "done")
        /\ buffer' = IF known THEN [buffer EXCEPT ![m] = Without(@, id)] ELSE buffer
        /\ saved' = IF good THEN [saved EXCEPT ![m] = @ \cup {<<id, buffer[m][id]>>}]
                    ELSE saved
        /\ pending_offer' = IF (m \in Py /\ good) \/ (m \in Tui /\ pending_offer[m] = id)
                      THEN [pending_offer EXCEPT ![m] = None] ELSE pending_offer
        /\ UNCHANGED sendVars /\ UNCHANGED <<accepted, refused>>

Handle(m) == OnOffer(m) \/ OnAccept(m) \/ OnReject(m) \/ OnChunk(m) \/ OnDone(m)

---------------------------------------------------------------------------
(* What the person at the keyboard says. *)

Accept(m) ==
    LET id == pending_offer[m] IN
    /\ id # None
    /\ pending_offer' = [pending_offer EXCEPT ![m] = None]
    /\ accepted' = [accepted EXCEPT ![m] = @ \cup {id}]
    /\ inbox' = Broadcast(m, F("accept", id))
    /\ UNCHANGED sendVars /\ UNCHANGED <<buffer, refused, saved>>

Reject(m) ==
    LET id == pending_offer[m] IN
    /\ id # None
    /\ pending_offer' = [pending_offer EXCEPT ![m] = None]
    /\ buffer' = [buffer EXCEPT ![m] = Without(@, id)]
    /\ refused' = refused \cup {id}
    /\ inbox' = Broadcast(m, F("reject", id))
    /\ UNCHANGED sendVars /\ UNCHANGED <<accepted, saved>>

Next ==
    \/ \E m \in Offerers : SendOffer(m)
    \/ \E m \in Members : Handle(m) \/ Accept(m) \/ Reject(m)
    \/ \E m \in Members : \E k \in DOMAIN tasks[m] : StreamStep(m, k)
    \/ \E id \in Ids : Edit(id)

\* The event loops and the streaming tasks run; nobody has to type.
Fairness == \A m \in Members :
    /\ WF_vars(Handle(m))
    /\ WF_vars(\E k \in DOMAIN tasks[m] : StreamStep(m, k))

Spec == Init /\ [][Next]_vars /\ Fairness

---------------------------------------------------------------------------
(* Properties. *)

\* What is saved is what was offered, although several streams of one transfer
\* may be mixed in a buffer and the file may change under the stream.
SavedAsOffered == \A m \in Members : \A s \in saved[m] : s[2] = Offered

\* Has anything come between an offer and its one receiver: a second accepter,
\* a refusal, an edit, another offer of the same member?
Disturbed(m, id) ==
    \/ id \in refused \/ version[id] > 0
    \/ \E n \in Members \ {m} : id \in accepted[n]
    \/ \E i, j \in DOMAIN offerer : i = id /\ j # i /\ offerer[j] = offerer[i]

\* An offer that one member accepts and nothing disturbs is received.
AcceptedArrives == \A m \in Members : \A id \in Ids :
    id \in accepted[m] ~> (<<id, Offered>> \in saved[m] \/ Disturbed(m, id))
=============================================================================
