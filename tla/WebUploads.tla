----------------------------- MODULE WebUploads -----------------------------
(***************************************************************************)
(* Files from browsers into the room (publisher.py, from _web_upload_offer *)
(* to _web_upload_done, and room.html's side of it).  A guest's upload is  *)
(* an offer until a member accepts it; then the page streams numbered      *)
(* chunks, which the publisher passes on, one by one, to that member.      *)
(*                                                                         *)
(* An upload is a guest and the number of its pick.  The page speaks for   *)
(* the upload it shows (upActive): a loop that still streams an earlier    *)
(* one sends its chunks under the token of the present one.                *)
(***************************************************************************)
EXTENDS Naturals, Sequences, SequencesExt, FiniteSets

CONSTANTS
    Guests,         \* viewer ids
    Members,        \* of the room, who may accept
    Picks,          \* bound: files a guest picks
    Chunks,         \* the declared size, in chunks
    WEB_UPLOAD_PER_VIEWER, WEB_UPLOAD_PER_ROOM,
    LineMax,        \* bound on frames under way to the publisher
    BackMax,        \* bound on frames under way to a page
    NoMember

VARIABLES
    picked,     \* picked[g]: files picked so far
    current,    \* upActive: the upload on the page, 0 for none
    acked,      \* was it acknowledged?
    loops,      \* loops[g][k]: next chunk the loop of upload k sends, 0 if none
    gone,       \* guests the relay gave up
    uplinked,     \* is the publisher connected to the relay?
    upline,       \* frames of pages under way to the publisher
    back,       \* back[g]: frames under way to the page of g
    hosting,     \* has the publisher a room socket?
    uploads,    \* _uploads: by guest and pick, [by, seq], by is NotStaged if none
    offered,    \* uploads the room was offered
    passed,     \* history: frames passed into the room, [to, seq], 0 for done
    first       \* history: who accepted an upload first

page == <<picked, current, acked, loops>>
ways == <<gone, uplinked, upline, back>>
traces == <<passed, first>>
uploadVars == <<page, ways, hosting, uploads, offered, traces>>

Uploads == Guests \X (1 .. Picks)
NotStaged == [by |-> NoMember, seq |-> Chunks + 1]
Staged == {u \in Uploads : uploads[u] # NotStaged}
UpKinds == {"offer", "chunk", "done", "cancel", "left"}

TypeOK ==
    /\ picked \in [Guests -> 0 .. Picks] /\ current \in [Guests -> 0 .. Picks]
    /\ acked \in [Guests -> BOOLEAN]
    /\ loops \in [Uploads -> 0 .. Chunks + 1]
    /\ gone \subseteq Guests /\ uplinked \in BOOLEAN /\ hosting \in BOOLEAN
    /\ upline \in Seq([kind : UpKinds, guest : Guests, pick : 0 .. Picks, seq : 0 .. Chunks])
    /\ Len(upline) <= LineMax
    /\ back \in [Guests -> Seq([kind : {"ack", "end"}, pick : 1 .. Picks])]
    /\ uploads \in [Uploads -> [by : Members \cup {NoMember}, seq : 0 .. Chunks + 1]]
    /\ offered \subseteq Uploads
    /\ passed \in [Uploads -> Seq([to : Members, seq : 0 .. Chunks])]
    /\ first \in [Uploads -> Members \cup {NoMember}]

Init ==
    /\ picked = [g \in Guests |-> 0] /\ current = [g \in Guests |-> 0]
    /\ acked = [g \in Guests |-> FALSE] /\ loops = [u \in Uploads |-> 0]
    /\ gone = {} /\ uplinked = TRUE /\ upline = <<>> /\ back = [g \in Guests |-> <<>>]
    /\ hosting = TRUE /\ uploads = [u \in Uploads |-> NotStaged] /\ offered = {}
    /\ passed = [u \in Uploads |-> <<>>] /\ first = [u \in Uploads |-> NoMember]

----------------------------------------------------------------------------
(* The page (static/room.html). *)

Frame(kind, g, n) == [kind |-> kind, guest |-> g, pick |-> current[g], seq |-> n]
Up(f) == IF uplinked THEN Len(upline) < LineMax /\ upline' = Append(upline, f)
                   ELSE UNCHANGED upline

Publisher == <<hosting, uploads, offered, traces>>

\* A file is picked and offered; with no publisher to hear it the relay says
\* so and the page ends it.
Pick(g) ==
    /\ g \notin gone /\ current[g] = 0 /\ picked[g] < Picks
    /\ picked' = [picked EXCEPT ![g] = @ + 1]
    /\ acked' = [acked EXCEPT ![g] = FALSE]
    /\ current' = [current EXCEPT ![g] = IF uplinked THEN picked'[g] ELSE 0]
    /\ Up([kind |-> "offer", guest |-> g, pick |-> picked'[g], seq |-> 0])
    /\ UNCHANGED <<loops, gone, uplinked, back, Publisher>>

\* One turn of upStream, for the upload it was started for.
Stream(g, k) ==
    LET n == loops[<<g, k>>] IN
    /\ g \notin gone /\ n > 0
    /\ IF n <= Chunks THEN Up(Frame("chunk", g, n)) ELSE Up(Frame("done", g, 0))
    /\ loops' = [loops EXCEPT ![<<g, k>>] = IF n <= Chunks THEN n + 1 ELSE 0]
    /\ UNCHANGED <<picked, current, acked, gone, uplinked, back, Publisher>>

\* The page's socket is down at such a turn: whatever it shows is ended.
StreamFails(g, k) ==
    /\ loops[<<g, k>>] > 0
    /\ loops' = [loops EXCEPT ![<<g, k>>] = 0]
    /\ current' = [current EXCEPT ![g] = 0]
    /\ UNCHANGED <<picked, acked, ways, Publisher>>

Cancel(g) ==
    /\ g \notin gone /\ current[g] # 0
    /\ Up(Frame("cancel", g, 0))
    /\ loops' = [loops EXCEPT ![<<g, current[g]>>] = 0]
    /\ current' = [current EXCEPT ![g] = 0]
    /\ UNCHANGED <<picked, acked, gone, uplinked, back, Publisher>>

\* applyUpload: the acknowledgement starts the stream, any other answer ends
\* the upload on the page, though not a loop that is streaming it.
Hear(g) ==
    /\ back[g] # <<>> /\ back' = [back EXCEPT ![g] = Tail(@)]
    /\ LET f == Head(back[g]) IN
       IF f.pick # current[g] \/ (f.kind = "ack" /\ acked[g])
       THEN UNCHANGED <<current, acked, loops>>
       ELSE IF f.kind = "ack"
       THEN /\ acked' = [acked EXCEPT ![g] = TRUE]
            /\ loops' = [loops EXCEPT ![<<g, f.pick>>] = 1]
            /\ UNCHANGED current
       ELSE current' = [current EXCEPT ![g] = 0] /\ UNCHANGED <<acked, loops>>
    /\ UNCHANGED <<picked, gone, uplinked, upline, Publisher>>

----------------------------------------------------------------------------
(* The relay. *)

\* The guest stayed away past the grace.
Gone(g) ==
    /\ g \notin gone /\ gone' = gone \cup {g}
    /\ Up([kind |-> "left", guest |-> g, pick |-> 0, seq |-> 0])
    /\ UNCHANGED <<page, uplinked, back, Publisher>>

LinkFlaps ==
    /\ uplinked' = ~uplinked
    /\ upline' = <<>>
    /\ UNCHANGED <<page, gone, back, Publisher>>

----------------------------------------------------------------------------
(* The publisher. *)

Tell(g, kind, k) ==
    back' = [back EXCEPT ![g] = IF Len(@) < BackMax
                                THEN Append(@, [kind |-> kind, pick |-> k])
                                ELSE Append(Tail(@), [kind |-> kind, pick |-> k])]

Drop(us) == uploads' = [u \in Uploads |-> IF u \in us THEN NotStaged ELSE uploads[u]]

\* _web_upload_offer: expired uploads (any of those staged) are swept, and the
\* offer is refused when the guest or the room has too many.
TakeOffer(u) ==
    \E old \in SUBSET Staged :
        LET left == Staged \ old
            mine == {w \in left : w[1] = u[1]}
            full == \/ Cardinality(mine) >= WEB_UPLOAD_PER_VIEWER
                    \/ Cardinality(left) >= WEB_UPLOAD_PER_ROOM
        IN  /\ UNCHANGED traces
            /\ IF full THEN Drop(old) /\ Tell(u[1], "end", u[2]) /\ UNCHANGED offered
               ELSE /\ uploads' = [w \in Uploads |->
                          IF w = u THEN [by |-> NoMember, seq |-> 0]
                          ELSE IF w \in old THEN NotStaged ELSE uploads[w]]
                    /\ offered' = IF hosting THEN offered \cup {u} ELSE offered
                    /\ UNCHANGED back

Aborted(u) == Drop({u}) /\ Tell(u[1], "end", u[2]) /\ UNCHANGED <<offered, traces>>

\* Mutant of InSequence: the number of a chunk is not looked at.
InSequenceAny(u, n) == uploads[u].seq < Chunks

\* The next chunk, within the declared size.
InSequence(u, n) == n = uploads[u].seq + 1 /\ n <= Chunks

\* _web_upload_chunk: nothing before an acceptance; a chunk out of order, past
\* the size or without a room to go to ends the upload.
TakeChunk(u, n) ==
    IF uploads[u].by = NoMember THEN UNCHANGED <<uploads, back, offered, traces>>
    ELSE IF InSequence(u, n) /\ hosting
    THEN /\ uploads' = [uploads EXCEPT ![u].seq = @ + 1]
         /\ passed' = [passed EXCEPT ![u] = Append(@, [to |-> uploads[u].by,
                                                       seq |-> n])]
         /\ UNCHANGED <<back, offered, first>>
    ELSE Aborted(u)

\* _web_upload_done.
TakeDone(u) ==
    IF uploads[u].by = NoMember THEN UNCHANGED <<uploads, back, offered, traces>>
    ELSE /\ Drop({u})
         /\ IF hosting
            THEN /\ passed' = [passed EXCEPT ![u] = Append(@, [to |-> uploads[u].by, seq |-> 0])]
                 /\ Tell(u[1], "end", u[2])
            ELSE UNCHANGED <<passed, back>>
         /\ UNCHANGED <<offered, first>>

\* _read_from_relay on the next frame about an upload.
TakeLine ==
    /\ upline # <<>> /\ upline' = Tail(upline)
    /\ LET f == Head(upline)
           u == <<f.guest, f.pick>>
           quiet == UNCHANGED <<uploads, back, offered, traces>>
       IN  \/ f.kind = "left" /\ Drop({f.guest} \X (1 .. Picks))
                /\ UNCHANGED <<back, offered, traces>>
           \/ f.kind # "left" /\ f.pick = 0 /\ quiet
           \/ f.kind = "offer" /\ (IF u \in Staged THEN quiet ELSE TakeOffer(u))
           \/ f.kind = "cancel" /\ f.pick # 0 /\ Drop({u}) /\ UNCHANGED <<back, offered, traces>>
           \/ /\ f.kind \in {"chunk", "done"} /\ f.pick # 0
              /\ IF u \notin Staged THEN quiet
                 ELSE IF f.kind = "chunk" THEN TakeChunk(u, f.seq) ELSE TakeDone(u)
    /\ UNCHANGED <<page, gone, uplinked, hosting>>

\* The first accepter wins.
Accepted(u, m) ==
    /\ uploads[u].by = NoMember
    /\ uploads' = [uploads EXCEPT ![u].by = m]
    /\ first' = [first EXCEPT ![u] = IF @ = NoMember THEN m ELSE @]
    /\ Tell(u[1], "ack", u[2])

\* _upload_answered: a member accepts or declines an upload still staged.
Accept(u, m) ==
    /\ hosting /\ u \in offered /\ u \in Staged
    /\ Accepted(u, m)
    /\ UNCHANGED <<page, gone, uplinked, upline, hosting, offered, passed>>

\* Whoever declines, and whether or not somebody accepted, the upload is off.
Decline(u) ==
    /\ hosting /\ u \in offered /\ u \in Staged
    /\ Drop({u}) /\ Tell(u[1], "end", u[2])
    /\ UNCHANGED <<page, gone, uplinked, upline, hosting, offered, traces>>

RoomFlaps ==
    /\ hosting' = ~hosting
    /\ UNCHANGED <<page, ways, uploads, offered, traces>>

Next ==
    \/ \E g \in Guests : Pick(g) \/ Cancel(g) \/ Hear(g) \/ Gone(g)
    \/ \E g \in Guests, k \in 1 .. Picks : Stream(g, k) \/ StreamFails(g, k)
    \/ LinkFlaps \/ TakeLine \/ RoomFlaps
    \/ \E u \in Uploads : Decline(u) \/ \E m \in Members : Accept(u, m)

Spec == Init /\ [][Next]_uploadVars

----------------------------------------------------------------------------
(* Properties. *)

\* Whatever loops of the page run on, frames are lost with the link, members
\* answer and expired slots are swept: what the room gets of an upload is
\* chunks 1, 2, ... and perhaps the end, to the member that accepted first.
UploadsInOrder ==
    \A u \in Uploads : \A i \in DOMAIN passed[u] :
        /\ passed[u][i].to = first[u]
        /\ passed[u][i].seq = i \/ (passed[u][i].seq = 0 /\ i = Len(passed[u]))

\* Slots never exceed what a guest or the room may have (the caps of
\* _web_upload_offer), whatever was swept, dropped or abandoned.
SlotsBounded ==
    /\ Cardinality(Staged) <= WEB_UPLOAD_PER_ROOM
    /\ \A g \in Guests :
        Cardinality({u \in Staged : u[1] = g}) <= WEB_UPLOAD_PER_VIEWER
=============================================================================
