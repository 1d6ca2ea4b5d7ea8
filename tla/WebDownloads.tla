---------------------------- MODULE WebDownloads ----------------------------
(***************************************************************************)
(* Files of the room on their way to browsers (publisher.py, from _tap_ft  *)
(* to _evict_retained).  The publisher accepts an offer once into the room *)
(* however many browsers accept it, passes the stream on to all of them,   *)
(* and keeps the bytes for those that accept late.                         *)
(*                                                                         *)
(* A file is one offer.  Its sender is a TUI (hh/src/app.rs spawn_send):   *)
(* it streams once, to the whole room, at the first acceptance by anybody. *)
(* What is recorded as received is what the publisher enqueues for a       *)
(* viewer; the loss of frames further on is left to the browser's digest.  *)
(***************************************************************************)
EXTENDS Naturals, Sequences, SequencesExt, FiniteSets

CONSTANTS
    Viewers,
    Files,          \* offers made in the room
    VmFile,         \* the one that is a saved VM, beyond the browsers' size cap
    Chunks,         \* bound: chunks of a file
    OFFERS_MAX,     \* the code's 128
    WEB_FT_RETAIN_MAX, WEB_FT_RETAIN_TOTAL,     \* in chunks
    NoOne

VARIABLES
    seated,     \* has the publisher a room socket?
    made,       \* files offered in the room
    _web_offers,    \* offers shown to the browsers, oldest first
    requester,  \* _savevm_requester: who asked for the VM
    _web_ft,    \* accepted files: [viewers, started, buf, kept, complete]
    order,      \* the insertion order of _web_ft
    sent,       \* sent[f]: chunks the sender has sent; not begun is NotBegun
    chose,      \* chose[f]: viewers that answered the offer of f
    heard,      \* history: chunks of f heard since the publisher accepted it
    got,        \* history: got[f][v], chunks enqueued for v
    finished    \* history: finished[f], viewers told that f is done

web == <<_web_offers, requester, _web_ft, order>>
traces == <<heard, got, finished>>
fileVars == <<seated, made, web, sent, chose, traces>>

NotBegun == Chunks + 2
None == [viewers |-> {}, started |-> FALSE, buf |-> <<>>, kept |-> FALSE, complete |-> FALSE]

TypeOK ==
    /\ seated \in BOOLEAN /\ made \subseteq Files
    /\ _web_offers \in Seq(Files) /\ Len(_web_offers) <= OFFERS_MAX + 1
    /\ requester \in Viewers \cup {NoOne}
    /\ _web_ft \in [Files -> [viewers : SUBSET Viewers, started : BOOLEAN,
                              buf : Seq(1 .. Chunks), kept : BOOLEAN, complete : BOOLEAN]]
    /\ \A f \in Files : Len(_web_ft[f].buf) <= WEB_FT_RETAIN_MAX
    /\ order \in Seq(Files) /\ IsInjective(order)
    /\ Range(order) = {f \in Files : _web_ft[f] # None}
    /\ sent \in [Files -> 0 .. NotBegun]
    /\ chose \in [Files -> SUBSET Viewers]
    /\ heard \in [Files -> Seq(1 .. Chunks)]
    /\ got \in [Files -> [Viewers -> Seq(1 .. Chunks)]]
    /\ finished \in [Files -> SUBSET Viewers]

Init ==
    /\ seated = TRUE /\ made = {} /\ _web_offers = <<>> /\ requester = NoOne
    /\ _web_ft = [f \in Files |-> None] /\ order = <<>>
    /\ sent = [f \in Files |-> NotBegun] /\ chose = [f \in Files |-> {}]
    /\ heard = [f \in Files |-> <<>>]
    /\ got = [f \in Files |-> [v \in Viewers |-> <<>>]]
    /\ finished = [f \in Files |-> {}]

Known(f) == _web_ft[f] # None

\* Entries are dropped from the dictionary; the others keep their order.
Ordered(ft) ==
    LET left == {i \in DOMAIN order : ft[order[i]] # None}
        nth(k) == CHOOSE i \in left : Cardinality({j \in left : j <= i}) = k
    IN  [k \in 1 .. Cardinality(left) |-> order[nth(k)]]
Keep(ft) == _web_ft' = ft /\ order' = Ordered(ft)

\* The sender begins at the first acceptance, and only then.
Begun(f) == IF sent[f] = NotBegun THEN [sent EXCEPT ![f] = 0] ELSE sent

----------------------------------------------------------------------------
(* The room. *)

\* _web_offer: refused over the cap, unless it is the VM a browser asked for;
\* the oldest offer makes room.
Offer(f) ==
    /\ f \notin made /\ made' = made \cup {f}
    /\ IF seated /\ (f = VmFile => requester # NoOne)
       THEN /\ _web_offers' = Append(IF Len(_web_offers) > OFFERS_MAX
                                     THEN Tail(_web_offers) ELSE _web_offers, f)
            /\ requester' = IF f = VmFile THEN NoOne ELSE requester
       ELSE UNCHANGED <<_web_offers, requester>>
    /\ UNCHANGED <<seated, _web_ft, order, sent, chose, traces>>

\* Some other member accepts, and the sender begins.
MemberAccepts(f) ==
    /\ f \in made /\ sent[f] = NotBegun
    /\ sent' = Begun(f)
    /\ UNCHANGED <<seated, made, web, chose, traces>>

\* Mutant of ChunkIn: the accepters are not frozen by the first chunk.
ChunkInOpen(f, n) ==
    LET st == _web_ft[f]
        keeps == st.kept /\ Len(st.buf) + 1 <= WEB_FT_RETAIN_MAX
    IN  /\ _web_ft' = [_web_ft EXCEPT ![f].kept = keeps,
                                      ![f].buf = IF keeps THEN Append(@, n) ELSE <<>>]
        /\ heard' = [heard EXCEPT ![f] = Append(@, n)]
        /\ got' = [got EXCEPT ![f] = [v \in Viewers |->
                      IF v \in st.viewers THEN Append(@[v], n) ELSE @[v]]]
        /\ UNCHANGED <<order, finished>>

\* _web_ft_chunk: retained while it fits, and passed on.
ChunkIn(f, n) ==
    LET st == _web_ft[f]
        keeps == st.kept /\ Len(st.buf) + 1 <= WEB_FT_RETAIN_MAX
    IN  /\ _web_ft' = [_web_ft EXCEPT ![f].started = TRUE, ![f].kept = keeps,
                                      ![f].buf = IF keeps THEN Append(@, n) ELSE <<>>]
        /\ heard' = [heard EXCEPT ![f] = Append(@, n)]
        /\ got' = [got EXCEPT ![f] = [v \in Viewers |->
                      IF v \in st.viewers THEN Append(@[v], n) ELSE @[v]]]
        /\ UNCHANGED <<order, finished>>

\* The chunks that are retained.
Held(ft) == Cardinality(UNION {{f} \X DOMAIN ft[f].buf : f \in Files})

\* _evict_retained: the oldest complete files, as many as it takes to fit.
Evicted(ft) ==
    LET oldest(n) == {f \in {order[i] : i \in 1 .. n} : ft[f].complete /\ ft[f].kept}
        left(n) == [f \in Files |-> IF f \in oldest(n) THEN None ELSE ft[f]]
        fits(n) == Held(left(n)) <= WEB_FT_RETAIN_TOTAL
    IN  left(CHOOSE n \in 0 .. Len(order) :
                 /\ fits(n) \/ n = Len(order)
                 /\ \A m \in 0 .. n - 1 : ~ fits(m))

\* _web_ft_done: kept for late accepters, unless it was too big to keep.
DoneIn(f) ==
    /\ finished' = [finished EXCEPT ![f] = @ \cup _web_ft[f].viewers]
    /\ Keep(IF ~_web_ft[f].kept THEN [_web_ft EXCEPT ![f] = None]
            ELSE Evicted([_web_ft EXCEPT ![f].complete = TRUE]))
    /\ UNCHANGED <<heard, got>>

\* The publisher follows the files it has accepted, while its socket is up.
Follows(f, step) ==
    IF seated /\ Known(f) THEN step ELSE UNCHANGED <<_web_ft, order, traces>>

\* The sender sends its next chunk or, after the last, that it is done.
Send(f) ==
    /\ sent[f] \in 0 .. Chunks
    /\ \/ /\ sent[f] < Chunks
          /\ sent' = [sent EXCEPT ![f] = @ + 1]
          /\ Follows(f, ChunkIn(f, sent[f] + 1))
       \/ /\ sent' = [sent EXCEPT ![f] = Chunks + 1]
          /\ Follows(f, DoneIn(f))
    /\ UNCHANGED <<seated, made, _web_offers, requester, chose>>

RoomLost ==
    /\ seated' = ~seated
    /\ UNCHANGED <<made, web, sent, chose, traces>>

----------------------------------------------------------------------------
(* The browsers. *)

Answers(v, f) ==
    /\ f \in made /\ v \notin chose[f]
    /\ chose' = [chose EXCEPT ![f] = @ \cup {v}]
    /\ UNCHANGED <<seated, made, _web_offers, requester>>

\* The first acceptance: the publisher accepts into the room.
AcceptFirst(v, f) ==
    /\ Answers(v, f) /\ f \in Range(_web_offers) /\ ~Known(f)
    /\ _web_ft' = [_web_ft EXCEPT ![f] = [None EXCEPT !.viewers = {v}, !.kept = TRUE]]
    /\ order' = Append(order, f)
    /\ sent' = IF seated THEN Begun(f) ELSE sent
    /\ heard' = [heard EXCEPT ![f] = <<>>]
    /\ got' = [got EXCEPT ![f] = [w \in Viewers |-> <<>>]]
    /\ finished' = [finished EXCEPT ![f] = {}]

AcceptEarly(v, f) ==
    /\ Answers(v, f) /\ f \in Range(_web_offers) /\ Known(f) /\ ~_web_ft[f].started
    /\ _web_ft' = [_web_ft EXCEPT ![f].viewers = @ \cup {v}]
    /\ UNCHANGED <<order, sent, traces>>

\* _web_ft_serve_retained: what is retained, and then the rest as it comes; an
\* error if nothing is.
AcceptLate(v, f) ==
    LET st == _web_ft[f] IN
    /\ Answers(v, f) /\ f \in Range(_web_offers) /\ Known(f) /\ st.started
    /\ IF ~st.kept THEN UNCHANGED <<_web_ft, traces>>
       ELSE /\ got' = [got EXCEPT ![f][v] = st.buf]
            /\ UNCHANGED heard
            /\ IF st.complete
               THEN finished' = [finished EXCEPT ![f] = @ \cup {v}] /\ UNCHANGED _web_ft
               ELSE /\ _web_ft' = [_web_ft EXCEPT ![f].viewers = @ \cup {v}]
                    /\ UNCHANGED finished
    /\ UNCHANGED <<order, sent>>

\* Declined, or accepted when the offer has made room for others.
Decline(v, f) ==
    /\ Answers(v, f)
    /\ UNCHANGED <<_web_ft, order, sent, traces>>

\* _web_savevm; the request fails without a room.
SaveVm(v) ==
    /\ seated /\ requester' = v
    /\ UNCHANGED <<seated, made, _web_offers, _web_ft, order, sent, chose, traces>>

Next ==
    \/ \E f \in Files : Offer(f) \/ MemberAccepts(f) \/ Send(f)
    \/ RoomLost
    \/ \E v \in Viewers : SaveVm(v)
    \/ \E v \in Viewers, f \in Files :
        AcceptFirst(v, f) \/ AcceptEarly(v, f) \/ AcceptLate(v, f) \/ Decline(v, f)

Spec == Init /\ [][Next]_fileVars

----------------------------------------------------------------------------
(* Properties. *)

\* Every browser that is told a file is done was handed just what the publisher
\* heard of it, in order and without a chunk twice, whenever it accepted; and
\* what it was handed so far is a beginning of that (publisher.py: "One viewer
\* accepting must not consume the offer for everyone else").
DownloadsAlike ==
    \A f \in Files : Known(f) =>
        /\ \A v \in finished[f] : got[f][v] = heard[f]
        /\ \A v \in Viewers : IsPrefix(got[f][v], heard[f])

\* Retained bytes are bounded once no stream is running.
RetentionBounded ==
    (\A f \in Files : Known(f) => _web_ft[f].complete)
        => Held(_web_ft) <= WEB_FT_RETAIN_TOTAL
=============================================================================
