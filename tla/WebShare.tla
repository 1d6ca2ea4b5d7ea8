------------------------------- MODULE WebShare -------------------------------
(***************************************************************************)
(* The life of a publisher (WebPublisher.run): the relay is asked for a    *)
(* room, the link to it is put in a share file, the room is replaced when  *)
(* the relay has lost it, and ended with the publisher                     *)
(* (src/cmd_chat/web/publisher.py).                                        *)
(*                                                                         *)
(* The request for a replacement runs in a thread of the executor, which   *)
(* goes on when the event loop is stopped; asyncio.run waits for it unless *)
(* it is interrupted once more.  Rooms, and the slugs in links, are        *)
(* numbers in the order the relay made them; a key is numbered too.        *)
(***************************************************************************)
EXTENDS Naturals, FiniteSets

CONSTANTS
    MaxRooms,   \* bound: rooms the relay makes
    MaxKeys     \* bound: keys of the share

Slugs == 1..MaxRooms
NoSlug == 0

VARIABLES
    at,         \* where run() is
    slug,       \* self.slug
    key,        \* self.k_web, 0 once zeroised
    thread,     \* register_room in the executor
    answer,     \* the room the answer under way names
    publishing, \* is the publish socket open, and for which slug?
    share_file, \* self._share_file
    unwritten,  \* could the last link shown not be written?
    files,      \* share files: slug -> the key in the link, 0 if there is none
    rooms,      \* rooms of the relay
    made,       \* rooms made so far
    stray       \* rooms nobody can end: the relay's idle reaper has to

vars == <<at, slug, key, thread, answer, publishing, share_file, unwritten, files,
          rooms, made, stray>>
process == <<at, slug, key, publishing>>
asking == <<thread, answer>>
links == <<share_file, unwritten, files>>
relay == <<rooms, made>>

TypeOK ==
    /\ at \in {"new", "register", "banner", "running", "stopping", "end", "forget",
               "ended", "refused", "dead"}
    /\ slug \in Slugs \cup {NoSlug}
    /\ key \in 0..MaxKeys
    /\ thread \in {"none", "sent", "made", "failed", "learned"}
    /\ answer \in Slugs \cup {NoSlug}
    /\ publishing \in Slugs \cup {NoSlug}
    /\ share_file \in Slugs \cup {NoSlug}
    /\ unwritten \in BOOLEAN
    /\ files \in [Slugs -> 0..MaxKeys]
    /\ rooms \subseteq Slugs /\ made \in 0..MaxRooms
    /\ stray \subseteq Slugs

Init ==
    /\ at = "new"
    /\ slug = NoSlug /\ key = 1
    /\ thread = "none" /\ answer = NoSlug
    /\ publishing = NoSlug
    /\ share_file = NoSlug /\ unwritten = FALSE /\ files = [s \in Slugs |-> 0]
    /\ rooms = {} /\ made = 0
    /\ stray = {}

---------------------------------------------------------------------------
(* Starting. *)

\* preflight_relay: only a protocol that is known to differ is fatal.
Preflight ==
    /\ at = "new"
    /\ at' \in {"register", "refused"}
    /\ UNCHANGED <<slug, key, publishing, asking, links, relay, stray>>

\* create_room of the relay.
Make == made < MaxRooms /\ made' = made + 1 /\ rooms' = rooms \cup {made + 1}

\* register_room before the loop runs: what it raises ends the program, though
\* the relay may have made the room.
Register ==
    /\ at = "register"
    /\ \/ Make /\ slug' = made' /\ at' = "banner" /\ UNCHANGED stray
       \/ at' = "refused" /\ UNCHANGED <<slug, relay, stray>>
       \/ Make /\ stray' = stray \cup {made'} /\ at' = "refused" /\ UNCHANGED slug
    /\ UNCHANGED <<key, publishing, asking, links>>

\* _write_share_file: under the slug and with the key of this moment, and the
\* path is remembered; a file that cannot be written is reported.
WriteShareFile(s, k) ==
    \/ files' = [files EXCEPT ![s] = k] /\ share_file' = s /\ unwritten' = FALSE
    \/ unwritten' = TRUE /\ UNCHANGED <<files, share_file>>

\* _print_banner; the socket is dialled next.
Banner ==
    /\ at = "banner"
    /\ WriteShareFile(slug, key)
    /\ at' = "running"
    /\ UNCHANGED <<slug, key, publishing, asking, relay, stray>>

\* The console's /web link and /web qr write the file again.
Link ==
    /\ at = "running"
    /\ WriteShareFile(slug, key)
    /\ UNCHANGED <<process, asking, relay, stray>>

---------------------------------------------------------------------------
(* The publish socket (_relay_loop). *)

Dial ==
    /\ at = "running" /\ publishing = NoSlug /\ thread = "none"
    /\ slug \in rooms
    /\ publishing' = slug
    /\ UNCHANGED <<at, slug, key, asking, links, relay, stray>>

Lost ==
    /\ publishing # NoSlug
    /\ publishing' = NoSlug
    /\ UNCHANGED <<at, slug, key, asking, links, relay, stray>>

\* Closed with 4401: _reprovision hands register_room to the executor.
Refused ==
    /\ at = "running" /\ publishing = NoSlug /\ thread = "none"
    /\ slug \notin rooms
    /\ thread' = "sent"
    /\ UNCHANGED <<process, answer, links, relay, stray>>

---------------------------------------------------------------------------
(* The request for another room. *)

\* The relay makes the room or refuses; nobody waits for the answer any more
\* when the process has been through end_room.
Create ==
    /\ thread = "sent"
    /\ \/ Make /\ thread' = "made" /\ answer' = made'
       \/ thread' = "failed" /\ UNCHANGED <<relay, answer>>
    /\ UNCHANGED <<process, links, stray>>

\* The answer reaches the thread, or the request times out.
Answered ==
    /\ thread = "made"
    /\ answer' = NoSlug
    /\ \/ /\ thread' = "learned" /\ slug' = answer
          /\ stray' = IF at \in {"forget", "ended"} THEN stray \cup {answer} ELSE stray
       \/ /\ thread' = "failed" /\ stray' = stray \cup {answer}
          /\ UNCHANGED slug
    /\ UNCHANGED <<at, key, publishing, links, relay>>

\* Mutant of Rotate: the link is shown before the key is replaced.
RotateLate ==
    /\ at = "running" /\ thread = "learned"
    /\ key < MaxKeys /\ key' = key + 1
    /\ WriteShareFile(slug, key)
    /\ thread' = "none"
    /\ UNCHANGED <<at, slug, publishing, answer, relay, stray>>

\* The rest of _reprovision: a new key, and the new link is shown.
Rotate ==
    /\ at = "running" /\ thread = "learned"
    /\ key < MaxKeys /\ key' = key + 1
    /\ WriteShareFile(slug, key')
    /\ thread' = "none"
    /\ UNCHANGED <<at, slug, publishing, answer, relay, stray>>

\* Otherwise the loop dials the old slug again, to be refused again.
Retry ==
    /\ at = "running" /\ thread = "failed"
    /\ thread' = "none"
    /\ UNCHANGED <<process, answer, links, relay, stray>>

---------------------------------------------------------------------------
(* Stopping. *)

\* An interrupt, or an error of one of the loops: the others are cancelled.
Stop ==
    /\ at = "running"
    /\ at' = "stopping"
    /\ publishing' = NoSlug
    /\ UNCHANGED <<slug, key, asking, links, relay, stray>>

\* The executor is waited for, or a second interrupt comes before it is done.
Drained ==
    /\ at = "stopping"
    /\ at' = "end"
    /\ UNCHANGED <<slug, key, publishing, asking, links, relay, stray>>

\* end_room: any error is swallowed.
EndRoom ==
    /\ at = "end"
    /\ \/ rooms' = rooms \ {slug} /\ UNCHANGED stray
       \/ stray' = stray \cup ({slug} \cap rooms) /\ UNCHANGED rooms
    /\ at' = "forget"
    /\ UNCHANGED <<slug, key, publishing, asking, links, made>>

\* _forget_share_file and _zeroise_key.
Forget ==
    /\ at = "forget"
    /\ \/ files' = [s \in Slugs |-> IF s = share_file THEN 0 ELSE files[s]]
       \/ UNCHANGED files       \* the file cannot be removed
    /\ share_file' = NoSlug
    /\ key' = 0
    /\ at' = "ended"
    /\ UNCHANGED <<slug, publishing, asking, unwritten, relay, stray>>

\* A process that is killed, or interrupted before its loop runs, leaves it all.
Die ==
    /\ at \in {"banner", "running", "stopping", "end", "forget"}
    /\ at' = "dead"
    /\ stray' = stray \cup rooms
    /\ publishing' = NoSlug
    /\ UNCHANGED <<slug, key, asking, links, relay>>

---------------------------------------------------------------------------
(* The relay. *)

\* Rooms end behind the publisher's back: the idle reaper takes one nobody
\* publishes to, an operator any, and a publisher is not told.
RoomEnds ==
    /\ \E s \in rooms : rooms' = rooms \ {s}
    /\ UNCHANGED <<process, asking, links, made, stray>>

RelayRestarts ==
    /\ rooms' = {} /\ publishing' = NoSlug
    /\ UNCHANGED <<at, slug, key, asking, links, made, stray>>

Next ==
    \/ Preflight \/ Register \/ Banner \/ Link
    \/ Dial \/ Lost \/ Refused
    \/ Create \/ Answered \/ Rotate \/ Retry
    \/ Stop \/ Drained \/ EndRoom \/ Forget \/ Die
    \/ RoomEnds \/ RelayRestarts

Spec == Init /\ [][Next]_vars

---------------------------------------------------------------------------
(* Properties. *)

\* Every room of the relay is the one its publisher knows, or the one a request
\* under way is about, or stray, also while a room is replaced, and none but
\* stray ones outlive a publisher that ends in order (publisher.py:610-621).
RoomsAccounted ==
    at # "dead" =>
        \A s \in rooms \ stray :
            \/ thread = "made" /\ s = answer
            \/ s = slug /\ at \notin {"refused", "forget", "ended"}

\* Whenever the publisher streams, the last link it could write is the one of
\* this stream, slug and key, although the room is replaced in a thread while the
\* console shows links (publisher.py:536-588, 2152-2181).
LinkOpens ==
    publishing # NoSlug /\ ~unwritten => share_file = publishing /\ files[publishing] = key
=============================================================================
