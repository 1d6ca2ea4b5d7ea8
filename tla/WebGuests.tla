------------------------------ MODULE WebGuests ------------------------------
(***************************************************************************)
(* The guests of the web page as the room sees them (publisher.py): the    *)
(* roster the publisher keeps from what the relay tells it, the names      *)
(* guests choose, the short wait that lets a name overtake the announce-   *)
(* ment of a newcomer, the number an owner types for a guest, and the      *)
(* presence frames that carry all of it into the room.                     *)
(*                                                                         *)
(* A guest is the viewer id the relay gave out, 1, 2, ...; a room that is  *)
(* provisioned anew goes on with new ones.  NoName is none, or not there.  *)
(***************************************************************************)
EXTENDS Naturals, Sequences, SequencesExt

CONSTANTS
    Names,          \* names a guest may choose, not NoName and not Pseudonym
    Pseudonym,      \* what a guest without a name is called
    MaxGuests,      \* bound on viewer ids minted
    LineMax,        \* bound on frames under way from the relay
    _WEB_NAMES_MAX, _ALIAS_MAX,
    MaxAlias        \* bound on numbers handed out

VARIABLES
    watching,   \* viewer ids the relay holds
    guests,     \* viewer ids minted
    linked,     \* is the publisher connected to the relay?
    line,       \* frames of the relay under way to the publisher
    seat,       \* the publisher's room socket: "up", "broken" (not noticed), "down"
    roster,     \* _web_viewers: handle of each guest, NoName for none
    names,      \* _web_names, oldest first: <<vid, name>>
    settling,   \* _settle_tasks: guests not announced yet
    asked,      \* _pending_requests
    alias,      \* _alias_by_vid and its inverse, oldest first: <<vid, number>>
    _alias_counter,
    shown,      \* the roster as the last presence frame had it
    forgot,     \* history: a reprovision emptied the roster, nothing sent since
    told        \* history: told[n] is the guest first given number n, 0 for none

link == <<watching, guests, linked, line>>
books == <<alias, _alias_counter, told>>
guestVars == <<link, seat, roster, names, settling, asked, books, shown, forgot>>

Vid == 1 .. MaxGuests
NoName == ""
NoGuests == [v \in Vid |-> NoName]
LineFrame == [kind : {"joined", "request", "left"}, vid : Vid]
             \cup [kind : {"name"}, vid : Vid, name : Names \cup {NoName}]

TypeOK ==
    /\ watching \subseteq Vid /\ guests \in 0 .. MaxGuests /\ linked \in BOOLEAN
    /\ line \in Seq(LineFrame) /\ Len(line) <= LineMax
    /\ seat \in {"up", "broken", "down"}
    /\ {roster, shown} \subseteq [Vid -> Names \cup {Pseudonym, NoName}]
    /\ names \in Seq(Vid \X Names) /\ Len(names) <= _WEB_NAMES_MAX
    /\ settling \subseteq Vid /\ asked \subseteq Vid /\ forgot \in BOOLEAN
    /\ alias \in Seq(Vid \X (1 .. MaxAlias)) /\ Len(alias) <= _ALIAS_MAX
    /\ _alias_counter \in 0 .. MaxAlias
    /\ told \in [1 .. MaxAlias -> 0 .. MaxGuests]

Init ==
    /\ watching = {} /\ guests = 0 /\ linked = TRUE /\ line = <<>> /\ seat = "up"
    /\ roster = NoGuests /\ names = <<>> /\ settling = {} /\ asked = {}
    /\ alias = <<>> /\ _alias_counter = 0 /\ told = [n \in 1 .. MaxAlias |-> 0]
    /\ shown = NoGuests /\ forgot = FALSE

----------------------------------------------------------------------------
(* Numbers, names and presence. *)

HasKey(table, v) == \E i \in DOMAIN table : table[i][1] = v
Lookup(table, v) == table[CHOOSE i \in DOMAIN table : table[i][1] = v][2]

\* Mutant of Room: makes room one pair late.
RoomLate(table, max) == IF Len(table) > max THEN Tail(table) ELSE table

\* The oldest pair makes room for one more.
Room(table, max) == IF Len(table) >= max THEN Tail(table) ELSE table

\* _alias_for, for each guest of a sequence in turn: [alias, counter, told].
Numbered(b, v) ==
    IF HasKey(b.alias, v) THEN b
    ELSE [alias |-> Append(Room(b.alias, _ALIAS_MAX), <<v, b.counter + 1>>),
          counter |-> b.counter + 1,
          told |-> [b.told EXCEPT ![b.counter + 1] = IF @ = 0 THEN v ELSE @]]

Books == [alias |-> alias, counter |-> _alias_counter, told |-> told]
Keep(b) == alias' = b.alias /\ _alias_counter' = b.counter /\ told' = b.told

\* A bound for the model: a step that would number on past it is not taken.
CanNumber == _alias_counter + MaxGuests < MaxAlias

\* _broadcast_web_presence numbers everybody on the roster, one after another.
NumberAll(b, r) ==
    LET after[v \in 0 .. MaxGuests] ==
            IF v = 0 THEN b
            ELSE IF r[v] = NoName THEN after[v - 1] ELSE Numbered(after[v - 1], v)
    IN  after[MaxGuests]

\* A room socket that is broken swallows the frame.
Broadcast(r, b) ==
    IF seat = "down" THEN Keep(b) /\ UNCHANGED <<shown, forgot>>
    ELSE /\ Keep(NumberAll(b, r))
         /\ IF seat = "up" THEN shown' = r /\ forgot' = FALSE
                           ELSE UNCHANGED <<shown, forgot>>

Quiet(b) == Keep(b) /\ UNCHANGED <<shown, forgot>>

\* _web_names after v chose n.
Renamed(v, n) ==
    LET at == CHOOSE i \in DOMAIN names : names[i][1] = v
    IN  IF n = NoName THEN IF HasKey(names, v) THEN RemoveAt(names, at) ELSE names
        ELSE IF HasKey(names, v) THEN [names EXCEPT ![at] = <<v, n>>]
        ELSE Append(Room(names, _WEB_NAMES_MAX), <<v, n>>)

----------------------------------------------------------------------------
(* The relay and its guests (external to the publisher). *)

Say(f) == IF linked THEN Len(line) < LineMax /\ line' = Append(line, f)
                    ELSE UNCHANGED line

Publisher == <<seat, roster, names, settling, asked, books, shown, forgot>>

GuestEnters ==
    /\ guests < MaxGuests
    /\ guests' = guests + 1 /\ watching' = watching \cup {guests'}
    /\ Say([kind |-> "joined", vid |-> guests'])
    /\ UNCHANGED <<linked, Publisher>>

\* A guest is back in its place, asks to drive, or chooses a name.
GuestSpeaks(v) ==
    /\ v \in watching
    /\ \/ \E k \in {"joined", "request"} : Say([kind |-> k, vid |-> v])
       \/ \E n \in Names \cup {NoName} : Say([kind |-> "name", vid |-> v, name |-> n])
    /\ UNCHANGED <<watching, guests, linked, Publisher>>

GuestLeaves(v) ==
    /\ v \in watching /\ watching' = watching \ {v}
    /\ Say([kind |-> "left", vid |-> v])
    /\ UNCHANGED <<guests, linked, Publisher>>

LinkLost ==
    /\ linked /\ linked' = FALSE /\ line' = <<>>
    /\ UNCHANGED <<watching, guests, Publisher>>

LinkBack ==
    /\ ~linked /\ linked' = TRUE
    /\ UNCHANGED <<watching, guests, line, Publisher>>

----------------------------------------------------------------------------
(* The publisher. *)

\* viewer_joined: a name chosen earlier is restored and shown at once, a guest
\* without one is held back for a moment.
Joined(v) ==
    LET known == HasKey(names, v)
        r == [roster EXCEPT ![v] = IF known THEN Lookup(names, v) ELSE Pseudonym]
        b == Numbered(Books, v)
    IN  /\ roster' = r
        /\ IF known THEN Broadcast(r, b) /\ UNCHANGED settling
                    ELSE Quiet(b) /\ settling' = settling \cup {v}
        /\ UNCHANGED <<names, asked>>

\* Mutant of Named: an unchanged handle is not announced, settled or not.
NamedUnsettled(v, n) ==
    LET handle == IF n = NoName THEN Pseudonym ELSE n IN
    /\ names' = Renamed(v, n)
    /\ UNCHANGED asked
    /\ IF roster[v] = NoName THEN UNCHANGED <<roster, settling>> /\ Quiet(Books)
       ELSE /\ settling' = settling \ {v}
            /\ roster' = [roster EXCEPT ![v] = handle]
            /\ IF roster[v] = handle THEN Quiet(Books) ELSE Broadcast(roster', Books)

\* _apply_web_name: remembered in any case, and announced for a guest on the
\* roster if it changes anything or nothing was announced yet.
Named(v, n) ==
    LET handle == IF n = NoName THEN Pseudonym ELSE n IN
    /\ names' = Renamed(v, n)
    /\ UNCHANGED asked
    /\ IF roster[v] = NoName THEN UNCHANGED <<roster, settling>> /\ Quiet(Books)
       ELSE /\ settling' = settling \ {v}
            /\ roster' = [roster EXCEPT ![v] = handle]
            /\ IF roster[v] = handle /\ v \notin settling
               THEN Quiet(Books) ELSE Broadcast(roster', Books)

Requested(v) ==
    /\ asked' = asked \cup {v} /\ Quiet(Numbered(Books, v))
    /\ UNCHANGED <<roster, names, settling>>

Left(v) ==
    /\ asked' = asked \ {v} /\ settling' = settling \ {v}
    /\ roster' = [roster EXCEPT ![v] = NoName]
    /\ Broadcast(roster', Books)
    /\ UNCHANGED names

\* _read_from_relay on the next frame about a guest.
TakeLine ==
    /\ line # <<>> /\ line' = Tail(line) /\ CanNumber
    /\ LET f == Head(line)
       IN  \/ f.kind = "joined" /\ Joined(f.vid)
           \/ f.kind = "name" /\ Named(f.vid, f.name)
           \/ f.kind = "request" /\ Requested(f.vid)
           \/ f.kind = "left" /\ Left(f.vid)
    /\ UNCHANGED <<watching, guests, linked, seat>>

\* The wait of _settle_presence is over.
Settle(v) ==
    /\ v \in settling /\ CanNumber
    /\ settling' = settling \ {v}
    /\ Broadcast(roster, Books)
    /\ UNCHANGED <<link, seat, roster, names, asked>>

\* A member joined the room, or the driver changed: presence is sent again.
Repaint ==
    /\ seat = "up" /\ CanNumber
    /\ Broadcast(roster, Books)
    /\ UNCHANGED <<link, seat, roster, names, settling, asked>>

\* The owner allows or denies a guest: no longer asking.
Answer(v) ==
    /\ v \in asked /\ asked' = asked \ {v}
    /\ UNCHANGED <<link, seat, roster, names, settling, books, shown, forgot>>

RoomBreaks ==
    /\ seat' = CASE seat = "up" -> "broken" [] seat = "broken" -> "down"
                 [] seat = "down" -> "down"
    /\ UNCHANGED <<link, roster, names, settling, asked, books, shown, forgot>>

\* _room_loop after a new join.
RoomBack ==
    /\ seat = "down" /\ seat' = "up" /\ CanNumber
    /\ Keep(NumberAll(Books, roster))
    /\ shown' = roster /\ forgot' = FALSE
    /\ UNCHANGED <<link, roster, names, settling, asked>>

ForgetNumbers ==
    alias' = <<>> /\ UNCHANGED <<_alias_counter, told>>

\* _reprovision: a new room, and nobody in it.  Names survive.
NewRoom ==
    /\ ~linked
    /\ watching' = {} /\ roster' = NoGuests /\ settling' = {} /\ asked' = {}
    /\ ForgetNumbers /\ forgot' = TRUE
    /\ UNCHANGED <<guests, linked, line, seat, names, shown>>

Next ==
    \/ GuestEnters \/ LinkLost \/ LinkBack
    \/ \E v \in Vid : GuestSpeaks(v) \/ GuestLeaves(v) \/ Settle(v) \/ Answer(v)
    \/ TakeLine \/ Repaint \/ RoomBreaks \/ RoomBack \/ NewRoom

Spec == Init /\ [][Next]_guestVars

----------------------------------------------------------------------------
(* Properties. *)

\* Whatever the order of joining, naming, settling and leaving, and whatever
\* the room socket lost, the room sees the publisher's roster once no guest is
\* held back: nobody is stranded off it (publisher.py _apply_web_name).  The
\* one exception is a new room, whose empty roster is not announced.
RosterShown == (seat = "up" /\ settling = {} /\ ~forgot) => shown = roster

\* A number the room was given for a guest never comes to mean another one, so
\* an owner who types it late allows that guest or nobody.
AliasKeepsGuest ==
    \A i \in DOMAIN alias : told[alias[i][2]] = alias[i][1]
==============================================================================
