------------------------------ MODULE WebMembers ------------------------------
(***************************************************************************)
(* The parts of the publisher (WebGuests, WebDownloads, WebUploads,        *)
(* WebShare) and of its relay (RelayLimits, Provisioning) that need no     *)
(* fairness, each on variables of its own.  MCMembers explores them.       *)
(***************************************************************************)
EXTENDS Naturals, Sequences

CONSTANTS
    Names, Pseudonym, MaxGuests, LineMax, _WEB_NAMES_MAX, _ALIAS_MAX, MaxAlias,
    Viewers, Files, VmFile, Chunks, OFFERS_MAX, WEB_FT_RETAIN_MAX, WEB_FT_RETAIN_TOTAL,
    Guests, Members, Picks, WEB_UPLOAD_PER_VIEWER, WEB_UPLOAD_PER_ROOM, BackMax,
    NoMember, NoOne,
    Sources, LIMIT, WINDOW, PIN_FAILS, PIN_WINDOW, PIN_LOCKOUT, MAX_ROOMS,
    MAX_ROOMS_PER_IP, MaxTime, MaxGuessing,
    Relays, Publishers, Nothing,
    MaxRooms, MaxKeys

VARIABLES
    watching, guests, linked, line, seat, roster, names, settling, asked, alias,
    _alias_counter, shown, forgot, told,
    seated, made, _web_offers, requester, _web_ft, order, sent, chose, heard, got,
    finished,
    picked, current, acked, loops, gone, uplinked, upline, back, hosting, uploads,
    offered, passed, first,
    now, hits, fails, until, guessing, rooms, granted,
    file, writable, at, secret, origin,
    run, slug, key, thread, made_slug, publishing, share_file, unwritten, links, live,
    made_rooms, stray

guestVars == <<watching, guests, linked, line, seat, roster, names, settling, asked,
               alias, _alias_counter, shown, forgot, told>>
fileVars == <<seated, made, _web_offers, requester, _web_ft, order, sent, chose, heard,
              got, finished>>
uploadVars == <<picked, current, acked, loops, gone, uplinked, upline, back, hosting,
                uploads, offered, passed, first>>
limitVars == <<now, hits, fails, until, guessing, rooms, granted>>
secretVars == <<file, writable, at, secret, origin>>
shareVars == <<run, slug, key, thread, made_slug, publishing, share_file, unwritten,
               links, live, made_rooms, stray>>
webVars == <<guestVars, fileVars, uploadVars, limitVars, secretVars, shareVars>>

Guest == INSTANCE WebGuests
Down == INSTANCE WebDownloads
Upl == INSTANCE WebUploads
Limit == INSTANCE RelayLimits
Secret == INSTANCE Provisioning
Share == INSTANCE WebShare WITH
    at <- run, answer <- made_slug, files <- links, rooms <- live, made <- made_rooms
=============================================================================
