--------------------------- MODULE MCWebRoomDrive ---------------------------
(***************************************************************************)
(* The instances of a relay room and of the two gates of drive, explored   *)
(* side by side: a behaviour is one of WebRoom or of WebDrive, `part` says *)
(* which, and the other rests.                                             *)
(***************************************************************************)
EXTENDS MCWebRoom

CONSTANTS Browsers, Owners, NoOne, MaxPlaces, MaxFrames, RoomMax, UpMax, OutMax

VARIABLES
    part,
    running, gives, roomq, roomWs, place, minted, on, badge, pub, up, live, owner,
    granted, approved, pinned, bound, seen, effective, outq, clock, typed

driveVars == <<running, gives, roomq, roomWs, place, minted, on, badge, pub, up, live,
               owner, granted, approved, pinned, bound, seen, effective, outq, clock,
               typed>>

Drive == INSTANCE WebDrive

MCInit == part \in {"room", "drive"} /\ Init /\ Drive!Init

MCNext ==
    /\ UNCHANGED part
    /\ IF part = "room" THEN Next ELSE UNCHANGED vars
    /\ IF part = "drive" THEN Drive!Next ELSE UNCHANGED driveVars

MCSpec == MCInit /\ [][MCNext]_<<part, vars, driveVars>>

\* WebDrive: once nothing is under way, a browser that has the drive has the
\* badge (publisher.py _recompute_driver and the relay's driver frame).
DriverShown == part = "drive" => Drive!TypeOK /\ Drive!DriverShown

\* WebDrive: a keystroke passed on is from the approved viewer, under a grant,
\* and no replay (publisher.py _forward_input).
DrivesFromApproved == Drive!DrivesFromApproved
=============================================================================
