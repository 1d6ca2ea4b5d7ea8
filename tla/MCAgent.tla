------------------------------- MODULE MCAgent -------------------------------
(***************************************************************************)
(* Small instances of the agent in a room and of files sent between        *)
(* members, explored side by side: a behaviour is one of AgentBridge or of *)
(* FileTransfer, `part` says which, and the other rests.                   *)
(***************************************************************************)
EXTENDS AgentBridge

CONSTANTS ann, bob, py1, py2, tui, Chunks, MaxOffers

VARIABLES
    part,
    inbox, offerer, version, active, sending, tasks, pending_offer, buffer, accepted,
    refused, saved

fileVars == <<inbox, offerer, version, active, sending, tasks, pending_offer, buffer,
              accepted, refused, saved>>

Two == {ann, bob}
JustBob == {bob}

File == INSTANCE FileTransfer WITH Py <- {py1, py2}, Tui <- {tui}, Offerers <- {py1}

MCInit ==
    /\ part \in {"agent", "files"}
    /\ Init /\ File!Init
    /\ part = "files" => mode = "public" /\ ~ask_mode

MCNext ==
    /\ UNCHANGED part
    /\ IF part = "agent" THEN Next ELSE UNCHANGED vars
    /\ IF part = "files" THEN File!Next ELSE UNCHANGED fileVars

MCSpec ==
    /\ MCInit /\ [][MCNext]_<<part, vars, fileVars>>
    /\ part = "agent" => Fairness
    /\ part = "files" => File!Fairness

\* Every variable of the two modules has its type.
TypesOK == TypeOK /\ File!TypeOK

\* FileTransfer: what is saved is what was offered, although several streams of
\* a transfer may be mixed in a buffer and the file change under them
\* (client.py _finalize_receive, app.rs handle_ft).
SavedAsOffered == File!SavedAsOffered

\* FileTransfer: an undisturbed, accepted offer arrives (client.py, app.rs).
AcceptedArrives == File!AcceptedArrives
=============================================================================
