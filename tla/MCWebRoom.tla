----------------------------- MODULE MCWebRoom -----------------------------
(* Small instances of WebRoom for TLC. *)
EXTENDS WebRoom, TLC

CONSTANTS s1, s2, s3, phone, p1, p2

\* One browser whose socket flaps.  A first frame that comes late makes any of
\* its sockets a guest without a client_id.
OneSocket == {s1}
ThreeSockets == {s1, s2, s3}
Flapping == [s \in Socks |-> phone]
OnePhone == {phone}

OnePublisher == {p1}
TwoPublishers == {p1, p2}
=============================================================================
