----------------------------- MODULE MCChatRoom -----------------------------
(* Small instances of ChatRoom for TLC. *)
EXTENDS ChatRoom

CONSTANTS ann, bob, cat, dan, a1, b1, c1, d1

Two   == {ann, bob}
Three == {ann, bob, cat}
Four  == {ann, bob, cat, dan}

\* One id for each client: an id is handed out again once it is forgotten, so
\* clients leave and reconnect, but not while their old handler winds down.
IdOf == (ann :> a1) @@ (bob :> b1) @@ (cat :> c1) @@ (dan :> d1)
OneIdEach == {IdOf[c] : c \in Clients}
OwnerOf == [i \in Ids |-> CHOOSE c \in Clients : IdOf[c] = i]

\* Everybody but ann asks for the same name.
Names == [c \in Clients |-> IF c = ann THEN "a" ELSE "b"]

\* bob, cat and dan are interchangeable, together with their ids.
Sym == {[x \in DOMAIN p \cup {IdOf[c] : c \in DOMAIN p} |->
            IF x \in DOMAIN p THEN p[x]
            ELSE IdOf[p[CHOOSE c \in DOMAIN p : IdOf[c] = x]]] :
           p \in Permutations(Clients \ {ann})}

NoOne == {}
Anyone == {"token", "member"}
=============================================================================
