---------------------------- MODULE RelayLimits ----------------------------
(***************************************************************************)
(* What the relay grants one source (src/web-relay/relay/limits.py and its *)
(* use in app.py): connections in a sliding window, standing rooms, and    *)
(* guesses at a PIN.  Time is a counter; a source is an address, and its   *)
(* key for the PIN gate the same.                                          *)
(***************************************************************************)
EXTENDS Naturals, Sequences, SequencesExt

CONSTANTS
    Sources,
    LIMIT, WINDOW,              \* SlidingWindow(limit, window)
    PIN_FAILS, PIN_WINDOW, PIN_LOCKOUT, \* Lockout(max_fails, window, lockout)
    MAX_ROOMS, MAX_ROOMS_PER_IP,
    MaxTime, MaxGuessing        \* bounds: the clock, sockets at the PIN gate

VARIABLES
    now,
    hits,       \* hits[k]: times, oldest first (_hits)
    fails,      \* fails[k]: times of wrong PINs (_fails)
    until,      \* until[k]: when the lock ends, or 0 (_until)
    guessing,   \* guessing[k]: sockets that have passed the check of the lock
    rooms,      \* rooms[k]: standing rooms a source has created
    granted     \* granted[k]: times of granted connections (history)

vars == <<now, hits, fails, until, guessing, rooms, granted>>

Times == Seq(0 .. MaxTime)

TypeOK ==
    /\ now \in 0 .. MaxTime
    /\ \A k \in Sources : hits[k] \in Times /\ fails[k] \in Times /\ granted[k] \in Times
    /\ until \in [Sources -> 0 .. MaxTime + PIN_LOCKOUT]
    /\ guessing \in [Sources -> 0 .. MaxGuessing]
    /\ rooms \in [Sources -> 0 .. MAX_ROOMS_PER_IP]

Init ==
    /\ now = 0
    /\ hits = [k \in Sources |-> <<>>]
    /\ fails = [k \in Sources |-> <<>>]
    /\ until = [k \in Sources |-> 0]
    /\ guessing = [k \in Sources |-> 0]
    /\ rooms = [k \in Sources |-> 0]
    /\ granted = [k \in Sources |-> <<>>]

Tick ==
    /\ now < MaxTime
    /\ now' = now + 1
    /\ UNCHANGED <<hits, fails, until, guessing, rooms, granted>>

\* What is older than a window falls off the front.
Recent(q, window) ==
    LET first == CHOOSE n \in 1 .. Len(q) + 1 :
                     /\ \A i \in 1 .. n - 1 : q[i] + window < now
                     /\ n <= Len(q) => q[n] + window >= now
    IN  SubSeq(q, first, Len(q))

\* SlidingWindow.allow.
Allows(k) == Len(Recent(hits[k], WINDOW)) < LIMIT
Hit(k) ==
    hits' = [hits EXCEPT ![k] = IF Allows(k) THEN Append(Recent(@, WINDOW), now)
                                ELSE Recent(@, WINDOW)]

Locked(k) == until[k] > now

\* A connection is granted or refused; one for a room with a PIN is refused as
\* well while its key is locked, and a lock that has run out is forgotten.
Connect(k) ==
    /\ guessing[k] < MaxGuessing
    /\ Hit(k)
    /\ IF Allows(k)
       THEN /\ granted' = [granted EXCEPT ![k] = Append(@, now)]
            /\ guessing' = [guessing EXCEPT ![k] = IF Locked(k) THEN @ ELSE @ + 1]
            /\ until' = [until EXCEPT ![k] = IF Locked(k) THEN @ ELSE 0]
            /\ fails' = [fails EXCEPT ![k] = IF ~Locked(k) /\ until[k] > 0 THEN <<>> ELSE @]
       ELSE UNCHANGED <<granted, guessing, until, fails>>
    /\ UNCHANGED <<now, rooms>>

\* The proof arrives: none or malformed, wrong, or right.
NoProof(k) ==
    /\ guessing[k] > 0
    /\ guessing' = [guessing EXCEPT ![k] = @ - 1]
    /\ UNCHANGED <<now, hits, fails, until, rooms, granted>>

Wrong(k) ==
    LET q == Append(Recent(fails[k], PIN_WINDOW), now) IN
    /\ guessing[k] > 0
    /\ guessing' = [guessing EXCEPT ![k] = @ - 1]
    /\ fails' = [fails EXCEPT ![k] = q]
    /\ until' = [until EXCEPT ![k] = IF Len(q) >= PIN_FAILS THEN now + PIN_LOCKOUT ELSE @]
    /\ UNCHANGED <<now, hits, rooms, granted>>

Right(k) ==
    /\ guessing[k] > 0
    /\ guessing' = [guessing EXCEPT ![k] = @ - 1]
    /\ fails' = [fails EXCEPT ![k] = <<>>]
    /\ until' = [until EXCEPT ![k] = 0]
    /\ UNCHANGED <<now, hits, rooms, granted>>

\* Mutant of Sweep: a source whose oldest connection is old is forgotten.
SweepForgets ==
    /\ hits' = [k \in Sources |->
                   IF hits[k] # <<>> /\ Head(hits[k]) + WINDOW < now THEN <<>> ELSE hits[k]]
    /\ UNCHANGED <<now, fails, until, guessing, rooms, granted>>

\* The reaper's sweep, every few seconds.
Sweep ==
    /\ hits' = [k \in Sources |-> Recent(hits[k], WINDOW)]
    /\ UNCHANGED <<now, fails, until, guessing, rooms, granted>>

Standing == FoldFunctionOnSet(LAMBDA a, b : a + b, 0, rooms, Sources)

CreateRoom(k) ==
    /\ Standing < MAX_ROOMS /\ rooms[k] < MAX_ROOMS_PER_IP
    /\ rooms' = [rooms EXCEPT ![k] = @ + 1]
    /\ UNCHANGED <<now, hits, fails, until, guessing, granted>>

EndRoom(k) ==
    /\ rooms[k] > 0
    /\ rooms' = [rooms EXCEPT ![k] = @ - 1]
    /\ UNCHANGED <<now, hits, fails, until, guessing, granted>>

Next ==
    \/ Tick \/ Sweep
    \/ \E k \in Sources : Connect(k) \/ NoProof(k) \/ Wrong(k) \/ Right(k)
                          \/ CreateRoom(k) \/ EndRoom(k)

Spec == Init /\ [][Next]_vars

---------------------------------------------------------------------------
(* Properties. *)

\* No window of time, wherever it starts, sees more than LIMIT connections of
\* a source granted, although the table is swept between them (limits.py:30-52).
RatesBounded == \A k \in Sources : \A i, j \in DOMAIN granted[k] :
    j >= i + LIMIT => granted[k][j] > granted[k][i] + WINDOW

\* Enough wrong PINs in the table mean a lock, whichever sockets passed the
\* gate before it fell, and a key without one has its guesses left (limits.py:66-95).
LockFollowsFails == \A k \in Sources :
    Len(fails[k]) >= PIN_FAILS => until[k] > 0
=============================================================================
